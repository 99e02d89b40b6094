SPECIFICATION Spec
CONSTANTS
    Episodes = {e1}
    Jobs = {j1, j2}
    Workers = {w1, w2}
    NoEpisode = NoEpisode
    NoWorker = NoWorker
    Idle = Idle
    EnvOps = {"rediscovery", "crash", "purge"}
    MaxAttempts = 2
    MaxCalls = 2
    MaxPosts = 1
SYMMETRY Ids
INVARIANTS
    OneLiveJobPerEpisode
    AnsweredOncePerClaim
    OneWorkerPerJob
    ProcessedHasTranscript
