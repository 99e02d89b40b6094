SPECIFICATION FairSpec
CONSTANTS
    Episodes = {e1}
    Jobs = {j1}
    Workers = {w1}
    NoEpisode = NoEpisode
    NoWorker = NoWorker
    Idle = Idle
    EnvOps = {}
    MaxAttempts = 1
    MaxCalls = 2
    MaxPosts = 1
    MaxRestarts = 1
PROPERTY DownloadsResolve
