SPECIFICATION FairSpec
CONSTANTS
    Episodes = {e1}
    Jobs = {j1, j2}
    Workers = {w1}
    NoEpisode = NoEpisode
    NoWorker = NoWorker
    Idle = Idle
    EnvOps = {"rediscovery", "crash"}
    MaxAttempts = 1
    MaxCalls = 2
    MaxPosts = 1
    MaxRestarts = 1
PROPERTIES
    ClaimsResolve
    StuckRecovers
    DiscoveredIsQueued
