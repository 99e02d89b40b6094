SPECIFICATION AdminSpec
CONSTANTS
    Episodes = {e1}
    Jobs = {j1}
    Workers = {w1}
    NoEpisode = NoEpisode
    NoWorker = NoWorker
    Idle = Idle
    EnvOps = {"purge"}
    MaxAttempts = 1
    MaxCalls = 2
    MaxPosts = 1
    MaxAudit = 1
    AdminOps = {"blacklist", "unblacklist", "undo", "retry", "retranscribe", "process", "delete"}
SYMMETRY Ids
INVARIANTS
    DeletedHasNoChunks
    NoBlacklistLimbo
