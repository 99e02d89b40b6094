SPECIFICATION AdminSpec
CONSTANTS
    Episodes = {e1}
    Jobs = {j1, j2}
    Workers = {w1}
    NoEpisode = NoEpisode
    NoWorker = NoWorker
    Idle = Idle
    EnvOps = {}
    MaxAttempts = 1
    MaxCalls = 2
    MaxPosts = 1
    MaxAudit = 1
    AdminOps = {"cancel", "requeue", "undo", "retry"}
SYMMETRY Ids
PROPERTY ImplementsWorkQueue
