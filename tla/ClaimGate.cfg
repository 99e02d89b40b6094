SPECIFICATION Spec
CONSTANTS
    Workers = {w1, w2}
    Nobody = Nobody
    Threshold = 2
    EnvOps = {"timer", "dberror"}
    MaxJobs = 2
    MaxRestarts = 1
SYMMETRY Ids
INVARIANTS
    PauseLeaksOnePerWorker
    StreakPauses
