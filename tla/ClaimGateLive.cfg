SPECIFICATION FairSpec
CONSTANTS
    Workers = {w1}
    Nobody = Nobody
    Threshold = 1
    EnvOps = {}
    MaxJobs = 2
    MaxRestarts = 0
PROPERTIES
    BacklogIsSwept
    DiscoveryRuns
INVARIANT NoLostWakeup
