SPECIFICATION FairSpec
CONSTANTS
    Repos = {r1, r2}
    Procs = {p1}
    MaxConcurrency = 2
    MaxPushes = 2
    MaxFaults = 1
    MaxStops = 1
    NoRepo = NoRepo
INVARIANT CleanMeansCurrent
PROPERTY DirtySettles
CHECK_DEADLOCK FALSE
