SPECIFICATION FairSpec
CONSTANTS
    Tracks = {t1}
    Files = {f1}
    Callers = {c1}
    Ingesters = {w1}
    ReapBatch = 1
    ForceAge = 1
    BackoffBase = 1
    BackoffCap = 1
    MaxAttempts = 1
    MaxCrashes = 0
    MaxFaults = 0
    NoTrack = NoTrack
    NoFile = NoFile
INVARIANT GetAfterDelete
