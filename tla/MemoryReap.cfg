SPECIFICATION FairSpec
CONSTANTS
    Tracks = {t1, t2}
    Files = {}
    Callers = {c1}
    Ingesters = {}
    ReapBatch = 1
    ForceAge = 1
    BackoffBase = 2
    BackoffCap = 3
    MaxAttempts = 2
    MaxCrashes = 1
    MaxFaults = 0
    NoTrack = NoTrack
    NoFile = NoFile
PROPERTY TombstonesReaped
