SPECIFICATION Spec
CONSTANTS
    Tracks = {t1}
    Files = {f1, f2}
    Callers = {c1, c2}
    Ingesters = {w1}
    ReapBatch = 1
    ForceAge = 1
    BackoffBase = 1
    BackoffCap = 1
    MaxAttempts = 2
    MaxCrashes = 0
    MaxFaults = 1
    NoTrack = NoTrack
    NoFile = NoFile
SYMMETRY Symmetry
INVARIANTS HiddenOnlyIfDeleted CleanupOnlyAfterPurge
PROPERTY ReaperUncoversNothing
