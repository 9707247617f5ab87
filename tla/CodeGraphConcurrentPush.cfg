SPECIFICATION Spec
CONSTANTS
    Repos = {"r", "s"}
    Files <- MCFiles
    NoFile = ""
    Ids <- MCIds
    Pushes <- MCStoring
    Databases <- MCEmpty
    Pushers = {w1, w2}
    MaxPushes = 2
    defaultDepth = 2
    maxDepth = 3
    maxImportCycleDepth = 3
    Limits = {0, 1, 9}
    Scores <- MCScores
    AsReal <- MCReal
    defaultNeighborLimit = 2
    maxNeighborLimit = 3
    defaultImportantLimit = 1
    maxImportantLimit = 2
    defaultAmbiguousLimit = 1
    maxAmbiguousLimit = 2
    defaultListLimit = 1
    maxListLimit = 2
INVARIANT NothingStale
CHECK_DEADLOCK FALSE
