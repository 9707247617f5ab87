SPECIFICATION Spec
CONSTANTS
    Repos = {"r", "s"}
    Files <- MCFiles
    NoFile = ""
    Ids <- MCIds
    Pushes <- MCPushes
    Databases <- MCDatabases
    Pushers = {w1}
    MaxPushes = 3
    defaultDepth = 2
    maxDepth = 3
    maxImportCycleDepth = 3
    Limits = {0, 1, 9}
    Scores <- MCScores
    AsReal <- MCReal
    defaultNeighborLimit = 2
    maxNeighborLimit = 3
    defaultImportantLimit = 1
    maxImportantLimit = 2
    defaultAmbiguousLimit = 1
    maxAmbiguousLimit = 2
    defaultListLimit = 1
    maxListLimit = 2
INVARIANTS NothingStale NothingLost MembersHaveHyperedge NeighborsExact ShortestPathShortest ImportCyclesExact  AmbiguousListed
CHECK_DEADLOCK FALSE
