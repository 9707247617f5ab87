SPECIFICATION FairSpec
CONSTANTS
    Replicas = {r1}
    MaxFaults = 2
    MaxRequests = 2
    MaxBoots = 2
INVARIANTS ReadyMeansMigrated NeverReplayed DbClosedLast
PROPERTIES StartupSettles ShutdownEnds
CHECK_DEADLOCK FALSE
