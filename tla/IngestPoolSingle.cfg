\* One worker, one job of up to two items, one restart and one failing call.
SPECIFICATION FairSpec
CONSTANTS
    Jobs = {j1}
    Items = {i1, i2}
    Filed = {i1}
    Workers = {w1}
    Resumers = {r1}
    BufCap = 1
    MaxErrors = 1
    MaxCrashes = 1
    MaxFaults = 1
    NoJob = NoJob
    NoItem = NoItem
INVARIANTS
    NoDuplicateInsert
PROPERTIES
    ImplementsLifecycle
    JobsSettle
    StopCompletes
