\* Two workers race on one job of up to two items.
SPECIFICATION Spec
CONSTANTS
    Jobs = {j1}
    Items = {i1, i2}
    Filed = {i1}
    Workers = {w1, w2}
    Resumers = {r1}
    BufCap = 1
    MaxErrors = 1
    MaxCrashes = 1
    MaxFaults = 1
    NoJob = NoJob
    NoItem = NoItem
SYMMETRY Symmetry
INVARIANTS
    VerdictSound
    NeverOvercounts
    DoneMeansStored
    DoneMeansIndexed
    ErrorsExplainFailures
    GracefulStopLeavesNoOrphan
    CountersExact
    CountedOnce
PROPERTY
    OutcomesStable
