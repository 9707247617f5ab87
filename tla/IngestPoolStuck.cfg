\* Two workers: a job that no Resume can finish.
SPECIFICATION FairSpec
CONSTANTS
    Jobs = {j1}
    Items = {i1}
    Filed = {i1}
    Workers = {w1, w2}
    Resumers = {r1}
    BufCap = 2
    MaxErrors = 1
    MaxCrashes = 0
    MaxFaults = 0
    NoJob = NoJob
    NoItem = NoItem
PROPERTY
    JobsSettle
