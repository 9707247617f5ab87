SPECIFICATION FairSpec
CONSTANTS
    retryMax = 3
    maxRetryAfter = 4
    busyRetryMaxDelay = 2
    defaultBusyRetryBudget = 4
    Timeout = 1
    PurgeBudget = 4
INVARIANTS SuccessMeansDone FailureMeansNotDone DeadlineKept SaturatedIs429 QueriesBounded
PROPERTY RequestsAnswered
CHECK_DEADLOCK FALSE
