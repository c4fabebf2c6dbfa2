SPECIFICATION FairSpec
CONSTANTS
    NTasks = 4
    Deps <- Shared
    Last <- Latest
    Verifying = {2, 4}
    Asking = {3}
    Calls = {c1}
    MaxRetries = 1
    MaxRepair = 2
    MaxTasks = 5
    MaxRuns = 3
INVARIANTS
    RetryBudget
    WorkIsDoneOnce
PROPERTIES
    GoesForward
CHECK_DEADLOCK FALSE
