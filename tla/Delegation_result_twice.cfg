SPECIFICATION Spec
CONSTANTS
    NTasks = 4
    Deps <- Work
    Executing = {1, 4}
    Verifying = {2, 3}
    MaxRetries <- Once
    MaxConcurrent = 2
    MaxTasks = 3
    DiesAt <- Everywhere
    MaxRuns = 3
    MaxFaults = 2
INVARIANTS
    ConsumedOnce
CHECK_DEADLOCK FALSE
