SPECIFICATION FairSpec
CONSTANTS
    NTasks = 4
    Deps <- Work
    Executing = {1, 4}
    Verifying = {2, 3}
    MaxRetries <- Once
    MaxConcurrent = 2
    MaxTasks = 3
    DiesAt <- ButAck
    MaxRuns = 3
    MaxFaults = 2
INVARIANTS
    ChildrenAgree
    ResultsCount
PROPERTIES
    WorkGoesOn
CHECK_DEADLOCK FALSE
