SPECIFICATION FairSpec
CONSTANTS
    j1 = j1
    Jobs = {j1}
    Daemons = {d1}
    Approvals = {a1}
    NoDaemon = NoDaemon
    NoApproval = NoApproval
    MaxAttempts = 1
    MaxActive = 1
    LeaseTime = 2
    StaleTime = 2
    BackoffUnit = 1
    Priority <- EqualPriority
    MaxReopens = 0
    Env <- CliBeside
PROPERTIES
    ApprovalWakes
CHECK_DEADLOCK FALSE
