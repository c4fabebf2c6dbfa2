SPECIFICATION FairSpec
CONSTANTS
    j1 = j1
    Jobs = {j1}
    Daemons = {d1, d2}
    Approvals = {a1}
    NoDaemon = NoDaemon
    NoApproval = NoApproval
    MaxAttempts = 2
    MaxActive = 1
    LeaseTime = 2
    StaleTime = 2
    BackoffUnit = 1
    Priority <- EqualPriority
    MaxReopens = 1
    Env <- NoCircumstances
PROPERTIES
    JobsMoveOn
    KeepsContract
CHECK_DEADLOCK FALSE
