SPECIFICATION Spec
CONSTANTS
    j1 = j1
    Jobs = {j1}
    Daemons = {d1, d2}
    Approvals = {a1}
    NoDaemon = NoDaemon
    NoApproval = NoApproval
    MaxAttempts = 1
    MaxActive = 2
    LeaseTime = 2
    StaleTime = 2
    BackoffUnit = 1
    Priority <- EqualPriority
    MaxReopens = 1
    Env <- OneDaemon
INVARIANTS
    RecoverableClaim
PROPERTIES
    RootIsStable
CHECK_DEADLOCK FALSE
SYMMETRY Interchangeable
