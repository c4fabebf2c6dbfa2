SPECIFICATION Spec
CONSTANTS
    j1 = j1
    Jobs = {j1, j2}
    Daemons = {d1, d2}
    Approvals = {a1}
    NoDaemon = NoDaemon
    NoApproval = NoApproval
    MaxAttempts = 2
    MaxActive = 2
    LeaseTime = 2
    StaleTime = 2
    BackoffUnit = 1
    Priority <- FirstHigher
    MaxReopens = 0
    Env <- NoCircumstances
INVARIANTS
    TypeOK
    ExecutionSafe
    AttemptBudget
PROPERTIES
    OutcomeStands
    WaitingRefunds
CHECK_DEADLOCK FALSE
SYMMETRY Interchangeable
