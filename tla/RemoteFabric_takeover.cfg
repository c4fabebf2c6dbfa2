SPECIFICATION Spec
CONSTANTS
    Assignments = {a1}
    Workers = {w1, w2}
    NoWorker = NoWorker
    LeaseTime = 2
    MaxTokens = 2
    MaxCancelled = 1
    MaxLinks = 2
INVARIANTS
    LeasesAgree
    NewestSettles
    ToolRunIsRecorded
PROPERTIES
    SettledIsFinal
SYMMETRY Interchangeable
CHECK_DEADLOCK FALSE
