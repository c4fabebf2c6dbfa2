SPECIFICATION Spec
CONSTANTS
    Assignments = {a1}
    Workers = {w1, w2}
    NoWorker = NoWorker
    LeaseTime = 2
    MaxTokens = 1
    MaxCancelled = 1
    MaxLinks = 2
INVARIANTS
    CompletedIsCompleted
SYMMETRY Interchangeable
CHECK_DEADLOCK FALSE
