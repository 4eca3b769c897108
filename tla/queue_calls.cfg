SPECIFICATION Spec
CONSTANTS
    MaxId = 1
    Lanes = {main}
    Priorities = {1}
    StaleSeconds = 2
    Procs = {p1, p2}
    Leases = {1}
    DeferTimes = {2}
    SetStatuses <- GrpcStatuses
    KnownIds = TRUE
    MaxTime = 3
    LastGrant = 3
    MaxTokens = 2
    MaxRequeue = 2
INVARIANTS
    ProtectedIsHeld
PROPERTIES
    FinishedStaysFinished
    LostClaimCountedOnce
SYMMETRY ProcSymmetry
