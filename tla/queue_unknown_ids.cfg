SPECIFICATION Spec
CONSTANTS
    MaxId = 1
    Lanes = {main}
    Priorities = {1}
    StaleSeconds = 2
    Procs = {p1, p2}
    Leases = {1}
    DeferTimes = {}
    SetStatuses <- CliStatuses
    KnownIds = FALSE
    MaxTime = 2
    LastGrant = 3
    MaxTokens = 2
    MaxRequeue = 1
INVARIANTS
    ProtectedIsHeld
