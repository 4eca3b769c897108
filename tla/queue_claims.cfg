SPECIFICATION Spec
CONSTANTS
    MaxId = 2
    Lanes = {main}
    Priorities = {0, 1}
    StaleSeconds = 2
    Procs = {p1}
    Leases = {1}
    DeferTimes = {1}
    SetStatuses = {"done", "pending"}
    KnownIds = TRUE
    MaxTime = 2
    LastGrant = 1
    MaxTokens = 2
    MaxRequeue = 1
INVARIANTS
    TypeOK
    LeaseHonoured
    TokensNameOneDirective
    ParentsPrecede
    ClaimColumnsAgree
PROPERTIES
    ProtectedClaimedOnce
    TakesTheHead
