SPECIFICATION ServiceSpec
CONSTANTS
    main = main
    MaxId = 1
    Lanes = {main}
    Priorities = {1}
    StaleSeconds = 2
    Procs = {p1}
    Leases = {1}
    DeferTimes = {}
    SetStatuses = {}
    KnownIds = TRUE
    MaxTime = 3
    LastGrant = 3
    MaxTokens = 2
    MaxRequeue = 0
    Requests <- SmallRequests
    Modes = {"log-only", "enforce"}
    Skew = 1
    LeastTtl = 1
    Second = 2
    UsualLease = 2
INVARIANTS
    ServiceTypeOK
    RunsOnce
    ReplyIsOfItsClaim
PROPERTIES
    ReplyTellsThePromise
