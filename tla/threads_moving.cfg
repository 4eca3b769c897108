SPECIFICATION ThreadsSpec
CONSTANTS
    main = main
    text = text
    root = root
    next = next
    MaxId = 2
    Lanes = {main}
    Priorities = {1}
    StaleSeconds = 2
    Procs = {p1}
    Leases = {}
    DeferTimes = {}
    SetStatuses = {"done", "pending"}
    KnownIds = TRUE
    MaxTime = 1
    LastGrant = 1
    MaxTokens = 1
    MaxRequeue = 1
    Bodies = {text}
    Keys = {root, next}
    Roots <- Nothing
    Manifests <- Nothing
    Readers = {q}
    Orderly = FALSE
INVARIANTS
    DoneWasDone
