SPECIFICATION ThreadsSpec
CONSTANTS
    main = main
    text = text
    root = root
    next = next
    MaxId = 3
    Lanes = {main}
    Priorities = {1}
    StaleSeconds = 2
    Procs = {p1}
    Leases = {}
    DeferTimes = {}
    SetStatuses = {"done"}
    KnownIds = TRUE
    MaxTime = 1
    LastGrant = 1
    MaxTokens = 1
    MaxRequeue = 0
    Bodies = {text}
    Keys = {root, next}
    Roots <- Nothing
    Manifests <- Nothing
    Readers = {q}
    Orderly = TRUE
INVARIANTS
    ThreadsTypeOK
    DoneIsFinished
    NothingOverlooked
