SPECIFICATION BridgeSpec
CONSTANTS
    client = client
    Clients = {client}
    Owner <- OneOwner
    main = main
    spec = spec
    patch = patch
    root = root
    next = next
    other = other
    MaxId = 3
    Lanes = {main}
    Priorities = {0, 1}
    StaleSeconds = 2
    Procs = {}
    Leases = {2}
    DeferTimes = {}
    SetStatuses = {}
    KnownIds = TRUE
    MaxTime = 3
    LastGrant = 2
    MaxTokens = 2
    MaxRequeue = 0
    Bodies = {spec, patch}
    Keys = {root, next, other}
    Roots <- SmallRoots
    Manifests <- SmallManifests
INVARIANTS
    HandoffTypeOK
    BridgeTypeOK
    ToldIsTheOnlyClaim
    SettledCompletely
    KeyNamesOneDirective
    AcksAreSealed
PROPERTIES
    ToldLeaseIsGranted
    SettledByItsOnlyClaim
    ImplementsLedger
