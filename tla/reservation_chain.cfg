SPECIFICATION ReservationsSpec
CONSTANTS
    first = first
    second = second
    review = review
    check = check
    publish = publish
    again = again
    sibling = sibling
    MaxId = 7
    Lanes <- DevLanes
    Priorities = {1}
    StaleSeconds = 2
    Procs = {}
    Leases = {1}
    DeferTimes = {}
    SetStatuses = {}
    KnownIds = TRUE
    MaxTime = 2
    LastGrant = 2
    MaxTokens = 6
    MaxRequeue = 0
    Bodies <- AllKeys
    Keys <- AllKeys
    Roots <- NoRoots
    Manifests <- SidestepManifests
    Grants <- SmallGrants
    LineageDepth = 6
INVARIANTS
    ReservationsTypeOK
    WritersExclude
    DependenciesDelivered
    ReleasedIsFinished
    FinishedIsReleasable
PROPERTIES
    InspectionIsFinal
