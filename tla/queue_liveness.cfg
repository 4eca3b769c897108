SPECIFICATION FairSpec
CONSTANTS
    MaxId = 2
    Lanes = {main}
    Priorities = {1}
    StaleSeconds = 2
    Procs = {p1}
    Leases = {2}
    DeferTimes = {0, 2, 3}
    SetStatuses = {"done"}
    KnownIds = TRUE
    MaxTime = 3
    LastGrant = 1
    MaxTokens = 1
    MaxRequeue = 0
PROPERTIES
    PromotedOnlyWhenReady
    AbandonedClaimEnds
    DeferralEnds
