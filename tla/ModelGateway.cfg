CONSTANTS
    small1 = small1
    frontier1 = frontier1
    own1 = own1
    old = old
    kept = kept
    new = new
    Small = {small1}
    Frontier = {frontier1}
    Models = {old, kept, new}
    NoModel = NoModel
    Registry <- MCRegistry
    Overrides <- MCOverrides
    Safe = {old, kept, new}
    Namespace <- MCNamespace
    Listings <- MCListings
    Version <- MCVersion
    Cost <- MCCost
    Graders = {g1}
    Creators = {c1}
    Own = {own1}
    OwnModel <- MCOwnModel
    Writer = frontier1
    RoundCeiling = 1
    DailyCeiling = 2
    MAX_ATTEMPTS = 2
    MaxCost = 1
    MaxJobs = 3
    MaxFaults = 1
SPECIFICATION GatewayFairSpec
INVARIANT OvershootIsBounded
INVARIANT FewDoomedRequests
INVARIANT SeatsAskTheirModel
PROPERTY CallsEnd
CHECK_DEADLOCK FALSE
