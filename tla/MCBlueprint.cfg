SPECIFICATION FairSpec
CONSTANTS
    Requests = {r1, r2}
    Loaders = {d1}
    Schedulers = {}
    Null = Null
    Malformed = Malformed
    Missing = Missing
    Strip <- MCStrip
    BusinessTypes = {"retail", "services"}
    Priorities = {"expense_control"}
    Capabilities <- MCCapabilities
    Payloads <- MCPayloads
    HasDefaults = TRUE
    MayFail = TRUE
    MaxVersions = 3
INVARIANTS
    TypeOK
    HistoryMatchesActive
    RestoreFaithful
    CacheServesPublished
    ActivationFollowsEvent
    DuplicatesBounded
PROPERTIES
    HistoryIsAppendOnly
    RequestsTerminate
