SPECIFICATION Spec
CONSTANTS
    Requests = {r1}
    Loaders = {}
    Schedulers = {s1}
    Null = Null
    Malformed = Malformed
    Missing = Missing
    Strip <- MCStrip
    BusinessTypes = {"retail", "services"}
    Priorities = {"expense_control"}
    Capabilities <- MCCapabilities
    Payloads <- MCPayloads
    HasDefaults = FALSE
    MayFail = FALSE
    MaxVersions = 3
INVARIANT CacheFresh
CHECK_DEADLOCK FALSE
