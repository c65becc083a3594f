SPECIFICATION Spec
CONSTANTS
    Users = {alice, bob}
    Requests = {r1}
    Operators = {}
    NoOne = NoOne
    MayFail = TRUE
    MaxChanges = 2
INVARIANT
    IdentityHasCompany
