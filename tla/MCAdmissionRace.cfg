SPECIFICATION Spec
CONSTANTS
    Users = {alice, bob}
    Requests = {r1, r2}
    Operators = {}
    NoOne = NoOne
    MayFail = FALSE
    MaxChanges = 1
SYMMETRY Interchangeable
INVARIANTS
    FreshContext
    WritesAuthorised
