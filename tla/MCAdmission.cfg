SPECIFICATION Spec
CONSTANTS
    Users = {alice, bob}
    Requests = {r1}
    Operators = {o1}
    NoOne = NoOne
    MayFail = TRUE
    MaxChanges = 2
SYMMETRY Interchangeable
INVARIANTS
    TypeOK
    AdmissionCurrent
    RefusalJustified
