\* Three requests to two procedures, through four chains.
CONSTANTS
    Requests = {r1, r2, r3}
    Methods = {m1, m2}
    NoCell = NoCell
    Nobody = Nobody
    Chains <- SomeChains
SYMMETRY RequestSymmetry
SPECIFICATION Spec
INVARIANTS
    TypeOK
    MeasuredByCode
    SpansEnd
    FailuresLogged
    OneTrace
PROPERTIES
    CountsAtomically
