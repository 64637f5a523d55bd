CONSTANTS
    a = a
    b = b
    c = c
    d = d
    Names = {a, b, c, d}
    NoName = NoName
    Registrations <- MCRegistrations
SPECIFICATION FairSpec
INVARIANTS
    TypeOK
    DependenciesFirst
    CyclesRefused
    EarliestRegisteredFirst
PROPERTIES
    ExecuteReturns
