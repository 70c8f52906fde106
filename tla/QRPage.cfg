CONSTANTS
    Codes = {c1, c2}
    Users = {u1}
    Calls = {k1, k2}
    NoUser = NoUser
    NoCode = NoCode
    Patient = TRUE
    Faults = TRUE
SPECIFICATION FairSpec
INVARIANTS
    LandsOnConfirmed
    ShownIsCurrent
    ClosedIsClean
PROPERTY ConfirmedSettles
CHECK_DEADLOCK FALSE
