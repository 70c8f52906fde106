CONSTANTS
    Codes = {c1, c2}
    Users = {u1}
    Calls = {k1, k2}
    NoUser = NoUser
    NoCode = NoCode
    Patient = FALSE
    Faults = FALSE
SPECIFICATION Spec

INVARIANT ShownIsCurrent
CHECK_DEADLOCK FALSE
