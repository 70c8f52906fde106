CONSTANTS
    Codes = {c1, c2}
    Users = {u1, u2}
    Sessions = {s1, s2, s3}
    Requests = {r1, r2, r3}
    NoUser = NoUser
    NoCode = NoCode
    NoSession = NoSession
SPECIFICATION Spec
SYMMETRY Symmetry
INVARIANTS SingleGrant CancelExcludesLogin SessionOfConfirmer
PROPERTY ImplementsGrant
CHECK_DEADLOCK FALSE
