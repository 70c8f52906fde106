\* Handlers of refreshes and operations of administrators never meet, and neither
\* do refresh tokens and token pairs: the same model values do for both.
CONSTANTS
    Users = {u1, u2}
    Requests = {r1, r2}
    Tokens = {v1, v2, v3}
    Operations = {r1, r2}
    NoUser = NoUser
    Horizon = 2
    NoCopy = NoCopy
    NoToken = NoToken
    h1 = h1
    a1 = a1
    Holders = {h1}
    Clients = {a1}
    Codes = {k1}
    Pairs = {v1, v2, v3}
    Owner <- OneOwner
SPECIFICATION AccountsSpec
SYMMETRY Symmetry
INVARIANTS SingleSuccessor RevocationFinal BanStands ClientRevocationFinal OneAccess
PROPERTIES ReplayIsolated ImplementsRotation SuperStands ChecksHold ClientRotation
CHECK_DEADLOCK FALSE
