CONSTANTS
    Users = {u1}
    Requests = {r1, r2, r3}
    Writers = {w1}
    Logins = {l1}
    MaxSize = 1
    MaxWrites = 2
    NoUser = NoUser
    NoRequest = NoRequest
    NoEntry = NoEntry
SPECIFICATION FairSpec
INVARIANTS GuardSound OneStaleFill
PROPERTIES EventuallyFresh RequestReturns
