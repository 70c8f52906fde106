CONSTANTS
    Users = {u1}
    Requests = {r1}
    Writers = {w1}
    Logins = {}
    MaxSize = 1
    MaxWrites = 1
    NoUser = NoUser
    NoRequest = NoRequest
    NoEntry = NoEntry
SPECIFICATION Spec
INVARIANT NoStaleAfterInvalidate
