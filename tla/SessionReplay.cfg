CONSTANTS
    Users = {u1}
    Requests = {r1}
    Tokens = {t1, t2, t3}
    NoUser = NoUser
    NoToken = NoToken
SPECIFICATION Spec
PROPERTY ReplayRevokesFamily
