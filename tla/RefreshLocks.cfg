SPECIFICATION Spec
CONSTANTS
    tabA = tabA
    tabB = tabB
    a1 = a1
    a2 = a2
    b1 = b1
    Tabs = {tabA, tabB}
    Callers = {a1, a2, b1}
    TabOf <- Placement
    Tokens = {n1, n2}
    MaxNet = 2
    NoTab = NoTab
    NoToken = NoToken
    WebLocks = TRUE
SYMMETRY Symmetry
INVARIANTS OneFetch ReplayNeedsFailure
PROPERTY RefusalClearsDeadToken
