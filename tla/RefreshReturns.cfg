SPECIFICATION FairSpec
CONSTANTS
    tabA = tabA
    tabB = tabB
    a1 = a1
    a2 = a2
    b1 = b1
    Tabs = {tabA, tabB}
    Callers = {a1, b1}
    TabOf <- SinglePlacement
    Tokens = {n1}
    MaxNet = 1
    NoTab = NoTab
    NoToken = NoToken
    WebLocks = FALSE
PROPERTY CallersReturn
