CONSTANTS
    Keys = {k1}
    Conns = {c1, c2}
    Streams = {s1, s2}
    Servers = {a1}
    Callers = {h1}
    InCluster = TRUE
    DialErrors = FALSE
    None = None

SPECIFICATION FairSpec
INVARIANT IInv
PROPERTY ClosedNotTaken
PROPERTY MarkedIsRetired
PROPERTY ImplementsLink
CHECK_DEADLOCK FALSE
