CONSTANTS
    Keys = {k1, k2}
    Conns = {c1, c2}
    Streams = {s1, s2, s3}
    Servers = {a1, a2}
    Callers = {h1, h2}
    InCluster = TRUE
    DialErrors = FALSE
    None = None

SPECIFICATION Spec
INVARIANT TypeOK
INVARIANT NoStaleConn
INVARIANT SendHasStream
INVARIANT NoOrphanStream
INVARIANT WriteNeverPanics
PROPERTY ImplementsLink
SYMMETRY Symmetry
CONSTRAINT BeforeShutdown
CHECK_DEADLOCK FALSE
