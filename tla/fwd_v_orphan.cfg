CONSTANTS
    Keys = {k1}
    Conns = {c1, c2, c3}
    Streams = {s1, s2, s3}
    Servers = {a1}
    Callers = {h1}
    InCluster = FALSE
    DialErrors = FALSE
    None = None

SPECIFICATION Spec
INVARIANT NoOrphanStream
SYMMETRY Symmetry
CHECK_DEADLOCK FALSE
