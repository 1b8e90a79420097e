CONSTANTS
    Ids = {i1, i2}
    MaxTime = 3
    Idle = 1
    Lag = 1
    MaxNow = 14
    MaxMissed = 1
    None = None

SPECIFICATION Spec
INVARIANT TypeOK
INVARIANT CachedIsAnnounced
INVARIANT IdleIsForgotten
CHECK_DEADLOCK FALSE
