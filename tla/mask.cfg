CONSTANTS
    W = 5
    Sent = 2

SPECIFICATION Spec
INVARIANT TypeOK
INVARIANT AcceptsPowersOfTwo
INVARIANT IndexIsRemainder
INVARIANT KeyHasOneWorker
INVARIANT SentKeyHasOneWorker
CHECK_DEADLOCK FALSE
