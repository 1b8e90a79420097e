CONSTANTS
    Ids = {1, 2, 3}
    GoroutineCount = 2
    Chans = {c1, c2}
    QueueLimit = 2
    MaxPackages = 2
    None = None

SPECIFICATION FairSpec
INVARIANT TypeOK
INVARIANT OneWorkerPerIndex
PROPERTY InOrder
PROPERTY ImplementsDelivery
PROPERTY EachLeaves
CHECK_DEADLOCK FALSE
