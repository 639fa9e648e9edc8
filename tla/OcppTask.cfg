SPECIFICATION FairSpec
CONSTANTS
    MaxFiles = 2
    MaxMeters = 1
    QueueCap = 1
    CacheSize = 2
    MaxNo = 3
    MaxAttempts = 2
    MaxGeneric = 1
    MaxDrops = 1
CONSTRAINT
    Undisturbed
CHECK_DEADLOCK FALSE
PROPERTIES
    ImplementsDelivery
    Settled
