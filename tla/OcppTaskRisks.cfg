SPECIFICATION Spec
CONSTANTS
    MaxFiles = 1
    MaxMeters = 1
    QueueCap = 1
    CacheSize = 2
    MaxNo = 2
    MaxAttempts = 2
    MaxGeneric = 1
    MaxDrops = 1
CHECK_DEADLOCK FALSE
INVARIANTS
    NeverStuck
