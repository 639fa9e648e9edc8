SPECIFICATION MCSpec
CONSTANTS
    MaxFiles = 3
    MaxMeters = 2
    QueueCap = 2
    CacheSize = 5
    MaxNo = 6
    MaxRisks = 1
    Faults = {"convert"}
    Risks = {"uncounted", "reuse", "clear", "crash"}
CHECK_DEADLOCK FALSE
INVARIANTS
    NothingLost
    OneActive
    CountsKept
    OrderKept
    IdsKept
