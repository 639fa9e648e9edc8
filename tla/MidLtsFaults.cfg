SPECIFICATION FairSpec
CONSTANTS
    Writers = {w1}
    MaxPages = 2
    PageCap = 2
    MaxAge = 1
    MaxTime = 2
    MaxMsgId = 4
    Events = {"START", "TARIFF", "AUTH"}
    Faults = {"open", "write", "sync", "remove"}
    CrashAt = {"idle", "open", "write", "update", "purge"}
CHECK_DEADLOCK FALSE
INVARIANTS
    NoIdAhead
PROPERTIES
    RetentionKept
    BootTerminates
