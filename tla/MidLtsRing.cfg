SPECIFICATION MCSpec
CONSTANTS
    Writers = {w1}
    MaxPages = 3
    PageCap = 2
    MaxAge = 1
    MaxTime = 2
    MaxMsgId = 7
    Events = {"START", "TARIFF", "END"}
    Faults = {}
    CrashAt = {"idle", "open", "write", "update", "purge"}
CHECK_DEADLOCK FALSE
INVARIANTS
    SessionWhole
    BootSucceeds
PROPERTIES
    RestartKeepsContext
    ImplementsLegalLog
