SPECIFICATION Spec
CONSTANTS
    Tokens = {"a", "b", "c"}
    Families = {{"a", "b"}}
    MaxEvents = 4
    MaxRisks = 1
    Risks = {"late", "second", "stale", "race", "nack", "disable", "sched", "gap", "flap", "mode"}
CHECK_DEADLOCK FALSE
INVARIANT
    TxInState
PROPERTIES
    StopEnds
    DisconnectEnds
    TokenRight
    ReservationKept
    OwnerStops
