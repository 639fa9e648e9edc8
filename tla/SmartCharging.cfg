SPECIFICATION Spec
CONSTANTS
    Day = 2
    Never = 1000
    None = None
    MaxTime = 3
    MaxTx = 2
    MaxCommands = 2
    MaxOdd = 1
    Profiles <- Plain
    Clears <- PlainClears
CHECK_DEADLOCK FALSE
INVARIANTS
    LimitRight
    ProfilesKept
    TxEnds
    CompositeRight
