SPECIFICATION UpdateSpec
CONSTANTS
    Versions = {1, 2, 3}
    OcppVersion = 9
    Size <- TwoBlocks
    Chunk = 2
    Lines = 2
    MaxTries = 2
    Bad = {3}
    Refused = {1}
    Kinds = {"safe", "segmented", "sdk", "ocpp", "ifnew"}
    MaxCommands = 2
    MaxTroubles = 3
INVARIANT
    Matched
PROPERTIES
    RunsAgain
    UpdateEnds
CHECK_DEADLOCK FALSE
