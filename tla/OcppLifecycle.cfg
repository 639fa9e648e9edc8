SPECIFICATION FairSpec
CONSTANTS
    MaxRetries = 1
    MaxStored = 2
    MaxEvents = 3
    Risks = {"swallowed"}
CHECK_DEADLOCK FALSE
PROPERTIES
    Obeyed
    InService
