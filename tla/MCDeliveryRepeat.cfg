CONSTANTS
    Events = {e1, e2}
    Dropping = {}
    BatchSize = 1
    MaxDeliver = 2
    MaxStored = 3
    MaxFaults = 1
SPECIFICATION FairSpec
PROPERTY ProcessedNotRepeated
CHECK_DEADLOCK FALSE
