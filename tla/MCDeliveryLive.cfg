CONSTANTS
    Events = {e1, e2}
    Dropping = {e2}
    BatchSize = 1
    MaxDeliver = 2
    MaxStored = 3
    MaxFaults = 1
SPECIFICATION FairSpec
PROPERTIES
    EventuallyPublished
    EventuallySettled
CHECK_DEADLOCK FALSE
