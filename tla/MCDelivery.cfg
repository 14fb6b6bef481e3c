CONSTANTS
    Events = {e1, e2}
    Dropping = {e2}
    BatchSize = 2
    MaxDeliver = 2
    MaxStored = 3
    MaxFaults = 2
SPECIFICATION Spec
INVARIANTS
    TypeOK
    PublishedIsStored
    SettledWasRun
    DuplicatesNeedTwoFaults
CHECK_DEADLOCK FALSE
