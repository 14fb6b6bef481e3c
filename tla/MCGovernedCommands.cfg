CONSTANTS
    Users = {u1, u2}
    Entities = {e1}
    MaterialRequests = {e1}
    Handlers = {h1, h2}
    None = None
    MaxInstances = 1
    MaxDecisions = 4
    MaxReleases = 2
    Dropping = {}
    BatchSize = 1
    MaxDeliver = 2
    MaxStored = 1
    MaxFaults = 0
SPECIFICATION SystemSpec
SYMMETRY Symmetry
VIEW Unaudited
INVARIANT RunsAreFourEyed
PROPERTY KeepsPromise
CHECK_DEADLOCK FALSE
