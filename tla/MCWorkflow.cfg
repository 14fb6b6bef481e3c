CONSTANTS
    Users = {u1, u2}
    Entities = {e1}
    MaterialRequests = {e1}
    Handlers = {h1, h2}
    None = None
    MaxInstances = 2
    MaxDecisions = 4
SPECIFICATION Spec
SYMMETRY Symmetry
INVARIANTS
    TypeOK
    FourEyes
    ReleaseSpendsApproval
    ReleaseAudited
    OneActivePerEntity
PROPERTY ReleaseIsAtomic
CHECK_DEADLOCK FALSE
