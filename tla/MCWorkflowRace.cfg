CONSTANTS
    Users = {u1, u2}
    Entities = {e1}
    MaterialRequests = {e1}
    Handlers = {h1, h2}
    None = None
    MaxInstances = 1
    MaxDecisions = 3
SPECIFICATION Spec
SYMMETRY Symmetry
PROPERTY TransitionsValidated
CHECK_DEADLOCK FALSE
