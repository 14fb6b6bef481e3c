CONSTANTS
    Users = {u1, u2}
    Quotes = {q1}
    Projects = {p1, p2}
    Tasks = {t1}
    Handlers = {h1, h2}
    None = None
    MaxReviews = 2
SPECIFICATION Spec
SYMMETRY Symmetry
INVARIANTS
    TypeOK
    BuiltOnApproval
    CompletedByPeer
    ApprovedCompletes
CHECK_DEADLOCK FALSE
