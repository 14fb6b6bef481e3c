CONSTANTS
    Requests = {r1, r2}
    AutoOrders = {a1, a2, a3}
    TaskWorkers = {worker1, worker2}
    StockWorkers = {worker2}
    None = None
    Threshold = 0
    ReceiptThreshold = 2
    MaxUnits = 3
    MaxDeliver = 2
    MaxCommands = 2
SPECIFICATION Spec
SYMMETRY Symmetry
INVARIANTS
    TypeOK
    IssuedOnce
    AutoOrdersBounded
PROPERTY FulfilledForGood
CHECK_DEADLOCK FALSE
