----------------------------- MODULE Materials -----------------------------
(***************************************************************************)
(* Serialized units of one item of one tenant: the TASKS worker issues     *)
(* them to material requests or escalates to procurement, the INVENTORY    *)
(* worker creates and assigns them, and HTTP handlers add and receive      *)
(* them.  The workers run their transactions at the same time under READ   *)
(* COMMITTED: a transaction locks the row it writes, each of its           *)
(* statements reads what is committed when it starts, and nothing it wrote *)
(* is seen before it commits.                                              *)
(*                                                                         *)
(* Units are numbered by created_at.                                       *)
(***************************************************************************)
EXTENDS Integers, FiniteSetsExt

CONSTANTS
    Requests,      \* material requests released for fulfilment
    AutoOrders,    \* proc_auto_... procurement orders; also their bound
    TaskWorkers,   \* workers of the TASKS consumer
    StockWorkers,  \* workers of the INVENTORY consumer
    None,          \* no unit, no request
    Threshold,     \* reorder_threshold of units created or added
    ReceiptThreshold,  \* that of units received from procurement (2 in the code)
    MaxUnits,      \* bound: units ever created
    MaxDeliver,    \* deliveries of one fulfil command (5 in the code)
    MaxCommands    \* bound: deliveries of create and assign commands

ASSUME MaterialsAssumption ==
    /\ Requests \cap AutoOrders = {}
    /\ None \notin Requests \cup (1 .. MaxUnits)
    /\ IsFiniteSet(TaskWorkers \cup StockWorkers)
    /\ Threshold \in Nat
    /\ ReceiptThreshold \in Nat
    /\ MaxUnits \in Nat
    /\ MaxDeliver \in Nat \ {0}
    /\ MaxCommands \in Nat

Units   == 1 .. MaxUnits
Workers == TaskWorkers \cup StockWorkers

\* An escalated request r orders proc_<r>.
Orders == Requests \cup AutoOrders

VARIABLES
    stock,     \* status of each unit, "Absent" before its row is inserted
    received,  \* units that carry the threshold of a receipt
    request,   \* status of each material request
    issued,    \* unit reserved for a request (inventory_reservations)
    order,     \* status of each procurement order
    worker,    \* the transaction each worker is in
    tries,     \* deliveries made of the fulfil command of a request
    commands   \* history: deliveries of create and assign commands

vars == <<stock, received, request, issued, order, worker, tries, commands>>

Idle == [pc |-> "idle", unit |-> None]

\* A transaction: what it does, the unit it wrote and holds locked, the
\* request it is for, and whether it will insert an order.
Transaction == [pc : {"wrote", "counted", "ready", "escalating"},
                kind : {"fulfil", "create", "assign"},
                unit : Units \cup {None}, req : Requests \cup {None},
                reorder : BOOLEAN]

TypeOK ==
    /\ stock    \in [Units -> {"Absent", "In_Stock", "Assigned"}]
    /\ received \in SUBSET Units
    /\ request  \in [Requests -> {"Absent", "Procuring", "Fulfilled"}]
    /\ issued   \in [Requests -> Units \cup {None}]
    /\ order    \in [Orders -> {"Absent", "Bidding", "Completed"}]
    /\ worker   \in [Workers -> {Idle} \cup Transaction]
    /\ tries    \in [Requests -> 0 .. MaxDeliver]
    /\ commands \in 0 .. MaxCommands

Init ==
    /\ stock = [u \in Units |-> "Absent"]
    /\ received = {}
    /\ request = [r \in Requests |-> "Absent"]
    /\ issued = [r \in Requests |-> None]
    /\ order = [o \in Orders |-> "Absent"]
    /\ worker = [w \in Workers |-> Idle]
    /\ tries = [r \in Requests |-> 0]
    /\ commands = 0

-----------------------------------------------------------------------------
\* Rows, locks and what a statement sees.

Held(u) == \E w \in Workers : worker[w].unit = u

\* The next unit to be inserted, newer than all others.
Fresh(u) == u = 1 + Max({0} \cup {v \in Units : stock[v] # "Absent" \/ Held(v)})

\* What SELECT ... status='In_Stock' ... FOR UPDATE SKIP LOCKED chooses from.
Available == {u \in Units : stock[u] = "In_Stock" /\ ~Held(u)}

\* Faulty variant: units issued before may be issued again.
CollidesNever(u, r) == FALSE

\* unique (tenant_id, item_id, status) of inventory_reservations, where every
\* status is ISSUED: the unit has been issued to another request.
Collides(u, r) == \E q \in Requests \ {r} : issued[q] = u

\* Faulty variant: an issued unit gets the status of its reservation.
StatusAfterIssued == [fulfil |-> "Issued", create |-> "In_Stock", assign |-> "Assigned"]

\* The status a transaction writes on its unit.
StatusAfter == [fulfil |-> "Assigned", create |-> "In_Stock", assign |-> "Assigned"]

\* In_Stock units as worker w counts them: those committed and its own.
InStock(w) ==
    Cardinality({u \in Units : IF worker[w].unit = u
                               THEN StatusAfter[worker[w].kind] = "In_Stock"
                               ELSE stock[u] = "In_Stock"})

\* Faulty variant: the orders of escalated requests alone are looked up.
OrderOpenForRequest == \E o \in Requests : order[o] = "Bidding"

\* An order for the item is in Bidding.
OrderOpen == \E o \in Orders : order[o] = "Bidding"

Begin(w, pc, kind, u, r) ==
    worker' = [worker EXCEPT ![w] = [pc |-> pc, kind |-> kind, unit |-> u,
                                     req |-> r, reorder |-> FALSE]]

-----------------------------------------------------------------------------
\* FulfillMaterialRequestTransaction.

\* Faulty variant: a request fulfilled before is fulfilled again.
DoneNever(r) == FALSE

\* The command was carried out by an earlier delivery.
Done(r) == request[r] = "Fulfilled"

\* A delivery of the command up to its writes on the unit and the
\* reservation: nothing for a request that is done, the oldest unlocked unit
\* in stock, or the escalation when there is none.  A unit issued to another
\* request before violates the index: the transaction rolls back, the
\* callback fails the inbox row and asks for a redelivery.
Fulfil(w, r) ==
    /\ worker[w] = Idle
    /\ \A v \in Workers : worker[v] # Idle => worker[v].req # r
    /\ tries[r] < MaxDeliver
    /\ tries' = [tries EXCEPT ![r] = @ + 1]
    /\ \/ /\ Done(r)
          /\ UNCHANGED worker
       \/ /\ ~Done(r) /\ Available = {}
          /\ Begin(w, "escalating", "fulfil", None, r)
       \/ /\ ~Done(r) /\ Available # {}
          /\ IF Collides(Min(Available), r)
             THEN UNCHANGED worker
             ELSE Begin(w, "wrote", "fulfil", Min(Available), r)
    /\ UNCHANGED <<stock, received, request, issued, order, commands>>

\* No unit: the request waits for its order, which is opened or reopened.
Escalate(w) ==
    /\ worker[w].pc = "escalating"
    /\ LET r == worker[w].req IN
       /\ request' = [request EXCEPT ![r] = "Procuring"]
       /\ order'   = [order EXCEPT ![r] = "Bidding"]
    /\ worker' = [worker EXCEPT ![w] = Idle]
    /\ UNCHANGED <<stock, received, issued, tries, commands>>

-----------------------------------------------------------------------------
\* The INVENTORY worker.

StockCommand(w) ==
    /\ worker[w] = Idle
    /\ commands < MaxCommands
    /\ commands' = commands + 1
    /\ UNCHANGED <<stock, received, request, issued, order, tries>>

\* SaveInventoryItem inserts the unit, or writes In_Stock over an existing
\* one when its create command is delivered again.
CreateItem(w, u) ==
    /\ StockCommand(w)
    /\ Fresh(u) \/ (stock[u] # "Absent" /\ ~Held(u))
    /\ Begin(w, "wrote", "create", u, None)

\* AllocateInventoryItemTransaction, whatever the status of the unit.
AssignItem(w, u) ==
    /\ StockCommand(w)
    /\ stock[u] # "Absent" /\ ~Held(u)
    /\ Begin(w, "wrote", "assign", u, None)

-----------------------------------------------------------------------------
\* CheckReorderThresholdAndTriggerProcurement and the end of a transaction.

Kept == UNCHANGED <<stock, received, request, issued, order, tries, commands>>

\* MAX(reorder_threshold) of the units worker w sees; a create command
\* writes its own.
Level(w) ==
    LET seen    == {u \in Units : stock[u] # "Absent" \/ worker[w].unit = u}
        created == {u \in seen : worker[w].unit = u /\ worker[w].kind = "create"}
    IN  Max({IF u \in received \ created THEN ReceiptThreshold ELSE Threshold : u \in seen})

\* The count of units in stock is at or below the threshold.
Low(w) == InStock(w) <= Level(w)

\* The threshold and the count of units in stock are read.
Count(w) ==
    /\ worker[w].pc = "wrote"
    /\ worker' = [worker EXCEPT ![w].pc = IF Low(w) THEN "counted" ELSE "ready"]
    /\ Kept

\* Stock is low: is an order open?
LookUp(w) ==
    /\ worker[w].pc = "counted"
    /\ worker' = [worker EXCEPT ![w].pc = "ready", ![w].reorder = ~OrderOpen]
    /\ Kept

\* COMMIT publishes the unit, the request with its reservation, and the order.
Commit(w) ==
    /\ worker[w].pc = "ready"
    /\ LET t == worker[w] IN
       /\ stock' = [stock EXCEPT ![t.unit] = StatusAfter[t.kind]]
       /\ received' = IF t.kind = "create" THEN received \ {t.unit} ELSE received
       /\ IF t.kind = "fulfil"
          THEN /\ request' = [request EXCEPT ![t.req] = "Fulfilled"]
               /\ issued'  = [issued EXCEPT ![t.req] = t.unit]
          ELSE UNCHANGED <<request, issued>>
       /\ IF t.reorder
          THEN \E a \in AutoOrders : /\ order[a] = "Absent"
                                     /\ order' = [order EXCEPT ![a] = "Bidding"]
          ELSE UNCHANGED order
    /\ worker' = [worker EXCEPT ![w] = Idle]
    /\ UNCHANGED <<tries, commands>>

\* A statement fails or the process stops: everything is rolled back.
Abort(w) ==
    /\ worker[w] # Idle
    /\ worker' = [worker EXCEPT ![w] = Idle]
    /\ Kept

-----------------------------------------------------------------------------
\* HTTP handlers.

\* SaveInventoryItemDirect.
AddManually(u) ==
    /\ Fresh(u)
    /\ stock' = [stock EXCEPT ![u] = "In_Stock"]
    /\ UNCHANGED <<received, request, issued, order, worker, tries, commands>>

\* ConfirmProcurementReceipt, whatever the status of the order.
ConfirmReceipt(o, u) ==
    /\ order[o] # "Absent"
    /\ Fresh(u)
    /\ order' = [order EXCEPT ![o] = "Completed"]
    /\ stock' = [stock EXCEPT ![u] = "In_Stock"]
    /\ received' = received \cup {u}
    /\ UNCHANGED <<request, issued, worker, tries, commands>>

Next ==
    \/ \E w \in TaskWorkers, r \in Requests : Fulfil(w, r)
    \/ \E w \in StockWorkers, u \in Units : CreateItem(w, u) \/ AssignItem(w, u)
    \/ \E w \in Workers : Escalate(w) \/ Count(w) \/ LookUp(w) \/ Commit(w) \/ Abort(w)
    \/ \E u \in Units : AddManually(u) \/ \E o \in Orders : ConfirmReceipt(o, u)

Spec == Init /\ [][Next]_vars

-----------------------------------------------------------------------------

\* V8_FINANCE_INVENTORY.md: selection prevents "two concurrent fulfillment
\* workers from allocating the same serialized unit".  No unit is ever issued
\* to two requests, even when a repeated create command has put it back in
\* stock in between.
IssuedOnce ==
    \A q, r \in Requests : q # r /\ issued[q] # None => issued[q] # issued[r]

\* V8_FINANCE_INVENTORY.md: "The request ID is the idempotency key".  A
\* fulfilled request keeps its unit however often its command is delivered,
\* also when an earlier delivery had escalated it.
FulfilledForGood ==
    [][\A r \in Requests : request[r] = "Fulfilled" =>
          request'[r] = "Fulfilled" /\ issued'[r] = issued[r]]_vars

\* Automatic reordering opens no order while one is open, as far as a
\* transaction sees: concurrent workers open at most one each.
AutoOrdersBounded ==
    Cardinality({a \in AutoOrders : order[a] = "Bidding"}) <= Cardinality(Workers)

=============================================================================
