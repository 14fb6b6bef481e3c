-------------------------- MODULE MaterialsProofs --------------------------
(***************************************************************************)
(* Theorems about Materials, for any requests, workers and units, and any  *)
(* bounds.                                                                 *)
(***************************************************************************)
EXTENDS Materials, FiniteSetTheorems, WellFoundedInduction, TLAPS

\* Transactions lock units of their own, and one at a time is for a request.
LocksOK ==
    \A v, w \in Workers : v # w =>
        /\ worker[v].unit # None => worker[v].unit # worker[w].unit
        /\ worker[v].pc # "idle" /\ worker[w].pc # "idle" /\ worker[v].req # None =>
               worker[v].req # worker[w].req

\* What a transaction may still rely on when it commits: its request is not
\* fulfilled, and no other request was issued its unit.
Holds(w) ==
    worker[w].pc # "idle" =>
        /\ worker[w].kind = "fulfil" =>
               /\ worker[w].req \in Requests
               /\ request[worker[w].req] # "Fulfilled"
               /\ worker[w].pc # "escalating" =>
                      worker[w].unit \in Units /\ ~Collides(worker[w].unit, worker[w].req)
        /\ worker[w].kind # "fulfil" =>
               worker[w].unit \in Units /\ worker[w].req = None /\ worker[w].pc # "escalating"

HoldsOK == \A w \in Workers : Holds(w)

IInv == TypeOK /\ LocksOK /\ HoldsOK /\ IssuedOnce

-----------------------------------------------------------------------------
\* The least and the greatest of a set.

LEMMA LeastIsLeast ==
  ASSUME NEW S \in SUBSET Nat, S # {}
  PROVE  Min(S) \in S /\ \A y \in S : Min(S) <= y
<1> DEFINE R == OpToRel(<, Nat)
<1>1. \E x \in S : \A y \in S : ~ (<<y, x>> \in R)
  <2>1. IsWellFoundedOn(R, Nat)
    BY NatLessThanWellFounded
  <2> HIDE DEF R
  <2> QED BY <2>1, WFMin
<1>2. PICK x \in S : \A y \in S : ~ (<<y, x>> \in R)
  BY <1>1
<1>3. \A y \in S : x <= y
  <2> SUFFICES ASSUME NEW y \in S PROVE x <= y
    OBVIOUS
  <2>1. x \in Nat /\ y \in Nat
    OBVIOUS
  <2>2. y < x => <<y, x>> \in R
    BY <2>1 DEF OpToRel
  <2>3. ~ (<<y, x>> \in R)
    BY <1>2
  <2>4. ~ (y < x)
    BY <2>2, <2>3
  <2> QED BY <2>1, <2>4
<1> QED BY <1>3 DEF Min

LEMMA GreatestIsGreatest ==
  ASSUME NEW n \in Nat, NEW S \in SUBSET (0 .. n), S # {}
  PROVE  Max(S) \in S /\ \A y \in S : y <= Max(S)
<1> DEFINE T == {n - x : x \in S}
<1>1. T \in SUBSET Nat /\ T # {}
  <2>1. \A x \in S : n - x \in Nat
    OBVIOUS
  <2> QED BY <2>1
<1>2. PICK m \in T : \A y \in T : m <= y
  BY <1>1, LeastIsLeast
<1>3. PICK x \in S : m = n - x
  BY <1>2
<1>4. \A y \in S : y <= x
  BY <1>2, <1>3
<1> QED BY <1>4 DEF Max

\* A unit that is inserted was not there, and nobody is inserting it.
LEMMA FreshIsNew ==
  ASSUME TypeOK, NEW u \in Units, Fresh(u)
  PROVE  stock[u] = "Absent" /\ ~Held(u)
<1> DEFINE S == {0} \cup {v \in Units : stock[v] # "Absent" \/ Held(v)}
<1>1. S \in SUBSET (0 .. MaxUnits) /\ MaxUnits \in Nat /\ 0 \in S
  BY MaterialsAssumption DEF Units
<1>2. Max(S) \in S /\ \A y \in S : y <= Max(S)
  <2> HIDE DEF S
  <2> QED BY <1>1, GreatestIsGreatest
<1>3. Max(S) \in Nat
  <2> HIDE DEF S
  <2>1. \A m \in S : m \in Nat
    BY <1>1
  <2> QED BY <1>2, <2>1, Zenon
<1>4. u \notin S
  <2>1. u = 1 + Max(S)
    BY DEF Fresh
  <2> HIDE DEF S
  <2> QED BY <1>2, <1>3, <2>1
<1> QED BY <1>4

\* The unit that is chosen is in stock, and nobody holds it.
LEMMA ChosenIsAvailable ==
  ASSUME TypeOK, Available # {}
  PROVE  Min(Available) \in Units /\ ~Held(Min(Available))
<1>1. Available \in SUBSET Nat
  BY MaterialsAssumption DEF Available, Units
<1>2. Min(Available) \in Available
  BY <1>1, LeastIsLeast
<1> QED BY <1>2 DEF Available

-----------------------------------------------------------------------------
\* The invariant.

LEMMA WorkerFields ==
  ASSUME TypeOK, NEW w \in Workers
  PROVE  /\ worker[w] = Idle <=> worker[w].pc = "idle"
         /\ worker[w] # Idle => worker[w] \in Transaction
         /\ worker[w].unit \in Units \cup {None}
         /\ worker[w].pc = "idle" => worker[w].unit = None
  BY DEF TypeOK, Idle, Transaction

\* A transaction begins on a unit and for a request that nobody else holds.
LEMMA BeginKeeps ==
  ASSUME IInv, NEW w \in Workers, worker[w] = Idle,
         NEW pc \in {"wrote", "escalating"}, NEW kind \in {"fulfil", "create", "assign"},
         NEW u \in Units \cup {None}, NEW r \in Requests \cup {None},
         Begin(w, pc, kind, u, r),
         u # None => ~Held(u),
         r # None => \A v \in Workers : worker[v] # Idle => worker[v].req # r,
         kind = "fulfil" => /\ r \in Requests /\ request[r] # "Fulfilled"
                            /\ pc = "wrote" => u \in Units /\ ~Collides(u, r),
         kind # "fulfil" => r = None /\ u \in Units /\ pc = "wrote",
         UNCHANGED <<stock, received, request, issued, order>>,
         tries' \in [Requests -> 0 .. MaxDeliver], commands' \in 0 .. MaxCommands
  PROVE  IInv'
<1> DEFINE t == [pc |-> pc, kind |-> kind, unit |-> u, req |-> r, reorder |-> FALSE]
<1>1. t \in Transaction
  BY DEF Transaction
<1>2. worker \in [Workers -> {Idle} \cup Transaction] /\ worker' = [worker EXCEPT ![w] = t]
  BY DEF Begin, IInv, TypeOK
<1>3. t.pc = pc /\ t.kind = kind /\ t.unit = u /\ t.req = r
  OBVIOUS
<1> HIDE DEF t
<1>4. worker' \in [Workers -> {Idle} \cup Transaction]
      /\ \A v \in Workers : worker'[v] = IF v = w THEN t ELSE worker[v]
  BY <1>1, <1>2
<1>5. TypeOK'
  BY <1>4 DEF IInv, TypeOK
<1>6. LocksOK'
  <2> SUFFICES ASSUME NEW v \in Workers, NEW x \in Workers, v # x
               PROVE  /\ worker'[v].unit # None => worker'[v].unit # worker'[x].unit
                      /\ worker'[v].pc # "idle" /\ worker'[x].pc # "idle" /\ worker'[v].req # None =>
                             worker'[v].req # worker'[x].req
    BY DEF LocksOK
  <2>1. CASE v = w
    BY <1>3, <1>4, <2>1, WorkerFields DEF IInv, Held
  <2>2. CASE x = w
    BY <1>3, <1>4, <2>2, WorkerFields DEF IInv, Held
  <2>3. CASE v # w /\ x # w
    BY <1>4, <2>3 DEF IInv, LocksOK
  <2> QED BY <2>1, <2>2, <2>3
<1>7. HoldsOK'
  <2> SUFFICES ASSUME NEW v \in Workers PROVE Holds(v)'
    BY DEF HoldsOK
  <2>1. CASE v = w
    BY <1>3, <1>4, <2>1 DEF Holds, Collides
  <2>2. CASE v # w
    <3>1. Holds(v)
      BY DEF IInv, HoldsOK
    <3> QED BY <1>4, <2>2, <3>1 DEF Holds, Collides
  <2> QED BY <2>1, <2>2
<1>8. IssuedOnce'
  BY DEF IInv, IssuedOnce
<1> QED BY <1>5, <1>6, <1>7, <1>8 DEF IInv


\* A transaction reads on: it keeps its unit and its request.
LEMMA ReadingKeeps ==
  ASSUME IInv, NEW w \in Workers, NEW t \in Transaction,
         worker[w].pc \in {"wrote", "counted"}, t.pc \in {"counted", "ready"},
         t.kind = worker[w].kind, t.unit = worker[w].unit, t.req = worker[w].req,
         worker' = [worker EXCEPT ![w] = t], Kept
  PROVE  IInv'
<1>1. worker' \in [Workers -> {Idle} \cup Transaction]
      /\ \A v \in Workers : worker'[v] = IF v = w THEN t ELSE worker[v]
  BY DEF IInv, TypeOK
<1>2. TypeOK'
  BY <1>1 DEF IInv, TypeOK, Kept
<1>3. \A v \in Workers : /\ worker'[v].unit = worker[v].unit
                         /\ worker'[v].req = worker[v].req
                         /\ worker'[v].kind = worker[v].kind
                         /\ worker'[v].pc = "idle" <=> worker[v].pc = "idle"
                         /\ worker'[v].pc = "escalating" <=> worker[v].pc = "escalating"
  BY <1>1
<1>4. LocksOK'
  BY <1>3 DEF IInv, LocksOK
<1>5. HoldsOK'
  <2> SUFFICES ASSUME NEW v \in Workers PROVE Holds(v)'
    BY DEF HoldsOK
  <2>1. Holds(v)
    BY DEF IInv, HoldsOK
  <2> QED BY <1>3, <2>1 DEF Holds, Collides, Kept
<1>6. IssuedOnce'
  BY DEF IInv, IssuedOnce, Kept
<1> QED BY <1>2, <1>4, <1>5, <1>6 DEF IInv

\* A transaction ends and releases its locks.
LEMMA EndKeeps ==
  ASSUME IInv, NEW w \in Workers, worker' = [worker EXCEPT ![w] = Idle],
         TypeOK', IssuedOnce',
         \A v \in Workers \ {w} :
            worker[v].pc # "idle" /\ worker[v].kind = "fulfil" =>
               /\ request'[worker[v].req] # "Fulfilled"
               /\ worker[v].pc # "escalating" =>
                      \A q \in Requests \ {worker[v].req} : issued'[q] # worker[v].unit
  PROVE  IInv'
<1>1. \A v \in Workers : worker'[v] = IF v = w THEN Idle ELSE worker[v]
  BY DEF IInv, TypeOK
<1>2. Idle.pc = "idle" /\ Idle.unit = None
  BY DEF Idle
<1>3. LocksOK'
  BY <1>1, <1>2 DEF IInv, LocksOK
<1>4. HoldsOK'
  <2> SUFFICES ASSUME NEW v \in Workers PROVE Holds(v)'
    BY DEF HoldsOK
  <2>1. CASE v = w
    BY <1>1, <1>2, <2>1 DEF Holds
  <2>2. CASE v # w
    <3>1. Holds(v)
      BY DEF IInv, HoldsOK
    <3> QED BY <1>1, <2>2, <3>1 DEF Holds, Collides
  <2> QED BY <2>1, <2>2
<1> QED BY <1>3, <1>4 DEF IInv

\* A transaction that has written is on a unit, and for a request or none.
LEMMA Writing ==
  ASSUME IInv, NEW w \in Workers, worker[w].pc # "idle", worker[w].pc # "escalating"
  PROVE  /\ worker[w] \in Transaction
         /\ worker[w].unit \in Units
         /\ StatusAfter[worker[w].kind] \in {"Absent", "In_Stock", "Assigned"}
         /\ worker[w].kind = "fulfil" =>
               /\ worker[w].req \in Requests
               /\ request[worker[w].req] # "Fulfilled"
               /\ ~Collides(worker[w].unit, worker[w].req)
<1>1. worker[w] \in Transaction
  BY WorkerFields DEF IInv
<1>2. Holds(w)
  BY DEF IInv, HoldsOK
<1> QED BY <1>1, <1>2 DEF Holds, Transaction, StatusAfter

\* A committed request is done, and its unit is nobody else's.
LEMMA CommitKeeps ==
  ASSUME IInv, NEW w \in Workers, Commit(w)
  PROVE  IInv'
<1> DEFINE t == worker[w]
<1>1. /\ t \in Transaction /\ t.unit \in Units /\ t.pc = "ready"
      /\ StatusAfter[t.kind] \in {"Absent", "In_Stock", "Assigned"}
      /\ t.kind = "fulfil" =>
            t.req \in Requests /\ request[t.req] # "Fulfilled" /\ ~Collides(t.unit, t.req)
  BY Writing DEF Commit
<1>2. /\ stock' = [stock EXCEPT ![t.unit] = StatusAfter[t.kind]]
      /\ received' = IF t.kind = "create" THEN received \ {t.unit} ELSE received
      /\ t.kind = "fulfil" => /\ request' = [request EXCEPT ![t.req] = "Fulfilled"]
                              /\ issued'  = [issued EXCEPT ![t.req] = t.unit]
      /\ t.kind # "fulfil" => UNCHANGED <<request, issued>>
      /\ \/ \E a \in AutoOrders : order' = [order EXCEPT ![a] = "Bidding"]
         \/ UNCHANGED order
      /\ worker' = [worker EXCEPT ![w] = Idle]
      /\ UNCHANGED <<tries, commands>>
  BY Zenon DEF Commit
<1> HIDE DEF t
<1>3. TypeOK'
  <2>1. stock' \in [Units -> {"Absent", "In_Stock", "Assigned"}]
    BY <1>1, <1>2 DEF IInv, TypeOK
  <2>2. received' \in SUBSET Units /\ tries' \in [Requests -> 0 .. MaxDeliver]
        /\ commands' \in 0 .. MaxCommands
    BY <1>2 DEF IInv, TypeOK
  <2>3. request' \in [Requests -> {"Absent", "Procuring", "Fulfilled"}]
        /\ issued' \in [Requests -> Units \cup {None}]
    BY <1>1, <1>2 DEF IInv, TypeOK
  <2>4. order' \in [Orders -> {"Absent", "Bidding", "Completed"}]
    BY <1>2 DEF IInv, TypeOK
  <2>5. worker' \in [Workers -> {Idle} \cup Transaction]
    BY <1>2 DEF IInv, TypeOK
  <2> QED BY <2>1, <2>2, <2>3, <2>4, <2>5 DEF TypeOK
<1>4. IssuedOnce'
  BY <1>1, <1>2 DEF IInv, IssuedOnce, TypeOK, Collides
<1>5. ASSUME NEW v \in Workers \ {w}, worker[v].pc # "idle", worker[v].kind = "fulfil"
      PROVE  /\ request'[worker[v].req] # "Fulfilled"
             /\ worker[v].pc # "escalating" =>
                    \A q \in Requests \ {worker[v].req} : issued'[q] # worker[v].unit
  <2>1. worker[v].req \in Requests /\ request[worker[v].req] # "Fulfilled"
        /\ (worker[v].pc # "escalating" =>
               worker[v].unit \in Units /\ ~Collides(worker[v].unit, worker[v].req))
    BY <1>5 DEF IInv, HoldsOK, Holds
  <2>2. worker[v].req # None
    BY <2>1, MaterialsAssumption
  <2>3. t.kind = "fulfil" => worker[v].req # t.req
    BY <1>1, <1>5, <2>2 DEF IInv, LocksOK, t
  <2>4. worker[v].pc # "escalating" => worker[v].unit # t.unit
    <3>1. None \notin Units
      BY MaterialsAssumption DEF Units
    <3> QED BY <2>1, <3>1 DEF IInv, LocksOK, t
  <2> QED BY <1>1, <1>2, <2>1, <2>3, <2>4 DEF IInv, TypeOK, Collides
<1> QED BY <1>2, <1>3, <1>4, <1>5, EndKeeps

\* An escalation leaves what others hold.
LEMMA EscalateKeeps ==
  ASSUME IInv, NEW w \in Workers, Escalate(w)
  PROVE  IInv' /\ worker[w].req \in Requests /\ request[worker[w].req] # "Fulfilled"
<1> DEFINE r == worker[w].req
<1>1. r \in Requests /\ request[r] # "Fulfilled"
  <2>1. Holds(w) /\ worker[w].pc = "escalating"
    BY DEF IInv, HoldsOK, Escalate
  <2> QED BY <2>1 DEF Holds
<1>2. /\ request' = [request EXCEPT ![r] = "Procuring"]
      /\ order' = [order EXCEPT ![r] = "Bidding"]
      /\ worker' = [worker EXCEPT ![w] = Idle]
      /\ UNCHANGED <<stock, received, issued, tries, commands>>
  BY DEF Escalate
<1> HIDE DEF r
<1>3. TypeOK'
  BY <1>1, <1>2 DEF IInv, TypeOK
<1>4. IssuedOnce'
  BY <1>2 DEF IInv, IssuedOnce
<1>5. ASSUME NEW v \in Workers \ {w}, worker[v].pc # "idle", worker[v].kind = "fulfil"
      PROVE  /\ request'[worker[v].req] # "Fulfilled"
             /\ worker[v].pc # "escalating" =>
                    \A q \in Requests \ {worker[v].req} : issued'[q] # worker[v].unit
  <2>1. Holds(v)
    BY DEF IInv, HoldsOK
  <2> QED BY <1>1, <1>2, <1>5, <2>1 DEF IInv, TypeOK, Holds, Collides
<1>6. IInv'
  BY <1>2, <1>3, <1>4, <1>5, EndKeeps
<1> QED BY <1>1, <1>6 DEF r


LEMMA FulfilKeeps ==
  ASSUME IInv, NEW w \in TaskWorkers, NEW r \in Requests, Fulfil(w, r)
  PROVE  IInv'
<1>1. /\ w \in Workers /\ r # None
      /\ worker[w] = Idle
      /\ \A v \in Workers : worker[v] # Idle => worker[v].req # r
      /\ tries' \in [Requests -> 0 .. MaxDeliver]
      /\ UNCHANGED <<stock, received, request, issued, order, commands>>
  BY MaterialsAssumption DEF Fulfil, IInv, TypeOK, Workers
<1>2. commands' \in 0 .. MaxCommands
  BY <1>1 DEF IInv, TypeOK
<1>3. CASE UNCHANGED worker
  <2>1. TypeOK' /\ LocksOK' /\ IssuedOnce'
    BY <1>1, <1>3 DEF IInv, TypeOK, LocksOK, IssuedOnce
  <2>2. HoldsOK'
    BY <1>1, <1>3 DEF IInv, HoldsOK, Holds, Collides
  <2> QED BY <2>1, <2>2 DEF IInv
<1>4. CASE ~Done(r) /\ Begin(w, "escalating", "fulfil", None, r)
  <2>1. request[r] # "Fulfilled"
    BY <1>4 DEF Done
  <2> QED BY <1>1, <1>2, <1>4, <2>1, BeginKeeps
<1>5. CASE /\ ~Done(r) /\ Available # {}
           /\ ~Collides(Min(Available), r)
           /\ Begin(w, "wrote", "fulfil", Min(Available), r)
  <2>1. request[r] # "Fulfilled"
    BY <1>5 DEF Done
  <2>2. Min(Available) \in Units /\ ~Held(Min(Available))
    BY <1>5, ChosenIsAvailable DEF IInv
  <2> DEFINE u == Min(Available)
  <2>3. /\ u \in Units /\ ~Held(u) /\ ~Collides(u, r)
        /\ Begin(w, "wrote", "fulfil", u, r)
    BY <1>5, <2>2
  <2> HIDE DEF u
  <2> QED BY <1>1, <1>2, <2>1, <2>3, BeginKeeps
<1> QED BY <1>3, <1>4, <1>5 DEF Fulfil

LEMMA StockKeeps ==
  ASSUME IInv, NEW w \in StockWorkers, NEW u \in Units, CreateItem(w, u) \/ AssignItem(w, u)
  PROVE  IInv'
<1>1. /\ w \in Workers /\ worker[w] = Idle
      /\ UNCHANGED <<stock, received, request, issued, order, tries>>
      /\ commands' \in 0 .. MaxCommands
  BY MaterialsAssumption DEF CreateItem, AssignItem, StockCommand, IInv, TypeOK, Workers
<1>2. ~Held(u)
  BY FreshIsNew DEF CreateItem, AssignItem, IInv
<1>3. tries' \in [Requests -> 0 .. MaxDeliver]
  BY <1>1 DEF IInv, TypeOK
<1>4. CASE Begin(w, "wrote", "create", u, None)
  BY <1>1, <1>2, <1>3, <1>4, BeginKeeps
<1>5. CASE Begin(w, "wrote", "assign", u, None)
  BY <1>1, <1>2, <1>3, <1>5, BeginKeeps
<1> QED BY <1>4, <1>5 DEF CreateItem, AssignItem

LEMMA ReadsKeep ==
  ASSUME IInv, NEW w \in Workers, Count(w) \/ LookUp(w)
  PROVE  IInv'
<1>1. worker[w].pc \in {"wrote", "counted"} /\ worker[w] \in Transaction /\ Kept
  BY WorkerFields DEF Count, LookUp, IInv
<1>2. PICK t : /\ t \in Transaction /\ t.pc \in {"counted", "ready"}
               /\ t.kind = worker[w].kind /\ t.unit = worker[w].unit
               /\ t.req = worker[w].req
               /\ worker' = [worker EXCEPT ![w] = t]
  <2>1. CASE Count(w)
    <3> DEFINE p == IF Low(w) THEN "counted" ELSE "ready"
               t == [worker[w] EXCEPT !.pc = p]
    <3>1. p \in {"counted", "ready"} /\ worker' = [worker EXCEPT ![w].pc = p]
      BY <2>1 DEF Count
    <3> HIDE DEF p
    <3>2. t \in Transaction /\ t.pc = p /\ t.kind = worker[w].kind
          /\ t.unit = worker[w].unit /\ t.req = worker[w].req
      BY <1>1, <3>1 DEF Transaction
    <3>3. worker' = [worker EXCEPT ![w] = t]
      BY <3>1
    <3> HIDE DEF t
    <3> QED BY <3>1, <3>2, <3>3
  <2>2. CASE LookUp(w)
    <3> DEFINE b == ~OrderOpen
               t == [worker[w] EXCEPT !.pc = "ready", !.reorder = b]
    <3>1. b \in BOOLEAN /\ worker' = [worker EXCEPT ![w].pc = "ready", ![w].reorder = b]
      BY <2>2 DEF LookUp
    <3> HIDE DEF b
    <3>2. t \in Transaction /\ t.pc = "ready" /\ t.kind = worker[w].kind
          /\ t.unit = worker[w].unit /\ t.req = worker[w].req
      BY <1>1, <3>1 DEF Transaction
    <3>3. worker' = [worker EXCEPT ![w] = t]
      BY <1>1, <3>1 DEF IInv, TypeOK
    <3> HIDE DEF t
    <3> QED BY <3>2, <3>3
  <2> QED BY <2>1, <2>2
<1> QED BY <1>1, <1>2, ReadingKeeps

LEMMA AbortKeeps ==
  ASSUME IInv, NEW w \in Workers, Abort(w)
  PROVE  IInv'
<1>1. worker' = [worker EXCEPT ![w] = Idle] /\ Kept
  BY DEF Abort
<1>2. TypeOK' /\ IssuedOnce'
  BY <1>1 DEF IInv, TypeOK, IssuedOnce, Kept
<1>3. \A v \in Workers \ {w} :
         worker[v].pc # "idle" /\ worker[v].kind = "fulfil" =>
            /\ request'[worker[v].req] # "Fulfilled"
            /\ worker[v].pc # "escalating" =>
                   \A q \in Requests \ {worker[v].req} : issued'[q] # worker[v].unit
  BY <1>1 DEF IInv, HoldsOK, Holds, Collides, Kept
<1> QED BY <1>1, <1>2, <1>3, EndKeeps

\* The handlers insert units, which nobody has been issued.
LEMMA HandlersKeep ==
  ASSUME IInv, NEW u \in Units, AddManually(u) \/ \E o \in Orders : ConfirmReceipt(o, u)
  PROVE  IInv'
<1>1. TypeOK' /\ UNCHANGED <<request, issued, worker>>
  BY DEF IInv, TypeOK, AddManually, ConfirmReceipt
<1>2. LocksOK' /\ IssuedOnce'
  BY <1>1 DEF IInv, LocksOK, IssuedOnce
<1>3. HoldsOK'
  BY <1>1 DEF IInv, HoldsOK, Holds, Collides
<1> QED BY <1>1, <1>2, <1>3 DEF IInv

LEMMA Inductive ==
  ASSUME IInv, [Next]_vars
  PROVE  IInv'
<1>1. ASSUME NEW w \in TaskWorkers, NEW r \in Requests, Fulfil(w, r) PROVE IInv'
  BY <1>1, FulfilKeeps
<1>2. ASSUME NEW w \in StockWorkers, NEW u \in Units, CreateItem(w, u) \/ AssignItem(w, u)
      PROVE  IInv'
  BY <1>2, StockKeeps
<1>3. ASSUME NEW w \in Workers, Count(w) \/ LookUp(w) PROVE IInv'
  BY <1>3, ReadsKeep
<1>4. ASSUME NEW w \in Workers, Escalate(w) \/ Commit(w) \/ Abort(w) PROVE IInv'
  BY <1>4, EscalateKeeps, CommitKeeps, AbortKeeps
<1>5. ASSUME NEW u \in Units, AddManually(u) \/ \E o \in Orders : ConfirmReceipt(o, u)
      PROVE  IInv'
  BY <1>5, HandlersKeep
<1>6. CASE UNCHANGED vars
  <2>1. TypeOK' /\ LocksOK' /\ IssuedOnce'
    BY <1>6 DEF IInv, TypeOK, LocksOK, IssuedOnce, vars
  <2>2. HoldsOK'
    BY <1>6 DEF IInv, HoldsOK, Holds, Collides, vars
  <2> QED BY <2>1, <2>2 DEF IInv
<1> QED BY <1>1, <1>2, <1>3, <1>4, <1>5, <1>6 DEF Next

LEMMA InitOK == Init => IInv
<1> SUFFICES ASSUME Init PROVE IInv
  OBVIOUS
<1>1. TypeOK
  BY MaterialsAssumption DEF Init, TypeOK
<1>2. \A w \in Workers : worker[w].pc = "idle" /\ worker[w].unit = None
  BY DEF Init, Idle
<1>3. LocksOK /\ HoldsOK
  BY <1>2 DEF LocksOK, HoldsOK, Holds
<1>4. IssuedOnce
  BY DEF Init, IssuedOnce
<1> QED BY <1>1, <1>3, <1>4 DEF IInv

-----------------------------------------------------------------------------
\* The theorems.

LEMMA Invariance == Spec => []IInv
  BY InitOK, Inductive, PTL DEF Spec

\* The rows keep their types, for any number of requests, units and workers.
THEOREM TypeCorrect == Spec => []TypeOK
<1>1. IInv => TypeOK
  BY DEF IInv
<1> QED BY <1>1, Invariance, PTL

\* FulfillMaterialRequestTransaction, with the index on reservations, issues
\* no unit to two requests, whatever the commands delivered again do to its
\* status.
THEOREM UnitsIssuedOnce == Spec => []IssuedOnce
<1>1. IInv => IssuedOnce
  BY DEF IInv
<1> QED BY <1>1, Invariance, PTL

\* A fulfilled request stays fulfilled and keeps its unit however often its
\* command is delivered.
THEOREM FulfilmentsLast == Spec => FulfilledForGood
<1> DEFINE Lasts == \A r \in Requests : request[r] = "Fulfilled" =>
                       request'[r] = "Fulfilled" /\ issued'[r] = issued[r]
<1>1. ASSUME IInv, [Next]_vars PROVE [Lasts]_vars
  <2>1. CASE UNCHANGED <<request, issued>>
    BY <2>1
  <2>2. ASSUME NEW w \in Workers, Escalate(w) PROVE Lasts
    BY <1>1, <2>2, EscalateKeeps DEF IInv, TypeOK, Escalate
  <2>3. ASSUME NEW w \in Workers, Commit(w) PROVE Lasts
    <3>1. worker[w].kind = "fulfil" =>
             worker[w].req \in Requests /\ request[worker[w].req] # "Fulfilled"
      BY <1>1, <2>3, Writing DEF Commit
    <3>2. \/ UNCHANGED <<request, issued>>
          \/ /\ worker[w].kind = "fulfil"
             /\ request' = [request EXCEPT ![worker[w].req] = "Fulfilled"]
             /\ issued' = [issued EXCEPT ![worker[w].req] = worker[w].unit]
      BY <2>3, Zenon DEF Commit
    <3> QED BY <1>1, <3>1, <3>2 DEF IInv, TypeOK
  <2>4. ASSUME NEW w \in Workers, Count(w) \/ LookUp(w) \/ Abort(w)
        PROVE  UNCHANGED <<request, issued>>
    BY <2>4 DEF Count, LookUp, Abort, Kept
  <2>5. ASSUME NEW w \in StockWorkers, NEW u \in Units, CreateItem(w, u) \/ AssignItem(w, u)
        PROVE  UNCHANGED <<request, issued>>
    BY <2>5 DEF CreateItem, AssignItem, StockCommand
  <2>6. ASSUME NEW w \in TaskWorkers, NEW r \in Requests, Fulfil(w, r)
        PROVE  UNCHANGED <<request, issued>>
    BY <2>6 DEF Fulfil
  <2>7. ASSUME NEW u \in Units, AddManually(u) \/ \E o \in Orders : ConfirmReceipt(o, u)
        PROVE  UNCHANGED <<request, issued>>
    BY <2>7 DEF AddManually, ConfirmReceipt
  <2>8. CASE UNCHANGED vars
    BY <2>8
  <2> QED BY <1>1, <2>1, <2>2, <2>3, <2>4, <2>5, <2>6, <2>7, <2>8 DEF Next
<1> QED BY <1>1, Invariance, PTL DEF Spec, FulfilledForGood


-----------------------------------------------------------------------------
\* Automatic orders.  Every open one was inserted by a transaction that saw
\* none open; until one commits, those that saw none are the workers in it.

OpenAuto   == {a \in AutoOrders : order[a] = "Bidding"}
Reordering == {w \in Workers : worker[w].pc # "idle" /\ worker[w].reorder}

Bounded ==
    /\ IsFiniteSet(OpenAuto)
    /\ Cardinality(OpenAuto) + Cardinality(Reordering) <= Cardinality(Workers)

LEMMA WorkersFinite ==
  /\ IsFiniteSet(Workers) /\ Cardinality(Workers) \in Nat
  /\ IsFiniteSet(Reordering) /\ Cardinality(Reordering) \in Nat
  /\ Cardinality(Reordering) <= Cardinality(Workers)
<1>1. IsFiniteSet(Workers)
  BY MaterialsAssumption DEF Workers
<1>2. Reordering \subseteq Workers
  BY DEF Reordering
<1> QED BY <1>1, <1>2, FS_Subset, FS_CardinalityType

\* Nothing is opened and nobody decides to.
LEMMA ShrinkBounded ==
  ASSUME Bounded, OpenAuto' \subseteq OpenAuto, Reordering' \subseteq Reordering
  PROVE  Bounded'
<1>1. /\ IsFiniteSet(OpenAuto') /\ Cardinality(OpenAuto') <= Cardinality(OpenAuto)
      /\ Cardinality(OpenAuto) \in Nat /\ Cardinality(OpenAuto') \in Nat
  BY FS_Subset, FS_CardinalityType DEF Bounded
<1>2. /\ Cardinality(Reordering') <= Cardinality(Reordering)
      /\ Cardinality(Reordering) \in Nat /\ Cardinality(Reordering') \in Nat
  BY WorkersFinite, FS_Subset, FS_CardinalityType
<1>3. Cardinality(Workers) \in Nat
  BY WorkersFinite
<1>4. Cardinality(OpenAuto) + Cardinality(Reordering) <= Cardinality(Workers)
  BY DEF Bounded
<1>5. Cardinality(OpenAuto') + Cardinality(Reordering') <= Cardinality(Workers)
  <2> DEFINE b == Cardinality(OpenAuto)    bb == Cardinality(OpenAuto')
             l == Cardinality(Reordering)  ll == Cardinality(Reordering')
             n == Cardinality(Workers)
  <2>1. b \in Nat /\ bb \in Nat /\ l \in Nat /\ ll \in Nat /\ n \in Nat
        /\ bb <= b /\ ll <= l /\ b + l <= n
    BY <1>1, <1>2, <1>3, <1>4
  <2> HIDE DEF b, bb, l, ll, n
  <2>2. bb + ll <= n
    BY <2>1
  <2> QED BY <2>2 DEF bb, ll, n
<1> QED BY <1>1, <1>5 DEF Bounded, Workers

\* A transaction that sees no open order may decide to open one.
LEMMA LookUpBounded ==
  ASSUME IInv, Bounded, NEW w \in Workers, LookUp(w)
  PROVE  Bounded'
<1>1. /\ worker[w] \in Transaction /\ order' = order
      /\ worker' = [worker EXCEPT ![w].pc = "ready", ![w].reorder = ~OrderOpen]
  BY WorkerFields DEF LookUp, Kept, IInv
<1>2. OpenAuto' = OpenAuto
  BY <1>1 DEF OpenAuto
<1>3. CASE OrderOpen
  <2>1. worker' \in [Workers -> {Idle} \cup Transaction]
        /\ \A v \in Workers : v # w => worker'[v] = worker[v]
    <3> DEFINE b == ~OrderOpen
    <3>1. b \in BOOLEAN /\ worker' = [worker EXCEPT ![w].pc = "ready", ![w].reorder = b]
      BY <1>1
    <3> HIDE DEF b
    <3>2. [worker[w] EXCEPT !.pc = "ready", !.reorder = b] \in Transaction
      BY <1>1, <3>1 DEF Transaction
    <3> DEFINE t == [worker[w] EXCEPT !.pc = "ready", !.reorder = b]
    <3>3. worker' = [worker EXCEPT ![w] = t]
      BY <1>1, <3>1 DEF IInv, TypeOK
    <3>4. t \in Transaction
      BY <3>2
    <3> HIDE DEF t
    <3>5. worker \in [Workers -> {Idle} \cup Transaction]
      BY DEF IInv, TypeOK
    <3> QED BY <3>3, <3>4, <3>5
  <2>2. ~worker'[w].reorder
    BY <1>1, <1>3 DEF IInv, TypeOK, Transaction
  <2>3. Reordering' \subseteq Reordering
    BY <2>1, <2>2 DEF Reordering
  <2> QED BY <1>2, <2>3, ShrinkBounded
<1>4. CASE ~OrderOpen
  <2>1. OpenAuto = {}
    BY <1>4 DEF OpenAuto, OrderOpen, Orders
  <2>2. OpenAuto' = {}
    BY <1>2, <2>1
  <2>3. IsFiniteSet(OpenAuto') /\ Cardinality(OpenAuto') = 0
    BY <2>2, FS_EmptySet
  <2>4. /\ Cardinality(Reordering') \in Nat /\ Cardinality(Workers) \in Nat
        /\ Cardinality(Reordering') <= Cardinality(Workers)
    <3>1. Reordering' \subseteq Workers
      BY DEF Reordering, Workers
    <3> QED BY <3>1, WorkersFinite, FS_Subset, FS_CardinalityType
  <2>5. 0 + Cardinality(Reordering') <= Cardinality(Workers)
    BY <2>4
  <2> QED BY <2>3, <2>5 DEF Bounded, Workers
<1> QED BY <1>3, <1>4

\* A transaction opens its order when it ends.
LEMMA CommitBounded ==
  ASSUME IInv, Bounded, NEW w \in Workers, Commit(w)
  PROVE  Bounded'
<1>1. worker' = [worker EXCEPT ![w] = Idle] /\ worker[w].pc = "ready"
  BY DEF Commit
<1>2. Reordering' = Reordering \ {w}
  BY <1>1 DEF IInv, TypeOK, Reordering, Idle, Workers
<1>3. CASE ~worker[w].reorder
  <2>1. OpenAuto' = OpenAuto
    BY <1>3 DEF Commit, OpenAuto
  <2> QED BY <1>2, <2>1, ShrinkBounded
<1>4. CASE worker[w].reorder
  <2>1. PICK a \in AutoOrders : order[a] = "Absent" /\ order' = [order EXCEPT ![a] = "Bidding"]
    BY <1>4 DEF Commit
  <2>2. OpenAuto' = OpenAuto \cup {a} /\ a \notin OpenAuto
    BY <2>1 DEF OpenAuto, IInv, TypeOK, Orders
  <2>3. w \in Reordering
    BY <1>1, <1>4 DEF Reordering
  <2>4. /\ IsFiniteSet(OpenAuto \cup {a}) /\ Cardinality(OpenAuto) \in Nat
        /\ Cardinality(OpenAuto \cup {a}) = Cardinality(OpenAuto) + 1
    BY <2>2, FS_AddElement, FS_CardinalityType DEF Bounded
  <2>5. Cardinality(Reordering \ {w}) = Cardinality(Reordering) - 1
    BY <2>3, WorkersFinite, FS_RemoveElement
  <2>6. /\ Cardinality(OpenAuto') = Cardinality(OpenAuto) + 1
        /\ Cardinality(Reordering') = Cardinality(Reordering) - 1
        /\ IsFiniteSet(OpenAuto')
    BY <1>2, <2>2, <2>4, <2>5, Zenon
  <2>7. Cardinality(Reordering) \in Nat /\ Cardinality(Workers) \in Nat
    BY WorkersFinite
  <2>8. Cardinality(OpenAuto') + Cardinality(Reordering') <= Cardinality(Workers)
    BY <2>4, <2>6, <2>7 DEF Bounded
  <2> QED BY <2>6, <2>8 DEF Bounded, Workers
<1> QED BY <1>3, <1>4

\* All else opens no automatic order and lets nobody decide to.
LEMMA OthersBounded ==
  ASSUME IInv, [Next]_vars
  PROVE  \/ \E w \in Workers : LookUp(w) \/ Commit(w)
         \/ OpenAuto' \subseteq OpenAuto /\ Reordering' \subseteq Reordering
<1> SUFFICES ASSUME ~ \E w \in Workers : LookUp(w) \/ Commit(w)
             PROVE  OpenAuto' \subseteq OpenAuto /\ Reordering' \subseteq Reordering
  OBVIOUS
<1>1. ASSUME NEW w \in Workers, NEW pc, NEW kind, NEW u, NEW r, Begin(w, pc, kind, u, r)
      PROVE  Reordering' \subseteq Reordering
  BY <1>1 DEF Begin, IInv, TypeOK, Reordering, Workers
<1>2. ASSUME UNCHANGED order PROVE OpenAuto' = OpenAuto
  BY <1>2 DEF OpenAuto
<1>3. ASSUME UNCHANGED worker PROVE Reordering' = Reordering
  BY <1>3 DEF Reordering, Workers
<1>4. ASSUME NEW w \in TaskWorkers, NEW r \in Requests, Fulfil(w, r)
      PROVE  OpenAuto' \subseteq OpenAuto /\ Reordering' \subseteq Reordering
  BY <1>1, <1>2, <1>3, <1>4 DEF Fulfil, Workers
<1>5. ASSUME NEW w \in StockWorkers, NEW u \in Units, CreateItem(w, u) \/ AssignItem(w, u)
      PROVE  OpenAuto' \subseteq OpenAuto /\ Reordering' \subseteq Reordering
  BY <1>1, <1>2, <1>5 DEF CreateItem, AssignItem, StockCommand, Workers
<1>6. ASSUME NEW w \in Workers, Escalate(w)
      PROVE  OpenAuto' \subseteq OpenAuto /\ Reordering' \subseteq Reordering
  <2>1. worker[w].req \in Requests
    BY <1>6, EscalateKeeps
  <2>2. OpenAuto' \subseteq OpenAuto
    BY <1>6, <2>1, MaterialsAssumption DEF Escalate, OpenAuto, IInv, TypeOK, Orders
  <2>3. Reordering' \subseteq Reordering
    BY <1>6 DEF Escalate, Reordering, IInv, TypeOK, Idle, Workers
  <2> QED BY <2>2, <2>3
<1>7. ASSUME NEW w \in Workers, Abort(w)
      PROVE  OpenAuto' \subseteq OpenAuto /\ Reordering' \subseteq Reordering
  BY <1>2, <1>7 DEF Abort, Kept, Reordering, IInv, TypeOK, Idle, Workers
<1>8. ASSUME NEW w \in Workers, Count(w)
      PROVE  OpenAuto' \subseteq OpenAuto /\ Reordering' \subseteq Reordering
  <2>1. worker[w].pc = "wrote" /\ order' = order
        /\ \E p : worker' = [worker EXCEPT ![w].pc = p]
    BY <1>8 DEF Count, Kept
  <2>2. \A v \in Workers : worker'[v].pc # "idle" /\ worker'[v].reorder =>
                              worker[v].pc # "idle" /\ worker[v].reorder
    <3>1. PICK p : worker' = [worker EXCEPT ![w].pc = p]
      BY <2>1
    <3>2. \A v \in Workers : v # w => worker'[v] = worker[v]
      BY <3>1 DEF IInv, TypeOK
    <3>3. worker'[w] = [worker[w] EXCEPT !.pc = p] /\ worker[w] \in Transaction
      BY <2>1, <3>1, WorkerFields DEF IInv, TypeOK
    <3>4. worker'[w].reorder = worker[w].reorder
      BY <3>3 DEF Transaction
    <3> QED BY <2>1, <3>2, <3>4, Zenon
  <2> QED BY <1>2, <2>1, <2>2 DEF Reordering, Workers
<1>9. ASSUME NEW u \in Units, AddManually(u) \/ \E o \in Orders : ConfirmReceipt(o, u)
      PROVE  OpenAuto' \subseteq OpenAuto /\ Reordering' \subseteq Reordering
  <2>1. UNCHANGED worker
    BY <1>9 DEF AddManually, ConfirmReceipt
  <2>2. CASE AddManually(u)
    BY <1>2, <1>3, <2>1, <2>2 DEF AddManually
  <2>3. ASSUME NEW o \in Orders, ConfirmReceipt(o, u) PROVE OpenAuto' \subseteq OpenAuto
    <3>1. order' = [order EXCEPT ![o] = "Completed"] /\ AutoOrders \subseteq Orders
      BY <2>3 DEF ConfirmReceipt, Orders
    <3>2. \A a \in AutoOrders : order'[a] = "Bidding" => order[a] = "Bidding"
      BY <3>1 DEF IInv, TypeOK
    <3> QED BY <3>2 DEF OpenAuto
  <2> QED BY <1>3, <1>9, <2>1, <2>2, <2>3
<1>10. CASE UNCHANGED vars
  BY <1>2, <1>3, <1>10 DEF vars
<1> QED BY <1>4, <1>5, <1>6, <1>7, <1>8, <1>9, <1>10 DEF Next

\* CheckReorderThresholdAndTriggerProcurement opens an order only when it
\* reads none open: however the transactions interleave, there are at most as
\* many open automatic orders as workers.
THEOREM AutoOrdersFew == Spec => []AutoOrdersBounded
<1>1. Init => Bounded
  <2> SUFFICES ASSUME Init PROVE Bounded
    OBVIOUS
  <2>1. OpenAuto = {} /\ Reordering = {}
    BY DEF Init, OpenAuto, Reordering, Orders, Idle
  <2>2. IsFiniteSet(OpenAuto) /\ Cardinality(OpenAuto) = 0 /\ Cardinality(Reordering) = 0
    BY <2>1, FS_EmptySet
  <2>3. Cardinality(Workers) \in Nat
    BY WorkersFinite
  <2> QED BY <2>2, <2>3 DEF Bounded
<1>2. IInv /\ Bounded /\ [Next]_vars => Bounded'
  BY OthersBounded, LookUpBounded, CommitBounded, ShrinkBounded
<1>3. Bounded => AutoOrdersBounded
  <2> SUFFICES ASSUME Bounded PROVE Cardinality(OpenAuto) <= Cardinality(Workers)
    BY DEF AutoOrdersBounded, OpenAuto
  <2>1. Cardinality(OpenAuto) \in Nat
    BY FS_CardinalityType DEF Bounded
  <2> QED BY <2>1, WorkersFinite DEF Bounded
<1> QED BY <1>1, <1>2, <1>3, Invariance, PTL DEF Spec

=============================================================================
