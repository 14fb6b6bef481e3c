--------------------------- MODULE GovernedProofs ---------------------------
(***************************************************************************)
(* Proofs about governed command release, for every set of users, entities *)
(* and handlers and every bound.  First the engine alone (Workflow): type  *)
(* correctness, separation of duties, one approval per release, the audit  *)
(* of releases, one active instance per entity.  Then its composition with *)
(* the outbox, the stream and the consumer (GovernedCommands): only        *)
(* four-eyed commands run, and the composition keeps the promise that      *)
(* GovernedRelease states.                                                 *)
(***************************************************************************)
EXTENDS GovernedCommands, FiniteSetTheorems, WellFoundedInduction, TLAPS

\* Every live request concerns an instance that exists; it was checked against
\* the separation of duties if it has read the requester, and if it has not it
\* is an approval; and "execute" never takes the path of the unconditional
\* UPDATE.  This is what makes the stale reads harmless to FourEyes.
HandlersSegregated ==
    \A h \in Handlers :
        handler[h] # Idle =>
            /\ status[handler[h].instance] # "ABSENT"
            /\ \/ Segregated(handler[h].instance, handler[h].actor, handler[h].action)
               \/ handler[h].requested = None /\ handler[h].action = "approve"
            /\ handler[h].pc = "written" => handler[h].action # "execute"

\* A row that was never inserted has no columns, no audit and no releases.
AbsentIsBlank ==
    \A i \in Instances :
        /\ status[i] = "ABSENT" => /\ executedBy[i] = None
                                   /\ outbox[i] = <<>>
        /\ status[i] # "ABSENT" => requestedBy[i] \in Users

\* The inductive invariant behind FourEyes.
DutiesInv == FourEyes /\ HandlersSegregated /\ AbsentIsBlank

-----------------------------------------------------------------------------

\* Facts about the constants and the tables that every proof below uses.
LEMMA Tables ==
    /\ Instances \subseteq Int
    /\ Actions = {"approve", "reject", "return", "execute", "reconcile"}
    /\ \A a \in Actions : /\ Target[a] \in Statuses
                          /\ Target[a] # "ABSENT"
                          /\ Target[a] = "APPROVED" <=> a = "approve"
                          /\ Target[a] = "EXECUTED" <=> a = "execute"
                          /\ Valid[a] \subseteq Statuses \ {"ABSENT"}
  BY WorkflowAssumption DEF Instances, Actions, Target, Valid, Statuses, Active

\* The record of a request in flight.
LEMMA InFlightFields ==
    ASSUME TypeOK, NEW h \in Handlers, handler[h].pc \in {"found", "checked", "written"}
    PROVE  /\ handler[h] \in InFlight
           /\ handler[h].instance \in Instances
           /\ handler[h].action \in Actions
           /\ handler[h].actor \in Users
           /\ handler[h].requested \in Users \cup {None}
           /\ handler[h] # Idle
  BY DEF TypeOK, Idle, InFlight

\* A request that has found its instance and reads the requester, or fails to.
LEMMA RequesterRead ==
    ASSUME TypeOK, NEW h \in Handlers, ReadRequester(h)
    PROVE  /\ handler[h] \in InFlight
           /\ \E new \in InFlight :
                 /\ new.pc = "checked"
                 /\ new.instance = handler[h].instance
                 /\ new.action = handler[h].action
                 /\ new.actor = handler[h].actor
                 /\ new.requested \in {requestedBy[handler[h].instance], None} \ {new.actor}
                 /\ handler' = [handler EXCEPT ![h] = new]
           /\ UNCHANGED <<rowVars, audit, outbox, applied, unread>>
<1>1. handler[h] \in InFlight /\ handler[h].instance \in Instances
  BY InFlightFields DEF ReadRequester
<1>2. PICK q \in {requestedBy[handler[h].instance], None} :
          /\ q # handler[h].actor
          /\ handler' = [handler EXCEPT ![h] = [handler[h] EXCEPT !.pc = "checked",
                                                                  !.requested = q]]
  BY DEF ReadRequester
<1>3. q \in Users \cup {None}
  BY <1>1 DEF TypeOK
<1> DEFINE new == [handler[h] EXCEPT !.pc = "checked", !.requested = q]
<1>4. /\ new \in InFlight /\ new.pc = "checked" /\ new.requested = q
      /\ new.instance = handler[h].instance
      /\ new.action = handler[h].action
      /\ new.actor = handler[h].actor
  BY <1>1, <1>3 DEF InFlight
<1> HIDE DEF new
<1>5. handler' = [handler EXCEPT ![h] = new]
  BY <1>2 DEF new
<1>6. QED
  BY <1>1, <1>2, <1>4, <1>5 DEF ReadRequester

\* The releases that a requester checked are finitely many.
LEMMA SelfCheckedFinite ==
    ASSUME TypeOK, NEW i \in Instances
    PROVE  IsFiniteSet(SelfChecked(i)) /\ Cardinality(SelfChecked(i)) \in Nat
<1>1. outbox[i] \in Seq(Release)
  BY DEF TypeOK
<1>2. Len(outbox[i]) \in Nat /\ DOMAIN outbox[i] = 1 .. Len(outbox[i])
  BY <1>1
<1>3. SelfChecked(i) \subseteq 1 .. Len(outbox[i])
  BY <1>2 DEF SelfChecked
<1>4. IsFiniteSet(1 .. Len(outbox[i]))
  <2>1. \A n \in Nat : n \in Int
    OBVIOUS
  <2>2. \A n \in Nat : IsFiniteSet(1 .. n)
    BY ONLY <2>1, FS_Interval
  <2>3. QED
    BY ONLY <1>2, <2>2
<1>5. QED
  BY <1>3, <1>4, FS_Subset, FS_CardinalityType

-----------------------------------------------------------------------------

LEMMA TypeInit == Init => TypeOK
  BY WorkflowAssumption DEF Init, TypeOK, Statuses, Active, Idle

LEMMA TypeNext == TypeOK /\ [Next]_vars => TypeOK'
<1> SUFFICES ASSUME TypeOK, [Next]_vars PROVE TypeOK'
  OBVIOUS
<1> USE DEF TypeOK
<1>1. ASSUME NEW i \in Instances, NEW u \in Users, NEW e \in Entities, Create(i, u, e)
      PROVE  TypeOK'
  BY <1>1 DEF Create, Statuses, Active
<1>2. ASSUME NEW h \in Handlers, NEW u \in Users, NEW i \in Instances, NEW a \in Actions,
             Decide(h, u, i, a)
      PROVE  TypeOK'
  BY <1>2 DEF Decide, InFlight, rowVars
<1>3. ASSUME NEW h \in Handlers, NEW u \in Users, NEW e \in MaterialRequests,
             ApproveMaterial(h, u, e)
      PROVE  TypeOK'
  <2>1. PICK i \in Instances :
            handler' = [handler EXCEPT ![h] = [pc |-> "found", instance |-> i,
                                               action |-> "approve", actor |-> u,
                                               requested |-> None]]
    BY <1>3 DEF ApproveMaterial, Latest
  <2>2. "approve" \in Actions
    BY DEF Actions
  <2>3. QED
    BY <1>3, <2>1, <2>2 DEF ApproveMaterial, InFlight, rowVars
<1>10. ASSUME NEW h \in Handlers, ReadRequester(h) PROVE TypeOK'
  <2>1. handler' \in [Handlers -> {Idle} \cup InFlight]
    BY <1>10, RequesterRead
  <2>2. UNCHANGED <<rowVars, audit, outbox, applied, unread>>
    BY <1>10, RequesterRead
  <2>3. QED
    BY <2>1, <2>2 DEF rowVars
<1>4. ASSUME NEW h \in Handlers, Write(h) PROVE TypeOK'
  <2>1. handler[h] \in InFlight
    BY <1>4, InFlightFields DEF Write
  <2>2. handler' \in [Handlers -> {Idle} \cup InFlight]
    BY <1>4, <2>1 DEF Write, InFlight
  <2>3. status' \in [Instances -> Statuses] /\ checkedBy' \in [Instances -> Users \cup {None}]
    BY <1>4, <2>1, Tables DEF Write, InFlight, Checked
  <2>4. applied' \in [Instances -> [Actions -> Nat]]
    BY <1>4, <2>1 DEF Write, InFlight
  <2>5. unread' \in [Instances -> Nat]
    BY <1>4, <2>1 DEF Write, InFlight
  <2>6. QED
    BY <1>4, <2>2, <2>3, <2>4, <2>5 DEF Write
<1>5. ASSUME NEW h \in Handlers, WriteAudit(h) PROVE TypeOK'
  <2>1. handler[h] \in InFlight
    BY <1>5, InFlightFields DEF WriteAudit
  <2>2. QED
    BY <1>5, <2>1 DEF WriteAudit, InFlight, rowVars
<1>6. ASSUME NEW h \in Handlers, Execute(h) PROVE TypeOK'
  <2>1. handler[h] \in InFlight /\ "execute" \in Actions
    BY <1>6, InFlightFields DEF Execute, Actions
  <2>2. outbox' \in [Instances -> Seq(Release)]
    <3> DEFINE i == handler[h].instance
               rel == [actor |-> handler[h].actor, checker |-> checkedBy[i]]
    <3>1. i \in Instances /\ rel \in Release
      BY <2>1 DEF InFlight, Release
    <3>2. Append(outbox[i], rel) \in Seq(Release)
      BY <3>1
    <3>3. outbox' = [outbox EXCEPT ![i] = Append(outbox[i], rel)]
      BY <1>6 DEF Execute
    <3> HIDE DEF i, rel
    <3>4. QED
      BY <3>1, <3>2, <3>3
  <2>3. status' \in [Instances -> Statuses] /\ executedBy' \in [Instances -> Users \cup {None}]
    BY <1>6, <2>1 DEF Execute, InFlight, Statuses, Active
  <2>4. audit' \in [Instances -> [Actions -> Nat]] /\ applied' \in [Instances -> [Actions -> Nat]]
    BY <1>6, <2>1 DEF Execute, AuditRelease, InFlight
  <2>5. QED
    BY <1>6, <2>2, <2>3, <2>4 DEF Execute
<1>7. ASSUME NEW h \in Handlers, Abandon(h) PROVE TypeOK'
  BY <1>7 DEF Abandon, rowVars
<1>8. CASE UNCHANGED vars
  BY <1>8 DEF vars, rowVars
<1>9. QED
  BY <1>1, <1>2, <1>3, <1>4, <1>5, <1>6, <1>7, <1>8, <1>10 DEF Next

\* Every reachable state of the workflow tables and handlers is well typed.
THEOREM TypeCorrect == Spec => []TypeOK
  BY TypeInit, TypeNext, PTL DEF Spec

-----------------------------------------------------------------------------

\* What FourEyes says of one instance.
Eyes(i) ==
    /\ status[i] # "ABSENT" => executedBy[i] # requestedBy[i]
    /\ status[i] \in {"APPROVED", "EXECUTED"} => checkedBy[i] # None
    /\ \A k \in DOMAIN outbox[i] : /\ outbox[i][k].actor # requestedBy[i]
                                   /\ outbox[i][k].checker # None
    /\ Cardinality(SelfChecked(i)) <= unread[i]
    /\ status[i] = "APPROVED" /\ checkedBy[i] = requestedBy[i]
          => Cardinality(SelfChecked(i)) < unread[i]

LEMMA EyesAll == FourEyes <=> \A i \in Instances : Eyes(i)
  BY DEF FourEyes, Eyes

LEMMA DutiesInit == Init => DutiesInv
<1> SUFFICES ASSUME Init PROVE DutiesInv
  OBVIOUS
<1>1. HandlersSegregated /\ AbsentIsBlank
  BY DEF Init, HandlersSegregated, AbsentIsBlank, Idle
<1>2. ASSUME NEW i \in Instances PROVE Eyes(i)
  <2>1. status[i] = "ABSENT" /\ outbox[i] = <<>> /\ unread[i] = 0
    BY DEF Init
  <2>2. SelfChecked(i) = {} /\ Cardinality({}) = 0
    BY <2>1, FS_EmptySet DEF SelfChecked
  <2>3. QED
    BY <2>1, <2>2 DEF Eyes
<1>3. QED
  BY <1>1, <1>2, EyesAll DEF DutiesInv

\* An instance whose columns and releases are as they were keeps its four eyes.
LEMMA EyesKept ==
    ASSUME NEW i \in Instances, Eyes(i),
           requestedBy'[i] = requestedBy[i], checkedBy'[i] = checkedBy[i],
           executedBy'[i] = executedBy[i], status'[i] = status[i],
           outbox'[i] = outbox[i], unread'[i] = unread[i]
    PROVE  Eyes(i)'
<1>1. SelfChecked(i)' = SelfChecked(i)
  BY DEF SelfChecked
<1>2. QED
  BY <1>1 DEF Eyes

\* A request that finds or checks its instance takes the duties into its
\* handler; no row changes.
LEMMA DutiesBegin ==
    ASSUME TypeOK, DutiesInv, NEW h \in Handlers, NEW i \in Instances,
           NEW u \in Users, NEW a \in Actions, NEW new,
           new.pc # "written", new.instance = i, new.action = a, new.actor = u,
           status[i] # "ABSENT",
           Segregated(i, u, a) \/ (new.requested = None /\ a = "approve"),
           handler' = [handler EXCEPT ![h] = new],
           UNCHANGED <<rowVars, outbox, unread>>
    PROVE  DutiesInv'
<1>1. FourEyes' /\ AbsentIsBlank'
  <2>1. UNCHANGED <<status, requestedBy, checkedBy, executedBy, outbox, unread>>
    BY DEF rowVars
  <2>2. AbsentIsBlank'
    BY <2>1 DEF DutiesInv, AbsentIsBlank
  <2>3. FourEyes'
    BY <2>1, EyesKept, EyesAll DEF DutiesInv, FourEyes, SelfChecked
  <2>4. QED
    BY <2>2, <2>3
<1>2. ASSUME NEW g \in Handlers, handler'[g] # Idle
      PROVE  /\ status[handler'[g].instance] # "ABSENT"
             /\ \/ Segregated(handler'[g].instance, handler'[g].actor, handler'[g].action)
                \/ handler'[g].requested = None /\ handler'[g].action = "approve"
             /\ handler'[g].pc = "written" => handler'[g].action # "execute"
  <2>1. CASE g = h
    <3>1. handler'[g] = new
      BY <2>1 DEF TypeOK
    <3>2. QED
      BY <3>1
  <2>2. CASE g # h
    BY <2>2, <1>2 DEF DutiesInv, HandlersSegregated, TypeOK
  <2>3. QED
    BY <2>1, <2>2
<1>3. HandlersSegregated'
  BY <1>2 DEF HandlersSegregated, Segregated, rowVars, Idle
<1>4. QED
  BY <1>1, <1>3 DEF DutiesInv

\* A request that ends leaves the other requests as they were.
LEMMA DutiesEnd ==
    ASSUME TypeOK, DutiesInv, NEW h \in Handlers,
           handler' = [handler EXCEPT ![h] = Idle],
           UNCHANGED requestedBy,
           \A i \in Instances : status[i] # "ABSENT" => status'[i] # "ABSENT"
    PROVE  HandlersSegregated'
<1>1. ASSUME NEW g \in Handlers, handler'[g] # Idle
      PROVE  handler'[g] = handler[g] /\ handler[g] # Idle /\ handler[g].instance \in Instances
  <2>1. handler'[g] = handler[g] /\ handler[g] # Idle
    BY <1>1 DEF TypeOK
  <2>2. QED
    BY <2>1 DEF TypeOK, InFlight
<1>2. QED
  BY <1>1 DEF DutiesInv, HandlersSegregated, Segregated, Idle

LEMMA DutiesCreate ==
    ASSUME TypeOK, DutiesInv, NEW i \in Instances, NEW u \in Users, NEW e \in Entities,
           Create(i, u, e)
    PROVE  DutiesInv'
<1>1. /\ status[i] = "ABSENT"
      /\ status' = [status EXCEPT ![i] = "REQUESTED"]
      /\ requestedBy' = [requestedBy EXCEPT ![i] = u]
      /\ UNCHANGED <<checkedBy, executedBy, outbox, handler, unread>>
  BY DEF Create
<1>2. FourEyes'
  <2>1. ASSUME NEW j \in Instances, j # i PROVE Eyes(j)'
    <3>1. Eyes(j)
      BY EyesAll DEF DutiesInv
    <3>2. requestedBy'[j] = requestedBy[j] /\ status'[j] = status[j]
      BY <1>1, <2>1 DEF TypeOK
    <3>3. QED
      BY <1>1, <3>1, <3>2, EyesKept
  <2>2. Eyes(i)'
    <3>1. /\ outbox'[i] = <<>> /\ executedBy'[i] = None /\ requestedBy'[i] = u
          /\ status'[i] = "REQUESTED" /\ unread'[i] \in Nat
      BY <1>1 DEF DutiesInv, AbsentIsBlank, TypeOK
    <3>2. SelfChecked(i)' = {} /\ Cardinality({}) = 0
      BY <3>1, FS_EmptySet DEF SelfChecked
    <3>3. QED
      BY <3>1, <3>2, WorkflowAssumption DEF Eyes
  <2>3. QED
    BY <2>1, <2>2, EyesAll DEF FourEyes, Eyes, SelfChecked
<1>3. AbsentIsBlank'
  BY <1>1 DEF DutiesInv, AbsentIsBlank, TypeOK
<1>4. ASSUME NEW h \in Handlers, handler[h] # Idle
      PROVE  handler[h].instance \in Instances /\ handler[h].instance # i
  BY <1>1, <1>4 DEF DutiesInv, HandlersSegregated, TypeOK, InFlight
<1>5. HandlersSegregated'
  BY <1>1, <1>4 DEF DutiesInv, HandlersSegregated, Segregated, TypeOK, Idle
<1>6. QED
  BY <1>2, <1>3, <1>5 DEF DutiesInv

LEMMA DutiesWrite ==
    ASSUME TypeOK, DutiesInv, NEW h \in Handlers, Write(h)
    PROVE  DutiesInv'
<1> DEFINE i == handler[h].instance
           a == handler[h].action
           u == handler[h].actor
<1>1. /\ handler[h] \in InFlight /\ handler[h] # Idle
      /\ i \in Instances /\ a \in Actions /\ u \in Users
  BY InFlightFields DEF Write
<1>2. /\ a # "execute"
      /\ status' = [status EXCEPT ![i] = Target[a]]
      /\ checkedBy' = Checked(a, i, u)
      /\ handler' = [handler EXCEPT ![h] = [handler[h] EXCEPT !.pc = "written"]]
      /\ unread' = [unread EXCEPT ![i] = IF handler[h].requested = None
                                        THEN unread[i] + 1 ELSE unread[i]]
      /\ UNCHANGED <<requestedBy, executedBy, outbox>>
  BY DEF Write
<1>3. /\ status[i] # "ABSENT"
      /\ Segregated(i, u, a) \/ handler[h].requested = None
  BY <1>1 DEF DutiesInv, HandlersSegregated
<1>4. /\ Target[a] \notin {"ABSENT", "EXECUTED"}
      /\ Target[a] = "APPROVED" => a = "approve"
  BY <1>1, <1>2, Tables
<1>5. AbsentIsBlank'
  BY <1>1, <1>2, <1>3, <1>4 DEF DutiesInv, AbsentIsBlank, TypeOK
<1>6. ASSUME NEW j \in Instances PROVE Eyes(j)'
  <2>1. Eyes(j)
    BY EyesAll DEF DutiesInv
  <2>2. CASE j # i
    BY <2>1, <2>2, <1>1, <1>2, EyesKept DEF TypeOK, Checked
  <2>3. CASE j = i
    <3>1. status'[j] = Target[a]
      BY <2>3, <1>1, <1>2 DEF TypeOK
    <3>2. executedBy[j] # requestedBy[j]
      BY <2>1, <2>3, <1>3 DEF Eyes
    <3>3. SelfChecked(j)' = SelfChecked(j) /\ Cardinality(SelfChecked(j)) \in Nat
      BY <1>2, SelfCheckedFinite DEF SelfChecked
    <3>4. /\ unread[j] \in Nat /\ unread'[j] \in Nat /\ unread'[j] >= unread[j]
          /\ handler[h].requested = None => unread'[j] = unread[j] + 1
      BY <2>3, <1>1, <1>2 DEF TypeOK
    <3>5. Cardinality(SelfChecked(j)) <= unread[j]
      BY <2>1 DEF Eyes
    <3>6. ASSUME a = "approve"
          PROVE  /\ checkedBy'[j] = u /\ u # None
                 /\ u # requestedBy[j] \/ handler[h].requested = None
      BY <3>6, <2>3, <1>1, <1>2, <1>3, WorkflowAssumption
      DEF Checked, Segregated, TypeOK
    <3>7. status'[j] \in {"APPROVED", "EXECUTED"} => a = "approve"
      BY <3>1, <1>4
    <3>8. \A k \in DOMAIN outbox[j] : /\ outbox[j][k].actor # requestedBy[j]
                                       /\ outbox[j][k].checker # None
      BY <2>1 DEF Eyes
    <3>9. Cardinality(SelfChecked(j)) <= unread'[j]
      BY <3>3, <3>4, <3>5
    <3>10. handler[h].requested = None => Cardinality(SelfChecked(j)) < unread'[j]
      BY <3>3, <3>4, <3>5
    <3>11. QED
      BY <1>2, <3>2, <3>3, <3>6, <3>7, <3>8, <3>9, <3>10 DEF Eyes
  <2>4. QED
    BY <2>2, <2>3
<1>11. FourEyes'
  BY <1>6, EyesAll DEF FourEyes, Eyes, SelfChecked
<1>7. ASSUME NEW g \in Handlers, handler'[g] # Idle
      PROVE  /\ handler[g] # Idle
             /\ handler'[g].instance = handler[g].instance
             /\ handler'[g].action = handler[g].action
             /\ handler'[g].actor = handler[g].actor
             /\ handler'[g].requested = handler[g].requested
             /\ handler[g].instance \in Instances
             /\ handler'[g].pc = "written" => handler[g].action # "execute"
  <2>1. CASE g = h
    <3>1. handler'[g] = [handler[h] EXCEPT !.pc = "written"]
      BY <2>1, <1>2 DEF TypeOK
    <3>2. QED
      BY <2>1, <3>1, <1>1, <1>2 DEF InFlight
  <2>2. CASE g # h
    <3>1. handler'[g] = handler[g] /\ handler[g] \in InFlight
      BY <2>2, <1>2, <1>7 DEF TypeOK
    <3>2. QED
      BY <3>1, <1>7 DEF InFlight, DutiesInv, HandlersSegregated
  <2>3. QED
    BY <2>1, <2>2
<1>8. \A j \in Instances : status[j] # "ABSENT" => status'[j] # "ABSENT"
  BY <1>1, <1>2, <1>4 DEF TypeOK
<1>9. HandlersSegregated'
  BY <1>2, <1>7, <1>8 DEF DutiesInv, HandlersSegregated, Segregated, Idle
<1>10. QED
  BY <1>5, <1>9, <1>11 DEF DutiesInv

LEMMA DutiesExecute ==
    ASSUME TypeOK, DutiesInv, NEW h \in Handlers, Execute(h)
    PROVE  DutiesInv'
<1>0. handler[h].instance \in Instances /\ handler[h].actor \in Users
  BY InFlightFields DEF Execute
<1>1. PICK i \in Instances, u \in Users : i = handler[h].instance /\ u = handler[h].actor
  BY <1>0
<1> DEFINE rel == [actor |-> u, checker |-> checkedBy[i]]
<1>2. /\ status[i] = "APPROVED" /\ u # requestedBy[i]
      /\ status' = [status EXCEPT ![i] = "EXECUTED"]
      /\ executedBy' = [executedBy EXCEPT ![i] = u]
      /\ outbox' = [outbox EXCEPT ![i] = Append(outbox[i], rel)]
      /\ handler' = [handler EXCEPT ![h] = Idle]
      /\ UNCHANGED <<requestedBy, checkedBy, unread>>
  BY <1>1 DEF Execute, Releasable
<1>3. Eyes(i)
  BY <1>1, EyesAll DEF DutiesInv
<1>4. /\ rel.actor = u /\ rel.checker = checkedBy[i] /\ rel \in Release
      /\ checkedBy[i] # None
  BY <1>1, <1>2, <1>3 DEF TypeOK, Release, Eyes
<1> DEFINE n == Len(outbox[i])
<1>5. /\ n \in Nat /\ DOMAIN outbox[i] = 1 .. n
      /\ DOMAIN outbox'[i] = DOMAIN outbox[i] \cup {n + 1} /\ n + 1 \notin DOMAIN outbox[i]
      /\ \A k \in DOMAIN outbox[i] : outbox'[i][k] = outbox[i][k]
      /\ outbox'[i][n + 1] = rel
  <2> HIDE DEF rel
  <2>1. outbox[i] \in Seq(Release) /\ outbox'[i] = Append(outbox[i], rel)
    BY <1>1, <1>2 DEF TypeOK
  <2>2. /\ n \in Nat /\ DOMAIN outbox[i] = 1 .. n /\ DOMAIN outbox'[i] = 1 .. n + 1
        /\ \A k \in 1 .. n : outbox'[i][k] = outbox[i][k]
        /\ outbox'[i][n + 1] = rel
    BY <1>4, <2>1
  <2>3. 1 .. n + 1 = 1 .. n \cup {n + 1} /\ n + 1 \notin 1 .. n
    BY <2>2
  <2>4. QED
    BY <2>2, <2>3
<1>6. FourEyes'
  <2> HIDE DEF n, rel
  <2>1. ASSUME NEW j \in Instances, j # i PROVE Eyes(j)'
    <3>1. Eyes(j)
      BY EyesAll DEF DutiesInv
    <3>2. status'[j] = status[j] /\ executedBy'[j] = executedBy[j] /\ outbox'[j] = outbox[j]
      BY <1>2, <2>1 DEF TypeOK
    <3>3. QED
      BY <1>2, <3>1, <3>2, EyesKept
  <2>2. /\ status'[i] = "EXECUTED" /\ executedBy'[i] = u
    BY <1>1, <1>2 DEF TypeOK
  <2>3. \A k \in DOMAIN outbox'[i] : /\ outbox'[i][k].actor # requestedBy[i]
                                      /\ outbox'[i][k].checker # None
    BY <1>2, <1>3, <1>4, <1>5 DEF Eyes
  <2>4. Cardinality(SelfChecked(i)') <= unread[i]
    <3>1. IsFiniteSet(SelfChecked(i)) /\ Cardinality(SelfChecked(i)) \in Nat
      BY <1>1, SelfCheckedFinite
    <3>2. CASE checkedBy[i] = requestedBy[i]
      <4>1. SelfChecked(i)' = SelfChecked(i) \cup {n + 1} /\ n + 1 \notin SelfChecked(i)
        BY <1>2, <1>4, <1>5, <3>2 DEF SelfChecked
      <4>2. Cardinality(SelfChecked(i)') = Cardinality(SelfChecked(i)) + 1
        BY <3>1, <4>1, FS_AddElement
      <4>3. Cardinality(SelfChecked(i)) < unread[i] /\ unread[i] \in Nat
        BY <1>1, <1>2, <1>3, <3>2 DEF Eyes, TypeOK
      <4>4. QED
        BY <3>1, <4>2, <4>3
    <3>3. CASE checkedBy[i] # requestedBy[i]
      <4>1. SelfChecked(i)' = SelfChecked(i)
        BY <1>2, <1>4, <1>5, <3>3 DEF SelfChecked
      <4>2. QED
        BY <1>3, <4>1 DEF Eyes
    <3>4. QED
      BY <3>2, <3>3
  <2>5. Eyes(i)'
    BY <1>2, <1>4, <2>2, <2>3, <2>4 DEF Eyes
  <2>6. QED
    BY <2>1, <2>5, EyesAll DEF FourEyes, Eyes, SelfChecked
<1>7. AbsentIsBlank'
  BY <1>1, <1>2 DEF DutiesInv, AbsentIsBlank, TypeOK
<1>8. \A j \in Instances : status[j] # "ABSENT" => status'[j] # "ABSENT"
  BY <1>1, <1>2 DEF TypeOK
<1>9. HandlersSegregated'
  BY <1>2, <1>8, DutiesEnd
<1>10. QED
  BY <1>6, <1>7, <1>9 DEF DutiesInv

LEMMA DutiesNext == TypeOK /\ DutiesInv /\ [Next]_vars => DutiesInv'
<1> SUFFICES ASSUME TypeOK, DutiesInv, [Next]_vars PROVE DutiesInv'
  OBVIOUS
<1>1. ASSUME NEW i \in Instances, NEW u \in Users, NEW e \in Entities, Create(i, u, e)
      PROVE  DutiesInv'
  BY <1>1, DutiesCreate
<1>2. ASSUME NEW h \in Handlers, NEW u \in Users, NEW i \in Instances, NEW a \in Actions,
             Decide(h, u, i, a)
      PROVE  DutiesInv'
  <2>1. status[i] # "ABSENT"
    BY <1>2, Tables DEF Decide
  <2> DEFINE new == [pc |-> "checked", instance |-> i, action |-> a, actor |-> u,
                     requested |-> requestedBy[i]]
  <2>2. /\ handler' = [handler EXCEPT ![h] = new]
        /\ new.pc # "written" /\ new.instance = i /\ new.action = a /\ new.actor = u
        /\ Segregated(i, u, a)
        /\ UNCHANGED <<rowVars, outbox, unread>>
    BY <1>2 DEF Decide
  <2> HIDE DEF new
  <2>3. QED
    BY <2>1, <2>2, DutiesBegin
<1>3. ASSUME NEW h \in Handlers, NEW u \in Users, NEW e \in MaterialRequests,
             ApproveMaterial(h, u, e)
      PROVE  DutiesInv'
  <2>1. PICK i \in Instances :
            /\ status[i] # "ABSENT"
            /\ handler' = [handler EXCEPT ![h] = [pc |-> "found", instance |-> i,
                                                  action |-> "approve", actor |-> u,
                                                  requested |-> None]]
    BY <1>3 DEF ApproveMaterial, Latest
  <2>2. UNCHANGED <<rowVars, outbox, unread>> /\ "approve" \in Actions
    BY <1>3 DEF ApproveMaterial, Actions
  <2> DEFINE new == [pc |-> "found", instance |-> i, action |-> "approve", actor |-> u,
                     requested |-> None]
  <2>3. /\ handler' = [handler EXCEPT ![h] = new]
        /\ new.pc # "written" /\ new.instance = i /\ new.action = "approve" /\ new.actor = u
        /\ new.requested = None
    BY <2>1
  <2> HIDE DEF new
  <2>4. QED
    BY <2>1, <2>2, <2>3, DutiesBegin
<1>9. ASSUME NEW h \in Handlers, ReadRequester(h) PROVE DutiesInv'
  <2> DEFINE r == handler[h]
  <2>1. /\ r.pc = "found" /\ r \in InFlight /\ r # Idle
        /\ r.instance \in Instances /\ r.actor \in Users /\ r.action \in Actions
    BY <1>9, InFlightFields DEF ReadRequester
  <2>2. PICK new \in InFlight :
            /\ new.pc = "checked"
            /\ new.instance = r.instance /\ new.action = r.action /\ new.actor = r.actor
            /\ new.requested \in {requestedBy[r.instance], None} \ {new.actor}
            /\ handler' = [handler EXCEPT ![h] = new]
    BY <1>9, RequesterRead
  <2>3. /\ status[r.instance] # "ABSENT"
        /\ Segregated(r.instance, r.actor, r.action) \/ r.action = "approve"
    BY <2>1 DEF DutiesInv, HandlersSegregated
  <2>4. \/ Segregated(r.instance, r.actor, r.action)
        \/ new.requested = None /\ r.action = "approve"
    BY <2>2, <2>3 DEF Segregated
  <2>5. UNCHANGED <<rowVars, outbox, unread>>
    BY <1>9, RequesterRead
  <2> HIDE DEF r
  <2>6. QED
    BY <2>1, <2>2, <2>3, <2>4, <2>5, DutiesBegin
<1>4. ASSUME NEW h \in Handlers, Write(h) PROVE DutiesInv'
  BY <1>4, DutiesWrite
<1>5. ASSUME NEW h \in Handlers, WriteAudit(h) \/ Abandon(h) PROVE DutiesInv'
  <2>1. handler' = [handler EXCEPT ![h] = Idle] /\ UNCHANGED <<rowVars, outbox, unread>>
    BY <1>5 DEF WriteAudit, Abandon
  <2>2. FourEyes' /\ AbsentIsBlank'
    BY <2>1 DEF DutiesInv, FourEyes, SelfChecked, AbsentIsBlank, rowVars
  <2>3. HandlersSegregated'
    BY <2>1, DutiesEnd DEF rowVars
  <2>4. QED
    BY <2>2, <2>3 DEF DutiesInv
<1>6. ASSUME NEW h \in Handlers, Execute(h) PROVE DutiesInv'
  BY <1>6, DutiesExecute
<1>7. CASE UNCHANGED vars
  BY <1>7 DEF vars, rowVars, DutiesInv, FourEyes, SelfChecked, HandlersSegregated, Segregated,
              AbsentIsBlank
<1>8. QED
  BY <1>1, <1>2, <1>3, <1>4, <1>5, <1>6, <1>7, <1>9 DEF Next

\* However the requests interleave, no command is released by its requester or
\* unchecked, and a release that its requester checked costs an approval that was
\* applied after a failed read of the requester, one for each.
THEOREM SeparationOfDuties == Spec => []FourEyes
<1>1. Spec => []DutiesInv
  BY DutiesInit, DutiesNext, TypeCorrect, PTL DEF Spec
<1>2. DutiesInv => FourEyes
  BY DEF DutiesInv
<1>3. QED
  BY <1>1, <1>2, PTL

-----------------------------------------------------------------------------
\* What each kind of step does to the tables the remaining theorems are about.

\* A step that touches neither a status, an outbox row nor a count.
Quiet == UNCHANGED <<status, entity, outbox, applied>>

\* An instance i and its action a take the path of the plain UPDATE.
Updates(i, a) ==
    /\ a # "execute"
    /\ IndexAdmits(i, entity[i], Target[a])
    /\ status'  = [status EXCEPT ![i] = Target[a]]
    /\ applied' = [applied EXCEPT ![i][a] = @ + 1]
    /\ UNCHANGED <<entity, outbox, audit>>

\* An instance i is released.
Releases(i) ==
    /\ status[i] = "APPROVED"
    /\ status'  = [status EXCEPT ![i] = "EXECUTED"]
    /\ audit'   = AuditRelease(i)
    /\ applied' = [applied EXCEPT ![i]["execute"] = @ + 1]
    /\ \E rel : outbox' = [outbox EXCEPT ![i] = Append(@, rel)] /\ rel \in Release
    /\ UNCHANGED entity

\* An instance i is inserted for the entity e.
Inserts(i, e) ==
    /\ status[i] = "ABSENT"
    /\ IndexAdmits(i, e, "REQUESTED")
    /\ status' = [status EXCEPT ![i] = "REQUESTED"]
    /\ entity' = [entity EXCEPT ![i] = e]
    /\ UNCHANGED <<outbox, applied, audit>>

\* An audit row for a decision other than execute.
AuditsDecision ==
    /\ Quiet
    /\ \E i \in Instances, a \in Actions \ {"execute"} :
          audit' = [audit EXCEPT ![i][a] = @ + 1]

\* Every step of the specification is one of these.
LEMMA StepKinds ==
    ASSUME TypeOK, DutiesInv, [Next]_vars
    PROVE  \/ Quiet /\ UNCHANGED audit
           \/ AuditsDecision
           \/ \E i \in Instances, e \in Entities : Inserts(i, e)
           \/ \E i \in Instances, a \in Actions : Updates(i, a)
           \/ \E i \in Instances : Releases(i)
<1>1. ASSUME NEW i \in Instances, NEW u \in Users, NEW e \in Entities, Create(i, u, e)
      PROVE  Inserts(i, e)
  BY <1>1 DEF Create, Inserts
<1>2. ASSUME NEW h \in Handlers, NEW u \in Users, NEW i \in Instances, NEW a \in Actions,
             Decide(h, u, i, a)
      PROVE  Quiet /\ UNCHANGED audit
  BY <1>2 DEF Decide, Quiet, rowVars
<1>3. ASSUME NEW h \in Handlers, NEW u \in Users, NEW e \in MaterialRequests,
             ApproveMaterial(h, u, e)
      PROVE  Quiet /\ UNCHANGED audit
  BY <1>3 DEF ApproveMaterial, Quiet, rowVars
<1>4. ASSUME NEW h \in Handlers, Write(h)
      PROVE  \E i \in Instances, a \in Actions : Updates(i, a)
  <2>1. handler[h].instance \in Instances /\ handler[h].action \in Actions
    BY <1>4, InFlightFields DEF Write
  <2>2. Updates(handler[h].instance, handler[h].action)
    BY <1>4 DEF Write, Updates
  <2>3. QED
    BY <2>1, <2>2
<1>5. ASSUME NEW h \in Handlers, WriteAudit(h) PROVE AuditsDecision
  <2>1. /\ handler[h].instance \in Instances /\ handler[h].action \in Actions
        /\ handler[h] # Idle
    BY <1>5, InFlightFields DEF WriteAudit
  <2>2. handler[h].action # "execute"
    BY <1>5, <2>1 DEF WriteAudit, DutiesInv, HandlersSegregated
  <2>3. QED
    BY <1>5, <2>1, <2>2 DEF WriteAudit, AuditsDecision, Quiet, rowVars
<1>6. ASSUME NEW h \in Handlers, Execute(h) PROVE \E i \in Instances : Releases(i)
  <2> DEFINE i == handler[h].instance
             rel == [actor |-> handler[h].actor, checker |-> checkedBy[i]]
  <2>1. i \in Instances /\ rel \in Release
    BY <1>6, InFlightFields DEF Execute, Release, TypeOK
  <2>2. /\ Releasable(i, handler[h].actor)
        /\ status'  = [status EXCEPT ![i] = "EXECUTED"]
        /\ audit'   = AuditRelease(i)
        /\ applied' = [applied EXCEPT ![i]["execute"] = @ + 1]
        /\ outbox'  = [outbox EXCEPT ![i] = Append(@, rel)]
        /\ UNCHANGED entity
    BY <1>6 DEF Execute
  <2> HIDE DEF i, rel
  <2>3. Releases(i)
    BY <2>1, <2>2 DEF Releases, Releasable
  <2>4. QED
    BY <2>1, <2>3
<1>7. ASSUME NEW h \in Handlers, Abandon(h) PROVE Quiet /\ UNCHANGED audit
  BY <1>7 DEF Abandon, Quiet, rowVars
<1>8. ASSUME NEW h \in Handlers, ReadRequester(h) PROVE Quiet /\ UNCHANGED audit
  BY <1>8 DEF ReadRequester, Quiet, rowVars
<1>9. CASE UNCHANGED vars
  BY <1>9 DEF vars, rowVars, Quiet
<1>10. QED
  BY <1>1, <1>2, <1>3, <1>4, <1>5, <1>6, <1>7, <1>8, <1>9 DEF Next

\* The new counts of a release.
LEMMA ReleaseCounts ==
    ASSUME TypeOK, NEW i \in Instances, Releases(i), NEW j \in Instances
    PROVE  /\ j # i => /\ status'[j] = status[j] /\ outbox'[j] = outbox[j]
                       /\ applied'[j] = applied[j] /\ audit'[j] = audit[j]
           /\ status'[i] = "EXECUTED" /\ Len(outbox'[i]) = Len(outbox[i]) + 1
           /\ applied'[i]["execute"] = applied[i]["execute"] + 1
           /\ applied'[i]["approve"] = applied[i]["approve"]
           /\ audit'[i]["execute"] = audit[i]["execute"] + 1
<1>1. PICK rel \in Release : outbox' = [outbox EXCEPT ![i] = Append(@, rel)]
  BY DEF Releases
<1>2. outbox[i] \in Seq(Release)
  BY DEF TypeOK
<1>3. outbox'[i] = Append(outbox[i], rel)
  BY <1>1 DEF TypeOK
<1>4. Len(outbox'[i]) = Len(outbox[i]) + 1
  BY <1>2, <1>3
<1>5. j # i => /\ status'[j] = status[j] /\ outbox'[j] = outbox[j]
               /\ applied'[j] = applied[j] /\ audit'[j] = audit[j]
  <2>1. j # i => status'[j] = status[j] /\ outbox'[j] = outbox[j]
    BY <1>1 DEF Releases, TypeOK
  <2>2. j # i => applied'[j] = applied[j]
    BY DEF Releases, TypeOK
  <2>3. j # i => audit'[j] = audit[j]
    BY DEF Releases, AuditRelease, TypeOK
  <2>4. QED
    BY <2>1, <2>2, <2>3
<1>6. status'[i] = "EXECUTED"
  BY DEF Releases, TypeOK
<1>7. /\ applied'[i]["execute"] = applied[i]["execute"] + 1
      /\ applied'[i]["approve"] = applied[i]["approve"]
      /\ audit'[i]["execute"] = audit[i]["execute"] + 1
  <2>1. applied[i] \in [Actions -> Nat] /\ audit[i] \in [Actions -> Nat]
    BY DEF TypeOK
  <2>2. /\ applied'[i] = [applied[i] EXCEPT !["execute"] = @ + 1]
        /\ audit'[i] = [audit[i] EXCEPT !["execute"] = @ + 1]
    BY DEF Releases, AuditRelease, TypeOK
  <2>3. QED
    BY <2>1, <2>2, Tables
<1>8. QED
  BY <1>4, <1>5, <1>6, <1>7

-----------------------------------------------------------------------------

LEMMA SpendInit == Init => ReleaseSpendsApproval
  BY DEF Init, ReleaseSpendsApproval, Actions

LEMMA SpendNext ==
    TypeOK /\ DutiesInv /\ ReleaseSpendsApproval /\ [Next]_vars => ReleaseSpendsApproval'
<1> DEFINE Spent(j) == /\ Len(outbox[j]) <= applied[j]["approve"]
                       /\ status[j] = "APPROVED" => Len(outbox[j]) < applied[j]["approve"]
<1> SUFFICES ASSUME TypeOK, DutiesInv, ReleaseSpendsApproval, [Next]_vars,
                    NEW j \in Instances
             PROVE  Spent(j)'
  BY DEF ReleaseSpendsApproval
<1>1. /\ Len(outbox[j]) \in Nat
      /\ applied[j]["approve"] \in Nat
      /\ Spent(j)
  BY Tables DEF TypeOK, ReleaseSpendsApproval
<1>2. CASE Quiet
  BY <1>1, <1>2 DEF Quiet
<1>3. ASSUME NEW i \in Instances, NEW e \in Entities, Inserts(i, e) PROVE Spent(j)'
  BY <1>1, <1>3 DEF Inserts, TypeOK
<1>4. ASSUME NEW i \in Instances, NEW a \in Actions, Updates(i, a) PROVE Spent(j)'
  <2>1. outbox'[j] = outbox[j]
    BY <1>4 DEF Updates
  <2>2. CASE j # i
    <3>1. status'[j] = status[j] /\ applied'[j] = applied[j]
      BY <1>4, <2>2 DEF Updates, TypeOK
    <3>2. QED
      BY <1>1, <2>1, <3>1
  <2>3. CASE j = i
    <3>1. /\ applied[j] \in [Actions -> Nat]
          /\ applied'[j] = [applied[j] EXCEPT ![a] = @ + 1]
      BY <1>4, <2>3 DEF Updates, TypeOK
    <3>2. CASE a = "approve"
      <4>1. applied'[j]["approve"] = applied[j]["approve"] + 1
        BY <3>1, <3>2, Tables
      <4>2. QED
        BY <1>1, <2>1, <4>1
    <3>3. CASE a # "approve"
      <4>1. applied'[j]["approve"] = applied[j]["approve"]
        BY <3>1, <3>3, Tables
      <4>2. status'[j] # "APPROVED"
        BY <1>4, <2>3, <3>3, Tables DEF Updates, TypeOK
      <4>3. QED
        BY <1>1, <2>1, <4>1, <4>2
    <3>4. QED
      BY <3>2, <3>3
  <2>4. QED
    BY <2>2, <2>3
<1>5. ASSUME NEW i \in Instances, Releases(i) PROVE Spent(j)'
  <2>1. CASE j # i
    <3>1. status'[j] = status[j] /\ outbox'[j] = outbox[j] /\ applied'[j] = applied[j]
      BY <1>5, <2>1, ReleaseCounts
    <3>2. QED
      BY <1>1, <3>1
  <2>2. CASE j = i
    <3>1. status[j] = "APPROVED"
      BY <1>5, <2>2 DEF Releases
    <3>2. /\ status'[j] = "EXECUTED" /\ Len(outbox'[j]) = Len(outbox[j]) + 1
          /\ applied'[j]["approve"] = applied[j]["approve"]
      BY <1>5, <2>2, ReleaseCounts
    <3>3. QED
      BY <1>1, <3>1, <3>2
  <2>3. QED
    BY <2>1, <2>2
<1>6. QED
  BY <1>2, <1>3, <1>4, <1>5, StepKinds DEF AuditsDecision

\* However approvals, executions and returns interleave, an instance never
\* releases its command more often than it was approved.
THEOREM OneApprovalPerRelease == Spec => []ReleaseSpendsApproval
<1>1. Spec => []DutiesInv
  BY DutiesInit, DutiesNext, TypeCorrect, PTL DEF Spec
<1>2. QED
  BY SpendInit, SpendNext, <1>1, TypeCorrect, PTL DEF Spec

-----------------------------------------------------------------------------

LEMMA AuditInit == Init => ReleaseAudited
  BY DEF Init, ReleaseAudited, Actions

LEMMA AuditNext ==
    TypeOK /\ DutiesInv /\ ReleaseAudited /\ [Next]_vars => ReleaseAudited'
<1> SUFFICES ASSUME TypeOK, DutiesInv, ReleaseAudited, [Next]_vars, NEW j \in Instances
             PROVE  /\ audit'[j]["execute"] = Len(outbox'[j])
                    /\ applied'[j]["execute"] = Len(outbox'[j])
  BY DEF ReleaseAudited
<1> DEFINE Goal == /\ audit'[j]["execute"] = Len(outbox'[j])
                   /\ applied'[j]["execute"] = Len(outbox'[j])
<1>1. /\ audit[j]["execute"] = Len(outbox[j])
      /\ applied[j]["execute"] = Len(outbox[j])
  BY DEF ReleaseAudited
<1>2. CASE Quiet /\ UNCHANGED audit
  BY <1>1, <1>2 DEF Quiet
<1>3. CASE AuditsDecision
  BY <1>1, <1>3, Tables DEF AuditsDecision, Quiet, TypeOK
<1>4. ASSUME NEW i \in Instances, NEW e \in Entities, Inserts(i, e) PROVE Goal
  BY <1>1, <1>4 DEF Inserts
<1>5. ASSUME NEW i \in Instances, NEW a \in Actions, Updates(i, a) PROVE Goal
  <2>1. applied'[j]["execute"] = applied[j]["execute"]
    BY <1>5, Tables DEF Updates, TypeOK
  <2>2. QED
    BY <1>1, <1>5, <2>1 DEF Updates
<1>6. ASSUME NEW i \in Instances, Releases(i) PROVE Goal
  BY <1>1, <1>6, ReleaseCounts
<1>7. QED
  BY <1>2, <1>3, <1>4, <1>5, <1>6, StepKinds

\* The outbox, the audit table and the executions applied always agree.
THEOREM ReleasesAudited == Spec => []ReleaseAudited
<1>1. Spec => []DutiesInv
  BY DutiesInit, DutiesNext, TypeCorrect, PTL DEF Spec
<1>2. QED
  BY AuditInit, AuditNext, <1>1, TypeCorrect, PTL DEF Spec

-----------------------------------------------------------------------------

LEMMA ActiveInit == Init => OneActivePerEntity
  BY DEF Init, OneActivePerEntity, Active

LEMMA ActiveNext ==
    TypeOK /\ DutiesInv /\ OneActivePerEntity /\ [Next]_vars => OneActivePerEntity'
<1> SUFFICES ASSUME TypeOK, DutiesInv, OneActivePerEntity, [Next]_vars
             PROVE  OneActivePerEntity'
  OBVIOUS
<1>1. CASE Quiet
  BY <1>1 DEF Quiet, OneActivePerEntity
<1>2. ASSUME NEW i \in Instances, NEW e \in Entities, Inserts(i, e)
      PROVE  OneActivePerEntity'
  BY <1>2 DEF Inserts, IndexAdmits, Active, OneActivePerEntity, TypeOK
<1>3. ASSUME NEW i \in Instances, NEW a \in Actions, Updates(i, a)
      PROVE  OneActivePerEntity'
  BY <1>3 DEF Updates, IndexAdmits, OneActivePerEntity, TypeOK
<1>4. ASSUME NEW i \in Instances, Releases(i)
      PROVE  OneActivePerEntity'
  BY <1>4 DEF Releases, Active, OneActivePerEntity, TypeOK
<1>5. QED
  BY <1>1, <1>2, <1>3, <1>4, StepKinds DEF AuditsDecision

\* No entity ever has two workflows that are requested, approved or executed.
THEOREM OneActive == Spec => []OneActivePerEntity
<1>1. Spec => []DutiesInv
  BY DutiesInit, DutiesNext, TypeCorrect, PTL DEF Spec
<1>2. QED
  BY ActiveInit, ActiveNext, <1>1, TypeCorrect, PTL DEF Spec

-----------------------------------------------------------------------------

\* What a step does to EXECUTED and to the outbox.
ReleaseStep ==
    \A i \in Instances :
        (Len(outbox'[i]) # Len(outbox[i]) \/ (status'[i] = "EXECUTED" /\ status[i] # "EXECUTED"))
        => /\ status[i] = "APPROVED"
           /\ status'[i] = "EXECUTED"
           /\ Len(outbox'[i]) = Len(outbox[i]) + 1

LEMMA ReleaseStepNext == TypeOK /\ DutiesInv /\ [Next]_vars => ReleaseStep
<1> SUFFICES ASSUME TypeOK, DutiesInv, [Next]_vars PROVE ReleaseStep
  OBVIOUS
<1>1. CASE Quiet
  BY <1>1 DEF Quiet, ReleaseStep
<1>2. ASSUME NEW i \in Instances, NEW e \in Entities, Inserts(i, e)
      PROVE  ReleaseStep
  BY <1>2 DEF Inserts, ReleaseStep, TypeOK
<1>3. ASSUME NEW i \in Instances, NEW a \in Actions, Updates(i, a)
      PROVE  ReleaseStep
  BY <1>3, Tables DEF Updates, ReleaseStep, TypeOK
<1>4. ASSUME NEW i \in Instances, Releases(i)
      PROVE  ReleaseStep
  BY <1>4, ReleaseCounts DEF Releases, ReleaseStep
<1>5. QED
  BY <1>1, <1>2, <1>3, <1>4, StepKinds DEF AuditsDecision

\* Only the locked transaction makes an instance EXECUTED or adds an outbox
\* row, and it does both at once, from APPROVED.
THEOREM AtomicRelease == Spec => ReleaseIsAtomic
<1>1. Spec => []DutiesInv
  BY DutiesInit, DutiesNext, TypeCorrect, PTL DEF Spec
<1>2. TypeOK /\ DutiesInv /\ [Next]_vars => [ReleaseStep]_vars
  BY ReleaseStepNext
<1>3. Spec => [][ReleaseStep]_vars
  BY <1>1, <1>2, TypeCorrect, PTL DEF Spec
<1>4. QED
  BY <1>3 DEF ReleaseIsAtomic, ReleaseStep

-----------------------------------------------------------------------------
\* The composition: the engine and the delivery, as they are.

\* Every step of the composed system is one of the engine, or leaves its tables
\* alone: what is proved above of the engine holds while commands are delivered.
THEOREM SystemImplementsWorkflow == SystemSpec => Spec
<1>1. SystemInit => Init
  BY DEF SystemInit
<1>2. [SystemNext]_systemVars => [Next]_vars
  BY DEF SystemNext, ExecuteAndCommit, Govern, Next, systemVars
<1> QED BY <1>1, <1>2, PTL DEF SystemSpec, Spec

\* And it is one of the delivery: an execution commits a row, the other requests
\* do not touch the outbox, the stream or the inbox.
THEOREM SystemImplementsDelivery == SystemSpec => D!Spec
<1>1. SystemInit => D!Init
  BY DEF SystemInit
<1>2. deliveryVars' = deliveryVars => D!vars' = D!vars
  BY DEF deliveryVars, D!vars, D!outboxVars, D!publisherVars, D!streamVars, D!clientVars
<1>3. [SystemNext]_systemVars => [D!Next]_(D!vars)
  BY <1>2 DEF SystemNext, ExecuteAndCommit, D!Next, systemVars
<1> QED BY <1>1, <1>3, PTL DEF SystemSpec, D!Spec

-----------------------------------------------------------------------------
\* From the outbox to the operation: nothing is stored, delivered or run that is
\* not a row.

\* What the transport holds refers to rows: the batch to places of the table,
\* the stream to rows, and what is due, buffered or handled to the stream.
CarriedOK ==
    /\ rows \in Seq(Events)
    /\ batch \subseteq DOMAIN rows
    /\ stream \in Seq(ToSet(rows))
    /\ due \subseteq 1 .. Len(stream)
    /\ deliveries \in [D!Positions -> Nat]
    /\ \A n \in D!Positions : deliveries[n] > 0 => n \in 1 .. Len(stream)
    /\ buffer \in Seq(1 .. Len(stream))
    /\ worker \in {D!Free} \cup [pc : {"claimed", "ran", "completed"},
                                 position : 1 .. Len(stream), owner : BOOLEAN]
    /\ runs \in [Events -> Nat]
    /\ \A e \in Events : runs[e] > 0 => e \in ToSet(rows)

\* The place a pass is at is one of its places.
LEMMA LeastIsIn ==
  ASSUME NEW S \in SUBSET Nat, S # {}
  PROVE  D!Min(S) \in S
<1> DEFINE R == OpToRel(<, Nat)
<1>1. \E x \in S : \A y \in S : ~ (<<y, x>> \in R)
  <2>1. IsWellFoundedOn(R, Nat)
    BY NatLessThanWellFounded
  <2> HIDE DEF R
  <2> QED BY <2>1, WFMin
<1>2. PICK x \in S : \A y \in S : ~ (<<y, x>> \in R)
  BY <1>1
<1>3. \A y \in S : x <= y
  <2> SUFFICES ASSUME NEW y \in S, y < x PROVE FALSE
    OBVIOUS
  <2>1. <<y, x>> \in R
    BY DEF OpToRel
  <2> QED BY <1>2, <2>1
<1> QED BY <1>3 DEF D!Min

\* What the publisher sends is a row of the table.
LEMMA CurrentIsRow ==
  ASSUME CarriedOK, batch # {}
  PROVE  D!Current \in ToSet(rows)
<1>1. batch \in SUBSET Nat /\ DOMAIN rows = 1 .. Len(rows)
  BY DEF CarriedOK
<1>2. D!Min(batch) \in DOMAIN rows
  BY <1>1, LeastIsIn DEF CarriedOK
<1> QED BY <1>2 DEF D!Current, ToSet

\* The table and the stream as they were are the beginnings of what they are.
Onward ==
    /\ rows' \in Seq(Events) /\ ToSet(rows) \subseteq ToSet(rows')
    /\ stream' \in Seq(ToSet(rows')) /\ Len(stream) <= Len(stream')
    /\ due' \subseteq 1 .. Len(stream')

\* A sequence over a set is one over any larger set.
LEMMA SeqWiden ==
  ASSUME NEW S, NEW T, S \subseteq T, NEW s \in Seq(S)
  PROVE  s \in Seq(T)
<1>1. Len(s) \in Nat /\ s = [i \in 1 .. Len(s) |-> s[i]] /\ \A i \in 1 .. Len(s) : s[i] \in T
  OBVIOUS
<1> QED BY <1>1

\* What refers to the table and the stream still does when they grow.
LEMMA CarriedOnward ==
  ASSUME CarriedOK, Onward, batch' \subseteq DOMAIN rows',
         UNCHANGED <<deliveries, buffer, worker, runs>>
  PROVE  CarriedOK'
<1>1. Len(stream) \in Nat /\ Len(stream') \in Nat /\ 1 .. Len(stream) \subseteq 1 .. Len(stream')
  BY DEF CarriedOK, Onward
<1>2. buffer \in Seq(1 .. Len(stream'))
  BY <1>1, SeqWiden DEF CarriedOK
<1>3. worker' \in {D!Free} \cup [pc : {"claimed", "ran", "completed"},
                                 position : 1 .. Len(stream'), owner : BOOLEAN]
  BY <1>1 DEF CarriedOK
<1>4. /\ \A n \in D!Positions : deliveries'[n] > 0 => n \in 1 .. Len(stream')
      /\ \A e \in Events : runs'[e] > 0 => e \in ToSet(rows')
  BY <1>1 DEF CarriedOK, Onward
<1> QED BY <1>1, <1>2, <1>3, <1>4 DEF CarriedOK, Onward

\* A message that is accepted is a row.
LEMMA AcceptGoesOn ==
  ASSUME CarriedOK, UNCHANGED rows, NEW e \in ToSet(rows),
         D!Accept(e) \/ UNCHANGED <<stream, window, due>>
  PROVE  Onward
<1>1. CASE UNCHANGED <<stream, due>>
  BY <1>1 DEF CarriedOK, Onward
<1>2. CASE stream' = Append(stream, e) /\ due' = due \cup {Len(stream) + 1}
  <2>1. /\ stream' \in Seq(ToSet(rows)) /\ Len(stream') = Len(stream) + 1
        /\ Len(stream) \in Nat
    BY <1>2 DEF CarriedOK
  <2>2. ASSUME NEW n \in due' PROVE n \in 1 .. Len(stream) + 1
    <3>1. n \in 1 .. Len(stream) \/ n = Len(stream) + 1
      BY <1>2, <2>2 DEF CarriedOK
    <3> QED BY <2>1, <3>1
  <2> QED BY <2>1, <2>2 DEF CarriedOK, Onward
<1> QED BY <1>1, <1>2 DEF D!Accept

\* A committed row joins the table, and nothing else changes.
LEMMA CommitCarries ==
  ASSUME CarriedOK, NEW e \in Events, D!Commit(e)
  PROVE  CarriedOK' /\ ToSet(rows') = ToSet(rows) \cup {e}
<1>1. /\ rows' = Append(rows, e) /\ batch' = batch /\ UNCHANGED <<stream, due>>
      /\ UNCHANGED <<deliveries, buffer, worker, runs>>
  BY DEF D!Commit, D!publisherVars, D!streamVars, D!clientVars
<1>2. /\ rows' \in Seq(Events) /\ DOMAIN rows \subseteq DOMAIN rows'
      /\ ToSet(rows') = ToSet(rows) \cup {e}
  <2>1. rows \in Seq(Events)
    BY DEF CarriedOK
  <2>2. /\ rows' \in Seq(Events) /\ Len(rows') = Len(rows) + 1 /\ Len(rows) \in Nat
        /\ \A i \in 1 .. Len(rows) : rows'[i] = rows[i]
        /\ rows'[Len(rows) + 1] = e
    BY <1>1, <2>1
  <2>3. DOMAIN rows = 1 .. Len(rows) /\ DOMAIN rows' = 1 .. Len(rows) + 1
    BY <2>1, <2>2
  <2>4. DOMAIN rows' = DOMAIN rows \cup {Len(rows) + 1}
    BY <2>2, <2>3
  <2> QED BY <2>2, <2>3, <2>4 DEF ToSet
<1>3. stream \in Seq(ToSet(rows'))
  BY <1>2 DEF CarriedOK
<1>4. Onward
  BY <1>1, <1>2, <1>3 DEF CarriedOK, Onward
<1> QED BY <1>1, <1>2, <1>4, CarriedOnward DEF CarriedOK

\* The publisher and its timers send rows of the table; they run nothing.
LEMMA PublisherCarries ==
  ASSUME CarriedOK, D!PublisherNext \/ (\E e \in Events : D!Retry(e) \/ D!WindowExpires(e))
  PROVE  CarriedOK' /\ UNCHANGED <<rows, runs>>
<1> USE DEF D!outboxVars, D!publisherVars, D!streamVars, D!clientVars
<1>1. UNCHANGED <<rows, deliveries, buffer, worker, runs>>
  BY DEF D!PublisherNext, D!Poll, D!Publish, D!PublishFails, D!Mark, D!MarkFails,
         D!Retry, D!WindowExpires
<1>2. batch' \subseteq DOMAIN rows
  BY DEF CarriedOK, D!PublisherNext, D!Poll, D!Publish, D!PublishFails, D!Mark, D!MarkFails,
         D!Retry, D!WindowExpires, D!Rest, D!Eligible
<1>3. CASE UNCHANGED <<stream, due>>
  <2>1. Onward
    BY <1>1, <1>3 DEF CarriedOK, Onward
  <2> QED BY <1>1, <1>2, <2>1, CarriedOnward
<1>4. CASE D!Publish \/ D!PublishFails
  <2>1. /\ D!Accept(D!Current) \/ UNCHANGED <<stream, window, due>>
        /\ D!Current \in ToSet(rows)
    BY <1>4, CurrentIsRow DEF D!Publish, D!PublishFails
  <2>2. Onward
    BY <1>1, <2>1, AcceptGoesOn
  <2> QED BY <1>1, <1>2, <2>2, CarriedOnward
<1> QED BY <1>3, <1>4 DEF D!PublisherNext, D!Poll, D!Mark, D!MarkFails, D!Retry, D!WindowExpires

\* What the server and the consumer do leaves the table and the stream alone.
LEMMA ClientCarries ==
  ASSUME CarriedOK,
         \/ D!WorkerNext
         \/ D!Crash
         \/ \E e \in Events : D!LockExpires(e)
         \/ \E n \in D!Positions : D!Deliver(n) \/ D!AckWaitExpires(n)
  PROVE  /\ CarriedOK' /\ UNCHANGED rows
         /\ \/ UNCHANGED runs
            \/ \E e \in ToSet(rows) : runs' = [runs EXCEPT ![e] = @ + 1]
<1> USE DEF D!outboxVars, D!publisherVars, D!streamVars, D!clientVars
<1> DEFINE Stored == 1 .. Len(stream)
<1>1. UNCHANGED <<rows, stream>> /\ batch' \subseteq DOMAIN rows
  BY DEF CarriedOK, D!WorkerNext, D!Take, D!TakeFails, D!Run, D!RunDropped, D!Refuse, D!RunFails, D!Complete,
         D!Acknowledge, D!Crash, D!LockExpires, D!Deliver, D!AckWaitExpires
<1>2. ASSUME due' \subseteq Stored, UNCHANGED deliveries, UNCHANGED runs,
             buffer' \in Seq(Stored),
             worker' \in {D!Free} \cup [pc : {"claimed", "ran", "completed"},
                                        position : Stored, owner : BOOLEAN]
      PROVE  CarriedOK'
  BY <1>1, <1>2 DEF CarriedOK
<1>3. buffer # <<>> => Head(buffer) \in Stored /\ Tail(buffer) \in Seq(Stored)
  BY DEF CarriedOK
<1>4. worker # D!Free \/ worker.pc # "free" => worker.position \in Stored /\ worker # D!Free
  BY DEF CarriedOK, D!Free
<1>5. D!Free.pc = "free"
  BY DEF D!Free
<1>6. CASE D!Take
  <2>1. buffer # <<>>
    BY <1>6 DEF D!Take
  <2> DEFINE o == D!Claims(stream[Head(buffer)])
  <2>2. /\ o \in BOOLEAN
        /\ worker' = [pc |-> "claimed", position |-> Head(buffer), owner |-> o]
    BY <1>6 DEF D!Take, D!Claims
  <2>3. /\ buffer' = Tail(buffer) /\ UNCHANGED <<due, deliveries, runs>>
    BY <1>6 DEF D!Take
  <2> QED BY <1>1, <1>2, <1>3, <2>1, <2>2, <2>3 DEF CarriedOK
<1>7. CASE D!TakeFails
  <2>1. buffer # <<>> /\ buffer' = Tail(buffer) /\ UNCHANGED <<deliveries, worker, runs>>
        /\ due' \subseteq due \cup {Head(buffer)}
    BY <1>7 DEF D!TakeFails, D!Nak
  <2> QED BY <1>1, <1>2, <1>3, <2>1 DEF CarriedOK
<1>8. CASE D!Run
  <2> DEFINE e == stream[worker.position]
  <2>1. worker.pc = "claimed" /\ worker.position \in Stored /\ worker # D!Free
    BY <1>4, <1>8 DEF D!Run
  <2>2. e \in ToSet(rows) /\ e \in Events
    BY <2>1 DEF CarriedOK, ToSet
  <2>3. /\ runs' = [runs EXCEPT ![e] = @ + 1] /\ worker' = [worker EXCEPT !.pc = "ran"]
        /\ UNCHANGED <<due, deliveries, buffer>>
    BY <1>8 DEF D!Run
  <2>4. worker' \in [pc : {"claimed", "ran", "completed"}, position : Stored, owner : BOOLEAN]
    BY <2>1, <2>3 DEF CarriedOK
  <2>5. runs' \in [Events -> Nat] /\ \A x \in Events : runs'[x] > 0 => x \in ToSet(rows)
    <3> HIDE DEF e
    <3> QED BY <2>2, <2>3 DEF CarriedOK
  <2>6. CarriedOK'
    BY <1>1, <2>3, <2>4, <2>5 DEF CarriedOK
  <2> QED BY <1>1, <2>2, <2>3, <2>6
<1>15. CASE D!RunDropped
  <2>1. worker \in [pc : {"claimed", "ran", "completed"}, position : Stored, owner : BOOLEAN]
    BY <1>4, <1>15 DEF D!RunDropped, CarriedOK
  <2>2. worker' = [worker EXCEPT !.pc = "ran"] /\ UNCHANGED <<due, deliveries, buffer, runs>>
    BY <1>15 DEF D!RunDropped
  <2>3. worker' \in [pc : {"claimed", "ran", "completed"}, position : Stored, owner : BOOLEAN]
    BY <2>1, <2>2
  <2> QED BY <1>1, <1>2, <2>2, <2>3 DEF CarriedOK
<1>9. CASE D!Refuse \/ D!RunFails \/ D!Acknowledge
  <2>1. worker # D!Free
    BY <1>5, <1>9 DEF D!Refuse, D!RunFails, D!Acknowledge, D!AckReady
  <2>2. /\ due' \subseteq due \cup {worker.position} /\ worker' = D!Free
        /\ UNCHANGED <<deliveries, buffer, runs>>
    BY <1>9 DEF D!Refuse, D!RunFails, D!Acknowledge, D!Nak, D!Settle
  <2> QED BY <1>1, <1>2, <1>4, <2>1, <2>2 DEF CarriedOK
<1>10. CASE D!Complete
  <2>1. worker # D!Free
    BY <1>5, <1>10 DEF D!Complete, D!Ready
  <2>2. /\ worker' = [worker EXCEPT !.pc = "completed"]
        /\ UNCHANGED <<due, deliveries, buffer, runs>>
    BY <1>10 DEF D!Complete, D!Onward
  <2>3. worker' \in [pc : {"claimed", "ran", "completed"}, position : Stored, owner : BOOLEAN]
    BY <2>1, <2>2 DEF CarriedOK
  <2> QED BY <1>1, <1>2, <2>2, <2>3 DEF CarriedOK
<1>11. CASE D!Crash
  <2>1. buffer' = <<>> /\ worker' = D!Free /\ UNCHANGED <<due, deliveries, runs>>
    BY <1>11 DEF D!Crash
  <2> QED BY <1>1, <1>2, <2>1 DEF CarriedOK
<1>12. CASE \E e \in Events : D!LockExpires(e)
  <2>1. UNCHANGED <<due, deliveries, buffer, worker, runs>>
    BY <1>12 DEF D!LockExpires
  <2> QED BY <1>1, <1>2, <2>1 DEF CarriedOK
<1>13. ASSUME NEW n \in D!Positions, D!Deliver(n) PROVE CarriedOK' /\ UNCHANGED runs
  <2>1. /\ n \in due /\ due' = due \ {n} /\ buffer' = Append(buffer, n)
        /\ deliveries' = [deliveries EXCEPT ![n] = @ + 1] /\ UNCHANGED <<worker, runs>>
    BY <1>13 DEF D!Deliver
  <2>2. n \in Stored
    BY <2>1 DEF CarriedOK
  <2>3. buffer' \in Seq(Stored)
    BY <2>1, <2>2 DEF CarriedOK
  <2>4. /\ deliveries' \in [D!Positions -> Nat]
        /\ \A m \in D!Positions : deliveries'[m] > 0 => m \in Stored
    BY <2>1, <2>2 DEF CarriedOK
  <2> QED BY <1>1, <2>1, <2>3, <2>4 DEF CarriedOK
<1>14. ASSUME NEW n \in D!Positions, D!AckWaitExpires(n) PROVE CarriedOK' /\ UNCHANGED runs
  <2>1. /\ n \in Stored /\ due' = due \cup {n}
        /\ UNCHANGED <<deliveries, buffer, worker, runs>>
    BY <1>14 DEF CarriedOK, D!AckWaitExpires
  <2> QED BY <1>1, <1>2, <2>1 DEF CarriedOK
<1> QED BY <1>1, <1>6, <1>7, <1>8, <1>9, <1>10, <1>11, <1>12, <1>13, <1>14, <1>15,
           <1>2 DEF D!WorkerNext, D!TakeFails, D!Take, D!Refuse, D!RunFails, D!Acknowledge,
                    D!Complete, D!Crash, D!LockExpires

-----------------------------------------------------------------------------
\* The outbox the engine writes and the table the publisher reads.

\* The rows of the table are the releases made, and no other.
TablesAgree == ToSet(rows) = {e \in Events : e[2] <= Len(outbox[e[1]])}

\* What the composition keeps of the two components together.
SystemInv == CarriedOK /\ TablesAgree

\* A request that releases nothing leaves the outbox alone, and applies at most
\* one decision.
LEMMA GovernKeeps ==
  ASSUME TypeOK, Govern
  PROVE  /\ UNCHANGED outbox
         /\ \/ UNCHANGED applied
            \/ \E i \in Instances, a \in Actions \ {"execute"} :
                  applied' = [applied EXCEPT ![i][a] = @ + 1]
<1>1. ASSUME NEW h \in Handlers, Write(h)
      PROVE  /\ UNCHANGED outbox
             /\ \E i \in Instances, a \in Actions \ {"execute"} :
                   applied' = [applied EXCEPT ![i][a] = @ + 1]
  BY <1>1, InFlightFields DEF Write
<1>2. ASSUME NEW h \in Handlers, ReadRequester(h) \/ WriteAudit(h) \/ Abandon(h)
      PROVE  UNCHANGED <<outbox, applied>>
  BY <1>2 DEF ReadRequester, WriteAudit, Abandon
<1>3. ASSUME NEW i \in Instances, NEW u \in Users, NEW e \in Entities, Create(i, u, e)
      PROVE  UNCHANGED <<outbox, applied>>
  BY <1>3 DEF Create
<1>4. ASSUME NEW h \in Handlers, NEW u \in Users, NEW i \in Instances, NEW a \in Actions,
             Decide(h, u, i, a)
      PROVE  UNCHANGED <<outbox, applied>>
  BY <1>4 DEF Decide
<1>5. ASSUME NEW h \in Handlers, NEW u \in Users, NEW e \in MaterialRequests,
             ApproveMaterial(h, u, e)
      PROVE  UNCHANGED <<outbox, applied>>
  BY <1>5 DEF ApproveMaterial
<1> QED BY <1>1, <1>2, <1>3, <1>4, <1>5 DEF Govern

\* The transaction of an execution adds a release to its instance, and the
\* row of that release to the table.
LEMMA ExecuteCommits ==
  ASSUME TypeOK, NEW h \in Handlers, ExecuteAndCommit(h)
  PROVE  \E i \in Instances :
            /\ status[i] = "APPROVED"
            /\ \A j \in Instances \ {i} : outbox'[j] = outbox[j]
            /\ Len(outbox[i]) \in Nat /\ Len(outbox'[i]) = Len(outbox[i]) + 1
            /\ \A j \in Instances : applied'[j]["approve"] = applied[j]["approve"]
            /\ <<i, Len(outbox[i]) + 1>> \in Events
            /\ D!Commit(<<i, Len(outbox[i]) + 1>>)
<1> DEFINE i == handler[h].instance
           rel == [actor |-> handler[h].actor, checker |-> checkedBy[i]]
<1>1. Execute(h)
  BY DEF ExecuteAndCommit
<1>2. i \in Instances /\ rel \in Release
  BY <1>1, InFlightFields DEF Execute, Release, TypeOK
<1>3. /\ status[i] = "APPROVED"
      /\ outbox' = [outbox EXCEPT ![i] = Append(@, rel)]
      /\ applied' = [applied EXCEPT ![i]["execute"] = @ + 1]
  BY <1>1 DEF Execute, Releasable
<1>4. <<i, Len(outbox[i]) + 1>> \in Events /\ D!Commit(<<i, Len(outbox[i]) + 1>>)
  BY DEF ExecuteAndCommit
<1> HIDE DEF i, rel
<1>5. /\ outbox'[i] = Append(outbox[i], rel) /\ outbox[i] \in Seq(Release)
      /\ \A j \in Instances \ {i} : outbox'[j] = outbox[j]
  BY <1>2, <1>3 DEF TypeOK
<1>6. Len(outbox[i]) \in Nat /\ Len(outbox'[i]) = Len(outbox[i]) + 1
  BY <1>2, <1>5
<1>7. ASSUME NEW j \in Instances PROVE applied'[j]["approve"] = applied[j]["approve"]
  <2>1. applied[j] \in [Actions -> Nat]
    BY DEF TypeOK
  <2>2. applied'[j] = IF j = i THEN [applied[j] EXCEPT !["execute"] = @ + 1] ELSE applied[j]
    BY <1>2, <1>3 DEF TypeOK
  <2> QED BY <2>1, <2>2, Tables
<1> QED BY <1>2, <1>3, <1>4, <1>5, <1>6, <1>7

LEMMA SystemInvInit == SystemInit => SystemInv
<1> SUFFICES ASSUME SystemInit PROVE SystemInv
  OBVIOUS
<1>1. Init /\ D!Init
  BY DEF SystemInit
<1>2. CarriedOK
  <2>1. Len(<<>>) = 0 /\ DOMAIN <<>> = {}
    OBVIOUS
  <2> QED BY <1>1, <2>1 DEF D!Init, CarriedOK
<1>3. \A i \in Instances : Len(outbox[i]) = 0
  BY <1>1 DEF Init
<1>4. \A e \in Events : e[1] \in Instances /\ e[2] \in Nat /\ e[2] > 0
  BY ReleasesAssumption DEF Events
<1>5. TablesAgree
  <2>1. ToSet(rows) = {}
    BY <1>1 DEF D!Init, ToSet
  <2> QED BY <1>3, <1>4, <2>1 DEF TablesAgree
<1> QED BY <1>2, <1>5 DEF SystemInv

LEMMA SystemInvNext ==
  TypeOK /\ SystemInv /\ [SystemNext]_systemVars => SystemInv'
<1> SUFFICES ASSUME TypeOK, SystemInv, [SystemNext]_systemVars PROVE SystemInv'
  OBVIOUS
<1>1. CASE UNCHANGED deliveryVars /\ UNCHANGED outbox
  BY <1>1 DEF SystemInv, CarriedOK, TablesAgree, deliveryVars
<1>2. CASE UNCHANGED systemVars
  BY <1>1, <1>2 DEF systemVars, vars
<1>3. CASE Govern /\ UNCHANGED deliveryVars
  BY <1>1, <1>3, GovernKeeps
<1>4. CASE D!Transport /\ UNCHANGED vars
  <2>1. CarriedOK' /\ UNCHANGED rows
    BY <1>4, PublisherCarries, ClientCarries DEF SystemInv, D!Transport
  <2>2. UNCHANGED outbox
    BY <1>4 DEF vars
  <2> QED BY <2>1, <2>2 DEF SystemInv, TablesAgree
<1>5. ASSUME NEW h \in Handlers, ExecuteAndCommit(h) PROVE SystemInv'
  <2>1. PICK i \in Instances :
            /\ \A j \in Instances \ {i} : outbox'[j] = outbox[j]
            /\ Len(outbox[i]) \in Nat /\ Len(outbox'[i]) = Len(outbox[i]) + 1
            /\ <<i, Len(outbox[i]) + 1>> \in Events
            /\ D!Commit(<<i, Len(outbox[i]) + 1>>)
    BY <1>5, ExecuteCommits
  <2>2. PICK e \in Events : e = <<i, Len(outbox[i]) + 1>>
    BY <2>1
  <2>3. CarriedOK' /\ ToSet(rows') = ToSet(rows) \cup {e}
    BY <2>1, <2>2, CommitCarries DEF SystemInv
  <2>4. ASSUME NEW x \in Events
        PROVE  x[2] <= Len(outbox'[x[1]]) <=> (x[2] <= Len(outbox[x[1]]) \/ x = e)
    <3>1. /\ x[1] \in Instances /\ x[2] \in Nat /\ x = <<x[1], x[2]>>
          /\ e[1] = i /\ e[2] = Len(outbox[i]) + 1 /\ e = <<e[1], e[2]>>
      BY <2>2, ReleasesAssumption DEF Events
    <3>2. CASE x[1] # i
      BY <2>1, <3>1, <3>2
    <3>3. CASE x[1] = i
      <4>1. x[2] <= Len(outbox[i]) + 1 <=> (x[2] <= Len(outbox[i]) \/ x[2] = Len(outbox[i]) + 1)
        BY <2>1, <3>1
      <4>2. x[2] = Len(outbox[i]) + 1 <=> x = e
        BY <3>1, <3>3
      <4> QED BY <2>1, <3>3, <4>1, <4>2
    <3> QED BY <3>2, <3>3
  <2>5. TablesAgree'
    BY <2>3, <2>4 DEF SystemInv, TablesAgree
  <2> QED BY <2>3, <2>5 DEF SystemInv
<1> QED BY <1>2, <1>3, <1>4, <1>5 DEF SystemNext

LEMMA SystemInvHolds == SystemSpec => [](TypeOK /\ DutiesInv /\ ReleaseSpendsApproval /\ SystemInv)
<1>1. SystemSpec => []TypeOK
  BY SystemImplementsWorkflow, TypeCorrect, PTL
<1>2. SystemSpec => [](DutiesInv /\ ReleaseSpendsApproval)
  <2>1. Spec => []DutiesInv
    BY DutiesInit, DutiesNext, TypeCorrect, PTL DEF Spec
  <2> QED BY <2>1, SystemImplementsWorkflow, OneApprovalPerRelease, PTL
<1>3. SystemSpec => []SystemInv
  BY <1>1, SystemInvInit, SystemInvNext, PTL DEF SystemSpec
<1> QED BY <1>1, <1>2, <1>3, PTL

\* Whatever is raced, lost, redelivered or restarted: the publisher's table
\* holds the releases the engine made; an operation runs only for a release made
\* by somebody other than its requester and on a check; and of an instance no
\* more operations run on the requester's own check than approvals were applied
\* after a failed read of the requester.
THEOREM OnlyFourEyedRun == SystemSpec => []RunsAreFourEyed
<1>1. TypeOK /\ DutiesInv /\ SystemInv => RunsAreFourEyed
  <2> SUFFICES ASSUME TypeOK, DutiesInv, SystemInv PROVE RunsAreFourEyed
    OBVIOUS
  <2>1. ASSUME NEW e \in Events, runs[e] > 0
        PROVE  /\ e \in ToSet(rows)
               /\ outbox[e[1]][e[2]].actor # requestedBy[e[1]]
               /\ outbox[e[1]][e[2]].checker # None
    <3>1. e \in ToSet(rows) /\ e[2] <= Len(outbox[e[1]])
      BY <2>1 DEF SystemInv, CarriedOK, TablesAgree
    <3>2. e[1] \in Instances /\ e[2] \in Nat /\ e[2] > 0
      BY ReleasesAssumption DEF Events
    <3>3. outbox[e[1]] \in Seq(Release)
      BY <3>2 DEF TypeOK
    <3>4. e[2] \in DOMAIN outbox[e[1]]
      BY <3>1, <3>2, <3>3
    <3> QED BY <3>1, <3>2, <3>4 DEF DutiesInv, FourEyes
  <2>2. ASSUME NEW i \in Instances
        PROVE  Cardinality({k \in SelfChecked(i) : runs[<<i, k>>] > 0}) <= unread[i]
    <3> DEFINE Ran == {k \in SelfChecked(i) : runs[<<i, k>>] > 0}
    <3>1. IsFiniteSet(SelfChecked(i)) /\ Cardinality(SelfChecked(i)) \in Nat
      BY SelfCheckedFinite
    <3>2. Ran \subseteq SelfChecked(i)
      OBVIOUS
    <3> HIDE DEF Ran
    <3>3. /\ Cardinality(Ran) \in Nat
          /\ Cardinality(Ran) <= Cardinality(SelfChecked(i))
      BY <3>1, <3>2, FS_Subset, FS_CardinalityType
    <3>4. Cardinality(SelfChecked(i)) <= unread[i] /\ unread[i] \in Nat
      BY DEF DutiesInv, FourEyes, TypeOK
    <3>5. Cardinality(Ran) <= unread[i]
      BY <3>1, <3>3, <3>4
    <3> QED BY <3>5 DEF Ran
  <2> QED BY <2>1, <2>2 DEF RunsAreFourEyed, SystemInv, TablesAgree
<1> QED BY <1>1, SystemInvHolds, PTL

-----------------------------------------------------------------------------
\* The refinement of the promise.

LEMMA PromiseInit == SystemInit => Promise!Init
<1> SUFFICES ASSUME SystemInit PROVE Promise!Init
  OBVIOUS
<1>1. Init /\ D!Init /\ Len(<<>>) = 0
  BY DEF SystemInit
<1>2. [i \in Instances |-> applied[i]["approve"]] = [i \in Instances |-> 0]
  BY <1>1, Tables DEF Init
<1>3. [i \in Instances |-> Len(outbox[i])] = [i \in Instances |-> 0]
  BY <1>1 DEF Init
<1>4. runs = [c \in Instances \X (1 .. MaxReleases) |-> 0]
  BY <1>1 DEF D!Init, Events
<1> QED BY <1>2, <1>3, <1>4 DEF Promise!Init

\* What the promise sees of a state.
Approvals == [i \in Instances |-> applied[i]["approve"]]
Released == [i \in Instances |-> Len(outbox[i])]

\* The plain UPDATE of an approval gives one; the other decisions give none.
LEMMA GovernPromise ==
  ASSUME TypeOK, Govern, UNCHANGED runs
  PROVE  [Promise!Next]_(Promise!vars)
<1>1. Released' = Released
  BY GovernKeeps DEF Released
<1>2. CASE Approvals' = Approvals
  BY <1>1, <1>2 DEF Approvals, Released, Promise!vars
<1>3. ASSUME NEW i \in Instances, NEW a \in Actions \ {"execute"},
             applied' = [applied EXCEPT ![i][a] = @ + 1]
      PROVE  [Promise!Next]_(Promise!vars)
  <2>1. \A j \in Instances : applied[j] \in [Actions -> Nat]
    BY DEF TypeOK
  <2>2. ASSUME NEW j \in Instances
        PROVE  applied'[j] = IF j = i THEN [applied[j] EXCEPT ![a] = @ + 1] ELSE applied[j]
    BY <1>3 DEF TypeOK
  <2>3. CASE a # "approve"
    <3>1. ASSUME NEW j \in Instances PROVE applied'[j]["approve"] = applied[j]["approve"]
      <4>1. applied[j] \in [Actions -> Nat]
        BY <2>1
      <4>2. CASE j = i
        <5>1. applied'[j] = [applied[j] EXCEPT ![a] = @ + 1]
          BY <2>2, <4>2
        <5> QED BY <2>3, <4>1, <5>1
      <4>3. CASE j # i
        <5>1. applied'[j] = applied[j]
          BY <2>2, <4>3
        <5> QED BY <5>1
      <4> QED BY <4>2, <4>3
    <3> QED BY <1>2, <3>1 DEF Approvals
  <2>4. CASE a = "approve"
    <3>1. ASSUME NEW j \in Instances
          PROVE  applied'[j]["approve"] = IF j = i THEN applied[j]["approve"] + 1
                                                   ELSE applied[j]["approve"]
      <4>1. applied[j] \in [Actions -> Nat] /\ "approve" \in Actions
        BY <2>1, Tables
      <4> QED BY <2>2, <2>4, <4>1
    <3>2. Approvals' = [Approvals EXCEPT ![i] = @ + 1]
      BY <3>1 DEF Approvals
    <3>3. Promise!Approve(i)
      BY <1>1, <3>2 DEF Promise!Approve, Approvals, Released
    <3> QED BY <3>3 DEF Promise!Next
  <2> QED BY <2>3, <2>4
<1>4. CASE UNCHANGED applied
  BY <1>2, <1>4 DEF Approvals
<1> QED BY <1>3, <1>4, GovernKeeps

\* The transaction of an execution is a release that an approval pays for.
LEMMA ExecutePromise ==
  ASSUME TypeOK, ReleaseSpendsApproval, NEW h \in Handlers, ExecuteAndCommit(h)
  PROVE  \E i \in Instances : Promise!Release(i)
<1>1. PICK i \in Instances :
            /\ status[i] = "APPROVED"
            /\ \A j \in Instances \ {i} : outbox'[j] = outbox[j]
            /\ Len(outbox'[i]) = Len(outbox[i]) + 1
            /\ \A j \in Instances : applied'[j]["approve"] = applied[j]["approve"]
            /\ D!Commit(<<i, Len(outbox[i]) + 1>>)
  BY ExecuteCommits
<1>2. Len(outbox[i]) < applied[i]["approve"]
  BY <1>1 DEF ReleaseSpendsApproval
<1>3. UNCHANGED runs
  BY <1>1 DEF D!Commit
<1>4. Approvals' = Approvals
  BY <1>1 DEF Approvals
<1>5. Released' = [Released EXCEPT ![i] = @ + 1]
  BY <1>1 DEF Released
<1>6. Released[i] < Approvals[i]
  BY <1>2 DEF Released, Approvals
<1>7. Promise!Release(i)
  BY <1>3, <1>4, <1>5, <1>6 DEF Promise!Release, Approvals, Released
<1> QED BY <1>7

\* An operation that runs is a release that was made.
LEMMA TransportPromise ==
  ASSUME SystemInv, D!Transport, UNCHANGED vars
  PROVE  [Promise!Next]_(Promise!vars)
<1>1. Approvals' = Approvals /\ Released' = Released
  BY DEF Approvals, Released, vars
<1>2. CASE UNCHANGED runs
  BY <1>1, <1>2 DEF Approvals, Released, Promise!vars
<1>3. ASSUME NEW e \in ToSet(rows), runs' = [runs EXCEPT ![e] = @ + 1]
      PROVE  [Promise!Next]_(Promise!vars)
  <2>1. e \in Events /\ e[2] <= Len(outbox[e[1]])
    BY DEF SystemInv, TablesAgree
  <2>2. e[1] \in Instances /\ e[2] \in 1 .. MaxReleases /\ e = <<e[1], e[2]>>
    BY <2>1 DEF Events
  <2>3. e[2] <= Released[e[1]]
    BY <2>1, <2>2 DEF Released
  <2>4. Promise!Run(e[1], e[2])
    BY <1>1, <1>3, <2>2, <2>3 DEF Promise!Run, Approvals, Released
  <2> QED BY <2>2, <2>4 DEF Promise!Next
<1>4. UNCHANGED runs \/ \E e \in ToSet(rows) : runs' = [runs EXCEPT ![e] = @ + 1]
  BY PublisherCarries, ClientCarries DEF SystemInv, D!Transport
<1> QED BY <1>2, <1>3, <1>4

\* The engine, the outbox, the stream and the consumer together keep the promise
\* of governed release: a command is released against an approval of its own,
\* and its operation runs only once it was released.
THEOREM SystemKeepsPromise == SystemSpec => KeepsPromise
<1>1. ASSUME TypeOK, ReleaseSpendsApproval, SystemInv, [SystemNext]_systemVars
      PROVE  [Promise!Next]_(Promise!vars)
  <2>1. CASE UNCHANGED systemVars
    BY <2>1 DEF systemVars, vars, deliveryVars, Promise!vars
  <2>2. CASE Govern /\ UNCHANGED deliveryVars
    BY <1>1, <2>2, GovernPromise DEF deliveryVars
  <2>3. CASE D!Transport /\ UNCHANGED vars
    BY <1>1, <2>3, TransportPromise
  <2>4. CASE \E h \in Handlers : ExecuteAndCommit(h)
    BY <1>1, <2>4, ExecutePromise DEF Promise!Next
  <2> QED BY <1>1, <2>1, <2>2, <2>3, <2>4 DEF SystemNext
<1> QED BY <1>1, PromiseInit, SystemInvHolds, PTL DEF SystemSpec, KeepsPromise, Promise!Spec

=============================================================================
