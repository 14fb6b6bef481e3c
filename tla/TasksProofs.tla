---------------------------- MODULE TasksProofs ----------------------------
(***************************************************************************)
(* Theorems about Tasks and the Ledger its timesheets post to, for any     *)
(* users, tasks, tickets, processes and requests, and any bounds.          *)
(***************************************************************************)
EXTENDS Tasks, FiniteSetTheorems, WellFoundedInduction, TLAPS

Message == [body : Bodies, tries : 0 .. MaxDeliver, settled : BOOLEAN]

\* What a worker and a conversion hold, beside their types.
HeldOK ==
    /\ \A w \in Workers : worker[w].pc # "free" =>
           /\ worker[w].n \in 1 .. Len(queue[w])
           /\ queue[w][worker[w].n].body.kind = "status"
    /\ \A a \in Agents :
           /\ agent[a].pc # "new" => agent[a].ticket \in Tickets
           /\ agent[a].pc = "save" => agent[a].row \in Row /\ agent[a].row.status = "Pending"

TypeInv == TypeOK /\ HeldOK

\* What no step takes back.
Grows ==
    /\ finished \subseteq finished' /\ unchecked \subseteq unchecked' /\ unsaved \subseteq unsaved'
    /\ \A t \in TaskIds : task[t] # None => task'[t] # None
    /\ faults' >= faults

-----------------------------------------------------------------------------
\* Parts of the steps.

LEMMA BodyFields ==
  ASSUME NEW b \in Bodies
  PROVE  /\ b.kind = "create" => /\ b.task \in TaskIds /\ b.to \in Users /\ b.by \in Users
                                 /\ b.dep \in TaskIds \cup {None}
         /\ b.kind = "status" => b.task \in TaskIds /\ b.status \in Statuses
         /\ b.kind = "approve" => b.sheet \in Sheets /\ b.by \in Users
  BY TasksAssumption DEF Body, CreateTask, UpdateStatus, Approve

LEMMA WorkerFields ==
  ASSUME TypeInv, NEW w \in Workers, worker[w].pc # "free"
  PROVE  /\ worker[w] \in Busy
         /\ worker[w].row \in Row
         /\ worker[w].n \in 1 .. Len(queue[w])
         /\ queue[w][worker[w].n] \in Message
         /\ queue[w][worker[w].n].body \in Bodies
         /\ queue[w][worker[w].n].body.kind = "status"
         /\ queue[w][worker[w].n].body.task \in TaskIds
         /\ queue[w][worker[w].n].body.status \in Statuses
<1>1. worker[w] \in Busy /\ worker[w].row \in Row
  BY DEF TypeInv, TypeOK, Busy, Free
<1>2. /\ worker[w].n \in 1 .. Len(queue[w])
      /\ queue[w][worker[w].n].body.kind = "status"
  BY DEF TypeInv, HeldOK
<1>3. queue[w][worker[w].n] \in Message
  <2>1. queue[w] \in Seq(Message)
    BY DEF TypeInv, TypeOK, Message
  <2> QED BY <1>2, <2>1
<1>4. queue[w][worker[w].n].body \in Bodies
  BY <1>3 DEF Message
<1> QED BY <1>1, <1>2, <1>3, <1>4, BodyFields

\* The row of a ticket or of a new task.
LEMMA NewRows ==
  ASSUME NEW to \in Users, NEW by \in Users, NEW dep \in TaskIds \cup {None}, NEW u \in Users
  PROVE  [status |-> FirstStatus, to |-> to, by |-> by, dep |-> dep, region |-> RegionOf[u]] \in Row
<1>1. FirstStatus \in Statuses /\ RegionOf[u] \in {RegionOf[x] : x \in Users}
  BY DEF FirstStatus, Statuses
<1> QED BY <1>1 DEF Row

\* How many things go wrong in a step.
LEMMA FaultsCounted ==
  ASSUME TypeOK, NEW a, NEW b, Faults(a, b)
  PROVE  faults' \in 0 .. MaxFaults /\ faults' >= faults /\ (a \/ b => faults' > 0)
<1>1. faults \in Nat /\ MaxFaults \in Nat
  BY TasksAssumption DEF TypeOK
<1> QED BY <1>1 DEF Faults

LEMMA NoFault == ASSUME TypeInv, UNCHANGED faults PROVE faults' >= faults
  BY DEF TypeInv, TypeOK

\* A save, dropped or made.
LEMMA Saved ==
  ASSUME TypeOK, NEW t \in TaskIds, NEW row \in Row, NEW fails, SaveTask(t, row, fails)
  PROVE  /\ task' \in [TaskIds -> Row \cup {None}]
         /\ finished' \subseteq TaskIds /\ finished \subseteq finished'
         /\ unsaved' \subseteq TaskIds /\ unsaved \subseteq unsaved'
         /\ \A x \in TaskIds : task[x] # None => task'[x] # None
         /\ \A x \in TaskIds : task'[x] = task[x] \/ (x = t /\ task'[x] = row)
         /\ task'[t] # None \/ t \in unsaved'
         /\ row.status \in Finished => task' = task \/ t \in finished'
<1>1. row # None
  BY TasksAssumption
<1>2. task \in [TaskIds -> Row \cup {None}] /\ finished \subseteq TaskIds /\ unsaved \subseteq TaskIds
  BY DEF TypeOK
<1>3. CASE unsaved' = unsaved \cup {t} /\ UNCHANGED <<task, finished>>
  BY <1>2, <1>3
<1>4. CASE /\ task' = [task EXCEPT ![t] = row]
           /\ finished' = IF row.status \in Finished THEN finished \cup {t} ELSE finished
           /\ UNCHANGED unsaved
  BY <1>1, <1>2, <1>4
<1> QED BY <1>3, <1>4 DEF SaveTask

\* A delivery, which moves no command.
LEMMA Delivered ==
  ASSUME TypeOK, NEW w \in Workers, NEW n, NEW settled \in BOOLEAN,
         Deliverable(w, n), Deliver(w, n, settled)
  PROVE  /\ queue' \in [Workers -> Seq(Message)]
         /\ n \in 1 .. Len(queue[w]) /\ queue[w][n].body \in Bodies /\ worker[w] = Free
         /\ \A v \in Workers : /\ Len(queue'[v]) = Len(queue[v])
                               /\ \A m \in 1 .. Len(queue[v]) : queue'[v][m].body = queue[v][m].body
<1>0. queue \in [Workers -> Seq(Message)] /\ n \in 1 .. Len(queue[w])
  BY DEF TypeOK, Message, Deliverable
<1> DEFINE msg == [queue[w][n] EXCEPT !.tries = @ + 1, !.settled = settled]
           line == [queue[w] EXCEPT ![n] = msg]
<1>1. queue[w][n] \in Message
  BY <1>0
<1>2. queue[w][n].tries + 1 \in 0 .. MaxDeliver
  <2>1. queue[w][n].tries \in 0 .. MaxDeliver /\ queue[w][n].tries < MaxDeliver
    BY <1>1 DEF Message, Deliverable
  <2> QED BY <2>1, TasksAssumption
<1>3. msg \in Message /\ msg.body = queue[w][n].body
  BY <1>1, <1>2 DEF Message
<1>4. queue' = [queue EXCEPT ![w] = line]
  BY DEF Deliver
<1>5. line \in Seq(Message) /\ Len(line) = Len(queue[w])
      /\ \A m \in 1 .. Len(queue[w]) : line[m] = IF m = n THEN msg ELSE queue[w][m]
  <2> HIDE DEF msg
  <2> QED BY <1>0, <1>3
<1>6. worker[w] = Free /\ queue[w][n].body \in Bodies
  BY <1>1 DEF Deliverable, Message
<1> HIDE DEF msg, line
<1> QED BY <1>0, <1>3, <1>4, <1>5, <1>6

-----------------------------------------------------------------------------
\* Type correctness.

LEMMA TypeInit == ASSUME Init PROVE TypeInv
<1>1. task \in [TaskIds -> Row \cup {None}]
  BY TasksAssumption DEF Init
<1>2. queue \in [Workers -> Seq(Message)]
  BY DEF Init
<1>3. 0 \in 0 .. MaxFaults
  BY TasksAssumption
<1>4. LedgerTypeOK
  BY DEF LedgerTypeOK, Init, LedgerInit
<1> QED BY <1>1, <1>2, <1>3, <1>4 DEF Init, TypeInv, TypeOK, HeldOK, Free, Message

Kept == TypeInv' /\ Grows

LEMMA PublishKeeps ==
  ASSUME TypeInv, NEW w \in Workers, NEW b \in Bodies, Publish(w, b)
  PROVE  Kept
<1> DEFINE msg == [body |-> b, tries |-> 0, settled |-> FALSE]
<1>1. msg \in Message
  BY TasksAssumption DEF Message
<1>2. queue' = [queue EXCEPT ![w] = Append(queue[w], msg)]
  BY DEF Publish
<1>3. queue \in [Workers -> Seq(Message)]
  BY DEF TypeInv, TypeOK, Message
<1> HIDE DEF msg
<1>4. queue' \in [Workers -> Seq(Message)]
  BY <1>1, <1>2, <1>3
<1>5. \A v \in Workers : /\ 1 .. Len(queue[v]) \subseteq 1 .. Len(queue'[v])
                         /\ \A m \in 1 .. Len(queue[v]) : queue'[v][m] = queue[v][m]
  BY <1>1, <1>2, <1>3
<1>6. UNCHANGED <<ledgerVars, task, sheet, ticket, worker, agent, faults, finished, unchecked, remade, unsaved>>
  BY DEF Publish
<1>7. TypeOK'
  BY <1>4, <1>6 DEF TypeInv, TypeOK, LedgerTypeOK, ledgerVars, Message
<1>8. HeldOK'
  BY <1>5, <1>6 DEF TypeInv, HeldOK
<1>9. Grows
  BY <1>6, NoFault DEF Grows
<1> QED BY <1>7, <1>8, <1>9 DEF Kept, TypeInv

LEMMA CreateKeeps ==
  ASSUME TypeInv, NEW w \in Workers, NEW n \in 1 .. MaxRequests,
         NEW fails \in BOOLEAN, NEW unacked \in BOOLEAN, HandleCreate(w, n, fails, unacked)
  PROVE  Kept
<1> DEFINE b == queue[w][n].body
<1>1. /\ queue' \in [Workers -> Seq(Message)]
      /\ b \in Bodies
      /\ \A v \in Workers : /\ Len(queue'[v]) = Len(queue[v])
                            /\ \A m \in 1 .. Len(queue[v]) : queue'[v][m].body = queue[v][m].body
  BY Delivered DEF HandleCreate, TypeInv
<1>2. b.task \in TaskIds /\ NewTask(b) \in Row /\ SaveTask(b.task, NewTask(b), fails)
  BY <1>1, BodyFields, NewRows DEF HandleCreate, NewTask
<1>3. UNCHANGED <<ledgerVars, sheet, ticket, worker, agent, unchecked>> /\ remade' \subseteq TaskIds
  BY <1>2 DEF HandleCreate, TypeInv, TypeOK
<1>4. faults' \in 0 .. MaxFaults /\ faults' >= faults
  BY FaultsCounted DEF HandleCreate, TypeInv
<1>5. /\ task' \in [TaskIds -> Row \cup {None}]
      /\ finished' \subseteq TaskIds /\ finished \subseteq finished'
      /\ unsaved' \subseteq TaskIds /\ unsaved \subseteq unsaved'
      /\ \A x \in TaskIds : task[x] # None => task'[x] # None
  BY <1>2, Saved DEF TypeInv
<1>6. TypeOK'
  BY <1>1, <1>3, <1>4, <1>5 DEF TypeInv, TypeOK, LedgerTypeOK, ledgerVars, Message
<1>7. HeldOK'
  BY <1>1, <1>3 DEF TypeInv, HeldOK
<1> QED BY <1>3, <1>4, <1>5, <1>6, <1>7 DEF Kept, Grows, TypeInv

LEMMA ReadKeeps ==
  ASSUME TypeInv, NEW w \in Workers, NEW n \in 1 .. MaxRequests, NEW fails \in BOOLEAN,
         ReadTask(w, n, fails)
  PROVE  Kept
<1> DEFINE b == queue[w][n].body
           held == [pc |-> "read", n |-> n, row |-> task[b.task]]
<1>1. \E settled \in BOOLEAN : Deliver(w, n, settled)
  BY DEF ReadTask
<1>2. /\ queue' \in [Workers -> Seq(Message)]
      /\ n \in 1 .. Len(queue[w])
      /\ b \in Bodies
      /\ \A v \in Workers : /\ Len(queue'[v]) = Len(queue[v])
                            /\ \A m \in 1 .. Len(queue[v]) : queue'[v][m].body = queue[v][m].body
  BY <1>1, Delivered DEF ReadTask, TypeInv
<1>3. b.kind = "status" /\ b.task \in TaskIds
  BY <1>2, BodyFields DEF ReadTask
<1>4. worker' = worker \/ (worker' = [worker EXCEPT ![w] = held] /\ task[b.task] # None)
  BY DEF ReadTask
<1>5. task[b.task] # None => held \in Busy
  BY <1>3 DEF Busy, TypeInv, TypeOK
<1>6. /\ worker' \in [Workers -> Busy \cup {Free}]
      /\ \A v \in Workers : worker'[v] = worker[v] \/ (v = w /\ worker'[v].n = n)
  <2>1. held.n = n /\ worker \in [Workers -> Busy \cup {Free}]
    BY DEF TypeInv, TypeOK
  <2> HIDE DEF held
  <2> QED BY <1>4, <1>5, <2>1
<1>7. UNCHANGED <<ledgerVars, task, sheet, ticket, agent, finished, unchecked, remade, unsaved>>
  BY DEF ReadTask
<1>8. faults' \in 0 .. MaxFaults /\ faults' >= faults
  BY FaultsCounted DEF ReadTask, TypeInv
<1>9. TypeOK'
  BY <1>2, <1>6, <1>7, <1>8 DEF TypeInv, TypeOK, LedgerTypeOK, ledgerVars, Message
<1>10. HeldOK'
  BY <1>2, <1>3, <1>6, <1>7 DEF TypeInv, HeldOK
<1> QED BY <1>7, <1>8, <1>9, <1>10 DEF Kept, Grows, TypeInv

\* A worker that settles the command it holds, or goes on with it.
LEMMA SettledHeld ==
  ASSUME TypeInv, NEW w \in Workers, worker[w].pc # "free", NEW settled \in BOOLEAN,
         queue' = [queue EXCEPT ![w][worker[w].n].settled = settled]
  PROVE  /\ queue' \in [Workers -> Seq(Message)]
         /\ \A v \in Workers : /\ Len(queue'[v]) = Len(queue[v])
                               /\ \A m \in 1 .. Len(queue[v]) : queue'[v][m].body = queue[v][m].body
<1> DEFINE n == worker[w].n
           msg == [queue[w][n] EXCEPT !.settled = settled]
           line == [queue[w] EXCEPT ![n] = msg]
<1>1. queue \in [Workers -> Seq(Message)] /\ n \in 1 .. Len(queue[w]) /\ queue[w][n] \in Message
  BY WorkerFields DEF TypeInv, TypeOK, Message
<1>2. msg \in Message /\ msg.body = queue[w][n].body
  BY <1>1 DEF Message
<1>3. queue' = [queue EXCEPT ![w] = line]
  OBVIOUS
<1>4. line \in Seq(Message) /\ Len(line) = Len(queue[w])
      /\ \A m \in 1 .. Len(queue[w]) : line[m] = IF m = n THEN msg ELSE queue[w][m]
  <2> HIDE DEF msg
  <2> QED BY <1>1, <1>2
<1> HIDE DEF msg, line
<1> QED BY <1>1, <1>2, <1>3, <1>4

LEMMA CheckKeeps ==
  ASSUME TypeInv, NEW w \in Workers, NEW fails \in BOOLEAN, CheckDependency(w, fails)
  PROVE  Kept
<1> DEFINE n == worker[w].n
           held == [worker[w] EXCEPT !.pc = "checked"]
<1>1. worker[w].pc = "read" /\ worker[w] \in Busy /\ queue[w][n].body.task \in TaskIds
  BY WorkerFields DEF CheckDependency
<1>2. queue' = queue \/ queue' = [queue EXCEPT ![w][n].settled = TRUE]
  BY DEF CheckDependency
<1>3. /\ queue' \in [Workers -> Seq(Message)]
      /\ \A v \in Workers : /\ Len(queue'[v]) = Len(queue[v])
                            /\ \A m \in 1 .. Len(queue[v]) : queue'[v][m].body = queue[v][m].body
  <2>1. CASE queue' = queue
    BY <2>1 DEF TypeInv, TypeOK, Message
  <2> QED BY <1>1, <1>2, <2>1, SettledHeld
<1>4. worker' = [worker EXCEPT ![w] = Free] \/ worker' = [worker EXCEPT ![w] = held]
  BY DEF CheckDependency
<1>5. held \in Busy /\ held.n = n /\ Free.pc = "free"
  BY <1>1 DEF Busy, Free
<1>6. /\ worker' \in [Workers -> Busy \cup {Free}]
      /\ \A v \in Workers : \/ worker'[v] = worker[v]
                            \/ worker'[v].pc = "free"
                            \/ v = w /\ worker'[v].n = n
  <2>1. worker \in [Workers -> Busy \cup {Free}]
    BY DEF TypeInv, TypeOK
  <2> HIDE DEF held
  <2> QED BY <1>4, <1>5, <2>1
<1>7. /\ UNCHANGED <<ledgerVars, task, sheet, ticket, agent, finished, remade, unsaved>>
      /\ unchecked \subseteq unchecked' /\ unchecked' \subseteq TaskIds
  BY <1>1 DEF CheckDependency, TypeInv, TypeOK
<1>8. faults' \in 0 .. MaxFaults /\ faults' >= faults
  BY FaultsCounted DEF CheckDependency, TypeInv
<1>9. TypeOK'
  BY <1>3, <1>6, <1>7, <1>8 DEF TypeInv, TypeOK, LedgerTypeOK, ledgerVars, Message
<1>10. HeldOK'
  BY <1>1, <1>3, <1>6, <1>7 DEF TypeInv, HeldOK
<1> QED BY <1>7, <1>8, <1>9, <1>10 DEF Kept, Grows, TypeInv

\* The row a worker writes.
LEMMA UpdatedRow ==
  ASSUME NEW b \in Bodies, b.kind = "status", NEW row \in Row
  PROVE  /\ Updated(b, row) \in Row
         /\ Updated(b, row).status = b.status
         /\ Updated(b, row).dep = row.dep
<1>1. b.status \in Statuses
  BY BodyFields
<1> QED BY <1>1 DEF Updated, Row

LEMMA SaveKeeps ==
  ASSUME TypeInv, NEW w \in Workers, NEW fails \in BOOLEAN, NEW unacked \in BOOLEAN,
         SaveStatus(w, fails, unacked)
  PROVE  Kept
<1> DEFINE n == worker[w].n
           b == queue[w][n].body
           row == Updated(b, worker[w].row)
<1>1. worker[w].pc = "checked" /\ b \in Bodies /\ b.task \in TaskIds /\ row \in Row
  BY WorkerFields, UpdatedRow DEF SaveStatus
<1>2. /\ queue' \in [Workers -> Seq(Message)]
      /\ \A v \in Workers : /\ Len(queue'[v]) = Len(queue[v])
                            /\ \A m \in 1 .. Len(queue[v]) : queue'[v][m].body = queue[v][m].body
  BY <1>1, SettledHeld DEF SaveStatus
<1>3. /\ worker' \in [Workers -> Busy \cup {Free}]
      /\ \A v \in Workers : worker'[v] = worker[v] \/ worker'[v].pc = "free"
  BY DEF SaveStatus, TypeInv, TypeOK, Free
<1>4. /\ task' \in [TaskIds -> Row \cup {None}]
      /\ finished' \subseteq TaskIds /\ finished \subseteq finished'
      /\ unsaved' \subseteq TaskIds /\ unsaved \subseteq unsaved'
      /\ \A x \in TaskIds : task[x] # None => task'[x] # None
  BY <1>1, Saved DEF SaveStatus, TypeInv
<1>5. UNCHANGED <<ledgerVars, sheet, ticket, agent, unchecked, remade>>
  BY DEF SaveStatus
<1>6. faults' \in 0 .. MaxFaults /\ faults' >= faults
  BY FaultsCounted DEF SaveStatus, TypeInv
<1>7. TypeOK'
  BY <1>2, <1>3, <1>4, <1>5, <1>6 DEF TypeInv, TypeOK, LedgerTypeOK, ledgerVars, Message
<1>8. HeldOK'
  BY <1>2, <1>3, <1>5 DEF TypeInv, HeldOK
<1> QED BY <1>4, <1>5, <1>6, <1>7, <1>8 DEF Kept, Grows, TypeInv

LEMMA ApproveKeeps ==
  ASSUME TypeInv, NEW w \in Workers, NEW n \in 1 .. MaxRequests,
         NEW fails \in BOOLEAN, NEW unacked \in BOOLEAN, HandleApprove(w, n, fails, unacked)
  PROVE  Kept
<1> DEFINE b == queue[w][n].body
           cost == [posting |-> b.sheet, account |-> "LABOR_COST", side |-> "DEBIT",
                    reversal |-> FALSE, actor |-> b.by]
<1>1. /\ queue' \in [Workers -> Seq(Message)]
      /\ b \in Bodies
      /\ \A v \in Workers : /\ Len(queue'[v]) = Len(queue[v])
                            /\ \A m \in 1 .. Len(queue[v]) : queue'[v][m].body = queue[v][m].body
  BY Delivered DEF HandleApprove, TypeInv
<1>2. b.sheet \in Sheets /\ b.by \in Users
  BY <1>1, BodyFields DEF HandleApprove
<1>3. cost \in Entry
  BY <1>2, TasksAssumption DEF Entry, Accounts
<1>4. \/ UNCHANGED <<sheet, ledger>>
      \/ /\ sheet' = [sheet EXCEPT ![b.sheet] = [status |-> "Approved", by |-> b.by]]
         /\ ledger' \in {ledger, ledger \cup {cost}}
  BY DEF HandleApprove, ApproveTimesheet, Cost, Post
<1>5. /\ sheet' \in [Sheets -> [status : {"Submitted", "Approved"}, by : Users \cup {None}]]
      /\ ledger' \in SUBSET Entry
  <2>1. /\ ledger \in SUBSET Entry
        /\ sheet \in [Sheets -> [status : {"Submitted", "Approved"}, by : Users \cup {None}]]
    BY DEF TypeInv, TypeOK, LedgerTypeOK
  <2> DEFINE approved == [status |-> "Approved", by |-> b.by]
  <2>2. approved \in [status : {"Submitted", "Approved"}, by : Users \cup {None}]
    BY <1>2
  <2> HIDE DEF cost, approved
  <2>3. sheet' = sheet \/ sheet' = [sheet EXCEPT ![b.sheet] = approved]
    BY <1>4 DEF approved
  <2>4. sheet' \in [Sheets -> [status : {"Submitted", "Approved"}, by : Users \cup {None}]]
    BY <2>1, <2>2, <2>3
  <2> QED BY <1>3, <1>4, <2>1, <2>4
<1>6. UNCHANGED <<reversing, task, ticket, worker, agent, finished, unchecked, remade, unsaved>>
  BY DEF HandleApprove
<1>7. faults' \in 0 .. MaxFaults /\ faults' >= faults
  BY FaultsCounted DEF HandleApprove, TypeInv
<1>8. TypeOK'
  BY <1>1, <1>5, <1>6, <1>7 DEF TypeInv, TypeOK, LedgerTypeOK, Message
<1>9. HeldOK'
  BY <1>1, <1>6 DEF TypeInv, HeldOK
<1> QED BY <1>6, <1>7, <1>8, <1>9 DEF Kept, Grows, TypeInv

LEMMA StopKeeps ==
  ASSUME TypeInv, NEW w \in Workers, StopWorker(w)
  PROVE  Kept
<1>1. /\ worker' \in [Workers -> Busy \cup {Free}]
      /\ \A v \in Workers : worker'[v] = worker[v] \/ worker'[v].pc = "free"
  BY DEF StopWorker, TypeInv, TypeOK, Free
<1>2. UNCHANGED <<ledgerVars, task, sheet, ticket, queue, agent, finished, unchecked, remade, unsaved>>
  BY DEF StopWorker
<1>3. faults' \in 0 .. MaxFaults /\ faults' >= faults
  BY FaultsCounted DEF StopWorker, TypeInv
<1>4. TypeOK'
  BY <1>1, <1>2, <1>3 DEF TypeInv, TypeOK, LedgerTypeOK, ledgerVars
<1>5. HeldOK'
  BY <1>1, <1>2 DEF TypeInv, HeldOK
<1> QED BY <1>2, <1>3, <1>4, <1>5 DEF Kept, Grows, TypeInv

Agency == [pc : {"new", "save", "link", "done"}, ticket : Tickets \cup {None}, row : Row \cup {None}]

\* A conversion saves, then links.
LEMMA Steps ==
  ConvertOrder[1] = "save" /\ After("save") = "link" /\ After("link") = "done"
  BY DEF ConvertOrder, After

LEMMA BeginConvertKeeps ==
  ASSUME TypeInv, NEW a \in Agents, NEW k \in Tickets, NEW x \in Conversions, BeginConvert(a, k, x)
  PROVE  Kept
<1> DEFINE next == [pc |-> ConvertOrder[1], ticket |-> k, row |-> TicketTask(x)]
<1>1. x.to \in Users /\ x.by \in Users /\ x.dep \in TaskIds \cup {None}
  BY TasksAssumption
<1>2. TicketTask(x) \in Row /\ TicketTask(x).status = "Pending"
  BY <1>1, NewRows DEF TicketTask, FirstStatus
<1>3. next \in Agency
  BY <1>2, Steps DEF Agency
<1>4. agent' = [agent EXCEPT ![a] = next]
  BY DEF BeginConvert
<1>5. next.ticket = k /\ next.row = TicketTask(x)
  OBVIOUS
<1>6. agent' \in [Agents -> Agency] /\ \A y \in Agents : agent'[y] = IF y = a THEN next ELSE agent[y]
  <2> HIDE DEF next
  <2> QED BY <1>3, <1>4 DEF TypeInv, TypeOK, Agency
<1>7. UNCHANGED <<ledgerVars, task, sheet, ticket, queue, worker, faults, finished, unchecked, remade, unsaved>>
  BY DEF BeginConvert
<1> HIDE DEF next
<1>8. TypeOK'
  BY <1>6, <1>7 DEF TypeInv, TypeOK, LedgerTypeOK, ledgerVars, Agency
<1>9. HeldOK'
  BY <1>2, <1>5, <1>6, <1>7 DEF TypeInv, HeldOK
<1> QED BY <1>7, <1>8, <1>9, NoFault DEF Kept, Grows, TypeInv

\* A conversion that goes on, or ends.
LEMMA AgentMoves ==
  ASSUME TypeInv, NEW a \in Agents, NEW pc \in {"link", "done"},
         agent' = [agent EXCEPT ![a].pc = pc]
  PROVE  /\ agent' \in [Agents -> Agency]
         /\ \A y \in Agents \ {a} : agent'[y] = agent[y]
         /\ agent'[a].pc = pc /\ agent'[a].ticket = agent[a].ticket
<1> DEFINE next == [agent[a] EXCEPT !.pc = pc]
<1>1. next \in Agency /\ next.pc = pc /\ next.ticket = agent[a].ticket
  BY DEF TypeInv, TypeOK, Agency
<1>2. agent' = [agent EXCEPT ![a] = next] /\ agent \in [Agents -> Agency]
  BY DEF TypeInv, TypeOK, Agency
<1> HIDE DEF next
<1> QED BY <1>1, <1>2

LEMMA SaveTicketKeeps ==
  ASSUME TypeInv, NEW a \in Agents, NEW fails \in BOOLEAN, SaveTicketTask(a, fails)
  PROVE  Kept
<1>1. agent[a].pc = "save" /\ agent[a].row \in Row /\ AgentTask[a] \in TaskIds
  BY TasksAssumption DEF SaveTicketTask, TypeInv, HeldOK
<1>2. /\ task' \in [TaskIds -> Row \cup {None}]
      /\ finished' \subseteq TaskIds /\ finished \subseteq finished'
      /\ unsaved' \subseteq TaskIds /\ unsaved \subseteq unsaved'
      /\ \A x \in TaskIds : task[x] # None => task'[x] # None
  BY <1>1, Saved DEF SaveTicketTask, TypeInv
<1>3. /\ agent' \in [Agents -> Agency]
      /\ \A y \in Agents \ {a} : agent'[y] = agent[y]
      /\ agent'[a].pc = "link" /\ agent'[a].ticket = agent[a].ticket
  BY Steps, AgentMoves DEF SaveTicketTask
<1>4. UNCHANGED <<ledgerVars, sheet, ticket, queue, worker, unchecked, remade>>
  BY DEF SaveTicketTask
<1>5. faults' \in 0 .. MaxFaults /\ faults' >= faults
  BY FaultsCounted DEF SaveTicketTask, TypeInv
<1>6. TypeOK'
  BY <1>2, <1>3, <1>4, <1>5 DEF TypeInv, TypeOK, LedgerTypeOK, ledgerVars, Agency
<1>7. HeldOK'
  BY <1>1, <1>3, <1>4 DEF TypeInv, HeldOK
<1> QED BY <1>2, <1>4, <1>5, <1>6, <1>7 DEF Kept, Grows, TypeInv

LEMMA LinkKeeps ==
  ASSUME TypeInv, NEW a \in Agents, LinkTicket(a)
  PROVE  Kept
<1>1. agent[a].ticket \in Tickets /\ AgentTask[a] \in TaskIds
  BY TasksAssumption DEF LinkTicket, TypeInv, HeldOK
<1>2. ticket' \in [Tickets -> [status : {"Open", "Converted"}, task : TaskIds \cup {None}]]
  <2> DEFINE linked == [status |-> "Converted", task |-> AgentTask[a]]
  <2>1. linked \in [status : {"Open", "Converted"}, task : TaskIds \cup {None}]
    BY <1>1
  <2>2. ticket' = [ticket EXCEPT ![agent[a].ticket] = linked]
    BY DEF LinkTicket
  <2> HIDE DEF linked
  <2> QED BY <2>1, <2>2 DEF TypeInv, TypeOK
<1>3. /\ agent' \in [Agents -> Agency]
      /\ \A y \in Agents \ {a} : agent'[y] = agent[y]
      /\ agent'[a].pc = "done" /\ agent'[a].ticket = agent[a].ticket
  BY Steps, AgentMoves DEF LinkTicket
<1>4. UNCHANGED <<ledgerVars, task, sheet, queue, worker, faults, finished, unchecked, remade, unsaved>>
  BY DEF LinkTicket
<1>5. TypeOK'
  BY <1>2, <1>3, <1>4 DEF TypeInv, TypeOK, LedgerTypeOK, ledgerVars, Agency
<1>6. HeldOK'
  BY <1>1, <1>3, <1>4 DEF TypeInv, HeldOK
<1> QED BY <1>4, <1>5, <1>6, NoFault DEF Kept, Grows, TypeInv

LEMMA StopAgentKeeps ==
  ASSUME TypeInv, NEW a \in Agents, StopAgent(a)
  PROVE  Kept
<1>1. /\ agent' \in [Agents -> Agency]
      /\ \A y \in Agents \ {a} : agent'[y] = agent[y]
      /\ agent'[a].pc = "done" /\ agent'[a].ticket = agent[a].ticket
      /\ agent[a].ticket \in Tickets
  BY AgentMoves DEF StopAgent, TypeInv, HeldOK
<1>2. UNCHANGED <<ledgerVars, task, sheet, ticket, queue, worker, finished, unchecked, remade, unsaved>>
  BY DEF StopAgent
<1>3. faults' \in 0 .. MaxFaults /\ faults' >= faults
  BY FaultsCounted DEF StopAgent, TypeInv
<1>4. TypeOK'
  BY <1>1, <1>2, <1>3 DEF TypeInv, TypeOK, LedgerTypeOK, ledgerVars, Agency
<1>5. HeldOK'
  BY <1>1, <1>2 DEF TypeInv, HeldOK
<1> QED BY <1>2, <1>3, <1>4, <1>5 DEF Kept, Grows, TypeInv

\* The entry of the other side.
LEMMA ReversalFields ==
  ASSUME NEW e \in Entry, NEW c \in Clerks
  PROVE  /\ ReversalOf(e, c) \in Entry
         /\ ReversalOf(e, c).posting = e.posting
         /\ ReversalOf(e, c).account = e.account
         /\ ReversalOf(e, c).side = (IF e.side = "DEBIT" THEN "CREDIT" ELSE "DEBIT")
         /\ ReversalOf(e, c).reversal = TRUE
         /\ ReversalOf(e, c).actor = c
  BY DEF ReversalOf, Entry

LEMMA NotEntries == Unread \notin Entry /\ Replied \notin Entry
  BY DEF Unread, Replied, Entry

LEMMA ReversingKeeps ==
  ASSUME TypeInv, NEW c \in Clerks, Reversing(c), UNCHANGED taskVars
  PROVE  Kept
<1>1. /\ reversing' \in [Clerks -> Entry \cup {Unread, Replied}]
      /\ ledger' \in SUBSET Entry
  <2>0. ledger \in SUBSET Entry /\ reversing \in [Clerks -> Entry \cup {Unread, Replied}]
    BY DEF TypeInv, TypeOK, LedgerTypeOK
  <2>1. CASE \E e \in ledger : BeginReverse(c, e)
    BY <2>0, <2>1 DEF BeginReverse
  <2>2. CASE FinishReverse(c)
    <3>1. ReversalOf(reversing[c], c) \in Entry
      BY <2>2, ReversalFields DEF FinishReverse
    <3> QED BY <2>0, <2>2, <3>1 DEF FinishReverse
  <2>3. CASE AbandonReverse(c)
    BY <2>0, <2>3 DEF AbandonReverse
  <2> QED BY <2>1, <2>2, <2>3 DEF Reversing
<1>2. TypeOK'
  BY <1>1 DEF TypeInv, TypeOK, LedgerTypeOK, taskVars
<1>3. HeldOK'
  BY DEF TypeInv, HeldOK, taskVars
<1> QED BY <1>2, <1>3, NoFault DEF Kept, Grows, TypeInv, taskVars

LEMMA TypeStep == ASSUME TypeInv, [Next]_vars PROVE Kept
<1>1. CASE UNCHANGED vars
  <2>1. TypeOK' /\ HeldOK'
    BY <1>1 DEF vars, taskVars, ledgerVars, TypeInv, TypeOK, LedgerTypeOK, HeldOK
  <2> QED BY <1>1, <2>1, NoFault DEF vars, taskVars, Kept, Grows, TypeInv
<1>2. ASSUME NEW w \in Workers, Working(w) PROVE Kept
  BY <1>2, PublishKeeps, CreateKeeps, ReadKeeps, CheckKeeps, SaveKeeps, ApproveKeeps, StopKeeps
     DEF Working
<1>3. ASSUME NEW a \in Agents, Converting(a) PROVE Kept
  BY <1>3, BeginConvertKeeps, SaveTicketKeeps, LinkKeeps, StopAgentKeeps DEF Converting
<1>4. ASSUME NEW c \in Clerks, Reversing(c), UNCHANGED taskVars PROVE Kept
  BY <1>4, ReversingKeeps
<1> QED BY <1>1, <1>2, <1>3, <1>4 DEF Next

\* The tables, the commands and the requests have the types the code gives
\* them; a worker holds a command for a status, and a conversion its ticket.
THEOREM TypeCorrect == Spec => []TypeInv /\ []TypeOK
<1>1. Init => TypeInv
  BY TypeInit
<1>2. TypeInv /\ [Next]_vars => TypeInv'
  BY TypeStep DEF Kept
<1>3. TypeInv => TypeOK
  BY DEF TypeInv
<1> QED BY <1>1, <1>2, <1>3, PTL DEF Spec

-----------------------------------------------------------------------------
\* Tickets.

\* A conversion that has saved its task may link it; one that is over has
\* linked its ticket, or something went wrong.
LinkInv ==
    /\ \A k \in Tickets : ticket[k].status = "Converted" =>
           /\ ticket[k].task \in TaskIds
           /\ task[ticket[k].task] # None \/ ticket[k].task \in unsaved
    /\ \A a \in Agents : agent[a].pc = "link" =>
           task[AgentTask[a]] # None \/ AgentTask[a] \in unsaved
    /\ \A a \in Agents : agent[a].pc = "done" =>
           faults > 0 \/ ticket[agent[a].ticket].status = "Converted"

LEMMA LinkStep == ASSUME TypeInv, LinkInv, [Next]_vars PROVE LinkInv'
<1>1. Grows /\ faults \in Nat /\ faults' \in Nat /\ AgentTask \in [Agents -> TaskIds]
  <2>1. Grows /\ TypeOK /\ TypeOK'
    BY TypeStep DEF Kept, TypeInv
  <2>2. faults \in Nat /\ faults' \in Nat
    BY <2>1, TasksAssumption DEF TypeOK
  <2> QED BY <2>1, <2>2, TasksAssumption
<1>2. ticket \in [Tickets -> [status : {"Open", "Converted"}, task : TaskIds \cup {None}]]
      /\ agent \in [Agents -> Agency]
      /\ \A a \in Agents : agent[a].pc # "new" => agent[a].ticket \in Tickets
  BY DEF TypeInv, TypeOK, HeldOK, Agency
<1>3. CASE UNCHANGED <<ticket, agent>>
  BY <1>1, <1>2, <1>3 DEF LinkInv, Grows
<1>4. ASSUME NEW a \in Agents, NEW k \in Tickets, NEW x \in Conversions, BeginConvert(a, k, x)
      PROVE  LinkInv'
  <2> DEFINE next == [pc |-> ConvertOrder[1], ticket |-> k, row |-> TicketTask(x)]
  <2>1. agent' = [agent EXCEPT ![a] = next] /\ next.pc = "save" /\ ticket' = ticket
    BY <1>4, Steps DEF BeginConvert
  <2> HIDE DEF next
  <2> QED BY <1>1, <1>2, <2>1 DEF LinkInv, Grows
<1>5. ASSUME NEW a \in Agents, NEW fails \in BOOLEAN, SaveTicketTask(a, fails) PROVE LinkInv'
  <2>1. agent[a].row \in Row /\ AgentTask[a] \in TaskIds
    BY <1>1, <1>5 DEF SaveTicketTask, TypeInv, HeldOK
  <2>2. task'[AgentTask[a]] # None \/ AgentTask[a] \in unsaved'
    BY <1>5, <2>1, Saved DEF SaveTicketTask, TypeInv
  <2>3. /\ \A y \in Agents \ {a} : agent'[y] = agent[y]
        /\ agent'[a].pc = "link" /\ ticket' = ticket
    BY <1>5, Steps, AgentMoves DEF SaveTicketTask
  <2> QED BY <1>1, <1>2, <2>2, <2>3 DEF LinkInv, Grows
<1>6. ASSUME NEW a \in Agents, LinkTicket(a) PROVE LinkInv'
  <2> DEFINE linked == [status |-> "Converted", task |-> AgentTask[a]]
  <2>1. /\ \A y \in Agents \ {a} : agent'[y] = agent[y]
        /\ agent'[a].pc = "done" /\ agent'[a].ticket = agent[a].ticket
        /\ agent[a].ticket \in Tickets /\ agent[a].pc = "link"
    BY <1>2, <1>6, Steps, AgentMoves DEF LinkTicket
  <2>2. ticket' = [ticket EXCEPT ![agent[a].ticket] = linked]
    BY <1>6 DEF LinkTicket
  <2>3. linked.status = "Converted" /\ linked.task = AgentTask[a]
    OBVIOUS
  <2> HIDE DEF linked
  <2>4. \A k \in Tickets : ticket'[k] = IF k = agent[a].ticket THEN linked ELSE ticket[k]
    BY <1>2, <2>2
  <2> QED BY <1>1, <1>2, <2>1, <2>3, <2>4 DEF LinkInv, Grows
<1>7. ASSUME NEW a \in Agents, StopAgent(a) PROVE LinkInv'
  <2>1. /\ \A y \in Agents \ {a} : agent'[y] = agent[y]
        /\ agent'[a].pc = "done" /\ ticket' = ticket
    BY <1>7, AgentMoves DEF StopAgent
  <2>2. faults' > 0
    BY <1>7, FaultsCounted DEF StopAgent, TypeInv
  <2> QED BY <1>1, <1>2, <2>1, <2>2 DEF LinkInv, Grows
<1>8. ASSUME NEW w \in Workers, Working(w) PROVE UNCHANGED <<ticket, agent>>
  BY <1>8 DEF Working, Publish, HandleCreate, ReadTask, CheckDependency, SaveStatus,
              HandleApprove, StopWorker
<1>9. CASE UNCHANGED vars \/ UNCHANGED taskVars
  BY <1>3, <1>9 DEF vars, taskVars
<1> QED BY <1>3, <1>4, <1>5, <1>6, <1>7, <1>8, <1>9 DEF Next, Converting

\* Whatever stops a conversion and however many there are, the ticket of one
\* that ran to its end names a task that was saved, or whose save was dropped.
THEOREM TicketsNameTasks == Spec => []TicketNamesItsTask
<1>1. Init => LinkInv
  BY DEF Init, LinkInv
<1>2. TypeInv /\ LinkInv /\ [Next]_vars => LinkInv'
  BY LinkStep
<1>3. LinkInv => TicketNamesItsTask
  BY DEF LinkInv, TicketNamesItsTask
<1> QED BY <1>1, <1>2, <1>3, TypeCorrect, PTL DEF Spec

-----------------------------------------------------------------------------
\* Dependencies.

\* Nothing but a finished task, or a read that failed, let a task start; and
\* a worker that has checked is in that position.
DependencyInv ==
    /\ DependencyRespected
    /\ \A t \in TaskIds : task[t] # None /\ task[t].status \in Finished => t \in finished
    /\ \A w \in Workers :
           LET b == queue[w][worker[w].n].body IN
           worker[w].pc = "checked" /\ b.status = "In_Progress" =>
               worker[w].row.dep \in {None} \cup finished \/ b.task \in unchecked

\* Rows are written that may start, or do not.
LEMMA DependencyKept ==
  ASSUME TypeInv, DependencyInv, Grows, NEW t \in TaskIds, NEW row \in Row,
         \A x \in TaskIds : task'[x] = task[x] \/ (x = t /\ task'[x] = row),
         row.status \in Finished => task' = task \/ t \in finished',
         row.status = "In_Progress" => row.dep \in {None} \cup finished \/ t \in unchecked,
         \A w \in Workers : worker'[w].pc = "checked" =>
             /\ worker[w].pc = "checked"
             /\ worker'[w] = worker[w]
             /\ queue'[w][worker[w].n].body = queue[w][worker[w].n].body
  PROVE  DependencyInv'
<1>1. DependencyRespected'
  BY DEF DependencyInv, DependencyRespected, Grows
<1>2. \A x \in TaskIds : task'[x] # None /\ task'[x].status \in Finished => x \in finished'
  BY DEF DependencyInv, Grows
<1>3. \A w \in Workers :
          worker'[w].pc = "checked" /\ queue'[w][worker'[w].n].body.status = "In_Progress" =>
              \/ worker'[w].row.dep \in {None} \cup finished'
              \/ queue'[w][worker'[w].n].body.task \in unchecked'
  BY DEF DependencyInv, Grows
<1> QED BY <1>1, <1>2, <1>3 DEF DependencyInv

\* Rows are not written.
LEMMA DependencyStays ==
  ASSUME TypeInv, DependencyInv, Grows, UNCHANGED task,
         \A w \in Workers : worker'[w].pc = "checked" =>
             /\ worker[w].pc = "checked"
             /\ worker'[w] = worker[w]
             /\ queue'[w][worker[w].n].body = queue[w][worker[w].n].body
  PROVE  DependencyInv'
<1>1. DependencyRespected'
  BY DEF DependencyInv, DependencyRespected, Grows
<1>2. \A x \in TaskIds : task'[x] # None /\ task'[x].status \in Finished => x \in finished'
  BY DEF DependencyInv, Grows
<1>3. \A w \in Workers :
          worker'[w].pc = "checked" /\ queue'[w][worker'[w].n].body.status = "In_Progress" =>
              \/ worker'[w].row.dep \in {None} \cup finished'
              \/ queue'[w][worker'[w].n].body.task \in unchecked'
  BY DEF DependencyInv, Grows
<1> QED BY <1>1, <1>2, <1>3 DEF DependencyInv

\* A worker that reads, checks, saves or stops leaves the commands of the
\* others, and a delivery those that are held.
LEMMA OthersHold ==
  ASSUME TypeInv, NEW w \in Workers, NEW settled \in BOOLEAN,
         \/ worker[w].pc # "free" /\ queue' = [queue EXCEPT ![w][worker[w].n].settled = settled]
         \/ \E n \in 1 .. MaxRequests : Deliverable(w, n) /\ Deliver(w, n, settled)
  PROVE  \A v \in Workers : worker[v].pc # "free" =>
             queue'[v][worker[v].n].body = queue[v][worker[v].n].body
<1>1. \A v \in Workers : worker[v].pc # "free" => worker[v].n \in 1 .. Len(queue[v])
  BY DEF TypeInv, HeldOK
<1>2. \A v \in Workers : \A m \in 1 .. Len(queue[v]) : queue'[v][m].body = queue[v][m].body
  BY SettledHeld, Delivered DEF TypeInv
<1> QED BY <1>1, <1>2

LEMMA DependencyWorks ==
  ASSUME TypeInv, DependencyInv, Grows, NEW w \in Workers, Working(w)
  PROVE  DependencyInv'
<1>0. worker \in [Workers -> Busy \cup {Free}] /\ Free.pc = "free"
  BY DEF TypeInv, TypeOK, Free
<1>1. ASSUME NEW b \in Bodies, Publish(w, b) PROVE DependencyInv'
  <2> DEFINE msg == [body |-> b, tries |-> 0, settled |-> FALSE]
  <2>1. msg \in Message
    BY TasksAssumption DEF Message
  <2>2. queue' = [queue EXCEPT ![w] = Append(queue[w], msg)] /\ UNCHANGED <<task, worker>>
    BY <1>1 DEF Publish
  <2>3. queue \in [Workers -> Seq(Message)]
    BY DEF TypeInv, TypeOK, Message
  <2> HIDE DEF msg
  <2>4. \A v \in Workers : \A m \in 1 .. Len(queue[v]) : queue'[v][m] = queue[v][m]
    BY <2>1, <2>2, <2>3
  <2>5. \A v \in Workers : worker[v].pc # "free" => queue'[v][worker[v].n] = queue[v][worker[v].n]
    BY <2>4 DEF TypeInv, HeldOK
  <2> QED BY <2>2, <2>5, DependencyStays
<1>2. ASSUME NEW n \in 1 .. MaxRequests, NEW fails \in BOOLEAN, NEW unacked \in BOOLEAN,
             HandleCreate(w, n, fails, unacked)
      PROVE  DependencyInv'
  <2> DEFINE b == queue[w][n].body
  <2>1. b \in Bodies /\ Deliver(w, n, ~unacked) /\ Deliverable(w, n) /\ UNCHANGED worker
    BY <1>2, Delivered DEF HandleCreate, TypeInv
  <2>2. b.task \in TaskIds /\ NewTask(b) \in Row /\ NewTask(b).status = "Pending"
    BY <1>2, <2>1, BodyFields, NewRows DEF HandleCreate, NewTask, FirstStatus
  <2>3. \A x \in TaskIds : task'[x] = task[x] \/ (x = b.task /\ task'[x] = NewTask(b))
    BY <1>2, <2>2, Saved DEF HandleCreate, TypeInv
  <2>4. \A v \in Workers : worker[v].pc # "free" =>
            queue'[v][worker[v].n].body = queue[v][worker[v].n].body
    BY <2>1, OthersHold
  <2> QED BY <2>1, <2>2, <2>3, <2>4, DependencyKept DEF Finished
<1>3. ASSUME NEW n \in 1 .. MaxRequests, NEW fails \in BOOLEAN, ReadTask(w, n, fails)
      PROVE  DependencyInv'
  <2> DEFINE held == [pc |-> "read", n |-> n, row |-> task[queue[w][n].body.task]]
  <2>1. worker' = worker \/ worker' = [worker EXCEPT ![w] = held]
    BY <1>3 DEF ReadTask
  <2>2. held.pc = "read"
    OBVIOUS
  <2> HIDE DEF held
  <2>3. \A v \in Workers : worker'[v] = worker[v] \/ worker'[v].pc = "read"
    BY <1>0, <2>1, <2>2
  <2>4. UNCHANGED task /\ \E settled \in BOOLEAN : Deliver(w, n, settled) /\ Deliverable(w, n)
    BY <1>3 DEF ReadTask
  <2>5. \A v \in Workers : worker[v].pc # "free" =>
            queue'[v][worker[v].n].body = queue[v][worker[v].n].body
    BY <2>4, OthersHold
  <2> QED BY <2>3, <2>4, <2>5, DependencyStays
<1>4. ASSUME NEW fails \in BOOLEAN, CheckDependency(w, fails) PROVE DependencyInv'
  <2> DEFINE n == worker[w].n
             b == queue[w][n].body
             d == worker[w].row.dep
             held == [worker[w] EXCEPT !.pc = "checked"]
  <2>1. /\ worker[w].pc = "read" /\ b \in Bodies /\ b.task \in TaskIds
        /\ worker[w] \in Busy /\ worker[w].row \in Row
    BY <1>4, WorkerFields DEF CheckDependency
  <2>2. d \in TaskIds \cup {None}
    BY <2>1 DEF Row
  <2>3. \A v \in Workers : worker[v].pc # "free" =>
            queue'[v][worker[v].n].body = queue[v][worker[v].n].body
    <3>1. CASE queue' = queue
      BY <3>1
    <3>2. CASE queue' = [queue EXCEPT ![w][n].settled = TRUE]
      BY <2>1, <3>2, OthersHold
    <3> QED BY <1>4, <3>1, <3>2 DEF CheckDependency
  <2>4. UNCHANGED <<task, finished>>
    BY <1>4 DEF CheckDependency
  <2>5. CASE worker' = [worker EXCEPT ![w] = Free]
    <3>1. \A v \in Workers : worker'[v] = worker[v] \/ worker'[v].pc = "free"
      BY <1>0, <2>5
    <3> QED BY <2>3, <2>4, <3>1, DependencyStays
  <2>6. CASE /\ worker' = [worker EXCEPT ![w] = held]
             /\ b.status = "In_Progress" => d \in {None} \cup finished \/ b.task \in unchecked'
    <3>1. held.row = worker[w].row /\ held.n = n
      BY <2>1 DEF Busy
    <3> HIDE DEF held
    <3>2. \A v \in Workers : worker'[v] = IF v = w THEN held ELSE worker[v]
      BY <1>0, <2>6
    <3>3. DependencyRespected'
      BY <2>4 DEF DependencyInv, DependencyRespected, Grows
    <3>4. \A x \in TaskIds : task'[x] # None /\ task'[x].status \in Finished => x \in finished'
      BY <2>4 DEF DependencyInv
    <3>5. ASSUME NEW v \in Workers,
                 worker'[v].pc = "checked", queue'[v][worker'[v].n].body.status = "In_Progress"
          PROVE  \/ worker'[v].row.dep \in {None} \cup finished'
                 \/ queue'[v][worker'[v].n].body.task \in unchecked'
      <4>1. CASE v = w
        BY <2>1, <2>3, <2>4, <2>6, <3>1, <3>2, <3>5, <4>1
      <4>2. CASE v # w
        BY <2>3, <2>4, <3>2, <3>5, <4>2 DEF DependencyInv, Grows
      <4> QED BY <4>1, <4>2
    <3> QED BY <3>3, <3>4, <3>5 DEF DependencyInv
  <2>7. \/ worker' = [worker EXCEPT ![w] = Free]
        \/ /\ worker' = [worker EXCEPT ![w] = held]
           /\ b.status = "In_Progress" => d \in {None} \cup finished \/ b.task \in unchecked'
    <3>1. d # None /\ task[d] # None /\ task[d].status \in Finished => d \in finished
      BY <2>2 DEF DependencyInv
    <3> QED BY <1>4, <3>1 DEF CheckDependency
  <2> QED BY <2>5, <2>6, <2>7
<1>5. ASSUME NEW fails \in BOOLEAN, NEW unacked \in BOOLEAN, SaveStatus(w, fails, unacked)
      PROVE  DependencyInv'
  <2> DEFINE b == queue[w][worker[w].n].body
             row == Updated(b, worker[w].row)
  <2>1. worker[w].pc = "checked" /\ b \in Bodies /\ b.kind = "status" /\ b.task \in TaskIds
        /\ worker[w].row \in Row
    BY <1>5, WorkerFields DEF SaveStatus
  <2>2. row \in Row /\ row.status = b.status /\ row.dep = worker[w].row.dep
    BY <2>1, UpdatedRow
  <2>3. /\ \A x \in TaskIds : task'[x] = task[x] \/ (x = b.task /\ task'[x] = row)
        /\ row.status \in Finished => task' = task \/ b.task \in finished'
    BY <1>5, <2>1, <2>2, Saved DEF SaveStatus, TypeInv
  <2>4. row.status = "In_Progress" => row.dep \in {None} \cup finished \/ b.task \in unchecked
    BY <2>1, <2>2 DEF DependencyInv
  <2>5. \A v \in Workers : worker'[v] = worker[v] \/ worker'[v].pc = "free"
    BY <1>0, <1>5 DEF SaveStatus
  <2>6. \A v \in Workers : worker[v].pc # "free" =>
            queue'[v][worker[v].n].body = queue[v][worker[v].n].body
    BY <1>5, <2>1, OthersHold DEF SaveStatus
  <2> HIDE DEF row, b
  <2> QED BY <2>1, <2>2, <2>3, <2>4, <2>5, <2>6, DependencyKept
<1>6. ASSUME NEW n \in 1 .. MaxRequests, NEW fails \in BOOLEAN, NEW unacked \in BOOLEAN,
             HandleApprove(w, n, fails, unacked)
      PROVE  DependencyInv'
  <2>1. UNCHANGED <<task, worker>> /\ Deliver(w, n, ~unacked) /\ Deliverable(w, n)
    BY <1>6 DEF HandleApprove
  <2>2. \A v \in Workers : worker[v].pc # "free" =>
            queue'[v][worker[v].n].body = queue[v][worker[v].n].body
    BY <2>1, OthersHold
  <2> QED BY <2>1, <2>2, DependencyStays
<1>7. ASSUME StopWorker(w) PROVE DependencyInv'
  <2>1. \A v \in Workers : worker'[v] = worker[v] \/ worker'[v].pc = "free"
    BY <1>0, <1>7 DEF StopWorker
  <2> QED BY <1>7, <2>1, DependencyStays DEF StopWorker
<1> QED BY <1>1, <1>2, <1>3, <1>4, <1>5, <1>6, <1>7 DEF Working

LEMMA DependencyStep == ASSUME TypeInv, DependencyInv, [Next]_vars PROVE DependencyInv'
<1>1. Grows
  BY TypeStep DEF Kept
<1>2. CASE UNCHANGED <<task, worker, queue>>
  BY <1>1, <1>2, DependencyStays
<1>3. ASSUME NEW a \in Agents, NEW fails \in BOOLEAN, SaveTicketTask(a, fails)
      PROVE  DependencyInv'
  <2>1. AgentTask[a] \in TaskIds /\ agent[a].row \in Row /\ agent[a].row.status = "Pending"
    BY <1>3, TasksAssumption DEF SaveTicketTask, TypeInv, HeldOK
  <2>2. \A x \in TaskIds : task'[x] = task[x] \/ (x = AgentTask[a] /\ task'[x] = agent[a].row)
    BY <1>3, <2>1, Saved DEF SaveTicketTask, TypeInv
  <2>3. UNCHANGED <<worker, queue>>
    BY <1>3 DEF SaveTicketTask
  <2> QED BY <1>1, <2>1, <2>2, <2>3, DependencyKept DEF Finished
<1>4. ASSUME NEW a \in Agents, Converting(a) PROVE DependencyInv'
  BY <1>2, <1>3, <1>4 DEF Converting, BeginConvert, LinkTicket, StopAgent
<1>5. CASE UNCHANGED vars \/ UNCHANGED taskVars
  BY <1>2, <1>5 DEF vars, taskVars
<1> QED BY <1>1, <1>4, <1>5, DependencyWorks DEF Next

\* A task in progress waits for nothing but finished tasks, unless the read of
\* its dependency failed, however workers and redeliveries come between.
THEOREM DependenciesRespected == Spec => []DependencyRespected
<1>1. Init => DependencyInv
  <2> SUFFICES ASSUME Init PROVE DependencyInv
    OBVIOUS
  <2>1. \A t \in TaskIds : task[t] # None => task[t].status \notin Finished /\ task[t].dep = None
    BY TasksAssumption DEF Init
  <2>2. \A w \in Workers : worker[w].pc = "free"
    BY DEF Init, Free
  <2> QED BY <2>1, <2>2 DEF DependencyInv, DependencyRespected, Finished
<1>2. TypeInv /\ DependencyInv /\ [Next]_vars => DependencyInv'
  BY DependencyStep
<1>3. DependencyInv => DependencyRespected
  BY DEF DependencyInv
<1> QED BY <1>1, <1>2, <1>3, TypeCorrect, PTL DEF Spec

-----------------------------------------------------------------------------
\* Labour cost.

\* The cost of sheet s, as somebody posted it.
IsCost(e, s) ==
    /\ e.posting = s /\ e.account = "LABOR_COST" /\ e.side = "DEBIT" /\ e.reversal = FALSE

Key(e) == <<e.posting, e.reversal, e.side, e.account>>

\* Every entry is the cost of an approved sheet or reverses one, entries have
\* keys of their own, and a reversal in flight has read a cost.
CostInv ==
    /\ \A x, y \in ledger : Key(x) = Key(y) => x = y
    /\ \A e \in ledger :
           \/ e.posting \in Sheets /\ IsCost(e, e.posting) /\ sheet[e.posting].status = "Approved"
           \/ e.reversal = TRUE /\ \E x \in ledger : IsCost(x, e.posting) /\ e = ReversalOf(x, e.actor)
    /\ \A s \in Sheets : sheet[s].status = "Approved" => \E e \in ledger : IsCost(e, s)
    /\ \A c \in Clerks : reversing[c] \in Entry =>
           reversing[c] \in ledger /\ reversing[c].reversal = FALSE

\* An entry is posted, or its key is there.
LEMMA Posted ==
  ASSUME NEW e, Post(e)
  PROVE  /\ ledger \subseteq ledger' /\ ledger' \subseteq ledger \cup {e}
         /\ \E x \in ledger' : Key(x) = Key(e)
         /\ (\A x, y \in ledger : Key(x) = Key(y) => x = y) =>
                \A x, y \in ledger' : Key(x) = Key(y) => x = y
<1>1. CASE Admits(e)
  <2>1. ledger' = ledger \cup {e} /\ \A x \in ledger : Key(x) # Key(e)
    BY <1>1 DEF Post, Admits, Key
  <2> QED BY <2>1
<1>2. CASE ~Admits(e)
  <2>1. ledger' = ledger /\ \E x \in ledger : Key(x) = Key(e)
    BY <1>2 DEF Post, Admits, Key
  <2> QED BY <2>1
<1> QED BY <1>1, <1>2

LEMMA CostStep == ASSUME TypeInv, CostInv, [Next]_vars PROVE CostInv'
<1>0. /\ ledger \in SUBSET Entry /\ reversing \in [Clerks -> Entry \cup {Unread, Replied}]
      /\ sheet \in [Sheets -> [status : {"Submitted", "Approved"}, by : Users \cup {None}]]
  BY DEF TypeInv, TypeOK, LedgerTypeOK
<1>1. CASE UNCHANGED <<ledger, sheet, reversing>>
  BY <1>1 DEF CostInv
<1>2. ASSUME NEW w \in Workers, NEW n \in 1 .. MaxRequests,
             NEW fails \in BOOLEAN, NEW unacked \in BOOLEAN, HandleApprove(w, n, fails, unacked)
      PROVE  CostInv'
  <2> DEFINE b == queue[w][n].body
             cost == [posting |-> b.sheet, account |-> "LABOR_COST", side |-> "DEBIT",
                      reversal |-> FALSE, actor |-> b.by]
             approved == [status |-> "Approved", by |-> b.by]
  <2>1. b.sheet \in Sheets
    BY <1>2, Delivered, BodyFields DEF HandleApprove, TypeInv
  <2>2. reversing' = reversing
    BY <1>2 DEF HandleApprove
  <2>3. CASE UNCHANGED <<sheet, ledger>>
    BY <1>1, <2>2, <2>3
  <2>4. CASE sheet' = [sheet EXCEPT ![b.sheet] = approved] /\ Post(cost)
    <3>1. IsCost(cost, b.sheet) /\ cost.posting = b.sheet /\ approved.status = "Approved"
          /\ Key(cost) = <<b.sheet, FALSE, "DEBIT", "LABOR_COST">>
      BY DEF IsCost, Key
    <3> HIDE DEF cost, approved
    <3>2. \A s \in Sheets : sheet'[s] = IF s = b.sheet THEN approved ELSE sheet[s]
      BY <1>0, <2>4
    <3>3. /\ ledger \subseteq ledger' /\ ledger' \subseteq ledger \cup {cost}
          /\ \E x \in ledger' : Key(x) = Key(cost)
          /\ \A x, y \in ledger' : Key(x) = Key(y) => x = y
      BY <2>4, Posted DEF CostInv
    <3>4. \A e \in ledger' :
              \/ e.posting \in Sheets /\ IsCost(e, e.posting) /\ sheet'[e.posting].status = "Approved"
              \/ e.reversal = TRUE /\ \E x \in ledger' : IsCost(x, e.posting) /\ e = ReversalOf(x, e.actor)
      BY <2>1, <3>1, <3>2, <3>3 DEF CostInv
    <3>5. \E x \in ledger' : IsCost(x, b.sheet)
      BY <3>1, <3>3 DEF IsCost, Key
    <3>6. \A s \in Sheets : sheet'[s].status = "Approved" => \E e \in ledger' : IsCost(e, s)
      BY <3>2, <3>3, <3>5 DEF CostInv
    <3>7. \A c \in Clerks : reversing'[c] \in Entry =>
              reversing'[c] \in ledger' /\ reversing'[c].reversal = FALSE
      BY <2>2, <3>3 DEF CostInv
    <3> QED BY <3>3, <3>4, <3>6, <3>7 DEF CostInv
  <2> QED BY <1>2, <2>3, <2>4 DEF HandleApprove, ApproveTimesheet, Cost
<1>3. ASSUME NEW w \in Workers, Working(w) PROVE CostInv'
  BY <1>1, <1>2, <1>3 DEF Working, Publish, HandleCreate, ReadTask, CheckDependency, SaveStatus,
                          StopWorker, ledgerVars
<1>4. ASSUME NEW a \in Agents, Converting(a) PROVE CostInv'
  BY <1>1, <1>4 DEF Converting, BeginConvert, SaveTicketTask, LinkTicket, StopAgent, ledgerVars
<1>5. ASSUME NEW c \in Clerks, Reversing(c), UNCHANGED taskVars PROVE CostInv'
  <2>1. sheet' = sheet
    BY <1>5 DEF taskVars
  <2>2. ASSUME NEW e \in ledger, BeginReverse(c, e) PROVE CostInv'
    <3>1. ledger' = ledger /\ reversing' = [reversing EXCEPT ![c] = IF e.reversal THEN Replied ELSE e]
      BY <2>2 DEF BeginReverse
    <3>2. e.reversal \in BOOLEAN
      BY <1>0 DEF Entry
    <3>3. \A d \in Clerks : reversing'[d] \in Entry =>
              reversing'[d] \in ledger' /\ reversing'[d].reversal = FALSE
      BY <1>0, <3>1, <3>2, NotEntries DEF CostInv
    <3> QED BY <2>1, <3>1, <3>3 DEF CostInv
  <2>3. CASE FinishReverse(c)
    <3> DEFINE x == reversing[c]
               r == ReversalOf(x, c)
    <3>1. x \in Entry /\ x \in ledger /\ x.reversal = FALSE
      BY <2>3 DEF FinishReverse, CostInv
    <3>2. IsCost(x, x.posting)
      BY <3>1 DEF CostInv
    <3>3. r.posting = x.posting /\ r.reversal = TRUE /\ r.actor = c
      <4> HIDE DEF x
      <4>1. \A e \in Entry : /\ ReversalOf(e, c).posting = e.posting
                             /\ ReversalOf(e, c).reversal = TRUE
                             /\ ReversalOf(e, c).actor = c
        BY ReversalFields
      <4> QED BY <3>1, <4>1, Zenon
    <3>4. Post(r) /\ reversing' = [reversing EXCEPT ![c] = Replied]
      BY <2>3 DEF FinishReverse, Post
    <3>5. r = ReversalOf(x, r.actor)
      BY <3>3
    <3> HIDE DEF r
    <3>6. /\ ledger \subseteq ledger' /\ ledger' \subseteq ledger \cup {r}
          /\ \A y, z \in ledger' : Key(y) = Key(z) => y = z
      BY <3>4, Posted DEF CostInv
    <3>7. \A e \in ledger' :
              \/ e.posting \in Sheets /\ IsCost(e, e.posting) /\ sheet'[e.posting].status = "Approved"
              \/ e.reversal = TRUE /\ \E y \in ledger' : IsCost(y, e.posting) /\ e = ReversalOf(y, e.actor)
      BY <2>1, <3>1, <3>2, <3>3, <3>5, <3>6 DEF CostInv
    <3>8. \A s \in Sheets : sheet'[s].status = "Approved" => \E e \in ledger' : IsCost(e, s)
      BY <2>1, <3>6 DEF CostInv
    <3>9. \A d \in Clerks : reversing'[d] \in Entry =>
              reversing'[d] \in ledger' /\ reversing'[d].reversal = FALSE
      BY <1>0, <3>4, <3>6, NotEntries DEF CostInv
    <3> QED BY <3>6, <3>7, <3>8, <3>9 DEF CostInv
  <2>4. CASE AbandonReverse(c)
    <3>1. \A d \in Clerks : reversing'[d] \in Entry => reversing'[d] = reversing[d]
      BY <1>0, <2>4, NotEntries DEF AbandonReverse
    <3> QED BY <2>1, <2>4, <3>1 DEF AbandonReverse, CostInv
  <2> QED BY <1>5, <2>2, <2>3, <2>4 DEF Reversing
<1>6. CASE UNCHANGED vars
  BY <1>1, <1>6 DEF vars, taskVars, ledgerVars
<1> QED BY <1>3, <1>4, <1>5, <1>6 DEF Next

\* What CostInv says of a sheet.
LEMMA CostsCounted == ASSUME TypeInv, CostInv PROVE LabourCostedOnce
<1>0. Cardinality({}) = 0 /\ \A x : Cardinality({x}) = 1
  BY FS_EmptySet, FS_Singleton
<1> SUFFICES ASSUME NEW s \in Sheets
             PROVE  /\ Cardinality(EntriesOf(s, FALSE)) = IF sheet[s].status = "Approved" THEN 1 ELSE 0
                    /\ Cardinality(EntriesOf(s, TRUE)) <= 1
                    /\ \A r \in EntriesOf(s, TRUE) :
                           \E e \in EntriesOf(s, FALSE) : r = ReversalOf(e, r.actor)
  BY DEF LabourCostedOnce
<1>1. \A e \in EntriesOf(s, FALSE) : IsCost(e, s) /\ sheet[s].status = "Approved" /\ e \in ledger
  BY DEF CostInv, EntriesOf
<1>9. \A x, y \in ledger : Key(x) = Key(y) => x = y
  BY DEF CostInv
<1>2. \A x, y \in EntriesOf(s, FALSE) : x = y
  <2>1. \A x \in EntriesOf(s, FALSE) : Key(x) = <<s, FALSE, "DEBIT", "LABOR_COST">>
    BY <1>1 DEF IsCost, Key
  <2> QED BY <1>9, <1>1, <2>1
<1>3. Cardinality(EntriesOf(s, FALSE)) = IF sheet[s].status = "Approved" THEN 1 ELSE 0
  <2>1. CASE sheet[s].status = "Approved"
    <3>1. PICK e \in ledger : IsCost(e, s)
      BY <2>1 DEF CostInv
    <3>2. EntriesOf(s, FALSE) = {e}
      BY <1>2, <3>1 DEF EntriesOf, IsCost
    <3> QED BY <1>0, <2>1, <3>2
  <2>2. CASE sheet[s].status # "Approved"
    <3>1. EntriesOf(s, FALSE) = {}
      BY <1>1, <2>2
    <3> QED BY <1>0, <2>2, <3>1
  <2> QED BY <2>1, <2>2
<1>4. ASSUME NEW r \in EntriesOf(s, TRUE)
      PROVE  /\ \E e \in EntriesOf(s, FALSE) : r = ReversalOf(e, r.actor)
             /\ Key(r) = <<s, TRUE, "CREDIT", "LABOR_COST">> /\ r \in ledger
  <2>1. r \in ledger /\ r.posting = s /\ r.reversal = TRUE
    BY DEF EntriesOf
  <2>2. PICK e \in ledger : IsCost(e, s) /\ r = ReversalOf(e, r.actor)
    BY <2>1 DEF CostInv, IsCost
  <2>3. e \in EntriesOf(s, FALSE)
    BY <2>2 DEF EntriesOf, IsCost
  <2>4. e \in Entry
    BY DEF TypeInv, TypeOK, LedgerTypeOK
  <2>5. r.account = e.account /\ r.side = (IF e.side = "DEBIT" THEN "CREDIT" ELSE "DEBIT")
    BY <2>2, <2>4 DEF ReversalOf, Entry
  <2> QED BY <2>1, <2>2, <2>3, <2>5 DEF IsCost, Key
<1>5. Cardinality(EntriesOf(s, TRUE)) <= 1
  <2>1. \A x, y \in EntriesOf(s, TRUE) : x = y
    BY <1>9, <1>4
  <2>2. CASE EntriesOf(s, TRUE) = {}
    <3>1. Cardinality(EntriesOf(s, TRUE)) = 0
      BY <1>0, <2>2, Zenon
    <3>2. 0 <= 1
      OBVIOUS
    <3> QED BY <3>1, <3>2, Zenon
  <2>3. CASE EntriesOf(s, TRUE) # {}
    <3>1. PICK x : x \in EntriesOf(s, TRUE)
      BY <2>3
    <3>2. EntriesOf(s, TRUE) = {x}
      BY <2>1, <3>1
    <3>3. Cardinality(EntriesOf(s, TRUE)) = 1
      BY <1>0, <3>2, Zenon
    <3>4. 1 <= 1
      OBVIOUS
    <3> QED BY <3>3, <3>4, Zenon
  <2> QED BY <2>2, <2>3
<1> QED BY <1>3, <1>4, <1>5

\* However many commands, deliveries, approvers and reversals there are, the
\* labour cost of a timesheet is posted once and reversed once at most.
THEOREM LabourOnce == Spec => []LabourCostedOnce
<1>1. Init => CostInv
  <2> SUFFICES ASSUME Init PROVE CostInv
    OBVIOUS
  <2>1. ledger = {} /\ \A s \in Sheets : sheet[s].status = "Submitted"
    BY DEF Init, LedgerInit
  <2>2. \A c \in Clerks : reversing[c] \notin Entry
    BY NotEntries DEF Init, LedgerInit
  <2> QED BY <2>1, <2>2 DEF CostInv
<1>2. TypeInv /\ CostInv /\ [Next]_vars => CostInv'
  BY CostStep
<1>3. TypeInv /\ CostInv => LabourCostedOnce
  BY CostsCounted
<1> QED BY <1>1, <1>2, <1>3, TypeCorrect, PTL DEF Spec

-----------------------------------------------------------------------------
\* Climbing a column.

\* Induction on the natural numbers, for a set of them.
LEMMA NatInducts ==
  ASSUME NEW S, 0 \in S, \A n \in Nat : n \in S => n + 1 \in S
  PROVE  \A n \in Nat : n \in S
<1> DEFINE R == OpToRel(<, Nat)
           T == {n \in Nat : n \notin S}
<1> SUFFICES ASSUME T # {} PROVE FALSE
  OBVIOUS
<1>1. PICK n \in T : \A m \in T : ~ (<<m, n>> \in R)
  <2>1. IsWellFoundedOn(R, Nat)
    BY NatLessThanWellFounded
  <2> HIDE DEF R
  <2> QED BY <2>1, WFMin
<1>2. n \in Nat /\ n # 0 /\ n - 1 \in Nat /\ n - 1 < n
  <2>1. n \in Nat /\ n # 0
    BY <1>1
  <2> QED BY <2>1
<1>3. n - 1 \notin T
  BY <1>1, <1>2 DEF OpToRel
<1>4. (n - 1) + 1 \in S
  BY <1>2, <1>3
<1>5. (n - 1) + 1 = n
  BY <1>2
<1> QED BY <1>1, <1>4, <1>5

\* The next row a climb reaches.
Above(up, y) == IF y \in DOMAIN up THEN up[y] ELSE None

\* h is the first n steps of the climb from x.
Climbs(up, x, n, h) ==
    h[0] = x /\ \A k \in 1 .. n : h[k] = Above(up, h[k - 1])

\* A climb has every length, and only one course.
LEMMA ClimbExists ==
  ASSUME NEW up, NEW x
  PROVE  \A n \in Nat : \E h : Climbs(up, x, n, h)
<1> DEFINE S == {n \in Nat : \E h : Climbs(up, x, n, h)}
<1>1. 0 \in S
  <2> DEFINE h == [k \in {0} |-> x]
  <2>1. h[0] = x
    OBVIOUS
  <2>2. Climbs(up, x, 0, h)
    BY <2>1 DEF Climbs
  <2> QED BY <2>2
<1>2. ASSUME NEW n \in Nat, n \in S PROVE n + 1 \in S
  <2>1. PICK h : Climbs(up, x, n, h)
    BY <1>2
  <2> DEFINE g == [k \in 0 .. n + 1 |-> IF k = n + 1 THEN Above(up, h[n]) ELSE h[k]]
  <2>2. /\ \A k \in 0 .. n : g[k] = h[k]
        /\ g[n + 1] = Above(up, h[n])
    OBVIOUS
  <2> HIDE DEF g
  <2>3. g[0] = x
    BY <2>1, <2>2 DEF Climbs
  <2>4. ASSUME NEW k \in 1 .. n + 1 PROVE g[k] = Above(up, g[k - 1])
    <3>1. CASE k = n + 1
      <4>1. k - 1 = n /\ n \in 0 .. n
        BY <3>1
      <4> QED BY <2>2, <3>1, <4>1
    <3>2. CASE k \in 1 .. n
      <4>1. k \in 0 .. n /\ k - 1 \in 0 .. n
        BY <3>2
      <4>2. h[k] = Above(up, h[k - 1])
        BY <2>1, <3>2 DEF Climbs
      <4> QED BY <2>2, <4>1, <4>2
    <3> QED BY <3>1, <3>2
  <2>5. Climbs(up, x, n + 1, g)
    BY <2>3, <2>4 DEF Climbs
  <2> QED BY <2>5
<1> HIDE DEF S
<1>3. \A n \in Nat : n \in S
  BY <1>1, <1>2, NatInducts
<1> QED BY <1>3 DEF S

LEMMA ClimbUnique ==
  ASSUME NEW up, NEW x, NEW n \in Nat, NEW m \in Nat, NEW g, NEW h,
         Climbs(up, x, n, g), Climbs(up, x, m, h)
  PROVE  \A k \in Nat : k <= n /\ k <= m => g[k] = h[k]
<1> DEFINE S == {k \in Nat : k <= n /\ k <= m => g[k] = h[k]}
<1>1. 0 \in S
  BY DEF Climbs
<1>2. ASSUME NEW k \in Nat, k \in S PROVE k + 1 \in S
  <2> SUFFICES ASSUME k + 1 <= n, k + 1 <= m PROVE g[k + 1] = h[k + 1]
    OBVIOUS
  <2>1. g[k] = h[k]
    BY <1>2
  <2>2. k + 1 \in 1 .. n /\ k + 1 \in 1 .. m /\ (k + 1) - 1 = k
    OBVIOUS
  <2> QED BY <2>1, <2>2 DEF Climbs
<1> HIDE DEF S
<1>3. \A k \in Nat : k \in S
  BY <1>1, <1>2, NatInducts
<1> QED BY <1>3 DEF S

\* What Ancestor computes: nothing is climbed in no step, and a row or None in
\* every further one.
LEMMA AncestorClimbs ==
  ASSUME NEW up, NEW x
  PROVE  /\ Ancestor(up, x, 0) = x
         /\ \A i \in Nat : Ancestor(up, x, i + 1) = Above(up, Ancestor(up, x, i))
<1> DEFINE Way(n) == CHOOSE h : Climbs(up, x, n, h)
           g == [n \in Nat |-> Way(n)[n]]
           Climb(f) == [k \in Nat |->
               IF k = 0 THEN x
               ELSE IF f[k - 1] \in DOMAIN up THEN up[f[k - 1]] ELSE None]
           f == CHOOSE h : h = Climb(h)
<1>1. \A n \in Nat : Climbs(up, x, n, Way(n))
  BY ClimbExists
<1>2. g[0] = x
  <2>1. Climbs(up, x, 0, Way(0)) /\ g[0] = Way(0)[0]
    BY <1>1
  <2> QED BY <2>1 DEF Climbs
<1>3. ASSUME NEW k \in Nat \ {0} PROVE g[k] = Above(up, g[k - 1])
  <2>1. k - 1 \in Nat /\ k - 1 <= k /\ k - 1 <= k - 1 /\ k \in 1 .. k
    OBVIOUS
  <2>2. Climbs(up, x, k, Way(k)) /\ Climbs(up, x, k - 1, Way(k - 1))
    BY <1>1, <2>1
  <2> DEFINE a == Way(k)
             b == Way(k - 1)
  <2>3. g[k] = a[k] /\ g[k - 1] = b[k - 1]
    BY <2>1
  <2> HIDE DEF a, b, g
  <2>4. Climbs(up, x, k, a) /\ Climbs(up, x, k - 1, b)
    BY <2>2 DEF a, b
  <2>5. a[k - 1] = b[k - 1]
    BY <2>1, <2>4, ClimbUnique
  <2>6. a[k] = Above(up, a[k - 1])
    BY <2>1, <2>4 DEF Climbs
  <2> QED BY <2>3, <2>5, <2>6
<1>4. g = Climb(g)
  <2>1. g = [k \in Nat |-> g[k]]
    OBVIOUS
  <2> HIDE DEF g
  <2>2. \A k \in Nat : g[k] = IF k = 0 THEN x
                            ELSE IF g[k - 1] \in DOMAIN up THEN up[g[k - 1]] ELSE None
    BY <1>2, <1>3 DEF Above
  <2>3. Climb(g) = [k \in Nat |-> g[k]]
    BY <2>2
  <2> QED BY <2>1, <2>3
<1>5. f = Climb(f)
  <2> HIDE DEF g
  <2> QED BY <1>4
<1>6. \A i \in Nat : Ancestor(up, x, i) = f[i]
  BY DEF Ancestor
<1> HIDE DEF f, g
<1>7. f[0] = x
  BY <1>5
<1>8. ASSUME NEW i \in Nat PROVE f[i + 1] = Above(up, f[i])
  <2>1. i + 1 \in Nat /\ i + 1 # 0 /\ (i + 1) - 1 = i
    OBVIOUS
  <2> QED BY <1>5, <2>1 DEF Above
<1> QED BY <1>6, <1>7, <1>8

-----------------------------------------------------------------------------
\* Circles of dependencies.

\* The id a conversion makes is in nothing that anybody else knows.
FreshOK ==
    \A a \in Agents :
        /\ agent[a].pc \in {"new", "save"} =>
               /\ task[AgentTask[a]] = None
               /\ \A w \in Workers : \A n \in 1 .. Len(queue[w]) :
                      queue[w][n].body.kind = "create" => queue[w][n].body.task # AgentTask[a]
        /\ agent[a].pc = "save" => agent[a].row.dep # AgentTask[a]

\* What a task waits for exists.
WaitsExist ==
    \A t \in TaskIds : task[t] # None => task[t].dep = None \/ task[task[t].dep] # None

\* The row a worker has read may be old, but waits for the same task.
HeldWaits ==
    \A w \in Workers : worker[w].pc # "free" =>
        LET t == queue[w][worker[w].n].body.task IN
        task[t] # None /\ (t \in remade \/ worker[w].row.dep = task[t].dep)

\* A task that was not remade is above what it waits for.
Ranked(rank) ==
    \A t \in TaskIds \ remade :
        task[t] # None /\ task[t].dep # None => rank[task[t].dep] < rank[t]

CircleInv == FreshOK /\ WaitsExist /\ HeldWaits /\ \E rank \in [TaskIds -> Nat] : Ranked(rank)

\* A row is written that is new and waits for another, that waits for what the
\* row there was waits for, or that counts as remade.
LEMMA RowWaits ==
  ASSUME TypeInv, WaitsExist, \E rank \in [TaskIds -> Nat] : Ranked(rank),
         NEW t \in TaskIds, NEW row \in Row, NEW fails, SaveTask(t, row, fails),
         remade \subseteq remade',
         \/ task[t] = None /\ (row.dep # t \/ t \in remade')
         \/ task[t] # None /\ (row.dep = task[t].dep \/ t \in remade')
  PROVE  WaitsExist' /\ \E rank \in [TaskIds -> Nat] : Ranked(rank)'
<1>1. /\ task \in [TaskIds -> Row \cup {None}] /\ None \notin TaskIds /\ row # None
      /\ row.dep \in TaskIds \cup {None}
      /\ \A x \in TaskIds : task[x] # None => task[x].dep \in TaskIds \cup {None}
  BY TasksAssumption DEF TypeInv, TypeOK, Row
<1>2. PICK rank \in [TaskIds -> Nat] : Ranked(rank)
  OBVIOUS
<1>3. CASE UNCHANGED task
  <2>1. Ranked(rank)'
    BY <1>2, <1>3 DEF Ranked
  <2> QED BY <1>3, <2>1 DEF WaitsExist
<1>4. CASE task' = [task EXCEPT ![t] = row] /\ (row.dep = None \/ row.dep = t \/ task[row.dep] # None)
  <2>1. \A x \in TaskIds : task'[x] = IF x = t THEN row ELSE task[x]
    BY <1>1, <1>4
  <2>2. WaitsExist'
    BY <1>1, <1>4, <2>1 DEF WaitsExist
  <2>3. CASE t \in remade' \/ (task[t] # None /\ row.dep = task[t].dep)
    <3>1. Ranked(rank)'
      BY <1>2, <2>1, <2>3 DEF Ranked
    <3> QED BY <2>2, <3>1
  <2>4. CASE task[t] = None /\ row.dep # t
    <3> DEFINE high == IF row.dep = None THEN 0 ELSE rank[row.dep] + 1
               above == [rank EXCEPT ![t] = high]
    <3>1. high \in Nat /\ (row.dep # None => rank[row.dep] < high)
      BY <1>1, <1>2
    <3> HIDE DEF high
    <3>2. /\ above \in [TaskIds -> Nat]
          /\ \A x \in TaskIds : above[x] = IF x = t THEN high ELSE rank[x]
      BY <1>2, <3>1
    <3> HIDE DEF above
    <3>3. ASSUME NEW x \in TaskIds \ remade', task'[x] # None, task'[x].dep # None
          PROVE  above[task'[x].dep] < above[x]
      <4>1. CASE x = t
        BY <1>1, <2>1, <2>4, <3>1, <3>2, <3>3, <4>1
      <4>2. CASE x # t
        <5>1. task'[x] = task[x] /\ x \notin remade /\ task[x].dep \in TaskIds
          BY <1>1, <2>1, <3>3, <4>2
        <5>2. task[x].dep # t
          BY <2>4, <3>3, <5>1 DEF WaitsExist
        <5>3. rank[task[x].dep] < rank[x]
          BY <1>2, <3>3, <5>1 DEF Ranked
        <5> QED BY <3>2, <4>2, <5>1, <5>2, <5>3
      <4> QED BY <4>1, <4>2
    <3>4. Ranked(above)'
      BY <3>3 DEF Ranked
    <3> QED BY <2>2, <3>2, <3>4
  <2> QED BY <2>3, <2>4
<1> QED BY <1>3, <1>4 DEF SaveTask, References

\* What a worker holds is still there, or is what it has just read.
LEMMA HeldStays ==
  ASSUME TypeInv, HeldWaits, remade \subseteq remade',
         \A x \in TaskIds : task[x] # None =>
             task'[x] # None /\ (x \in remade' \/ task'[x].dep = task[x].dep),
         \A v \in Workers : worker'[v].pc # "free" =>
             /\ worker[v].pc # "free"
             /\ worker'[v].n = worker[v].n /\ worker'[v].row = worker[v].row
             /\ queue'[v][worker[v].n].body = queue[v][worker[v].n].body
  PROVE  HeldWaits'
<1> SUFFICES ASSUME NEW w \in Workers, worker'[w].pc # "free"
             PROVE  LET t == queue'[w][worker'[w].n].body.task IN
                    task'[t] # None /\ (t \in remade' \/ worker'[w].row.dep = task'[t].dep)
  BY DEF HeldWaits
<1> DEFINE t == queue[w][worker[w].n].body.task
<1>1. worker[w].pc # "free" /\ t \in TaskIds /\ queue'[w][worker'[w].n].body.task = t
      /\ worker'[w].row = worker[w].row
  BY WorkerFields
<1>2. task[t] # None /\ (t \in remade \/ worker[w].row.dep = task[t].dep)
  BY <1>1 DEF HeldWaits
<1> HIDE DEF t
<1> QED BY <1>1, <1>2

\* Commands that are delivered, and no row of a fresh id.
LEMMA FreshStays ==
  ASSUME TypeInv, FreshOK,
         \A v \in Workers : /\ Len(queue'[v]) = Len(queue[v])
                            /\ \A m \in 1 .. Len(queue[v]) : queue'[v][m].body = queue[v][m].body,
         \A a \in Agents : /\ agent'[a].pc \in {"new", "save"} =>
                                  agent'[a] = agent[a] /\ task'[AgentTask[a]] = None
  PROVE  FreshOK'
<1> SUFFICES ASSUME NEW a \in Agents, agent'[a].pc \in {"new", "save"}
             PROVE  /\ task'[AgentTask[a]] = None
                    /\ \A w \in Workers : \A n \in 1 .. Len(queue'[w]) :
                           queue'[w][n].body.kind = "create" =>
                               queue'[w][n].body.task # AgentTask[a]
                    /\ agent'[a].pc = "save" => agent'[a].row.dep # AgentTask[a]
  BY DEF FreshOK
<1>1. agent'[a] = agent[a] /\ task'[AgentTask[a]] = None
  OBVIOUS
<1>2. /\ agent[a].pc = "save" => agent[a].row.dep # AgentTask[a]
      /\ \A w \in Workers : \A n \in 1 .. Len(queue[w]) :
             queue[w][n].body.kind = "create" => queue[w][n].body.task # AgentTask[a]
  BY <1>1 DEF FreshOK
<1> QED BY <1>1, <1>2

LEMMA CirclePublish ==
  ASSUME TypeInv, CircleInv, NEW w \in Workers, NEW b \in Bodies, Publish(w, b)
  PROVE  CircleInv'
<1> DEFINE msg == [body |-> b, tries |-> 0, settled |-> FALSE]
<1>1. msg \in Message /\ msg.body = b
  BY TasksAssumption DEF Message
<1>2. queue' = [queue EXCEPT ![w] = Append(queue[w], msg)] /\ UNCHANGED <<task, worker, agent, remade>>
  BY DEF Publish
<1>3. queue \in [Workers -> Seq(Message)]
  BY DEF TypeInv, TypeOK, Message
<1> HIDE DEF msg
<1>4. \A v \in Workers :
          /\ \A m \in 1 .. Len(queue[v]) : queue'[v][m] = queue[v][m]
          /\ \A m \in 1 .. Len(queue'[v]) :
                 \/ m \in 1 .. Len(queue[v])
                 \/ queue'[v][m].body = b
  BY <1>1, <1>2, <1>3
<1>5. \A v \in Workers : worker[v].pc # "free" => queue'[v][worker[v].n] = queue[v][worker[v].n]
  BY <1>4 DEF TypeInv, HeldOK
<1>6. HeldWaits'
  BY <1>2, <1>5, HeldStays DEF CircleInv
<1>7. FreshOK'
  <2> SUFFICES ASSUME NEW a \in Agents, agent[a].pc \in {"new", "save"},
                      NEW v \in Workers, NEW m \in 1 .. Len(queue'[v]),
                      queue'[v][m].body.kind = "create"
               PROVE  queue'[v][m].body.task # AgentTask[a]
    BY <1>2 DEF CircleInv, FreshOK
  <2>1. CASE m \in 1 .. Len(queue[v])
    BY <1>4, <2>1 DEF CircleInv, FreshOK
  <2>2. CASE queue'[v][m].body = b
    <3>1. b.task \in Known
      BY <2>2 DEF Publish
    <3> QED BY <2>2, <3>1 DEF Known
  <2> QED BY <1>4, <2>1, <2>2
<1>8. WaitsExist' /\ \E rank \in [TaskIds -> Nat] : Ranked(rank)'
  BY <1>2 DEF CircleInv, WaitsExist, Ranked
<1> QED BY <1>6, <1>7, <1>8 DEF CircleInv

LEMMA CircleCreate ==
  ASSUME TypeInv, CircleInv, NEW w \in Workers, NEW n \in 1 .. MaxRequests,
         NEW fails \in BOOLEAN, NEW unacked \in BOOLEAN, HandleCreate(w, n, fails, unacked)
  PROVE  CircleInv'
<1> DEFINE b == queue[w][n].body
<1>1. /\ n \in 1 .. Len(queue[w]) /\ b \in Bodies
      /\ \A v \in Workers : /\ Len(queue'[v]) = Len(queue[v])
                            /\ \A m \in 1 .. Len(queue[v]) : queue'[v][m].body = queue[v][m].body
  BY Delivered DEF HandleCreate, TypeInv
<1>2. /\ b.kind = "create" /\ b.task \in TaskIds /\ NewTask(b) \in Row /\ NewTask(b).dep = b.dep
      /\ SaveTask(b.task, NewTask(b), fails)
  BY <1>1, BodyFields, NewRows DEF HandleCreate, NewTask
<1>3. /\ UNCHANGED <<worker, agent>>
      /\ remade \subseteq remade'
      /\ b.dep = b.task \/ task[b.task] # None => b.task \in remade'
  BY DEF HandleCreate
<1>4. WaitsExist' /\ \E rank \in [TaskIds -> Nat] : Ranked(rank)'
  BY <1>2, <1>3, RowWaits DEF CircleInv
<1>5. /\ \A x \in TaskIds : task[x] # None => task'[x] # None
      /\ \A x \in TaskIds : task'[x] = task[x] \/ (x = b.task /\ task'[x] = NewTask(b))
  BY <1>2, Saved DEF TypeInv
<1>6. HeldWaits'
  <2>1. \A v \in Workers : worker[v].pc # "free" =>
            queue'[v][worker[v].n].body = queue[v][worker[v].n].body
    BY <1>1 DEF TypeInv, HeldOK
  <2>2. \A x \in TaskIds : task[x] # None =>
            task'[x] # None /\ (x \in remade' \/ task'[x].dep = task[x].dep)
    BY <1>3, <1>5
  <2> QED BY <1>3, <2>1, <2>2, HeldStays DEF CircleInv
<1>7. FreshOK'
  <2>1. \A a \in Agents : agent[a].pc \in {"new", "save"} => task'[AgentTask[a]] = None
    <3> SUFFICES ASSUME NEW a \in Agents, agent[a].pc \in {"new", "save"}
                 PROVE  task'[AgentTask[a]] = None
      OBVIOUS
    <3>1. b.task # AgentTask[a] /\ task[AgentTask[a]] = None /\ AgentTask[a] \in TaskIds
      BY <1>1, <1>2, TasksAssumption DEF CircleInv, FreshOK
    <3> QED BY <1>5, <3>1
  <2> QED BY <1>1, <1>3, <2>1, FreshStays DEF CircleInv
<1> QED BY <1>4, <1>6, <1>7 DEF CircleInv

LEMMA CircleRead ==
  ASSUME TypeInv, CircleInv, NEW w \in Workers, NEW n \in 1 .. MaxRequests, NEW fails \in BOOLEAN,
         ReadTask(w, n, fails)
  PROVE  CircleInv'
<1> DEFINE b == queue[w][n].body
           held == [pc |-> "read", n |-> n, row |-> task[b.task]]
<1>1. \E settled \in BOOLEAN : Deliver(w, n, settled)
  BY DEF ReadTask
<1>2. /\ n \in 1 .. Len(queue[w])
      /\ \A v \in Workers : /\ Len(queue'[v]) = Len(queue[v])
                            /\ \A m \in 1 .. Len(queue[v]) : queue'[v][m].body = queue[v][m].body
  BY <1>1, Delivered DEF ReadTask, TypeInv
<1>3. UNCHANGED <<task, agent, remade>>
  BY DEF ReadTask
<1>4. worker' = worker \/ (worker' = [worker EXCEPT ![w] = held] /\ task[b.task] # None)
  BY DEF ReadTask
<1>5. held.n = n /\ held.row = task[b.task]
  OBVIOUS
<1>6. HeldWaits'
  <2> SUFFICES ASSUME NEW v \in Workers, worker'[v].pc # "free"
               PROVE  LET t == queue'[v][worker'[v].n].body.task IN
                      task'[t] # None /\ (t \in remade' \/ worker'[v].row.dep = task'[t].dep)
    BY DEF HeldWaits
  <2>1. CASE worker'[v] = worker[v]
    <3>1. queue'[v][worker[v].n].body = queue[v][worker[v].n].body
      BY <1>2, <2>1 DEF TypeInv, HeldOK
    <3> QED BY <1>3, <2>1, <3>1 DEF CircleInv, HeldWaits
  <2>2. CASE v = w /\ worker'[v] = held /\ task[b.task] # None
    BY <1>2, <1>3, <1>5, <2>2
  <2>3. worker'[v] = worker[v] \/ (v = w /\ worker'[v] = held /\ task[b.task] # None)
    <3>1. worker \in [Workers -> Busy \cup {Free}]
      BY DEF TypeInv, TypeOK
    <3> HIDE DEF held
    <3> QED BY <1>4, <3>1
  <2> QED BY <2>1, <2>2, <2>3
<1>7. FreshOK'
  <2>1. \A a \in Agents : agent[a].pc \in {"new", "save"} => task'[AgentTask[a]] = None
    BY <1>3 DEF CircleInv, FreshOK
  <2> QED BY <1>2, <1>3, <2>1, FreshStays DEF CircleInv
<1>8. WaitsExist' /\ \E rank \in [TaskIds -> Nat] : Ranked(rank)'
  BY <1>3 DEF CircleInv, WaitsExist, Ranked
<1> QED BY <1>6, <1>7, <1>8 DEF CircleInv

\* A step of a worker that saves no row.
LEMMA CircleStays ==
  ASSUME TypeInv, CircleInv, UNCHANGED <<task, agent, remade>>,
         \A v \in Workers : /\ Len(queue'[v]) = Len(queue[v])
                            /\ \A m \in 1 .. Len(queue[v]) : queue'[v][m].body = queue[v][m].body,
         \A v \in Workers : worker'[v].pc # "free" =>
             /\ worker[v].pc # "free"
             /\ worker'[v].n = worker[v].n /\ worker'[v].row = worker[v].row
  PROVE  CircleInv'
<1>1. \A v \in Workers : worker[v].pc # "free" =>
          queue'[v][worker[v].n].body = queue[v][worker[v].n].body
  BY DEF TypeInv, HeldOK
<1>2. HeldWaits'
  BY <1>1, HeldStays DEF CircleInv
<1>3. \A a \in Agents : agent[a].pc \in {"new", "save"} => task'[AgentTask[a]] = None
  BY DEF CircleInv, FreshOK
<1>4. FreshOK'
  BY <1>3, FreshStays DEF CircleInv
<1>5. WaitsExist' /\ \E rank \in [TaskIds -> Nat] : Ranked(rank)'
  BY DEF CircleInv, WaitsExist, Ranked
<1> QED BY <1>2, <1>4, <1>5 DEF CircleInv

LEMMA CircleCheck ==
  ASSUME TypeInv, CircleInv, NEW w \in Workers, NEW fails \in BOOLEAN, CheckDependency(w, fails)
  PROVE  CircleInv'
<1> DEFINE n == worker[w].n
           held == [worker[w] EXCEPT !.pc = "checked"]
<1>1. worker[w].pc = "read" /\ worker[w] \in Busy
  BY WorkerFields DEF CheckDependency
<1>2. queue' = queue \/ queue' = [queue EXCEPT ![w][n].settled = TRUE]
  BY DEF CheckDependency
<1>3. \A v \in Workers : /\ Len(queue'[v]) = Len(queue[v])
                         /\ \A m \in 1 .. Len(queue[v]) : queue'[v][m].body = queue[v][m].body
  <2>1. CASE queue' = queue
    BY <2>1
  <2> QED BY <1>1, <1>2, <2>1, SettledHeld
<1>4. worker' = [worker EXCEPT ![w] = Free] \/ worker' = [worker EXCEPT ![w] = held]
  BY DEF CheckDependency
<1>5. held.n = n /\ held.row = worker[w].row /\ Free.pc = "free"
  BY <1>1 DEF Busy, Free
<1>6. \A v \in Workers : \/ worker'[v] = worker[v]
                         \/ worker'[v].pc = "free"
                         \/ v = w /\ worker'[v].n = n /\ worker'[v].row = worker[w].row
  <2>1. worker \in [Workers -> Busy \cup {Free}]
    BY DEF TypeInv, TypeOK
  <2> HIDE DEF held
  <2> QED BY <1>4, <1>5, <2>1
<1>7. UNCHANGED <<task, agent, remade>>
  BY DEF CheckDependency
<1> QED BY <1>1, <1>3, <1>6, <1>7, CircleStays

LEMMA CircleSave ==
  ASSUME TypeInv, CircleInv, NEW w \in Workers, NEW fails \in BOOLEAN, NEW unacked \in BOOLEAN,
         SaveStatus(w, fails, unacked)
  PROVE  CircleInv'
<1> DEFINE n == worker[w].n
           b == queue[w][n].body
           row == Updated(b, worker[w].row)
<1>1. /\ worker[w].pc = "checked" /\ b \in Bodies /\ b.task \in TaskIds /\ row \in Row
      /\ row.dep = worker[w].row.dep
  BY WorkerFields, UpdatedRow DEF SaveStatus
<1>2. \A v \in Workers : /\ Len(queue'[v]) = Len(queue[v])
                         /\ \A m \in 1 .. Len(queue[v]) : queue'[v][m].body = queue[v][m].body
  BY <1>1, SettledHeld DEF SaveStatus
<1>3. \A v \in Workers : worker'[v] = worker[v] \/ worker'[v].pc = "free"
  BY DEF SaveStatus, TypeInv, TypeOK, Free
<1>4. UNCHANGED <<agent, remade>> /\ SaveTask(b.task, row, fails)
  BY DEF SaveStatus
<1>5. task[b.task] # None /\ (b.task \in remade \/ row.dep = task[b.task].dep)
  BY <1>1 DEF CircleInv, HeldWaits
<1> HIDE DEF b, row
<1>6. WaitsExist' /\ \E rank \in [TaskIds -> Nat] : Ranked(rank)'
  BY <1>1, <1>4, <1>5, RowWaits DEF CircleInv
<1>7. /\ \A x \in TaskIds : task[x] # None => task'[x] # None
      /\ \A x \in TaskIds : task'[x] = task[x] \/ (x = b.task /\ task'[x] = row)
  BY <1>1, <1>4, Saved DEF TypeInv
<1>8. HeldWaits'
  <2>1. \A v \in Workers : worker[v].pc # "free" =>
            queue'[v][worker[v].n].body = queue[v][worker[v].n].body
    BY <1>2 DEF TypeInv, HeldOK
  <2>2. \A x \in TaskIds : task[x] # None =>
            task'[x] # None /\ (x \in remade' \/ task'[x].dep = task[x].dep)
    BY <1>4, <1>5, <1>7
  <2> QED BY <1>3, <1>4, <2>1, <2>2, HeldStays DEF CircleInv
<1>9. FreshOK'
  <2>1. \A a \in Agents : agent[a].pc \in {"new", "save"} => task'[AgentTask[a]] = None
    <3> SUFFICES ASSUME NEW a \in Agents, agent[a].pc \in {"new", "save"}
                 PROVE  task'[AgentTask[a]] = None
      OBVIOUS
    <3>1. task[AgentTask[a]] = None /\ AgentTask[a] \in TaskIds
      BY TasksAssumption DEF CircleInv, FreshOK
    <3> QED BY <1>5, <1>7, <3>1
  <2> QED BY <1>2, <1>4, <2>1, FreshStays DEF CircleInv
<1> QED BY <1>6, <1>8, <1>9 DEF CircleInv

LEMMA CircleWorks ==
  ASSUME TypeInv, CircleInv, NEW w \in Workers, Working(w)
  PROVE  CircleInv'
<1>1. ASSUME NEW n \in 1 .. MaxRequests, NEW fails \in BOOLEAN, NEW unacked \in BOOLEAN,
             HandleApprove(w, n, fails, unacked)
      PROVE  CircleInv'
  <2>1. UNCHANGED <<task, agent, worker, remade>>
    BY <1>1 DEF HandleApprove
  <2>2. \A v \in Workers : /\ Len(queue'[v]) = Len(queue[v])
                           /\ \A m \in 1 .. Len(queue[v]) : queue'[v][m].body = queue[v][m].body
    BY <1>1, Delivered DEF HandleApprove, TypeInv
  <2> QED BY <2>1, <2>2, CircleStays
<1>2. ASSUME StopWorker(w) PROVE CircleInv'
  <2>1. UNCHANGED <<task, agent, queue, remade>>
    BY <1>2 DEF StopWorker
  <2>2. \A v \in Workers : worker'[v] = worker[v] \/ worker'[v].pc = "free"
    BY <1>2 DEF StopWorker, TypeInv, TypeOK, Free
  <2> QED BY <2>1, <2>2, CircleStays
<1> QED BY <1>1, <1>2, CirclePublish, CircleCreate, CircleRead, CircleCheck, CircleSave DEF Working

\* A conversion begins, saves, links or stops.
LEMMA CircleConverts ==
  ASSUME TypeInv, CircleInv, NEW a \in Agents, Converting(a)
  PROVE  CircleInv'
<1>0. agent \in [Agents -> Agency] /\ AgentTask \in [Agents -> TaskIds] /\ None \notin TaskIds
  BY TasksAssumption DEF TypeInv, TypeOK, Agency
<1>1. UNCHANGED <<queue, worker, remade>>
  BY DEF Converting, BeginConvert, SaveTicketTask, LinkTicket, StopAgent
<1>2. ASSUME NEW k \in Tickets, NEW x \in Conversions, BeginConvert(a, k, x) PROVE CircleInv'
  <2> DEFINE next == [pc |-> ConvertOrder[1], ticket |-> k, row |-> TicketTask(x)]
  <2>1. agent' = [agent EXCEPT ![a] = next] /\ UNCHANGED task /\ agent[a].pc = "new"
    BY <1>2 DEF BeginConvert
  <2>2. next.row.dep = x.dep
    BY DEF TicketTask
  <2> HIDE DEF next
  <2>3. \A y \in Agents : agent'[y] = IF y = a THEN next ELSE agent[y]
    BY <1>0, <2>1
  <2>4. x.dep # AgentTask[a]
    BY <1>0, <1>2, <2>1 DEF BeginConvert, Known
  <2>5. FreshOK'
    <3> SUFFICES ASSUME NEW y \in Agents, agent'[y].pc \in {"new", "save"}
                 PROVE  /\ task'[AgentTask[y]] = None
                        /\ \A w \in Workers : \A n \in 1 .. Len(queue'[w]) :
                               queue'[w][n].body.kind = "create" =>
                                   queue'[w][n].body.task # AgentTask[y]
                        /\ agent'[y].pc = "save" => agent'[y].row.dep # AgentTask[y]
      BY DEF FreshOK
    <3>1. agent[y].pc \in {"new", "save"}
      BY <2>1, <2>3
    <3> QED BY <1>1, <2>1, <2>2, <2>3, <2>4, <3>1 DEF CircleInv, FreshOK
  <2> QED BY <1>1, <2>1, <2>5 DEF CircleInv, WaitsExist, HeldWaits, Ranked
<1>3. ASSUME NEW fails \in BOOLEAN, SaveTicketTask(a, fails) PROVE CircleInv'
  <2> DEFINE t == AgentTask[a]
             row == agent[a].row
  <2>1. /\ agent[a].pc = "save" /\ t \in TaskIds /\ row \in Row /\ SaveTask(t, row, fails)
        /\ task[t] = None /\ row.dep # t
    BY <1>0, <1>3 DEF SaveTicketTask, TypeInv, HeldOK, CircleInv, FreshOK
  <2>2. /\ \A y \in Agents \ {a} : agent'[y] = agent[y]
        /\ agent'[a].pc = "link"
    BY <1>3, Steps, AgentMoves DEF SaveTicketTask
  <2> HIDE DEF row
  <2>3. WaitsExist' /\ \E rank \in [TaskIds -> Nat] : Ranked(rank)'
    BY <1>1, <2>1, RowWaits DEF CircleInv
  <2>4. \A x \in TaskIds : task'[x] = task[x] \/ (x = t /\ task'[x] = row)
    BY <2>1, Saved DEF TypeInv
  <2>5. HeldWaits'
    BY <1>1, <2>1, <2>4, HeldStays DEF CircleInv
  <2>6. \A y \in Agents : agent'[y].pc \in {"new", "save"} =>
            agent'[y] = agent[y] /\ task'[AgentTask[y]] = None
    <3> SUFFICES ASSUME NEW y \in Agents, agent'[y].pc \in {"new", "save"}
                 PROVE  agent'[y] = agent[y] /\ task'[AgentTask[y]] = None
      OBVIOUS
    <3>1. y # a /\ agent'[y] = agent[y]
      BY <2>2
    <3>2. AgentTask[y] # t
      BY <3>1, TasksAssumption
    <3>3. task[AgentTask[y]] = None /\ AgentTask[y] \in TaskIds
      BY <1>0, <3>1 DEF CircleInv, FreshOK
    <3> QED BY <2>4, <3>1, <3>2, <3>3
  <2>7. FreshOK'
    BY <1>1, <2>6, FreshStays DEF CircleInv
  <2> QED BY <2>3, <2>5, <2>7 DEF CircleInv
<1>4. ASSUME LinkTicket(a) \/ StopAgent(a) PROVE CircleInv'
  <2>1. UNCHANGED task
    BY <1>4 DEF LinkTicket, StopAgent
  <2>2. \A y \in Agents : agent'[y].pc \in {"new", "save"} => agent'[y] = agent[y]
    <3>1. \A y \in Agents \ {a} : agent'[y] = agent[y]
      BY <1>4, Steps, AgentMoves DEF LinkTicket, StopAgent
    <3>2. agent'[a].pc = "done"
      BY <1>4, Steps, AgentMoves DEF LinkTicket, StopAgent
    <3> QED BY <3>1, <3>2
  <2>3. \A y \in Agents : agent'[y].pc \in {"new", "save"} => task'[AgentTask[y]] = None
    BY <2>1, <2>2 DEF CircleInv, FreshOK
  <2>4. FreshOK'
    BY <1>1, <2>2, <2>3, FreshStays DEF CircleInv
  <2> QED BY <1>1, <2>1, <2>4 DEF CircleInv, WaitsExist, HeldWaits, Ranked
<1> QED BY <1>2, <1>3, <1>4 DEF Converting

LEMMA CircleStep == ASSUME TypeInv, CircleInv, [Next]_vars PROVE CircleInv'
<1>1. CASE UNCHANGED <<task, queue, worker, agent, remade>>
  BY <1>1, CircleStays DEF TypeInv
<1>2. CASE UNCHANGED vars \/ UNCHANGED taskVars
  BY <1>1, <1>2 DEF vars, taskVars
<1> QED BY <1>2, CircleWorks, CircleConverts DEF Next

LEMMA CircleStart == ASSUME Init PROVE CircleInv
<1>1. \A t \in TaskIds : task[t] # None => t \in DOMAIN Seeded /\ task[t].dep = None
  BY TasksAssumption DEF Init
<1>2. \A a \in Agents : task[AgentTask[a]] = None /\ agent[a].pc = "new"
  BY TasksAssumption DEF Init
<1>3. \A w \in Workers : worker[w].pc = "free" /\ Len(queue[w]) = 0
  BY DEF Init, Free
<1>4. FreshOK /\ WaitsExist /\ HeldWaits
  BY <1>1, <1>2, <1>3 DEF FreshOK, WaitsExist, HeldWaits
<1>5. Ranked([t \in TaskIds |-> 0])
  BY <1>1 DEF Ranked
<1> QED BY <1>4, <1>5 DEF CircleInv

\* A climb from t through tasks that were not remade goes down the ranks.
LEMMA ClimbsDown ==
  ASSUME TypeInv, NEW rank \in [TaskIds -> Nat], Ranked(rank), NEW t \in TaskIds, NEW n \in Nat,
         NEW up, up = [x \in {y \in TaskIds : task[y] # None} |-> task[x].dep],
         NEW at, at[0] = t, \A i \in Nat : at[i + 1] = Above(up, at[i]),
         t \notin remade, \A i \in 1 .. n : at[i] \notin remade
  PROVE  \A i \in 1 .. n : at[i] = None \/ (at[i] \in TaskIds /\ rank[at[i]] < rank[t])
<1> DEFINE Down(y) == y = None \/ (y \in TaskIds /\ rank[y] < rank[t])
           S == {i \in Nat : i + 1 <= n => Down(at[i + 1])}
<1>1. None \notin TaskIds /\ DOMAIN up \subseteq TaskIds
  BY TasksAssumption
<1>2. ASSUME NEW y \in TaskIds \ remade, rank[y] <= rank[t] PROVE Down(Above(up, y))
  <2>1. CASE y \notin DOMAIN up
    BY <2>1 DEF Above
  <2>2. CASE y \in DOMAIN up
    <3>1. task[y] # None /\ Above(up, y) = task[y].dep
      BY <2>2 DEF Above
    <3>2. task[y].dep \in TaskIds \cup {None}
      BY <3>1 DEF TypeInv, TypeOK, Row
    <3>3. CASE task[y].dep = None
      BY <3>1, <3>3
    <3>4. CASE task[y].dep # None
      <4>1. rank[task[y].dep] < rank[y] /\ task[y].dep \in TaskIds
        BY <3>1, <3>2, <3>4 DEF Ranked
      <4>2. rank[task[y].dep] \in Nat /\ rank[y] \in Nat /\ rank[t] \in Nat
        BY <4>1
      <4>3. rank[task[y].dep] < rank[t]
        BY <1>2, <4>1, <4>2
      <4> QED BY <3>1, <4>1, <4>3
    <3> QED BY <3>3, <3>4
  <2> QED BY <2>1, <2>2
<1>3. at[1] = Above(up, t)
  <2>1. 0 \in Nat /\ 0 + 1 = 1
    OBVIOUS
  <2>2. at[0 + 1] = Above(up, at[0])
    BY <2>1
  <2> QED BY <2>1, <2>2
<1>4. 0 \in S
  <2>1. rank[t] <= rank[t]
    <3>1. rank[t] \in Nat
      OBVIOUS
    <3> QED BY <3>1
  <2>2. Down(at[1])
    BY <1>2, <1>3, <2>1
  <2>3. 0 + 1 = 1
    OBVIOUS
  <2> QED BY <2>2, <2>3
<1>5. ASSUME NEW i \in Nat, i \in S PROVE i + 1 \in S
  <2> SUFFICES ASSUME (i + 1) + 1 <= n PROVE Down(at[(i + 1) + 1])
    OBVIOUS
  <2>1. i + 1 <= n /\ i + 1 \in 1 .. n /\ i + 1 \in Nat
    OBVIOUS
  <2> DEFINE y == at[i + 1]
  <2>2. Down(y) /\ at[(i + 1) + 1] = Above(up, y)
    BY <1>5, <2>1
  <2>3. y \notin remade
    BY <2>1
  <2> HIDE DEF y
  <2>4. CASE y = None
    BY <1>1, <2>2, <2>4 DEF Above
  <2>5. CASE y # None
    <3>1. y \in TaskIds \ remade /\ rank[y] < rank[t]
      BY <2>2, <2>3, <2>5
    <3>2. rank[y] <= rank[t]
      <4>1. rank[y] \in Nat /\ rank[t] \in Nat
        BY <3>1
      <4> QED BY <3>1, <4>1
    <3> QED BY <1>2, <2>2, <3>1, <3>2
  <2> QED BY <2>4, <2>5
<1> HIDE DEF S
<1>6. \A i \in Nat : i \in S
  BY <1>4, <1>5, NatInducts
<1> SUFFICES ASSUME NEW i \in 1 .. n PROVE Down(at[i])
  OBVIOUS
<1>7. i - 1 \in Nat /\ (i - 1) + 1 = i /\ i <= n
  OBVIOUS
<1> QED BY <1>6, <1>7 DEF S

LEMMA RankedCircles == ASSUME TypeInv, CircleInv PROVE CirclesAreRemade
<1> DEFINE rows == {x \in TaskIds : task[x] # None}
           up == [x \in rows |-> task[x].dep]
           n == Cardinality(DOMAIN up)
<1>1. n \in Nat
  <2>1. rows \subseteq TaskIds /\ DOMAIN up = rows
    OBVIOUS
  <2>2. IsFiniteSet(rows)
    BY <2>1, FS_Subset, TasksAssumption
  <2> HIDE DEF rows
  <2> QED BY <2>1, <2>2, FS_CardinalityType
<1>2. \A t : /\ Ancestor(up, t, 0) = t
             /\ \A i \in Nat : Ancestor(up, t, i + 1) = Above(up, Ancestor(up, t, i))
  BY AncestorClimbs
<1>3. ASSUME NEW t \in DOMAIN up, t \in AncestorsWithin(up, t, n)
      PROVE  (AncestorsWithin(up, t, n) \cap remade) # {}
  <2> SUFFICES ASSUME AncestorsWithin(up, t, n) \cap remade = {} PROVE FALSE
    OBVIOUS
  <2>1. t \in TaskIds /\ t \notin remade
    BY <1>3
  <2>2. PICK rank \in [TaskIds -> Nat] : Ranked(rank)
    BY DEF CircleInv
  <2>3. up = [x \in {y \in TaskIds : task[y] # None} |-> task[x].dep]
    OBVIOUS
  <2> HIDE DEF n, up
  <2>4. PICK i \in 1 .. n : t = Ancestor(up, t, i) /\ t # None
    BY <1>3 DEF AncestorsWithin
  <2>5. remade \subseteq TaskIds /\ None \notin TaskIds
    BY TasksAssumption DEF TypeInv, TypeOK
  <2> DEFINE at == [j \in Nat |-> Ancestor(up, t, j)]
  <2>6. /\ at[0] = t /\ \A j \in Nat : at[j + 1] = Above(up, at[j])
        /\ \A j \in 1 .. n : at[j] = Ancestor(up, t, j)
    BY <1>1, <1>2
  <2> HIDE DEF at
  <2>7. \A j \in 1 .. n : at[j] \notin remade
    BY <2>5, <2>6 DEF AncestorsWithin
  <2>8. \A j \in 1 .. n : at[j] = None \/ (at[j] \in TaskIds /\ rank[at[j]] < rank[t])
    BY <1>1, <2>1, <2>2, <2>3, <2>6, <2>7, ClimbsDown
  <2>9. rank[t] < rank[t] /\ rank[t] \in Nat
    BY <2>1, <2>2, <2>4, <2>6, <2>8
  <2> QED BY <2>9
<1> QED BY <1>3 DEF CirclesAreRemade

\* However creations, redeliveries, workers with old rows and conversions come
\* together: in every circle of tasks that wait for each other there is one
\* that was made over itself, or to wait for itself.
THEOREM CirclesRemade == Spec => []CirclesAreRemade
<1>1. Init => CircleInv
  BY CircleStart
<1>2. TypeInv /\ CircleInv /\ [Next]_vars => CircleInv'
  BY CircleStep
<1>3. TypeInv /\ CircleInv => CirclesAreRemade
  BY RankedCircles
<1> QED BY <1>1, <1>2, <1>3, TypeCorrect, PTL DEF Spec

=============================================================================
