------------------------------- MODULE Tasks -------------------------------
(***************************************************************************)
(* Tasks with their dependencies, timesheets and support tickets.  HTTP    *)
(* handlers publish commands to the stream of their process; its worker    *)
(* handles them one at a time, in order but for redeliveries, which the    *)
(* inbox does not keep from running again.  Two processes may share the    *)
(* database.  Every write of a task is an upsert of the whole row whose    *)
(* error is dropped.  A ticket becomes a task in an HTTP handler, and an   *)
(* approved timesheet posts its labour cost to the Ledger.                 *)
(*                                                                         *)
(* Users and the permissions of their roles do not change here; Identity   *)
(* has how they change.                                                    *)
(***************************************************************************)
EXTENDS Ledger, Roles, Sequences

CONSTANTS
    Users,        \* users of the tenant
    RoleOf,       \* the role of each
    RegionOf,     \* the region of each
    TaskIds,      \* task ids
    Seeded,       \* the tasks there are at first: a function to rows
    Sheets,       \* timesheets, all submitted
    SheetOf,      \* the task and the user of each
    Tickets,      \* open support tickets
    Agents,       \* requests that convert a ticket; also their bound
    AgentTask,    \* the fresh id each of them makes
    Workers,      \* the task worker of each process
    Bodies,       \* commands a client may send
    Conversions,  \* assignees, callers and dependencies of conversions
    MaxRequests,  \* bound: commands, conversions and reversals begun
    MaxDeliver,   \* deliveries of one message (5 in the code)
    MaxFaults     \* bound: failed statements, lost acknowledgements, stops

\* Statuses a client sends; the worker accepts any.
Statuses == {"Pending", "In_Progress", "Completed", "Approved"}
Finished == {"Completed", "Approved"}

Row == [status : Statuses, to : Users, by : Users, dep : TaskIds \cup {None},
        region : {RegionOf[u] : u \in Users}]

CreateTask   == [kind : {"create"}, task : TaskIds, to : Users, by : Users,
                 dep : TaskIds \cup {None}]
UpdateStatus == [kind : {"status"}, task : TaskIds, status : Statuses]
Approve      == [kind : {"approve"}, sheet : Sheets, by : Users]
Body         == CreateTask \cup UpdateStatus \cup Approve

ASSUME TasksAssumption ==
    /\ None \notin TaskIds \cup Users \cup Row
    /\ IsFiniteSet(TaskIds)
    /\ RoleOf \in [Users -> DefaultRoles]
    /\ DOMAIN Seeded \subseteq TaskIds
    /\ \A t \in DOMAIN Seeded : /\ Seeded[t] \in Row /\ Seeded[t].dep = None
                                /\ Seeded[t].status \notin Finished
    /\ SheetOf \in [Sheets -> [task : DOMAIN Seeded, user : Users]]
    /\ AgentTask \in [Agents -> TaskIds \ DOMAIN Seeded]
    /\ Bodies \subseteq Body
    /\ Conversions \subseteq [to : Users, by : Users, dep : TaskIds \cup {None}]
    /\ \A a, c \in Agents : AgentTask[a] = AgentTask[c] => a = c
    /\ Sheets \subseteq Postings /\ Users \subseteq Actors
    /\ {MaxRequests, MaxDeliver, MaxFaults} \subseteq Nat

VARIABLES
    task,      \* each task's row, or None
    sheet,     \* status and approver of each timesheet
    ticket,    \* status and task of each ticket
    queue,     \* the stream of each process: commands and their deliveries
    worker,    \* what each worker has read of the command it handles
    agent,     \* where each conversion is
    faults,    \* history: faults so far
    finished,  \* history: tasks saved as finished, whose pending invoice
               \* notes went to reconciliation with that
    unchecked, \* history: tasks started although the check's read failed
    remade,    \* history: tasks made over themselves, or waiting for themselves
    unsaved    \* history: tasks a save of which was dropped

taskVars == <<task, sheet, ticket, queue, worker, agent, faults, finished,
              unchecked, remade, unsaved>>
vars     == <<ledgerVars, taskVars>>

Free == [pc |-> "free"]
Busy == [pc : {"read", "checked"}, n : 1 .. MaxRequests, row : Row]

TypeOK ==
    /\ LedgerTypeOK
    /\ task   \in [TaskIds -> Row \cup {None}]
    /\ sheet  \in [Sheets -> [status : {"Submitted", "Approved"}, by : Users \cup {None}]]
    /\ ticket \in [Tickets -> [status : {"Open", "Converted"}, task : TaskIds \cup {None}]]
    /\ queue  \in [Workers -> Seq([body : Bodies, tries : 0 .. MaxDeliver, settled : BOOLEAN])]
    /\ worker \in [Workers -> Busy \cup {Free}]
    /\ agent  \in [Agents -> [pc : {"new", "save", "link", "done"}, ticket : Tickets \cup {None},
                              row : Row \cup {None}]]
    /\ faults \in 0 .. MaxFaults
    /\ finished \cup unchecked \cup remade \cup unsaved \subseteq TaskIds

Init ==
    /\ LedgerInit
    /\ task = [t \in TaskIds |-> IF t \in DOMAIN Seeded THEN Seeded[t] ELSE None]
    /\ sheet = [s \in Sheets |-> [status |-> "Submitted", by |-> None]]
    /\ ticket = [k \in Tickets |-> [status |-> "Open", task |-> None]]
    /\ queue = [w \in Workers |-> << >>]
    /\ worker = [w \in Workers |-> Free]
    /\ agent = [a \in Agents |-> [pc |-> "new", ticket |-> None, row |-> None]]
    /\ faults = 0
    /\ finished = {} /\ unchecked = {} /\ remade = {} /\ unsaved = {}

-----------------------------------------------------------------------------
\* SaveTask.

\* Faulty variant: a task starts with the status of a ticket.
FirstStatusOpen == "Open"

\* Status of a new task.
FirstStatus == "Pending"

\* Faulty variant: depends_on is a column without a foreign key.
ReferencesAnything(t, dep) == TRUE

\* depends_on references a task, which may be the row itself.
References(t, dep) == dep = None \/ dep = t \/ task[dep] # None

\* ON CONFLICT (id) DO UPDATE SET every column.  A save that fails, in the
\* statement or on the key, is dropped and its caller goes on.
SaveTask(t, row, fails) ==
    IF fails \/ ~References(t, row.dep)
    THEN /\ unsaved' = unsaved \cup {t}
         /\ UNCHANGED <<task, finished>>
    ELSE /\ task' = [task EXCEPT ![t] = row]
         /\ finished' = IF row.status \in Finished THEN finished \cup {t} ELSE finished
         /\ UNCHANGED unsaved

\* Between 0 and 2 things go wrong in a step.
Faults(a, b) ==
    /\ faults' = faults + (IF a THEN 1 ELSE 0) + (IF b THEN 1 ELSE 0)
    /\ faults' <= MaxFaults

-----------------------------------------------------------------------------
\* Sending and delivering commands.

Commands == UNION {{<<w, n>> : n \in 1 .. Len(queue[w])} : w \in Workers}

Requests == Cardinality(Commands) + Cardinality({a \in Agents : agent[a].pc # "new"})
            + Cardinality({c \in Clerks : reversing[c] # Unread})

\* The ids a request can name: a conversion makes its own at random, after it has
\* read its request, and shows it when it saves the task.
Known == TaskIds \ {AgentTask[a] : a \in {x \in Agents : agent[x].pc \in {"new", "save"}}}

\* CreateTaskHandler, UpdateTaskStatusHandler, and the release of an approved
\* TIMESHEET_APPROVAL, behind the clearance of their route.
Publish(w, b) ==
    /\ b.kind \in {"create", "status"} => b.task \in Known
    /\ b.kind = "create" =>
           Cleared(DefaultParent, DefaultPermissions, RoleOf[b.by], {<<"tasks", "create">>})
    /\ queue' = [queue EXCEPT ![w] = Append(@, [body |-> b, tries |-> 0, settled |-> FALSE])]
    /\ UNCHANGED <<ledgerVars, task, sheet, ticket, worker, agent, faults, finished,
                   unchecked, remade, unsaved>>

\* The next command, or one whose acknowledgement did not arrive.
Deliverable(w, n) ==
    /\ worker[w] = Free
    /\ n \in 1 .. Len(queue[w])
    /\ ~queue[w][n].settled /\ queue[w][n].tries < MaxDeliver
    /\ \A m \in 1 .. n - 1 : queue[w][m].tries > 0

\* One delivery of command n, settled by Ack or Term unless that is lost.
Deliver(w, n, settled) ==
    queue' = [queue EXCEPT ![w][n] = [queue[w][n] EXCEPT !.tries = @ + 1, !.settled = settled]]

-----------------------------------------------------------------------------
\* The cases of consumeTasks.

\* The row a command makes, in the region of its sender.
NewTask(b) ==
    [status |-> FirstStatus, to |-> b.to, by |-> b.by, dep |-> b.dep, region |-> RegionOf[b.by]]

\* erp.tasks.task.cmd.create: the row is written whole whatever it was.
HandleCreate(w, n, fails, unacked) ==
    /\ Deliverable(w, n)
    /\ queue[w][n].body.kind = "create"
    /\ LET b == queue[w][n].body IN
       /\ SaveTask(b.task, NewTask(b), fails)
       /\ remade' = IF b.dep = b.task \/ task[b.task] # None
                    THEN remade \cup {b.task} ELSE remade
    /\ Deliver(w, n, ~unacked)
    /\ Faults(fails, unacked)
    /\ UNCHANGED <<ledgerVars, sheet, ticket, worker, agent, unchecked>>

\* erp.tasks.task.cmd.update_status: the row is read; a task that is missing,
\* or a read that fails, ends the command.
ReadTask(w, n, fails) ==
    /\ Deliverable(w, n)
    /\ queue[w][n].body.kind = "status"
    /\ LET t == queue[w][n].body.task IN
       IF fails \/ task[t] = None
       THEN Deliver(w, n, TRUE) /\ UNCHANGED worker
       ELSE /\ Deliver(w, n, FALSE)
            /\ worker' = [worker EXCEPT ![w] = [pc |-> "read", n |-> n, row |-> task[t]]]
    /\ Faults(fails, FALSE)
    /\ UNCHANGED <<ledgerVars, task, sheet, ticket, agent, finished, unchecked, remade, unsaved>>

\* A task that is started and depends on another has that one read: one that
\* is not finished ends the command, a read that fails does not.
CheckDependency(w, fails) ==
    /\ worker[w].pc = "read"
    /\ LET n == worker[w].n
           b == queue[w][n].body
           d == worker[w].row.dep
           checks == b.status = "In_Progress" /\ d # None
           unread == checks /\ (fails \/ task[d] = None)
       IN
       /\ fails => checks
       /\ IF checks /\ ~unread /\ task[d].status \notin Finished
          THEN /\ worker' = [worker EXCEPT ![w] = Free]
               /\ queue' = [queue EXCEPT ![w][n].settled = TRUE]
          ELSE /\ worker' = [worker EXCEPT ![w].pc = "checked"]
               /\ UNCHANGED queue
       /\ unchecked' = IF unread THEN unchecked \cup {b.task} ELSE unchecked
    /\ Faults(fails, FALSE)
    /\ UNCHANGED <<ledgerVars, task, sheet, ticket, agent, finished, remade, unsaved>>

\* Faulty variant: the status is written over the row there is by then.
StatusOf(b, read) == [task[b.task] EXCEPT !.status = b.status]

\* The row that was read, with the new status.
Updated(b, read) == [read EXCEPT !.status = b.status]

SaveStatus(w, fails, unacked) ==
    /\ worker[w].pc = "checked"
    /\ LET n == worker[w].n
           b == queue[w][n].body IN
       /\ SaveTask(b.task, Updated(b, worker[w].row), fails)
       /\ queue' = [queue EXCEPT ![w][n].settled = ~unacked]
    /\ worker' = [worker EXCEPT ![w] = Free]
    /\ Faults(fails, unacked)
    /\ UNCHANGED <<ledgerVars, sheet, ticket, agent, unchecked, remade>>

\* The approver commands the role of the timesheet's user and has the region
\* of its task.
MayApprove(s, u) ==
    /\ IsSubordinate(DefaultParent, RoleOf[u], RoleOf[SheetOf[s].user])
    /\ task[SheetOf[s].task].region = RegionOf[u]

\* The labour cost of the timesheet.
Cost(s, u) ==
    Post([posting |-> s, account |-> "LABOR_COST", side |-> "DEBIT",
          reversal |-> FALSE, actor |-> u])

\* ApproveTimesheetTransaction, whatever the status of the timesheet.
ApproveTimesheet(s, u) ==
    /\ sheet' = [sheet EXCEPT ![s] = [status |-> "Approved", by |-> u]]
    /\ Cost(s, u)

\* erp.tasks.timesheet.cmd.approve: any error ends the command.
HandleApprove(w, n, fails, unacked) ==
    /\ Deliverable(w, n)
    /\ queue[w][n].body.kind = "approve"
    /\ LET s == queue[w][n].body.sheet
           u == queue[w][n].body.by IN
       IF fails \/ ~MayApprove(s, u)
       THEN UNCHANGED <<sheet, ledger>>
       ELSE ApproveTimesheet(s, u)
    /\ Deliver(w, n, ~unacked)
    /\ Faults(fails, unacked)
    /\ UNCHANGED <<reversing, task, ticket, worker, agent, finished, unchecked, remade, unsaved>>

\* The process stops: what its worker has read is gone.
StopWorker(w) ==
    /\ worker[w] # Free
    /\ worker' = [worker EXCEPT ![w] = Free]
    /\ Faults(TRUE, FALSE)
    /\ UNCHANGED <<ledgerVars, task, sheet, ticket, queue, agent, finished, unchecked,
                   remade, unsaved>>

-----------------------------------------------------------------------------
\* ConvertTicketToTask.

\* Faulty variant: the ticket is linked before the task is saved.
LinkFirst == <<"link", "save">>

\* The task is saved first, then the ticket linked.
ConvertOrder == <<"save", "link">>

\* What follows step pc.
After(pc) == IF ConvertOrder[1] = pc THEN ConvertOrder[2] ELSE "done"

\* The row a ticket becomes, in the region of its assignee.
TicketTask(x) ==
    [status |-> FirstStatus, to |-> x.to, by |-> x.by, dep |-> x.dep, region |-> RegionOf[x.to]]

\* The ticket is read, and its status is not looked at.
BeginConvert(a, k, x) ==
    /\ agent[a].pc = "new"
    /\ x.dep \in Known \cup {None}
    /\ agent' = [agent EXCEPT ![a] =
           [pc |-> ConvertOrder[1], ticket |-> k, row |-> TicketTask(x)]]
    /\ UNCHANGED <<ledgerVars, task, sheet, ticket, queue, worker, faults, finished,
                   unchecked, remade, unsaved>>

SaveTicketTask(a, fails) ==
    /\ agent[a].pc = "save"
    /\ SaveTask(AgentTask[a], agent[a].row, fails)
    /\ agent' = [agent EXCEPT ![a].pc = After("save")]
    /\ Faults(fails, FALSE)
    /\ UNCHANGED <<ledgerVars, sheet, ticket, queue, worker, unchecked, remade>>

\* ConvertTicketToTaskTransaction: task_id is a column without a foreign key.
LinkTicket(a) ==
    /\ agent[a].pc = "link"
    /\ ticket' = [ticket EXCEPT ![agent[a].ticket] =
                     [status |-> "Converted", task |-> AgentTask[a]]]
    /\ agent' = [agent EXCEPT ![a].pc = After("link")]
    /\ UNCHANGED <<ledgerVars, task, sheet, queue, worker, faults, finished, unchecked,
                   remade, unsaved>>

\* The process stops, or the update of the ticket fails.
StopAgent(a) ==
    /\ agent[a].pc \in {"save", "link"}
    /\ agent' = [agent EXCEPT ![a].pc = "done"]
    /\ Faults(TRUE, FALSE)
    /\ UNCHANGED <<ledgerVars, task, sheet, ticket, queue, worker, finished, unchecked,
                   remade, unsaved>>

-----------------------------------------------------------------------------

Working(w) ==
    \/ Requests < MaxRequests /\ \E b \in Bodies : Publish(w, b)
    \/ \E n \in 1 .. MaxRequests, fails, unacked \in BOOLEAN :
          HandleCreate(w, n, fails, unacked) \/ HandleApprove(w, n, fails, unacked)
    \/ \E n \in 1 .. MaxRequests, fails \in BOOLEAN : ReadTask(w, n, fails)
    \/ \E fails \in BOOLEAN : CheckDependency(w, fails)
    \/ \E fails, unacked \in BOOLEAN : SaveStatus(w, fails, unacked)
    \/ StopWorker(w)

\* The caller is cleared for users:* and creates the task.
Converting(a) ==
    \/ \E k \in Tickets, x \in Conversions :
          /\ Requests < MaxRequests
          /\ Cleared(DefaultParent, DefaultPermissions, RoleOf[x.by], {<<"users", "*">>})
          /\ BeginConvert(a, k, x)
    \/ \E fails \in BOOLEAN : SaveTicketTask(a, fails)
    \/ LinkTicket(a)
    \/ StopAgent(a)

Reversing(c) ==
    \/ Requests < MaxRequests /\ \E e \in ledger : BeginReverse(c, e)
    \/ FinishReverse(c)
    \/ AbandonReverse(c)

Next ==
    \/ \E w \in Workers : Working(w)
    \/ \E a \in Agents : Converting(a)
    \/ \E c \in Clerks : Reversing(c) /\ UNCHANGED taskVars

Spec == Init /\ [][Next]_vars

-----------------------------------------------------------------------------

\* IMPLEMENTATION_PROMPT.md: "A task with a `depends_on` set cannot transition
\* to `In_Progress` until the task it depends on is `Completed` or
\* `Approved`".  A task that is in progress waits for nothing but tasks that
\* were finished once, however workers, redelivered creations and failed saves
\* come between its check and its save, unless the check's read failed.
DependencyRespected ==
    \A t \in TaskIds :
        task[t] # None /\ task[t].status = "In_Progress" =>
            task[t].dep \in {None} \cup finished \/ t \in unchecked

\* SaveTask upserts depends_on as it is sent: tasks that wait for each other
\* in a circle, which nothing can start any more, come only from a task made
\* over itself by a second creation, or made to wait for itself.
CirclesAreRemade ==
    LET up == [t \in {x \in TaskIds : task[x] # None} |-> task[t].dep] IN
    \A t \in DOMAIN up :
        LET beyond == AncestorsWithin(up, t, Cardinality(DOMAIN up)) IN
        t \in beyond => (beyond \cap remade) # {}

\* V9_BUSINESS_LEDGER.md: "Corrections use compensating reversal entries".  A
\* timesheet is approved exactly when its labour cost is posted, once, however
\* many commands, deliveries and approvers there are; and that entry is
\* reversed once at most, on its other side, although the reversal looks for no
\* earlier one.  A reversal does not make the cost postable again.
LabourCostedOnce ==
    \A s \in Sheets :
        /\ Cardinality(EntriesOf(s, FALSE)) = IF sheet[s].status = "Approved" THEN 1 ELSE 0
        /\ Cardinality(EntriesOf(s, TRUE)) <= 1
        /\ \A r \in EntriesOf(s, TRUE) :
               \E e \in EntriesOf(s, FALSE) : r = ReversalOf(e, r.actor)

\* ConvertTicketToTask answers "Ticket converted to task successfully": the
\* task a converted ticket names exists, unless the save of it was dropped,
\* and the other tasks made of the ticket are left behind by an earlier
\* conversion or one that stopped.
TicketNamesItsTask ==
    /\ \A k \in Tickets : ticket[k].status = "Converted" =>
           task[ticket[k].task] # None \/ ticket[k].task \in unsaved
    /\ \A a \in Agents : agent[a].pc = "done" /\ task[AgentTask[a]] # None =>
           faults > 0 \/ ticket[agent[a].ticket].status = "Converted"

=============================================================================
