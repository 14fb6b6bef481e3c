----------------------------- MODULE Dashboard -----------------------------
(***************************************************************************)
(* What the dashboard page reads of Tasks and Field.  GetStateForTenant    *)
(* reads thirteen tables at once, each in a transaction of its own,        *)
(* filters what it read by who is asking, and answers with what there is   *)
(* when one of the queries failed and stopped the others.  Meanwhile       *)
(* workers write tasks, technicians record their work and administrators   *)
(* move users to other managers.                                           *)
(*                                                                         *)
(* Three of the queries are modelled, those the filter and the comparison  *)
(* of the lists depend on: users, tasks and overdue tasks.  Timesheets go  *)
(* through the same filter; the other lists are answered as they are read. *)
(***************************************************************************)
EXTENDS Tasks, Field

CONSTANTS
    Late,      \* tasks whose due date is past
    FirstManager, \* manager_id of each user at first
    Moves,     \* users and new managers an administrator may send
    Viewers,   \* requests; also their bound
    ViewerOf   \* the user behind each

ASSUME DashboardAssumption ==
    /\ Late \subseteq TaskIds
    /\ FirstManager \in [Users -> Users \cup {None}]
    /\ Moves \subseteq Users \X (Users \cup {None})
    /\ ViewerOf \in [Viewers -> Users]

VARIABLES
    managerOf,  \* column manager_id of users
    moves,      \* history: moves made
    view,       \* what each request has read and has left to read
    entitled,   \* history: tasks in the viewer's team at some time of its request
    moved,      \* history: requests during which a user was moved
    wrote       \* history: requests during which a task was written

viewVars == <<managerOf, moves, view, entitled, moved, wrote>>

Queries == {"users", "tasks", "overdue"}
NoRows  == [x \in {} |-> None]
Unasked == [left |-> {"asked"}]

\* The rows of a table, as a query scans them.
Rows(tasks) == [t \in {x \in TaskIds : tasks[x] # None} |-> tasks[t]]

PageTypeOK ==
    /\ TypeOK
    /\ FieldTypeOK
    /\ managerOf \in [Users -> Users \cup {None}]
    /\ moves \in Nat
    /\ \A v \in Viewers : view[v] = Unasked \/
           /\ view[v].left \subseteq Queries
           /\ view[v].users \in {NoRows} \cup [Users -> Users \cup {None}]
           /\ \A list \in {view[v].tasks, view[v].overdue} :
                  DOMAIN list \subseteq TaskIds /\ \A t \in DOMAIN list : list[t] \in Row
           /\ view[v].failed \in BOOLEAN
    /\ entitled \in [Viewers -> SUBSET TaskIds]
    /\ moved \cup wrote \subseteq Viewers

ViewInit ==
    /\ managerOf = FirstManager
    /\ moves = 0
    /\ view = [v \in Viewers |-> Unasked]
    /\ entitled = [v \in Viewers |-> {}]
    /\ moved = {} /\ wrote = {}

Asked(v)    == view[v] # Unasked
Answered(v) == view[v] # Unasked /\ view[v].left = {}

-----------------------------------------------------------------------------
\* Whose tasks a user sees.

\* Faulty variant: somebody whose row was not read is in every team.
UnknownInTeam(managers, u, member) ==
    member \notin DOMAIN managers \/ IsSubordinateRecursive(managers, u, member)

\* The user and who is below, by the users that were read.
InTeam(managers, u, member) == IsSubordinateRecursive(managers, u, member)

\* Administrators see every task, the others the tasks they do or made, and
\* managers those of their team.
Sees(managers, u, row) ==
    \/ RoleOf[u] = "tenant_admin"
    \/ row.to = u
    \/ row.by = u
    \/ RoleOf[u] = "manager" /\ InTeam(managers, u, row.to)

Shown(v, list) == {t \in DOMAIN list : Sees(view[v].users, ViewerOf[v], list[t])}

-----------------------------------------------------------------------------

Ask(v) ==
    /\ view[v] = Unasked
    /\ view' = [view EXCEPT ![v] =
           [left |-> Queries, users |-> NoRows, tasks |-> NoRows, overdue |-> NoRows,
            failed |-> FALSE]]
    /\ UNCHANGED <<managerOf, moves>>

\* Faulty variant: finished tasks are overdue as well.
LateRows(t) == t \in Late

\* due_date < CURRENT_DATE AND status NOT IN ('Completed', 'Approved')
Overdue(t) == t \in Late /\ task[t].status \notin Finished

\* What a query scans.
Result(q) ==
    CASE q = "users"   -> managerOf
      [] q = "tasks"   -> Rows(task)
      [] q = "overdue" -> [t \in {x \in DOMAIN Rows(task) : Overdue(x)} |-> task[t]]

Query(v) ==
    \E q \in Queries :
        /\ Asked(v) /\ q \in view[v].left
        /\ view' = [view EXCEPT ![v].left = @ \ {q}, ![v][q] = Result(q)]
        /\ UNCHANGED <<managerOf, moves>>

\* A query fails and the context of the others is cancelled.
QueryFails(v) ==
    /\ Asked(v) /\ view[v].left # {}
    /\ view' = [view EXCEPT ![v].left = {}, ![v].failed = TRUE]
    /\ UNCHANGED <<managerOf, moves>>

\* UpdateUserManager: circles are not looked for.
Move(m) ==
    /\ managerOf' = [managerOf EXCEPT ![m[1]] = m[2]]
    /\ moves' = moves + 1
    /\ UNCHANGED view

\* Requests other than those of Tasks.
Others == moves + Cardinality({v \in Viewers : Asked(v)})
          + Len(sessions) + Len(jobEvents) + Cardinality({telemetry} \ {Unloaded})

\* What the histories see of a step.
Watch ==
    /\ entitled' = [v \in Viewers |->
           IF view'[v] = Unasked \/ Answered(v) THEN entitled[v]
           ELSE entitled[v] \cup {t \in DOMAIN Rows(task') :
                                     Sees(managerOf', ViewerOf[v], task'[t])}]
    /\ moved' = IF managerOf' # managerOf
                THEN moved \cup {v \in Viewers : Asked(v) /\ ~Answered(v)} ELSE moved
    /\ wrote' = IF task' # task
                THEN wrote \cup {v \in Viewers : Asked(v) /\ ~Answered(v)} ELSE wrote

Viewing ==
    /\ \/ \E v \in Viewers : Ask(v) \/ Query(v) \/ QueryFails(v)
       \/ \E m \in Moves : Move(m)
    /\ UNCHANGED <<vars, fieldVars>>

\* The requests of all components together are bounded.
PageNext ==
    /\ \/ Viewing
       \/ Next /\ UNCHANGED <<fieldVars, managerOf, moves, view>>
       \/ (Recording \/ Load \/ RunStatement) /\ UNCHANGED <<vars, managerOf, moves, view>>
    /\ (Requests + Others)' <= MaxRequests
    /\ Watch

PageInit == Init /\ FieldInit /\ ViewInit

PageSpec == PageInit /\ [][PageNext]_<<vars, fieldVars, viewVars>>

-----------------------------------------------------------------------------

\* GetStateForTenant "hierarchical permission-based filtering": a request is
\* shown a task only if its user was entitled to it at some time of the
\* request, even when the query of the users failed; unless a move and a write
\* both came between its queries, so that it combines a manager of one time
\* with an assignee of another.
ShowsOwnTeam ==
    \A v \in Viewers : Answered(v) =>
        \A t \in Shown(v, view[v].tasks) \cup Shown(v, view[v].overdue) :
            t \in entitled[v] \/ v \in moved \cap wrote

\* The overdue tasks of the answer.
OverdueAgrees ==
    \A v \in Viewers : Answered(v) /\ v \notin wrote /\ ~view[v].failed =>
        Shown(v, view[v].overdue) =
            {t \in Shown(v, view[v].tasks) : t \in Late /\ view[v].tasks[t].status \notin Finished}

\* The overdue tasks a request is shown are those of its tasks that are late
\* and not finished, and the telemetry counts what it lists, unless something
\* was written between two of the queries or one of them failed.
AnswersAgree == OverdueAgrees /\ TelemetryAgrees

=============================================================================
