-------------------------- MODULE DashboardProofs --------------------------
(***************************************************************************)
(* Theorems about Dashboard, for any users, tasks and requests: what it    *)
(* reads is what Tasks promises, and what it shows is what its reader may  *)
(* see.                                                                    *)
(***************************************************************************)
EXTENDS Dashboard, TasksProofs, SequenceTheorems

\* The page writes no task: Dashboard implements Tasks, so what holds of Tasks
\* holds while dashboards are read.
THEOREM PageImplementsTasks == PageSpec => Spec
<1>1. PageInit => Init
  BY DEF PageInit
<1>2. [PageNext]_<<vars, fieldVars, viewVars>> => [Next]_vars
  BY DEF PageNext, Viewing
<1> QED BY <1>1, <1>2, PTL DEF PageSpec, Spec

\* The promises of Tasks, in the composition that is model-checked.
THEOREM TasksWhileRead ==
  PageSpec => [](/\ DependencyRespected /\ CirclesAreRemade
                 /\ LabourCostedOnce /\ TicketNamesItsTask)
BY PageImplementsTasks, DependenciesRespected, CirclesRemade, LabourOnce, TicketsNameTasks, PTL

-----------------------------------------------------------------------------
\* Managers that were not read.

\* Without rows there is nobody above a user.
LEMMA NobodyAbove ==
  ASSUME NEW x, NEW i \in Nat \ {0}
  PROVE  Ancestor(NoRows, x, i) = None
<1> DEFINE Climb(f) == [k \in Nat |->
               IF k = 0 THEN x
               ELSE IF f[k - 1] \in DOMAIN NoRows THEN NoRows[f[k - 1]] ELSE None]
           g == [k \in Nat |-> IF k = 0 THEN x ELSE None]
           f == CHOOSE h : h = Climb(h)
<1>1. DOMAIN NoRows = {}
  BY DEF NoRows
<1>2. g = Climb(g)
  BY <1>1
<1>3. f = Climb(f)
  BY <1>2
<1>4. f[i] = None
  BY <1>1, <1>3
<1>5. Ancestor(NoRows, x, i) = f[i]
  BY DEF Ancestor
<1> QED BY <1>4, <1>5


\* What a user sees without the users, they see with them.
LEMMA SeesWithout ==
  ASSUME NEW managers, NEW u \in Users, NEW row, Sees(NoRows, u, row)
  PROVE  Sees(managers, u, row)
<1>1. None \notin Users
  BY TasksAssumption
<1>2. AncestorsWithin(NoRows, row.to, 10) = {}
  <2>1. \A i \in 1 .. 10 : Ancestor(NoRows, row.to, i) = None
    BY NobodyAbove
  <2> QED BY <2>1 DEF AncestorsWithin
<1>3. InTeam(NoRows, u, row.to) => InTeam(managers, u, row.to)
  BY <1>2 DEF InTeam, IsSubordinateRecursive
<1> QED BY <1>3 DEF Sees

-----------------------------------------------------------------------------
\* What is known of a request.

Lists == UNION {[S -> Row] : S \in SUBSET TaskIds}

View == [left : SUBSET Queries, users : {NoRows} \cup [Users -> Users \cup {None}],
         tasks : Lists, overdue : Lists, failed : BOOLEAN]

\* The late tasks of a list.
LateOf(list) ==
    [t \in {x \in DOMAIN list : x \in Late /\ list[x].status \notin Finished} |-> list[t]]

Asking(v) == Asked(v) /\ ~Answered(v)

\* The rows of a list that are in the team by some managers were entitled.
Within(v, managers, list) ==
    \A t \in DOMAIN list : Sees(managers, ViewerOf[v], list[t]) => t \in entitled[v]

\* A list is of rows there are.
Current(list) == \A t \in DOMAIN list : t \in DOMAIN Rows(task) /\ list[t] = task[t]

\* While it reads, and nobody was moved, the users it read are those there
\* are; and while nothing was written, the rows are.
AskingOK(v) ==
    Asking(v) =>
        /\ view[v].failed = FALSE
        /\ Within(v, managerOf, Rows(task))
        /\ v \notin moved =>
               /\ view[v].users \in {NoRows, managerOf}
               /\ Within(v, managerOf, view[v].tasks) /\ Within(v, managerOf, view[v].overdue)
        /\ v \notin wrote =>
               /\ Current(view[v].tasks) /\ Current(view[v].overdue)
               /\ Within(v, view[v].users, Rows(task))
               /\ "tasks" \notin view[v].left => view[v].tasks = Rows(task)
               /\ "overdue" \notin view[v].left => view[v].overdue = LateOf(Rows(task))

AnsweredOK(v) ==
    Answered(v) =>
        /\ v \notin moved \cap wrote =>
               /\ Within(v, view[v].users, view[v].tasks)
               /\ Within(v, view[v].users, view[v].overdue)
        /\ v \notin wrote /\ view[v].failed = FALSE => view[v].overdue = LateOf(view[v].tasks)

ViewTypeOK ==
    /\ managerOf \in [Users -> Users \cup {None}]
    /\ moves \in Nat
    /\ view \in [Viewers -> {Unasked} \cup View]
    /\ entitled \in [Viewers -> SUBSET TaskIds]
    /\ moved \cup wrote \subseteq Viewers

ViewInv == TypeOK /\ ViewTypeOK /\ \A v \in Viewers : AskingOK(v) /\ AnsweredOK(v)

-----------------------------------------------------------------------------

LEMMA Rowwise ==
  ASSUME TypeOK
  PROVE  /\ DOMAIN Rows(task) \subseteq TaskIds
         /\ Rows(task) \in Lists /\ LateOf(Rows(task)) \in Lists
         /\ Current(Rows(task)) /\ Current(LateOf(Rows(task)))
         /\ LateOf(Rows(task)) = [t \in {x \in DOMAIN Rows(task) : Overdue(x)} |-> task[t]]
<1> DEFINE S == {x \in TaskIds : task[x] # None}
           L == {x \in S : x \in Late /\ task[x].status \notin Finished}
<1>1. DOMAIN Rows(task) = S /\ \A t \in S : Rows(task)[t] = task[t]
  BY DEF Rows
<1>2. \A t \in S : task[t] \in Row
  BY DEF TypeOK
<1>3. Rows(task) \in [S -> Row]
  BY <1>2 DEF Rows
<1>4. LateOf(Rows(task)) = [t \in L |-> task[t]]
  BY <1>1 DEF LateOf
<1>5. LateOf(Rows(task)) \in [L -> Row]
  BY <1>2, <1>4
<1>6. S \in SUBSET TaskIds /\ L \in SUBSET TaskIds
  OBVIOUS
<1>7. {x \in S : Overdue(x)} = L
  BY DEF Overdue
<1>8. Rows(task) \in Lists /\ LateOf(Rows(task)) \in Lists
  <2> HIDE DEF S, L
  <2> QED BY <1>3, <1>5, <1>6 DEF Lists
<1>9. Current(Rows(task)) /\ Current(LateOf(Rows(task)))
  BY <1>1, <1>4 DEF Current
<1>10. LateOf(Rows(task)) = [t \in {x \in DOMAIN Rows(task) : Overdue(x)} |-> task[t]]
  <2> HIDE DEF S, L
  <2> QED BY <1>1, <1>4, <1>7
<1> QED BY <1>1, <1>8, <1>9, <1>10

\* The histories while a request reads, and once it has its answer.
LEMMA Watching ==
  ASSUME ViewTypeOK, Watch, TypeOK', NEW v \in Viewers
  PROVE  /\ entitled' \in [Viewers -> SUBSET TaskIds]
         /\ moved' \cup wrote' \subseteq Viewers
         /\ view'[v] = Unasked \/ Answered(v) => entitled'[v] = entitled[v]
         /\ ~Asking(v) =>
               /\ v \in moved' <=> v \in moved
               /\ v \in wrote' <=> v \in wrote
         /\ view'[v] # Unasked /\ ~Answered(v) =>
               entitled[v] \subseteq entitled'[v] /\ Within(v, managerOf, Rows(task))'
         /\ moved \subseteq moved' /\ wrote \subseteq wrote'
         /\ Asking(v) => /\ managerOf' = managerOf \/ v \in moved'
                         /\ task' = task \/ v \in wrote'
         /\ managerOf' = managerOf => moved' = moved
         /\ task' = task => wrote' = wrote
<1>1. DOMAIN Rows(task') \subseteq TaskIds
  BY DEF Rows
<1>2. entitled' \in [Viewers -> SUBSET TaskIds]
  BY <1>1 DEF Watch, ViewTypeOK
<1>3. moved' \cup wrote' \subseteq Viewers /\ moved \subseteq moved' /\ wrote \subseteq wrote'
  BY DEF Watch, ViewTypeOK
<1>4. view'[v] = Unasked \/ Answered(v) => entitled'[v] = entitled[v]
  BY DEF Watch, ViewTypeOK
<1>5. view'[v] # Unasked /\ ~Answered(v) =>
         entitled[v] \subseteq entitled'[v] /\ Within(v, managerOf, Rows(task))'
  <2> SUFFICES ASSUME view'[v] # Unasked, ~Answered(v)
               PROVE  entitled[v] \subseteq entitled'[v] /\ Within(v, managerOf, Rows(task))'
    OBVIOUS
  <2>1. entitled'[v] = entitled[v] \cup {t \in DOMAIN Rows(task') :
                                     Sees(managerOf', ViewerOf[v], task'[t])}
    BY DEF Watch
  <2>2. \A t \in DOMAIN Rows(task') : Rows(task')[t] = task'[t]
    BY DEF Rows
  <2> QED BY <2>1, <2>2 DEF Within
<1>6. Asking(v) => (managerOf' = managerOf \/ v \in moved') /\ (task' = task \/ v \in wrote')
  BY DEF Watch, Asking
<1>7. (managerOf' = managerOf => moved' = moved) /\ (task' = task => wrote' = wrote)
  BY DEF Watch
<1>8. ~Asking(v) => (v \in moved' <=> v \in moved) /\ (v \in wrote' <=> v \in wrote)
  BY DEF Watch, Asking
<1> QED BY <1>2, <1>3, <1>4, <1>5, <1>6, <1>7, <1>8


\* A step that is not of a request keeps what is known of it.
LEMMA BystanderKeeps ==
  ASSUME ViewInv, TypeOK', Watch, NEW v \in Viewers, view'[v] = view[v]
  PROVE  AskingOK(v)' /\ AnsweredOK(v)'
<1>1. /\ AskingOK(v) /\ AnsweredOK(v) /\ ViewTypeOK
      /\ Asking(v)' <=> Asking(v)
      /\ Answered(v)' <=> Answered(v)
  BY DEF ViewInv, Asking, Asked, Answered
<1>2. CASE Asking(v)
  <2>1. view'[v] # Unasked /\ ~Answered(v) /\ ~Answered(v)'
    BY <1>1, <1>2 DEF Asking, Asked
  <2>2. /\ entitled[v] \subseteq entitled'[v] /\ Within(v, managerOf, Rows(task))'
        /\ moved \subseteq moved' /\ wrote \subseteq wrote'
        /\ managerOf' = managerOf \/ v \in moved'
        /\ task' = task \/ v \in wrote'
    BY <1>1, <1>2, <2>1, Watching
  <2>3. \A managers, list : Within(v, managers, list) =>
           \A t \in DOMAIN list : Sees(managers, ViewerOf[v], list[t]) => t \in entitled'[v]
    BY <2>2 DEF Within
  <2>4. v \notin moved' =>
           /\ view'[v].users \in {NoRows, managerOf'}
           /\ Within(v, managerOf, view[v].tasks)' /\ Within(v, managerOf, view[v].overdue)'
    BY <1>1, <1>2, <2>2, <2>3 DEF AskingOK, Within
  <2>5. v \notin wrote' =>
           /\ Current(view[v].tasks)' /\ Current(view[v].overdue)'
           /\ Within(v, view[v].users, Rows(task))'
           /\ "tasks" \notin view'[v].left => view'[v].tasks = Rows(task)'
           /\ "overdue" \notin view'[v].left => view'[v].overdue = LateOf(Rows(task))'
    <3> SUFFICES ASSUME v \notin wrote'
                 PROVE  /\ Current(view[v].tasks)' /\ Current(view[v].overdue)'
                        /\ Within(v, view[v].users, Rows(task))'
                        /\ "tasks" \notin view'[v].left => view'[v].tasks = Rows(task)'
                        /\ "overdue" \notin view'[v].left => view'[v].overdue = LateOf(Rows(task))'
      OBVIOUS
    <3>1. task' = task /\ v \notin wrote
      BY <2>2
    <3>2. Rows(task)' = Rows(task) /\ LateOf(Rows(task))' = LateOf(Rows(task))
      BY <3>1 DEF Rows, LateOf
    <3>3. Current(view[v].tasks)' /\ Current(view[v].overdue)'
      BY <1>1, <1>2, <3>1, <3>2 DEF AskingOK, Current
    <3>4. Within(v, view[v].users, Rows(task))'
      BY <1>1, <1>2, <2>3, <3>1, <3>2 DEF AskingOK, Within
    <3> QED BY <1>1, <1>2, <3>1, <3>2, <3>3, <3>4 DEF AskingOK
  <2>6. view'[v].failed = FALSE
    BY <1>1, <1>2 DEF AskingOK
  <2>7. AskingOK(v)'
    BY <2>2, <2>4, <2>5, <2>6 DEF AskingOK
  <2> QED BY <2>1, <2>7 DEF AnsweredOK
<1>3. CASE ~Asking(v)
  <2>1. AskingOK(v)'
    BY <1>1, <1>3 DEF AskingOK
  <2>2. CASE Answered(v)
    <3>1. /\ entitled'[v] = entitled[v]
          /\ v \in moved' <=> v \in moved
          /\ v \in wrote' <=> v \in wrote
      BY <1>1, <1>3, <2>2, Watching
    <3>2. AnsweredOK(v)'
      BY <1>1, <2>2, <3>1 DEF AnsweredOK, Within
    <3> QED BY <2>1, <3>2
  <2>3. CASE ~Answered(v)
    BY <1>1, <2>1, <2>3 DEF AnsweredOK
  <2> QED BY <2>2, <2>3
<1> QED BY <1>2, <1>3

\* A request that is made has read nothing.
LEMMA AskKeeps ==
  ASSUME ViewInv, TypeOK', Watch, UNCHANGED task, NEW v \in Viewers, Ask(v)
  PROVE  ViewTypeOK' /\ AskingOK(v)' /\ AnsweredOK(v)'
<1> DEFINE new == [left |-> Queries, users |-> NoRows, tasks |-> NoRows, overdue |-> NoRows,
                   failed |-> FALSE]
<1>1. view[v] = Unasked /\ view' = [view EXCEPT ![v] = new] /\ UNCHANGED <<managerOf, moves>>
  BY DEF Ask
<1>2. new \in View
  <2>1. NoRows \in Lists
    <3>1. NoRows \in [{} -> Row] /\ {} \in SUBSET TaskIds
      BY DEF NoRows
    <3> QED BY <3>1 DEF Lists
  <2> QED BY <2>1 DEF View
<1>3. /\ new.left = Queries /\ new.users = NoRows /\ new.tasks = NoRows
      /\ new.overdue = NoRows /\ new.failed = FALSE /\ new # Unasked
  BY DEF Unasked, Queries
<1> HIDE DEF new
<1>4. view' \in [Viewers -> {Unasked} \cup View] /\ view'[v] = new
  BY <1>1, <1>2 DEF ViewInv, ViewTypeOK
<1>5. ~Answered(v) /\ Asking(v)' /\ ~Answered(v)'
  BY <1>1, <1>3, <1>4 DEF Answered, Asking, Asked, Queries
<1>6. /\ entitled' \in [Viewers -> SUBSET TaskIds] /\ moved' \cup wrote' \subseteq Viewers
      /\ Within(v, managerOf, Rows(task))'
  <2>1. ViewTypeOK
    BY DEF ViewInv
  <2> QED BY <1>3, <1>4, <1>5, <2>1, Watching
<1>7. ViewTypeOK'
  BY <1>1, <1>4, <1>6 DEF ViewInv, ViewTypeOK
<1>8. AskingOK(v)'
  <2>1. DOMAIN NoRows = {}
    BY DEF NoRows
  <2>2. Within(v, NoRows, Rows(task))'
    <3>1. ViewerOf[v] \in Users
      BY DashboardAssumption
    <3> QED BY <1>6, <3>1, SeesWithout DEF Within
  <2> QED BY <1>3, <1>4, <1>6, <2>1, <2>2 DEF AskingOK, Within, Current, Queries
<1> QED BY <1>5, <1>7, <1>8 DEF AnsweredOK

\* A request reads a table or stops reading.
LEMMA ReadingKeeps ==
  ASSUME ViewInv, TypeOK', Watch, UNCHANGED <<task, managerOf, moves>>,
         NEW v \in Viewers, Asking(v),
         NEW new \in View, view' = [view EXCEPT ![v] = new],
         new.users \in {view[v].users, managerOf},
         new.tasks \in {view[v].tasks, Rows(task)},
         new.overdue \in {view[v].overdue, LateOf(Rows(task))},
         new.failed = FALSE \/ new.left = {},
         new.failed = FALSE /\ "tasks" \notin new.left =>
             \/ new.tasks = Rows(task)
             \/ new.tasks = view[v].tasks /\ "tasks" \notin view[v].left,
         new.failed = FALSE /\ "overdue" \notin new.left =>
             \/ new.overdue = LateOf(Rows(task))
             \/ new.overdue = view[v].overdue /\ "overdue" \notin view[v].left
  PROVE  ViewTypeOK' /\ AskingOK(v)' /\ AnsweredOK(v)'
<1>1. AskingOK(v) /\ TypeOK /\ ViewTypeOK /\ ViewerOf[v] \in Users
  BY DashboardAssumption DEF ViewInv
<1>2. view' \in [Viewers -> {Unasked} \cup View] /\ view'[v] = new /\ new # Unasked
  <2>1. new # Unasked
    BY DEF View, Unasked, Queries
  <2> QED BY <1>1, <2>1 DEF ViewTypeOK
<1>3. Rows(task)' = Rows(task) /\ LateOf(Rows(task))' = LateOf(Rows(task))
  BY DEF Rows, LateOf
<1>4. /\ entitled' \in [Viewers -> SUBSET TaskIds] /\ moved' \cup wrote' \subseteq Viewers
      /\ entitled[v] \subseteq entitled'[v] /\ Within(v, managerOf, Rows(task))'
      /\ moved' = moved /\ wrote' = wrote
  <2>1. ~Answered(v)
    BY DEF Asking
  <2> QED BY <1>1, <1>2, <2>1, Watching
<1>5. ViewTypeOK'
  BY <1>1, <1>2, <1>4 DEF ViewTypeOK
<1>6. Within(v, managerOf, Rows(task)) /\ Within(v, managerOf, LateOf(Rows(task)))
  BY <1>1 DEF AskingOK, Within, LateOf
<1>7. v \notin moved => /\ new.users \in {NoRows, managerOf}
                        /\ Within(v, managerOf, new.tasks) /\ Within(v, managerOf, new.overdue)
  <2> HIDE DEF Within
  <2> QED BY <1>1, <1>6 DEF AskingOK
<1>8. v \notin wrote => /\ Current(new.tasks) /\ Current(new.overdue)
                        /\ Within(v, new.users, Rows(task))
  <2>1. Current(Rows(task)) /\ Current(LateOf(Rows(task)))
    BY <1>1, Rowwise
  <2> QED BY <1>1, <1>6, <2>1 DEF AskingOK
<1>9. v \notin wrote /\ new.failed = FALSE =>
         /\ "tasks" \notin new.left => new.tasks = Rows(task)
         /\ "overdue" \notin new.left => new.overdue = LateOf(Rows(task))
  BY <1>1 DEF AskingOK
<1>10. AskingOK(v)'
  <2> SUFFICES ASSUME Asking(v)' PROVE AskingOK(v)'
    BY DEF AskingOK
  <2>1. new.left # {} /\ new.failed = FALSE
    BY <1>2 DEF Asking, Answered
  <2>2. v \notin moved' => /\ view'[v].users \in {NoRows, managerOf'}
                           /\ Within(v, managerOf, view[v].tasks)'
                           /\ Within(v, managerOf, view[v].overdue)'
    BY <1>2, <1>4, <1>7 DEF Within
  <2>3. v \notin wrote' => /\ Current(view[v].tasks)' /\ Current(view[v].overdue)'
                           /\ Within(v, view[v].users, Rows(task))'
    BY <1>2, <1>3, <1>4, <1>8 DEF Within, Current
  <2>4. v \notin wrote' =>
           /\ "tasks" \notin view'[v].left => view'[v].tasks = Rows(task)'
           /\ "overdue" \notin view'[v].left => view'[v].overdue = LateOf(Rows(task))'
    BY <1>2, <1>3, <1>4, <1>9, <2>1
  <2> QED BY <1>2, <1>4, <2>1, <2>2, <2>3, <2>4 DEF AskingOK
<1>11. AnsweredOK(v)'
  <2> SUFFICES ASSUME Answered(v)' PROVE AnsweredOK(v)'
    BY DEF AnsweredOK
  <2>1. new.left = {}
    BY <1>2 DEF Answered
  <2>2. v \notin moved =>
           Within(v, new.users, new.tasks) /\ Within(v, new.users, new.overdue)
    BY <1>1, <1>7, SeesWithout DEF Within
  <2>3. v \notin wrote =>
           Within(v, new.users, new.tasks) /\ Within(v, new.users, new.overdue)
    <3>1. \A t \in DOMAIN Rows(task) : Rows(task)[t] = task[t]
      BY DEF Rows
    <3> QED BY <1>8, <3>1 DEF Within, Current
  <2>4. v \notin wrote /\ new.failed = FALSE => new.overdue = LateOf(new.tasks)
    BY <1>9, <2>1
  <2>5. v \notin moved' \cap wrote' =>
           Within(v, view[v].users, view[v].tasks)' /\ Within(v, view[v].users, view[v].overdue)'
    BY <1>2, <1>4, <2>2, <2>3 DEF Within
  <2>6. v \notin wrote' /\ view'[v].failed = FALSE => view'[v].overdue = LateOf(view[v].tasks)'
    BY <1>2, <1>4, <2>4 DEF LateOf
  <2> QED BY <2>5, <2>6 DEF AnsweredOK
<1> QED BY <1>5, <1>10, <1>11

LEMMA QueryKeeps ==
  ASSUME ViewInv, TypeOK', Watch, UNCHANGED task, NEW v \in Viewers, Query(v) \/ QueryFails(v)
  PROVE  ViewTypeOK' /\ AskingOK(v)' /\ AnsweredOK(v)'
<1> DEFINE old == view[v]
<1>1. /\ Asking(v) /\ UNCHANGED <<managerOf, moves>>
      /\ old \in View /\ old.failed = FALSE
  <2>1. Asking(v) /\ UNCHANGED <<managerOf, moves>>
    BY DEF Query, QueryFails, Asking, Asked, Answered
  <2>2. view[v] \in View
    BY <2>1 DEF ViewInv, ViewTypeOK, Asking, Asked
  <2>3. view[v].failed = FALSE
    BY <2>1 DEF ViewInv, AskingOK
  <2> QED BY <2>1, <2>2, <2>3
<1>2. TypeOK /\ ViewTypeOK
  BY DEF ViewInv
<1>3. /\ Rows(task) \in Lists /\ LateOf(Rows(task)) \in Lists
      /\ managerOf \in {NoRows} \cup [Users -> Users \cup {None}]
      /\ Result("users") = managerOf /\ Result("tasks") = Rows(task)
      /\ Result("overdue") = LateOf(Rows(task))
  BY <1>2, Rowwise DEF Result, ViewTypeOK
<1>4. CASE Query(v)
  <2>1. PICK q \in Queries : /\ q \in view[v].left
                             /\ view' = [view EXCEPT ![v].left = @ \ {q}, ![v][q] = Result(q)]
    BY <1>4 DEF Query
  <2> DEFINE new == [old EXCEPT !.left = @ \ {q}, ![q] = Result(q)]
  <2>2. view' = [view EXCEPT ![v] = new]
    <3> DEFINE r == Result(q)
    <3>1. view' = [view EXCEPT ![v].left = @ \ {q}, ![v][q] = r] /\ v \in DOMAIN view
      BY <1>2, <2>1 DEF ViewTypeOK
    <3> HIDE DEF r
    <3>2. view' = [view EXCEPT ![v] = [view[v] EXCEPT !.left = @ \ {q}, ![q] = r]]
      BY <3>1
    <3> QED BY <3>2 DEF r
  <2>3. /\ new \in View /\ new.left = old.left \ {q} /\ new.failed = FALSE
        /\ new.users = IF q = "users" THEN managerOf ELSE old.users
        /\ new.tasks = IF q = "tasks" THEN Rows(task) ELSE old.tasks
        /\ new.overdue = IF q = "overdue" THEN LateOf(Rows(task)) ELSE old.overdue
    <3> DEFINE r == Result(q)
    <3>1. /\ q = "users" => r = managerOf
          /\ q = "tasks" => r = Rows(task)
          /\ q = "overdue" => r = LateOf(Rows(task))
      BY <1>3
    <3> HIDE DEF r, old
    <3> DEFINE n == [old EXCEPT !.left = @ \ {q}, ![q] = r]
    <3>2. /\ n \in View /\ n.left = old.left \ {q} /\ n.failed = FALSE
          /\ n.users = IF q = "users" THEN managerOf ELSE old.users
          /\ n.tasks = IF q = "tasks" THEN Rows(task) ELSE old.tasks
          /\ n.overdue = IF q = "overdue" THEN LateOf(Rows(task)) ELSE old.overdue
      <4>1. CASE q = "users"
        BY <1>1, <1>3, <3>1, <4>1 DEF View
      <4>2. CASE q = "tasks"
        BY <1>1, <1>3, <3>1, <4>2 DEF View
      <4>3. CASE q = "overdue"
        BY <1>1, <1>3, <3>1, <4>3 DEF View
      <4> QED BY <4>1, <4>2, <4>3 DEF Queries
    <3> QED BY <3>2 DEF r
  <2> HIDE DEF new
  <2>4. /\ new.users \in {view[v].users, managerOf}
        /\ new.tasks \in {view[v].tasks, Rows(task)}
        /\ new.overdue \in {view[v].overdue, LateOf(Rows(task))}
        /\ new.failed = FALSE
    BY <2>3
  <2>5. "tasks" \notin new.left =>
           \/ new.tasks = Rows(task)
           \/ new.tasks = view[v].tasks /\ "tasks" \notin view[v].left
    BY <2>3
  <2>6. "overdue" \notin new.left =>
           \/ new.overdue = LateOf(Rows(task))
           \/ new.overdue = view[v].overdue /\ "overdue" \notin view[v].left
    BY <2>3
  <2>7. new \in View
    BY <2>3
  <2> HIDE DEF old
  <2> QED BY <1>1, <2>2, <2>4, <2>5, <2>6, <2>7, ReadingKeeps
<1>5. CASE QueryFails(v)
  <2> DEFINE new == [old EXCEPT !.left = {}, !.failed = TRUE]
  <2>1. view' = [view EXCEPT ![v] = new]
    BY <1>2, <1>5 DEF QueryFails, ViewTypeOK
  <2>2. /\ new \in View /\ new.left = {} /\ new.failed = TRUE
        /\ new.users = old.users /\ new.tasks = old.tasks /\ new.overdue = old.overdue
    <3> HIDE DEF old
    <3> QED BY <1>1 DEF View
  <2> HIDE DEF new
  <2> QED BY <1>1, <2>1, <2>2, ReadingKeeps
<1> QED BY <1>4, <1>5


LEMMA ViewStep == ASSUME ViewInv, TypeOK', [PageNext]_<<vars, fieldVars, viewVars>> PROVE ViewInv'
<1>1. ViewTypeOK
  BY DEF ViewInv
<1>2. ASSUME Watch, view' = view, managerOf' \in [Users -> Users \cup {None}], moves' \in Nat
      PROVE  ViewInv'
  <2>1. \A v \in Viewers : AskingOK(v)' /\ AnsweredOK(v)'
    BY <1>2, BystanderKeeps
  <2>2. entitled' \in [Viewers -> SUBSET TaskIds] /\ moved' \cup wrote' \subseteq Viewers
    BY <1>1, <1>2 DEF Watch, ViewTypeOK, Rows
  <2>3. ViewTypeOK'
    BY <1>1, <1>2, <2>2 DEF ViewTypeOK
  <2> QED BY <2>1, <2>3 DEF ViewInv
<1>3. ASSUME NEW v \in Viewers, Ask(v) \/ Query(v) \/ QueryFails(v), Watch, UNCHANGED task
      PROVE  ViewInv'
  <2>1. ViewTypeOK' /\ AskingOK(v)' /\ AnsweredOK(v)'
    BY <1>3, AskKeeps, QueryKeeps
  <2>2. ASSUME NEW x \in Viewers \ {v} PROVE AskingOK(x)' /\ AnsweredOK(x)'
    <3>1. view'[x] = view[x]
      <4>1. \E new : view' = [view EXCEPT ![v] = new]
        <5>1. CASE Ask(v)
          BY <5>1 DEF Ask
        <5>2. CASE Query(v)
          <6>1. PICK q \in Queries :
                   view' = [view EXCEPT ![v].left = @ \ {q}, ![v][q] = Result(q)]
            BY <5>2 DEF Query
          <6> DEFINE r == Result(q)
          <6>2. view' = [view EXCEPT ![v].left = @ \ {q}, ![v][q] = r] /\ v \in DOMAIN view
            BY <1>1, <6>1 DEF ViewTypeOK
          <6> HIDE DEF r
          <6>3. view' = [view EXCEPT ![v] = [view[v] EXCEPT !.left = @ \ {q}, ![q] = r]]
            BY <6>2
          <6> QED BY <6>3
        <5>3. CASE QueryFails(v)
          <6>1. view' = [view EXCEPT ![v] = [view[v] EXCEPT !.left = {}, !.failed = TRUE]]
            BY <1>1, <5>3 DEF QueryFails, ViewTypeOK
          <6> QED BY <6>1
        <5> QED BY <1>3, <5>1, <5>2, <5>3
      <4> QED BY <1>1, <4>1 DEF ViewTypeOK
    <3> QED BY <1>3, <3>1, BystanderKeeps
  <2> QED BY <2>1, <2>2 DEF ViewInv
<1>4. ASSUME NEW m \in Moves, Move(m), Watch PROVE ViewInv'
  <2>1. m \in Users \X (Users \cup {None})
    BY DashboardAssumption
  <2>2. /\ view' = view /\ moves' = moves + 1
        /\ managerOf' = [managerOf EXCEPT ![m[1]] = m[2]]
    BY <1>4 DEF Move
  <2>3. managerOf' \in [Users -> Users \cup {None}] /\ moves' \in Nat
    BY <1>1, <2>1, <2>2 DEF ViewTypeOK
  <2> QED BY <1>2, <1>4, <2>2, <2>3
<1>5. CASE PageNext
  <2>1. Watch
    BY <1>5 DEF PageNext
  <2>2. CASE Viewing
    <3>1. UNCHANGED task
      BY <2>2 DEF Viewing, vars, taskVars
    <3> QED BY <1>3, <1>4, <2>1, <2>2, <3>1 DEF Viewing
  <2>3. CASE UNCHANGED <<managerOf, moves, view>>
    BY <1>1, <1>2, <2>1, <2>3 DEF ViewTypeOK
  <2> QED BY <1>5, <2>2, <2>3 DEF PageNext
<1>6. CASE UNCHANGED <<vars, fieldVars, viewVars>>
  <2>1. UNCHANGED <<task, managerOf, moves, view, entitled, moved, wrote>>
    BY <1>6 DEF vars, taskVars, viewVars
  <2>2. ViewTypeOK'
    BY <1>1, <2>1 DEF ViewTypeOK
  <2>3. \A v \in Viewers : AskingOK(v)' /\ AnsweredOK(v)'
    <3> SUFFICES ASSUME NEW v \in Viewers PROVE AskingOK(v)' /\ AnsweredOK(v)'
      OBVIOUS
    <3>1. AskingOK(v) /\ AnsweredOK(v)
      BY DEF ViewInv
    <3>2. /\ Asking(v)' <=> Asking(v)
          /\ Answered(v)' <=> Answered(v)
      BY <2>1 DEF Asking, Asked, Answered
    <3>3. Rows(task)' = Rows(task) /\ LateOf(Rows(task))' = LateOf(Rows(task))
      BY <2>1 DEF Rows, LateOf
    <3>4. AskingOK(v)'
      BY <2>1, <3>1, <3>2, <3>3 DEF AskingOK, Within, Current
    <3>5. AnsweredOK(v)'
      BY <2>1, <3>1, <3>2 DEF AnsweredOK, Within, LateOf
    <3> QED BY <3>4, <3>5
  <2> QED BY <2>2, <2>3 DEF ViewInv
<1> QED BY <1>5, <1>6

LEMMA ViewStart == ASSUME PageInit, TypeOK PROVE ViewInv
<1>1. ViewTypeOK
  BY DashboardAssumption DEF PageInit, ViewInit, ViewTypeOK
<1>2. \A v \in Viewers : ~Asking(v) /\ ~Answered(v)
  BY DEF PageInit, ViewInit, Asking, Asked, Answered
<1> QED BY <1>1, <1>2 DEF ViewInv, AskingOK, AnsweredOK

LEMMA ViewInvariance == PageSpec => []ViewInv
<1>1. PageSpec => []TypeOK
  BY PageImplementsTasks, TypeCorrect, PTL
<1> QED BY <1>1, ViewStart, ViewStep, PTL DEF PageSpec

-----------------------------------------------------------------------------

\* GetStateForTenant shows a request only what its user was entitled to at
\* some time of it, although it reads users and tasks at different times and
\* answers when one of them was not read: the filter of a user without rows
\* shows no more than that with them.
THEOREM PageShowsOwnTeam == PageSpec => []ShowsOwnTeam
<1>1. ViewInv => ShowsOwnTeam
  BY DEF ViewInv, AnsweredOK, ShowsOwnTeam, Shown, Within
<1> QED BY <1>1, ViewInvariance, PTL

\* Of a request that nothing was written under, and none of whose queries
\* failed, the overdue tasks are those of its tasks that are late.
THEOREM PageOverdueAgrees == PageSpec => []OverdueAgrees
<1>1. ViewInv => OverdueAgrees
  <2> SUFFICES ASSUME ViewInv, NEW v \in Viewers, Answered(v), v \notin wrote, ~view[v].failed
               PROVE  Shown(v, view[v].overdue) =
                         {t \in Shown(v, view[v].tasks) :
                             t \in Late /\ view[v].tasks[t].status \notin Finished}
    BY DEF OverdueAgrees
  <2>1. view[v] \in View
    BY DEF ViewInv, ViewTypeOK, Answered
  <2>2. view[v].failed = FALSE
    <3>1. view[v].failed \in BOOLEAN
      BY <2>1 DEF View
    <3> QED BY <3>1, Zenon
  <2>3. view[v].overdue = LateOf(view[v].tasks)
    BY <2>2 DEF ViewInv, AnsweredOK
  <2> QED BY <2>3 DEF Shown, LateOf
<1> QED BY <1>1, ViewInvariance, PTL

-----------------------------------------------------------------------------
\* Telemetry.

\* The rows of a list that are among those counted.
Counted(rows, V) == {i \in DOMAIN rows : rows[i] \in V}

LEMMA CountedFinite ==
  ASSUME NEW T, NEW rows \in Seq(T), NEW V
  PROVE  /\ IsFiniteSet(Counted(rows, V)) /\ Cardinality(Counted(rows, V)) \in Nat
         /\ Counted(rows, V) \subseteq 1 .. Len(rows)
<1>1. Counted(rows, V) \subseteq 1 .. Len(rows) /\ Len(rows) \in Nat
  BY DEF Counted
<1>2. IsFiniteSet(1 .. Len(rows))
  BY <1>1, FS_Interval
<1>3. IsFiniteSet(Counted(rows, V))
  BY <1>1, <1>2, FS_Subset
<1> QED BY <1>1, <1>3, FS_CardinalityType

\* The newest rows are some of the rows, and all of them when they are fewer
\* than the limit.
LEMMA LatestCounted ==
  ASSUME NEW T, NEW rows \in Seq(T), NEW n \in Nat, NEW V
  PROVE  /\ Latest(rows, n) \in Seq(T)
         /\ Cardinality(Counted(Latest(rows, n), V)) <= Cardinality(Counted(rows, V))
         /\ Len(Latest(rows, n)) < n =>
               Cardinality(Counted(Latest(rows, n), V)) = Cardinality(Counted(rows, V))
<1>0. Len(rows) \in Nat /\ DOMAIN rows = 1 .. Len(rows)
  OBVIOUS
<1>1. CASE Len(rows) <= n
  <2>0. ~ (Len(rows) > n)
    BY <1>0, <1>1
  <2>1. Latest(rows, n) = SubSeq(rows, 1, Len(rows))
    BY <2>0, Zenon DEF Latest
  <2>2. Latest(rows, n) = rows
    BY <2>1, SubSeqFull
  <2>3. Cardinality(Counted(rows, V)) \in Nat
    BY CountedFinite
  <2> QED BY <2>2, <2>3
<1>2. CASE Len(rows) > n
  <2> DEFINE cut == Len(rows) - n
             last == Latest(rows, n)
             A == Counted(last, V)
             B == Counted(rows, V)
             f == [i \in A |-> i + cut]
  <2>0. last = SubSeq(rows, cut + 1, Len(rows))
    BY <1>2, Zenon DEF Latest
  <2> HIDE DEF last
  <2>1. cut \in Nat /\ cut + n = Len(rows)
    BY <1>0, <1>2
  <2> HIDE DEF cut
  <2>2. \A i \in cut + 1 .. Len(rows) : rows[i] \in T
    BY <1>0, <2>1
  <2>3. /\ last \in Seq(T)
        /\ Len(last) = n
        /\ \A i \in 1 .. n : last[i] = rows[i + cut]
    <3>1. /\ last \in Seq(T)
          /\ Len(last) = IF cut + 1 <= Len(rows) THEN Len(rows) - (cut + 1) + 1 ELSE 0
          /\ \A i \in 1 .. Len(rows) - (cut + 1) + 1 : last[i] = rows[(cut + 1) + i - 1]
      <4>1. cut + 1 \in Int /\ Len(rows) \in Int
        BY <1>0, <2>1
      <4> QED BY <2>0, <2>2, <4>1, SubSeqProperties
    <3>2. Len(rows) - (cut + 1) + 1 = n /\ (cut + 1 <= Len(rows) \/ n = 0)
      <4>1. \A a, b, c \in Nat : a + b = c => c - (a + 1) + 1 = b /\ (a + 1 <= c \/ b = 0)
        OBVIOUS
      <4> QED BY <1>0, <2>1, <4>1
    <3>3. \A i \in 1 .. n : (cut + 1) + i - 1 = i + cut
      BY <2>1
    <3> QED BY <3>1, <3>2, <3>3
  <2>4. f \in [A -> B]
    <3> SUFFICES ASSUME NEW i \in A PROVE i + cut \in B
      OBVIOUS
    <3>1. i \in 1 .. n /\ rows[i + cut] \in V
      BY <2>3 DEF Counted
    <3>2. i + cut \in 1 .. Len(rows)
      BY <1>0, <2>1, <3>1
    <3> QED BY <1>0, <3>1, <3>2 DEF Counted
  <2>5. \A i, j \in A : f[i] = f[j] => i = j
    <3>1. A \subseteq Int
      BY <2>3 DEF Counted
    <3> QED BY <2>1, <3>1
  <2>6. f \in Injection(A, B)
    BY <2>4, <2>5 DEF Injection, IsInjective
  <2>7. IsFiniteSet(B)
    BY CountedFinite
  <2>8. Cardinality(A) <= Cardinality(B)
    <3> HIDE DEF A, B, f
    <3> QED BY <2>6, <2>7, FS_Injection
  <2> QED BY <2>3, <2>8 DEF last
<1> QED BY <1>0, <1>1, <1>2

OpenSession == {x \in Session : x.status = "OPEN"}

LEMMA CountsAre ==
  /\ \A rows \in Seq(Session) : OpenRows(rows) = Counted(rows, OpenSession)
  /\ \A events : Signed(events) = Cardinality(Counted(events, {"CUSTOMER_SIGNED"}))
<1>1. ASSUME NEW rows \in Seq(Session) PROVE OpenRows(rows) = Counted(rows, OpenSession)
  <2>1. \A i \in DOMAIN rows : rows[i] \in Session
    OBVIOUS
  <2> QED BY <2>1 DEF OpenRows, Counted, OpenSession
<1>2. ASSUME NEW events PROVE Signed(events) = Cardinality(Counted(events, {"CUSTOMER_SIGNED"}))
  <2>1. {i \in DOMAIN events : events[i] = "CUSTOMER_SIGNED"} = Counted(events, {"CUSTOMER_SIGNED"})
    BY DEF Counted
  <2> QED BY <2>1 DEF Signed
<1> QED BY <1>1, <1>2

Telemetry == [next : 0 .. 5, attendance : Seq(Session), job_events : Seq(AllowedTypes),
              active : Nat, signed : Nat]

\* A user has one open session.
OneOpen ==
    \A i, j \in OpenRows(sessions) : sessions[i].user = sessions[j].user => i = j

\* What the answer says of sessions, and of events.
SessionsAgree ==
    LET listed == Cardinality(OpenRows(telemetry.attendance)) IN
    /\ listed <= telemetry.active
    /\ Len(telemetry.attendance) < ListLimit => listed = telemetry.active

EventsAgree ==
    /\ Signed(telemetry.job_events) <= telemetry.signed
    /\ Len(telemetry.job_events) < EventLimit => Signed(telemetry.job_events) = telemetry.signed

\* What was read is what there is while nothing was recorded, and agrees once
\* everything was read.
SessionsRead ==
    "session" \notin recorded =>
        /\ Loading /\ telemetry.next > 1 => telemetry.attendance = Latest(sessions, ListLimit)
        /\ Loading /\ telemetry.next > 3 => telemetry.active = Cardinality(OpenRows(sessions))
        /\ Loaded => SessionsAgree

EventsRead ==
    "event" \notin recorded =>
        /\ Loading /\ telemetry.next > 2 => telemetry.job_events = Latest(jobEvents, EventLimit)
        /\ Loaded => EventsAgree

FieldInv ==
    /\ sessions \in Seq(Session) /\ jobEvents \in Seq(AllowedTypes)
    /\ telemetry \in Telemetry
    /\ recorded \subseteq {"session", "event"}
    /\ OneOpen
    /\ telemetry.next > 3 => telemetry.active <= Cardinality(Technicians)
    /\ SessionsRead /\ EventsRead

LEMMA FourStatements ==
  /\ Len(Statements) = 4
  /\ Statements[1] = "attendance" /\ Statements[2] = "job_events"
  /\ Statements[3] = "telemetry_summary" /\ Statements[4] = "job_summary"
BY DEF Statements

\* There are no more open sessions than technicians.
LEMMA OpenFew ==
  ASSUME sessions \in Seq(Session), OneOpen
  PROVE  /\ Cardinality(OpenRows(sessions)) \in Nat
         /\ Cardinality(OpenRows(sessions)) <= Cardinality(Technicians)
<1> DEFINE A == OpenRows(sessions)
           f == [i \in A |-> sessions[i].user]
<1>1. \A i \in A : sessions[i].user \in Technicians
  <2>1. \A i \in DOMAIN sessions : sessions[i] \in Session
    OBVIOUS
  <2>2. A \subseteq DOMAIN sessions
    BY DEF OpenRows
  <2>3. \A x \in Session : x.user \in Technicians
    BY DEF Session
  <2> QED BY <2>1, <2>2, <2>3
<1>2. f \in Injection(A, Technicians)
  BY <1>1 DEF Injection, IsInjective, OneOpen
<1>3. Cardinality(A) <= Cardinality(Technicians)
  <2> HIDE DEF A, f
  <2> QED BY <1>2, FS_Injection, FieldAssumption
<1>4. Cardinality(A) \in Nat
  BY CountsAre, CountedFinite
<1> QED BY <1>3, <1>4

LEMMA FieldStart == ASSUME FieldInit PROVE FieldInv
<1>1. telemetry \in Telemetry /\ telemetry.next = 0
  BY DEF FieldInit, Unloaded, Telemetry
<1>2. sessions \in Seq(Session) /\ jobEvents \in Seq(AllowedTypes) /\ OpenRows(sessions) = {}
  BY DEF FieldInit, OpenRows
<1>3. ~Loading /\ ~Loaded
  BY <1>1, FourStatements DEF Loading, Loaded
<1> QED BY <1>1, <1>2, <1>3 DEF FieldInit, FieldInv, OneOpen, SessionsRead, EventsRead

\* Something is recorded: what a request has read is old, and what a loaded
\* answer says stays.
LEMMA RecordKeeps ==
  ASSUME FieldInv, UNCHANGED telemetry,
         recorded \subseteq recorded', recorded' \subseteq {"session", "event"},
         sessions' = sessions \/ ~Loading \/ "session" \in recorded',
         jobEvents' = jobEvents \/ ~Loading \/ "event" \in recorded',
         sessions' \in Seq(Session), jobEvents' \in Seq(AllowedTypes), OneOpen'
  PROVE  FieldInv'
<1>1. (Loading' <=> Loading) /\ (Loaded' <=> Loaded)
  BY DEF Loading, Loaded
<1>2. (SessionsAgree' <=> SessionsAgree) /\ (EventsAgree' <=> EventsAgree)
  BY DEF SessionsAgree, EventsAgree, OpenRows, Signed
<1>3. SessionsRead'
  <2> SUFFICES ASSUME "session" \notin recorded'
               PROVE  /\ Loading' /\ telemetry'.next > 1 =>
                            telemetry'.attendance = Latest(sessions, ListLimit)'
                      /\ Loading' /\ telemetry'.next > 3 =>
                            telemetry'.active = Cardinality(OpenRows(sessions))'
                      /\ Loaded' => SessionsAgree'
    BY DEF SessionsRead
  <2>1. "session" \notin recorded
    OBVIOUS
  <2>2. CASE Loading
    <3>1. sessions' = sessions
      BY <2>2
    <3> QED BY <1>1, <1>2, <2>1, <3>1 DEF FieldInv, SessionsRead, Latest, OpenRows
  <2>3. CASE ~Loading
    BY <1>1, <1>2, <2>1, <2>3 DEF FieldInv, SessionsRead
  <2> QED BY <2>2, <2>3
<1>4. EventsRead'
  <2> SUFFICES ASSUME "event" \notin recorded'
               PROVE  /\ Loading' /\ telemetry'.next > 2 =>
                            telemetry'.job_events = Latest(jobEvents, EventLimit)'
                      /\ Loaded' => EventsAgree'
    BY DEF EventsRead
  <2>1. "event" \notin recorded
    OBVIOUS
  <2>2. CASE Loading
    <3>1. jobEvents' = jobEvents
      BY <2>2
    <3> QED BY <1>1, <1>2, <2>1, <3>1 DEF FieldInv, EventsRead, Latest
  <2>3. CASE ~Loading
    BY <1>1, <1>2, <2>1, <2>3 DEF FieldInv, EventsRead
  <2> QED BY <2>2, <2>3
<1> QED BY <1>3, <1>4 DEF FieldInv

LEMMA RecordingKeeps == ASSUME FieldInv, Recording PROVE FieldInv'
<1>0. sessions \in Seq(Session) /\ jobEvents \in Seq(AllowedTypes)
      /\ recorded \subseteq {"session", "event"}
  BY DEF FieldInv
<1>1. ASSUME NEW u \in Technicians, NEW proof \in BOOLEAN, ClockIn(u, proof) PROVE FieldInv'
  <2> DEFINE row == [user |-> u, status |-> "OPEN"]
  <2>1. /\ sessions' = Append(sessions, row) /\ UNCHANGED <<jobEvents, telemetry>>
        /\ recorded \subseteq recorded' /\ recorded' \subseteq {"session", "event"}
        /\ ~Loading \/ "session" \in recorded'
    BY <1>0, <1>1 DEF ClockIn, Record
  <2>2. row \in Session /\ row.user = u
    BY DEF Session
  <2> HIDE DEF row
  <2>3. sessions' \in Seq(Session)
    BY <1>0, <2>1, <2>2
  <2>4. \A i \in OpenRows(sessions)' : \/ i \in OpenRows(sessions) /\ sessions'[i] = sessions[i]
                                       \/ i = Len(sessions) + 1 /\ sessions'[i] = row
    BY <1>0, <2>1, <2>2 DEF OpenRows
  <2>5. OneOpen'
    <3>1. \A i \in OpenRows(sessions) : sessions[i].user # u
      BY <1>1 DEF ClockIn, OpenAdmits
    <3> QED BY <2>2, <2>4, <3>1 DEF FieldInv, OneOpen
  <2> QED BY <1>0, <2>1, <2>3, <2>5, RecordKeeps
<1>2. ASSUME NEW u \in Technicians, ClockOut(u) PROVE FieldInv'
  <2> DEFINE closed(i) == IF sessions[i].user = u THEN [sessions[i] EXCEPT !.status = "CLOSED"]
                          ELSE sessions[i]
  <2>1. /\ sessions' = [i \in DOMAIN sessions |-> closed(i)] /\ UNCHANGED <<jobEvents, telemetry>>
        /\ recorded \subseteq recorded' /\ recorded' \subseteq {"session", "event"}
        /\ sessions' = sessions \/ ~Loading \/ "session" \in recorded'
    BY <1>0, <1>2 DEF ClockOut, Record
  <2>2. ASSUME NEW i \in DOMAIN sessions
        PROVE  /\ closed(i) \in Session /\ closed(i).user = sessions[i].user
               /\ closed(i).status = "OPEN" => sessions[i].status = "OPEN"
    <3>1. sessions[i] \in Session
      BY <1>0
    <3> QED BY <3>1 DEF Session
  <2> HIDE DEF closed
  <2>3. sessions' \in Seq(Session)
    <3>1. DOMAIN sessions = 1 .. Len(sessions) /\ Len(sessions) \in Nat
      BY <1>0
    <3> QED BY <2>1, <2>2, <3>1
  <2>4. \A i \in OpenRows(sessions)' :
            i \in OpenRows(sessions) /\ sessions'[i].user = sessions[i].user
    BY <2>1, <2>2 DEF OpenRows
  <2>5. OneOpen'
    BY <2>4 DEF FieldInv, OneOpen
  <2> QED BY <1>0, <2>1, <2>3, <2>5, RecordKeeps
<1>3. ASSUME NEW type \in EventTypes, NEW signature \in BOOLEAN, JobEvent(type, signature)
      PROVE  FieldInv'
  <2>1. /\ type \in AllowedTypes
        /\ jobEvents' = Append(jobEvents, type) /\ UNCHANGED <<sessions, telemetry>>
        /\ recorded \subseteq recorded' /\ recorded' \subseteq {"session", "event"}
        /\ ~Loading \/ "event" \in recorded'
    BY <1>0, <1>3 DEF JobEvent, Record
  <2>2. jobEvents' \in Seq(AllowedTypes)
    BY <1>0, <2>1
  <2>3. OneOpen'
    BY <2>1 DEF FieldInv, OneOpen, OpenRows
  <2> QED BY <1>0, <2>1, <2>2, <2>3, RecordKeeps
<1> QED BY <1>1, <1>2, <1>3 DEF Recording

\* What a statement changes of what was read.
LEMMA ReadFields ==
  ASSUME NEW A, NEW B, NEW R,
         R = [next : 0 .. 5, attendance : A, job_events : B, active : Nat, signed : Nat],
         NEW r \in R
  PROVE  /\ \A k \in 0 .. 5 : LET s == [r EXCEPT !.next = k] IN
               /\ s \in R /\ s.next = k /\ s.attendance = r.attendance
               /\ s.job_events = r.job_events /\ s.active = r.active /\ s.signed = r.signed
         /\ \A a \in A : LET s == [r EXCEPT !.attendance = a] IN
               /\ s \in R /\ s.attendance = a /\ s.next = r.next
               /\ s.job_events = r.job_events /\ s.active = r.active /\ s.signed = r.signed
         /\ \A b \in B : LET s == [r EXCEPT !.job_events = b] IN
               /\ s \in R /\ s.job_events = b /\ s.next = r.next
               /\ s.attendance = r.attendance /\ s.active = r.active /\ s.signed = r.signed
         /\ \A n \in Nat : LET s == [r EXCEPT !.active = n] IN
               /\ s \in R /\ s.active = n /\ s.next = r.next
               /\ s.attendance = r.attendance /\ s.job_events = r.job_events /\ s.signed = r.signed
         /\ \A n \in Nat : LET s == [r EXCEPT !.signed = n] IN
               /\ s \in R /\ s.signed = n /\ s.next = r.next
               /\ s.attendance = r.attendance /\ s.job_events = r.job_events /\ s.active = r.active
<1>1. ASSUME NEW k \in 0 .. 5, NEW s, s = [r EXCEPT !.next = k]
      PROVE  /\ s \in R /\ s.next = k /\ s.attendance = r.attendance
             /\ s.job_events = r.job_events /\ s.active = r.active /\ s.signed = r.signed
  BY <1>1
<1>2. ASSUME NEW a \in A, NEW s, s = [r EXCEPT !.attendance = a]
      PROVE  /\ s \in R /\ s.attendance = a /\ s.next = r.next
             /\ s.job_events = r.job_events /\ s.active = r.active /\ s.signed = r.signed
  BY <1>2
<1>3. ASSUME NEW b \in B, NEW s, s = [r EXCEPT !.job_events = b]
      PROVE  /\ s \in R /\ s.job_events = b /\ s.next = r.next
             /\ s.attendance = r.attendance /\ s.active = r.active /\ s.signed = r.signed
  BY <1>3
<1>4. ASSUME NEW n \in Nat, NEW s, s = [r EXCEPT !.active = n]
      PROVE  /\ s \in R /\ s.active = n /\ s.next = r.next
             /\ s.attendance = r.attendance /\ s.job_events = r.job_events /\ s.signed = r.signed
  BY <1>4
<1>5. ASSUME NEW n \in Nat, NEW s, s = [r EXCEPT !.signed = n]
      PROVE  /\ s \in R /\ s.signed = n /\ s.next = r.next
             /\ s.attendance = r.attendance /\ s.job_events = r.job_events /\ s.active = r.active
  BY <1>5
<1> QED BY <1>1, <1>2, <1>3, <1>4, <1>5

LEMMA TelemetryFields ==
  ASSUME NEW r \in Telemetry
  PROVE  /\ \A k \in 0 .. 5 : LET s == [r EXCEPT !.next = k] IN
               /\ s \in Telemetry /\ s.next = k /\ s.attendance = r.attendance
               /\ s.job_events = r.job_events /\ s.active = r.active /\ s.signed = r.signed
         /\ \A a \in Seq(Session) : LET s == [r EXCEPT !.attendance = a] IN
               /\ s \in Telemetry /\ s.attendance = a /\ s.next = r.next
               /\ s.job_events = r.job_events /\ s.active = r.active /\ s.signed = r.signed
         /\ \A b \in Seq(AllowedTypes) : LET s == [r EXCEPT !.job_events = b] IN
               /\ s \in Telemetry /\ s.job_events = b /\ s.next = r.next
               /\ s.attendance = r.attendance /\ s.active = r.active /\ s.signed = r.signed
         /\ \A n \in Nat : LET s == [r EXCEPT !.active = n] IN
               /\ s \in Telemetry /\ s.active = n /\ s.next = r.next
               /\ s.attendance = r.attendance /\ s.job_events = r.job_events /\ s.signed = r.signed
         /\ \A n \in Nat : LET s == [r EXCEPT !.signed = n] IN
               /\ s \in Telemetry /\ s.signed = n /\ s.next = r.next
               /\ s.attendance = r.attendance /\ s.job_events = r.job_events /\ s.active = r.active
  BY ReadFields, Zenon DEF Telemetry

LEMMA LoadKeeps == ASSUME FieldInv, Load PROVE FieldInv'
<1>1. telemetry' \in Telemetry /\ telemetry'.next = 1
  <2>1. telemetry \in Telemetry /\ telemetry' = [telemetry EXCEPT !.next = 1] /\ 1 \in 0 .. 5
    BY DEF FieldInv, Load
  <2> QED BY <2>1, TelemetryFields
<1>2. UNCHANGED <<sessions, jobEvents>> /\ recorded' = {}
  BY DEF Load
<1>3. ~Loaded'
  BY <1>1, FourStatements DEF Loaded
<1>4. SessionsRead' /\ EventsRead'
  BY <1>1, <1>3 DEF SessionsRead, EventsRead
<1>5. OneOpen'
  BY <1>2 DEF FieldInv, OneOpen, OpenRows
<1> QED BY <1>1, <1>2, <1>4, <1>5 DEF FieldInv

LEMMA StatementKeeps == ASSUME FieldInv, RunStatement PROVE FieldInv'
<1> DEFINE k == telemetry.next
           few == Cardinality(OpenRows(sessions))
           signed == Signed(jobEvents)
           first == Latest(sessions, ListLimit)
           second == Latest(jobEvents, EventLimit)
<1>0. /\ sessions \in Seq(Session) /\ jobEvents \in Seq(AllowedTypes) /\ OneOpen
      /\ telemetry \in Telemetry /\ k \in 1 .. 4
      /\ ListLimit \in Nat /\ EventLimit \in Nat
  BY FourStatements, FieldAssumption DEF FieldInv, RunStatement, Loading
<1>1. UNCHANGED <<sessions, jobEvents, recorded>>
  BY DEF RunStatement
<1>2. few \in Nat /\ few <= Cardinality(Technicians)
  BY <1>0, OpenFew
<1>3. signed \in Nat
  BY <1>0, CountsAre, CountedFinite
<1>4. /\ first \in Seq(Session) /\ Cardinality(OpenRows(first)) <= few
      /\ Len(first) < ListLimit => Cardinality(OpenRows(first)) = few
  BY <1>0, LatestCounted, CountsAre
<1>5. /\ second \in Seq(AllowedTypes) /\ Signed(second) <= signed
      /\ Len(second) < EventLimit => Signed(second) = signed
  BY <1>0, LatestCounted, CountsAre
<1>6. /\ telemetry' \in Telemetry /\ telemetry'.next = k + 1
      /\ telemetry'.attendance = IF k = 1 THEN first ELSE telemetry.attendance
      /\ telemetry'.job_events = IF k = 2 THEN second ELSE telemetry.job_events
      /\ telemetry'.active = IF k = 3 THEN few ELSE telemetry.active
      /\ telemetry'.signed = IF k = 4 THEN signed ELSE telemetry.signed
  <2> DEFINE read == [telemetry EXCEPT !.next = @ + 1]
  <2>1. read \in Telemetry /\ read.next = k + 1
        /\ read.attendance = telemetry.attendance /\ read.job_events = telemetry.job_events
        /\ read.active = telemetry.active /\ read.signed = telemetry.signed
    <3>1. k + 1 \in 0 .. 5
      BY <1>0
    <3> QED BY <1>0, <3>1, TelemetryFields
  <2>2. \/ k = 1 /\ telemetry' = [read EXCEPT !.attendance = first]
        \/ k = 2 /\ telemetry' = [read EXCEPT !.job_events = second]
        \/ k = 3 /\ telemetry' = [read EXCEPT !.active = few]
        \/ k = 4 /\ telemetry' = [read EXCEPT !.signed = signed]
    BY <1>0, FourStatements DEF RunStatement
  <2> HIDE DEF read, few, signed, first, second, k
  <2>3. CASE k = 1 /\ telemetry' = [read EXCEPT !.attendance = first]
    <3>1. /\ telemetry' \in Telemetry
          /\ telemetry'.attendance = first /\ telemetry'.next = read.next
          /\ telemetry'.job_events = read.job_events /\ telemetry'.active = read.active
          /\ telemetry'.signed = read.signed
      BY <1>4, <2>1, <2>3, TelemetryFields
    <3> QED BY <2>1, <2>3, <3>1
  <2>4. CASE k = 2 /\ telemetry' = [read EXCEPT !.job_events = second]
    <3>1. /\ telemetry' \in Telemetry
          /\ telemetry'.job_events = second /\ telemetry'.next = read.next
          /\ telemetry'.attendance = read.attendance /\ telemetry'.active = read.active
          /\ telemetry'.signed = read.signed
      BY <1>5, <2>1, <2>4, TelemetryFields
    <3> QED BY <2>1, <2>4, <3>1
  <2>5. CASE k = 3 /\ telemetry' = [read EXCEPT !.active = few]
    <3>1. /\ telemetry' \in Telemetry
          /\ telemetry'.active = few /\ telemetry'.next = read.next
          /\ telemetry'.attendance = read.attendance /\ telemetry'.job_events = read.job_events
          /\ telemetry'.signed = read.signed
      BY <1>2, <2>1, <2>5, TelemetryFields
    <3> QED BY <2>1, <2>5, <3>1
  <2>6. CASE k = 4 /\ telemetry' = [read EXCEPT !.signed = signed]
    <3>1. /\ telemetry' \in Telemetry
          /\ telemetry'.signed = signed /\ telemetry'.next = read.next
          /\ telemetry'.attendance = read.attendance /\ telemetry'.job_events = read.job_events
          /\ telemetry'.active = read.active
      BY <1>3, <2>1, <2>6, TelemetryFields
    <3> QED BY <2>1, <2>6, <3>1
  <2> QED BY <2>2, <2>3, <2>4, <2>5, <2>6
<1> HIDE DEF few, signed, first, second, k
<1>7. (Loading' <=> k + 1 \in 1 .. 4) /\ (Loaded' <=> k = 4) /\ Loading
  BY <1>0, <1>6, FourStatements DEF Loading, Loaded, k
<1>8. OneOpen'
  BY <1>0, <1>1 DEF OneOpen, OpenRows
<1>9. telemetry'.next > 3 => telemetry'.active <= Cardinality(Technicians)
  <2>1. k > 3 => telemetry.active <= Cardinality(Technicians)
    BY DEF FieldInv, k
  <2> QED BY <1>0, <1>2, <1>6, <2>1
<1>10. SessionsRead'
  <2> SUFFICES ASSUME "session" \notin recorded
               PROVE  /\ Loading' /\ telemetry'.next > 1 =>
                            telemetry'.attendance = Latest(sessions, ListLimit)'
                      /\ Loading' /\ telemetry'.next > 3 =>
                            telemetry'.active = Cardinality(OpenRows(sessions))'
                      /\ Loaded' => SessionsAgree'
    BY <1>1 DEF SessionsRead
  <2>1. /\ k > 1 => telemetry.attendance = first
        /\ k > 3 => telemetry.active = few
    BY <1>7 DEF FieldInv, SessionsRead, first, few, k
  <2>2. Latest(sessions, ListLimit)' = first /\ Cardinality(OpenRows(sessions))' = few
    BY <1>1 DEF Latest, OpenRows, first, few
  <2>3. telemetry'.attendance = first /\ (k > 2 => telemetry'.active = few)
    BY <1>0, <1>6, <2>1
  <2>4. Loaded' => SessionsAgree'
    <3> SUFFICES ASSUME Loaded' PROVE SessionsAgree'
      OBVIOUS
    <3>1. telemetry'.attendance = first /\ telemetry'.active = few
      BY <1>7, <2>3
    <3>2. OpenRows(telemetry.attendance)' = OpenRows(first)
      BY <3>1 DEF OpenRows
    <3>3. Cardinality(OpenRows(telemetry.attendance))' = Cardinality(OpenRows(first))
      BY <3>2
    <3> QED BY <1>4, <3>1, <3>3 DEF SessionsAgree
  <2> QED BY <1>0, <1>6, <2>2, <2>3, <2>4
<1>11. EventsRead'
  <2> SUFFICES ASSUME "event" \notin recorded
               PROVE  /\ Loading' /\ telemetry'.next > 2 =>
                            telemetry'.job_events = Latest(jobEvents, EventLimit)'
                      /\ Loaded' => EventsAgree'
    BY <1>1 DEF EventsRead
  <2>1. k > 2 => telemetry.job_events = second
    BY <1>7 DEF FieldInv, EventsRead, second, k
  <2>2. Latest(jobEvents, EventLimit)' = second
    BY <1>1 DEF Latest, second
  <2>3. k > 1 => telemetry'.job_events = second
    BY <1>0, <1>6, <2>1
  <2>4. Loaded' => EventsAgree'
    <3> SUFFICES ASSUME Loaded' PROVE EventsAgree'
      OBVIOUS
    <3>1. telemetry'.job_events = second /\ telemetry'.signed = signed
      BY <1>6, <1>7, <2>3
    <3>2. Signed(telemetry.job_events)' = Signed(second)
      BY <3>1 DEF Signed
    <3> QED BY <1>5, <3>1, <3>2 DEF EventsAgree
  <2> QED BY <1>0, <1>6, <2>2, <2>3, <2>4
<1> QED BY <1>0, <1>1, <1>6, <1>8, <1>9, <1>10, <1>11 DEF FieldInv

LEMMA FieldStep ==
  ASSUME FieldInv, Recording \/ Load \/ RunStatement \/ UNCHANGED fieldVars
  PROVE  FieldInv'
<1>1. CASE UNCHANGED fieldVars
  <2>1. UNCHANGED <<sessions, jobEvents, telemetry, recorded>>
    BY <1>1 DEF fieldVars
  <2>2. OneOpen'
    BY <2>1 DEF FieldInv, OneOpen, OpenRows
  <2> QED BY <2>1, <2>2, RecordKeeps DEF FieldInv
<1> QED BY <1>1, RecordingKeeps, LoadKeeps, StatementKeeps

LEMMA FieldAgrees == ASSUME FieldInv PROVE FieldTypeOK /\ TelemetryAgrees
<1>1. telemetry.next \in 0 .. Len(Statements) + 1
  BY FourStatements DEF FieldInv, Telemetry
<1>2. FieldTypeOK
  BY <1>1 DEF FieldInv, FieldTypeOK
<1>3. Loaded => telemetry.next > 3
  BY <1>1, FourStatements DEF Loaded
<1> QED BY <1>2, <1>3 DEF FieldInv, TelemetryAgrees, SessionsRead, EventsRead,
                           SessionsAgree, EventsAgree

-----------------------------------------------------------------------------
\* The page.

\* The page records nothing, and no task: Dashboard keeps what is known of Field.
LEMMA FieldInvariance == PageSpec => []FieldInv
<1>1. PageInit => FieldInv
  BY FieldStart DEF PageInit
<1>2. FieldInv /\ [PageNext]_<<vars, fieldVars, viewVars>> => FieldInv'
  BY FieldStep DEF PageNext, Viewing
<1> QED BY <1>1, <1>2, PTL DEF PageSpec

\* What dashboards, workers, technicians and the requests for telemetry hold has
\* the types the code gives it, whatever order they run in.
THEOREM PageTypeCorrect == PageSpec => []PageTypeOK
<1>1. ViewInv /\ FieldInv => PageTypeOK
  <2> SUFFICES ASSUME ViewInv, FieldInv PROVE PageTypeOK
    OBVIOUS
  <2>1. \A l \in Lists : DOMAIN l \subseteq TaskIds /\ \A t \in DOMAIN l : l[t] \in Row
    BY DEF Lists
  <2>2. ASSUME NEW v \in Viewers, view[v] # Unasked
        PROVE  /\ view[v].left \subseteq Queries
               /\ view[v].users \in {NoRows} \cup [Users -> Users \cup {None}]
               /\ view[v].tasks \in Lists /\ view[v].overdue \in Lists
               /\ view[v].failed \in BOOLEAN
    <3>1. view[v] \in View
      BY <2>2 DEF ViewInv, ViewTypeOK
    <3> HIDE DEF Lists
    <3> QED BY <3>1 DEF View
  <2>3. TypeOK /\ FieldTypeOK
    BY FieldAgrees DEF ViewInv
  <2> HIDE DEF Lists
  <2> QED BY <2>1, <2>2, <2>3 DEF ViewInv, ViewTypeOK, PageTypeOK
<1> QED BY <1>1, ViewInvariance, FieldInvariance, PTL

\* The overdue list agrees with the tasks and the summaries of the telemetry with
\* its lists, for every number of rows, technicians and requests, and any limits.
THEOREM PageAnswersAgree == PageSpec => []AnswersAgree
<1>1. FieldInv => TelemetryAgrees
  BY FieldAgrees
<1>2. OverdueAgrees /\ TelemetryAgrees => AnswersAgree
  BY DEF AnswersAgree
<1> QED BY <1>1, <1>2, PageOverdueAgrees, FieldInvariance, PTL

=============================================================================
