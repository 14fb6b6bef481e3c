------------------------------ MODULE MCDashboard ------------------------------
(***************************************************************************)
(* Tasks and Dashboard on a small instance: a manager and an administrator *)
(* of one technician, two tasks that exist, two that a client may create,  *)
(* one timesheet and one ticket.                                           *)
(***************************************************************************)
EXTENDS Dashboard, TLC

CONSTANTS adm, mgr, tech, t1, t2, t3, t4, t5, t6, s1, a1, a2

MCRoleOf   == adm :> "tenant_admin" @@ mgr :> "manager" @@ tech :> "field_technician"
MCRegionOf == [u \in Users |-> "Nairobi"]

\* The administrator's tasks: the manager's team has the first.
MCRow(u) == [status |-> "Pending", to |-> u, by |-> adm, dep |-> None, region |-> "Nairobi"]
MCSeeded == t1 :> MCRow(tech) @@ t2 :> MCRow(adm)

MCSheetOf   == s1 :> [task |-> t1, user |-> tech]
MCAgentTask == [a \in Agents |-> IF a = a1 THEN t5 ELSE t6]

MCCreate(t, d) == [kind |-> "create", task |-> t, to |-> tech, by |-> adm, dep |-> d]

MCBodies ==
    {MCCreate(t2, t1), MCCreate(t3, t4), MCCreate(t4, t3), MCCreate(t5, t3),
     [kind |-> "status", task |-> t1, status |-> "Completed"],
     [kind |-> "status", task |-> t2, status |-> "In_Progress"],
     [kind |-> "approve", sheet |-> s1, by |-> mgr],
     [kind |-> "approve", sheet |-> s1, by |-> adm]}

MCConversions == {[to |-> tech, by |-> adm, dep |-> d] : d \in {None, t3, t5}}

MCFirstManager == tech :> mgr @@ mgr :> adm @@ adm :> None

\* The technician leaves the manager's team.
MCMoves == {<<tech, adm>>}

MCViewerOf == [v \in Viewers |-> mgr]

Symmetry == Permutations(Workers) \cup Permutations(Clerks)

=============================================================================
