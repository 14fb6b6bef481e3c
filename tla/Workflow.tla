------------------------------ MODULE Workflow ------------------------------
(***************************************************************************)
(* The maker-checker workflow of the governance engine: the table          *)
(* workflow_instances with its partial unique index, the audit table       *)
(* workflow_decisions, the rows the engine adds to outbox_events, and the  *)
(* HTTP handlers that move an instance from status to status.              *)
(*                                                                         *)
(* A handler reads an instance without a lock, checks the transition, and  *)
(* writes later with an UPDATE that does not repeat the check; the audit   *)
(* row is a third statement.  Other handlers run between the three, and a  *)
(* handler may stop between them.  "execute" alone is one transaction that *)
(* locks the row and checks it again.                                      *)
(*                                                                         *)
(* One tenant is modelled: every statement filters by tenant_id.           *)
(***************************************************************************)
EXTENDS Integers, Sequences, FiniteSetsExt

CONSTANTS
    Users,             \* authenticated users of the tenant
    Entities,          \* the (entity_type, entity_id) pairs under governance
    MaterialRequests,  \* those whose entity_type is MATERIAL_REQUEST
    Handlers,          \* concurrent HTTP request goroutines
    None,              \* SQL NULL in a user or entity column
    MaxInstances,      \* bound: workflow instances ever created
    MaxDecisions       \* bound: decisions ever applied

ASSUME WorkflowAssumption ==
    /\ MaxInstances \in Nat
    /\ MaxDecisions \in Nat
    /\ MaterialRequests \subseteq Entities
    /\ None \notin Users
    /\ None \notin Entities

\* Instances are numbered in the order of their created_at.
Instances == 1 .. MaxInstances

Active   == {"REQUESTED", "APPROVED", "EXECUTED"}
Statuses == Active \cup {"ABSENT", "RECONCILED", "REJECTED", "RETURNED"}
Actions  == {"approve", "reject", "return", "execute", "reconcile"}

\* Faulty variant: the UPDATE stores a status that nothing else knows.
TargetMisspelt == [approve |-> "APPROVED", reject |-> "REJECT", return |-> "RETURNED",
                   execute |-> "EXECUTED", reconcile |-> "RECONCILED"]

\* The status an action leads to.
Target == [approve |-> "APPROVED", reject |-> "REJECTED", return |-> "RETURNED",
           execute |-> "EXECUTED", reconcile |-> "RECONCILED"]

\* The statuses an action is accepted in.
Valid == [approve   |-> {"REQUESTED", "RETURNED"},
          reject    |-> {"REQUESTED", "RETURNED", "APPROVED"},
          return    |-> {"REQUESTED", "APPROVED", "EXECUTED"},
          execute   |-> {"APPROVED"},
          reconcile |-> {"EXECUTED"}]

VARIABLES
    \* the columns of workflow_instances; "ABSENT" is a row not yet inserted
    status, entity, requestedBy, checkedBy, executedBy,
    audit,     \* workflow_decisions rows, counted by instance and action
    outbox,    \* the outbox_events rows of an instance, in insertion order
    handler,   \* what each request goroutine holds between two statements
    applied,   \* history: decisions applied, counted by instance and action
    unread     \* history: approvals applied although the handler had failed to
               \* read who requested the instance, counted by instance

rowVars == <<status, entity, requestedBy, checkedBy, executedBy>>
vars    == <<rowVars, audit, outbox, handler, applied, unread>>

Idle == [pc |-> "idle"]

\* A request that has found its instance, checked it, or written it, with the
\* requester as it read it; None is the empty string of a read not made, or of
\* one that failed.
InFlight == [pc : {"found", "checked", "written"}, instance : Instances,
             action : Actions, actor : Users, requested : Users \cup {None}]

\* An outbox row carries the user that released it (its X-User-ID header);
\* checker is checked_by at that moment and is not stored by the code.
Release == [actor : Users, checker : Users \cup {None}]

TypeOK ==
    /\ status      \in [Instances -> Statuses]
    /\ entity      \in [Instances -> Entities \cup {None}]
    /\ requestedBy \in [Instances -> Users \cup {None}]
    /\ checkedBy   \in [Instances -> Users \cup {None}]
    /\ executedBy  \in [Instances -> Users \cup {None}]
    /\ audit       \in [Instances -> [Actions -> Nat]]
    /\ outbox      \in [Instances -> Seq(Release)]
    /\ handler     \in [Handlers -> {Idle} \cup InFlight]
    /\ applied     \in [Instances -> [Actions -> Nat]]
    /\ unread      \in [Instances -> Nat]

-----------------------------------------------------------------------------

Init ==
    /\ status      = [i \in Instances |-> "ABSENT"]
    /\ entity      = [i \in Instances |-> None]
    /\ requestedBy = [i \in Instances |-> None]
    /\ checkedBy   = [i \in Instances |-> None]
    /\ executedBy  = [i \in Instances |-> None]
    /\ audit       = [i \in Instances |-> [a \in Actions |-> 0]]
    /\ outbox      = [i \in Instances |-> <<>>]
    /\ handler     = [h \in Handlers |-> Idle]
    /\ applied     = [i \in Instances |-> [a \in Actions |-> 0]]
    /\ unread      = [i \in Instances |-> 0]

\* Faulty variant: the index guards INSERTs but not UPDATEs.
IndexAdmitsUpdates(i, e, s) ==
    s = "REQUESTED" => \A j \in Instances \ {i} :
                           entity[j] = e => status[j] \notin Active

\* uq_workflow_active_entity: at most one active row per entity.  An INSERT
\* or UPDATE that would give e a second one fails.
IndexAdmits(i, e, s) ==
    s \in Active => \A j \in Instances \ {i} :
                        entity[j] = e => status[j] \notin Active

\* The number of decisions applied so far, which MaxDecisions bounds.
Decided == MapThenSumSet(LAMBDA d : applied[d[1]][d[2]], Instances \X Actions)

\* CreateWorkflowInstanceHandler and createWorkflow: one INSERT.
Create(i, u, e) ==
    /\ status[i] = "ABSENT"
    /\ \A j \in 1 .. i - 1 : status[j] # "ABSENT"
    /\ IndexAdmits(i, e, "REQUESTED")
    /\ status'      = [status EXCEPT ![i] = "REQUESTED"]
    /\ entity'      = [entity EXCEPT ![i] = e]
    /\ requestedBy' = [requestedBy EXCEPT ![i] = u]
    /\ UNCHANGED <<checkedBy, executedBy, audit, outbox, handler, applied, unread>>

\* Faulty variant: the requester may approve.
SegregatedButApprove(i, u, a) == u # requestedBy[i] \/ a \in {"return", "approve"}

\* Separation of duties: the requester may only return the instance.
Segregated(i, u, a) == u # requestedBy[i] \/ a = "return"

\* WorkflowDecisionHandler up to its checks: an unlocked SELECT, the
\* separation of duties, the table of valid transitions.
Decide(h, u, i, a) ==
    /\ handler[h] = Idle
    /\ status[i] \in Valid[a]
    /\ Segregated(i, u, a)
    /\ handler' = [handler EXCEPT ![h] = [pc |-> "checked", instance |-> i,
                                          action |-> a, actor |-> u,
                                          requested |-> requestedBy[i]]]
    /\ UNCHANGED <<rowVars, audit, outbox, applied, unread>>

\* The newest instance of an entity (ORDER BY created_at DESC LIMIT 1).
Latest(e) ==
    {i \in Instances : /\ entity[i] = e
                       /\ \A j \in Instances : entity[j] = e => j <= i}

\* ApproveMaterialHandler up to its check of the status: the compatibility
\* endpoint finds the instance by its material request.
ApproveMaterial(h, u, e) ==
    /\ handler[h] = Idle
    /\ \E i \in Latest(e) :
         /\ status[i] \in {"REQUESTED", "RETURNED"}
         /\ handler' = [handler EXCEPT ![h] = [pc |-> "found", instance |-> i,
                                               action |-> "approve", actor |-> u,
                                               requested |-> None]]
    /\ UNCHANGED <<rowVars, audit, outbox, applied, unread>>

\* Its second SELECT, of the requester, and the separation of duties.  The
\* error of this read is dropped: a failed one leaves the empty string, which
\* is nobody's id, so that whoever asks may approve.
ReadRequester(h) ==
    LET r == handler[h] IN
    /\ r.pc = "found"
    /\ \E requested \in {requestedBy[r.instance], None} :
         /\ requested # r.actor
         /\ handler' = [handler EXCEPT ![h] = [r EXCEPT !.pc = "checked",
                                                         !.requested = requested]]
    /\ UNCHANGED <<rowVars, audit, outbox, applied, unread>>

\* checked_by is overwritten by approve, reject and return only.
Checked(a, i, u) ==
    IF a \in {"approve", "reject", "return"}
    THEN [checkedBy EXCEPT ![i] = u]
    ELSE checkedBy

\* The UPDATE of a decision other than execute: WHERE id AND tenant_id, with
\* no condition on the status that was read.
Write(h) ==
    LET r == handler[h] IN
    /\ r.pc = "checked"
    /\ r.action # "execute"
    /\ Decided < MaxDecisions
    /\ IndexAdmits(r.instance, entity[r.instance], Target[r.action])
    /\ status'    = [status EXCEPT ![r.instance] = Target[r.action]]
    /\ checkedBy' = Checked(r.action, r.instance, r.actor)
    /\ applied'   = [applied EXCEPT ![r.instance][r.action] = @ + 1]
    /\ unread'    = [unread EXCEPT ![r.instance] = IF r.requested = None THEN @ + 1 ELSE @]
    /\ handler'   = [handler EXCEPT ![h] = [r EXCEPT !.pc = "written"]]
    /\ UNCHANGED <<entity, requestedBy, executedBy, audit, outbox>>

\* The INSERT of the audit row, a statement of its own.
WriteAudit(h) ==
    LET r == handler[h] IN
    /\ r.pc = "written"
    /\ audit'   = [audit EXCEPT ![r.instance][r.action] = @ + 1]
    /\ handler' = [handler EXCEPT ![h] = Idle]
    /\ UNCHANGED <<rowVars, outbox, applied, unread>>

\* Faulty variant: the status is not read again under the row lock.
ReleasableUnchecked(i, u) == u # requestedBy[i]

\* What ExecuteWorkflowTransaction checks again on the locked row.
Releasable(i, u) == status[i] = "APPROVED" /\ u # requestedBy[i]

\* Faulty variant: the audit row is left to a statement after the commit,
\* as the other decisions leave it.
AuditAfterRelease(i) == audit

\* The audit row the transaction inserts.
AuditRelease(i) == [audit EXCEPT ![i]["execute"] = @ + 1]

\* ExecuteWorkflowTransaction: the row is locked and checked again, and the
\* new status, the audit row and the outbox row commit together.
Execute(h) ==
    LET r == handler[h] IN
    /\ r.pc = "checked"
    /\ r.action = "execute"
    /\ Decided < MaxDecisions
    /\ Releasable(r.instance, r.actor)
    /\ status'     = [status EXCEPT ![r.instance] = "EXECUTED"]
    /\ executedBy' = [executedBy EXCEPT ![r.instance] = r.actor]
    /\ audit'      = AuditRelease(r.instance)
    /\ outbox'     = [outbox EXCEPT ![r.instance] =
                        Append(@, [actor |-> r.actor, checker |-> checkedBy[r.instance]])]
    /\ applied'    = [applied EXCEPT ![r.instance]["execute"] = @ + 1]
    /\ handler'    = [handler EXCEPT ![h] = Idle]
    /\ UNCHANGED <<entity, requestedBy, checkedBy, unread>>

\* A request that ends before its next statement takes effect: the requester
\* it read is its user, the unique index or the locked check refuses it, the statement fails, the client is
\* gone and its context cancelled, or the process stops.
Abandon(h) ==
    /\ handler[h].pc \in {"found", "checked", "written"}
    /\ handler' = [handler EXCEPT ![h] = Idle]
    /\ UNCHANGED <<rowVars, audit, outbox, applied, unread>>

Next ==
    \/ \E i \in Instances, u \in Users, e \in Entities : Create(i, u, e)
    \/ \E h \in Handlers, u \in Users, i \in Instances, a \in Actions : Decide(h, u, i, a)
    \/ \E h \in Handlers, u \in Users, e \in MaterialRequests : ApproveMaterial(h, u, e)
    \/ \E h \in Handlers : ReadRequester(h)
    \/ \E h \in Handlers : Write(h)
    \/ \E h \in Handlers : WriteAudit(h)
    \/ \E h \in Handlers : Execute(h)
    \/ \E h \in Handlers : Abandon(h)

Spec == Init /\ [][Next]_vars

-----------------------------------------------------------------------------

\* The releases of an instance made while its own requester was its checker.
SelfChecked(i) == {k \in DOMAIN outbox[i] : outbox[i][k].checker = requestedBy[i]}

\* Separation of duties over every interleaving.  Whatever stale read a handler
\* acts on, no command is executed by the user who requested it, or unchecked.
\* WORKFLOW_ENGINE.md's "Requester cannot approve" holds but for the read whose
\* error is dropped: a release the requester checked spends an approval applied
\* without that read, one of its own, and so does an instance that can still
\* be released on such a check.
FourEyes ==
    \A i \in Instances :
      /\ status[i] # "ABSENT" => executedBy[i] # requestedBy[i]
      /\ status[i] \in {"APPROVED", "EXECUTED"} => checkedBy[i] # None
      /\ \A k \in DOMAIN outbox[i] : /\ outbox[i][k].actor # requestedBy[i]
                                     /\ outbox[i][k].checker # None
      /\ Cardinality(SelfChecked(i)) <= unread[i]
      /\ status[i] = "APPROVED" /\ checkedBy[i] = requestedBy[i]
            => Cardinality(SelfChecked(i)) < unread[i]

\* Every release spends an approval of its own: however executes, returns and
\* late approvals interleave, an instance never has more outbox rows than
\* approvals, and one that can still be executed has an unspent approval.
ReleaseSpendsApproval ==
    \A i \in Instances :
        /\ Len(outbox[i]) <= applied[i]["approve"]
        /\ status[i] = "APPROVED" => Len(outbox[i]) < applied[i]["approve"]

\* A released command and its audit row are never apart, whatever is lost of
\* the audit of the other decisions: the outbox, the audit table and the
\* executions applied agree in number.
ReleaseAudited ==
    \A i \in Instances :
        /\ audit[i]["execute"] = Len(outbox[i])
        /\ applied[i]["execute"] = Len(outbox[i])

\* GOVERNED_COMMAND_RELEASE.md: "Active duplicate workflows for the same
\* tenant/entity are prevented", also when a returned instance comes back
\* after another was opened for its entity.
OneActivePerEntity ==
    \A i, j \in Instances :
        /\ entity[i] = entity[j]
        /\ status[i] \in Active
        /\ status[j] \in Active
        => i = j

\* The transitions WorkflowDecisionHandler documents and checks.
LegalTransition == {
    <<"ABSENT", "REQUESTED">>,
    <<"REQUESTED", "APPROVED">>, <<"RETURNED", "APPROVED">>,
    <<"REQUESTED", "REJECTED">>, <<"RETURNED", "REJECTED">>, <<"APPROVED", "REJECTED">>,
    <<"REQUESTED", "RETURNED">>, <<"APPROVED", "RETURNED">>, <<"EXECUTED", "RETURNED">>,
    <<"APPROVED", "EXECUTED">>, <<"EXECUTED", "RECONCILED">>}

\* WORKFLOW_ENGINE.md: "Explicit transition validation".  No instance moves
\* between two statuses that the table of valid transitions does not join.
TransitionsValidated ==
    [][\A i \in Instances :
          status'[i] # status[i] => <<status[i], status'[i]>> \in LegalTransition]_vars

\* What the row lock of ExecuteWorkflowTransaction gives under any race: an
\* instance becomes EXECUTED only from APPROVED and only with its one outbox
\* row, and no other step adds an outbox row.
ReleaseIsAtomic ==
    [][\A i \in Instances :
          (Len(outbox'[i]) # Len(outbox[i]) \/ (status'[i] = "EXECUTED" /\ status[i] # "EXECUTED"))
          => /\ status[i] = "APPROVED"
             /\ status'[i] = "EXECUTED"
             /\ Len(outbox'[i]) = Len(outbox[i]) + 1]_vars

=============================================================================
