-------------------------- MODULE GovernedCommands --------------------------
(***************************************************************************)
(* The governance engine and the delivery of what it releases, composed:   *)
(* the transaction that executes a workflow instance is the one that       *)
(* commits the outbox row the publisher reads.                             *)
(***************************************************************************)
EXTENDS Workflow, SequencesExt

CONSTANTS Dropping,    \* releases whose command is of a branch that drops errors
          BatchSize, MaxDeliver, MaxStored, MaxFaults,
          MaxReleases  \* bound: releases of one instance

ASSUME ReleasesAssumption ==
    /\ MaxReleases \in Nat
    /\ Dropping \subseteq Instances \X (1 .. MaxReleases)

\* The nth release of an instance.
Events == Instances \X (1 .. MaxReleases)

VARIABLES rows, published, deferred, batch, sent, stream, window, due,
          deliveries, settled, buffer, worker, inbox, runs, faults

D == INSTANCE Delivery

deliveryVars == <<rows, published, deferred, batch, sent, stream, window, due,
                  deliveries, settled, buffer, worker, inbox, runs, faults>>

systemVars == <<vars, deliveryVars>>

SystemInit == Init /\ D!Init

\* ExecuteWorkflowTransaction commits the workflow's new status, its audit
\* row and the row the publisher will read.
ExecuteAndCommit(h) ==
    /\ Execute(h)
    /\ \E e \in Events :
         /\ e = <<handler[h].instance, Len(outbox[handler[h].instance]) + 1>>
         /\ D!Commit(e)

\* The requests that release nothing.
Govern ==
    \/ \E i \in Instances, u \in Users, e \in Entities : Create(i, u, e)
    \/ \E h \in Handlers, u \in Users, i \in Instances, a \in Actions : Decide(h, u, i, a)
    \/ \E h \in Handlers, u \in Users, e \in MaterialRequests : ApproveMaterial(h, u, e)
    \/ \E h \in Handlers : ReadRequester(h) \/ Write(h) \/ WriteAudit(h) \/ Abandon(h)

SystemNext ==
    \/ \E h \in Handlers : ExecuteAndCommit(h)
    \/ Govern /\ UNCHANGED deliveryVars
    \/ D!Transport /\ UNCHANGED vars

SystemSpec == SystemInit /\ [][SystemNext]_systemVars

-----------------------------------------------------------------------------

\* The promise of governed release, read off the tables.
Promise == INSTANCE GovernedRelease WITH
    approvals <- [i \in Instances |-> applied[i]["approve"]],
    released  <- [i \in Instances |-> Len(outbox[i])],
    runs      <- runs

\* GOVERNED_COMMAND_RELEASE.md: "The command payload is held until an
\* authorized execute decision".  Under racing requests, lost audit rows,
\* redelivery and crashes, every step of the system is a step the promise
\* allows, or one it does not see.
KeepsPromise == Promise!Spec

\* The outbox table the engine writes is the one the publisher reads, and
\* every operation that ran, however its message was delivered, was released by
\* somebody other than its requester and on a check; each one whose checker was
\* its requester cost an approval of its own that nobody's read stood behind.
RunsAreFourEyed ==
    /\ ToSet(rows) = {e \in Events : e[2] <= Len(outbox[e[1]])}
    /\ \A e \in Events :
          runs[e] > 0 => /\ e \in ToSet(rows)
                         /\ outbox[e[1]][e[2]].actor # requestedBy[e[1]]
                         /\ outbox[e[1]][e[2]].checker # None
    /\ \A i \in Instances :
          Cardinality({k \in SelfChecked(i) : runs[<<i, k>>] > 0}) <= unread[i]

=============================================================================
