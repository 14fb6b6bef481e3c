-------------------------- MODULE GovernedRelease ---------------------------
(***************************************************************************)
(* What governed command release promises, without saying how: a command   *)
(* is released only against an approval that no earlier release has spent, *)
(* and a business operation runs only for a release that was made.         *)
(***************************************************************************)
EXTENDS Naturals

CONSTANTS Instances, MaxReleases

VARIABLES
    approvals,  \* approvals given to each instance
    released,   \* commands released by each instance
    runs        \* times the operation of each release has run

vars == <<approvals, released, runs>>

Init ==
    /\ approvals = [i \in Instances |-> 0]
    /\ released = [i \in Instances |-> 0]
    /\ runs = [c \in Instances \X (1 .. MaxReleases) |-> 0]

Approve(i) ==
    /\ approvals' = [approvals EXCEPT ![i] = @ + 1]
    /\ UNCHANGED <<released, runs>>

Release(i) ==
    /\ released[i] < approvals[i]
    /\ released' = [released EXCEPT ![i] = @ + 1]
    /\ UNCHANGED <<approvals, runs>>

Run(i, n) ==
    /\ n <= released[i]
    /\ runs' = [runs EXCEPT ![<<i, n>>] = @ + 1]
    /\ UNCHANGED <<approvals, released>>

Next == \E i \in Instances :
    Approve(i) \/ Release(i) \/ \E n \in 1 .. MaxReleases : Run(i, n)

Spec == Init /\ [][Next]_vars

=============================================================================
