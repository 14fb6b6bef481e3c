----------------------------- MODULE MCWorkflow -----------------------------
(***************************************************************************)
(* Workflow on a small instance.                                           *)
(***************************************************************************)
EXTENDS Workflow, TLC

\* Users and handlers are interchangeable.
Symmetry == Permutations(Users) \cup Permutations(Handlers)

=============================================================================
