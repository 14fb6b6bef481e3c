---------------------------- MODULE MCLifecycle ----------------------------
(***************************************************************************)
(* Lifecycle on small instances with two concurrent requests.              *)
(***************************************************************************)
EXTENDS Lifecycle, TLC

\* Users, requests and projects are interchangeable.
Symmetry == Permutations(Users) \cup Permutations(Handlers) \cup Permutations(Projects)

=============================================================================
