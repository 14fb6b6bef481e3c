---------------------------- MODULE MCMaterials ----------------------------
(***************************************************************************)
(* Materials on small instances with two transactions at a time: two       *)
(* fulfilments, or a fulfilment and an inventory command.                  *)
(***************************************************************************)
EXTENDS Materials, TLC

\* Requests are interchangeable, and so are automatic orders.
Symmetry == Permutations(Requests) \cup Permutations(AutoOrders)

=============================================================================
