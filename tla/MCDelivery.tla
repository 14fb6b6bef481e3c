----------------------------- MODULE MCDelivery -----------------------------
(***************************************************************************)
(* Delivery on a small instance.  The events are not interchangeable: some *)
(* are of a branch that drops errors and the others are not.               *)
(***************************************************************************)
EXTENDS Delivery

=============================================================================
