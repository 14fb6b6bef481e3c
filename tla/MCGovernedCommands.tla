------------------------- MODULE MCGovernedCommands -------------------------
(***************************************************************************)
(* GovernedCommands on a small instance.                                   *)
(***************************************************************************)
EXTENDS GovernedCommands, TLC

\* Users and handlers are interchangeable.
Symmetry == Permutations(Users) \cup Permutations(Handlers)

\* States that differ in audit rows alone are one: no step and neither property
\* reads them.  MCWorkflow counts them.
Unaudited == <<status, entity, requestedBy, checkedBy, executedBy, outbox, handler,
               applied, unread, deliveryVars>>

=============================================================================
