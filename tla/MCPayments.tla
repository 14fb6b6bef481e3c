----------------------------- MODULE MCPayments -----------------------------
(***************************************************************************)
(* Payments on small instances.                                            *)
(***************************************************************************)
EXTENDS Payments

\* One tenant has all the notes; the others can only try to pay them.
SharedTenant == LET owner == CHOOSE t \in Tenants : TRUE IN [n \in Notes |-> owner]

\* Each tenant is named after its one note.
TenantEach == [n \in Notes |-> n]

=============================================================================
