----------------------------- MODULE MCStartup -----------------------------
(***************************************************************************)
(* Startup on a small instance: one seeded tenant with an administrator,   *)
(* and one that may be registered or created.                              *)
(***************************************************************************)
EXTENDS Startup

CONSTANTS safari, acme, alice, bob

\* The order of the seeds in SeedIfNeeded.
MCSeed == << [kind |-> "tenant", tenant |-> safari],
             [kind |-> "role", tenant |-> safari, role |-> "field_technician"],
             [kind |-> "role", tenant |-> safari, role |-> "tenant_admin"],
             [kind |-> "user", email |-> alice, tenant |-> safari, role |-> "tenant_admin"],
             [kind |-> "rows"] >>

\* An edit that takes every permission away.
MCPolicies == {{}}

=============================================================================
