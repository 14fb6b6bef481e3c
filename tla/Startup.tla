------------------------------ MODULE Startup ------------------------------
(***************************************************************************)
(* The process around Identity: main.go prepares the database before it    *)
(* serves a request.  SeedIfNeeded counts the tenants, creates the schema  *)
(* when there is none, gives technicians and managers of the tenants there *)
(* are tasks:write, and seeds an empty database, each seed in a            *)
(* transaction of its own.  The process may stop at any point and is       *)
(* started again; what is committed, and the tokens handed out, stay.      *)
(***************************************************************************)
EXTENDS Identity, Sequences

CONSTANTS
    Seed,       \* the seeds in order: a tenant, a role, a user, or other rows
    MaxCrashes  \* bound: stops of the process and lost tenants, together

TenantSeeds == [kind : {"tenant"}, tenant : Tenants]
RoleSeeds   == [kind : {"role"}, tenant : Tenants, role : DefaultRoles]
UserSeeds   == [kind : {"user"}, email : Emails, tenant : Tenants, role : DefaultRoles]
OtherSeeds  == [kind : {"rows"}]

ASSUME StartupAssumption ==
    /\ Seed \in Seq(TenantSeeds \cup RoleSeeds \cup UserSeeds \cup OtherSeeds)
    /\ Len(Seed) > 0
    /\ MaxCrashes \in Nat

VARIABLES
    phase,     \* where the process is
    empty,     \* what it counted: there are no tenants
    schema,    \* the tables exist
    step,      \* the next seed
    crashes,   \* history: stops that were not the process's own, lost tenants
    partial,   \* history: it stopped between the first seed and the last
    seeded,    \* history: the last seed was made
    granted,   \* history: roles the last start found, or edits since replaced
    edited     \* history: roles edited since the last start

startVars == <<phase, empty, schema, step, crashes, partial, seeded, granted, edited>>
vars      == <<identityVars, startVars>>

TypeOK ==
    /\ IdentityTypeOK
    /\ phase   \in {"down", "prepare", "seed", "serve"}
    /\ empty   \in BOOLEAN
    /\ schema  \in BOOLEAN
    /\ step    \in 1 .. Len(Seed)
    /\ crashes \in 0 .. MaxCrashes
    /\ partial \in BOOLEAN
    /\ seeded  \in BOOLEAN
    /\ granted \in SUBSET (Tenants \X DefaultRoles)
    /\ edited  \in SUBSET (Tenants \X DefaultRoles)

Init ==
    /\ IdentityInit
    /\ phase = "down" /\ empty = FALSE /\ schema = FALSE /\ step = 1
    /\ crashes = 0 /\ partial = FALSE /\ seeded = FALSE
    /\ granted = {} /\ edited = {}

-----------------------------------------------------------------------------
\* SeedIfNeeded.


\* Faulty variant: the error of a missing table counts as a seeded database.
NoTenantsCounted == schema /\ tenants = {}

\* SELECT COUNT(*) FROM tenants; an error leaves the count at 0.
NoTenants == tenants = {}

\* The tenants are counted, and the schema created when the count fails.
Start ==
    /\ phase = "down"
    /\ phase' = "prepare"
    /\ empty' = NoTenants
    /\ schema' = TRUE
    /\ step' = 1
    /\ UNCHANGED <<identityVars, crashes, partial, seeded, granted, edited>>

\* Faulty variant: managers are forgotten.
WritersTechnicians == {"field_technician"}

\* Roles that array_append gives tasks:write.
Writers == {"field_technician", "manager"}

\* ensureCustomerProjectLifecycle updates the roles of every tenant; the other
\* tables follow, and the seed when the count was 0.
Prepare ==
    /\ phase = "prepare"
    /\ permissions' = [t \in Tenants |-> [r \in DOMAIN permissions[t] |->
           permissions[t][r] \cup (IF r \in Writers THEN {<<"tasks", "write">>} ELSE {})]]
    /\ granted' = {tr \in Tenants \X DefaultRoles : tr[2] \in DOMAIN permissions[tr[1]]}
    /\ edited' = {}
    /\ phase' = IF empty THEN "seed" ELSE "serve"
    /\ UNCHANGED <<tenants, user, invitation, client, token, edits, founders, appointed,
                   accounts, empty, schema, step, crashes, partial, seeded>>

\* One seed: a tenant or a role that exists is left alone, a role without its
\* tenant or a user that cannot be created ends the process.
SeedFails(s) ==
    \/ s.kind = "role" /\ s.tenant \notin tenants
    \/ s.kind = "user" /\ (s.tenant \notin tenants \/ ~RoleExists(s.tenant, s.role) \/ Taken(s.email))

ApplySeed(s) ==
    /\ tenants' = IF s.kind = "tenant" THEN tenants \cup {s.tenant} ELSE tenants
    /\ IF s.kind = "role" /\ ~RoleExists(s.tenant, s.role)
       THEN permissions' = [permissions EXCEPT ![s.tenant] =
                [r \in DOMAIN @ \cup {s.role} |->
                    IF r = s.role THEN DefaultPermissions[r] ELSE @[r]]]
       ELSE UNCHANGED permissions
    /\ IF s.kind = "user" THEN InsertUser(s.email, s.tenant, s.role)
                          ELSE UNCHANGED <<user, appointed>>

NextSeed ==
    IF step = Len(Seed) THEN phase' = "serve" /\ seeded' = TRUE /\ UNCHANGED step
                        ELSE step' = step + 1 /\ UNCHANGED <<phase, seeded>>

SeedStep ==
    /\ phase = "seed"
    /\ ~SeedFails(Seed[step])
    /\ ApplySeed(Seed[step])
    /\ NextSeed
    /\ UNCHANGED <<invitation, client, token, edits, founders, accounts,
                   empty, schema, crashes, partial, granted, edited>>

\* CreateTenant discards the error of its transaction: the tenant is not there,
\* and the seeds go on to the first row that refers to it.
TenantLost ==
    /\ phase = "seed"
    /\ Seed[step].kind = "tenant"
    /\ crashes < MaxCrashes
    /\ crashes' = crashes + 1
    /\ NextSeed
    /\ UNCHANGED <<identityVars, empty, schema, partial, granted, edited>>

-----------------------------------------------------------------------------
\* The end of the process.

\* Requests in flight are rolled back.
Stop ==
    /\ phase' = "down"
    /\ client' = [c \in Clients |-> Idle]
    /\ partial' = (partial \/ (phase = "seed" /\ tenants # {}))
    /\ UNCHANGED <<tenants, permissions, user, invitation, token, edits, founders, appointed,
                   accounts, empty, schema, step, seeded, granted, edited>>

\* log.Fatalf on a seed that fails.
Fatal ==
    /\ phase = "seed"
    /\ SeedFails(Seed[step])
    /\ Stop
    /\ UNCHANGED crashes

\* The process is stopped, or ends itself because the database does not answer.
Crash ==
    /\ phase # "down"
    /\ crashes < MaxCrashes
    /\ crashes' = crashes + 1
    /\ Stop

\* Requests are served.
Serve ==
    /\ phase = "serve"
    /\ Public \/ Administration
    /\ edited' = edited \cup {tr \in Tenants \X DefaultRoles :
           /\ tr[2] \in DOMAIN permissions[tr[1]]
           /\ permissions'[tr[1]][tr[2]] # permissions[tr[1]][tr[2]]}
    /\ UNCHANGED <<phase, empty, schema, step, crashes, partial, seeded, granted>>

\* Tokens expire whether or not the process is up.
TokenExpires ==
    /\ \E k \in token : Expire(k)
    /\ UNCHANGED startVars

Next == Start \/ Prepare \/ SeedStep \/ TenantLost \/ Fatal \/ Crash \/ Serve \/ TokenExpires

Spec == Init /\ [][Next]_vars

\* A stopped process is started again, and a start goes on.
Fairness == WF_vars(Start) /\ WF_vars(Prepare) /\ WF_vars(SeedStep) /\ WF_vars(Fatal)

FairSpec == Spec /\ Fairness

-----------------------------------------------------------------------------

\* SeedIfNeeded "Database is empty. Seeding": the process serves a database
\* with all its seeds, unless an earlier one stopped between two of them,
\* after which no start completes them; and the seeds are never made again.
SeededUnlessInterrupted == phase = "serve" => seeded \/ partial

\* ensureCustomerProjectLifecycle gives technicians and managers tasks:write.
\* Every such role the last start found has it while the process serves, also
\* one an administrator took it from before that start, unless it was edited
\* since.  Of the roles made after the grants nothing is said here: a seeded or
\* registered tenant is without it (V10_CUSTOMER_PROJECT_LIFECYCLE.md says the
\* technicians receive it) until the next start.
WriteFollowsStart ==
    phase = "serve" => \A t \in Tenants, r \in {"field_technician", "manager"} :
        <<t, r>> \in granted \ edited =>
            r \in DOMAIN permissions[t] /\ <<"tasks", "write">> \in permissions[t][r]


=============================================================================
