--------------------------- MODULE StartupProofs ---------------------------
(***************************************************************************)
(* Theorems about Startup and the Identity it starts, for any tenants,     *)
(* users, invitations and requests, any seed and any bounds.               *)
(***************************************************************************)
EXTENDS Startup, FiniteSetTheorems, TLAPS

\* What the rows refer to is there: the user of a token, the invitation a
\* client has read, the tenant of a role or of a founder.
RowsThere ==
    /\ \A k \in token : user[k.email] # None
    /\ \A c \in Clients : client[c].kind = "activate" =>
           invitation[client[c].invitation] # None
    /\ \A t \in Tenants \ tenants : DOMAIN permissions[t] = {} /\ founders[t] = {}

TypeInv == TypeOK /\ RowsThere

-----------------------------------------------------------------------------
\* Type correctness.

Writing == <<"tasks", "write">>

LEMMA Defaults ==
  /\ DefaultPermissions \in [DefaultRoles -> SUBSET Permissions]
  /\ DOMAIN DefaultPermissions = DefaultRoles
  /\ Writing \in Permissions
  /\ \A r \in DefaultRoles : Writing \notin DefaultPermissions[r]
  /\ "tenant_admin" \in DefaultRoles
  /\ "field_technician" \in DefaultRoles
<1>1. DefaultRoles = {"field_technician", "finance_officer", "manager", "tenant_admin"}
  BY DEF DefaultRoles
<1>2. DOMAIN DefaultPermissions = DefaultRoles
  BY <1>1 DEF DefaultPermissions
<1>3. DefaultPermissions = [r \in DefaultRoles |-> DefaultPermissions[r]]
  BY <1>2 DEF DefaultPermissions
<1>4. \A r \in DefaultRoles : DefaultPermissions[r] \subseteq Permissions
  BY DEF Permissions
<1>5. Writing \in Permissions
  BY DEF Permissions, Writing
<1>6. \A r \in DefaultRoles : Writing \notin DefaultPermissions[r]
  BY <1>1 DEF DefaultPermissions, Writing
<1> QED BY <1>1, <1>2, <1>3, <1>4, <1>5, <1>6

\* What a client in flight holds, by the kind of its request.
LEMMA ClientFields ==
  ASSUME TypeOK, NEW c \in Clients
  PROVE  /\ client[c].kind = "register" =>
               /\ client[c].email \in Emails
               /\ client[c].tenant \in Tenants
               /\ client[c].founds \in BOOLEAN
         /\ client[c].kind = "activate" => client[c].invitation \in Invitations
  BY DEF TypeOK, IdentityTypeOK, Request, Idle

\* The fields of the rows of users, tokens, invitations and seeds.
LEMMA RowFields ==
  ASSUME TypeOK
  PROVE  /\ \A e \in Emails : user[e] # None =>
                user[e].tenant \in Tenants /\ user[e].role \in DefaultRoles
         /\ \A k \in token : k.email \in Emails /\ k.role \in DefaultRoles
         /\ \A i \in Invitations : invitation[i] # None =>
                /\ invitation[i].tenant \in Tenants
                /\ invitation[i].email \in Emails
                /\ invitation[i].role \in RoleNames
                /\ invitation[i].status \in {"Pending", "Accepted"}
  BY DEF TypeOK, IdentityTypeOK, User, Token, Invitation

LEMMA TypeInit == ASSUME Init PROVE TypeInv
<1>1. IdentityTypeOK
  <2>1. \A t \in Tenants : /\ DOMAIN permissions[t] \in SUBSET DefaultRoles
                           /\ permissions[t] \in [DOMAIN permissions[t] -> SUBSET Permissions]
    BY DEF NoRoles, Init, IdentityInit
  <2> QED BY <2>1, IdentityAssumption DEF IdentityTypeOK, Idle, Init, IdentityInit
<1>2. RowsThere
  BY DEF RowsThere, Idle, NoRoles, Init, IdentityInit
<1>3. 1 \in 1 .. Len(Seed) /\ 0 \in 0 .. MaxCrashes
  BY StartupAssumption
<1> QED BY <1>1, <1>2, <1>3 DEF TypeInv, TypeOK, Init

\* Users stay, in their tenants.
UsersStay ==
    \A e \in Emails : user[e] # None => user'[e] # None /\ user'[e].tenant = user[e].tenant

\* What a step of Identity keeps.
Kept == IdentityTypeOK' /\ RowsThere' /\ UsersStay

\* A new user.
LEMMA UserAdded ==
  ASSUME TypeOK, NEW e \in Emails, NEW t \in Tenants, NEW r \in DefaultRoles,
         user[e] = None, user' = [user EXCEPT ![e] = [tenant |-> t, role |-> r]]
  PROVE  user' \in [Emails -> User \cup {None}] /\ UsersStay /\ user'[e] # None
<1>1. [tenant |-> t, role |-> r] \in User
  BY DEF User
<1>2. [tenant |-> t, role |-> r] # None
  BY <1>1, IdentityAssumption
<1>3. user \in [Emails -> User \cup {None}]
  BY DEF TypeOK, IdentityTypeOK
<1> QED BY <1>1, <1>2, <1>3 DEF UsersStay

\* A token for a user.
LEMMA TokenIssued ==
  ASSUME TypeOK, NEW e \in Emails, NEW r \in DefaultRoles, Issue(e, r)
  PROVE  token' \in SUBSET Token /\ \A k \in token' : k \in token \/ k.email = e
  BY DEF Issue, Token, TypeOK, IdentityTypeOK

LEMMA BeginRegisterKeeps ==
  ASSUME TypeInv, NEW c \in Clients, NEW e \in Emails, NEW t \in Tenants, BeginRegister(c, e, t)
  PROVE  Kept
<1> DEFINE q == [kind |-> "register", email |-> e, tenant |-> t, founds |-> t \notin tenants]
<1>1. client' = [client EXCEPT ![c] = q] /\ q \in Request
  BY DEF BeginRegister, Request
<1>2. client' \in [Clients -> Request \cup {Idle}]
  BY <1>1 DEF TypeInv, TypeOK, IdentityTypeOK
<1>3. \A d \in Clients : client'[d].kind = "activate" => client'[d] = client[d]
  BY <1>1 DEF TypeInv, TypeOK, IdentityTypeOK
<1>4. UNCHANGED <<tenants, permissions, user, invitation, token, edits, founders, appointed, accounts>>
  BY DEF BeginRegister
<1> QED BY <1>2, <1>3, <1>4 DEF Kept, UsersStay, TypeInv, TypeOK, IdentityTypeOK, RowsThere

LEMMA FinishRegisterKeeps ==
  ASSUME TypeInv, NEW c \in Clients, FinishRegister(c)
  PROVE  Kept
<1> DEFINE q == client[c]
           role == RegisteredRole(q)
<1>1. q.email \in Emails /\ q.tenant \in Tenants /\ q.founds \in BOOLEAN
  BY ClientFields DEF FinishRegister, TypeInv
<1>2. /\ client' \in [Clients -> Request \cup {Idle}]
      /\ \A d \in Clients : client'[d].kind = "activate" => client'[d] = client[d]
  BY DEF FinishRegister, TypeInv, TypeOK, IdentityTypeOK, Idle
<1>3. CASE RegisterConflicts(q)
  <2>1. UNCHANGED <<tenants, permissions, user, token, founders, invitation, edits, appointed, accounts>>
    BY <1>3 DEF FinishRegister
  <2> QED BY <1>2, <2>1 DEF Kept, UsersStay, TypeInv, TypeOK, IdentityTypeOK, RowsThere
<1>4. CASE ~RegisterConflicts(q)
  <2>1. CommitRegister(q) /\ UNCHANGED <<invitation, edits, appointed, accounts>>
    BY <1>4 DEF FinishRegister
  <2>2. role \in DefaultRoles
    BY Defaults DEF RegisteredRole
  <2>3. user' \in [Emails -> User \cup {None}] /\ UsersStay /\ user'[q.email] # None
    BY <1>1, <1>4, <2>1, <2>2, UserAdded DEF CommitRegister, RegisterConflicts, Taken, TypeInv
  <2>4. token' \in SUBSET Token /\ \A k \in token' : k \in token \/ k.email = q.email
    BY <1>1, <2>1, <2>2, TokenIssued DEF CommitRegister, TypeInv
  <2>5. /\ DOMAIN permissions' = Tenants
        /\ \A t \in Tenants : /\ DOMAIN permissions'[t] \in SUBSET DefaultRoles
                              /\ permissions'[t] \in [DOMAIN permissions'[t] -> SUBSET Permissions]
        /\ \A t \in Tenants : t # q.tenant => permissions'[t] = permissions[t]
    BY <1>1, <2>1, Defaults DEF CommitRegister, TypeInv, TypeOK, IdentityTypeOK
  <2>6. /\ founders' \in [Tenants -> SUBSET Emails]
        /\ \A t \in Tenants : t # q.tenant => founders'[t] = founders[t]
    BY <1>1, <2>1 DEF CommitRegister, TypeInv, TypeOK, IdentityTypeOK
  <2>7. tenants' = tenants \cup {q.tenant}
    BY <2>1 DEF CommitRegister
  <2>8. IdentityTypeOK'
    BY <1>1, <1>2, <2>1, <2>3, <2>4, <2>5, <2>6, <2>7 DEF TypeInv, TypeOK, IdentityTypeOK
  <2>9. RowsThere'
    <3>1. \A k \in token' : user'[k.email] # None
      BY <2>3, <2>4, RowFields DEF UsersStay, TypeInv, RowsThere
    <3> QED BY <1>2, <2>1, <2>5, <2>6, <2>7, <3>1 DEF TypeInv, RowsThere
  <2> QED BY <2>3, <2>8, <2>9 DEF Kept
<1> QED BY <1>3, <1>4

LEMMA BeginActivateKeeps ==
  ASSUME TypeInv, NEW c \in Clients, NEW i \in Invitations, BeginActivate(c, i)
  PROVE  Kept
<1> DEFINE q == [kind |-> "activate", invitation |-> i]
<1>1. client' = [client EXCEPT ![c] = q] /\ q \in Request /\ invitation[i] # None
  BY DEF BeginActivate, Request
<1>2. client' \in [Clients -> Request \cup {Idle}]
  BY <1>1 DEF TypeInv, TypeOK, IdentityTypeOK
<1>3. \A d \in Clients : client'[d].kind = "activate" =>
          client'[d] = client[d] \/ client'[d].invitation = i
  BY <1>1 DEF TypeInv, TypeOK, IdentityTypeOK
<1>4. UNCHANGED <<tenants, permissions, user, invitation, token, edits, founders, appointed, accounts>>
  BY DEF BeginActivate
<1> QED BY <1>1, <1>2, <1>3, <1>4 DEF Kept, UsersStay, TypeInv, TypeOK, IdentityTypeOK, RowsThere

LEMMA FinishActivateKeeps ==
  ASSUME TypeInv, NEW c \in Clients, FinishActivate(c)
  PROVE  Kept
<1> DEFINE i == client[c].invitation
           inv == invitation[i]
<1>1. /\ i \in Invitations
      /\ inv # None
      /\ inv.tenant \in Tenants
      /\ inv.email \in Emails
      /\ inv \in Invitation
  BY ClientFields, RowFields DEF FinishActivate, TypeInv, RowsThere, TypeOK, IdentityTypeOK
<1>2. /\ client' \in [Clients -> Request \cup {Idle}]
      /\ \A d \in Clients : client'[d].kind = "activate" => client'[d] = client[d]
  BY DEF FinishActivate, TypeInv, TypeOK, IdentityTypeOK, Idle
<1>3. UNCHANGED <<tenants, permissions, edits, founders>>
  BY DEF FinishActivate
<1>4. CASE ActivateConflicts(inv)
  <2>1. UNCHANGED <<invitation, user, token, appointed, accounts>>
    BY <1>4 DEF FinishActivate
  <2> QED BY <1>2, <1>3, <2>1 DEF Kept, UsersStay, TypeInv, TypeOK, IdentityTypeOK, RowsThere
<1>5. CASE ~ActivateConflicts(inv)
  <2>1. AcceptInvitation(i) /\ Issue(inv.email, inv.role)
    BY <1>5 DEF FinishActivate
  <2>2. inv.role \in DefaultRoles /\ ~Taken(inv.email)
    BY <1>1, <1>5 DEF ActivateConflicts, RoleExists, TypeInv, TypeOK, IdentityTypeOK
  <2>3. user' \in [Emails -> User \cup {None}] /\ UsersStay /\ user'[inv.email] # None
    BY <1>1, <2>1, <2>2, UserAdded DEF AcceptInvitation, Taken, TypeInv
  <2>4. token' \in SUBSET Token /\ \A k \in token' : k \in token \/ k.email = inv.email
    BY <1>1, <2>1, <2>2, TokenIssued DEF TypeInv
  <2>5. /\ [inv EXCEPT !.status = "Accepted"] \in Invitation
        /\ [inv EXCEPT !.status = "Accepted"] # None
    <3>1. [inv EXCEPT !.status = "Accepted"] \in Invitation
      BY <1>1 DEF Invitation
    <3> QED BY <3>1, IdentityAssumption
  <2>6. /\ invitation' \in [Invitations -> Invitation \cup {None}]
        /\ \A j \in Invitations : invitation[j] # None => invitation'[j] # None
    BY <1>1, <2>1, <2>5 DEF AcceptInvitation, TypeInv, TypeOK, IdentityTypeOK
  <2>7. appointed' \in SUBSET Emails /\ accounts' \in [Invitations -> Nat]
    BY <1>1, <2>1 DEF AcceptInvitation, TypeInv, TypeOK, IdentityTypeOK
  <2>8. IdentityTypeOK'
    BY <1>2, <1>3, <2>3, <2>4, <2>6, <2>7 DEF TypeInv, TypeOK, IdentityTypeOK
  <2>9. RowsThere'
    <3>1. \A k \in token' : user'[k.email] # None
      BY <2>3, <2>4, RowFields DEF UsersStay, TypeInv, RowsThere
    <3>2. \A d \in Clients : client'[d].kind = "activate" => invitation'[client'[d].invitation] # None
      BY <1>2, <2>6, ClientFields DEF TypeInv, RowsThere
    <3> QED BY <1>3, <3>1, <3>2 DEF TypeInv, RowsThere
  <2> QED BY <2>3, <2>8, <2>9 DEF Kept
<1> QED BY <1>4, <1>5

LEMMA LoginKeeps ==
  ASSUME TypeInv, NEW e \in Emails, Login(e)
  PROVE  Kept
<1>1. user[e] # None /\ user[e].role \in DefaultRoles
  BY RowFields DEF Login, Taken, TypeInv
<1>2. token' \in SUBSET Token /\ \A k \in token' : k \in token \/ k.email = e
  BY <1>1, TokenIssued DEF Login, TypeInv
<1>3. UNCHANGED <<tenants, permissions, user, invitation, client, edits, founders, appointed, accounts>>
  BY DEF Login
<1> QED BY <1>1, <1>2, <1>3 DEF Kept, UsersStay, TypeInv, TypeOK, IdentityTypeOK, RowsThere

\* The user of a token, whose tenant an administration endpoint works in.
LEMMA Administrator ==
  ASSUME TypeInv, NEW k \in token
  PROVE  user[k.email].tenant \in Tenants
  BY RowFields DEF TypeInv, RowsThere

LEMMA AdministrationKeeps ==
  ASSUME TypeInv, Administration
  PROVE  Kept
<1>1. ASSUME NEW t \in Tenants, CreateTenant(t) PROVE Kept
  BY <1>1 DEF CreateTenant, Kept, UsersStay, TypeInv, TypeOK, IdentityTypeOK, RowsThere
<1>2. ASSUME NEW e \in Emails, NEW r \in RoleNames, UpdateUserRole(e, r) PROVE Kept
  <2> DEFINE u == [user[e] EXCEPT !.role = r]
  <2>1. user[e] \in User /\ r \in DefaultRoles
    BY <1>2 DEF UpdateUserRole, Taken, RoleExists, TypeInv, TypeOK, IdentityTypeOK, User
  <2>2. u \in User /\ u.tenant = user[e].tenant
    BY <2>1 DEF User
  <2>3. u # None
    BY <2>2, IdentityAssumption
  <2>4. user' = [user EXCEPT ![e] = u]
    BY <1>2 DEF UpdateUserRole
  <2>5. user' \in [Emails -> User \cup {None}] /\ UsersStay
    BY <2>2, <2>3, <2>4 DEF UsersStay, TypeInv, TypeOK, IdentityTypeOK
  <2>6. appointed' \in SUBSET Emails
    BY <1>2 DEF UpdateUserRole, TypeInv, TypeOK, IdentityTypeOK
  <2>7. UNCHANGED <<tenants, permissions, invitation, client, token, edits, founders, accounts>>
    BY <1>2 DEF UpdateUserRole
  <2>8. \A k \in token : user'[k.email] # None
    BY <2>5, RowFields DEF UsersStay, TypeInv, RowsThere
  <2> QED BY <2>5, <2>6, <2>7, <2>8 DEF Kept, TypeInv, TypeOK, IdentityTypeOK, RowsThere
<1>3. ASSUME NEW k \in token, NEW i \in Invitations, NEW e \in Emails, NEW r \in RoleNames,
             Invite(k, i, e, r)
      PROVE  Kept
  <2> DEFINE inv == [tenant |-> user[k.email].tenant, email |-> e, role |-> r, status |-> "Pending"]
  <2>1. inv \in Invitation
    BY Administrator DEF Invitation
  <2>2. inv # None
    BY <2>1, IdentityAssumption
  <2>3. invitation' = [invitation EXCEPT ![i] = inv]
    BY <1>3 DEF Invite, CreateInvitation
  <2>4. /\ invitation' \in [Invitations -> Invitation \cup {None}]
        /\ \A j \in Invitations : invitation[j] # None => invitation'[j] # None
    BY <2>1, <2>2, <2>3 DEF TypeInv, TypeOK, IdentityTypeOK
  <2>5. UNCHANGED <<tenants, permissions, user, client, token, edits, founders, appointed, accounts>>
    BY <1>3 DEF Invite
  <2>6. \A d \in Clients : client[d].kind = "activate" => invitation'[client[d].invitation] # None
    BY <2>4, ClientFields DEF TypeInv, RowsThere
  <2> QED BY <2>4, <2>5, <2>6 DEF Kept, UsersStay, TypeInv, TypeOK, IdentityTypeOK, RowsThere
<1>4. ASSUME NEW e \in Emails, NEW t \in Tenants, NEW r \in RoleNames, CreateUser(e, t, r)
      PROVE  Kept
  <2>1. r \in DefaultRoles
    BY <1>4 DEF CreateUser, InsertUser, RoleExists, TypeInv, TypeOK, IdentityTypeOK
  <2>2. user' \in [Emails -> User \cup {None}] /\ UsersStay
    BY <1>4, <2>1, UserAdded DEF CreateUser, InsertUser, Taken, TypeInv
  <2>3. appointed' \in SUBSET Emails
    BY <1>4 DEF CreateUser, InsertUser, TypeInv, TypeOK, IdentityTypeOK
  <2>4. UNCHANGED <<tenants, permissions, invitation, client, token, edits, founders, accounts>>
    BY <1>4 DEF CreateUser
  <2>5. \A k \in token : user'[k.email] # None
    BY <2>2, RowFields DEF UsersStay, TypeInv, RowsThere
  <2> QED BY <2>2, <2>3, <2>4, <2>5 DEF Kept, TypeInv, TypeOK, IdentityTypeOK, RowsThere
<1>5. ASSUME NEW k \in token, NEW r \in Editable, NEW ps \in Policies, UpdateRBAC(k, r, ps)
      PROVE  Kept
  <2> DEFINE t == user[k.email].tenant
  <2>1. t \in Tenants /\ r \in DOMAIN permissions[t]
    BY <1>5, Administrator DEF UpdateRBAC, UpdateRolePermissions, RoleExists
  <2>2. ps \in SUBSET Permissions
    BY DEF Permissions
  <2>3. permissions' = [permissions EXCEPT ![t] = [permissions[t] EXCEPT ![r] = ps]]
    BY <1>5 DEF UpdateRBAC, UpdateRolePermissions
  <2>4. /\ DOMAIN permissions' = Tenants
        /\ \A x \in Tenants : /\ DOMAIN permissions'[x] = DOMAIN permissions[x]
                              /\ permissions'[x] \in [DOMAIN permissions'[x] -> SUBSET Permissions]
    BY <2>1, <2>2, <2>3 DEF TypeInv, TypeOK, IdentityTypeOK
  <2>5. edits' \in 0 .. MaxEdits
    BY <1>5, IdentityAssumption DEF UpdateRBAC, TypeInv, TypeOK, IdentityTypeOK
  <2>6. UNCHANGED <<tenants, user, invitation, client, token, founders, appointed, accounts>>
    BY <1>5 DEF UpdateRBAC
  <2> QED BY <2>4, <2>5, <2>6 DEF Kept, UsersStay, TypeInv, TypeOK, IdentityTypeOK, RowsThere
<1> QED BY <1>1, <1>2, <1>3, <1>4, <1>5 DEF Administration

LEMMA PublicKeeps ==
  ASSUME TypeInv, Public
  PROVE  Kept
  BY BeginRegisterKeeps, FinishRegisterKeeps, BeginActivateKeeps, FinishActivateKeeps, LoginKeeps
     DEF Public

LEMMA StopKeeps ==
  ASSUME TypeInv, Stop
  PROVE  Kept
  BY DEF Stop, Kept, UsersStay, TypeInv, TypeOK, IdentityTypeOK, RowsThere, Idle

LEMMA PrepareKeeps ==
  ASSUME TypeInv, Prepare
  PROVE  Kept /\ \A t \in Tenants : DOMAIN permissions'[t] = DOMAIN permissions[t]
<1>1. /\ DOMAIN permissions' = Tenants
      /\ \A t \in Tenants :
            /\ DOMAIN permissions'[t] = DOMAIN permissions[t]
            /\ \A r \in DOMAIN permissions[t] :
                   permissions'[t][r] = permissions[t][r] \cup (IF r \in Writers THEN {Writing} ELSE {})
            /\ permissions'[t] = [r \in DOMAIN permissions'[t] |-> permissions'[t][r]]
  BY DEF Prepare, Writing
<1>2. \A t \in Tenants : permissions'[t] \in [DOMAIN permissions'[t] -> SUBSET Permissions]
  BY <1>1, Defaults DEF TypeInv, TypeOK, IdentityTypeOK
<1>3. UNCHANGED <<tenants, user, invitation, client, token, edits, founders, appointed, accounts>>
  BY DEF Prepare
<1> QED BY <1>1, <1>2, <1>3 DEF Kept, UsersStay, TypeInv, TypeOK, IdentityTypeOK, RowsThere

\* The next seed.
LEMMA SeedFields ==
  ASSUME TypeOK
  PROVE  /\ Seed[step].kind = "tenant" => Seed[step].tenant \in Tenants
         /\ Seed[step].kind = "role" => /\ Seed[step].tenant \in Tenants
                                        /\ Seed[step].role \in DefaultRoles
         /\ Seed[step].kind = "user" => /\ Seed[step].tenant \in Tenants
                                        /\ Seed[step].email \in Emails
                                        /\ Seed[step].role \in DefaultRoles
<1>1. Seed[step] \in TenantSeeds \cup RoleSeeds \cup UserSeeds \cup OtherSeeds
  BY StartupAssumption DEF TypeOK
<1> QED BY <1>1 DEF TenantSeeds, RoleSeeds, UserSeeds, OtherSeeds

\* Roles are added, with the permissions every tenant starts with.
RolesGrow ==
    \A t \in Tenants, r \in DefaultRoles :
        /\ r \in DOMAIN permissions[t] => r \in DOMAIN permissions'[t]
        /\ r \in DOMAIN permissions'[t] /\ r \notin DOMAIN permissions[t] =>
               permissions'[t][r] = DefaultPermissions[r]

\* A seed leaves the rows there are alone.
LEMMA SeedStepKeeps ==
  ASSUME TypeInv, SeedStep
  PROVE  /\ Kept
         /\ RolesGrow
         /\ \A t \in Tenants : \A r \in DOMAIN permissions[t] :
               permissions'[t][r] = permissions[t][r]
<1> DEFINE s == Seed[step]
<1>1. UNCHANGED <<invitation, client, token, edits, founders, accounts>>
  BY DEF SeedStep
<1>2. CASE s.kind = "user"
  <2>1. InsertUser(s.email, s.tenant, s.role) /\ UNCHANGED <<tenants, permissions>>
    BY <1>2 DEF SeedStep, ApplySeed
  <2>2. s.email \in Emails /\ s.tenant \in Tenants /\ s.role \in DefaultRoles
    BY <1>2, SeedFields DEF TypeInv
  <2>3. user' \in [Emails -> User \cup {None}] /\ UsersStay
    BY <2>1, <2>2, UserAdded DEF InsertUser, Taken, TypeInv
  <2>4. appointed' \in SUBSET Emails
    BY <2>1, <2>2 DEF InsertUser, TypeInv, TypeOK, IdentityTypeOK
  <2>5. \A k \in token : user'[k.email] # None
    BY <2>3, RowFields DEF UsersStay, TypeInv, RowsThere
  <2> QED BY <1>1, <2>1, <2>3, <2>4, <2>5
          DEF Kept, RolesGrow, TypeInv, TypeOK, IdentityTypeOK, RowsThere
<1>3. CASE s.kind = "role" /\ ~RoleExists(s.tenant, s.role)
  <2> DEFINE new == [r \in (DOMAIN permissions[s.tenant]) \cup {s.role} |->
                        IF r = s.role THEN DefaultPermissions[r] ELSE permissions[s.tenant][r]]
  <2>1. /\ permissions' = [permissions EXCEPT ![s.tenant] = new]
        /\ UNCHANGED <<tenants, user, appointed>>
        /\ s.tenant \in tenants
    BY <1>3 DEF SeedStep, SeedFails, ApplySeed
  <2>2. s.tenant \in Tenants /\ s.role \in DefaultRoles
    BY <1>3, SeedFields DEF TypeInv
  <2>3. DOMAIN new \in SUBSET DefaultRoles
    BY <2>2 DEF TypeInv, TypeOK, IdentityTypeOK
  <2>4. new \in [DOMAIN new -> SUBSET Permissions]
    BY <2>2, Defaults DEF TypeInv, TypeOK, IdentityTypeOK
  <2>5. /\ DOMAIN permissions' = Tenants
        /\ \A t \in Tenants : /\ DOMAIN permissions'[t] \in SUBSET DefaultRoles
                              /\ permissions'[t] \in [DOMAIN permissions'[t] -> SUBSET Permissions]
        /\ \A t \in Tenants \ tenants : permissions'[t] = permissions[t]
    <3> HIDE DEF new
    <3> QED BY <2>1, <2>2, <2>3, <2>4 DEF TypeInv, TypeOK, IdentityTypeOK
  <2>6. Kept
    BY <1>1, <2>1, <2>5 DEF Kept, UsersStay, TypeInv, TypeOK, IdentityTypeOK, RowsThere
  <2>7. ASSUME NEW t \in Tenants, NEW r \in DefaultRoles
        PROVE  /\ r \in DOMAIN permissions[t] =>
                      r \in DOMAIN permissions'[t] /\ permissions'[t][r] = permissions[t][r]
               /\ r \in DOMAIN permissions'[t] /\ r \notin DOMAIN permissions[t] =>
                      permissions'[t][r] = DefaultPermissions[r]
    BY <1>3, <2>1, <2>2 DEF RoleExists, TypeInv, TypeOK, IdentityTypeOK
  <2> QED BY <2>6, <2>7 DEF RolesGrow, TypeInv, TypeOK, IdentityTypeOK
<1>4. CASE s.kind = "tenant"
  <2>1. /\ tenants' = tenants \cup {s.tenant}
        /\ UNCHANGED <<permissions, user, appointed>>
        /\ s.tenant \in Tenants
    BY <1>4, SeedFields DEF SeedStep, ApplySeed, TypeInv
  <2> QED BY <1>1, <2>1 DEF Kept, RolesGrow, UsersStay, TypeInv, TypeOK, IdentityTypeOK, RowsThere
<1>5. CASE s.kind \notin {"tenant", "user"} /\ ~(s.kind = "role" /\ ~RoleExists(s.tenant, s.role))
  <2>1. UNCHANGED <<tenants, permissions, user, appointed>>
    BY <1>5 DEF SeedStep, ApplySeed
  <2> QED BY <1>1, <2>1 DEF Kept, RolesGrow, UsersStay, TypeInv, TypeOK, IdentityTypeOK, RowsThere
<1> QED BY <1>2, <1>3, <1>4, <1>5

\* Tokens that expire, starts and a lost tenant change no row.
LEMMA StillKeeps ==
  ASSUME TypeInv, TokenExpires \/ Start \/ TenantLost \/ UNCHANGED vars
  PROVE  Kept /\ UNCHANGED <<tenants, permissions, user, invitation, founders, appointed, accounts>>
<1>1. CASE TokenExpires
  BY <1>1 DEF TokenExpires, Expire, Kept, UsersStay, TypeInv, TypeOK, IdentityTypeOK, RowsThere
<1>2. CASE Start \/ TenantLost \/ UNCHANGED vars
  BY <1>2 DEF Start, TenantLost, vars, identityVars, Kept, UsersStay, TypeInv, TypeOK, IdentityTypeOK, RowsThere
<1> QED BY <1>1, <1>2

\* After a seed comes the next, or the service.
LEMMA NextSeedTypes ==
  ASSUME TypeOK, phase = "seed", NextSeed
  PROVE  /\ phase' \in {"seed", "serve"} /\ seeded' \in BOOLEAN
         /\ step' \in 1 .. Len(Seed)
<1>1. Len(Seed) \in Nat /\ step \in 1 .. Len(Seed)
  BY StartupAssumption DEF TypeOK
<1>2. step # Len(Seed) => step + 1 \in 1 .. Len(Seed)
  BY <1>1
<1> QED BY <1>1, <1>2 DEF NextSeed, TypeOK

\* The process: what its steps do to its own variables.
LEMMA ProcessTypes ==
  ASSUME TypeInv, [Next]_vars, Kept
  PROVE  TypeOK'
<1>1. CASE Start
  BY <1>1, StartupAssumption DEF Start, NoTenants, Kept, TypeInv, TypeOK
<1>2. CASE Prepare
  <2>1. granted' \in SUBSET (Tenants \X DefaultRoles)
    BY <1>2 DEF Prepare
  <2> QED BY <1>2, <2>1 DEF Prepare, Kept, TypeInv, TypeOK
<1>3. CASE SeedStep \/ TenantLost
  <2>1. /\ phase' \in {"seed", "serve"} /\ seeded' \in BOOLEAN
        /\ step' \in 1 .. Len(Seed)
    BY <1>3, NextSeedTypes DEF SeedStep, TenantLost, TypeInv
  <2>2. crashes' \in 0 .. MaxCrashes
    BY <1>3, StartupAssumption DEF SeedStep, TenantLost, TypeInv, TypeOK
  <2> QED BY <1>3, <2>1, <2>2 DEF SeedStep, TenantLost, Kept, TypeInv, TypeOK
<1>4. CASE Fatal
  BY <1>4 DEF Fatal, Stop, Kept, TypeInv, TypeOK
<1>5. CASE Crash
  <2>1. crashes' \in 0 .. MaxCrashes /\ partial' \in BOOLEAN
    BY <1>5, StartupAssumption DEF Crash, Stop, TypeInv, TypeOK
  <2> QED BY <1>5, <2>1 DEF Crash, Stop, Kept, TypeInv, TypeOK
<1>6. CASE Serve
  <2>1. edited' \in SUBSET (Tenants \X DefaultRoles)
    BY <1>6 DEF Serve, TypeInv, TypeOK
  <2> QED BY <1>6, <2>1 DEF Serve, Kept, TypeInv, TypeOK
<1>7. CASE TokenExpires
  BY <1>7 DEF TokenExpires, startVars, Kept, TypeInv, TypeOK
<1>8. CASE UNCHANGED vars
  BY <1>8 DEF vars, startVars, Kept, TypeInv, TypeOK
<1> QED BY <1>1, <1>2, <1>3, <1>4, <1>5, <1>6, <1>7, <1>8 DEF Next

LEMMA TypeStep == ASSUME TypeInv, [Next]_vars PROVE TypeInv' /\ UsersStay
<1>1. Kept
  BY StillKeeps, PrepareKeeps, SeedStepKeeps, StopKeeps, PublicKeeps, AdministrationKeeps
     DEF Next, Fatal, Crash, Serve
<1> QED BY <1>1, ProcessTypes DEF Kept, TypeInv

\* The tables, the requests in flight and the process have the types the code
\* gives them, and what a token, an accepting request or a role refers to is
\* there.
THEOREM TypeCorrect == Spec => []TypeInv /\ []TypeOK
<1>1. Init => TypeInv
  BY TypeInit
<1>2. TypeInv /\ [Next]_vars => TypeInv'
  BY TypeStep
<1>3. TypeInv => TypeOK
  BY DEF TypeInv
<1> QED BY <1>1, <1>2, <1>3, PTL DEF Spec

-----------------------------------------------------------------------------
\* What a step may change.

\* Steps that write a user, an invitation or the history of one.
Writes ==
    \/ \E c \in Clients : FinishRegister(c) \/ FinishActivate(c)
    \/ \E k \in token, i \in Invitations, e \in Emails, r \in RoleNames : Invite(k, i, e, r)
    \/ \E e \in Emails, r \in RoleNames : UpdateUserRole(e, r)
    \/ \E e \in Emails, t \in Tenants, r \in RoleNames : CreateUser(e, t, r)
    \/ SeedStep

SameRoles == \A t \in Tenants : DOMAIN permissions'[t] = DOMAIN permissions[t]

\* The others.
Quiet == SameRoles /\ UNCHANGED <<user, invitation, founders, appointed, accounts>>

LEMMA RBACKeepsRoles ==
  ASSUME TypeInv, NEW k \in token, NEW r \in Editable, NEW ps \in Policies, UpdateRBAC(k, r, ps)
  PROVE  SameRoles
<1>1. user[k.email].tenant \in Tenants
  BY Administrator
<1> QED BY <1>1 DEF UpdateRBAC, UpdateRolePermissions, SameRoles, TypeInv, TypeOK, IdentityTypeOK

LEMMA StepKinds == ASSUME TypeInv, [Next]_vars PROVE Writes \/ Quiet
<1>1. CASE Serve
  <2>1. CASE Public
    BY <2>1 DEF Public, BeginRegister, BeginActivate, Login, Writes, Quiet, SameRoles
  <2>2. CASE Administration
    <3>1. ASSUME NEW k \in token, NEW r \in Editable, NEW ps \in Policies, UpdateRBAC(k, r, ps)
          PROVE  Quiet
      BY <3>1, RBACKeepsRoles DEF UpdateRBAC, Quiet
    <3>2. ASSUME NEW t \in Tenants, CreateTenant(t) PROVE Quiet
      BY <3>2 DEF CreateTenant, Quiet, SameRoles
    <3> QED BY <2>2, <3>1, <3>2 DEF Administration, Writes
  <2> QED BY <1>1, <2>1, <2>2 DEF Serve
<1>2. CASE Prepare
  BY <1>2, PrepareKeeps DEF Prepare, Quiet, SameRoles
<1>3. CASE Fatal \/ Crash
  BY <1>3 DEF Fatal, Crash, Stop, Quiet, SameRoles
<1>4. CASE TokenExpires \/ Start \/ TenantLost \/ UNCHANGED vars
  BY <1>4, StillKeeps DEF Quiet, SameRoles
<1> QED BY <1>1, <1>2, <1>3, <1>4 DEF Next, Writes

\* A registration that commits, with what it found.
LEMMA Registered ==
  ASSUME TypeInv, NEW c \in Clients, FinishRegister(c)
  PROVE  \/ UNCHANGED <<user, permissions, founders>>
         \/ LET q == client[c] IN
            /\ q.email \in Emails /\ q.tenant \in Tenants
            /\ user[q.email] = None
            /\ CommitRegister(q)
            /\ q.founds => q.tenant \notin tenants
  BY ClientFields DEF FinishRegister, RegisterConflicts, Taken, TenantExists, TypeInv

\* An activation that commits.
LEMMA Activated ==
  ASSUME TypeInv, NEW c \in Clients, FinishActivate(c)
  PROVE  \/ UNCHANGED <<user, invitation, appointed, accounts>>
         \/ LET i == client[c].invitation IN
            /\ i \in Invitations
            /\ invitation[i] \in Invitation
            /\ invitation[i].role \in DefaultRoles
            /\ user[invitation[i].email] = None
            /\ AcceptInvitation(i)
<1> DEFINE i == client[c].invitation
<1>1. i \in Invitations /\ invitation[i] \in Invitation
  BY ClientFields DEF FinishActivate, TypeInv, TypeOK, IdentityTypeOK, RowsThere
<1>2. CASE ActivateConflicts(invitation[i])
  BY <1>2 DEF FinishActivate
<1>3. CASE ~ActivateConflicts(invitation[i])
  <2>1. invitation[i].tenant \in Tenants
    BY <1>1 DEF Invitation
  <2>2. invitation[i].role \in DefaultRoles
    BY <1>3, <2>1 DEF ActivateConflicts, RoleExists, TypeInv, TypeOK, IdentityTypeOK
  <2> QED BY <1>1, <1>3, <2>2 DEF FinishActivate, ActivateConflicts, Taken
<1> QED BY <1>2, <1>3

-----------------------------------------------------------------------------
\* Invitations.

LEMMA JoinsStep == ASSUME TypeInv, InvitationJoinsOnce, [Next]_vars PROVE InvitationJoinsOnce'
<1>1. UsersStay
  BY TypeStep
<1>2. CASE UNCHANGED <<invitation, accounts>>
  BY <1>1, <1>2, RowFields DEF InvitationJoinsOnce, UsersStay, TypeInv
<1>3. ASSUME NEW k \in token, NEW i \in Invitations, NEW e \in Emails, NEW r \in RoleNames,
             Invite(k, i, e, r)
      PROVE  InvitationJoinsOnce'
  <2>1. /\ accounts' = accounts /\ accounts[i] = 0
        /\ invitation'[i].status = "Pending" /\ \A j \in Invitations \ {i} : invitation'[j] = invitation[j]
    BY <1>3 DEF Invite, CreateInvitation, InvitationJoinsOnce, TypeInv, TypeOK, IdentityTypeOK
  <2> QED BY <1>1, <2>1, RowFields DEF InvitationJoinsOnce, UsersStay, TypeInv
<1>4. ASSUME NEW c \in Clients, FinishActivate(c), ~UNCHANGED <<invitation, accounts>>
      PROVE  InvitationJoinsOnce'
  <2> DEFINE i == client[c].invitation
             inv == invitation[i]
  <2>1. /\ i \in Invitations
        /\ inv \in Invitation
        /\ inv.role \in DefaultRoles
        /\ user[inv.email] = None
        /\ AcceptInvitation(i)
    BY <1>4, Activated
  <2>2. inv.email \in Emails /\ inv.tenant \in Tenants /\ inv # None
    BY <2>1, IdentityAssumption DEF Invitation
  <2>3. accounts[i] = 0 /\ accounts'[i] = 1
    BY <2>1 DEF InvitationJoinsOnce, AcceptInvitation, TypeInv, TypeOK, IdentityTypeOK
  <2>4. /\ invitation'[i] = [inv EXCEPT !.status = "Accepted"]
        /\ user'[inv.email] = [tenant |-> inv.tenant, role |-> inv.role]
        /\ \A j \in Invitations \ {i} : invitation'[j] = invitation[j] /\ accounts'[j] = accounts[j]
    BY <2>1, <2>2 DEF AcceptInvitation, TypeInv, TypeOK, IdentityTypeOK
  <2>5. /\ invitation'[i] \in Invitation
        /\ invitation'[i].status = "Accepted"
        /\ invitation'[i].email = inv.email
        /\ invitation'[i].tenant = inv.tenant
    BY <2>1, <2>4 DEF Invitation
  <2>6. user'[inv.email] # None /\ user'[inv.email].tenant = inv.tenant
    <3>1. [tenant |-> inv.tenant, role |-> inv.role] \in User
      BY <2>1, <2>2 DEF User
    <3> QED BY <2>4, <3>1, IdentityAssumption
  <2>7. invitation'[i] # None
    BY <2>5, IdentityAssumption
  <2>8. ASSUME NEW j \in Invitations \ {i}
        PROVE  /\ accounts'[j] <= 1
               /\ accounts'[j] # 0 <=> (invitation'[j] # None /\ invitation'[j].status = "Accepted")
               /\ accounts'[j] # 0 =>
                     /\ user'[invitation'[j].email] # None
                     /\ user'[invitation'[j].email].tenant = invitation'[j].tenant
    BY <1>1, <2>4, RowFields DEF InvitationJoinsOnce, UsersStay, TypeInv
  <2> QED BY <2>3, <2>5, <2>6, <2>7, <2>8 DEF InvitationJoinsOnce
<1>5. ASSUME NEW c \in Clients, FinishRegister(c) PROVE UNCHANGED <<invitation, accounts>>
  BY <1>5 DEF FinishRegister
<1>6. CASE Writes
  BY <1>2, <1>3, <1>4, <1>5, <1>6 DEF Writes, UpdateUserRole, CreateUser, SeedStep
<1> QED BY <1>2, <1>6, StepKinds DEF Quiet

\* However many activations run at once, an invitation makes one account, with
\* its address and in its tenant, and is accepted exactly when it has.
THEOREM InvitationsJoinOnce == Spec => []InvitationJoinsOnce
<1>1. Init => InvitationJoinsOnce
  BY DEF Init, IdentityInit, InvitationJoinsOnce
<1>2. TypeInv /\ InvitationJoinsOnce /\ [Next]_vars => InvitationJoinsOnce'
  BY JoinsStep
<1> QED BY <1>1, <1>2, TypeCorrect, PTL DEF Spec

-----------------------------------------------------------------------------
\* Administrators.

LEMMA AdministratorsStep ==
  ASSUME TypeInv, AdministratorsAreAppointed, [Next]_vars
  PROVE  AdministratorsAreAppointed'
<1>1. UsersStay /\ TypeOK'
  BY TypeStep DEF TypeInv
<1> DEFINE Founded == \A t \in Tenants : /\ Cardinality(founders[t]) <= 1
                                         /\ founders[t] # {} => DOMAIN permissions[t] = DefaultRoles
           Named(e) == user[e] # None /\ user[e].role = "tenant_admin" =>
                          e \in appointed \cup founders[user[e].tenant]
<1>2. Founded /\ \A e \in Emails : Named(e)
  BY DEF AdministratorsAreAppointed
<1>3. ASSUME Founded', \A e \in Emails : Named(e)' PROVE AdministratorsAreAppointed'
  BY <1>3 DEF AdministratorsAreAppointed
<1>4. ASSUME founders' = founders, RolesGrow PROVE Founded'
  BY <1>1, <1>2, <1>4 DEF RolesGrow, TypeOK, IdentityTypeOK
<1>5. ASSUME founders' = founders, appointed \subseteq appointed',
             \A e \in Emails : user'[e] = user[e] \/ e \in appointed'
      PROVE  \A e \in Emails : Named(e)'
  BY <1>2, <1>5
<1>6. CASE Quiet
  BY <1>3, <1>4, <1>5, <1>6 DEF Quiet, SameRoles, RolesGrow
<1>7. CASE SeedStep
  <2>1. RolesGrow /\ founders' = founders
    BY <1>7, SeedStepKeeps DEF SeedStep
  <2>2. /\ appointed \subseteq appointed'
        /\ \A e \in Emails : user'[e] = user[e] \/ e \in appointed'
    BY <1>7 DEF SeedStep, ApplySeed, InsertUser, TypeInv, TypeOK, IdentityTypeOK
  <2> QED BY <1>3, <1>4, <1>5, <2>1, <2>2
<1>8. ASSUME NEW e \in Emails, NEW r \in RoleNames,
             UpdateUserRole(e, r) \/ \E t \in Tenants : CreateUser(e, t, r)
      PROVE  AdministratorsAreAppointed'
  <2>1. /\ founders' = founders /\ permissions' = permissions
        /\ appointed' = appointed \cup {e}
        /\ \A x \in Emails \ {e} : user'[x] = user[x]
    BY <1>8 DEF UpdateUserRole, CreateUser, InsertUser, TypeInv, TypeOK, IdentityTypeOK
  <2> QED BY <1>3, <1>4, <1>5, <2>1 DEF RolesGrow
<1>9. ASSUME NEW k \in token, NEW i \in Invitations, NEW e \in Emails, NEW r \in RoleNames,
             Invite(k, i, e, r)
      PROVE  AdministratorsAreAppointed'
  BY <1>3, <1>4, <1>5, <1>9 DEF Invite, RolesGrow
<1>10. ASSUME NEW c \in Clients, FinishActivate(c) PROVE AdministratorsAreAppointed'
  <2>1. founders' = founders /\ permissions' = permissions
    BY <1>10 DEF FinishActivate
  <2>2. /\ appointed \subseteq appointed'
        /\ \A e \in Emails : user'[e] = user[e] \/ e \in appointed'
    BY <1>10, Activated DEF AcceptInvitation, Invitation, TypeInv, TypeOK, IdentityTypeOK
  <2> QED BY <1>3, <1>4, <1>5, <2>1, <2>2 DEF RolesGrow
<1>11. ASSUME NEW c \in Clients, FinishRegister(c) PROVE AdministratorsAreAppointed'
  <2> DEFINE q == client[c]
             role == RegisteredRole(q)
  <2>1. appointed' = appointed
    BY <1>11 DEF FinishRegister
  <2>2. CASE UNCHANGED <<user, permissions, founders>>
    BY <1>3, <1>4, <1>5, <2>1, <2>2 DEF RolesGrow
  <2>3. CASE /\ q.email \in Emails /\ q.tenant \in Tenants
             /\ user[q.email] = None
             /\ CommitRegister(q)
             /\ q.founds => q.tenant \notin tenants
    <3>1. /\ \A x \in Emails \ {q.email} : user'[x] = user[x]
          /\ user'[q.email] = [tenant |-> q.tenant, role |-> role]
      BY <2>3 DEF CommitRegister, TypeInv, TypeOK, IdentityTypeOK
    <3>2. CASE q.founds
      <4>1. role = "tenant_admin" /\ founders[q.tenant] = {}
        BY <2>3, <3>2 DEF RegisteredRole, TypeInv, RowsThere
      <4>2. /\ founders' = [founders EXCEPT ![q.tenant] = {q.email}]
            /\ permissions' = [permissions EXCEPT ![q.tenant] = DefaultPermissions]
        BY <2>3, <3>2, <4>1 DEF CommitRegister
      <4>3. \A t \in Tenants : /\ founders'[t] = IF t = q.tenant THEN {q.email} ELSE founders[t]
                               /\ permissions'[t] = IF t = q.tenant THEN DefaultPermissions ELSE permissions[t]
        BY <2>3, <4>2 DEF TypeInv, TypeOK, IdentityTypeOK
      <4>4. Cardinality({q.email}) = 1
        BY FS_Singleton
      <4>5. Founded'
        BY <1>2, <4>3, <4>4, Defaults
      <4>6. \A e \in Emails : Named(e)'
        <5>1. \A e \in Emails \ {q.email} : user[e] # None => user[e].tenant \in Tenants
          BY RowFields DEF TypeInv
        <5>2. ASSUME NEW e \in Emails \ {q.email} PROVE Named(e)'
          <6>1. user'[e] = user[e]
            BY <3>1
          <6>2. user[e] # None => founders[user[e].tenant] \subseteq founders'[user[e].tenant]
            BY <4>1, <4>3, <5>1
          <6> QED BY <1>2, <2>1, <6>1, <6>2
        <5>3. q.email \in founders'[user'[q.email].tenant]
          <6>1. user'[q.email].tenant = q.tenant
            BY <3>1
          <6>2. founders'[q.tenant] = {q.email}
            BY <2>3, <4>3
          <6> QED BY <6>1, <6>2
        <5> QED BY <5>2, <5>3
      <4> QED BY <1>3, <4>5, <4>6
    <3>3. CASE ~q.founds
      <4>1. role = "field_technician" /\ founders' = founders /\ permissions' = permissions
        BY <2>3, <3>3 DEF RegisteredRole, CommitRegister
      <4>2. \A e \in Emails : Named(e)'
        BY <1>2, <2>1, <3>1, <4>1
      <4> QED BY <1>3, <1>4, <4>1, <4>2 DEF RolesGrow
    <3> QED BY <3>2, <3>3
  <2> QED BY <1>11, <2>2, <2>3, Registered
<1> QED BY <1>6, <1>7, <1>8, <1>9, <1>10, <1>11, StepKinds DEF Writes

\* However many registrations of a tenant race, one user founds it, and nobody
\* else administers it whom no administrator and no seed appointed.
THEOREM OnlyAppointedAdministrators == Spec => []AdministratorsAreAppointed
<1>1. Init => AdministratorsAreAppointed
  <2>1. Cardinality({}) = 0
    BY FS_EmptySet
  <2> QED BY <2>1 DEF Init, IdentityInit, AdministratorsAreAppointed
<1>2. TypeInv /\ AdministratorsAreAppointed /\ [Next]_vars => AdministratorsAreAppointed'
  BY AdministratorsStep
<1> QED BY <1>1, <1>2, TypeCorrect, PTL DEF Spec

-----------------------------------------------------------------------------
\* The seed.

\* Outside the seed, a database with tenants has all its seeds or was
\* interrupted; a start that counted tenants still finds them.
SeedInv ==
    /\ phase # "seed" /\ tenants # {} => seeded \/ partial
    /\ phase = "prepare" /\ ~empty => tenants # {}
    /\ phase = "serve" => seeded \/ partial

LEMMA SeedInvStep == ASSUME TypeInv, SeedInv, [Next]_vars PROVE SeedInv'
<1>1. CASE Start
  BY <1>1 DEF Start, NoTenants, identityVars, SeedInv
<1>2. CASE Prepare
  BY <1>2 DEF Prepare, SeedInv, TypeInv, TypeOK
<1>3. CASE SeedStep \/ TenantLost
  BY <1>3 DEF SeedStep, TenantLost, NextSeed, SeedInv
<1>4. CASE Fatal \/ Crash
  BY <1>4 DEF Fatal, Crash, Stop, SeedInv, TypeInv, TypeOK
<1>5. CASE Serve
  BY <1>5 DEF Serve, SeedInv
<1>6. CASE TokenExpires \/ UNCHANGED vars
  BY <1>6, StillKeeps DEF TokenExpires, startVars, vars, SeedInv
<1> QED BY <1>1, <1>2, <1>3, <1>4, <1>5, <1>6 DEF Next

\* The process serves only a database with all its seeds, or one whose seeding
\* was interrupted and is never made up for.
THEOREM ServesSeeded == Spec => []SeededUnlessInterrupted
<1>1. Init => SeedInv
  BY DEF Init, IdentityInit, SeedInv
<1>2. TypeInv /\ SeedInv /\ [Next]_vars => SeedInv'
  BY SeedInvStep
<1>3. SeedInv => SeededUnlessInterrupted
  BY DEF SeedInv, SeededUnlessInterrupted
<1> QED BY <1>1, <1>2, <1>3, TypeCorrect, PTL DEF Spec

-----------------------------------------------------------------------------
\* tasks:write.

\* A served step adds roles with the permissions every tenant starts with.
LEMMA ServedRolesGrow ==
  ASSUME TypeInv, Serve
  PROVE  RolesGrow
<1>1. ASSUME NEW c \in Clients, FinishRegister(c) PROVE RolesGrow
  <2> DEFINE q == client[c]
  <2>1. CASE UNCHANGED permissions
    BY <2>1 DEF RolesGrow
  <2>2. CASE q.founds /\ CommitRegister(q) /\ q.tenant \in Tenants \ tenants
    <3>1. DOMAIN permissions[q.tenant] = {} /\ permissions' = [permissions EXCEPT ![q.tenant] = DefaultPermissions]
      BY <2>2 DEF CommitRegister, TypeInv, RowsThere
    <3>2. \A t \in Tenants : permissions'[t] = IF t = q.tenant THEN DefaultPermissions ELSE permissions[t]
      BY <3>1 DEF TypeInv, TypeOK, IdentityTypeOK
    <3> QED BY <3>1, <3>2 DEF RolesGrow
  <2>3. CASE ~q.founds /\ CommitRegister(q)
    BY <2>1, <2>3 DEF CommitRegister
  <2>4. UNCHANGED permissions \/ (CommitRegister(q) /\ (q.founds => q.tenant \in Tenants \ tenants))
    BY <1>1, Registered
  <2> QED BY <2>1, <2>2, <2>3, <2>4
<1>2. ASSUME NEW k \in token, NEW r \in Editable, NEW ps \in Policies, UpdateRBAC(k, r, ps)
      PROVE  RolesGrow
  BY <1>2, RBACKeepsRoles DEF SameRoles, RolesGrow
<1>3. CASE UNCHANGED permissions
  BY <1>3 DEF RolesGrow
<1>4. CASE Public
  BY <1>1, <1>3, <1>4 DEF Public, BeginRegister, BeginActivate, FinishActivate, Login
<1>5. CASE Administration
  BY <1>2, <1>3, <1>5 DEF Administration, CreateTenant, UpdateUserRole, Invite, CreateUser
<1> QED BY <1>4, <1>5 DEF Serve

\* What the last start found is still there, and writes tasks, edits aside.
GrantsInv ==
    /\ \A t \in Tenants, r \in DefaultRoles : <<t, r>> \in granted => r \in DOMAIN permissions[t]
    /\ phase \in {"seed", "serve"} => \A t \in Tenants, r \in Writers :
           <<t, r>> \in granted \ edited => Writing \in permissions[t][r]

LEMMA WritersAreRoles == Writers \subseteq DefaultRoles
  BY DEF Writers, DefaultRoles

\* Steps that add roles and leave the ones there were alone, edits aside.
LEMMA GrantsGrow ==
  ASSUME TypeInv, GrantsInv, RolesGrow, granted' = granted, edited \subseteq edited',
         phase \in {"seed", "serve"},
         \A t \in Tenants, r \in DefaultRoles :
             r \in DOMAIN permissions[t] /\ <<t, r>> \notin edited' =>
                 permissions'[t][r] = permissions[t][r]
  PROVE  GrantsInv'
<1>1. \A t \in Tenants, r \in DefaultRoles : <<t, r>> \in granted' => r \in DOMAIN permissions'[t]
  BY DEF GrantsInv, RolesGrow
<1>2. ASSUME NEW t \in Tenants, NEW r \in Writers, <<t, r>> \in granted' \ edited'
      PROVE  Writing \in permissions'[t][r]
  <2>1. r \in DefaultRoles /\ <<t, r>> \in granted \ edited
    BY <1>2, WritersAreRoles
  <2>2. r \in DOMAIN permissions[t] /\ Writing \in permissions[t][r]
    BY <2>1 DEF GrantsInv
  <2>3. permissions'[t][r] = permissions[t][r]
    BY <1>2, <2>1, <2>2
  <2> QED BY <2>2, <2>3
<1> QED BY <1>1, <1>2 DEF GrantsInv

LEMMA GrantsStep == ASSUME TypeInv, GrantsInv, [Next]_vars PROVE GrantsInv'
<1>1. CASE Prepare
  <2>1. /\ \A t \in Tenants : DOMAIN permissions'[t] = DOMAIN permissions[t]
        /\ \A t \in Tenants, r \in Writers :
               r \in DOMAIN permissions[t] => Writing \in permissions'[t][r]
    BY <1>1, PrepareKeeps DEF Prepare, Writing
  <2>2. \A t \in Tenants, r \in DefaultRoles : <<t, r>> \in granted' <=> r \in DOMAIN permissions[t]
    BY <1>1 DEF Prepare
  <2> QED BY <2>1, <2>2, WritersAreRoles DEF GrantsInv
<1>2. CASE SeedStep
  BY <1>2, SeedStepKeeps, GrantsGrow DEF SeedStep
<1>3. CASE Serve
  <2>1. \A t \in Tenants, r \in DefaultRoles :
            r \in DOMAIN permissions[t] /\ <<t, r>> \notin edited' =>
                permissions'[t][r] = permissions[t][r]
    BY <1>3 DEF Serve
  <2> QED BY <1>3, <2>1, ServedRolesGrow, GrantsGrow DEF Serve
<1>4. CASE Fatal \/ Crash
  BY <1>4 DEF Fatal, Crash, Stop, GrantsInv
<1>5. CASE TokenExpires \/ Start \/ UNCHANGED vars
  BY <1>5, StillKeeps DEF TokenExpires, Start, startVars, vars, GrantsInv
<1>6. CASE TenantLost
  BY <1>6, StillKeeps DEF TenantLost, NextSeed, GrantsInv
<1> QED BY <1>1, <1>2, <1>3, <1>4, <1>5, <1>6 DEF Next

\* Technicians and managers of the roles the last start found write tasks while
\* the process serves, whatever was seeded or registered since, unless the role
\* was edited since.
THEOREM GrantsFollowStart == Spec => []WriteFollowsStart
<1>1. Init => GrantsInv
  BY DEF Init, IdentityInit, GrantsInv
<1>2. TypeInv /\ GrantsInv /\ [Next]_vars => GrantsInv'
  BY GrantsStep
<1>3. GrantsInv => WriteFollowsStart
  BY WritersAreRoles DEF GrantsInv, WriteFollowsStart, Writers, Writing
<1> QED BY <1>1, <1>2, <1>3, TypeCorrect, PTL DEF Spec

=============================================================================
