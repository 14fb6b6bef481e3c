------------------------------ MODULE Identity ------------------------------
(***************************************************************************)
(* Tenants, their roles, their users and how users join: the public        *)
(* registration and activation endpoints, the login that issues tokens,    *)
(* and the administration endpoints, which a token with the permission     *)
(* users:* clears.  Requests run at the same time under READ COMMITTED:    *)
(* what a registration or an activation reads first is not locked, and     *)
(* its writes meet the keys of the tables when they are made.              *)
(*                                                                         *)
(* E-mail addresses are unique in users, so a user is its address.         *)
(***************************************************************************)
EXTENDS Roles, FiniteSets

CONSTANTS
    Tenants,      \* tenant ids
    Emails,       \* e-mail addresses, in lower case
    Invitations,  \* invitations; also their bound
    Clients,      \* public requests in flight; also their bound
    RoleNames,    \* role names an administrator may send
    Editable,     \* roles whose permissions an administrator edits
    Policies,     \* sets of permissions an edit may send
    MaxEdits      \* bound: edits of permissions

User       == [tenant : Tenants, role : DefaultRoles]
Invitation == [tenant : Tenants, email : Emails, role : RoleNames,
               status : {"Pending", "Accepted"}]

ASSUME IdentityAssumption ==
    /\ None \notin DefaultRoles \cup User \cup Invitation
    /\ Editable \subseteq DefaultRoles
    /\ MaxEdits \in Nat

Permissions == (UNION Policies) \cup (UNION {DefaultPermissions[r] : r \in DefaultRoles})
               \cup {<<"tasks", "write">>}

VARIABLES
    tenants,      \* tenants with a row
    permissions,  \* permissions of the roles of each tenant that have a row
    user,         \* tenant and role of each user, or None
    invitation,   \* each invitation, or None
    client,       \* the request each client has in flight
    token,        \* tokens that have not expired: a user and the role it had
    edits,        \* history: edits of permissions made
    founders,     \* history: users a registration made administrator
    appointed,    \* history: users an administrator, or the seed, gave a role
    accounts      \* history: number of accounts made from each invitation

identityVars == <<tenants, permissions, user, invitation, client, token,
                  edits, founders, appointed, accounts>>

Request    == [kind : {"register"}, email : Emails, tenant : Tenants, founds : BOOLEAN]
              \cup [kind : {"activate"}, invitation : Invitations]
Token      == [email : Emails, role : DefaultRoles]

Idle == [kind |-> "idle"]

IdentityTypeOK ==
    /\ tenants     \in SUBSET Tenants
    /\ DOMAIN permissions = Tenants
    /\ \A t \in Tenants : /\ DOMAIN permissions[t] \in SUBSET DefaultRoles
                          /\ permissions[t] \in [DOMAIN permissions[t] -> SUBSET Permissions]
    /\ user        \in [Emails -> User \cup {None}]
    /\ invitation  \in [Invitations -> Invitation \cup {None}]
    /\ client      \in [Clients -> Request \cup {Idle}]
    /\ token       \in SUBSET Token
    /\ edits       \in 0 .. MaxEdits
    /\ founders    \in [Tenants -> SUBSET Emails]
    /\ appointed   \in SUBSET Emails
    /\ accounts    \in [Invitations -> Nat]

NoRoles == [r \in {} |-> {}]

IdentityInit ==
    /\ tenants = {}
    /\ permissions = [t \in Tenants |-> NoRoles]
    /\ user = [e \in Emails |-> None]
    /\ invitation = [i \in Invitations |-> None]
    /\ client = [c \in Clients |-> Idle]
    /\ token = {}
    /\ edits = 0
    /\ founders = [t \in Tenants |-> {}]
    /\ appointed = {}
    /\ accounts = [i \in Invitations |-> 0]

-----------------------------------------------------------------------------
\* Rows and what the keys of the tables refuse.

\* Faulty variant: users are written with ON CONFLICT (email) DO UPDATE.
TakenNever(e) == FALSE

\* users.email is unique.
Taken(e) == user[e] # None

\* Faulty variant: tenants are inserted with ON CONFLICT DO NOTHING.
TenantExistsNever(t) == FALSE

\* tenants.id is the primary key.
TenantExists(t) == t \in tenants

\* Foreign key (tenant_id, role_name) of users to roles.
RoleExists(t, r) == r \in DOMAIN permissions[t]

\* The user of token k is cleared for the administration endpoints, by the
\* role in its token and the permissions that role has now.
Administers(k) ==
    LET t == user[k.email].tenant IN
    Cleared([r \in DOMAIN permissions[t] |-> DefaultParent[r]],
            permissions[t], k.role, {<<"users", "*">>})

\* GenerateToken, for the role that was just read or written.
Issue(e, role) == token' = token \cup {[email |-> e, role |-> role]}

-----------------------------------------------------------------------------
\* RegisterHandler and RegisterUserTransaction.

\* The address is free and the tenant is looked up, without a lock.
BeginRegister(c, e, t) ==
    /\ client[c] = Idle
    /\ ~Taken(e)
    /\ client' = [client EXCEPT ![c] = [kind |-> "register", email |-> e, tenant |-> t,
                                        founds |-> t \notin tenants]]
    /\ UNCHANGED <<tenants, permissions, user, invitation, token, edits,
                   founders, appointed, accounts>>

\* Faulty variant: the founder gets a role that no tenant has.
RegisteredOwner(q) == IF q.founds THEN "owner" ELSE "field_technician"

\* The one who creates a tenant administers it, everyone else is a technician.
RegisteredRole(q) == IF q.founds THEN "tenant_admin" ELSE "field_technician"

\* The rows are inserted and committed together and a token is issued.
CommitRegister(q) ==
    LET role == RegisteredRole(q) IN
    /\ tenants' = tenants \cup {q.tenant}
    /\ permissions' = IF q.founds THEN [permissions EXCEPT ![q.tenant] = DefaultPermissions]
                                  ELSE permissions
    /\ user' = [user EXCEPT ![q.email] = [tenant |-> q.tenant, role |-> role]]
    /\ Issue(q.email, role)
    /\ founders' = IF role = "tenant_admin"
                   THEN [founders EXCEPT ![q.tenant] = @ \cup {q.email}] ELSE founders

\* The inserts fail on a key that was written since the reads.
RegisterConflicts(q) ==
    \/ Taken(q.email)
    \/ q.founds /\ TenantExists(q.tenant)
    \/ ~q.founds /\ ~RoleExists(q.tenant, RegisteredRole(q))

FinishRegister(c) ==
    /\ client[c].kind = "register"
    /\ IF RegisterConflicts(client[c])
       THEN UNCHANGED <<tenants, permissions, user, token, founders>>
       ELSE CommitRegister(client[c])
    /\ client' = [client EXCEPT ![c] = Idle]
    /\ UNCHANGED <<invitation, edits, appointed, accounts>>

-----------------------------------------------------------------------------
\* Invitations.

\* Only the users are looked at, so an address may be invited more than once,
\* and to a role that does not exist.
CreateInvitation(i, t, e, r) ==
    /\ ~Taken(e)
    /\ invitation' = [invitation EXCEPT ![i] =
           [tenant |-> t, email |-> e, role |-> r, status |-> "Pending"]]

\* InviteUser: into the tenant of the token; the invitation stays when its
\* e-mail is not sent.
Invite(k, i, e, r) ==
    /\ invitation[i] = None
    /\ CreateInvitation(i, user[k.email].tenant, e, r)
    /\ UNCHANGED <<tenants, permissions, user, client, token, edits,
                   founders, appointed, accounts>>

\* ActivateUser: AcceptInvitation reads a pending invitation without a lock.
BeginActivate(c, i) ==
    /\ client[c] = Idle
    /\ invitation[i] # None /\ invitation[i].status = "Pending"
    /\ client' = [client EXCEPT ![c] = [kind |-> "activate", invitation |-> i]]
    /\ UNCHANGED <<tenants, permissions, user, invitation, token, edits,
                   founders, appointed, accounts>>

\* The invitation is accepted whatever its status by now, and its user inserted.
AcceptInvitation(i) ==
    LET inv == invitation[i] IN
    /\ invitation' = [invitation EXCEPT ![i].status = "Accepted"]
    /\ user' = [user EXCEPT ![inv.email] = [tenant |-> inv.tenant, role |-> inv.role]]
    /\ appointed' = appointed \cup {inv.email}
    /\ accounts' = [accounts EXCEPT ![i] = @ + 1]

\* Both writes are rolled back when the address is taken or the role does not
\* exist.
ActivateConflicts(inv) == Taken(inv.email) \/ ~RoleExists(inv.tenant, inv.role)

FinishActivate(c) ==
    /\ client[c].kind = "activate"
    /\ LET i == client[c].invitation IN
       IF ActivateConflicts(invitation[i])
       THEN UNCHANGED <<invitation, user, token, appointed, accounts>>
       ELSE AcceptInvitation(i) /\ Issue(invitation[i].email, invitation[i].role)
    /\ client' = [client EXCEPT ![c] = Idle]
    /\ UNCHANGED <<tenants, permissions, edits, founders>>

-----------------------------------------------------------------------------
\* The other administration endpoints.

\* CreateTenant: a row without roles, nothing when the id exists.
CreateTenant(t) ==
    /\ tenants' = tenants \cup {t}
    /\ UNCHANGED <<permissions, user, invitation, client, token, edits,
                   founders, appointed, accounts>>

\* CreateUser, with the tenant and the role of the payload.
InsertUser(e, t, r) ==
    /\ t \in tenants /\ RoleExists(t, r) /\ ~Taken(e)
    /\ user' = [user EXCEPT ![e] = [tenant |-> t, role |-> r]]
    /\ appointed' = appointed \cup {e}

CreateUser(e, t, r) ==
    /\ InsertUser(e, t, r)
    /\ UNCHANGED <<tenants, permissions, invitation, client, token, edits, founders, accounts>>

\* UpdateUserRole: the tokens issued before keep the role they carry.
UpdateUserRole(e, r) ==
    /\ Taken(e) /\ RoleExists(user[e].tenant, r)
    /\ user' = [user EXCEPT ![e].role = r]
    /\ appointed' = appointed \cup {e}
    /\ UNCHANGED <<tenants, permissions, invitation, client, token, edits, founders, accounts>>

\* All permissions of the role are replaced.
UpdateRolePermissions(t, r, ps) ==
    /\ RoleExists(t, r)
    /\ permissions' = [permissions EXCEPT ![t][r] = ps]

\* UpdateRBAC, for a role of the tenant of the token.
UpdateRBAC(k, r, ps) ==
    /\ edits < MaxEdits
    /\ UpdateRolePermissions(user[k.email].tenant, r, ps)
    /\ edits' = edits + 1
    /\ UNCHANGED <<tenants, user, invitation, client, token, founders, appointed, accounts>>

-----------------------------------------------------------------------------
\* Tokens.

\* LoginHandler: the token carries the role the user has when it is read.
Login(e) ==
    /\ Taken(e)
    /\ Issue(e, user[e].role)
    /\ UNCHANGED <<tenants, permissions, user, invitation, client, edits,
                   founders, appointed, accounts>>

\* AccessTokenTTL passes.
Expire(k) ==
    /\ k \in token
    /\ token' = token \ {k}
    /\ UNCHANGED <<tenants, permissions, user, invitation, client, edits,
                   founders, appointed, accounts>>

Public ==
    \/ \E c \in Clients, e \in Emails, t \in Tenants : BeginRegister(c, e, t)
    \/ \E c \in Clients : FinishRegister(c) \/ FinishActivate(c)
    \/ \E c \in Clients, i \in Invitations : BeginActivate(c, i)
    \/ \E e \in Emails : Login(e)

\* ModuleClearanceMiddleware(database, "users:*") comes before each handler.
Administration ==
    \E k \in token : Administers(k) /\
       (\/ \E t \in Tenants : CreateTenant(t)
        \/ \E e \in Emails, r \in RoleNames :
              \/ UpdateUserRole(e, r)
              \/ \E i \in Invitations : Invite(k, i, e, r)
              \/ \E t \in Tenants : CreateUser(e, t, r)
        \/ \E r \in Editable, ps \in Policies : UpdateRBAC(k, r, ps))

-----------------------------------------------------------------------------

\* AcceptInvitation: two activations may read the same pending invitation, but
\* it makes one account at most, with its address and in its tenant, and is
\* accepted exactly when it has.
InvitationJoinsOnce ==
    \A i \in Invitations :
        /\ accounts[i] <= 1
        /\ accounts[i] # 0 <=> (invitation[i] # None /\ invitation[i].status = "Accepted")
        /\ accounts[i] # 0 =>
              /\ user[invitation[i].email] # None
              /\ user[invitation[i].email].tenant = invitation[i].tenant

\* RegisterUserTransaction: registration makes an administrator of one user
\* for each tenant it creates and of no user of a tenant that existed; every
\* other administrator was given the role by an administrator or the seed.
AdministratorsAreAppointed ==
    /\ \A t \in Tenants : /\ Cardinality(founders[t]) <= 1
                          /\ founders[t] # {} => DOMAIN permissions[t] = DefaultRoles
    /\ \A e \in Emails : user[e] # None /\ user[e].role = "tenant_admin" =>
           e \in appointed \cup founders[user[e].tenant]

=============================================================================
