CONSTANTS
    None = None
    safari = safari
    acme = acme
    alice = alice
    bob = bob
    Tenants = {safari, acme}
    Emails = {alice, bob}
    Invitations = {i1}
    Clients = {c1, c2}
    RoleNames = {"field_technician", "tenant_admin"}
    Editable = {"field_technician"}
    Policies <- MCPolicies
    MaxEdits = 1
    Seed <- MCSeed
    MaxCrashes = 1
SPECIFICATION FairSpec
INVARIANTS
    TypeOK
    InvitationJoinsOnce
    AdministratorsAreAppointed
    SeededUnlessInterrupted
    WriteFollowsStart
 
