CONSTANTS
    Notes = {n1, n2}
    Tenants = {t1, t2}
    TenantOf <- SharedTenant
    References = {r1}
    NoReference = NoReference
    Amounts = {1, 2}
    None = None
    MaxMessages = 2
    MaxDeliver = 2
    MaxFaults = 1
SPECIFICATION Spec
INVARIANT DuplicateWasApplied
CHECK_DEADLOCK FALSE
