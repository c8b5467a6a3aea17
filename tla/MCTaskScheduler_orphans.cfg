SPECIFICATION Spec
CONSTANTS
    t1 = t1
    t2 = t2
    t3 = t3
    tenant = tenant
    None = None
    Tasks = {t1, t2}
    Agents <- MCFirstAgent
    Tenants = {tenant}
    TenantOf <- MCAllTenant
    Priority <- MCFirstUrgent
    Capable <- MCOneAgent
    HasDeadline = {}
    Limits = {None}
    MaxDeferrals = 2
    BatchLimit = 2
    MaxHops = 0
INVARIANTS
    PendingIsQueued
CHECK_DEADLOCK FALSE
