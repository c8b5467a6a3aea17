SPECIFICATION Spec
CONSTANTS
    t1 = t1
    t2 = t2
    t3 = t3
    tenant = tenant
    None = None
    Tasks = {t1, t2, t3}
    Agents <- MCAgents
    Tenants = {tenant}
    TenantOf <- MCAllTenant
    Priority <- MCFirstUrgent
    Capable <- MCAnyAgent
    HasDeadline = {}
    Limits = {2}
    MaxDeferrals = 2
    BatchLimit = 3
    MaxHops = 0
INVARIANTS
    QuotaIsKept
PROPERTIES
    EveryWaiterAnswered
CHECK_DEADLOCK FALSE
