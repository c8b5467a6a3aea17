SPECIFICATION Spec
CONSTANTS
    t1 = t1
    t2 = t2
    t3 = t3
    tenant = tenant
    None = None
    Tasks = {t1, t2, t3}
    Agents <- MCAgents
    Tenants = {tenant}
    TenantOf <- MCTenantOf
    Priority <- MCPriority
    Capable <- MCCapable
    HasDeadline = {t1, t2}
    Limits = {1, None}
    MaxDeferrals = 2
    BatchLimit = 2
    MaxHops = 1
SYMMETRY MCSymmetry
INVARIANTS
    BooksAreSound
    NoSlotLeak
PROPERTIES
    KeepsContract
CHECK_DEADLOCK FALSE
