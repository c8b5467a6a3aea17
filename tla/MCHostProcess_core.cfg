SPECIFICATION HostSpec
CONSTANTS
    c1 = c1
    c2 = c2
    Systems <- TwoSystems
    MaxRequests = 1
    Callers = {c1, c2}
    NoSystem = NoSystem
    Rotation <- Alternating
    BootCrew <- SmallCrew
    MaxBatch = 1
    MaxTimers = 1
    MaxBroken = 1
    Scenarios <- Mixed
    daemon = daemon
    t1 = t1
    t2 = t2
    k1 = k1
    Servers = {daemon}
    Tenants = {t1, t2}
    Limits = {1, 2}
    Unlimited = Unlimited
    NoQuota = NoQuota
    Keep = Keep
    Defaults = {2}
    Slots = {1, 2}
    MaxAsked = 3
    Requests <- OneServer
    NoRequest = NoRequest
    NoTenant = NoTenant
    Tokens = {k1}
    NoToken = NoToken
    MaxFaults = 1
    MaxCrashes = 1
INVARIANTS
    OneLiveSystem
    StatusIsHonest
    EnforcedIsStored
    TenantsAreKept
PROPERTIES
    HostCallsEnd
CHECK_DEADLOCK FALSE
