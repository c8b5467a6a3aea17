SPECIFICATION Spec
CONSTANTS
    Agents <- FourAgents
    ConnectionLimits <- Limits
    DefaultLimit = 4
    ConfiguredLimit = 4
    Configurations <- Mixed
    Algorithms = {"aco"}
    None = None
    MinAgents = 2
INVARIANTS LinksSound MembershipFollows Connected
CHECK_DEADLOCK FALSE
