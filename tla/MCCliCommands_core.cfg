SPECIFICATION CliSpec
CONSTANTS
    s1 = s1
    s2 = s2
    t1 = t1
    t2 = t2
    con = con
    Shells = {s1, s2}
    Menus <- MCMenus
    MaxTyped = 3
    FirstPolicies <- MCFirst
    DefaultRules <- MCDefaults
    HistoryLimit = 1
    UsageLimit = 2
    Priorities <- MCPriorities
    Terminals = {t1, t2}
    Consoles = {con}
    ByPath <- MCByPath
    Depth <- MCDepth
    Readme = "readme"
    Artifacts = {"db"}
    Contents <- MCTexts
    Scenes <- MCScenes
    Ttl = 2
    West = 0
    AgentLimit = 3
    MaxTime = 4
    MaxEdits = 2
    MaxStarts = 3
    Requests <- MCRequests
    Libraries <- MCLibraries
    Statuses <- MCStatuses
    GoapFolders <- MCGoapFolders
SYMMETRY Perms
INVARIANTS
    RoutingIsSound
    GuidesAreSound
    StrategiesAreSound
PROPERTIES
    SuccessNeverHurts
    MemoryIsCurrent
CHECK_DEADLOCK FALSE
