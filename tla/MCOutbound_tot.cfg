INIT OutboundInit
NEXT OutboundNext
CONSTANTS
    c1 = c1
    c2 = c2
    m1 = m1
    t1 = t1
    t2 = t2
    NoValue = NoValue
    Calls = {c1, c2}
    PromptOf <- MCPrompts
    Routings <- MCRoutings
    Catalog <- MCCatalog
    Defaults <- MCDefaultModels
    Alike <- MCAlike
    Timelines <- MCOffers
    Ttl = 1
    MaxEvents = 1
    Window = 1
    Messages = {m1}
    Retries = 2
    Spawns <- MCSpawns
    Reviews <- MCReviews
    AgentTypes <- MCTypes
    WorkerTypes <- MCWorkers
    Reinforcement <- MCReinforcement
    DefaultCrew <- MCCrew
    MaxAgents = 18
    MaxActive = 16
    Artifacts <- MCArtifacts
    PrimeRetries = 2
    Terminals = {t1, t2}
    Installations <- MCInstallations
    Changes <- MCChanges
    Fragile = {"toolkit", "enriched"}
    Errands = {"workflow"}
    Flows = {1, 2}
    FlowPrompts <- MCFlowPrompts
    Requests = {1, 2}
    RetryAttempts = 2
    MaxClients = 2
    Writers = {"w1", "w2"}
    Journals <- MCJournals
    Tenants = {"t", "u"}
    NoTenant = NoTenant
    Limit = 2
    Scopes = {"t", NoTenant}
    TenancyModes = {TRUE, FALSE}
    Processes = {1, 2}
    Shells = {1}
    Contents <- MCContents
    EnvFiles <- MCEnvFiles
    OwnEnvs <- MCOwnEnvs
    Machines <- MCMachines
    Modes <- MCModes
    StakeTables <- MCStakes
    MaxTrouble = 1
INVARIANT TotRunsAreKept
CHECK_DEADLOCK FALSE
