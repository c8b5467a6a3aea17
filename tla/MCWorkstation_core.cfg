SPECIFICATION WorkSpec
CONSTANTS
    None = None
    c1 = c1
    d1 = d1
    d2 = d2
    d3 = d3
    Clients = {c1}
    Daemons = {d1, d2, d3}
    p1 = p1
    p2 = p2
    Users = {1, 2}
    Profiles = {p1, p2}
    Jobs <- Commands
    MaxFaults = 1
INVARIANTS
    OneOrchestrator
    ServingIsKnown
    StoppedIsDead
    ReportsAreSound
    RegistrationStays
PROPERTIES
    AllEnds
    EveryCommandEnds
CHECK_DEADLOCK FALSE
