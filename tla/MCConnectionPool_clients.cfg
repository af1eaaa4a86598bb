SPECIFICATION FairSpec
CONSTANTS
    SlotCount = 2
    IdleTimeout = 3
    ReclaimMinIdle = 1
    DeferTimeout = 2
    SleepCap = 2
    Registrations = {TRUE, FALSE}
    MaxClients = 3
    MaxTraffic = 4
INVARIANTS
    EventsReachTheirConnection
    NeverOversleeps
PROPERTIES
    PeersGetTheirTime
    ClientsAreAdmitted
