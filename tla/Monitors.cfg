\* One link of each kind, and a dish.
SPECIFICATION MCSpec
CONSTANTS
    Links = {wan, port, box}
    Wan = wan
    UniFi = {wan, port}
    Snmp = {}
    FlapWindow = 1
    EscalateCount = 2
    PersistDown = 1
    StableClose = 1
    MaxTickets = 2
    Confirm = 2
    MaxFaults = 1
    DegradeWindow = 2
    OutageWindow = 2
    RecoverWindow = 2
    PhantomWindow = 2
 
PROPERTIES LinkIncidents StableEpisodeEnds OutageEscalates RecoveryCloses
