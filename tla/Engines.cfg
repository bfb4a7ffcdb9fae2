\* Two devices; two scans of one host; two pollers of a service.
SPECIFICATION Spec
CONSTANTS
    Tickers = {"engine"}
    Risk <- ApThenGateway
    Gateways = {"gw"}
    Profiles = {"strict", "autonomous"}
    MaxItems = 3
    MaxCrashes = 1
    MaxRuns = 2
    Hosts = 1
    Findings = {"a", "b"}
    PerItemCap = 1
    MaxTickets = 2
    MaxScanFaults = 1
    Pollers = {"scheduler", "admin"}
    FailThreshold = 2
    RecoveryOk = 1
    P1After = 1
    MaxLate = 1
    MaxPollFaults = 1
 
PROPERTIES   RunsSettle ServiceIncidents
CHECK_DEADLOCK FALSE
