\* Three containers, the repair script, one crash; two periods; two releases and two runs of the
\* host service; a hosted provider and one on the premises, a setting of each sort, three saves,
\* one after the other; two uploads; four ticks of polling; three days with three samples.
SPECIFICATION MCSpec
CONSTANTS
    Writers = {"api", "worker", "scheduler"}
    MaxRows = 5
    MaxCrashes = 2
    Restarts = TRUE
    MaxPeriod = 1
    MaxWindowsRuns = 3
    MaxSchedulerFaults = 2
    MaxRelease = 2
    MaxDay = 0
    MaxUpdateRuns = 2
    MaxUpdateFaults = 1
    Savers = {"a", "b"}
    Plain = {"tz", "mail"}
    Injected = {"tz"}
    Providers = {"hosted", "box"}
    OnPrem = {"box"}
    MaxSaves = 3
    MaxRestarts = 1
    Serial = TRUE
    MaxUploads = 2
    MaxChanges = 2
    MaxStops = 1
    Interfaces = {1}
    NameOf <- Eth0
    Line = 1
    Width = 6
    MaxTicks = 4
    MaxLag = 1
    MaxUpsets = 1
    Ids = {1, 2}
    Windows = {0, 1, 2}
    Floor = 1
    MaxRaw = 2
    MaxBuckets = 2
    MaxDays = 3
    MaxSamples = 3
INVARIANTS ApplianceTypeOK GreenUnlessRaced OncePerPeriod  SettingsHold BackupsHold
PROPERTIES EventsAreKept RepairHeals MetricsHold
CHECK_DEADLOCK FALSE
