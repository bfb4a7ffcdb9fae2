\* One agent, two job ids that a reset hands out again, two faults, two losses; a switch of the
\* controller's, a phone with a randomized MAC and two records; one job; one request after the
\* other, for a port of the appliance's and an uplink; short lists of findings.
SPECIFICATION MCSpec
CONSTANTS
    Devices = {a}
    NoDevice = NoDevice
    MaxJobs = 2
    MaxResets = 1
    MaxFaults = 2
    MaxLost = 2
    Boxes = {"sw", "ph"}
    Gear = {"sw"}
    Randomized = {"ph"}
    Addresses = {1, 2}
    AutoAdopt = TRUE
    MaxRecords = 2
    MaxSteps = 5
    Actions = {"reboot_device"}
    MaxWritten = 1
    Ports = {1, 2}
    Networks = {"lan", "mgmt"}
    Protected = {"mgmt"}
    Appliance = {1}
    Uplinks = {2}
    Busy = {1}
    Table <- TwoPorts
    Requests = {"r1", "r2"}
    Kinds = {"vlans", "disabled"}
    NativeGiven = TRUE
    OneAtATime = TRUE
    MaxBlind = 0
    MaxScored = 7
INVARIANTS LedgerHolds RunsAreBounded ChannelsHold RulesHold
PROPERTIES BufferedIsReported RevokedStays PortsHold
CHECK_DEADLOCK FALSE
