\* A rename on the controller; everything else as in Devices.
SPECIFICATION MCSpec
CONSTANTS
    Devices = {a}
    NoDevice = NoDevice
    MaxJobs = 2
    MaxResets = 1
    MaxFaults = 2
    MaxLost = 2
    Boxes = {"sw", "ph"}
    Gear = {"sw"}
    Randomized = {"ph"}
    Addresses = {1, 2}
    AutoAdopt = TRUE
    MaxRecords = 2
    MaxSteps = 5
    Actions = {"reboot_device"}
    MaxWritten = 1
    Ports = {1, 2}
    Networks = {"lan", "mgmt"}
    Protected = {"mgmt"}
    Appliance = {1}
    Uplinks = {2}
    Busy = {1}
    Table <- TwoPorts
    Requests = {"r1", "r2"}
    Kinds = {"name"}
    NativeGiven = TRUE
    OneAtATime = TRUE
    MaxBlind = 0
    MaxScored = 7
PROPERTY ProtectedIsKept
CHECK_DEADLOCK FALSE
