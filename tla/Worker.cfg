\* Two tickets, a message, a crash; two attempts; the file has one peak hour more than the defaults.
SPECIFICATION Spec
CONSTANTS
    MaxTickets = 2
    Requester <- TwoRequesters
    Prio <- TwoPriorities
    MaxMsgs = 1
    Window = 2
    Cap = 1
    FailWindow = 2
    Budget = 2
    MaxCrashes = 1
    Parkable = {"t1"}
    Order <- HostedFirst
    Box = "box"
    DownAfter = 2
    MaxAttempts = 2
    Hours = 3
    DefaultPeak = {1}
    FilePeak = {1, 2}
    Judgeable = {"t1"}
    Priorities = {"P1", "P3"}
    Categories = {"network"}
    Texts <- TwoTexts
    ReadOnly = {"look"}
    Writing = {"set"}
    NoValue = NoValue
    Ttl = 0
    Overrides <- NoneOrEmpty
    MaxTime = 1
    MaxChanges = 1
    MaxReplies = 1
INVARIANTS ActsOnce RoutingHolds
PROPERTIES QueueServed TicketsSettle VerdictIsReal
CHECK_DEADLOCK FALSE
