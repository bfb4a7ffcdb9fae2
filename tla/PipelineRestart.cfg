\* A session runs, the customer writes once, the worker restarts once.
SPECIFICATION Spec
CONSTANTS
    Tickets = {t1}
    Texts = {"plain"}
    Profiles = {"pi"}
    Messages = {"ask"}
    RunIds = {r1}
    Slots = 1
    RetryMax = 2
    FailBudget = 2
    PostRetries = 0
    MaxNotes = 4
    MaxMessages = 1
    MaxDesk = 0
    MaxCrashes = 1
    NoteCap = 50
PROPERTY SeedSwallowsNothing
