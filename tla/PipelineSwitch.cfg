\* Back in the autonomous profile with an old session and one more reply.
SPECIFICATION SwitchSpec
CONSTANTS
    Tickets = {t1}
    Texts = {"plain"}
    Profiles = {"pi"}
    Messages = {"ask"}
    RunIds = {r1, r2}
    Session = r1
    Slots = 2
    RetryMax = 1
    FailBudget = 0
    PostRetries = 0
    MaxNotes = 8
    MaxMessages = 1
    MaxDesk = 0
    MaxCrashes = 0
    NoteCap = 50
INVARIANT OneSession
