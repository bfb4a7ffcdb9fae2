\* The autonomous profile: one session at a time, with fairness.
SPECIFICATION FairSpec
CONSTANTS
    Tickets = {t1}
    Texts = {"plain"}
    Profiles = {"pi"}
    Messages = {"ask"}
    RunIds = {r1, r2}
    Slots = 1
    RetryMax = 2
    FailBudget = 2
    PostRetries = 1
    MaxNotes = 3
    MaxMessages = 1
    MaxDesk = 0
    MaxCrashes = 1
    NoteCap = 50
INVARIANT SessionOwnsFile
PROPERTIES OpenIsTaken DispatchSettles JobsDrain
