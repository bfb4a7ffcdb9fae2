\* Nobody clicks; the customer writes once while the job waits for approval.
SPECIFICATION Spec
CONSTANTS
    Tickets = {t1}
    Texts = {"plain"}
    Profiles = {"gated"}
    Messages = {"ask"}
    RunIds = {r1}
    Slots = 1
    RetryMax = 2
    FailBudget = 2
    PostRetries = 0
    MaxNotes = 4
    MaxMessages = 1
    MaxDesk = 0
    MaxCrashes = 0
    NoteCap = 50
PROPERTY ApprovalRespected
