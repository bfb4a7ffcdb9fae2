\* Policies that ask before they act: restarts, one click, one customer message.
SPECIFICATION Spec
CONSTANTS
    Tickets = {t1}
    Texts = {"plain", "lookup", "greeting", "unsafe", "restricted"}
    Profiles = {"gated", "autonomous"}
    Messages = {"ask", "close", "ack"}
    RunIds = {r1, r2}
    Slots = 2
    RetryMax = 2
    FailBudget = 2
    PostRetries = 0
    MaxNotes = 3
    MaxMessages = 1
    MaxDesk = 1
    MaxCrashes = 1
    NoteCap = 50
SYMMETRY ThreadSymmetry
INVARIANTS TypeOK RetryBudget ReplyIsHeard
 
