--------------------------- MODULE TicketPipeline ---------------------------
(***************************************************************************)
(* The ticket-to-action pipeline: three processes that share a SQLite row  *)
(* per ticket and two directories of job files, and nothing else.          *)
(*                                                                         *)
(*   API      (api/routes/tickets.py, jobs.py): people create, answer,     *)
(*            approve, retry and close tickets; the runner posts results.  *)
(*   worker   (worker/main.py): one thread that polls the rows, asks the   *)
(*            model what to do, and writes a job file for the runner.      *)
(*   runner   (agent/runner.py): one loop that takes job files and a pool  *)
(*            of threads that run them and post the result to the API.     *)
(*                                                                         *)
(* The worker keeps the row it loaded (view) while it talks to the model;  *)
(* SQLAlchemy writes back only the columns that differ from that copy, but *)
(* work_notes is one column, so a commit overwrites every note the API     *)
(* added in between.  The runner's loop likewise acts on the job it read   *)
(* (gate), not on the file that is there when it acts.                     *)
(***************************************************************************)
EXTENDS WorkNotes, Integers

CONSTANTS
    Tickets,        \* the tickets of one behaviour
    Texts,          \* what a ticket may ask for, a subset of TextKinds
    Profiles,       \* the policy settings read along the way, see ProfileKinds
    Messages,       \* customer messages that may arrive, a subset of UserKinds
    RunIds,         \* names for the runner's threads of one ticket
    Slots,          \* MAX_CONCURRENT, of the loop and of the thread pool
    RetryMax,       \* LLM_RETRY_MAX_ATTEMPTS
    FailBudget,     \* LLM_ATTEMPT_BUDGET
    PostRetries,    \* retries of one result POST
    MaxNotes,       \* bound: the worker starts no round on a longer thread
    MaxMessages,    \* bound: customer messages
    MaxDesk,        \* bound: approve, close and retry clicks
    MaxCrashes      \* bound: restarts of the worker and of the runner

\* "unsafe" fails the sanitizer, "restricted" matches a restriction pattern,
\* "lookup" asks for the status of a TKT-... ticket.
TextKinds == {"plain", "lookup", "greeting", "unsafe", "restricted"}

\* "pi" is the autonomous profile with the local agent enabled, "autonomous"
\* the same profile without it, "gated" every other policy.
ProfileKinds == {"pi", "autonomous", "gated"}

ASSUME PipelineAssumption ==
    /\ Texts \subseteq TextKinds
    /\ Profiles \subseteq ProfileKinds
    /\ Messages \subseteq UserKinds
    /\ Slots \in Nat \ {0}
    /\ RetryMax \in Nat \ {0}
    /\ FailBudget \in Nat
    /\ PostRetries \in Nat
    /\ {MaxNotes, MaxMessages, MaxDesk, MaxCrashes} \subseteq Nat

Statuses == {"none", "open", "in_progress", "escalated",
             "customer_action", "closed"}
Lanes == {"pi", "catalog"}
Results == {"answer", "done", "fail"}

\* A job file.  held is its requires_approval flag.
NoJob   == [lane |-> "none", held |-> FALSE]
PiJob   == [lane |-> "pi", held |-> FALSE]
AutoJob == [lane |-> "catalog", held |-> FALSE]
HeldJob == [lane |-> "catalog", held |-> TRUE]
Jobs    == {PiJob, AutoJob, HeldJob}

NoRun == [st |-> "none", lane |-> "none", result |-> "none", tries |-> 0]
Runs  == [st : {"none", "queued", "exec", "post", "done", "gone"},
          lane : Lanes \cup {"none"}, result : Results \cup {"none"},
          tries : 0..PostRetries]

NoView == [notes |-> <<>>, status |-> "none"]
NoGate == [pc |-> "out", job |-> NoJob, tries |-> 0]
Gates  == [pc : {"out", "take", "drop", "remove"}, job : Jobs \cup {NoJob},
           tries : 0..PostRetries]

VARIABLES
    text,       \* what each ticket asks for: title and description
    status,     \* tickets.status; "none" is a row that does not exist yet
    notes,      \* tickets.work_notes
    age,        \* time since tickets.updated_at: 0 fresh, 1 past the retry
                \* interval and the cooldown, 2 past the watchdog's ten minutes
    seen,       \* the worker's _USER_COMMENT_COUNT, -1 when absent
    todo,       \* tickets the current poll still has to process
    at,         \* where process_ticket is, per ticket
    view,       \* the row it loaded
    plan,       \* the job it decided on
    incoming,   \* the job file in incoming/
    running,    \* the job file in running/
    gate,       \* the runner loop's business with a ticket's incoming file
    entry,      \* its active_jobs: the run it will reap for the file name
    runs,       \* the runner's threads, per ticket
    used,       \* counters for the bounds
    blessed,    \* history: a human approved since the held job was written
    fed         \* history: rounds started by the failure-feedback loop

row     == <<status, notes, age>>
desk    == <<at, view, plan>>
worker  == <<seen, todo, desk>>
files   == <<incoming, running>>
threads == <<entry, runs>>
runner  == <<gate, threads>>
history == <<blessed, fed>>
vars    == <<text, row, worker, files, runner, used, history>>

-----------------------------------------------------------------------------
(* The row.                                                                *)

\* A commit: every write stamps updated_at.
Save(t, s, n) ==
    /\ status' = [status EXCEPT ![t] = s]
    /\ notes'  = [notes EXCEPT ![t] = n]
    /\ age'    = [age EXCEPT ![t] = 0]

\* The value the status column has after a commit that assigned s to a row
\* loaded with the status `loaded`: an unchanged attribute is not written.
Flushed(t, loaded, s) == IF s = loaded THEN status[t] ELSE s

Spend(what, max) == /\ used[what] < max
                    /\ used' = [used EXCEPT ![what] = @ + 1]

\* Mutant: the poll also looks for replies on closed tickets.
WaitingOrClosed(t) == status[t] \notin {"none", "open"}

Waiting(t) == status[t] \in {"in_progress", "escalated", "customer_action"}

Init ==
    /\ text \in [Tickets -> Texts]
    /\ status = [t \in Tickets |-> "none"]
    /\ notes = [t \in Tickets |-> <<>>]
    /\ age = [t \in Tickets |-> 0]
    /\ seen = [t \in Tickets |-> -1]
    /\ todo = {}
    /\ at = [t \in Tickets |-> "out"]
    /\ view = [t \in Tickets |-> NoView]
    /\ plan = [t \in Tickets |-> NoJob]
    /\ incoming = [t \in Tickets |-> NoJob]
    /\ running = [t \in Tickets |-> NoJob]
    /\ gate = [t \in Tickets |-> NoGate]
    /\ entry = [t \in Tickets |-> {}]
    /\ runs = [t \in Tickets |-> [r \in RunIds |-> NoRun]]
    /\ used = [msgs |-> 0, desk |-> 0, crashes |-> 0]
    /\ blessed = [t \in Tickets |-> FALSE]
    /\ fed = [t \in Tickets |-> 0]

-----------------------------------------------------------------------------
(* The API: each handler loads the row and commits it in one go.           *)

Create(t) ==
    /\ status[t] = "none"
    /\ Save(t, "open", <<>>)
    /\ UNCHANGED <<text, worker, files, runner, used, history>>

\* Any status: the handler does not look at it, a closed ticket included.
UserNote(t, m) ==
    /\ status[t] # "none"
    /\ Spend("msgs", MaxMessages)
    /\ Save(t, status[t], AddNote(notes[t], m))
    /\ UNCHANGED <<text, worker, files, runner, history>>

Engage(t, m) ==
    /\ status[t] \in {"open", "in_progress", "customer_action"}
    /\ Spend("msgs", MaxMessages)
    /\ Save(t, IF status[t] = "customer_action" THEN "open" ELSE status[t],
               AddNote(notes[t], m))
    /\ UNCHANGED <<text, worker, files, runner, history>>

\* The Approve button of an escalated ticket: PATCH status = in_progress.
Approve(t) ==
    /\ status[t] = "escalated"
    /\ Spend("desk", MaxDesk)
    /\ Save(t, "in_progress", notes[t])
    /\ blessed' = [blessed EXCEPT ![t] = TRUE]
    /\ UNCHANGED <<text, worker, files, runner, fed>>

\* Mutant: the button sends a status no other component knows.
CloseAsResolved(t) ==
    /\ status[t] \notin {"none", "closed"}
    /\ Spend("desk", MaxDesk)
    /\ Save(t, "resolved", notes[t])
    /\ UNCHANGED <<text, worker, files, runner, history>>

\* The Close, Confirm & Close and Reject/Close buttons: PATCH status = closed.
Close(t) ==
    /\ status[t] \notin {"none", "closed"}
    /\ Spend("desk", MaxDesk)
    /\ Save(t, "closed", notes[t])
    /\ UNCHANGED <<text, worker, files, runner, history>>

Retry(t) ==
    /\ status[t] = "escalated"
    /\ Spend("desk", MaxDesk)
    /\ Save(t, "open", notes[t])
    /\ UNCHANGED <<text, worker, files, runner, history>>

\* A running session's progress line.  Repeated lines are one (bound).
Progress(t) ==
    /\ \E r \in RunIds : runs[t][r].st = "exec" /\ runs[t][r].lane = "pi"
    /\ ~LastIs(notes[t], {"chatter"})
    /\ Save(t, status[t], AddNote(notes[t], "chatter"))
    /\ UNCHANGED <<text, worker, files, runner, used, history>>

\* POST /jobs/result.  A success is dropped as a duplicate when the last note
\* is an agent_completed of the last minute (recent).  The ticket's status is
\* not looked at.
ReportResult(t, result, recent) ==
    LET n == notes[t] IN
    \/ /\ recent /\ result # "fail" /\ LastIs(n, {"completed"})
       /\ UNCHANGED row
    \/ /\ ~(recent /\ LastIs(n, {"completed"}))
       /\ result = "answer"
       /\ Save(t, "customer_action", AddNote(n, "completed"))
    \/ /\ ~(recent /\ LastIs(n, {"completed"}))
       /\ result = "done"
       /\ Save(t, "customer_action", AddNote(AddNote(n, "completed"), "chatter"))
    \/ /\ result = "fail"
       /\ Save(t, "escalated", AddNote(AddNote(n, "failed"), "chatter"))

-----------------------------------------------------------------------------
(* The worker's poll.                                                      *)

Idle == \A t \in Tickets : at[t] = "out"

\* Mutant: the first sight of a ticket after a start only seeds the count.
NewReplySeedsOnly(t) ==
    /\ Waiting(t)
    /\ seen[t] # -1 /\ Replies(notes[t]) > seen[t]

\* A reply not counted yet; the first sight of a ticket after a start seeds the
\* count and only reacts to a reply that is the last note.
NewReply(t) ==
    /\ Waiting(t)
    /\ IF seen[t] = -1 THEN LastIs(notes[t], UserKinds)
                       ELSE Replies(notes[t]) > seen[t]

RetryDue(t) ==
    /\ status[t] = "in_progress"
    /\ age[t] >= 1
    /\ LastIs(notes[t], {"retry"})

FeedbackDue(t) ==
    /\ status[t] = "escalated"
    /\ age[t] >= 1
    /\ Failures(notes[t]) > 0
    /\ ~LastIs(notes[t], {"completed"})
    /\ Failures(notes[t]) < FailBudget

\* Mutant: the watchdog only looks at the last note.
StuckByLastNote(t) ==
    /\ status[t] = "in_progress"
    /\ age[t] = 2
    /\ LastIs(notes[t], {"auto", "dispatch"})

Stuck(t) ==
    /\ status[t] = "in_progress"
    /\ age[t] = 2
    /\ NeverReportedBack(notes[t])

\* Time passes.  Only the three guards above read a row's age, and every write
\* resets it, so a row none of them may come to select does not age.
Tick(t) ==
    /\ age[t] < 2
    /\ \/ status[t] = "in_progress" /\ LastIs(notes[t], {"retry"})
       \/ status[t] = "in_progress" /\ NeverReportedBack(notes[t])
       \/ status[t] = "escalated" /\ Has(notes[t], {"failed"})
    /\ age' = [age EXCEPT ![t] = @ + 1]
    /\ UNCHANGED <<text, status, notes, worker, files, runner, used, history>>

Room(t) == Len(notes[t]) <= MaxNotes

\* Mutant: a reopened ticket is taken for one that is being worked.
SelectedOnce(t) ==
    \/ status[t] = "open" /\ NeverWorked(notes[t])
    \/ NewReply(t) \/ RetryDue(t) \/ FeedbackDue(t)

Selected(t) == status[t] = "open" \/ NewReply(t) \/ RetryDue(t) \/ FeedbackDue(t)

\* One pass over the rows: select the tickets to process, each once, remember
\* how many replies were there, and let the watchdog escalate silent jobs.
Poll ==
    /\ Idle /\ todo = {}
    /\ todo' = {t \in Tickets : Room(t) /\ Selected(t)}
    /\ seen' = [t \in Tickets |->
                    IF Room(t) /\ Waiting(t)
                       /\ (seen[t] = -1 \/ Replies(notes[t]) > seen[t])
                    THEN Replies(notes[t]) ELSE seen[t]]
    /\ status' = [t \in Tickets |-> IF Stuck(t) THEN "escalated" ELSE status[t]]
    /\ notes' = [t \in Tickets |->
                    IF Stuck(t) THEN AddNote(notes[t], "escalated") ELSE notes[t]]
    /\ age' = [t \in Tickets |-> IF Stuck(t) THEN 0 ELSE age[t]]
    /\ fed' = [t \in Tickets |->
                    IF Room(t) /\ FeedbackDue(t) /\ ~NewReply(t) /\ fed[t] <= FailBudget
                    THEN fed[t] + 1 ELSE fed[t]]
    /\ UNCHANGED <<text, desk, files, runner, used, blessed>>

-----------------------------------------------------------------------------
(* process_ticket.  The next ticket of the poll is taken without another   *)
(* look at its status.                                                     *)

\* The latest reply is a close or a thanks that _handle_close_intent answers.
ClosesOut(n) ==
    \/ LatestReplyIs(n, "close")
    \/ LatestReplyIs(n, "ack") /\ WorkStateIs(n, "completed")

CloseIntent(t) ==
    LET n == notes[t]
        Inline(m) ==    \* _close_ticket_inline: may the author close it?
            \/ Save(t, "closed", AddNote(m, "closed"))
            \/ Save(t, "customer_action", AddNote(m, "input"))
    IN
    /\ Idle /\ t \in todo /\ ClosesOut(n)
    /\ todo' = todo \ {t}
    /\ \/ WorkStateIs(n, "completed") /\ LatestReplyIs(n, "close") /\ Inline(n)
       \/ WorkStateIs(n, "completed") /\ LatestReplyIs(n, "ack")
          /\ Save(t, "customer_action", AddNote(n, "chatter"))
       \/ NeverWorked(n) /\ Inline(AddNote(n, "chatter"))
       \/ ~NeverWorked(n) /\ ~WorkStateIs(n, "completed")
          /\ Save(t, status[t], AddNote(n, "chatter"))
    /\ UNCHANGED <<text, seen, desk, files, runner, used, history>>

SanitizerReject(t) ==
    /\ Idle /\ t \in todo /\ ~ClosesOut(notes[t])
    /\ text[t] = "unsafe"
    /\ todo' = todo \ {t}
    /\ Save(t, "escalated", AddNote(notes[t], "escalated"))
    /\ UNCHANGED <<text, seen, desk, files, runner, used, history>>

\* Step 2: commit in_progress, absorb the replies so far, load the row.
PickUp(t) ==
    /\ Idle /\ t \in todo /\ ~ClosesOut(notes[t])
    /\ text[t] # "unsafe"
    /\ todo' = todo \ {t}
    /\ Save(t, "in_progress", AddNote(notes[t], "processing"))
    /\ at' = [at EXCEPT ![t] = "work"]
    /\ view' = [view EXCEPT ![t] = [notes |-> notes'[t], status |-> "in_progress"]]
    /\ seen' = [seen EXCEPT ![t] = Replies(notes'[t])]
    /\ UNCHANGED <<text, plan, files, runner, used, history>>

\* process_ticket returns.
Leave(t) == /\ at' = [at EXCEPT ![t] = "out"]
            /\ view' = [view EXCEPT ![t] = NoView]
            /\ plan' = [plan EXCEPT ![t] = NoJob]

\* The last commit of process_ticket: the loaded notes and one more.
Settle(t, s, kind) ==
    /\ Save(t, Flushed(t, view[t].status, s), AddNote(view[t].notes, kind))
    /\ Leave(t)

\* Every row but t, and everything process_ticket leaves alone.
Quietly == UNCHANGED <<text, seen, todo, files, runner, used, history>>

BlockRequest(t) ==
    /\ at[t] = "work" /\ text[t] = "restricted"
    /\ Settle(t, "escalated", "escalated")
    /\ Quietly

Greets(t) == text[t] = "greeting" /\ ~Has(view[t].notes, UserKinds)

Greet(t) ==
    /\ at[t] = "work" /\ Greets(t)
    /\ Settle(t, "customer_action", "chatter")
    /\ Quietly

\* The request goes on to a technician.
Workable(t) == at[t] = "work" /\ text[t] # "restricted" /\ ~Greets(t)

\* Mutant: the guard forgets the running/ directory.
PiRunActiveIncoming(t) ==
    \/ incoming[t].lane = "pi"
    \/ DispatchPending(view[t].notes)

\* _pi_run_active, the guard against a second session for the same ticket.
PiRunActive(t) ==
    \/ incoming[t].lane = "pi"
    \/ running[t].lane = "pi"
    \/ DispatchPending(view[t].notes)

\* _dispatch_pi: already working on it, or write the job file and then commit.
PiSkip(t) ==
    /\ Workable(t) /\ text[t] # "lookup" /\ "pi" \in Profiles
    /\ PiRunActive(t)
    /\ Settle(t, "in_progress", "chatter")
    /\ Quietly

PiWrite(t) ==
    /\ Workable(t) /\ text[t] # "lookup" /\ "pi" \in Profiles
    /\ ~PiRunActive(t)
    /\ incoming' = [incoming EXCEPT ![t] = PiJob]
    /\ at' = [at EXCEPT ![t] = "commit"]
    /\ plan' = [plan EXCEPT ![t] = PiJob]
    /\ UNCHANGED <<text, row, seen, todo, view, running, runner, used, history>>

\* The catalog lane asks a model, unless the ticket is a status lookup.
AsksModel(t) == /\ Workable(t) /\ text[t] # "lookup"
                /\ Profiles \cap {"autonomous", "gated"} # {}

\* An audit or an outage commit of the judge phase expires the loaded row.
Reload(t) ==
    /\ AsksModel(t)
    /\ view' = [view EXCEPT ![t] = [notes |-> notes[t], status |-> status[t]]]
    /\ UNCHANGED <<text, row, seen, todo, at, plan, files, runner, used, history>>

\* Mutant: this failure is not counted as an attempt.
ModelFailsOneMore(t) ==
    /\ AsksModel(t)
    /\ IF Retries(view[t].notes) >= RetryMax
       THEN Settle(t, "escalated", "escalated")
       ELSE Settle(t, "in_progress", "retry")
    /\ Quietly

\* _handle_llm_failure
ModelFails(t) ==
    /\ AsksModel(t)
    /\ IF Retries(view[t].notes) + 1 >= RetryMax
       THEN Settle(t, "escalated", "escalated")
       ELSE Settle(t, "in_progress", "retry")
    /\ Quietly

\* process_ticket raises: the poll loop escalates without a note.
WorkerError(t) ==
    /\ Workable(t)
    /\ Save(t, Flushed(t, view[t].status, "escalated"), notes[t])
    /\ Leave(t)
    /\ Quietly

\* A decision without a job.  The audit commit of step 7 has written the model's
\* note over the loaded notes; the final commit starts from a fresh row.
Decide(t, s, kind) ==
    /\ Workable(t)
    /\ text[t] = "lookup" \/ AsksModel(t)
    /\ Save(t, s, AddNote(AddNote(view[t].notes, "chatter"), kind))
    /\ Leave(t)
    /\ Quietly

Complete(t) == AsksModel(t) /\ Decide(t, "closed", "chatter")

\* A failed validation or a restriction, or, in a gated profile, the model's
\* escalate_human or a confidence below the gate.
Escalate(t) == Decide(t, "escalated", "escalated")

\* request_customer_input and, in an autonomous profile, every other decision
\* that would have gone to a human technician.
AskCustomer(t) == AsksModel(t) /\ Decide(t, "customer_action", "input")

\* autoexec_decision and approval_enabled: a read-only job runs at once, and an
\* autonomous profile has no approval queue.
MayHold(t) == text[t] # "lookup" /\ "gated" \in Profiles

\* write_job_file raises after the job's note was added: the poll loop's handler
\* escalates, and its commit saves the note too.
JobWriteFails(t) ==
    \/ Decide(t, "escalated", "auto")
    \/ MayHold(t) /\ Decide(t, "escalated", "await")

\* auto or approval: write_job_file runs before the commit that says so.
WriteJob(t, job) ==
    /\ Workable(t)
    /\ text[t] = "lookup" \/ AsksModel(t)
    /\ job = HeldJob => MayHold(t)
    /\ Save(t, status[t], AddNote(view[t].notes, "chatter"))
    /\ view' = [view EXCEPT ![t] = [notes |-> notes'[t], status |-> status[t]]]
    /\ incoming' = [incoming EXCEPT ![t] = job]
    /\ at' = [at EXCEPT ![t] = "commit"]
    /\ plan' = [plan EXCEPT ![t] = job]
    /\ blessed' = [blessed EXCEPT ![t] = IF job = HeldJob THEN FALSE ELSE @]
    /\ UNCHANGED <<text, seen, todo, running, runner, used, fed>>

CommitJob(t) ==
    /\ at[t] = "commit"
    /\ \/ plan[t] = PiJob /\ Settle(t, "in_progress", "dispatch")
       \/ plan[t] = AutoJob /\ Settle(t, "in_progress", "auto")
       \/ plan[t] = HeldJob /\ Settle(t, "escalated", "await")
    /\ Quietly

\* The worker process dies and systemd starts it again: the rows and the files
\* are what they were, the reply counts and the poll's list are gone.
WorkerRestart ==
    /\ Spend("crashes", MaxCrashes)
    /\ seen' = [t \in Tickets |-> -1]
    /\ todo' = {}
    /\ at' = [t \in Tickets |-> "out"]
    /\ view' = [t \in Tickets |-> NoView]
    /\ plan' = [t \in Tickets |-> NoJob]
    /\ UNCHANGED <<text, row, files, runner, history>>

-----------------------------------------------------------------------------
(* The runner's loop.  A job file is named after its ticket.               *)

LoopFree == \A t \in Tickets : gate[t].pc = "out"
ActiveJobs == Cardinality({t \in Tickets : entry[t] # {}})
PiExecuting(t) == \E r \in RunIds : runs[t][r].st = "exec" /\ runs[t][r].lane = "pi"

\* Read a job file and the ticket's status: take it, drop it (refused by the
\* approval gate, or by validate_job), or hold it, which changes nothing.
ReadJob(t) ==
    LET Verdict(pc) ==
            gate' = [gate EXCEPT ![t] = [pc |-> pc, job |-> incoming[t], tries |-> 0]]
    IN
    /\ LoopFree /\ ActiveJobs < Slots /\ incoming[t] # NoJob
    /\ \/ incoming[t].held /\ status[t] = "closed" /\ Verdict("drop")
       \/ incoming[t].held /\ status[t] = "in_progress" /\ Verdict("take")
       \/ ~incoming[t].held /\ Verdict("take")
       \/ incoming[t] = AutoJob /\ Verdict("drop")
    /\ UNCHANGED <<text, row, worker, files, threads, used, history>>

\* A second pi job while a session of the ticket runs is removed.
MergeFile(t) ==
    /\ gate[t].pc = "take" /\ gate[t].job = PiJob /\ PiExecuting(t)
    /\ incoming' = [incoming EXCEPT ![t] = NoJob]
    /\ gate' = [gate EXCEPT ![t] = NoGate]
    /\ UNCHANGED <<text, row, worker, running, threads, used, history>>

\* Move the file over whatever running/ holds, and submit the job that was read.
Take(t, r) ==
    /\ gate[t].pc = "take" /\ ~(gate[t].job = PiJob /\ PiExecuting(t))
    /\ runs[t][r].st = "none"
    /\ running' = [running EXCEPT ![t] = incoming[t]]
    /\ incoming' = [incoming EXCEPT ![t] = NoJob]
    /\ runs' = [runs EXCEPT ![t][r] = [NoRun EXCEPT !.st = "queued",
                                                    !.lane = gate[t].job.lane]]
    /\ entry' = [entry EXCEPT ![t] = {r}]
    /\ gate' = [gate EXCEPT ![t] = NoGate]
    /\ UNCHANGED <<text, row, worker, used, history>>

\* What an attempt to post leaves for the next one: nothing when it was answered
\* or given up, one more try when it may be repeated.
Outcomes(tries, delivered, answered) ==
    IF answered THEN {"settled"}
    ELSE (IF tries < PostRetries THEN {"again"} ELSE {"settled"})
         \cup (IF delivered THEN {} ELSE {"settled"})

\* The loop posts the refusal itself, with the same retries as a result ...
DropPost(t, delivered, answered) ==
    /\ gate[t].pc = "drop" /\ (answered => delivered)
    /\ IF delivered THEN ReportResult(t, "fail", TRUE) ELSE UNCHANGED row
    /\ \E o \in Outcomes(gate[t].tries, delivered, answered) :
          gate' = [gate EXCEPT ![t] =
                      IF o = "again" THEN [gate[t] EXCEPT !.tries = @ + 1]
                      ELSE [gate[t] EXCEPT !.pc = "remove", !.tries = 0]]
    /\ UNCHANGED <<text, worker, files, threads, used, history>>

\* ... and then removes the file that is there.
DropRemove(t) ==
    /\ gate[t].pc = "remove"
    /\ incoming' = [incoming EXCEPT ![t] = NoJob]
    /\ gate' = [gate EXCEPT ![t] = NoGate]
    /\ UNCHANGED <<text, row, worker, running, threads, used, history>>

-----------------------------------------------------------------------------
(* A runner thread.                                                        *)

Busy == Cardinality({p \in Tickets \X RunIds :
                        runs[p[1]][p[2]].st \in {"exec", "post", "done"}})

SetRun(t, r, run) == runs' = [runs EXCEPT ![t][r] = run]

\* Mutant: no lock around the set of active sessions.
StartRunUnlocked(t, r) ==
    /\ runs[t][r].st = "queued" /\ Busy < Slots
    /\ SetRun(t, r, [runs[t][r] EXCEPT !.st = "exec"])
    /\ UNCHANGED <<text, row, worker, files, gate, entry, used, history>>

\* The pool starts the job; a pi job whose ticket already has a session is
\* merged: no second session, no result.
StartRun(t, r) ==
    /\ runs[t][r].st = "queued" /\ Busy < Slots
    /\ SetRun(t, r, [runs[t][r] EXCEPT
           !.st = IF runs[t][r].lane = "pi" /\ PiExecuting(t) THEN "done" ELSE "exec"])
    /\ UNCHANGED <<text, row, worker, files, gate, entry, used, history>>

\* The job ends with a result, or the thread dies on an exception without one.
EndRun(t, r) ==
    /\ runs[t][r].st = "exec"
    /\ \/ \E result \in Results :
             SetRun(t, r, [runs[t][r] EXCEPT !.st = "post", !.result = result])
       \/ SetRun(t, r, [runs[t][r] EXCEPT !.st = "done"])
    /\ UNCHANGED <<text, row, worker, files, gate, entry, used, history>>

\* A repeat comes within the minute of the duplicate check, a first attempt may
\* find the completed note of an earlier run, recent or old.
PostResult(t, r, delivered, answered) ==
    LET run == runs[t][r] IN
    /\ run.st = "post" /\ (answered => delivered)
    /\ IF delivered
       THEN \E recent \in IF run.tries > 0 THEN {TRUE} ELSE BOOLEAN :
               ReportResult(t, run.result, recent)
       ELSE UNCHANGED row
    /\ \E o \in Outcomes(run.tries, delivered, answered) :
          SetRun(t, r, IF o = "again" THEN [run EXCEPT !.tries = @ + 1]
                       ELSE [run EXCEPT !.st = "done", !.tries = 0])
    /\ UNCHANGED <<text, worker, files, gate, entry, used, history>>

\* The thread removes the file of its name from running/ ...
RemoveFile(t, r) ==
    /\ runs[t][r].st = "done"
    /\ running' = [running EXCEPT ![t] = NoJob]
    /\ SetRun(t, r, [runs[t][r] EXCEPT !.st = "gone"])
    /\ UNCHANGED <<text, row, worker, incoming, gate, entry, used, history>>

\* Mutant: the loop keeps the entry of a finished job.
ReapKeepsEntry(t, r) ==
    /\ runs[t][r].st = "gone"
    /\ SetRun(t, r, NoRun)
    /\ UNCHANGED <<text, row, worker, files, gate, entry, used, history>>

\* ... and the loop forgets the finished future, if it still knows it.
Reap(t, r) ==
    /\ runs[t][r].st = "gone"
    /\ SetRun(t, r, NoRun)
    /\ entry' = [entry EXCEPT ![t] = @ \ {r}]
    /\ UNCHANGED <<text, row, worker, files, gate, used, history>>

\* The runner dies and is started again: its threads are gone, and the files
\* stranded in running/ go back to incoming/, over a newer file if there is one.
RunnerRestart ==
    /\ Spend("crashes", MaxCrashes)
    /\ incoming' = [t \in Tickets |->
                       IF running[t] # NoJob THEN running[t] ELSE incoming[t]]
    /\ running' = [t \in Tickets |-> NoJob]
    /\ gate' = [t \in Tickets |-> NoGate]
    /\ entry' = [t \in Tickets |-> {}]
    /\ runs' = [t \in Tickets |-> [r \in RunIds |-> NoRun]]
    /\ UNCHANGED <<text, row, worker, history>>

-----------------------------------------------------------------------------

Process(t) ==
    \/ CloseIntent(t) \/ SanitizerReject(t) \/ PickUp(t)
    \/ BlockRequest(t) \/ Greet(t)
    \/ PiSkip(t) \/ PiWrite(t)
    \/ Reload(t) \/ ModelFails(t) \/ WorkerError(t)
    \/ Complete(t) \/ Escalate(t) \/ AskCustomer(t) \/ JobWriteFails(t)
    \/ \E job \in {AutoJob, HeldJob} : WriteJob(t, job)
    \/ CommitJob(t)

Loop(t) ==
    \/ ReadJob(t) \/ MergeFile(t) \/ DropRemove(t)
    \/ \E r \in RunIds : Take(t, r)
    \/ \E delivered, answered \in BOOLEAN : DropPost(t, delivered, answered)

Thread(t, r) ==
    \/ StartRun(t, r) \/ EndRun(t, r) \/ RemoveFile(t, r)
    \/ \E delivered, answered \in BOOLEAN : PostResult(t, r, delivered, answered)

Api(t) ==
    \/ Create(t) \/ Approve(t) \/ Close(t) \/ Retry(t) \/ Progress(t)
    \/ \E m \in Messages : UserNote(t, m) \/ Engage(t, m)

Next ==
    \/ Poll \/ WorkerRestart \/ RunnerRestart
    \/ \E t \in Tickets :
          \/ Tick(t) \/ Api(t) \/ Process(t) \/ Loop(t)
          \/ \E r \in RunIds : Thread(t, r) \/ Reap(t, r)

Spec == Init /\ [][Next]_vars

-----------------------------------------------------------------------------
(* Properties.                                                             *)

TypeOK ==
    /\ text \in [Tickets -> Texts]
    /\ status \in [Tickets -> Statuses]
    /\ notes \in [Tickets -> Seq(NoteKinds)]
    /\ age \in [Tickets -> 0..2]
    /\ seen \in [Tickets -> Nat \cup {-1}]
    /\ todo \subseteq Tickets
    /\ at \in [Tickets -> {"out", "work", "commit"}]
    /\ view \in [Tickets -> [notes : Seq(NoteKinds), status : Statuses]]
    /\ plan \in [Tickets -> Jobs \cup {NoJob}]
    /\ incoming \in [Tickets -> Jobs \cup {NoJob}]
    /\ running \in [Tickets -> Jobs \cup {NoJob}]
    /\ gate \in [Tickets -> Gates]
    /\ entry \in [Tickets -> SUBSET RunIds]
    /\ runs \in [Tickets -> [RunIds -> Runs]]
    /\ used \in [msgs : 0..MaxMessages, desk : 0..MaxDesk, crashes : 0..MaxCrashes]
    /\ blessed \in [Tickets -> BOOLEAN]
    /\ fed \in [Tickets -> 0..(FailBudget + 1)]


Live(t) == {r \in RunIds : runs[t][r].st \in {"queued", "exec", "post", "done"}}

\* At most one pi session of a ticket executes, whatever jobs were written for
\* it and however the profile was switched in between: the lock of
\* _run_pi_task merges a duplicate launch.
OneSession ==
    \A t \in Tickets : \A r, s \in RunIds :
        /\ runs[t][r].st = "exec" /\ runs[t][r].lane = "pi"
        /\ runs[t][s].st = "exec" /\ runs[t][s].lane = "pi"
        => r = s

\* While the autonomous profile stays on, a ticket has at most one session from
\* the moment its file is taken to the moment that file is removed; the file is
\* in running/ exactly as long as that session lives, so that a restart of the
\* runner recovers it and the worker's guard sees it; and no second file waits
\* behind it.
SessionOwnsFile ==
    \A t \in Tickets : text[t] # "lookup" =>
        /\ \A r, s \in Live(t) : r = s
        /\ Live(t) # {} <=> running[t] # NoJob
        /\ running[t] = NoJob \/ incoming[t] = NoJob

\* A dead provider costs a ticket at most RetryMax - 1 retries in its life, then
\* _handle_llm_failure hands it to a human.
RetryBudget == \A t \in Tickets : Retries(notes[t]) < RetryMax

\* A customer's reply that is the last word on a waiting ticket, with no round
\* under way for it, is one the next poll reacts to: no restart of the worker,
\* failed round or stale write-back makes the worker believe it was handled.
ReplyIsHeard ==
    \A t \in Tickets :
        /\ Waiting(t) /\ LastIs(notes[t], UserKinds)
        /\ at[t] = "out" /\ t \notin todo
        => NewReply(t)

AtRest(t) ==
    /\ status[t] = "closed"
    /\ at[t] = "out" /\ t \notin todo
    /\ incoming[t] = NoJob /\ running[t] = NoJob
    /\ gate[t] = NoGate /\ Live(t) = {}

\* Once a ticket is closed and nothing of an earlier round is left (no round in
\* the worker, no job file, no thread), it stays closed and no work starts on
\* it, whatever the customer says and whichever process restarts.
ClosedIsFinal == [][\A t \in Tickets : AtRest(t) => AtRest(t)']_vars

-----------------------------------------------------------------------------
(* What the documentation says and the code does not keep; each is refuted  *)
(* by a run.                                                                *)

\* The approval gate lets a held job pass only after a human approved its ticket.
\* The moment between writing the job file and committing the row, in which the
\* ticket is still in progress, is set aside.
HeldJobPasses(t) ==
    /\ incoming[t] = HeldJob /\ at[t] # "commit"
    /\ gate[t].pc = "out" /\ gate'[t].pc = "take"

ApprovalRespected == [][\A t \in Tickets : HeldJobPasses(t) => blessed[t]]_vars

\* Rejecting (closing) a ticket whose job waits for approval ends it.
RejectionSticks ==
    [][\A t \in Tickets :
          /\ status[t] = "closed" /\ incoming[t] = HeldJob
          /\ at[t] = "out" /\ t \notin todo /\ Live(t) = {}
          => status'[t] = "closed"]_vars

\* The failure-feedback loop re-engages a ticket at most FailBudget times.
FeedbackIsBounded == \A t \in Tickets : fed[t] <= FailBudget

\* A reply no work of the technician came after.
Unanswered(t) == Pending(notes[t], UserKinds, TerminalWorkEvents)

\* The first poll after a start of the worker picks up every ticket that still waits for an
\* answer to a reply: setting the baseline of the counts swallows none.
SeedSwallowsNothing ==
    [][\A t \in Tickets :
          seen[t] = -1 /\ seen'[t] # -1 /\ Waiting(t) /\ Unanswered(t) => t \in todo']_vars

\* A dispatched session that is gone without a result is eventually escalated.
LostRun(t) ==
    /\ status[t] = "in_progress" /\ DispatchPending(notes[t])
    /\ at[t] = "out" /\ t \notin todo /\ gate[t] = NoGate
    /\ incoming[t] = NoJob /\ running[t] = NoJob /\ Live(t) = {}

StuckRunEscalates ==
    \A t \in Tickets : LostRun(t) ~> status[t] # "in_progress"

-----------------------------------------------------------------------------
(* Fairness and liveness.  The worker and the runner are services systemd   *)
(* restarts, their loops sleep a few seconds and go on, every model call,   *)
(* session and post has a timeout, and time passes.  Nobody has to click.   *)

WorkerFairness ==
    /\ WF_vars(Poll)
    /\ \A t \in Tickets : WF_vars(Process(t)) /\ WF_vars(Tick(t))

RunnerFairness ==
    \A t \in Tickets :
        /\ WF_vars(Loop(t))
        /\ \A r \in RunIds : WF_vars(Thread(t, r)) /\ WF_vars(Reap(t, r))

FairSpec == Spec /\ WorkerFairness

\* The worker alone gets every new or reopened ticket out of the open state
\* (up to the bound on rounds).
OpenIsTaken ==
    \A t \in Tickets :
        (status[t] = "open" /\ Room(t)) ~> (status[t] # "open" \/ ~Room(t))

\* A ticket whose job was sent off and never reported back does not stay in
\* progress, even if the runner never runs again: a result or the watchdog ends
\* the wait.
DispatchSettles ==
    \A t \in Tickets :
        (status[t] = "in_progress" /\ NeverReportedBack(notes[t]))
            ~> ~(status[t] = "in_progress" /\ NeverReportedBack(notes[t]))

\* A runner that keeps running takes every job file that is not held: its loop
\* and its pool never wait for each other.
JobsDrain ==
    RunnerFairness =>
        \A t \in Tickets :
            (incoming[t] # NoJob /\ ~incoming[t].held) ~> incoming[t] = NoJob

=============================================================================
