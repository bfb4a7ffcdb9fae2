----------------------------- MODULE DeviceJobs -----------------------------
(***************************************************************************)
(* Jobs for endpoint agents.  The appliance (api/routes/device_agent.py)   *)
(* keeps one row per job; each device's agent (agent-go) pulls its rows    *)
(* over HTTPS, buffers them in a local SQLite ledger, runs them, and posts *)
(* the results until one is accepted.  Requests and replies may be lost,   *)
(* the agent may die between any two steps, its ledger may be lost, the    *)
(* device may be revoked, and a factory reset deletes every row, so that   *)
(* SQLite hands out the same job ids again (with fresh nonces).            *)
(***************************************************************************)
EXTENDS Integers, FiniteSets

CONSTANTS
    Devices,    \* devices with an agent; a certificate names exactly one
    NoDevice,   \* not a device
    MaxJobs,    \* bound: jobs enqueued in one behaviour
    MaxResets,  \* bound: factory resets
    MaxFaults,  \* bound: agent crashes, ledger losses and failed ledger writes
    MaxLost     \* bound: lost requests and replies

ASSUME DeviceJobsAssumption ==
    /\ NoDevice \notin Devices
    /\ {MaxJobs, MaxResets, MaxFaults, MaxLost} \subseteq Nat

Ids    == 1..MaxJobs    \* device_jobs.id
Nonces == 1..MaxJobs    \* a nonce is a fresh random token: the n-th one is n

NoRow   == [st |-> "none", owner |-> NoDevice, nonce |-> 0]
NoEntry == [st |-> "none", nonce |-> 0]

Rows    == [st : {"none", "pending", "running", "done"},
            owner : Devices \cup {NoDevice}, nonce : 0..MaxJobs]
Entries == [st : {"none", "pending", "executed", "reported"}, nonce : 0..MaxJobs]
Offers  == [id : Ids, nonce : Nonces]

VARIABLES
    jobs,       \* the appliance's device_jobs table
    issued,     \* nonces handed out so far
    revoked,    \* devices whose adoption was revoked
    ledger,     \* each agent's local jobs table, whose key is the job id alone
    pc,         \* where its loop is
    offered,    \* jobs of the pull reply it has not buffered yet
    batch,      \* ids of the list it works through: pending, then executed
    current,    \* the id it has run or posted and not yet marked, 0 for none
    told,       \* history: its last report was answered 403
    handled,    \* history: nonces it produced a result for
    ran,        \* history: how often each nonce's command was executed
    used        \* counters for the bounds

server  == <<jobs, issued, revoked>>
loop    == <<pc, offered, batch, current>>
history == <<told, handled, ran>>
vars    == <<server, ledger, loop, history, used>>

Init ==
    /\ jobs = [i \in Ids |-> NoRow]
    /\ issued = 0
    /\ revoked = {}
    /\ ledger = [d \in Devices |-> [i \in Ids |-> NoEntry]]
    /\ pc = [d \in Devices |-> "report"]
    /\ offered = [d \in Devices |-> {}]
    /\ batch = [d \in Devices |-> {}]
    /\ current = [d \in Devices |-> 0]
    /\ told = [d \in Devices |-> FALSE]
    /\ handled = [d \in Devices |-> {}]
    /\ ran = [n \in Nonces |-> 0]
    /\ used = [resets |-> 0, faults |-> 0, lost |-> 0]

Spend(what, max) == /\ used[what] < max
                    /\ used' = [used EXCEPT ![what] = @ + 1]

Goto(d, place) == pc' = [pc EXCEPT ![d] = place]

-----------------------------------------------------------------------------
(* The appliance.                                                          *)

\* enqueue_job; the new row's id is one more than the largest there is.
Enqueue(d, i) ==
    /\ issued < MaxJobs
    /\ jobs[i] = NoRow /\ \A j \in Ids : j < i => jobs[j] # NoRow
    /\ issued' = issued + 1
    /\ jobs' = [jobs EXCEPT ![i] =
                   [st |-> "pending", owner |-> d, nonce |-> issued + 1]]
    /\ UNCHANGED <<revoked, ledger, loop, history, used>>

Revoke(d) ==
    /\ d \notin revoked
    /\ revoked' = revoked \cup {d}
    /\ UNCHANGED <<jobs, issued, ledger, loop, history, used>>

\* factory_reset deletes the jobs and keeps the devices.
FactoryReset ==
    /\ Spend("resets", MaxResets)
    /\ jobs' = [i \in Ids |-> NoRow]
    /\ UNCHANGED <<issued, revoked, ledger, loop, history>>

Claimable(d) == {i \in Ids : jobs[i].st = "pending" /\ jobs[i].owner = d}

\* Mutant: the row is completed by its id alone.
CompletesById(d, i, n) ==
    /\ jobs[i].owner = d /\ d \notin revoked
    /\ jobs[i].st \in {"pending", "running"}

\* The result is the first one for this row's owner and nonce.
Completes(d, i, n) ==
    /\ jobs[i].owner = d /\ d \notin revoked
    /\ jobs[i].nonce = n
    /\ jobs[i].st \in {"pending", "running"}

\* Refused with 403, the only answer to a result that is not a success; an
\* unknown job, another device's job, an old nonce and a duplicate are
\* acknowledged and ignored.
Refused(d, i) == jobs[i].owner = d /\ d \in revoked

\* Mutant: a status the table does not know.
JobsResultFailed(d, i, n) ==
    jobs' = IF Completes(d, i, n) THEN [jobs EXCEPT ![i].st = "failed"] ELSE jobs

JobsResult(d, i, n) ==
    jobs' = IF Completes(d, i, n) THEN [jobs EXCEPT ![i].st = "done"] ELSE jobs

-----------------------------------------------------------------------------
(* The agent's loop: report, pull, buffer, run, post.                      *)

\* report.Once.  Whatever the answer, a 403 included, the loop goes on: Once
\* returns an error for it, and the loop looks at the error first.
Report(d) ==
    /\ pc[d] = "report"
    /\ Goto(d, "pull")
    /\ \/ told' = [told EXCEPT ![d] = (d \in revoked)] /\ UNCHANGED used
       \/ Spend("lost", MaxLost) /\ UNCHANGED told
    /\ UNCHANGED <<server, ledger, offered, batch, current, handled, ran>>

\* Start on the list of the entries with this status.
List(d, st, place) ==
    /\ Goto(d, place)
    /\ batch' = [batch EXCEPT ![d] = {i \in Ids : ledger'[d][i].st = st}]

\* Mutant: nothing was pulled, so the cycle ends.
PullNothingReturns(d) ==
    /\ pc[d] = "pull" /\ d \notin revoked
    /\ jobs' = [i \in Ids |-> IF i \in Claimable(d)
                              THEN [jobs[i] EXCEPT !.st = "running"] ELSE jobs[i]]
    /\ offered' = [offered EXCEPT ![d] =
                       {[id |-> i, nonce |-> jobs[i].nonce] : i \in Claimable(d)}]
    /\ Goto(d, IF Claimable(d) = {} THEN "report" ELSE "save")
    /\ UNCHANGED <<issued, revoked, ledger, batch, current, history, used>>

\* jobs_pull claims every pending row of the device and answers with them.
Pull(d) ==
    /\ pc[d] = "pull" /\ d \notin revoked
    /\ jobs' = [i \in Ids |-> IF i \in Claimable(d)
                              THEN [jobs[i] EXCEPT !.st = "running"] ELSE jobs[i]]
    /\ \/ /\ offered' = [offered EXCEPT ![d] =
                            {[id |-> i, nonce |-> jobs[i].nonce] : i \in Claimable(d)}]
          /\ UNCHANGED used
       \/ Spend("lost", MaxLost) /\ UNCHANGED offered
    /\ Goto(d, "save")
    /\ UNCHANGED <<issued, revoked, ledger, batch, current, history>>

\* The pull is refused, or the request is lost: the local buffer is drained.
PullFails(d) ==
    /\ pc[d] = "pull"
    /\ \/ d \in revoked /\ UNCHANGED used
       \/ Spend("lost", MaxLost)
    /\ Goto(d, "save")
    /\ UNCHANGED <<server, ledger, offered, batch, current, history>>

\* INSERT OR IGNORE: an entry with this id, of whatever nonce, is kept.
Save(d, job) ==
    /\ pc[d] = "save" /\ job \in offered[d]
    /\ offered' = [offered EXCEPT ![d] = @ \ {job}]
    /\ ledger' = [ledger EXCEPT ![d][job.id] =
                     IF @ = NoEntry THEN [st |-> "pending", nonce |-> job.nonce] ELSE @]
    /\ UNCHANGED <<server, pc, batch, current, history, used>>

StartRunning(d) ==
    /\ pc[d] = "save" /\ offered[d] = {}
    /\ UNCHANGED ledger /\ List(d, "pending", "run")
    /\ UNCHANGED <<server, offered, current, history, used>>

\* Execute: run the command, or refuse it (the catalog, or its deadline).
Execute(d, i, runs) ==
    /\ pc[d] = "run" /\ i \in batch[d] /\ current[d] = 0
    /\ current' = [current EXCEPT ![d] = i]
    /\ handled' = [handled EXCEPT ![d] = @ \cup {ledger[d][i].nonce}]
    /\ ran' = IF runs THEN [ran EXCEPT ![ledger[d][i].nonce] = @ + 1] ELSE ran
    /\ UNCHANGED <<server, ledger, pc, offered, batch, told, used>>

\* The list goes on after the current job.
Proceed(d) ==
    /\ batch' = [batch EXCEPT ![d] = @ \ {current[d]}]
    /\ current' = [current EXCEPT ![d] = 0]

Mark(d, st) == ledger' = [ledger EXCEPT ![d][current[d]].st = st]

\* MarkExecuted; when the write fails the entry stays pending and the job runs
\* again in the next cycle.
MarkExecuted(d) ==
    /\ pc[d] = "run" /\ current[d] # 0
    /\ Proceed(d)
    /\ \/ Mark(d, "executed") /\ UNCHANGED used
       \/ Spend("faults", MaxFaults) /\ UNCHANGED ledger
    /\ UNCHANGED <<server, pc, offered, history>>

StartPosting(d) ==
    /\ pc[d] = "run" /\ batch[d] = {}
    /\ UNCHANGED ledger /\ List(d, "executed", "post")
    /\ UNCHANGED <<server, offered, current, history, used>>

\* Mutant: any answer of the appliance counts as delivered.
PostAnyAnswer(d, i) ==
    /\ pc[d] = "post" /\ i \in batch[d] /\ current[d] = 0
    /\ JobsResult(d, i, ledger[d][i].nonce)
    /\ current' = [current EXCEPT ![d] = i]
    /\ UNCHANGED <<issued, revoked, ledger, pc, offered, batch, history, used>>

\* The result arrives and the success is heard.
PostResult(d, i) ==
    /\ pc[d] = "post" /\ i \in batch[d] /\ current[d] = 0
    /\ ~Refused(d, i)
    /\ JobsResult(d, i, ledger[d][i].nonce)
    /\ current' = [current EXCEPT ![d] = i]
    /\ UNCHANGED <<issued, revoked, ledger, pc, offered, batch, history, used>>

\* Mutant: a job whose result could not be posted is run again.
PostFailsRerun(d, i) ==
    /\ pc[d] = "post" /\ i \in batch[d] /\ current[d] = 0
    /\ batch' = [batch EXCEPT ![d] = @ \ {i}]
    /\ \/ Refused(d, i) /\ UNCHANGED <<jobs, used>>
       \/ /\ Spend("lost", MaxLost)
          /\ UNCHANGED jobs \/ JobsResult(d, i, ledger[d][i].nonce)
    /\ ledger' = [ledger EXCEPT ![d][i].st = "pending"]
    /\ UNCHANGED <<issued, revoked, pc, offered, current, history>>

\* The result is refused, or the request or its reply is lost: the entry stays
\* executed and is posted again in the next cycle.
PostFails(d, i) ==
    /\ pc[d] = "post" /\ i \in batch[d] /\ current[d] = 0
    /\ batch' = [batch EXCEPT ![d] = @ \ {i}]
    /\ \/ Refused(d, i) /\ UNCHANGED <<jobs, used>>
       \/ /\ Spend("lost", MaxLost)
          /\ UNCHANGED jobs \/ JobsResult(d, i, ledger[d][i].nonce)
    /\ UNCHANGED <<issued, revoked, ledger, pc, offered, current, history>>

\* MarkReported; when the write fails the result is posted once more.
MarkReported(d) ==
    /\ pc[d] = "post" /\ current[d] # 0
    /\ Proceed(d)
    /\ \/ Mark(d, "reported") /\ UNCHANGED used
       \/ Spend("faults", MaxFaults) /\ UNCHANGED ledger
    /\ UNCHANGED <<server, pc, offered, history>>

EndCycle(d) ==
    /\ pc[d] = "post" /\ batch[d] = {}
    /\ Goto(d, "report")
    /\ UNCHANGED <<server, ledger, offered, batch, current, history, used>>

Restart(d) ==
    /\ Spend("faults", MaxFaults)
    /\ Goto(d, "report")
    /\ offered' = [offered EXCEPT ![d] = {}]
    /\ batch' = [batch EXCEPT ![d] = {}]
    /\ current' = [current EXCEPT ![d] = 0]
    /\ told' = [told EXCEPT ![d] = FALSE]
    /\ UNCHANGED <<server, handled, ran>>

\* The agent dies and starts again; Prune drops the reported entries that are
\* older than the retention time.
Crash(d, old) ==
    /\ Restart(d)
    /\ ledger' = [ledger EXCEPT ![d] =
                     [i \in Ids |-> IF i \in old /\ @[i].st = "reported"
                                    THEN NoEntry ELSE @[i]]]

LedgerLost(d) ==
    /\ Restart(d)
    /\ ledger' = [ledger EXCEPT ![d] = [i \in Ids |-> NoEntry]]

-----------------------------------------------------------------------------

Agent(d) ==
    \/ Report(d) \/ Pull(d) \/ PullFails(d)
    \/ \E job \in offered[d] : Save(d, job)
    \/ StartRunning(d) \/ StartPosting(d) \/ EndCycle(d)
    \/ MarkExecuted(d) \/ MarkReported(d)
    \/ \E i \in batch[d] :
          \/ PostResult(d, i) \/ PostFails(d, i)
          \/ \E runs \in BOOLEAN : Execute(d, i, runs)

Next ==
    \/ FactoryReset
    \/ \E d \in Devices :
          \/ Revoke(d) \/ Agent(d) \/ LedgerLost(d)
          \/ \E i \in Ids : Enqueue(d, i)
          \/ \E old \in SUBSET Ids : Crash(d, old)

Spec == Init /\ [][Next]_vars

\* systemd restarts the agent, its loop sleeps and goes on, every request and
\* every command has a timeout.
FairSpec == Spec /\ \A d \in Devices : WF_vars(Agent(d))

-----------------------------------------------------------------------------

TypeOK ==
    /\ jobs \in [Ids -> Rows]
    /\ issued \in 0..MaxJobs
    /\ revoked \subseteq Devices
    /\ ledger \in [Devices -> [Ids -> Entries]]
    /\ pc \in [Devices -> {"report", "pull", "save", "run", "post"}]
    /\ offered \in [Devices -> SUBSET Offers]
    /\ batch \in [Devices -> SUBSET Ids]
    /\ current \in [Devices -> Ids \cup {0}]
    /\ told \in [Devices -> BOOLEAN]
    /\ handled \in [Devices -> SUBSET Nonces]
    /\ ran \in [Nonces -> Nat]
    /\ used \in [resets : 0..MaxResets, faults : 0..MaxFaults, lost : 0..MaxLost]

\* A job the appliance shows as done is one its own device produced a result
\* for: a result that was computed for a deleted job, or by another device,
\* never completes the job that now has the same id.
DoneWasHandled ==
    \A i \in Ids : jobs[i].st = "done" => jobs[i].nonce \in handled[jobs[i].owner]

\* The agent forgets a result only after the appliance has stored it: whatever
\* replies are lost and whenever the device is revoked, a reported entry belongs
\* to a row that is done (or that a reset deleted).
ReportedIsStored ==
    \A d \in Devices, i \in Ids :
        ledger[d][i].st = "reported" /\ jobs[i].nonce = ledger[d][i].nonce
            => jobs[i].st = "done"

\* A command is executed once, and once more at most for every time an agent
\* died, lost its ledger or failed to write it: a lost reply, a refusal or a
\* factory reset never makes a command run again.
RunsAreBounded == \A n \in Nonces : ran[n] <= 1 + used.faults

\* What an agent has buffered is run and its result delivered, unless the device
\* is revoked or its agent loses the ledger.
BufferedIsReported ==
    \A d \in Devices, i \in Ids :
        ledger[d][i].st = "pending"
            ~> (ledger[d][i].st \in {"reported", "none"} \/ d \in revoked)

-----------------------------------------------------------------------------
(* What the comments say and the code does not keep.                       *)

\* The ledger is keyed by (job_id, nonce): an offered job whose nonce the ledger
\* does not know is buffered.
OfferIsBuffered ==
    [][\A d \in Devices : \A job \in offered[d] :
          pc'[d] = "save" /\ job \notin offered'[d]
              => ledger'[d][job.id].nonce = job.nonce]_vars

\* An agent that was told of its revocation runs no job.
RevokedRunsNothing ==
    [][\A d \in Devices :
          told[d] /\ pc[d] = "run" /\ current'[d] # current[d] => ran' = ran]_vars

=============================================================================
