----------------------------- MODULE NetworkOpt -----------------------------
(***************************************************************************)
(* The network scans (api/network_opt.py, routes/network_opt.py): a run is *)
(* a row of scan_runs and, while it is executed, a thread of the API       *)
(* process with a session of its own; an administrator cancels it, and     *)
(* turns its findings into tickets.  The process may be restarted.         *)
(***************************************************************************)
EXTENDS Naturals, FiniteSets

CONSTANTS
    MaxRuns,        \* bound: the runs started
    Hosts,          \* the devices in scope
    Findings,       \* what a scan may find, of the rules that are fixable
    PerItemCap,     \* PER_ITEM_CAP
    MaxTickets,     \* bound: the tickets made of findings
    MaxFaults       \* bound: exceptions and restarts

Runs    == 1..MaxRuns
Tickets == 1..MaxTickets
NoTicket == 0

Final  == {"completed", "cancelled", "failed"}
Stages == {"none", "created", "begun", "running", "registered", "hosts", "ended", "lost"}

VARIABLES
    row,        \* scan_runs.status, "none" before the run exists
    stage,      \* how far the thread of a run is; "lost": it ended without a word
    event,      \* the runs whose cancel event is set
    left,       \* devices that the thread has still to hear of
    asked,      \* cancel requests between their read of the row and their commit
    found,      \* the findings of a run
    fix,        \* fix_ticket_id of a finding of a run
    spawned,    \* the number of tickets made
    closed,     \* those that are closed
    resolved,   \* the findings that the change log calls resolved
    old,        \* history: the runs of processes that are gone
    faults

tickets == <<fix, spawned, closed, resolved>>
vars    == <<row, stage, event, left, asked, found, tickets, old, faults>>

Fault == faults < MaxFaults /\ faults' = faults + 1

-----------------------------------------------------------------------------
(* A run and its thread.                                                     *)

\* start_run: the row is committed, then the thread starts.
StartRun(r) ==
    /\ row[r] = "none" /\ \A q \in Runs : q < r => row[q] # "none"
    /\ row' = [row EXCEPT ![r] = "queued"]
    /\ stage' = [stage EXCEPT ![r] = "created"]
    /\ UNCHANGED <<event, left, asked, found, tickets, old, faults>>

\* reconcile_stale_runs: every row that is running is taken for a stale one, also that of a
\* thread which is alive.
Reconciled == [q \in Runs |-> IF row[q] = "running" THEN "cancelled" ELSE row[q]]

Reconcile(r) ==
    /\ stage[r] = "created"
    /\ row' = Reconciled
    /\ stage' = [stage EXCEPT ![r] = "begun"]
    /\ UNCHANGED <<event, left, asked, found, tickets, old, faults>>

\* execute_scan sets the row to running whatever it is.
Begin(r) ==
    /\ stage[r] = "begun"
    /\ row' = [row EXCEPT ![r] = "running"]
    /\ stage' = [stage EXCEPT ![r] = "running"]
    /\ UNCHANGED <<event, left, asked, found, tickets, old, faults>>

\* An exception while the scope is built is before the try: the row stays as it is.
Breaks(r) ==
    /\ stage[r] = "running" /\ Fault
    /\ stage' = [stage EXCEPT ![r] = "lost"]
    /\ UNCHANGED <<row, event, left, asked, found, tickets, old>>

\* _active_progress: from here on a cancel request finds the event.
Register(r) ==
    /\ stage[r] = "running"
    /\ stage' = [stage EXCEPT ![r] = "registered"]
    /\ UNCHANGED <<row, event, left, asked, found, tickets, old, faults>>

\* The controller has been read; no device is submitted when the event is set by now.
Submit(r) ==
    /\ stage[r] = "registered"
    /\ left' = [left EXCEPT ![r] = IF r \in event THEN 0 ELSE Hosts]
    /\ stage' = [stage EXCEPT ![r] = "hosts"]
    /\ UNCHANGED <<row, event, asked, found, tickets, old, faults>>

End(r, s) == /\ row' = [row EXCEPT ![r] = s]
             /\ stage' = [stage EXCEPT ![r] = "ended"]

\* The answer of a device; the event is looked at before it is taken.
Collect(r) ==
    /\ stage[r] = "hosts" /\ left[r] > 0
    /\ \/ r \in event /\ End(r, "cancelled") /\ UNCHANGED left
       \/ r \notin event /\ left' = [left EXCEPT ![r] = @ - 1] /\ UNCHANGED <<row, stage>>
    /\ UNCHANGED <<event, asked, found, tickets, old, faults>>

FinalizeUnmarked(r) ==
    /\ stage[r] = "hosts" /\ left[r] = 0
    /\ stage' = [stage EXCEPT ![r] = "ended"]
    /\ \E F \in SUBSET Findings : found' = [found EXCEPT ![r] = F]
    /\ UNCHANGED <<row, event, left, asked, tickets, old, faults>>

\* _finalize: score, findings and status in one commit.
Finalize(r) ==
    /\ stage[r] = "hosts" /\ left[r] = 0
    /\ End(r, "completed")
    /\ \E F \in SUBSET Findings : found' = [found EXCEPT ![r] = F]
    /\ UNCHANGED <<event, left, asked, tickets, old, faults>>

Fails(r) ==
    /\ stage[r] \in {"registered", "hosts"} /\ Fault
    /\ End(r, "failed")
    /\ UNCHANGED <<event, left, asked, found, tickets, old>>

\* cancel_run: it sets the event of a thread that has registered, and then commits the row.
CancelRead(r) ==
    /\ row[r] \in {"queued", "running"} /\ r \notin asked
    /\ asked' = asked \cup {r}
    /\ event' = IF stage[r] \in {"registered", "hosts", "ended"} THEN event \cup {r} ELSE event
    /\ UNCHANGED <<row, stage, left, found, tickets, old, faults>>

CancelCommit(r) ==
    /\ r \in asked
    /\ asked' = asked \ {r}
    /\ row' = [row EXCEPT ![r] = "cancelled"]
    /\ UNCHANGED <<stage, event, left, found, tickets, old, faults>>

\* The threads, their events and the requests go with the process; the rows stay.
Restart ==
    /\ Fault
    /\ old' = {r \in Runs : row[r] # "none"}
    /\ stage' = [r \in Runs |-> IF stage[r] \in {"none", "ended"} THEN stage[r] ELSE "lost"]
    /\ event' = {} /\ asked' = {} /\ left' = [r \in Runs |-> 0]
    /\ UNCHANGED <<row, found, tickets>>

-----------------------------------------------------------------------------
(* Findings and their tickets.                                               *)

\* optimize_run: whatever the status of the run, and also for findings that have a ticket.
Optimize(r, F, batched) ==
    /\ F # {} /\ F \subseteq found[r]
    /\ batched \/ Cardinality(F) <= PerItemCap
    /\ LET n == IF batched THEN 1 ELSE Cardinality(F)
       IN /\ spawned + n <= MaxTickets
          /\ spawned' = spawned + n
          /\ \E T \in [F -> spawned + 1 .. spawned + n] :
               /\ batched \/ \A f, g \in F : T[f] = T[g] => f = g
               /\ fix' = [fix EXCEPT ![r] = [f \in Findings |-> IF f \in F THEN T[f] ELSE @[f]]]
    /\ UNCHANGED <<row, stage, event, left, asked, found, closed, resolved, old, faults>>

\* capture_finding_resolutions, called when a ticket closes.
Resolutions(t) == {p \in Runs \X Findings : fix[p[1]][p[2]] = t}

CloseTicket(t) ==
    /\ t <= spawned /\ t \notin closed
    /\ closed' = closed \cup {t}
    /\ resolved' = resolved \cup Resolutions(t)
    /\ UNCHANGED <<row, stage, event, left, asked, found, fix, spawned, old, faults>>

-----------------------------------------------------------------------------
Init ==
    /\ row = [r \in Runs |-> "none"] /\ stage = [r \in Runs |-> "none"]
    /\ event = {} /\ asked = {} /\ left = [r \in Runs |-> 0]
    /\ found = [r \in Runs |-> {}] /\ fix = [r \in Runs |-> [f \in Findings |-> NoTicket]]
    /\ spawned = 0 /\ closed = {} /\ resolved = {}
    /\ old = {} /\ faults = 0

ThreadStep(r) ==
    \/ Reconcile(r) \/ Begin(r) \/ Register(r)
    \/ Submit(r) \/ Collect(r) \/ Finalize(r)

Next ==
    \/ \E r \in Runs : \/ StartRun(r) \/ ThreadStep(r) \/ Breaks(r) \/ Fails(r)
                       \/ CancelRead(r) \/ CancelCommit(r)
                       \/ \E F \in SUBSET Findings, b \in BOOLEAN : Optimize(r, F, b)
    \/ Restart
    \/ \E t \in Tickets : CloseTicket(t)

\* The operating system runs the threads.
Fairness == \A r \in Runs : WF_vars(ThreadStep(r))
Spec == Init /\ [][Next]_vars /\ Fairness

-----------------------------------------------------------------------------
(* Properties.                                                               *)

TypeOK ==
    /\ row \in [Runs -> {"none", "queued", "running"} \cup Final]
    /\ stage \in [Runs -> Stages] /\ left \in [Runs -> 0..Hosts]
    /\ event \subseteq Runs /\ asked \subseteq Runs /\ old \subseteq Runs
    /\ found \in [Runs -> SUBSET Findings]
    /\ fix \in [Runs -> [Findings -> {NoTicket} \cup Tickets]]
    /\ spawned \in 0..MaxTickets /\ closed \subseteq 1..spawned
    /\ resolved \subseteq Runs \X Findings /\ faults \in 0..MaxFaults

\* Once a scan of this process is past its reconciliation, no row of an earlier process is left
\* running (network_opt.py:53-55): nobody would ever end it.
OldRunsAreReconciled ==
    (\E r \in Runs \ old : stage[r] \in Stages \ {"none", "created"})
        => \A q \in old : row[q] # "running"

\* A scan whose thread is not lost ends, whoever cancels it and whatever other scans run: its
\* row is final in the end and stays so.
RunsSettle ==
    \A r \in Runs : (row[r] # "none") ~> (stage[r] = "lost" \/ [](row[r] \in Final))

\* A run that an administrator has cancelled stays cancelled.  Not so: a request that comes
\* before the thread registers is overwritten by "running", and one that comes before the first
\* device is submitted by "completed".
CancelledStays == [][\A r \in Runs : row[r] = "cancelled" => row'[r] = "cancelled"]_vars

\* A ticket that closes resolves a finding.  Not so: a second ticket of a finding takes the link.
EveryTicketResolves == \A t \in closed : \E p \in resolved : fix[p[1]][p[2]] = t
=============================================================================
