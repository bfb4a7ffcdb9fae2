------------------------------ MODULE Scheduler ------------------------------
(***************************************************************************)
(* The loop of the scheduler container (scheduler/main.py): its wait for   *)
(* the API at the start, the login of every cycle and the incident about   *)
(* logins that keep failing, the scheduled Windows runs of a device with   *)
(* their marks, the scheduled network scan, and the checks of devices      *)
(* that are not online.  The scheduled update is in the module SelfUpdate. *)
(***************************************************************************)
EXTENDS Integers

CONSTANTS
    Restarts,       \* the container is started again when its process ends
    MaxPeriod,      \* bound: the periods of a schedule (days, or weeks)
    MaxRuns,        \* bound: runs queued in a period
    MaxFaults       \* bound: lost replies, files that cannot be written, lost results, restarts

Periods == 0..MaxPeriod
None    == -1

VARIABLES
    proc,       \* the process: down, starting (_wait_for_ready), or in its loop
    login,      \* what the API says to the agent's credentials
    failing,    \* _AUTH_STATE: since when logins fail (not, for a while, for the sustained window)
    logged,     \* _AUTH_STATE: the incident is logged
    incident,   \* the audit log has an incident without its recovery
    period,     \* the period that the clock is in
    due,        \* its hour has come
    mark,       \* last_health_run of the device
    guard,      \* _last_triggered: periods in which this process has queued a Windows run
    scanned,    \* _last_triggered: the period of its last scan
    jobs,       \* history: Windows jobs written in each period
    tickets,    \* history: tickets created for them
    spoiled,    \* history: periods whose mark was lost
    device,     \* the status of a device, and whether its verify job is in the queue
    cool,       \* _VERIFY_COOLDOWN: a verification was queued within the hour
    faults

auth    == <<login, failing, logged, incident>>
windows == <<mark, guard, jobs, tickets, spoiled>>
verify  == <<device, cool>>
clock   == <<period, due>>
vars    == <<proc, auth, clock, windows, scanned, verify, faults>>

Fault == faults < MaxFaults /\ faults' = faults + 1

Logins == {"accepted", "rejected", "unreachable"}

-----------------------------------------------------------------------------
(* The start and the login.                                                  *)

\* What a process remembers.
Forget == /\ failing' = "no" /\ logged' = FALSE
          /\ guard' = {} /\ scanned' = None /\ cool' = FALSE

\* _wait_for_ready: an API that is not healthy is waited for, in the end in vain; _get_token
\* raises when the login is rejected, and nothing catches it.
Start ==
    /\ proc = "starting"
    /\ proc' \in CASE login = "accepted" -> {"loop"}
                   [] login = "rejected" -> {"down"}
                   [] OTHER              -> {"starting", "loop"}
    /\ UNCHANGED <<auth, clock, windows, scanned, verify, faults>>

\* The restart policy of the container.
Restart ==
    /\ proc = "down" /\ Restarts
    /\ proc' = "starting"
    /\ Forget
    /\ UNCHANGED <<login, incident, clock, mark, jobs, tickets, spoiled, device, faults>>

Dies ==
    /\ proc # "down" /\ Fault
    /\ proc' = "down"
    /\ UNCHANGED <<auth, clock, windows, scanned, verify>>

\* _audit_event: a database that stays locked loses the row, and nobody looks.
Logs(open) == \/ incident' = open /\ UNCHANGED faults
              \/ Fault /\ UNCHANGED incident

\* The login of a cycle and _observe_auth_result: one event when logins have failed for the
\* sustained window, and one when they succeed again.
Login ==
    /\ proc = "loop"
    /\ \/ /\ login = "accepted" /\ failing # "no"
          /\ failing' = "no" /\ logged' = FALSE
          /\ IF logged THEN Logs(FALSE) ELSE UNCHANGED <<incident, faults>>
       \/ /\ login # "accepted"
          /\ failing' \in CASE failing = "no" -> {"begun"}
                            [] OTHER          -> {failing, "long"}
          /\ IF failing' = "long" /\ ~logged
             THEN logged' = TRUE /\ Logs(TRUE)
             ELSE UNCHANGED <<logged, incident, faults>>
    /\ UNCHANGED <<proc, login, clock, windows, scanned, verify>>

\* The rest of a cycle takes a token.
Cycle == proc = "loop" /\ login = "accepted" /\ failing = "no"

-----------------------------------------------------------------------------
(* Scheduled runs.                                                           *)

\* Mutant: the run is marked in this process only.
QueueWindowsInMemory ==
    /\ Cycle /\ due
    /\ mark # period /\ period \notin guard
    /\ jobs[period] < MaxRuns
    /\ tickets' = [tickets EXCEPT ![period] = @ + 1]
    /\ jobs' = [jobs EXCEPT ![period] = @ + 1]
    /\ guard' = guard \cup {period}
    /\ UNCHANGED <<proc, auth, clock, mark, spoiled, scanned, verify, faults>>

\* check_windows_health_schedule, _queue_windows_run: the ticket, the job file, the mark that
\* outlives the process, and the guard that does not.
QueueWindows ==
    /\ Cycle /\ due
    /\ mark # period /\ period \notin guard
    /\ tickets[period] < MaxRuns
    /\ tickets' = [tickets EXCEPT ![period] = @ + 1]
    /\ \/ Fault /\ UNCHANGED <<jobs, mark, guard, spoiled>>
       \/ /\ jobs' = [jobs EXCEPT ![period] = @ + 1]
          /\ guard' = guard \cup {period}
          /\ \/ mark' = period /\ UNCHANGED <<spoiled, faults>>
             \/ Fault /\ spoiled' = spoiled \cup {period} /\ UNCHANGED mark
    /\ UNCHANGED <<proc, auth, clock, scanned, verify>>

\* The process dies between the job and its mark.
DiesUnmarked ==
    /\ Cycle /\ due /\ Fault
    /\ mark # period /\ period \notin guard /\ tickets[period] < MaxRuns
    /\ tickets' = [tickets EXCEPT ![period] = @ + 1]
    /\ jobs' = [jobs EXCEPT ![period] = @ + 1]
    /\ spoiled' = spoiled \cup {period}
    /\ proc' = "down"
    /\ UNCHANGED <<auth, clock, mark, guard, scanned, verify>>

\* check_netopt_schedule, _queue_netopt: the guard of a recurring scan is in memory only.
QueueScan ==
    /\ Cycle /\ due /\ scanned # period
    /\ scanned' = period
    /\ UNCHANGED <<proc, auth, clock, windows, verify, faults>>

-----------------------------------------------------------------------------
(* Devices that are not online.                                              *)

\* check_device_health: once an hour, unless a verification is pending.
Verify ==
    /\ Cycle /\ device.status = "offline" /\ ~cool
    /\ cool' = TRUE
    /\ \/ device' = [status |-> "pending", job |-> TRUE] /\ UNCHANGED faults
       \/ Fault /\ UNCHANGED device
    /\ UNCHANGED <<proc, auth, clock, windows, scanned>>

\* The agent runner answers the job, or its answer is lost.
Verified ==
    /\ device.job
    /\ \/ /\ device' \in [status : {"online", "offline"}, job : {FALSE}]
          /\ UNCHANGED faults
       \/ Fault /\ device' = [device EXCEPT !.job = FALSE]
    /\ UNCHANGED <<proc, auth, clock, windows, scanned, cool>>

-----------------------------------------------------------------------------
(* The world.                                                                *)

ApiChanges ==
    /\ login' \in Logins \ {login}
    /\ UNCHANGED <<proc, failing, logged, incident, clock, windows, scanned, verify, faults>>

\* The hour of the schedule comes, and then the next period.
Time ==
    /\ \/ ~due /\ due' = TRUE /\ UNCHANGED period
       \/ due /\ period < MaxPeriod /\ period' = period + 1 /\ due' = FALSE
    /\ UNCHANGED <<proc, auth, windows, scanned, verify, faults>>

Cools ==
    /\ cool /\ cool' = FALSE
    /\ UNCHANGED <<proc, auth, clock, windows, scanned, device, faults>>

GoesOffline ==
    /\ device.status = "online"
    /\ device' = [device EXCEPT !.status = "offline"]
    /\ UNCHANGED <<proc, auth, clock, windows, scanned, cool, faults>>

Init ==
    /\ proc = "starting" /\ login = "accepted"
    /\ failing = "no" /\ logged = FALSE /\ incident = FALSE
    /\ period = 0 /\ due = FALSE
    /\ mark = None /\ guard = {} /\ scanned = None
    /\ jobs = [p \in Periods |-> 0] /\ tickets = [p \in Periods |-> 0] /\ spoiled = {}
    /\ device = [status |-> "online", job |-> FALSE] /\ cool = FALSE
    /\ faults = 0

Next == \/ Start \/ Restart \/ Dies \/ Login
        \/ QueueWindows \/ DiesUnmarked \/ QueueScan
        \/ Verify \/ Verified
        \/ ApiChanges \/ Time \/ Cools \/ GoesOffline

\* The container's process runs, is started again when it has ended, and time passes.
Spec == /\ Init /\ [][Next]_vars
        /\ WF_vars(Start) /\ WF_vars(Restart)
        /\ WF_vars(Login /\ failing' # failing)
        /\ SF_vars(Verify) /\ WF_vars(Verified) /\ WF_vars(Cools)

-----------------------------------------------------------------------------
(* Properties                                                                *)

TypeOK ==
    /\ proc \in {"down", "starting", "loop"} /\ login \in Logins
    /\ failing \in {"no", "begun", "long"} /\ logged \in BOOLEAN /\ incident \in BOOLEAN
    /\ period \in Periods /\ due \in BOOLEAN
    /\ mark \in Periods \cup {None} /\ scanned \in Periods \cup {None}
    /\ guard \subseteq Periods /\ spoiled \subseteq Periods
    /\ jobs \in [Periods -> 0..MaxRuns] /\ tickets \in [Periods -> 0..MaxRuns]
    /\ device \in [status : {"online", "offline", "pending"}, job : BOOLEAN] /\ cool \in BOOLEAN
    /\ faults \in 0..MaxFaults

\* A period's Windows run is queued once, whenever the scheduler restarts, unless its mark was lost.
OncePerPeriod == \A p \in Periods \ spoiled : jobs[p] <= 1

\* An incident is logged when logins are rejected for good.
RejectionIsLogged == <>[](login = "rejected") => <>incident

\* A device that waits for its verification gets an answer in the end.
PendingIsAnswered == device.status = "pending" ~> device.status # "pending"
=============================================================================
