--------------------------- MODULE ServiceChecks ---------------------------
(***************************************************************************)
(* One service monitor (api/service_checks.py, routes/service_checks.py).  *)
(* A poll loads the monitor and its episode, probes the service, and       *)
(* commits what it computed from the rows it loaded; the scheduler's poll  *)
(* and an administrator's may overlap, and both with the administrator's   *)
(* changes.  A commit writes the columns that changed and fails as a whole *)
(* when a row it writes is gone or a second episode would be there.        *)
(***************************************************************************)
EXTENDS Integers

CONSTANTS
    Pollers,        \* sessions that may poll at the same time
    FailThreshold,  \* fail_threshold
    RecoveryOk,     \* recovery_ok
    P1After,        \* SERVICE_CHECK_P1_AFTER_MIN, in ticks
    MaxLate,        \* bound: polls that overtake one under way
    MaxFaults       \* bound: polls that fail or die

NoMonitor == [there |-> FALSE, enabled |-> FALSE, target |-> "blank", fail |-> 0, ok |-> 0]

\* service_monitors; its target is an address, a device of the inventory, a device that
\* was deleted (and then unlinked), or blank.  fail_streak counts on, but is only ever
\* compared with the threshold.
Monitors == [there : {TRUE}, enabled : BOOLEAN,
             target : {"address", "device", "deleted", "blank"},
             fail : 0..FailThreshold, ok : 0..RecoveryOk]

NoEpisode == [state |-> "none", age |-> 0]
Episodes  == [state : {"down", "outage"}, age : 0..P1After]

\* The ticket of the last episode: "P2" and "P1" are any status but closed.  The engine
\* reads nothing of a ticket, so that what others do to it is left out.
TicketRows == {"none", "P2", "P1", "closed"}

Idle == [at |-> "idle", fail |-> 0, ok |-> 0, ep |-> NoEpisode, up |-> FALSE, late |-> 0]

VARIABLES
    up,         \* the service answers
    mon, ep,    \* the monitor and its episode, as committed
    ticket,     \* the ticket of the last episode
    poll,       \* per poller: where it is and the rows it loaded
    faults      \* polls that failed or died so far

rows == <<mon, ep, ticket>>
vars == <<up, mon, ep, ticket, poll, faults>>

-----------------------------------------------------------------------------
(* ServiceCheckEngine.check.                                                 *)

AtMost(n, max) == IF n > max THEN max ELSE n

Probed(m) == m.there /\ m.enabled /\ m.target \in {"address", "device"}

\* The session loads the rows.  A monitor that is disabled or has no target is passed over.
\* _disable_deleted_device_refs never finds anything: no monitor's device is gone, because
\* delete_device unlinks it and foreign keys are enforced.
Load(p) ==
    /\ poll[p].at = "idle"
    /\ Probed(mon)
    /\ \A q \in Pollers : poll[q].late < MaxLate
    /\ poll' = [poll EXCEPT ![p] = [Idle EXCEPT !.at = "loaded", !.fail = mon.fail,
                                               !.ok = mon.ok, !.ep = ep]]
    /\ UNCHANGED <<up, mon, ep, ticket, faults>>

Probe(p) ==
    /\ poll[p].at = "loaded"
    /\ poll' = [poll EXCEPT ![p].at = "probed", ![p].up = up]
    /\ UNCHANGED <<up, mon, ep, ticket, faults>>

Streaks(p) ==
    IF poll[p].up THEN [fail |-> 0, ok |-> AtMost(poll[p].ok + 1, RecoveryOk)]
    ELSE [fail |-> AtMost(poll[p].fail + 1, FailThreshold), ok |-> 0]

\* Only the columns that differ from what was loaded are written.
Written(p) ==
    LET new == Streaks(p)
    IN  [mon EXCEPT !.fail = IF ~poll[p].up \/ new.fail # poll[p].fail THEN new.fail ELSE @,
                    !.ok = IF new.ok # poll[p].ok THEN new.ok ELSE @]

Opens(p)     == ~poll[p].up /\ poll[p].ep = NoEpisode /\ Streaks(p).fail >= FailThreshold
Escalates(p) == ~poll[p].up /\ poll[p].ep.state = "down" /\ poll[p].ep.age >= P1After
Closes(p)    == poll[p].up /\ poll[p].ep # NoEpisode /\ Streaks(p).ok >= RecoveryOk

\* The rows a commit writes are there, and it adds no second episode.
Commits(p) == /\ mon.there
              /\ poll[p].ep # NoEpisode => ep # NoEpisode
              /\ Opens(p) => ep = NoEpisode

Done(p) ==
    poll' = [q \in Pollers |->
                IF q = p THEN Idle
                ELSE [poll[q] EXCEPT !.late = IF poll[q].at = "idle" THEN 0 ELSE @ + 1]]

Ending(p, at) == [Idle EXCEPT !.at = at, !.late = poll[p].late]

\* log_event commits the ticket with the streaks; what the transition does to the episode
\* itself comes with the commit at the end of the poll.
Advance(p) ==
    /\ poll[p].at = "probed"
    /\ Commits(p)
    /\ mon' = Written(p)
    /\ \/ /\ Opens(p)
          /\ ep' = [state |-> "down", age |-> 0]
          /\ ticket' = "P2"
          /\ Done(p)
       \/ /\ Escalates(p)
          /\ ticket' = IF ticket = "P2" THEN "P1" ELSE ticket
          /\ poll' = [poll EXCEPT ![p] = Ending(p, "escalating")]
          /\ UNCHANGED ep
       \/ /\ Closes(p)
          /\ ticket' = "closed"
          /\ poll' = [poll EXCEPT ![p] = Ending(p, "closing")]
          /\ UNCHANGED ep
       \/ /\ ~(Opens(p) \/ Escalates(p) \/ Closes(p))
          /\ Done(p)
          /\ UNCHANGED <<ep, ticket>>
    /\ UNCHANGED <<up, faults>>

\* Mutant: a row that was deleted in between is written again.
FinishMerges(p) ==
    /\ \/ poll[p].at = "escalating" /\ ep' = [ep EXCEPT !.state = "outage"]
       \/ poll[p].at = "closing" /\ ep' = NoEpisode
    /\ Done(p)
    /\ UNCHANGED <<up, mon, ticket, faults>>

\* The rest of _escalate and _close.
Finish(p) ==
    /\ \/ /\ poll[p].at = "escalating" /\ ep # NoEpisode
          /\ ep' = [ep EXCEPT !.state = "outage"]
       \/ /\ poll[p].at = "closing"
          /\ ep' = NoEpisode
    /\ Done(p)
    /\ UNCHANGED <<up, mon, ticket, faults>>

\* The transaction fails and is rolled back.
Conflict(p) ==
    /\ \/ poll[p].at = "probed" /\ ~Commits(p)
       \/ poll[p].at = "escalating" /\ ep = NoEpisode
    /\ Done(p)
    /\ UNCHANGED <<up, mon, ep, ticket, faults>>

\* The database is locked for too long, or the API restarts.
Fault(p) ==
    /\ poll[p].at # "idle" /\ faults < MaxFaults
    /\ faults' = faults + 1
    /\ Done(p)
    /\ UNCHANGED <<up, mon, ep, ticket>>

Step(p) == Load(p) \/ Probe(p) \/ Advance(p) \/ Finish(p) \/ Conflict(p)

-----------------------------------------------------------------------------
(* The administrator and the world.                                          *)

CreateMonitor ==
    /\ ~mon.there
    /\ \E target \in {"address", "device"} :
          mon' = [NoMonitor EXCEPT !.there = TRUE, !.enabled = TRUE, !.target = target]
    /\ UNCHANGED <<up, ep, ticket, poll, faults>>

\* update_monitor: the switch or the target; the streaks and the episode stay.
UpdateMonitor ==
    /\ mon.there
    /\ \/ mon' = [mon EXCEPT !.enabled = ~@]
       \/ \E target \in {"address", "device", "blank"} : mon' = [mon EXCEPT !.target = target]
    /\ UNCHANGED <<up, ep, ticket, poll, faults>>

\* Mutant: the episode's row is left to the database.
DeleteMonitorAlone ==
    /\ mon.there
    /\ mon' = NoMonitor
    /\ UNCHANGED <<up, ep, ticket, poll, faults>>

\* delete_monitor closes the ticket of the episode and deletes both rows.
DeleteMonitor ==
    /\ mon.there
    /\ mon' = NoMonitor /\ ep' = NoEpisode
    /\ ticket' = IF ep = NoEpisode THEN ticket ELSE "closed"
    /\ UNCHANGED <<up, poll, faults>>

\* delete_device (routes/devices.py) disables the monitors of the device and unlinks them.
DeleteDevice ==
    /\ mon.target = "device"
    /\ mon' = [mon EXCEPT !.target = "deleted", !.enabled = FALSE]
    /\ UNCHANGED <<up, ep, ticket, poll, faults>>

ServiceChanges == up' = ~up /\ UNCHANGED <<mon, ep, ticket, poll, faults>>

Elapse ==
    /\ ep # NoEpisode /\ ep.age < P1After
    /\ ep' = [ep EXCEPT !.age = @ + 1]
    /\ UNCHANGED <<up, mon, ticket, poll, faults>>

-----------------------------------------------------------------------------

Init == /\ up = TRUE
        /\ mon = NoMonitor /\ ep = NoEpisode /\ ticket = "none"
        /\ poll = [p \in Pollers |-> Idle]
        /\ faults = 0

Next == \/ \E p \in Pollers : Step(p) \/ Fault(p)
        \/ CreateMonitor \/ UpdateMonitor \/ DeleteMonitor
        \/ DeleteDevice \/ ServiceChanges \/ Elapse

\* The scheduler polls on, every poll ends, and time passes.
Fairness == WF_vars(Elapse) /\ \A p \in Pollers : WF_vars(Step(p))

Spec == Init /\ [][Next]_vars /\ Fairness

-----------------------------------------------------------------------------

\* Types; an episode has a ticket, and the ticket of an outage is a P1.
TypeOK ==
    /\ up \in BOOLEAN
    /\ mon \in Monitors \cup {NoMonitor}
    /\ ep \in Episodes \cup {NoEpisode}
    /\ ticket \in TicketRows
    /\ ep # NoEpisode => mon.there /\ ticket # "none"
    /\ ep.state = "outage" => ticket # "P2"

\* However polls and the administrator's changes interleave, an open ticket belongs to an
\* episode that will close it: none is left open when its episode ends.
OpenIsWatched == ticket \in {"P2", "P1"} => ep # NoEpisode

Level == CASE ep.state = "outage" -> "P1" [] ep.state = "down" -> "P2" [] OTHER -> "none"

Incidents == INSTANCE Incident WITH
    Subjects <- {"monitor"}, Tickets <- {"ticket"}, NoTicket <- "no ticket",
    level  <- [s \in {"monitor"} |-> Level],
    ticket <- [s \in {"monitor"} |-> IF ep = NoEpisode THEN "no ticket" ELSE "ticket"]

\* Overlapping polls open, raise and end the monitor's incident as one would: no second
\* ticket while one is there, and P1 only after P2.
ServiceIncidents == Incidents!Spec

\* "target device deleted": the episode of a monitor whose device was deleted gets closed.
DeletedDeviceCloses == (mon.target = "deleted") ~> (mon.target # "deleted" \/ ep = NoEpisode)

=============================================================================
