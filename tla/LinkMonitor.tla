---------------------------- MODULE LinkMonitor ----------------------------
(***************************************************************************)
(* The link monitor (api/link_monitor.py).  Once a minute it merges what   *)
(* its channels say of every watched link, compares that with the previous *)
(* cycle's view, which it keeps in memory only, and drives one episode and *)
(* one ticket per link, which it keeps in the database.  People and the    *)
(* worker move the tickets meanwhile, devices are opted in and out, and    *)
(* the process restarts.  InternetMonitor runs in the same thread.         *)
(***************************************************************************)
EXTENDS Integers, Sequences, SequencesExt

CONSTANTS
    Links,          \* watched (device, interface) pairs
    Wan,            \* the gateway's WAN, a link that is always watched
    UniFi, Snmp,    \* links by the channel that reports them; the others have
                    \* only Device.status
    FlapWindow,     \* LINK_FLAP_WINDOW_MIN, in ticks
    EscalateCount,  \* LINK_FLAP_ESCALATE_COUNT
    PersistDown,    \* LINK_PERSIST_DOWN_MIN, in ticks
    StableClose,    \* LINK_STABLE_CLOSE_MIN, in ticks
    MaxTickets      \* bound: tickets of one link, used again once no episode has them

ASSUME LinkMonitorAssumption ==
    /\ Wan \in UniFi /\ UniFi \cup Snmp \subseteq Links /\ UniFi \cap Snmp = {}
    /\ {FlapWindow, PersistDown, StableClose} \subseteq Nat \ {0}
    /\ {EscalateCount, MaxTickets} \subseteq Nat \ {0, 1}

Unset     == -1
TicketIds == 1..MaxTickets
NoTicket  == 0
Clock(max) == 0..max \cup {Unset}

NoEpisode == [state |-> "none", down |-> Unset, quiet |-> Unset, flaps |-> <<>>,
              reason |-> "none", ticket |-> NoTicket]

\* link_episodes; down and quiet are the ages of down_since and last_event_at,
\* flaps the ages of the flap_timestamps that can still count.
Episodes ==
    [state : {"flapping", "outage"}, down : Clock(PersistDown), quiet : 0..StableClose,
     flaps : BoundedSeq(0..FlapWindow, EscalateCount),
     reason : {"none", "recurrence", "outage", "wan_probe"}, ticket : TicketIds]

\* "open" is open or in_progress, "handed_over" any other status but closed, and
\* "left" a ticket handed over whose episode ended: no monitor looks at it again.
TicketRows == [status : {"open", "handed_over", "closed", "left"}, priority : {"P2", "P1"}]
Closed == [status |-> "closed", priority |-> "P2"]
Left   == [status |-> "left", priority |-> "P2"]

VARIABLES
    report,     \* what the channel of a link would say now
    watched,    \* links of eligible devices: opted in, or on a gateway
    seen,       \* _last_channel_snapshot: up, down or none, in memory
    episode,    \* the link_episodes table
    tickets     \* per link, the tickets opened for it

linkVars == <<report, watched, seen, episode, tickets>>

-----------------------------------------------------------------------------
(* The channels.  "silent": the device, or the controller's WAN health, did  *)
(* not answer; "missing": an answer without this link; "unavailable": the    *)
(* whole channel returned None; "absent": a link that is not there.          *)

\* A port that is down and has no name is left out of the table; the WAN has none.
UniFiSays(k) == {"up", "down", "unavailable", IF k = Wan THEN "silent" ELSE "missing"}

SnmpSays == {"up", "down", "missing", "silent"}

\* pending or unknown is left out.
StatusSays == {"up", "down", "missing"}

Says(k) == IF k \in UniFi THEN UniFiSays(k) ELSE IF k \in Snmp THEN SnmpSays ELSE StatusSays

MissingMeansDown(k) == k \in UniFi \cup Snmp

\* The link's entry in the merged snapshot of this cycle.
Collected(k) ==
    CASE k \notin watched \/ report[k] = "absent"            -> "none"
      [] k \in watched /\ report[k] \in {"up", "down"}       -> report[k]
      [] k \in watched /\ report[k] = "unavailable"          -> seen[k]
      [] k \in watched /\ report[k] \in {"missing", "silent"} ->
            IF ~MissingMeansDown(k) THEN "none"
            ELSE IF seen[k] = "up" THEN "down" ELSE seen[k]

-----------------------------------------------------------------------------
(* The state machine.  A row is a link's episode with its tickets; each     *)
(* operator is one transition of a row.                                      *)

Row(k) == [ep |-> episode[k], tk |-> tickets[k]]

\* A new ticket: one that no episode has.
Fresh(row) == CHOOSE t \in TicketIds : t # row.ep.ticket /\ row.tk[t] \in {Closed, Left}

\* _open_episode: after up -> down, or after down -> up, which is one flap.
Opened(row, state) ==
    [ep |-> [NoEpisode EXCEPT !.state = "flapping", !.quiet = 0, !.ticket = Fresh(row),
                              !.down = IF state = "down" THEN 0 ELSE Unset,
                              !.flaps = IF state = "up" THEN <<0>> ELSE <<>>],
     tk |-> [row.tk EXCEPT ![Fresh(row)] = [status |-> "open", priority |-> "P2"]]]

\* Mutant: the escalation has a ticket of its own.
RaisedAnew(row, reason) ==
    [ep |-> [row.ep EXCEPT !.reason = reason, !.ticket = Fresh(row)],
     tk |-> [row.tk EXCEPT ![row.ep.ticket] = Closed,
                           ![Fresh(row)] = [status |-> "open", priority |-> "P1"]]]

\* The episode's ticket becomes P1, whatever its status, for this reason.
Raised(row, reason) ==
    [ep |-> [row.ep EXCEPT !.reason = reason],
     tk |-> [row.tk EXCEPT ![row.ep.ticket].priority = "P1"]]

\* _escalate_outage and _escalate_recurrence.
EscalatedOutage(row)     == [Raised(row, "outage") EXCEPT !.ep.state = "outage"]
EscalatedRecurrence(row) == Raised(row, "recurrence")

\* _close_episode closes the ticket whatever its status.
ClosedStable(row) ==
    [ep |-> NoEpisode, tk |-> [row.tk EXCEPT ![row.ep.ticket] = Closed]]

\* _close_unwatched closes it only while nobody took it over.
ClosedUnwatched(row) ==
    [ep |-> NoEpisode,
     tk |-> IF row.tk[row.ep.ticket].status = "handed_over"
            THEN [row.tk EXCEPT ![row.ep.ticket] = Left]
            ELSE [row.tk EXCEPT ![row.ep.ticket] = Closed]]

Flapped(ep) ==
    [ep EXCEPT !.state = "flapping", !.down = Unset, !.quiet = 0,
               !.flaps = LET f == <<0>> \o ep.flaps
                         IN  SubSeq(f, 1, IF Len(f) < EscalateCount THEN Len(f)
                                                                    ELSE EscalateCount)]

\* Mutant: a link that stays down is never an outage.
AdvancedDownForever(row) ==
    IF row.ep.down = Unset
    THEN [row EXCEPT !.ep.down = 0, !.ep.quiet = 0, !.ep.state = "flapping"]
    ELSE row

AdvancedDown(row) ==
    CASE row.ep.down = Unset ->
            [row EXCEPT !.ep.down = 0, !.ep.quiet = 0, !.ep.state = "flapping"]
      [] row.ep.down # Unset /\ row.ep.state # "outage" /\ row.ep.down >= PersistDown ->
            EscalatedOutage(row)
      [] OTHER -> row

\* Mutant: the timer of the last event is never compared.
AdvancedUpOpenEnded(row) ==
    IF row.ep.down # Unset THEN [row EXCEPT !.ep = Flapped(row.ep)] ELSE row

AdvancedUp(row) ==
    LET flapped == [row EXCEPT !.ep = Flapped(row.ep)]
    IN  CASE row.ep.down # Unset ->
                IF /\ row.ep.reason # "recurrence"
                   /\ Len(flapped.ep.flaps) >= EscalateCount
                THEN EscalatedRecurrence(flapped)
                ELSE flapped
          [] row.ep.down = Unset /\ row.ep.quiet >= StableClose -> ClosedStable(row)
          [] OTHER -> row

\* _advance for one link of the snapshot; an episode the internet probe owns is
\* skipped, and without an episode only a change from a known state opens one.
Advanced(row, prev, state) ==
    CASE row.ep.reason = "wan_probe" -> row
      [] row.ep = NoEpisode ->
            IF prev # "none" /\ prev # state THEN Opened(row, state) ELSE row
      [] row.ep # NoEpisode /\ row.ep.reason # "wan_probe" ->
            IF state = "down" THEN AdvancedDown(row) ELSE AdvancedUp(row)

\* _process: every link of the snapshot, then every episode of a device that is
\* no longer eligible.
Processed(k) ==
    LET state == Collected(k)
        row   == IF state \in {"up", "down"} THEN Advanced(Row(k), seen[k], state)
                                             ELSE Row(k)
    IN  IF k \notin watched /\ row.ep # NoEpisode THEN ClosedUnwatched(row) ELSE row

\* One cycle of check().  When the transaction fails the view in memory has moved
\* on all the same.
Check(committed) ==
    /\ seen' = [k \in Links |-> Collected(k)]
    /\ IF committed
       THEN /\ episode' = [k \in Links |-> Processed(k).ep]
            /\ tickets' = [k \in Links |-> Processed(k).tk]
       ELSE UNCHANGED <<episode, tickets>>
    /\ UNCHANGED <<report, watched>>

-----------------------------------------------------------------------------
(* Around it.                                                                *)

LinkInit ==
    /\ report \in [Links -> {"up", "absent"}]
    /\ watched = {Wan}
    /\ seen = [k \in Links |-> "none"]
    /\ episode = [k \in Links |-> NoEpisode]
    /\ tickets = [k \in Links |-> [t \in TicketIds |-> Closed]]

LinkReports(k, r) ==
    /\ report[k] \notin {r, "absent"}
    /\ report' = [report EXCEPT ![k] = r]
    /\ UNCHANGED <<watched, seen, episode, tickets>>

\* notify_state_changes of the device is toggled; a gateway stays eligible.
Toggle(k) ==
    /\ k # Wan /\ report[k] # "absent"
    /\ watched' = IF k \in watched THEN watched \ {k} ELSE watched \cup {k}
    /\ UNCHANGED <<report, seen, episode, tickets>>

\* Somebody, or the worker, moves a ticket that is not closed.
MoveTicket(k, t, status) ==
    /\ tickets[k][t].status \in {"open", "handed_over"} \ {status}
    /\ tickets' = [tickets EXCEPT ![k][t].status = status]
    /\ UNCHANGED <<report, watched, seen, episode>>

\* The view in memory is lost, the episodes are not.
LinkRestart ==
    /\ seen' = [k \in Links |-> "none"]
    /\ UNCHANGED <<report, watched, episode, tickets>>

Older(age, max) == IF age = Unset \/ age = max THEN age ELSE age + 1

\* The newest flap is the first, so that those that can still count are a prefix.
Young(ep) == {i \in DOMAIN ep.flaps : ep.flaps[i] < FlapWindow}

\* One tick of time for an episode; a flap older than the window cannot count.
Aged(ep) ==
    [ep EXCEPT !.down = Older(@, PersistDown), !.quiet = Older(@, StableClose),
               !.flaps = [i \in Young(ep) |-> ep.flaps[i] + 1]]

LinkElapse ==
    /\ episode' = [k \in Links |-> Aged(episode[k])]
    /\ UNCHANGED <<report, watched, seen, tickets>>

LinkTypeOK ==
    /\ \A k \in Links : report[k] \in Says(k) \cup {"absent"}
    /\ watched \in SUBSET Links
    /\ seen \in [Links -> {"none", "up", "down"}]
    /\ \A k \in Links : episode[k] \in Episodes \cup {NoEpisode}
    /\ tickets \in [Links -> [TicketIds -> TicketRows]]

=============================================================================
