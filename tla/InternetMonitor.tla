-------------------------- MODULE InternetMonitor --------------------------
(***************************************************************************)
(* The internet probe (api/alerting.py, InternetMonitor) and the link      *)
(* monitor in the loop of the alert engine's thread, which runs the probe  *)
(* first.  The two share the WAN's episode: on a confirmed outage the      *)
(* probe promotes its open ticket instead of opening one of its own, and   *)
(* from then on the episode is the probe's to close.                       *)
(***************************************************************************)
EXTENDS LinkMonitor, FiniteSets

CONSTANTS
    Confirm,    \* INTERNET_PROBE_CONFIRM
    MaxFaults   \* bound: failed transactions and restarts

ASSUME InternetMonitorAssumption ==
    /\ Confirm \in Nat \ {0}
    /\ MaxFaults \in Nat

States == {"online", "isp_down", "link_down"}
OutageStatus == {"open", "handed_over"}   \* open is open or in progress

VARIABLES
    state,      \* _state: the confirmed state, "none" before the first
    counted,    \* the results that _streak counts
    outage,     \* statuses of "Internet connectivity down" tickets not closed yet
    turn,       \* what the loop runs next
    faults      \* failed transactions and restarts so far

probeVars == <<state, counted, outage, turn, faults>>
vars      == <<linkVars, probeVars>>

-----------------------------------------------------------------------------
(* promote_wan_ticket and _outage.                                           *)

WanTicket == tickets[Wan][episode[Wan].ticket]

\* find_open_wan_episode finds it, and its ticket is open or in progress.
Promotable == /\ episode[Wan] # NoEpisode
              /\ WanTicket.status = "open"

PromoteWan ==
    /\ episode' = [episode EXCEPT ![Wan].reason = "wan_probe", ![Wan].state = "outage"]
    /\ tickets' = [tickets EXCEPT ![Wan][episode[Wan].ticket].priority = "P1"]

\* Promote the WAN's ticket, or open a P1 unless one is open or in progress.
Outage ==
    \/ Promotable /\ PromoteWan /\ UNCHANGED outage
    \/ ~Promotable /\ outage' = outage \cup {"open"} /\ UNCHANGED <<episode, tickets>>

\* Mutant: only the probe's own ticket is closed.
RecoveredOwnTicket ==
    /\ outage' = outage \ {"open"}
    /\ UNCHANGED <<episode, tickets>>

\* _recovered closes its ticket while open or in progress, and ends a promoted episode
\* with its ticket, if that is still open or in progress.
Recovered ==
    /\ outage' = outage \ {"open"}
    /\ IF episode[Wan].reason = "wan_probe"
       THEN /\ tickets' = [tickets EXCEPT ![Wan] = ClosedUnwatched(Row(Wan)).tk]
            /\ episode' = [episode EXCEPT ![Wan] = NoEpisode]
       ELSE UNCHANGED <<episode, tickets>>

\* The handler of a confirmed state; state has already changed when it fails.
Handle(status, committed) ==
    IF ~committed THEN UNCHANGED <<outage, episode, tickets>>
    ELSE IF status = "online" THEN Recovered ELSE Outage

Fault(committed) ==
    faults' = IF committed THEN faults ELSE faults + 1

\* check: the streak counts results that differ from the confirmed state.  A
\* failure leaves the loop's cycle, so that the link monitor does not run in it.
Probe(net, committed) ==
    /\ turn = "probe"
    /\ \/ /\ net = state /\ committed
          /\ counted' = <<>>
          /\ UNCHANGED <<state, outage, episode, tickets>>
       \/ /\ net # state /\ Len(counted) + 1 < Confirm /\ committed
          /\ counted' = Append(counted, net)
          /\ UNCHANGED <<state, outage, episode, tickets>>
       \/ /\ net # state /\ Len(counted) + 1 >= Confirm
          /\ counted' = <<>>
          /\ state' = net
          /\ Handle(net, committed)
    /\ turn' = IF committed THEN "links" ELSE "probe"
    /\ Fault(committed)
    /\ UNCHANGED <<report, watched, seen>>

LinkCheck(committed) ==
    /\ turn = "links"
    /\ Check(committed)
    /\ turn' = "probe"
    /\ Fault(committed)
    /\ UNCHANGED <<state, counted, outage>>

-----------------------------------------------------------------------------

Init ==
    /\ LinkInit
    /\ state = "none"
    /\ counted = <<>>
    /\ outage = {}
    /\ turn = "probe"
    /\ faults = 0

\* The worker or a person moves or closes the probe's ticket.  (No two tickets
\* with one status: bound.)
MoveOutage(from, to) ==
    /\ from \in outage /\ to \cap outage = {}
    /\ outage' = (outage \ {from}) \cup to
    /\ UNCHANGED <<linkVars, state, counted, turn, faults>>

Restart ==
    /\ faults < MaxFaults
    /\ faults' = faults + 1
    /\ LinkRestart
    /\ state' = "none"
    /\ counted' = <<>>
    /\ turn' = "probe"
    /\ UNCHANGED <<outage>>

Environment ==
    \/ \E from \in OutageStatus, to \in {{}, {"open"}, {"handed_over"}} : MoveOutage(from, to)
    \/ /\ \/ \E k \in Links : Toggle(k) \/ \E r \in Says(k) : LinkReports(k, r)
          \/ \E k \in Links, t \in TicketIds, s \in {"open", "handed_over", "closed"} :
                MoveTicket(k, t, s)
       /\ UNCHANGED probeVars

Elapse == LinkElapse /\ UNCHANGED probeVars

\* The pings of the gateway and of the host say the state the network is in.
Turn(committed) == (\E net \in States : Probe(net, committed)) \/ LinkCheck(committed)

Cycle == Turn(TRUE)

Fails == faults < MaxFaults /\ Turn(FALSE)

Next == Environment \/ Elapse \/ Cycle \/ Fails \/ Restart

Spec == Init /\ [][Next]_vars

\* Time passes, and the thread goes round its loop.
FairSpec == Spec /\ WF_vars(Elapse) /\ WF_vars(Cycle)

-----------------------------------------------------------------------------
(* What the monitors keep.                                                   *)

\* Every variable has its type (link_episodes, tickets, the thread's fields).
TypeOK ==
    /\ LinkTypeOK
    /\ state \in States \cup {"none"}
    /\ counted \in BoundedSeq(States, Confirm - 1)
    /\ outage \in SUBSET OutageStatus
    /\ turn \in {"probe", "links"}
    /\ faults \in 0..MaxFaults

\* An episode has one ticket, which is P1 exactly when the episode was raised, and a
\* ticket without an episode is closed unless the monitor stopped watching the link,
\* or the probe recovered, while a person or the worker had the ticket.
EpisodeHasTicket ==
    \A k \in Links, t \in TicketIds :
        /\ episode[k].ticket = t =>
              tickets[k][t].priority = (IF episode[k].reason = "none" THEN "P2" ELSE "P1")
        /\ episode[k].ticket # t => tickets[k][t] \in {Closed, Left}

\* While the confirmed state is online no episode is the probe's, which nothing else
\* would close; unless a transaction failed.
OnlineReleasesWan ==
    faults = 0 /\ state = "online" => episode[Wan].reason # "wan_probe"

Level(k) == IF episode[k] = NoEpisode THEN "none"
            ELSE IF episode[k].reason = "none" THEN "P2" ELSE "P1"

Incidents == INSTANCE Incident WITH
    Subjects <- Links,
    Tickets  <- TicketIds,
    level    <- [k \in Links |-> Level(k)],
    ticket   <- [k \in Links |-> episode[k].ticket]

\* Every link's episode is an incident: one ticket, P2 first, the same one raised to P1
\* at most once, another one only after the end.
LinkIncidents == Incidents!Spec

\* An episode of a link that stays up ends, unless it is the probe's.
StableEpisodeEnds ==
    \A k \in Links :
        <>[](report[k] = "up" /\ k \in watched) =>
            []<>(episode[k] = NoEpisode \/ episode[k].reason = "wan_probe")

\* An episode of a link that stays down is raised to P1, also across a restart.
OutageEscalates ==
    \A k \in Links :
        <>[](report[k] = "down" /\ k \in watched /\ episode[k] # NoEpisode) =>
            <>[](episode[k].reason # "none")

=============================================================================
