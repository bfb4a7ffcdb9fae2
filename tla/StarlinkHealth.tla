--------------------------- MODULE StarlinkHealth ---------------------------
(***************************************************************************)
(* The Starlink health monitor (api/starlink.py).  Each cycle classifies   *)
(* the dish's snapshot and drives one episode and its ticket; a dish that  *)
(* does not answer is a gap, in which the record of a dish without recent  *)
(* telemetry is purged.                                                    *)
(***************************************************************************)
EXTENDS Integers

CONSTANTS    \* all of them positive
    DegradeWindow, OutageWindow, RecoverWindow,  \* minutes, in ticks
    PhantomWindow                                \* PHANTOM_METRIC_WINDOW_DAYS, in ticks

Unset      == -1
Clock(max) == 0..max \cup {Unset}

NoEpisode == [state |-> "none", degraded |-> Unset, outage |-> Unset,
              recovered |-> Unset, escalated |-> "none"]

\* starlink_episodes; the clocks are the ages of degraded_since, outage_since and
\* recovered_since.
Episodes == [state : {"healthy", "degraded", "outage"},
             degraded : Clock(DegradeWindow), outage : Clock(OutageWindow),
             recovered : Clock(RecoverWindow), escalated : {"none", "P2", "P1"}]

NoTicket == [status |-> "none", priority |-> "P2"]

\* "open" is open or in_progress, "handed_over" any other status but closed; "left" is
\* history: a ticket whose episode is out of the monitor's reach.
TicketRows == [status : {"none", "open", "handed_over", "closed", "left"},
               priority : {"P2", "P1"}]

VARIABLES
    dish,       \* how the dish would be classified now, "gap" if it does not answer
    silent,     \* age of the last telemetry row, Unset without a dish record
    ep,         \* the episode of the dish's record
    ticket      \* the episode's ticket

vars == <<dish, silent, ep, ticket>>

-----------------------------------------------------------------------------

Started(age) == IF age = Unset THEN 0 ELSE age

\* The first observation is the baseline and raises nothing.
Seeded(state) ==
    [NoEpisode EXCEPT !.state = state,
                      !.degraded = IF state \in {"degraded", "outage"} THEN 0 ELSE Unset,
                      !.outage = IF state = "outage" THEN 0 ELSE Unset]

Close == /\ ep' = NoEpisode
         /\ ticket' = [ticket EXCEPT !.status = IF @ = "none" THEN "none" ELSE "closed"]

\* Mutant: a link that is well again waits for somebody to close the ticket.
OnHealthyWaits ==
    /\ ep' = [ep EXCEPT !.degraded = Unset, !.outage = Unset, !.recovered = Started(@)]
    /\ UNCHANGED ticket

OnHealthy ==
    LET well == [ep EXCEPT !.degraded = Unset, !.outage = Unset, !.recovered = Started(@)]
    IN  IF ep.state # "healthy" /\ well.recovered >= RecoverWindow
        THEN Close
        ELSE ep' = well /\ UNCHANGED ticket

OpenDegraded(e) ==
    /\ ep' = [e EXCEPT !.state = "degraded", !.escalated = "P2"]
    /\ ticket' = [status |-> "open", priority |-> "P2"]

OnDegraded ==
    LET e == [ep EXCEPT !.recovered = Unset, !.outage = Unset, !.degraded = Started(@)]
    IN  IF ep.state = "healthy" /\ e.degraded >= DegradeWindow
        THEN OpenDegraded(e)
        ELSE /\ ep' = [e EXCEPT !.state = IF @ = "outage" THEN "degraded" ELSE @]
             /\ UNCHANGED ticket

\* The ticket becomes P1, if there is one.
EscalateOutage(e) ==
    /\ ep' = [e EXCEPT !.escalated = "P1"]
    /\ ticket' = [ticket EXCEPT !.priority = IF ticket.status = "none" THEN @ ELSE "P1"]

OnOutage ==
    LET e == [ep EXCEPT !.recovered = Unset, !.degraded = Started(@), !.outage = Started(@),
                        !.state = "outage"]
    IN  IF ep.escalated # "P1" /\ e.outage >= OutageWindow
        THEN EscalateOutage(e)
        ELSE ep' = e /\ UNCHANGED ticket

\* _advance.
Advance ==
    \/ ep = NoEpisode /\ ep' = Seeded(dish) /\ UNCHANGED ticket
    \/ ep # NoEpisode /\ dish = "healthy" /\ OnHealthy
    \/ ep # NoEpisode /\ dish = "degraded" /\ OnDegraded
    \/ ep # NoEpisode /\ dish = "outage" /\ OnOutage

\* check with a snapshot.  ensure_dish_device finds the dish's record or creates one;
\* a new record may not get the id that a purged one had, and then no cycle finds the
\* old episode again.
CheckAnswered ==
    /\ dish # "gap"
    /\ silent' = 0
    /\ \/ Advance
       \/ /\ silent = Unset /\ ep # NoEpisode
          /\ ep' = Seeded(dish)
          /\ ticket' = IF ticket.status \in {"open", "handed_over"}
                       THEN [ticket EXCEPT !.status = "left"] ELSE ticket

\* _purge_phantom_dish deletes the record and its telemetry, not the episode.
CheckGap ==
    /\ dish = "gap"
    /\ silent' = IF silent = PhantomWindow THEN Unset ELSE silent
    /\ UNCHANGED <<ep, ticket>>

Check == (CheckAnswered \/ CheckGap) /\ UNCHANGED dish

-----------------------------------------------------------------------------

Init == /\ dish \in {"healthy", "degraded", "outage", "gap"}
        /\ silent = Unset
        /\ ep = NoEpisode
        /\ ticket = NoTicket

DishChanges == /\ dish' \in {"healthy", "degraded", "outage", "gap"} \ {dish}
               /\ UNCHANGED <<silent, ep, ticket>>

\* Somebody, or the worker, moves the ticket.
MoveTicket == /\ ticket.status \in {"open", "handed_over"}
              /\ \E s \in {"open", "handed_over", "closed"} \ {ticket.status} :
                    ticket' = [ticket EXCEPT !.status = s]
              /\ UNCHANGED <<dish, silent, ep>>

Older(age, max) == IF age = Unset \/ age = max THEN age ELSE age + 1

Elapse ==
    /\ ep' = [ep EXCEPT !.degraded = Older(@, DegradeWindow), !.outage = Older(@, OutageWindow),
                        !.recovered = Older(@, RecoverWindow)]
    /\ silent' = Older(silent, PhantomWindow)
    /\ UNCHANGED <<dish, ticket>>

Next == Check \/ DishChanges \/ MoveTicket \/ Elapse

Spec == Init /\ [][Next]_vars /\ WF_vars(Check) /\ WF_vars(Elapse)

-----------------------------------------------------------------------------

\* Types; an episode raised to P2 has a ticket, and a P1 ticket an episode raised to P1.
TypeOK ==
    /\ dish \in {"healthy", "degraded", "outage", "gap"}
    /\ silent \in Clock(PhantomWindow)
    /\ ep \in Episodes \cup {NoEpisode}
    /\ ticket \in TicketRows

\* A link that stays well ends its episode and closes the ticket, unless the ticket
\* went out of the monitor's reach.
RecoveryCloses ==
    <>[](dish = "healthy") => []<>(/\ ep = NoEpisode \/ ep.state = "healthy"
                                   /\ ticket.status \in {"none", "closed", "left"})

\* "Dish link down -> ... escalates to P1": an outage of a link that was well has a
\* ticket when it lasts.
OutageHasTicket ==
    <>(ep.state = "healthy" /\ [](dish = "outage")) => <>(ticket.status # "none")

=============================================================================
