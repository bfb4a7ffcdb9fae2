------------------------------ MODULE MCWorker ------------------------------
(***************************************************************************)
(* The worker's queues, its routing of model calls and the judge for TLC:  *)
(* in each behaviour one of them runs and the others stay at their initial *)
(* state.  They are views of the same polls, which share no state but what *)
(* the pipeline (TicketPipeline) models of a ticket.                       *)
(*                                                                         *)
(* The queues: a monitor's ticket and one of ann's, less urgent.  Routing: *)
(* one ticket, a hosted provider before the box, peak hours that differ    *)
(* between the defaults and the file.  The judge: one ticket, a text that *)
(* a rule knows and that has a risk word, or one that is neither; a         *)
(* verdict is kept until the next tick.                                    *)
(***************************************************************************)
EXTENDS Integers

CONSTANTS
    MaxTickets, Requester, Prio, MaxMsgs, Window, Cap, FailWindow, Budget, MaxCrashes,
    Parkable, Order, Box, DownAfter, MaxAttempts, Hours, DefaultPeak, FilePeak,
    Judgeable, Priorities, Categories, Texts, ReadOnly, Writing, NoValue, Ttl, Overrides,
    MaxTime, MaxChanges, MaxReplies

VARIABLES
    part,                                                       \* what runs
    st, failures, said, paused, msg, cur, todo, acts, crashes,
    up, egress, hour, defer, fails, probe, outage, outages, ticket, file, asked,
    now, settings, cache, about, outcome, job, round, ruled, goAhead, changes, replies

Queue == INSTANCE WorkQueue

Routing == INSTANCE LLMRouting WITH Tickets <- Parkable

Judging == INSTANCE Judge WITH
    Tickets <- Judgeable, Restrictable <- Writing, None <- NoValue, said <- goAhead

\* What the worker's settings and its environment are.
ASSUME WorkerAssumption ==
    /\ {MaxTickets, MaxMsgs, Budget, MaxCrashes} \subseteq Nat
    /\ {DownAfter, MaxAttempts, Hours} \subseteq Nat \ {0}
    /\ DefaultPeak \subseteq 0..(Hours - 1) /\ DefaultPeak # 0..(Hours - 1)
    /\ {Ttl, MaxTime, MaxChanges, MaxReplies} \subseteq Nat

queueVars   == <<st, failures, said, paused, msg, cur, todo, acts, crashes>>
routingVars == <<up, egress, hour, defer, fails, probe, outage, outages, ticket, file, asked>>
judgeVars   ==
    <<now, settings, cache, about, outcome, job, round, ruled, goAhead, changes, replies>>
vars        == <<part, queueVars, routingVars, judgeVars>>

\* Values for the constants: whose the tickets are and how urgent, the providers, the texts.
TwoRequesters == <<"nobody", "ann">>
TwoPriorities == <<1, 2>>
HostedFirst   == <<"hosted", "box">>

Known   == [risks |-> {"network"}, good |-> "look", phrase |-> FALSE]
Unknown == [risks |-> {}, good |-> "none", phrase |-> TRUE]

TwoTexts    == {Known, Unknown}
NoneOrEmpty == {NoValue, {}}

-----------------------------------------------------------------------------

Init ==
    /\ part \in {"queue", "routing", "judge"}
    /\ Queue!Init
    /\ Routing!Init /\ (part # "routing" => \A t \in Parkable : ticket[t].urgent)
    /\ Judging!Init /\ ~settings.judge /\ (\A t \in Judgeable : about[t].priority = "P3")
    /\ part # "judge" => settings.profile = "none" /\ (\A t \in Judgeable : about[t].text = Known)

Next ==
    \/ part = "queue" /\ Queue!Next /\ UNCHANGED <<part, routingVars, judgeVars>>
    \/ part = "routing" /\ Routing!Next /\ UNCHANGED <<part, queueVars, judgeVars>>
    \/ part = "judge" /\ Judging!Next /\ UNCHANGED <<part, queueVars, routingVars>>

\* Each under its own fairness.
Spec ==
    /\ Init /\ [][Next]_vars
    /\ WF_queueVars(part = "queue" /\ Queue!Worker)
    /\ \A t \in 1..MaxTickets : WF_queueVars(part = "queue" /\ Queue!CoolsDown(t))
    /\ \A t \in Parkable : SF_routingVars(part = "routing" /\ (Routing!Park(t) \/ Routing!Work(t)))
    /\ SF_routingVars(part = "routing" /\ Routing!Hour)

-----------------------------------------------------------------------------

\* WorkQueue: a message acts once at most, also when the worker dies handling it.
ActsOnce == Queue!ActsOnce

\* WorkQueue: a customer's open ticket is picked unless it is held.
QueueServed == part = "queue" => Queue!QueueServed

\* WorkQueue: with a window as long as the queue, failed runs within the budget go back to the
\* model.
FailureFedBack == part = "queue" => Queue!FailureFedBack

\* Every variable of all has its type.  LLMRouting: one ticket for an outage at most; in local-only
\* mode no hosted provider is asked.
RoutingHolds ==
    /\ Queue!TypeOK /\ Routing!TypeOK /\ Judging!TypeOK
    /\ Routing!OneOutageTicket /\ Routing!EgressHolds

\* Judge: what the judge phase leads to rests on a verdict really reached, lately, on the same text
\* at the same priority.
VerdictIsReal == Judging!VerdictIsReal

\* LLMRouting: parking, an outage and the retries only delay a ticket.
TicketsSettle == part = "routing" => Routing!TicketsSettle

=============================================================================
