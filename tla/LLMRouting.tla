----------------------------- MODULE LLMRouting -----------------------------
(***************************************************************************)
(* When and where the worker's model calls run: tickets that wait for an   *)
(* off-peak hour (worker/main.py, ratewindows.py), the choice of the local *)
(* box or the cloud (tierrouter.py), the chain of providers with its       *)
(* failover (llm_client.py, llm_providers.py), and the ticket about an     *)
(* outage of the whole chain.  Every provider has its key and its model.   *)
(***************************************************************************)
EXTENDS Integers

CONSTANTS
    Tickets,        \* tickets; a handled one stands for the next to arrive as well
    Order,          \* LLM_PROVIDER_ORDER, its duplicates collapsed
    Box,            \* the on-prem provider
    DownAfter,      \* LLM_PROVIDER_DOWN_AFTER, at least 2
    MaxAttempts,    \* LLM_RETRY_MAX_ATTEMPTS
    Hours,          \* hours of a day
    DefaultPeak,    \* the peak hours of DEFAULT_CONFIG
    FilePeak        \* the peak hours of rate_windows.json

Providers == {Order[i] : i \in DOMAIN Order} \cup {Box}
Classes   == {"ticket_judge", "ticket_executor"}
NoFile    == -1

VARIABLES
    up,         \* the providers that answer
    egress,     \* LLM_EGRESS
    hour,
    defer,      \* LLM_OFFPEAK_DEFER
    fails,      \* _PROVIDER_FAILURES
    probe,      \* _PROBE_CACHE of the box
    outage,     \* _LLM_OUTAGE
    outages,    \* outage tickets that are open or in progress
    ticket,     \* the tickets: status, urgency, failed attempts
    file,       \* the hours until start_at of a ticket's queue file, if there is one
    asked       \* history: the providers that the last call asked, and the egress it ran under

world == <<up, egress, hour, defer>>
mem   == <<fails, probe, outage>>
vars  == <<world, mem, outages, ticket, file, asked>>

Elems(s) == {s[i] : i \in DOMAIN s}

-----------------------------------------------------------------------------
(* ratewindows.py, tierrouter.py, llm_providers.py                           *)

\* next_off_peak_window: hours until one that is not at peak.
Until(peak, h) == CHOOSE k \in 0..Hours : /\ (h + k) % Hours \notin peak
                                          /\ \A j \in 0..(k - 1) : (h + j) % Hours \in peak

\* tier_for: the judge runs in the cloud, the executor on the box at peak.
Tier(class) == IF class = "ticket_executor" /\ hour \in FilePeak THEN "local" ELSE "cloud"

\* provider_order, provider_chain: local-only mode leaves the on-prem providers.
Chain == {p \in Elems(Order) : egress = "cloud" \/ p = Box}

\* local_healthy: the cache, or a new probe.
Healthy == IF probe = "unknown" THEN up[Box] ELSE probe = "healthy"
Probed(class) == probe' = IF Tier(class) = "local" THEN IF Healthy THEN "healthy" ELSE "unhealthy"
                          ELSE probe

Place == [p \in Elems(Order) |-> CHOOSE i \in DOMAIN Order : Order[i] = p]

\* The chain of one call, the place of each provider: the box first when the tier is local and the
\* box is healthy.
CallChain(class) ==
    LET first == Tier(class) = "local" /\ Healthy
    IN  [p \in Chain \cup (IF first THEN {Box} ELSE {}) |->
            IF first /\ p = Box THEN 0 ELSE Place[p]]

-----------------------------------------------------------------------------
(* llm_client.py: call_llm                                                   *)

Down(p) == fails[p] >= DownAfter

\* Mutant: the marks are not looked at.
AskedAll(c) == {p \in DOMAIN c : \A q \in DOMAIN c : c[q] < c[p] => ~up[q]}

\* The providers that a call over the chain c asks: those not marked down, up to the first that
\* answers.
Asked(c) == {p \in DOMAIN c : ~Down(p) /\ \A q \in DOMAIN c : c[q] < c[p] => Down(q) \/ ~up[q]}

Call(who) ==
    /\ fails' = [p \in Providers |-> IF p \notin who THEN fails[p]
                                     ELSE IF up[p] THEN 0 ELSE fails[p] + 1]
    /\ asked' = [who |-> who, egress |-> egress]

-----------------------------------------------------------------------------
(* worker/main.py                                                            *)

\* Mutant: the flag alone decides whether a ticket is opened.
MarkOutageBlind ==
    /\ outage' = TRUE
    /\ outages' = IF outage THEN outages ELSE outages + 1

\* _mark_llm_outage: one ticket for an outage, also when the worker has forgotten it.
MarkOutage ==
    /\ outage' = TRUE
    /\ outages' = IF outage \/ outages > 0 THEN outages ELSE 1

\* _clear_llm_outage: by the flag of this process.
ClearOutage ==
    /\ outage' = FALSE
    /\ outages' = IF outage /\ outages > 0 THEN outages - 1 ELSE outages

\* Mutant: parked tickets are left out and not added again when they are due.
PickedUnparked(t) == \/ ticket[t].status = "open" /\ (defer => file[t] = NoFile)
                     \/ ticket[t].status = "retry"

\* The polls: fresh tickets that no queue file holds back, parked ones that are due, and retries.
Picked(t) == \/ ticket[t].status = "open" /\ (defer => file[t] \in {NoFile, 0})
             \/ ticket[t].status = "retry"

\* _maybe_defer_offpeak: the windows are those of DEFAULT_CONFIG.
MustWait(t) == defer /\ ~ticket[t].urgent /\ hour \in DefaultPeak

Park(t) ==
    /\ Picked(t) /\ MustWait(t)
    /\ ticket' = [ticket EXCEPT ![t].status = "open"]
    /\ file' = [file EXCEPT ![t] = Until(DefaultPeak, hour)]
    /\ UNCHANGED <<world, mem, outages, asked>>

\* A parked ticket that is due leaves the queue before it is worked on.
Unparked(t) == file' = IF defer /\ file[t] = 0 THEN [file EXCEPT ![t] = NoFile] ELSE file

\* _handle_llm_failure
Failed(t) == ticket' = [ticket EXCEPT ![t].attempts = @ + 1,
                          ![t].status = IF ticket[t].attempts + 1 >= MaxAttempts THEN "escalated"
                                        ELSE "retry"]

\* process_ticket, with or without the judge: its call alone does not close an outage ticket.
Work(t) ==
    /\ Picked(t) /\ ~MustWait(t)
    /\ Unparked(t)
    /\ \E class \in Classes :
         LET who      == Asked(CallChain(class))
             answered == \E p \in who : up[p]
         IN  /\ Call(who) /\ Probed(class)
             /\ \/ /\ answered /\ class = "ticket_executor"
                   /\ ClearOutage
                   /\ ticket' = [ticket EXCEPT ![t].status = "done"]
                \/ /\ answered /\ class = "ticket_judge"
                   /\ ticket' = [ticket EXCEPT ![t].status = "escalated"]
                   /\ UNCHANGED <<outage, outages>>
                \/ /\ ~answered
                   /\ MarkOutage
                   /\ Failed(t)
    /\ UNCHANGED world

\* The files that are due of tickets that are no longer open are dropped.
Drop(t) ==
    /\ defer /\ file[t] = 0 /\ ticket[t].status # "open"
    /\ file' = [file EXCEPT ![t] = NoFile]
    /\ UNCHANGED <<world, mem, outages, ticket, asked>>

Restart ==
    /\ fails' = [p \in Providers |-> 0] /\ probe' = "unknown" /\ outage' = FALSE
    /\ UNCHANGED <<world, outages, ticket, file, asked>>

-----------------------------------------------------------------------------
(* The providers, the clock, the settings, people.                           *)

Provider(p) ==
    /\ up' = [up EXCEPT ![p] = ~@]
    /\ UNCHANGED <<egress, hour, defer, mem, outages, ticket, file, asked>>

\* The worker gets to every ticket it has picked within the hour.
Hour ==
    /\ \A t \in Tickets : ~Picked(t)
    /\ hour' = (hour + 1) % Hours
    /\ file' = [t \in Tickets |-> IF file[t] > 0 THEN file[t] - 1 ELSE file[t]]
    /\ UNCHANGED <<up, egress, defer, mem, outages, ticket, asked>>

ProbeExpires ==
    /\ probe # "unknown" /\ probe' = "unknown"
    /\ UNCHANGED <<world, fails, outage, outages, ticket, file, asked>>

Settings ==
    /\ \/ egress' \in {"cloud", "local"} \ {egress} /\ UNCHANGED defer
       \/ defer' = ~defer /\ UNCHANGED egress
    /\ UNCHANGED <<up, hour, mem, outages, ticket, file, asked>>

Arrives(t) ==
    /\ ticket[t].status \in {"done", "escalated"} /\ file[t] = NoFile
    /\ \E urgent \in BOOLEAN :
          ticket' = [ticket EXCEPT ![t] = [status |-> "open", urgent |-> urgent, attempts |-> 0]]
    /\ UNCHANGED <<world, mem, outages, file, asked>>

\* A person escalates or closes an outage ticket.
Person ==
    /\ outages > 0 /\ outages' = outages - 1
    /\ UNCHANGED <<world, mem, ticket, file, asked>>

Init ==
    /\ up = [p \in Providers |-> TRUE] /\ egress = "cloud" /\ hour = 0 /\ defer = TRUE
    /\ fails = [p \in Providers |-> 0] /\ probe = "unknown" /\ outage = FALSE
    /\ outages = 0 /\ file = [t \in Tickets |-> NoFile]
    /\ \E urgent \in BOOLEAN :
         ticket = [t \in Tickets |-> [status |-> "open", urgent |-> urgent, attempts |-> 0]]
    /\ asked = [who |-> {}, egress |-> "cloud"]

Poll == \E t \in Tickets : Park(t) \/ Work(t) \/ Drop(t)

Next == \/ Poll \/ Restart \/ Hour \/ ProbeExpires \/ Settings
        \/ \E p \in Providers : Provider(p)
        \/ \E t \in Tickets : Arrives(t)
        \/ Person

\* The worker polls for as long as it runs, and time passes; nobody turns the deferral off and on
\* in step with the polls.
Spec == /\ Init /\ [][Next]_vars
        /\ \A t \in Tickets : SF_vars(Park(t) \/ Work(t))
        /\ SF_vars(Hour)

\* As Spec, with tickets that never cease to arrive and no restart of the worker.
RunningSpec == /\ Init /\ [][Next /\ ~Restart]_vars
               /\ \A t \in Tickets : SF_vars(Park(t) \/ Work(t)) /\ WF_vars(Arrives(t) \/ Drop(t))
               /\ SF_vars(Hour)

-----------------------------------------------------------------------------
(* Properties                                                                *)

TypeOK ==
    /\ up \in [Providers -> BOOLEAN] /\ egress \in {"cloud", "local"}
    /\ hour \in 0..(Hours - 1) /\ defer \in BOOLEAN
    /\ fails \in [Providers -> 0..DownAfter] /\ probe \in {"unknown", "healthy", "unhealthy"}
    /\ outage \in BOOLEAN /\ outages \in Nat
    /\ ticket \in [Tickets -> [status : {"open", "retry", "done", "escalated"}, urgent : BOOLEAN,
                               attempts : 0..MaxAttempts]]
    /\ file \in [Tickets -> {NoFile} \cup (0..Hours)]

\* Restarts, recoveries and people never leave two tickets open about one outage.
OneOutageTicket == outages <= 1

\* In local-only mode no hosted provider is asked, by whichever way a call is routed.
EgressHolds == asked.egress = "local" => asked.who \subseteq {Box}

\* A ticket that waits for the worker is answered, or handed to a person, in the end: parking it,
\* an outage and the retries only delay it.
TicketsSettle == \A t \in Tickets : ticket[t].status \in {"open", "retry"}
                                        ~> ticket[t].status \in {"done", "escalated"}

\* A provider that is marked down is retried when it is the last option left: once all of them
\* are back for good, the chain has a provider to ask.
ChainRecovers == (<>[](egress = "cloud") /\ \A p \in Providers : <>[]up[p])
                     => []<>(\E p \in Chain : ~Down(p))

\* Tickets are parked at the peak hours of rate_windows.json only.
ParkedAtPeak ==
    [][\A t \in Tickets : file[t] = NoFile /\ file'[t] # NoFile => hour \in FilePeak]_vars
=============================================================================
