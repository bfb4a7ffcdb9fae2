------------------------------ MODULE WorkQueue ------------------------------
(***************************************************************************)
(* The worker's queue of tickets as its one loop serves it: the messages   *)
(* to the queue manager (worker/juniper.py), which open, hold, resume and  *)
(* close tickets, and the poll (worker/main.py), which picks the tickets   *)
(* to process through windows of a bounded size.  What a ticket goes       *)
(* through once it is picked is the module TicketPipeline.                 *)
(***************************************************************************)
EXTENDS Integers, FiniteSets

CONSTANTS
    MaxTickets,     \* bound: tickets; their numbers are their row ids
    Requester,      \* Requester[t]: whose ticket it is, Nobody for a monitor's
    Prio,           \* Prio[t]: 1 for P1 to 4 for P4
    MaxMsgs,        \* bound: messages to the queue manager
    Window,         \* how many open tickets a poll looks at
    Cap,            \* how many of them it takes
    FailWindow,     \* how many escalated tickets it looks at
    Budget,         \* failed runs after which a ticket is left to people
    MaxCrashes      \* bound: restarts of the worker

Nobody   == "nobody"
Tickets  == 1..MaxTickets
Auto     == {t \in Tickets : Requester[t] = Nobody}
Users    == {Requester[t] : t \in Tickets} \ {Nobody}
Msgs     == 1..MaxMsgs
Kinds    == {"intake", "pause", "resume", "close", "note"}
NoTicket == 0

VARIABLES
    st,         \* the status of a ticket: "busy" is in_progress or customer_action, and "due" is
                \* escalated once the cooldown since its last change has passed
    failures,   \* its failed runs
    said,       \* what people have written on it: nothing, something new, or what is known
    paused,     \* is_paused: the last pause directive among its notes
    msg,        \* the messages to the queue manager
    cur,        \* the message that it handles, and whether it has acted on it
    todo,       \* the tickets of this poll that are not processed yet
    acts,       \* history: how often a message has been acted upon
    crashes

ticket  == <<st, failures, said, paused>>
chat    == <<msg, cur, acts>>
vars    == <<ticket, chat, todo, crashes>>

NoCur   == [m |-> 0, acted |-> FALSE]
NoMsg   == [st |-> "unsent", by |-> Nobody, kind |-> "note", tkt |-> NoTicket]

\* A row that is written counts its cooldown again.
Stamped(s) == IF s = "due" THEN "escalated" ELSE s

-----------------------------------------------------------------------------
(* juniper.py                                                                *)

Between == todo = {} /\ cur = NoCur

Active(t, u) == st[t] \notin {"none", "closed"} /\ Requester[t] = u

\* _most_recent_active_ticket
Latest(u) == LET own == {t \in Tickets : Active(t, u)}
             IN IF own = {} THEN NoTicket ELSE CHOOSE t \in own : \A v \in own : v <= t

\* Mutant: the message is marked read by the reply to it.
ConsumeLate(m) ==
    /\ Between /\ msg[m].st = "unread" /\ \A n \in Msgs : msg[n].st = "unread" => m <= n
    /\ cur' = [NoCur EXCEPT !.m = m]
    /\ UNCHANGED <<msg, acts, ticket, todo, crashes>>

\* respond_once: the oldest message, marked read and committed before it is handled.
Consume(m) ==
    /\ Between /\ msg[m].st = "unread" /\ \A n \in Msgs : msg[n].st = "unread" => m <= n
    /\ msg' = [msg EXCEPT ![m].st = "read"]
    /\ cur' = [NoCur EXCEPT !.m = m]
    /\ UNCHANGED <<acts, ticket, todo, crashes>>

\* The ticket that a directive is for, if its sender may direct it.
Directed(m) == LET t == IF msg[m].tkt = NoTicket THEN Latest(msg[m].by) ELSE msg[m].tkt
               IN IF t = NoTicket \/ st[t] = "none" THEN {}
                  ELSE {t} \cap {v \in Tickets : Requester[v] = msg[m].by}

Opens(t) ==
    /\ st[t] = "none"
    /\ \A v \in Tickets : (v < t /\ Requester[v] = Requester[t]) => st[v] # "none"
    /\ st' = [st EXCEPT ![t] = "open"]
    /\ UNCHANGED <<failures, said, paused>>

Intake(m) == \E t \in Tickets : Requester[t] = msg[m].by /\ Opens(t)

Holds(t, on) ==
    /\ paused' = [paused EXCEPT ![t] = on]
    /\ st' = [st EXCEPT ![t] = Stamped(@)]
    /\ UNCHANGED <<failures, said>>

Closes(t) ==
    /\ st[t] # "closed"
    /\ st' = [st EXCEPT ![t] = "closed"]
    /\ UNCHANGED <<failures, said, paused>>

Writes(t) ==
    /\ said' = [said EXCEPT ![t] = "new"]
    /\ st' = [st EXCEPT ![t] = Stamped(@)]
    /\ UNCHANGED <<failures, paused>>

\* handle_message: what cannot be done is only answered, and so is a message that raised.
Handle ==
    /\ cur.m # 0 /\ ~cur.acted
    /\ LET m == cur.m
       IN \/ /\ \/ msg[m].kind = "intake" /\ Intake(m)
                \/ \E t \in Directed(m) : \/ msg[m].kind = "pause" /\ Holds(t, TRUE)
                                          \/ msg[m].kind = "resume" /\ Holds(t, FALSE)
                                          \/ msg[m].kind = "close" /\ Closes(t)
                                          \/ msg[m].kind = "note" /\ Writes(t)
             /\ acts' = [acts EXCEPT ![m] = @ + 1]
          \/ UNCHANGED <<ticket, acts>>
    /\ cur' = [cur EXCEPT !.acted = TRUE]
    /\ UNCHANGED <<msg, todo, crashes>>

\* reply, in a commit of its own.
Reply ==
    /\ cur.acted
    /\ msg' = [msg EXCEPT ![cur.m] = [NoMsg EXCEPT !.st = "read"]]
    /\ cur' = NoCur
    /\ UNCHANGED <<acts, ticket, todo, crashes>>

-----------------------------------------------------------------------------
(* worker/main.py: poll_for_tickets                                          *)

\* The first n of a set of tickets, in an order.
First(n, S, rank) == {t \in S : Cardinality({u \in S : rank[u] < rank[t]}) < n}
ByPrio == [t \in Tickets |-> Prio[t] * (MaxTickets + 1) + t]
ByRow  == [t \in Tickets |-> t]

Open == {t \in Tickets : st[t] = "open"}
Ours(t) == ~paused[t] /\ (t \in Auto => said[t] # "nothing")

\* Mutant: what is held is dropped after the cap.
FreshCapped == {t \in First(Cap, First(Window, Open, ByPrio), ByPrio) : Ours(t)}

\* Fresh tickets: held ones, and those of monitors on which nobody has written, are dropped
\* before the cap, but after the window.
Fresh == First(Cap, {t \in First(Window, Open, ByPrio) : Ours(t)}, ByPrio)

Replies == {t \in Tickets : st[t] \in {"busy", "escalated", "due"} /\ said[t] = "new" /\ ~paused[t]}

\* Failed runs that go back to the model: the window comes before every other condition.
Feedback == {t \in First(FailWindow, {v \in Tickets : st[v] = "due"}, ByRow) :
                ~paused[t] /\ failures[t] \in 1..(Budget - 1)}

Poll ==
    /\ Between /\ \A m \in Msgs : msg[m].st # "unread"
    /\ todo' = Fresh \cup Replies \cup Feedback
    /\ said' = [t \in Tickets |-> IF t \in Replies THEN "known" ELSE said[t]]
    /\ UNCHANGED <<st, failures, paused, chat, crashes>>

\* process_ticket, to the ticket's next rest: it waits for somebody, or its run fails.
Process(t) ==
    /\ t \in todo
    /\ todo' = todo \ {t}
    /\ \/ st' = [st EXCEPT ![t] = "busy"] /\ UNCHANGED failures
       \/ /\ st' = [st EXCEPT ![t] = "escalated"]
          /\ failures' = [failures EXCEPT ![t] = IF @ < Budget THEN @ + 1 ELSE @]
    /\ said' = [said EXCEPT ![t] = IF @ = "new" THEN "known" ELSE @]
    /\ UNCHANGED <<paused, chat, crashes>>

Crash ==
    /\ crashes < MaxCrashes
    /\ crashes' = crashes + 1
    /\ cur' = NoCur /\ todo' = {}
    /\ UNCHANGED <<msg, acts, ticket>>

-----------------------------------------------------------------------------
(* People, monitors, time.                                                   *)

\* POST /chat/messages, to the queue manager.
Send(m) ==
    /\ msg[m].st = "unsent" /\ \A n \in Msgs : n < m => msg[n].st # "unsent"
    /\ \E u \in Users, k \in Kinds, t \in Tickets \cup {NoTicket} :
         msg' = [msg EXCEPT ![m] = [st |-> "unread", by |-> u, kind |-> k, tkt |-> t]]
    /\ UNCHANGED <<cur, acts, ticket, todo, crashes>>

\* A monitor opens its ticket; a customer opens one in the portal.
Arrives(t) == Opens(t) /\ UNCHANGED <<chat, todo, crashes>>

\* A note in the ticket's thread, and the buttons: close, and the retry of an escalated ticket
\* (bound: people retry it until it has failed Budget times).
People(t) ==
    /\ st[t] \notin {"none", "closed"}
    /\ \/ Writes(t)
       \/ Closes(t)
       \/ /\ Stamped(st[t]) = "escalated" /\ failures[t] < Budget
          /\ st' = [st EXCEPT ![t] = "open"]
          /\ UNCHANGED <<failures, said, paused>>
    /\ UNCHANGED <<chat, todo, crashes>>

CoolsDown(t) ==
    /\ st[t] = "escalated"
    /\ st' = [st EXCEPT ![t] = "due"]
    /\ UNCHANGED <<failures, said, paused, chat, todo, crashes>>

\* The hour of a pause that has one comes.
PauseEnds(t) ==
    /\ paused[t]
    /\ paused' = [paused EXCEPT ![t] = FALSE]
    /\ UNCHANGED <<st, failures, said, chat, todo, crashes>>

Init ==
    /\ st = [t \in Tickets |-> "none"] /\ failures = [t \in Tickets |-> 0]
    /\ said = [t \in Tickets |-> "nothing"] /\ paused = [t \in Tickets |-> FALSE]
    /\ msg = [m \in Msgs |-> NoMsg] /\ cur = NoCur /\ acts = [m \in Msgs |-> 0]
    /\ todo = {} /\ crashes = 0

Worker == \/ \E m \in Msgs : Consume(m)
          \/ Handle \/ Reply \/ Poll
          \/ \E t \in Tickets : Process(t)

Next == \/ Worker \/ Crash
        \/ \E m \in Msgs : Send(m)
        \/ \E t \in Tickets : Arrives(t) \/ People(t) \/ CoolsDown(t) \/ PauseEnds(t)

\* The loop runs for as long as the worker does, every ticket it has picked gets its turn, and
\* time passes.
Spec == /\ Init /\ [][Next]_vars
        /\ WF_vars(Worker)
        /\ \A t \in Tickets : WF_vars(CoolsDown(t))

-----------------------------------------------------------------------------
(* Properties                                                                *)

TypeOK ==
    /\ st \in [Tickets -> {"none", "open", "busy", "escalated", "due", "closed"}]
    /\ failures \in [Tickets -> 0..Budget]
    /\ said \in [Tickets -> {"nothing", "new", "known"}] /\ paused \in [Tickets -> BOOLEAN]
    /\ msg \in [Msgs -> [st : {"unsent", "unread", "read"}, by : Users \cup {Nobody},
                         kind : Kinds, tkt : Tickets \cup {NoTicket}]]
    /\ cur \in [m : Msgs \cup {0}, acted : BOOLEAN] /\ acts \in [Msgs -> Nat]
    /\ todo \subseteq Tickets /\ crashes \in 0..MaxCrashes

\* A message opens one ticket, or directs one, once at most: not again when the worker dies
\* between acting on it and answering it.
ActsOnce == \A m \in Msgs : acts[m] <= 1

\* A customer's open ticket is picked unless it is held: tickets that are held, and those of
\* monitors, do not keep it waiting.
QueueServed == \A t \in Tickets \ Auto :
    st[t] = "open" /\ ~paused[t] ~> st[t] # "open" \/ paused[t]

Failing(t) == Stamped(st[t]) = "escalated" /\ failures[t] \in 1..(Budget - 1) /\ ~paused[t]

\* A failed run within the budget goes back to the model instead of leaving the ticket escalated.
FailureFedBack == \A t \in Tickets : Failing(t) ~> ~Failing(t) \/ t \in todo
=============================================================================
