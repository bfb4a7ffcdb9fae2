----------------------------- MODULE WorkerProofs ----------------------------
(***************************************************************************)
(* Theorems about the worker, for all values of the constants: its queues, *)
(* where its model calls run, and what the judge's verdicts rest on.       *)
(***************************************************************************)
EXTENDS MCWorker, WellFoundedInduction, TLAPS

USE WorkerAssumption

-----------------------------------------------------------------------------
(* The queue manager's messages (WorkQueue).                               *)

\* A message that is not read has not been acted upon, and neither has the one at hand until
\* it is marked as handled; the one at hand is read.
QueueInv ==
    /\ Queue!TypeOK
    /\ ActsOnce
    /\ \A m \in Queue!Msgs : msg[m].st # "read" => acts[m] = 0
    /\ cur.m # 0 => msg[cur.m].st = "read"
    /\ cur.m # 0 /\ ~cur.acted => acts[cur.m] = 0

LEMMA QueueInit == Queue!Init => QueueInv
BY DEF Queue!Init, QueueInv, Queue!TypeOK, ActsOnce, Queue!ActsOnce, Queue!NoMsg, Queue!NoCur,
       Queue!Msgs, Queue!Tickets, Queue!Kinds, Queue!Nobody, Queue!NoTicket

\* A step that changes rows keeps their types.
LEMMA RowsKeepTypes ==
    ASSUME Queue!TypeOK, NEW t \in Queue!Tickets,
           \/ Queue!Opens(t) \/ Queue!Closes(t) \/ Queue!Writes(t)
           \/ \E on \in BOOLEAN : Queue!Holds(t, on)
    PROVE  /\ st' \in [Queue!Tickets -> {"none", "open", "busy", "escalated", "due", "closed"}]
           /\ failures' \in [Queue!Tickets -> 0..Budget]
           /\ said' \in [Queue!Tickets -> {"nothing", "new", "known"}]
           /\ paused' \in [Queue!Tickets -> BOOLEAN]
BY DEF Queue!TypeOK, Queue!Opens, Queue!Closes, Queue!Writes, Queue!Holds, Queue!Stamped

LEMMA HandleKeeps ==
    ASSUME QueueInv, Queue!Handle
    PROVE  QueueInv'
<1>1. /\ cur.m # 0 /\ ~cur.acted /\ cur.m \in Queue!Msgs
      /\ cur' = [cur EXCEPT !.acted = TRUE]
      /\ UNCHANGED <<msg, todo, crashes>>
      /\ acts' = [acts EXCEPT ![cur.m] = @ + 1] \/ UNCHANGED acts
  BY DEF Queue!Handle, Queue!ticket, QueueInv, Queue!TypeOK
<1>2. /\ st' \in [Queue!Tickets -> {"none", "open", "busy", "escalated", "due", "closed"}]
      /\ failures' \in [Queue!Tickets -> 0..Budget]
      /\ said' \in [Queue!Tickets -> {"nothing", "new", "known"}]
      /\ paused' \in [Queue!Tickets -> BOOLEAN]
  <2>1. CASE UNCHANGED <<st, failures, said, paused>>
    BY <2>1 DEF QueueInv, Queue!TypeOK
  <2>2. CASE \E t \in Queue!Tickets : Queue!Opens(t)
    BY <2>2, RowsKeepTypes DEF QueueInv
  <2>3. CASE \E t \in Queue!Directed(cur.m) :
                \/ Queue!Closes(t) \/ Queue!Writes(t)
                \/ \E on \in BOOLEAN : Queue!Holds(t, on)
    <3>1. Queue!Directed(cur.m) \subseteq Queue!Tickets
      BY DEF Queue!Directed
    <3> QED
      BY <2>3, <3>1, RowsKeepTypes DEF QueueInv
  <2> QED
    BY <2>1, <2>2, <2>3 DEF Queue!Handle, Queue!Intake, Queue!ticket
<1>3. \A m \in Queue!Msgs : acts'[m] = acts[m] \/ (m = cur.m /\ acts'[m] = 1)
  BY <1>1 DEF QueueInv, Queue!TypeOK
<1>4. acts' \in [Queue!Msgs -> Nat]
  BY <1>1 DEF QueueInv, Queue!TypeOK
<1>5. cur' \in [m : Queue!Msgs \cup {0}, acted : BOOLEAN] /\ cur'.m = cur.m /\ cur'.acted
  BY <1>1 DEF QueueInv, Queue!TypeOK
<1>6. Queue!TypeOK'
  BY <1>1, <1>2, <1>4, <1>5 DEF QueueInv, Queue!TypeOK
<1>7. ActsOnce'
  BY <1>3, <1>4 DEF QueueInv, ActsOnce, Queue!ActsOnce
<1>8. \A m \in Queue!Msgs : msg'[m].st # "read" => acts'[m] = 0
  BY <1>1, <1>3 DEF QueueInv
<1> QED
  BY <1>1, <1>5, <1>6, <1>7, <1>8 DEF QueueInv

\* The steps that touch the messages.
LEMMA ChatKeeps ==
    ASSUME QueueInv, NEW m \in Queue!Msgs,
           Queue!Consume(m) \/ Queue!Send(m)
    PROVE  QueueInv'
<1> USE DEF QueueInv, Queue!TypeOK, ActsOnce, Queue!ActsOnce, Queue!ticket
<1>1. CASE Queue!Consume(m)
  BY <1>1 DEF Queue!Consume, Queue!NoCur, Queue!Msgs
<1>2. CASE Queue!Send(m)
  <2>1. msg[m].st = "unsent" /\ UNCHANGED <<st, failures, said, paused, cur, acts, todo, crashes>>
    BY <1>2 DEF Queue!Send
  <2>2. PICK u \in Queue!Users, k \in Queue!Kinds, t \in Queue!Tickets \cup {Queue!NoTicket} :
           msg' = [msg EXCEPT ![m] = [st |-> "unread", by |-> u, kind |-> k, tkt |-> t]]
    BY <1>2 DEF Queue!Send
  <2> QED
    BY <2>1, <2>2
<1> QED
  BY <1>1, <1>2

\* The steps that leave the messages alone.
LEMMA TicketsKeep ==
    ASSUME QueueInv,
           \/ Queue!Poll
           \/ \E t \in Queue!Tickets : \/ Queue!Process(t) \/ Queue!Arrives(t) \/ Queue!People(t)
                                           \/ Queue!CoolsDown(t) \/ Queue!PauseEnds(t)
    PROVE  QueueInv'
<1>1. UNCHANGED <<msg, cur, acts, crashes>>
  BY DEF Queue!Poll, Queue!Process, Queue!Arrives, Queue!People, Queue!CoolsDown, Queue!PauseEnds,
         Queue!chat
<1>2. Queue!TypeOK'
  <2> USE DEF QueueInv, Queue!TypeOK
  <2>1. CASE Queue!Poll
    BY <1>1, <2>1 DEF Queue!Poll, Queue!First, Queue!Fresh, Queue!Replies, Queue!Feedback,
                      Queue!Open
  <2>2. ASSUME NEW t \in Queue!Tickets, Queue!Process(t) PROVE Queue!TypeOK'
    <3>1. /\ st' = [st EXCEPT ![t] = "busy"] \/ st' = [st EXCEPT ![t] = "escalated"]
          /\ \/ failures' = failures
             \/ failures' = [failures EXCEPT ![t] = IF @ < Budget THEN @ + 1 ELSE @]
          /\ said' = [said EXCEPT ![t] = IF @ = "new" THEN "known" ELSE @]
          /\ todo' = todo \ {t} /\ paused' = paused
      BY <2>2 DEF Queue!Process
    <3>2. failures' \in [Queue!Tickets -> 0..Budget]
      <4>1. Budget \in Nat /\ failures \in [Queue!Tickets -> 0..Budget]
        BY WorkerAssumption
      <4>2. (IF failures[t] < Budget THEN failures[t] + 1 ELSE failures[t]) \in 0..Budget
        BY <4>1
      <4> QED
        BY <3>1, <4>1, <4>2
    <3> QED
      BY <1>1, <3>1, <3>2
  <2>3. ASSUME NEW t \in Queue!Tickets, Queue!Arrives(t) \/ Queue!People(t)
        PROVE  Queue!TypeOK'
    <3>1. CASE Queue!Opens(t) \/ Queue!Closes(t) \/ Queue!Writes(t)
      BY <1>1, <2>3, <3>1, RowsKeepTypes DEF Queue!Arrives, Queue!People
    <3>2. CASE st' = [st EXCEPT ![t] = "open"] /\ UNCHANGED <<failures, said, paused>>
      BY <1>1, <2>3, <3>2 DEF Queue!Arrives, Queue!People
    <3> QED
      BY <2>3, <3>1, <3>2 DEF Queue!Arrives, Queue!People
  <2>4. ASSUME NEW t \in Queue!Tickets, Queue!CoolsDown(t) PROVE Queue!TypeOK'
    BY <1>1, <2>4 DEF Queue!CoolsDown
  <2>5. ASSUME NEW t \in Queue!Tickets, Queue!PauseEnds(t) PROVE Queue!TypeOK'
    BY <1>1, <2>5 DEF Queue!PauseEnds
  <2> QED
    BY <2>1, <2>2, <2>3, <2>4, <2>5
<1> QED
  BY <1>1, <1>2 DEF QueueInv, ActsOnce, Queue!ActsOnce

LEMMA QueueNext == QueueInv /\ [Queue!Next]_queueVars => QueueInv'
<1> SUFFICES ASSUME QueueInv, [Queue!Next]_queueVars PROVE QueueInv'
  OBVIOUS
<1>1. CASE UNCHANGED queueVars
  BY <1>1 DEF queueVars, QueueInv, Queue!TypeOK, ActsOnce, Queue!ActsOnce
<1>2. CASE Queue!Handle
  BY <1>2, HandleKeeps
<1>3. CASE Queue!Crash \/ Queue!Reply \/ \E m \in Queue!Msgs : Queue!Consume(m) \/ Queue!Send(m)
  <2>1. ASSUME Queue!Crash \/ Queue!Reply PROVE QueueInv'
    <3> USE DEF QueueInv, Queue!TypeOK, ActsOnce, Queue!ActsOnce, Queue!ticket
    <3>1. CASE Queue!Crash
      BY <3>1 DEF Queue!Crash, Queue!NoCur
    <3>2. CASE Queue!Reply
      BY <3>2 DEF Queue!Reply, Queue!NoMsg, Queue!NoCur, Queue!Kinds, Queue!NoTicket
    <3> QED
      BY <2>1, <3>1, <3>2
  <2> QED
    BY <1>3, <2>1, ChatKeeps
<1>4. CASE Queue!Poll
  BY <1>4, TicketsKeep
<1>5. CASE \E t \in Queue!Tickets : \/ Queue!Process(t) \/ Queue!Arrives(t) \/ Queue!People(t)
                                  \/ Queue!CoolsDown(t) \/ Queue!PauseEnds(t)
  BY <1>5, TicketsKeep
<1> QED
  BY <1>1, <1>2, <1>3, <1>4, <1>5 DEF Queue!Next, Queue!Worker

-----------------------------------------------------------------------------
(* Where the calls run (LLMRouting).                                       *)

\* A nonempty set of numbers has a least one.
LEMMA LeastElement ==
    ASSUME NEW S \in SUBSET Nat, S # {}
    PROVE  \E k \in S : \A j \in S : k <= j
<1> DEFINE R == {p \in Nat \X Nat : p[1] < p[2]}
<1>1. IsWellFoundedOn(R, Nat)
  BY NatLessThanWellFounded, Zenon DEF OpToRel
<1>2. \A p \in Nat, q \in Nat : <<p, q>> \in R <=> p < q
  OBVIOUS
<1> HIDE DEF R
<1>3. \E x \in S : \A y \in S : ~ (<<y, x>> \in R)
  BY <1>1, WFMin, Zenon
<1>4. PICK x \in S : \A y \in S : ~ (<<y, x>> \in R)
  BY <1>3
<1>5. ASSUME NEW y \in S PROVE ~(y < x)
  BY <1>2, <1>4, Zenon
<1> QED
  BY <1>5

\* Every hour of the day comes within a day.
LEMMA HourComes ==
    ASSUME NEW n \in Nat \ {0}, NEW g \in 0..(n - 1), NEW h \in 0..(n - 1)
    PROVE  \E k \in 0..n : (h + k) % n = g
<1>1. g % n = g /\ (g + n) % n = g
  OBVIOUS
<1>2. CASE g >= h
  <2>1. g - h \in 0..n /\ h + (g - h) = g
    BY <1>2
  <2> QED
    BY <2>1, <1>1
<1>3. CASE g < h
  <2>1. g - h + n \in 0..n /\ h + (g - h + n) = g + n
    BY <1>3
  <2> QED
    BY <2>1, <1>1
<1> QED
  BY <1>2, <1>3

\* next_off_peak_window finds an hour, because not every hour of the defaults is at peak.
LEMMA UntilType ==
    ASSUME NEW h \in 0..(Hours - 1)
    PROVE  Routing!Until(DefaultPeak, h) \in 0..Hours
<1> DEFINE S == {k \in 0..Hours : (h + k) % Hours \notin DefaultPeak}
<1>1. Hours \in Nat \ {0}
  BY WorkerAssumption
<1>2. PICK g \in 0..(Hours - 1) : g \notin DefaultPeak
  BY WorkerAssumption
<1>3. S \in SUBSET Nat /\ S # {}
  <2>1. PICK k \in 0..Hours : (h + k) % Hours = g
    BY <1>1, <1>2, HourComes
  <2>2. (h + k) % Hours \notin DefaultPeak
    BY <1>2, <2>1
  <2>3. S \subseteq Nat
    BY <1>1
  <2> QED
    BY <2>2, <2>3
<1>4. PICK k \in S : \A j \in S : k <= j
  BY <1>3, LeastElement
<1>5. k \in 0..Hours /\ (h + k) % Hours \notin DefaultPeak
  BY <1>4
<1>6. ASSUME NEW j \in 0..(k - 1) PROVE (h + j) % Hours \in DefaultPeak
  <2>1. j \in 0..Hours /\ ~(k <= j)
    BY <1>1, <1>5
  <2> QED
    BY <2>1, <1>4
<1> QED
  BY <1>5, <1>6 DEF Routing!Until

\* A ticket that waits for the worker has attempts left.
RoutingInv ==
    /\ Routing!TypeOK
    /\ Routing!OneOutageTicket
    /\ Routing!EgressHolds
    /\ \A t \in Parkable :
          ticket[t].status \in {"open", "retry"} => ticket[t].attempts < MaxAttempts

LEMMA RoutingInit == Routing!Init => RoutingInv
<1> SUFFICES ASSUME Routing!Init PROVE RoutingInv
  OBVIOUS
<1>1. /\ DownAfter \in Nat \ {0} /\ MaxAttempts \in Nat \ {0} /\ Hours \in Nat \ {0}
      /\ 0 \in 0..DownAfter /\ 0 \in 0..MaxAttempts /\ 0 \in 0..(Hours - 1)
  BY WorkerAssumption
<1>2. PICK urgent \in BOOLEAN :
         ticket = [t \in Parkable |-> [status |-> "open", urgent |-> urgent, attempts |-> 0]]
  BY DEF Routing!Init
<1>3. /\ \A t \in Parkable : ticket[t].attempts < MaxAttempts
      /\ ticket \in [Parkable -> [status : {"open", "retry", "done", "escalated"},
                                  urgent : BOOLEAN, attempts : 0..MaxAttempts]]
  BY <1>1, <1>2
<1>4. up \in [Routing!Providers -> BOOLEAN] /\ defer \in BOOLEAN /\ outage \in BOOLEAN
  BY Zenon DEF Routing!Init
<1>5. /\ egress \in {"cloud", "local"} /\ hour \in 0..(Hours - 1)
      /\ fails \in [Routing!Providers -> 0..DownAfter]
      /\ probe \in {"unknown", "healthy", "unhealthy"}
      /\ file \in [Parkable -> {Routing!NoFile} \cup (0..Hours)]
      /\ outages \in Nat /\ outages <= 1 /\ (asked.egress = "local" => asked.who \subseteq {Box})
  BY <1>1 DEF Routing!Init
<1> QED
  BY <1>3, <1>4, <1>5 DEF RoutingInv, Routing!TypeOK, Routing!OneOutageTicket, Routing!EgressHolds

\* call_llm: a mark is one higher at most, and only of a provider that was not down; in local-only
\* mode the chain is the box.
LEMMA CallKeeps ==
    ASSUME RoutingInv, NEW class, Routing!Call(Routing!Asked(Routing!CallChain(class))),
           UNCHANGED egress
    PROVE  fails' \in [Routing!Providers -> 0..DownAfter] /\ Routing!EgressHolds'
<1> DEFINE who == Routing!Asked(Routing!CallChain(class))
<1>1. \A p \in who : ~(fails[p] >= DownAfter)
  BY DEF Routing!Asked, Routing!Down
<1>2. fails' \in [Routing!Providers -> 0..DownAfter]
  BY <1>1, WorkerAssumption DEF Routing!Call, RoutingInv, Routing!TypeOK
<1>3. who \subseteq Routing!Chain \cup {Box}
  BY DEF Routing!Asked, Routing!CallChain
<1>4. egress = "local" => Routing!Chain \subseteq {Box}
  BY DEF Routing!Chain
<1> QED
  BY <1>2, <1>3, <1>4 DEF Routing!Call, Routing!EgressHolds

\* _handle_llm_failure counts an attempt; a ticket without one left is handed to a person.
LEMMA FailedKeeps ==
    ASSUME RoutingInv, NEW t \in Parkable, ticket[t].status \in {"open", "retry"}, Routing!Failed(t)
    PROVE  /\ ticket' \in [Parkable -> [status : {"open", "retry", "done", "escalated"},
                                       urgent : BOOLEAN, attempts : 0..MaxAttempts]]
           /\ \A u \in Parkable :
                 ticket'[u].status \in {"open", "retry"} => ticket'[u].attempts < MaxAttempts
<1> DEFINE n    == ticket[t].attempts + 1
           word == IF n >= MaxAttempts THEN "escalated" ELSE "retry"
           T    == [status : {"open", "retry", "done", "escalated"}, urgent : BOOLEAN,
                    attempts : 0..MaxAttempts]
<1>1. ticket \in [Parkable -> T] /\ MaxAttempts \in Nat
  BY WorkerAssumption DEF RoutingInv, Routing!TypeOK
<1>2. n \in 0..MaxAttempts /\ (word = "retry" => n < MaxAttempts) /\ word \in {"retry", "escalated"}
  BY <1>1 DEF RoutingInv
<1>3. ticket' = [ticket EXCEPT ![t] = [ticket[t] EXCEPT !.attempts = n, !.status = word]]
  BY <1>1 DEF Routing!Failed
<1> HIDE DEF n, word
<1>4. /\ [ticket[t] EXCEPT !.attempts = n, !.status = word] \in T
      /\ [ticket[t] EXCEPT !.attempts = n, !.status = word].status = word
      /\ [ticket[t] EXCEPT !.attempts = n, !.status = word].attempts = n
  BY <1>1, <1>2
<1> DEFINE new == [ticket[t] EXCEPT !.attempts = n, !.status = word]
<1> HIDE DEF new
<1>5. /\ ticket' \in [Parkable -> T]
      /\ \A u \in Parkable : ticket'[u] = IF u = t THEN new ELSE ticket[u]
  BY <1>1, <1>3, <1>4 DEF new
<1>6. new.status = word /\ new.attempts = n
  BY <1>4 DEF new
<1> QED
  BY <1>2, <1>5, <1>6 DEF RoutingInv

\* A poll takes a parked or a waiting ticket on, parks it, or drops its file.
LEMMA PollKeeps ==
    ASSUME RoutingInv, NEW t \in Parkable, Routing!Park(t) \/ Routing!Work(t) \/ Routing!Drop(t)
    PROVE  RoutingInv'
<1> DEFINE T == [status : {"open", "retry", "done", "escalated"}, urgent : BOOLEAN,
                 attempts : 0..MaxAttempts]
           F == {Routing!NoFile} \cup (0..Hours)
           Settled == \A u \in Parkable : ticket'[u].status \in {"open", "retry"}
                                           => ticket'[u].attempts < MaxAttempts
<1>1. /\ ticket \in [Parkable -> T] /\ file \in [Parkable -> F]
      /\ hour \in 0..(Hours - 1) /\ outages \in Nat /\ outages <= 1
  BY DEF RoutingInv, Routing!TypeOK, Routing!OneOutageTicket
<1>2. CASE Routing!Park(t)
  <2>1. ticket[t].status \in {"open", "retry"} /\ ticket' = [ticket EXCEPT ![t].status = "open"]
    BY <1>2 DEF Routing!Park, Routing!Picked
  <2>2. ticket' \in [Parkable -> T] /\ Settled
    BY <1>1, <2>1 DEF RoutingInv
  <2>3. file' \in [Parkable -> F]
    BY <1>1, <1>2, UntilType DEF Routing!Park
  <2> QED
    BY <1>2, <2>2, <2>3 DEF Routing!Park, RoutingInv, Routing!TypeOK, Routing!OneOutageTicket,
                            Routing!EgressHolds, Routing!world, Routing!mem
<1>3. CASE Routing!Work(t)
  <2>1. PICK class \in Routing!Classes :
           LET who == Routing!Asked(Routing!CallChain(class))
               answered == \E p \in who : up[p]
           IN  /\ Routing!Call(who) /\ Routing!Probed(class)
               /\ \/ /\ answered /\ class = "ticket_executor"
                     /\ Routing!ClearOutage
                     /\ ticket' = [ticket EXCEPT ![t].status = "done"]
                  \/ /\ answered /\ class = "ticket_judge"
                     /\ ticket' = [ticket EXCEPT ![t].status = "escalated"]
                     /\ UNCHANGED <<outage, outages>>
                  \/ /\ ~answered
                     /\ Routing!MarkOutage
                     /\ Routing!Failed(t)
    BY <1>3 DEF Routing!Work
  <2>2. /\ ticket[t].status \in {"open", "retry"} /\ Routing!Unparked(t)
        /\ UNCHANGED <<up, egress, hour, defer>>
    BY <1>3 DEF Routing!Work, Routing!Picked, Routing!world
  <2>3. fails' \in [Routing!Providers -> 0..DownAfter] /\ Routing!EgressHolds'
    BY <2>1, <2>2, CallKeeps
  <2>4. ticket' \in [Parkable -> T] /\ Settled
    <3>1. ASSUME NEW word \in {"done", "escalated"}, ticket' = [ticket EXCEPT ![t].status = word]
          PROVE  ticket' \in [Parkable -> T] /\ Settled
      BY <1>1, <3>1 DEF RoutingInv
    <3>2. CASE Routing!Failed(t)
      BY <2>2, <3>2, FailedKeeps
    <3> QED
      BY <2>1, <3>1, <3>2
  <2>5. outages' \in Nat /\ outages' <= 1 /\ outage' \in BOOLEAN
    <3>1. outage \in BOOLEAN
      BY DEF RoutingInv, Routing!TypeOK
    <3>2. CASE Routing!ClearOutage
      <4>1. outage' \in BOOLEAN
        BY <3>2 DEF Routing!ClearOutage
      <4>2. outages' = outages \/ (outages > 0 /\ outages' = outages - 1)
        BY <3>2 DEF Routing!ClearOutage
      <4> QED
        BY <1>1, <4>1, <4>2
    <3>3. CASE Routing!MarkOutage
      BY <1>1, <3>3 DEF Routing!MarkOutage
    <3> QED
      BY <1>1, <2>1, <3>1, <3>2, <3>3
  <2>6. probe' \in {"unknown", "healthy", "unhealthy"}
    BY <2>1 DEF Routing!Probed, RoutingInv, Routing!TypeOK
  <2>7. file' \in [Parkable -> F]
    BY <1>1, <2>2 DEF Routing!Unparked
  <2> QED
    BY <2>2, <2>3, <2>4, <2>5, <2>6, <2>7 DEF RoutingInv, Routing!TypeOK, Routing!OneOutageTicket
<1>4. CASE Routing!Drop(t)
  <2>1. file' \in [Parkable -> F]
    BY <1>1, <1>4 DEF Routing!Drop
  <2> QED
    BY <1>4, <2>1 DEF Routing!Drop, RoutingInv, Routing!TypeOK, Routing!OneOutageTicket,
                      Routing!EgressHolds, Routing!world, Routing!mem
<1> QED
  BY <1>2, <1>3, <1>4

\* Restarts, providers that fail and recover, time, the settings, arrivals and people.
LEMMA RoutingNext ==
    ASSUME RoutingInv, [Routing!Next]_routingVars
    PROVE  RoutingInv'
<1> USE DEF RoutingInv, Routing!TypeOK, Routing!OneOutageTicket, Routing!EgressHolds
<1>1. CASE UNCHANGED routingVars
  BY <1>1 DEF routingVars
<1>2. CASE Routing!Poll
  BY <1>2, PollKeeps DEF Routing!Poll
<1>3. CASE Routing!Restart
  <2>1. fails' \in [Routing!Providers -> 0..DownAfter]
    BY <1>3, WorkerAssumption DEF Routing!Restart
  <2> QED
    BY <1>3, <2>1 DEF Routing!Restart, Routing!world
<1>4. CASE Routing!Hour
  <2>1. hour' \in 0..(Hours - 1)
    <3>1. Hours \in Nat \ {0} /\ hour \in Nat
      BY WorkerAssumption
    <3> QED
      BY <1>4, <3>1 DEF Routing!Hour
  <2>2. file' \in [Parkable -> {Routing!NoFile} \cup (0..Hours)]
    <3>1. Hours \in Nat
      BY WorkerAssumption
    <3>2. \A t \in Parkable : (IF file[t] > 0 THEN file[t] - 1 ELSE file[t])
                                 \in {Routing!NoFile} \cup (0..Hours)
      BY <3>1 DEF Routing!NoFile
    <3> QED
      BY <1>4, <3>2 DEF Routing!Hour
  <2> QED
    BY <1>4, <2>1, <2>2 DEF Routing!Hour, Routing!mem
<1>5. CASE Routing!ProbeExpires
  BY <1>5 DEF Routing!ProbeExpires, Routing!world
<1>6. CASE Routing!Settings
  <2>1. egress' \in {"cloud", "local"} /\ defer' \in BOOLEAN
    BY <1>6 DEF Routing!Settings
  <2> QED
    BY <1>6, <2>1 DEF Routing!Settings, Routing!mem
<1>7. ASSUME NEW p \in Routing!Providers, Routing!Provider(p) PROVE RoutingInv'
  <2>1. up' \in [Routing!Providers -> BOOLEAN]
    <3>1. up' = [up EXCEPT ![p] = ~up[p]] /\ up \in [Routing!Providers -> BOOLEAN]
      BY <1>7 DEF Routing!Provider
    <3>2. (~up[p]) \in BOOLEAN
      OBVIOUS
    <3> QED
      BY <3>1, <3>2, Zenon
  <2> QED
    BY <1>7, <2>1 DEF Routing!Provider, Routing!mem
<1>8. ASSUME NEW t \in Parkable, Routing!Arrives(t) PROVE RoutingInv'
  <2>1. PICK urgent \in BOOLEAN :
           ticket' = [ticket EXCEPT ![t] = [status |-> "open", urgent |-> urgent, attempts |-> 0]]
    BY <1>8 DEF Routing!Arrives
  <2>2. MaxAttempts \in Nat \ {0}
    BY WorkerAssumption
  <2>3. /\ ticket' \in [Parkable -> [status : {"open", "retry", "done", "escalated"},
                                     urgent : BOOLEAN, attempts : 0..MaxAttempts]]
        /\ \A u \in Parkable :
              ticket'[u].status \in {"open", "retry"} => ticket'[u].attempts < MaxAttempts
    BY <2>1, <2>2
  <2> QED
    BY <1>8, <2>3 DEF Routing!Arrives, Routing!world, Routing!mem
<1>9. CASE Routing!Person
  BY <1>9 DEF Routing!Person, Routing!world, Routing!mem
<1> QED
  BY <1>1, <1>2, <1>3, <1>4, <1>5, <1>6, <1>7, <1>8, <1>9 DEF Routing!Next

-----------------------------------------------------------------------------
(* The verdicts of the judge (Judge).                                      *)

\* A round under way is about a ticket.
RoundOK ==
    /\ outcome \in [Judgeable -> {"open", "escalated", "held", "running", "asked", "closed"}]
    /\ round.ticket \in Judgeable \cup {NoValue}
    /\ round.step \in {"idle", "judge", "asking", "execute"}
    /\ round = [ticket  |-> round.ticket, step |-> round.step, policy |-> round.policy,
                verdict |-> round.verdict]
    /\ round.step # "idle" => round.ticket \in Judgeable

\* A verdict that is kept was reached when it says, on the text and priority it is kept for.
CacheOK ==
    /\ cache = [k \in Judging!Keys |-> cache[k]]
    /\ ruled \in [Judging!Keys \X Judging!Lawful -> -1..MaxTime]
    /\ \A k \in Judging!Keys :
          cache[k] # NoValue => /\ cache[k].lawful \in Judging!Lawful
                                /\ cache[k].at \in 0..MaxTime
                                /\ ruled[<<k, cache[k].lawful>>] = cache[k].at

\* A verdict that is kept was reached when it says, and everything has its type.
JudgeInv ==
    /\ Judging!TypeOK
    /\ about \in [Judgeable -> [text : Texts, priority : Priorities]]
    /\ RoundOK /\ CacheOK

\* Initially nothing is kept and no round is under way.
LEMMA JudgeInit == Judging!Init => JudgeInv
BY DEF Judging!Init, JudgeInv, RoundOK, CacheOK, Judging!TypeOK, Judging!Idle, Judging!Keys

LEMMA EndKeeps ==
    ASSUME JudgeInv, round.step # "idle",
           NEW how \in {"open", "escalated", "held", "running", "asked", "closed"},
           Judging!End(how)
    PROVE  RoundOK' /\ outcome'[round.ticket] = how
<1>1. /\ outcome' = [outcome EXCEPT ![round.ticket] = how] /\ round' = Judging!Idle
      /\ round.ticket \in Judgeable
      /\ outcome \in [Judgeable -> {"open", "escalated", "held", "running", "asked", "closed"}]
  BY DEF JudgeInv, RoundOK, CacheOK, Judging!TypeOK, Judging!End
<1>2. /\ outcome' \in [Judgeable -> {"open", "escalated", "held", "running", "asked", "closed"}]
      /\ outcome'[round.ticket] = how
  BY <1>1
<1> QED
  BY <1>1, <1>2 DEF Judging!Idle, RoundOK

\* A "yes" goes to the executor, and any other verdict ends the round.
LEMMA FollowKeeps ==
    ASSUME JudgeInv, round.step # "idle", NEW v, v.lawful \in Judging!Lawful, Judging!Follow(v)
    PROVE  /\ RoundOK'
           /\ \/ v.lawful = "yes" /\ round'.step = "execute"
              \/ v.lawful # "yes" /\ outcome'[round.ticket] \in {"escalated", "asked"}
<1>1. CASE v.lawful = "yes"
  BY <1>1 DEF Judging!Follow, JudgeInv, RoundOK, CacheOK, Judging!TypeOK
<1>2. CASE v.lawful # "yes"
  <2>1. Judging!End("escalated") \/ Judging!End("asked")
    BY <1>2 DEF Judging!Follow
  <2> QED
    BY <1>2, <2>1, EndKeeps
<1> QED
  BY <1>1, <1>2

\* A verdict that is reached is kept with the hour, under its own text and priority.
LEMMA CacheKeeps ==
    ASSUME JudgeInv, NEW k \in Judging!Keys, NEW v,
           v.lawful \in Judging!Lawful, v.at = now, Judging!_cache_set(k, v)
    PROVE  CacheOK' /\ ruled'[<<k, v.lawful>>] = now
<1> DEFINE L == Judging!Lawful
<1>1. /\ cache' = [cache EXCEPT ![k] = v] /\ ruled' = [ruled EXCEPT ![<<k, v.lawful>>] = now]
      /\ cache = [q \in Judging!Keys |-> cache[q]] /\ ruled \in [Judging!Keys \X L -> -1..MaxTime]
      /\ now \in 0..MaxTime /\ MaxTime \in Nat
  BY DEF Judging!_cache_set, JudgeInv, RoundOK, CacheOK, Judging!TypeOK
<1>2. <<k, v.lawful>> \in Judging!Keys \X L
  OBVIOUS
<1>3. \A q \in Judging!Keys : cache'[q] = IF q = k THEN v ELSE cache[q]
  BY <1>1
<1>4. \A q \in Judging!Keys, w \in L :
         ruled'[<<q, w>>] = IF q = k /\ w = v.lawful THEN now ELSE ruled[<<q, w>>]
  BY <1>1, <1>2
<1>5. cache' = [q \in Judging!Keys |-> cache'[q]]
  BY <1>1
<1>6. ruled' \in [Judging!Keys \X L -> -1..MaxTime]
  BY <1>1, <1>2
<1>7. ASSUME NEW q \in Judging!Keys, cache'[q] # NoValue
      PROVE  /\ cache'[q].lawful \in L /\ cache'[q].at \in 0..MaxTime
             /\ ruled'[<<q, cache'[q].lawful>>] = cache'[q].at
  BY <1>7, <1>1, <1>3, <1>4 DEF JudgeInv, RoundOK, CacheOK
<1> QED
  BY <1>2, <1>4, <1>5, <1>6, <1>7 DEF CacheOK

\* What a step of the judge phase writes: the round's end or next step, resting on a verdict.
LEMMA JudgeStep ==
    ASSUME JudgeInv, Judging!JudgeRequest \/ Judging!JudgeAnswers
    PROVE  /\ JudgeInv'
           /\ Judging!Judged => \/ round'.step = "execute" /\ Judging!Recent(round.ticket, "yes")
                               \/ /\ outcome'[round.ticket] \in {"escalated", "asked"}
                                  /\ \/ Judging!Recent(round.ticket, "no")
                                     \/ Judging!Recent(round.ticket, "ambiguous")
<1> DEFINE t == round.ticket
           k == <<about[t].text, about[t].priority>>
<1>1. /\ round.step \in {"judge", "asking"} /\ t \in Judgeable /\ k \in Judging!Keys
      /\ now \in 0..MaxTime /\ Ttl \in Nat /\ MaxTime \in Nat
      /\ UNCHANGED <<now, settings, about, changes, goAhead, replies, job>>
  BY DEF Judging!JudgeRequest, Judging!JudgeAnswers, Judging!world, JudgeInv, RoundOK, CacheOK,
     Judging!TypeOK, Judging!Keys
<1>2. \A w : Judging!Recent(t, w) <=> 0 <= ruled'[<<k, w>>] /\ now - ruled'[<<k, w>>] <= Ttl
  BY DEF Judging!Recent
<1>3. \/ /\ round' = [round EXCEPT !.step = "asking"] /\ UNCHANGED <<outcome, cache, ruled>>
      \/ /\ cache[k] # NoValue /\ now - cache[k].at <= Ttl
         /\ Judging!Follow(cache[k]) /\ UNCHANGED <<cache, ruled>>
      \/ \E v : /\ v.lawful \in Judging!Lawful /\ v.at = now
               /\ Judging!Follow(v) /\ Judging!_cache_set(k, v)
  <2>1. ASSUME NEW A, NEW v \in Judging!Verdicts(A) PROVE v.lawful \in Judging!Lawful /\ v.at = now
    BY <2>1 DEF Judging!Verdicts, Judging!Lawful
  <2>2. ASSUME NEW x, NEW F, Judging!short_circuit_verdict(x, F) # NoValue
        PROVE  /\ Judging!short_circuit_verdict(x, F).lawful \in Judging!Lawful
               /\ Judging!short_circuit_verdict(x, F).at = now
    BY <2>2 DEF Judging!short_circuit_verdict, Judging!Lawful
  <2>3. CASE Judging!JudgeAnswers
    BY <2>1, <2>3 DEF Judging!JudgeAnswers, Judging!_cache_key, Judging!_coerce_verdict
  <2>4. CASE Judging!JudgeRequest
    <3> DEFINE short == Judging!short_circuit_verdict(about[t].text, round.policy.gates.filters)
    <3>1. Judging!_cache_key(t) = k
      BY DEF Judging!_cache_key
    <3>2. \/ /\ Judging!_cache_get(k) # NoValue
             /\ Judging!Follow(Judging!_cache_get(k)) /\ UNCHANGED <<cache, ruled>>
          \/ short # NoValue /\ Judging!Follow(short) /\ Judging!_cache_set(k, short)
          \/ \E v \in Judging!Verdicts(ReadOnly) : Judging!Follow(v) /\ Judging!_cache_set(k, v)
          \/ round' = [round EXCEPT !.step = "asking"] /\ UNCHANGED <<outcome, cache, ruled>>
      BY <2>4, <3>1 DEF Judging!JudgeRequest, Judging!_mock_judge
    <3> HIDE DEF t, k
    <3>3. Judging!_cache_get(k) # NoValue
             => /\ Judging!_cache_get(k) = cache[k]
                /\ cache[k] # NoValue /\ ~(now - cache[k].at > Ttl)
      BY DEF Judging!_cache_get
    <3>4. cache[k] # NoValue => cache[k].at \in 0..MaxTime
      BY <1>1 DEF JudgeInv, CacheOK
    <3>5. short # NoValue => short.lawful \in Judging!Lawful /\ short.at = now
      BY <2>2
    <3> HIDE DEF short
    <3>6. CASE Judging!_cache_get(k) # NoValue /\ Judging!Follow(Judging!_cache_get(k))
                 /\ UNCHANGED <<cache, ruled>>
      <4>1. cache[k] # NoValue /\ ~(now - cache[k].at > Ttl) /\ cache[k].at \in 0..MaxTime
        BY <3>3, <3>4, <3>6, Zenon
      <4>2. now - cache[k].at <= Ttl
        BY <1>1, <4>1, SMTT(30)
      <4> QED
        BY <3>3, <3>6, <4>1, <4>2, Zenon
    <3>7. CASE short # NoValue /\ Judging!Follow(short) /\ Judging!_cache_set(k, short)
      BY <3>5, <3>7
    <3>8. CASE \E v \in Judging!Verdicts(ReadOnly) : Judging!Follow(v) /\ Judging!_cache_set(k, v)
      BY <2>1, <3>8
    <3> QED
      BY <3>2, <3>6, <3>7, <3>8, Zenon
  <2> QED
    BY <2>3, <2>4
<1> HIDE DEF t, k
<1>4. CASE /\ round' = [round EXCEPT !.step = "asking"] /\ UNCHANGED <<outcome, cache, ruled>>
  <2>1. JudgeInv'
    BY <1>1, <1>4 DEF JudgeInv, RoundOK, CacheOK, Judging!TypeOK
  <2>2. ~Judging!Judged
    BY <1>1, <1>4 DEF Judging!Judged, JudgeInv, RoundOK, CacheOK
  <2> QED
    BY <2>1, <2>2
<1>5. ASSUME NEW v, v.lawful \in Judging!Lawful, Judging!Follow(v),
             Judging!Recent(t, v.lawful), CacheOK'
      PROVE  /\ JudgeInv'
             /\ \/ round'.step = "execute" /\ Judging!Recent(t, "yes")
                \/ /\ outcome'[t] \in {"escalated", "asked"}
                   /\ Judging!Recent(t, "no") \/ Judging!Recent(t, "ambiguous")
  <2>1. RoundOK' /\ \/ v.lawful = "yes" /\ round'.step = "execute"
                    \/ v.lawful # "yes" /\ outcome'[t] \in {"escalated", "asked"}
    BY <1>1, <1>5, FollowKeeps DEF t
  <2>2. JudgeInv'
    BY <1>1, <1>5, <2>1 DEF JudgeInv, RoundOK, CacheOK, Judging!TypeOK
  <2> QED
    BY <1>5, <2>1, <2>2 DEF Judging!Lawful
<1>6. ASSUME cache[k] # NoValue, now - cache[k].at <= Ttl,
             Judging!Follow(cache[k]), UNCHANGED <<cache, ruled>>
      PROVE  /\ JudgeInv'
             /\ \/ round'.step = "execute" /\ Judging!Recent(t, "yes")
                \/ /\ outcome'[t] \in {"escalated", "asked"}
                   /\ Judging!Recent(t, "no") \/ Judging!Recent(t, "ambiguous")
  <2>1. /\ cache[k].lawful \in Judging!Lawful /\ cache[k].at \in 0..MaxTime
        /\ ruled'[<<k, cache[k].lawful>>] = cache[k].at
    BY <1>1, <1>6 DEF JudgeInv, CacheOK
  <2>2. CacheOK'
    BY <1>1, <1>6 DEF JudgeInv, RoundOK, CacheOK, Judging!TypeOK
  <2>3. Judging!Recent(t, cache[k].lawful)
    BY <1>1, <1>2, <1>6, <2>1
  <2> QED
    BY <1>5, <1>6, <2>1, <2>2, <2>3
<1>7. ASSUME NEW v, v.lawful \in Judging!Lawful, v.at = now,
             Judging!Follow(v), Judging!_cache_set(k, v)
      PROVE  /\ JudgeInv'
             /\ \/ round'.step = "execute" /\ Judging!Recent(t, "yes")
                \/ /\ outcome'[t] \in {"escalated", "asked"}
                   /\ Judging!Recent(t, "no") \/ Judging!Recent(t, "ambiguous")
  <2>1. CacheOK' /\ ruled'[<<k, v.lawful>>] = now
    BY <1>1, <1>7, CacheKeeps
  <2>2. Judging!Recent(t, v.lawful)
    BY <1>1, <1>2, <2>1
  <2> QED
    BY <1>5, <1>7, <2>1, <2>2
<1> QED
  BY <1>3, <1>4, <1>6, <1>7 DEF t, k

LEMMA JudgeNext ==
    ASSUME JudgeInv, [Judging!Next]_judgeVars
    PROVE  /\ JudgeInv'
           /\ Judging!Judged => Judging!JudgeRequest \/ Judging!JudgeAnswers \/ Judging!CallFails
<1>1. CASE UNCHANGED judgeVars
  BY <1>1 DEF judgeVars, JudgeInv, RoundOK, CacheOK, Judging!TypeOK, Judging!Judged
<1>2. CASE Judging!JudgeRequest \/ Judging!JudgeAnswers
  BY <1>2, JudgeStep
<1>3. CASE Judging!CallFails
  <2>1. RoundOK'
    BY <1>3, EndKeeps DEF Judging!CallFails
  <2> QED
    BY <1>3, <2>1 DEF Judging!CallFails, Judging!world, JudgeInv, CacheOK, RoundOK, Judging!TypeOK
<1>4. CASE Judging!Execute
  <2>1. PICK a \in Judging!Answers, device \in Judging!Devices, conf \in Judging!Percent :
           Judging!Gate(a, device, conf)
    BY <1>4 DEF Judging!Execute
  <2>2. /\ round.step = "execute"
        /\ UNCHANGED <<now, settings, about, changes, goAhead, replies, cache, ruled>>
    BY <1>4 DEF Judging!Execute, Judging!world
  <2>3. /\ \E how \in {"open", "escalated", "held", "running", "asked", "closed"} : Judging!End(how)
        /\ job' = job \/ (a \in Judging!Scripts /\ job' = [job EXCEPT ![round.ticket] = a])
    BY <2>1 DEF Judging!Gate
  <2>4. RoundOK'
    BY <2>2, <2>3, EndKeeps
  <2>5. job' \in [Judgeable -> Judging!Scripts \cup {NoValue}]
    BY <2>3 DEF JudgeInv, Judging!TypeOK
  <2> QED
    BY <2>2, <2>4, <2>5 DEF JudgeInv, CacheOK, RoundOK, Judging!TypeOK, Judging!Judged
<1>5. ASSUME NEW t \in Judgeable, Judging!Begin(t)
      PROVE  JudgeInv' /\ ~Judging!Judged
  <2>1. /\ round = Judging!Idle /\ UNCHANGED <<now, settings, about, changes, goAhead, replies>>
        /\ UNCHANGED <<cache, job, ruled>>
    BY <1>5 DEF Judging!Begin, Judging!world
  <2>2. round.step = "idle"
    BY <2>1 DEF Judging!Idle
  <2>3. RoundOK'
    <3>1. CASE outcome' = [outcome EXCEPT ![t] = "escalated"] /\ UNCHANGED round
      BY <3>1 DEF JudgeInv, RoundOK
    <3>2. ASSUME NEW policy, NEW step \in {"judge", "execute"}, UNCHANGED outcome,
                 round' = [Judging!Idle EXCEPT !.ticket = t, !.policy = policy, !.step = step]
          PROVE  RoundOK'
      BY <3>2 DEF JudgeInv, RoundOK, Judging!Idle
    <3> QED
      BY <1>5, <3>1, <3>2 DEF Judging!Begin
  <2>4. CacheOK' /\ ~Judging!Judged
    BY <2>1, <2>2 DEF JudgeInv, CacheOK, Judging!Judged
  <2>5. Judging!TypeOK'
    BY <2>1, <2>3 DEF JudgeInv, CacheOK, RoundOK, Judging!TypeOK
  <2> QED
    BY <2>1, <2>3, <2>4, <2>5 DEF JudgeInv
<1>6. CASE Judging!Hour \/ Judging!ChangeSettings
  <2>1. /\ UNCHANGED <<about, goAhead, replies, cache, outcome, job, round, ruled>>
        /\ now' \in 0..MaxTime /\ changes' \in 0..MaxChanges
    <3>1. now \in 0..MaxTime /\ changes \in 0..MaxChanges
      BY DEF JudgeInv, Judging!TypeOK
    <3>2. CASE Judging!Hour
      BY <3>1, <3>2 DEF Judging!Hour
    <3>3. CASE Judging!ChangeSettings
      <4>1. /\ changes < MaxChanges /\ changes' = changes + 1
            /\ UNCHANGED <<now, about, goAhead, replies, cache, outcome, job, round, ruled>>
        BY <3>3 DEF Judging!ChangeSettings
      <4> QED
        BY <3>1, <4>1
    <3> QED
      BY <1>6, <3>2, <3>3
  <2> QED
    BY <2>1 DEF JudgeInv, CacheOK, RoundOK, Judging!TypeOK, Judging!Judged
<1>7. ASSUME NEW t \in Judgeable, Judging!Reply(t) \/ Judging!Reprioritize(t)
      PROVE  JudgeInv' /\ ~Judging!Judged
  <2>1. /\ UNCHANGED <<now, cache, job, round, ruled>>
        /\ changes' \in 0..MaxChanges /\ replies' \in 0..MaxReplies
        /\ outcome' = outcome \/ outcome' = [outcome EXCEPT ![t] = "open"]
        /\ about' = about \/ \E p \in Priorities : about' = [about EXCEPT ![t].priority = p]
    <3>1. changes \in 0..MaxChanges /\ replies \in 0..MaxReplies
      BY DEF JudgeInv, Judging!TypeOK
    <3>2. CASE Judging!Reply(t)
      BY <3>1, <3>2 DEF Judging!Reply
    <3>3. CASE Judging!Reprioritize(t)
      <4>1. /\ changes < MaxChanges /\ changes' = changes + 1
            /\ UNCHANGED <<now, settings, goAhead, replies, cache, outcome, job, round, ruled>>
            /\ \E p \in Priorities : about' = [about EXCEPT ![t].priority = p]
        BY <3>3 DEF Judging!Reprioritize
      <4>2. changes' \in 0..MaxChanges /\ replies' \in 0..MaxReplies /\ outcome' = outcome
        BY <3>1, <4>1
      <4> QED
        BY <4>1, <4>2, Zenon
    <3> QED
      BY <1>7, <3>2, <3>3
  <2>2. about' \in [Judgeable -> [text : Texts, priority : Priorities]]
    BY <2>1 DEF JudgeInv
  <2> QED
    BY <2>1, <2>2 DEF JudgeInv, CacheOK, RoundOK, Judging!TypeOK, Judging!Judged
<1> QED
  BY <1>1, <1>2, <1>3, <1>4, <1>5, <1>6, <1>7 DEF Judging!Next, Judging!Worker

\* The judge phase ends as VerdictIsReal says, in every step.
LEMMA VerdictStep ==
    ASSUME JudgeInv, [Judging!Next]_judgeVars, NEW t \in Judgeable,
           Judging!Judged, round.ticket = t
    PROVE  \/ round'.step = "execute" /\ Judging!Recent(t, "yes")
           \/ outcome'[t] = "open"
           \/ /\ outcome'[t] \in {"escalated", "asked"}
              /\ Judging!Recent(t, "no") \/ Judging!Recent(t, "ambiguous")
<1>1. CASE Judging!CallFails
  <2>1. Judging!End("open") /\ round.step # "idle"
    BY <1>1 DEF Judging!CallFails
  <2> QED
    BY <2>1, EndKeeps
<1>2. CASE Judging!JudgeRequest \/ Judging!JudgeAnswers
  BY <1>2, JudgeStep
<1> QED
  BY <1>1, <1>2, JudgeNext

-----------------------------------------------------------------------------
(* The theorems.                                                           *)

\* The three parts share no variable, so that each step is one of a part or leaves it alone.
LEMMA PartsStep ==
    ASSUME [Next]_vars
    PROVE  [Queue!Next]_queueVars /\ [Routing!Next]_routingVars /\ [Judging!Next]_judgeVars
BY DEF Next, vars

\* juniper.py: respond_once marks a message as read before it acts, so that a message acts once
\* at most, wherever the worker dies.
THEOREM ActsOnceAlways == Spec => []ActsOnce
<1>1. Init => QueueInv
  BY QueueInit DEF Init
<1>2. QueueInv /\ [Next]_vars => QueueInv'
  BY QueueNext, PartsStep
<1>3. QueueInv => ActsOnce
  BY DEF QueueInv
<1> QED
  BY <1>1, <1>2, <1>3, PTL DEF Spec

\* judge_request: whatever the judge phase leads to rests on a verdict that was really reached,
\* lately, on the same text at the same priority; a call that fails leaves the ticket open.
THEOREM VerdictIsRealAlways == Spec => VerdictIsReal
<1>1. Init => JudgeInv
  BY JudgeInit DEF Init
<1>2. JudgeInv /\ [Next]_vars => JudgeInv'
  BY JudgeNext, PartsStep
<1>3. JudgeInv /\ [Next]_vars
        => [\A t \in Judgeable : Judging!Judged /\ round.ticket = t =>
               \/ round'.step = "execute" /\ Judging!Recent(t, "yes")
               \/ outcome'[t] = "open"
               \/ /\ outcome'[t] \in {"escalated", "asked"}
                  /\ Judging!Recent(t, "no") \/ Judging!Recent(t, "ambiguous")]_(Judging!vars)
  BY VerdictStep, PartsStep
<1> QED
  BY <1>1, <1>2, <1>3, PTL DEF Spec, VerdictIsReal, Judging!VerdictIsReal

\* One ticket tells of an outage, over restarts (_mark_llm_outage); in local-only mode no hosted
\* provider is asked, whichever tier a call is routed to (provider_order, call_llm); and every
\* variable of the three parts has its type.
THEOREM RoutingHoldsAlways == Spec => []RoutingHolds
<1>1. Init => QueueInv /\ RoutingInv /\ JudgeInv
  BY QueueInit, RoutingInit, JudgeInit DEF Init
<1>2. QueueInv /\ RoutingInv /\ JudgeInv /\ [Next]_vars => QueueInv' /\ RoutingInv' /\ JudgeInv'
  BY QueueNext, RoutingNext, JudgeNext, PartsStep
<1>3. QueueInv /\ RoutingInv /\ JudgeInv => RoutingHolds
  BY DEF QueueInv, RoutingInv, JudgeInv, RoutingHolds
<1> QED
  BY <1>1, <1>2, <1>3, PTL DEF Spec
=============================================================================
