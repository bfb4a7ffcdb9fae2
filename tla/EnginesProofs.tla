--------------------------- MODULE EnginesProofs ----------------------------
(***************************************************************************)
(* What is proved of the engines of the API's threads: service checks,     *)
(* firmware upgrades and scans of the network.                             *)
(***************************************************************************)
EXTENDS MCEngines, FiniteSetTheorems, SequenceTheorems, TLAPS

-----------------------------------------------------------------------------
(* Service checks.                                                           *)

Gone == Service!NoEpisode       \* no episode

Rows == Service!Episodes \cup {Gone}

PollRows == [at : {"idle", "loaded", "probed", "escalating", "closing"},
             fail : 0..FailThreshold, ok : 0..RecoveryOk, ep : Rows, up : BOOLEAN, late : Nat]

\* Types; an episode has a monitor.
ServiceTypes ==
    /\ up \in BOOLEAN
    /\ mon \in Service!Monitors \cup {Service!NoMonitor}
    /\ ep \in Rows
    /\ ticket \in Service!TicketRows
    /\ ep # Gone => mon.there
    /\ poll \in [Pollers -> PollRows]

Bounded == {FailThreshold, RecoveryOk, P1After, MaxLate} \subseteq Nat

LEMMA ServiceBounds == Bounded
BY EnginesAssumption DEF Bounded

LEMMA GoneParts ==
    /\ Gone.state = "none" /\ Gone.age = 0
    /\ Gone \notin Service!Episodes
    /\ \A e \in Service!Episodes : e.state \in {"down", "outage"} /\ e.age \in 0..P1After
    /\ \A e \in Rows : e.state \in {"none", "down", "outage"} /\ (e = Gone <=> e.state = "none")
BY DEF Gone, Service!NoEpisode, Service!Episodes, Rows

LEMMA IdleType == Service!Idle \in PollRows /\ Service!Idle.at = "idle" /\ Service!Idle.late = 0
<1>1. Service!Idle = [at |-> "idle", fail |-> 0, ok |-> 0, ep |-> Gone, up |-> FALSE, late |-> 0]
  BY DEF Service!Idle, Gone
<1> QED
  BY <1>1, ServiceBounds DEF PollRows, Rows, Bounded

\* A poll that ends becomes idle, and those under way are later by one.
LEMMA DoneType ==
    ASSUME poll \in [Pollers -> PollRows], NEW p \in Pollers, Service!Done(p)
    PROVE  /\ poll' \in [Pollers -> PollRows]
           /\ poll'[p] = Service!Idle
           /\ \A q \in Pollers : q # p =>
                /\ poll'[q].at = poll[q].at /\ poll'[q].ep = poll[q].ep
                /\ poll'[q].fail = poll[q].fail /\ poll'[q].up = poll[q].up
                /\ poll[q].at # "idle" => poll'[q].late = poll[q].late + 1
                /\ poll[q].at = "idle" => poll'[q].late = 0
<1>1. /\ poll'[p] = Service!Idle
      /\ \A q \in Pollers : q # p =>
            poll'[q] = [poll[q] EXCEPT !.late = IF poll[q].at = "idle" THEN 0 ELSE @ + 1]
      /\ poll' = [q \in Pollers |-> poll'[q]]
  BY DEF Service!Done
<1>2. ASSUME NEW q \in Pollers, q # p
      PROVE  /\ poll'[q] \in PollRows
             /\ poll'[q].at = poll[q].at /\ poll'[q].ep = poll[q].ep
             /\ poll'[q].fail = poll[q].fail /\ poll'[q].up = poll[q].up
             /\ poll[q].at # "idle" => poll'[q].late = poll[q].late + 1
             /\ poll[q].at = "idle" => poll'[q].late = 0
  BY <1>1, <1>2 DEF PollRows
<1> QED
  BY <1>1, <1>2, IdleType

\* What a poll writes of the monitor it has loaded.
LEMMA WrittenType ==
    ASSUME mon \in Service!Monitors, NEW p \in Pollers, poll[p] \in PollRows
    PROVE  /\ Service!Written(p) \in Service!Monitors
           /\ Service!Streaks(p).fail \in 0..FailThreshold
<1> DEFINE new == Service!Streaks(p)
<1>1. new.fail \in 0..FailThreshold /\ new.ok \in 0..RecoveryOk
  BY ServiceBounds DEF Service!Streaks, Service!AtMost, PollRows, Bounded
<1> HIDE DEF new
<1>2. Service!Written(p) =
         [mon EXCEPT !.fail = IF ~poll[p].up \/ new.fail # poll[p].fail THEN new.fail ELSE @,
                     !.ok = IF new.ok # poll[p].ok THEN new.ok ELSE @]
  BY DEF Service!Written, new
<1>3. Service!Written(p) \in Service!Monitors
  BY <1>1, <1>2 DEF Service!Monitors
<1> QED
  BY <1>1, <1>3 DEF new

\* What a step may do to the episode: nothing, open it, raise it, end it.
EpisodeStep == \/ ep'.state = ep.state
               \/ ep = Gone /\ ep'.state = "down"
               \/ ep.state = "down" /\ ep'.state = "outage"
               \/ ep' = Gone

\* Invariants and steps of one action at a time.
LEMMA LoadTypes ==
    ASSUME ServiceTypes, NEW p \in Pollers, Service!Load(p) \/ Service!Probe(p)
    PROVE  ServiceTypes' /\ EpisodeStep
<1>1. CASE Service!Load(p)
  <2> DEFINE new == [Service!Idle EXCEPT !.at = "loaded", !.fail = mon.fail, !.ok = mon.ok,
                                         !.ep = ep]
  <2>1. mon \in Service!Monitors
    BY <1>1 DEF Service!Load, Service!Probed, ServiceTypes, Service!NoMonitor
  <2>2. new \in PollRows
    BY <2>1, IdleType DEF PollRows, Service!Monitors, ServiceTypes
  <2>3. poll' = [poll EXCEPT ![p] = new]
    BY <1>1 DEF Service!Load
  <2> HIDE DEF new
  <2>4. poll' \in [Pollers -> PollRows]
    BY <2>2, <2>3 DEF ServiceTypes
  <2> QED
    BY <1>1, <2>4 DEF Service!Load, ServiceTypes, EpisodeStep
<1>2. CASE Service!Probe(p)
  <2> DEFINE new == [poll[p] EXCEPT !.at = "probed", !.up = up]
  <2>1. new \in PollRows
    BY DEF PollRows, ServiceTypes
  <2>2. poll' = [poll EXCEPT ![p] = new]
    BY <1>2 DEF Service!Probe, ServiceTypes
  <2> HIDE DEF new
  <2>3. poll' \in [Pollers -> PollRows]
    BY <2>1, <2>2 DEF ServiceTypes
  <2> QED
    BY <1>2, <2>3 DEF Service!Probe, ServiceTypes, EpisodeStep
<1> QED
  BY <1>1, <1>2

\* A poll on its way to the last commit.
LEMMA EndingType ==
    ASSUME ServiceTypes, NEW p \in Pollers, NEW at \in {"escalating", "closing"}
    PROVE  /\ Service!Ending(p, at) \in PollRows
           /\ Service!Ending(p, at).at = at /\ Service!Ending(p, at).late = poll[p].late
<1>1. poll[p].late \in Nat
  BY DEF ServiceTypes, PollRows
<1> QED
  BY <1>1, IdleType DEF Service!Ending, PollRows

LEMMA AdvanceTypes ==
    ASSUME ServiceTypes, NEW p \in Pollers, Service!Advance(p)
    PROVE  ServiceTypes' /\ EpisodeStep
<1>1. /\ mon.there /\ mon \in Service!Monitors /\ poll[p] \in PollRows
      /\ poll \in [Pollers -> PollRows]
  BY DEF Service!Advance, Service!Commits, ServiceTypes, Service!NoMonitor
<1>2. mon' \in Service!Monitors /\ UNCHANGED up
  BY <1>1, WrittenType DEF Service!Advance
<1>3. mon'.there
  BY <1>2 DEF Service!Monitors
<1>4. CASE Service!Done(p) /\ UNCHANGED <<ep, ticket>>
  BY <1>1, <1>2, <1>3, <1>4, DoneType DEF ServiceTypes, EpisodeStep
<1>5. CASE /\ Service!Opens(p) /\ ep' = [state |-> "down", age |-> 0] /\ ticket' = "P2"
           /\ Service!Done(p)
  <2>1. ep = Gone
    BY <1>5 DEF Service!Advance, Service!Commits, Gone
  <2>2. ep' \in Rows /\ ticket' \in Service!TicketRows
    BY <1>5, ServiceBounds DEF Rows, Service!Episodes, Bounded, Service!TicketRows
  <2> QED
    BY <1>1, <1>2, <1>3, <1>5, <2>1, <2>2, DoneType DEF ServiceTypes, EpisodeStep
<1>6. ASSUME NEW at \in {"escalating", "closing"},
             poll' = [poll EXCEPT ![p] = Service!Ending(p, at)], UNCHANGED ep,
             ticket' \in {ticket, "P1", "closed"}
      PROVE  ServiceTypes' /\ EpisodeStep
  <2>1. poll' \in [Pollers -> PollRows]
    BY <1>1, <1>6, EndingType
  <2>2. ticket' \in Service!TicketRows
    BY <1>6 DEF ServiceTypes, Service!TicketRows
  <2> QED
    BY <1>2, <1>3, <1>6, <2>1, <2>2 DEF ServiceTypes, EpisodeStep
<1> QED
  BY <1>4, <1>5, <1>6 DEF Service!Advance

LEMMA FinishTypes ==
    ASSUME ServiceTypes, NEW p \in Pollers,
           Service!Finish(p) \/ Service!Conflict(p) \/ Service!Fault(p)
    PROVE  ServiceTypes' /\ EpisodeStep
<1>1. poll' \in [Pollers -> PollRows] /\ UNCHANGED <<up, mon, ticket>>
  BY DoneType DEF ServiceTypes, Service!Finish, Service!Conflict, Service!Fault
<1>2. CASE ep # Gone /\ ep' = [ep EXCEPT !.state = "outage"]
  <2>1. ep \in Service!Episodes
    BY <1>2 DEF ServiceTypes, Rows
  <2>2. ep' \in Service!Episodes /\ ep.state \in {"down", "outage"} /\ ep'.state = "outage"
    BY <1>2, <2>1 DEF Service!Episodes
  <2> QED
    BY <1>1, <1>2, <2>2 DEF ServiceTypes, EpisodeStep, Rows
<1>3. CASE ep' = Gone
  BY <1>1, <1>3 DEF ServiceTypes, EpisodeStep, Rows
<1>4. CASE UNCHANGED ep
  BY <1>1, <1>4 DEF ServiceTypes, EpisodeStep
<1> QED
  BY <1>2, <1>3, <1>4 DEF Service!Finish, Service!Conflict, Service!Fault, Gone

\* The administrator and the world.
Outside == \/ Service!CreateMonitor \/ Service!UpdateMonitor \/ Service!DeleteMonitor
           \/ Service!DeleteDevice \/ Service!ServiceChanges \/ Service!Elapse

\* Of those: polls go on, and but for the deletion of the monitor the episode and its ticket stay.
LEMMA OutsideTypes ==
    ASSUME ServiceTypes, Outside
    PROVE  /\ ServiceTypes' /\ EpisodeStep /\ UNCHANGED poll
           /\ \/ /\ UNCHANGED ticket /\ ep'.state = ep.state
                 /\ \/ mon'.fail = mon.fail
                    \/ mon'.fail = 0
              \/ /\ ep' = Gone /\ mon'.fail = 0
                 /\ ticket' = IF ep = Gone THEN ticket ELSE "closed"
<1>1. CASE Service!CreateMonitor
  <2>0. PICK target \in {"address", "device"} :
            mon' = [there |-> TRUE, enabled |-> TRUE, target |-> target, fail |-> 0, ok |-> 0]
    BY <1>1 DEF Service!CreateMonitor, Service!NoMonitor
  <2>1. mon' \in Service!Monitors /\ mon'.fail = 0
    BY <2>0, ServiceBounds DEF Service!Monitors, Bounded
  <2>2. UNCHANGED <<up, ep, ticket, poll>> /\ mon'.there
    BY <1>1, <2>1 DEF Service!CreateMonitor, Service!Monitors
  <2> QED
    BY <2>1, <2>2 DEF ServiceTypes, EpisodeStep
<1>2. CASE Service!UpdateMonitor \/ Service!DeleteDevice
  <2>1. mon \in Service!Monitors
    BY <1>2 DEF Service!UpdateMonitor, Service!DeleteDevice, ServiceTypes, Service!NoMonitor
  <2>2. CASE mon' = [mon EXCEPT !.enabled = ~@]
    BY <1>2, <2>1, <2>2 DEF Service!UpdateMonitor, Service!DeleteDevice, Service!Monitors,
                            ServiceTypes, EpisodeStep
  <2>3. CASE \E target \in {"address", "device", "blank"} : mon' = [mon EXCEPT !.target = target]
    BY <1>2, <2>1, <2>3 DEF Service!UpdateMonitor, Service!DeleteDevice, Service!Monitors,
                            ServiceTypes, EpisodeStep
  <2>4. CASE mon' = [mon EXCEPT !.target = "deleted", !.enabled = FALSE]
    BY <1>2, <2>1, <2>4 DEF Service!UpdateMonitor, Service!DeleteDevice, Service!Monitors,
                            ServiceTypes, EpisodeStep
  <2> QED
    BY <1>2, <2>2, <2>3, <2>4 DEF Service!UpdateMonitor, Service!DeleteDevice
<1>3. CASE Service!DeleteMonitor
  <2>1. /\ mon' = Service!NoMonitor /\ mon'.fail = 0 /\ ep' = Gone /\ UNCHANGED <<up, poll>>
        /\ ticket' = IF ep = Gone THEN ticket ELSE "closed"
    BY <1>3 DEF Service!DeleteMonitor, Service!NoMonitor, Gone
  <2> QED
    BY <2>1 DEF ServiceTypes, EpisodeStep, Rows, Service!TicketRows
<1>4. CASE Service!ServiceChanges
  BY <1>4 DEF Service!ServiceChanges, ServiceTypes, EpisodeStep
<1>5. CASE Service!Elapse
  <2>1. ep \in Service!Episodes
    BY <1>5 DEF Service!Elapse, ServiceTypes, Rows, Gone
  <2>2. ep' \in Service!Episodes /\ ep'.state = ep.state
    BY <1>5, <2>1, ServiceBounds DEF Service!Elapse, Service!Episodes, Bounded
  <2> QED
    BY <1>5, <2>2, GoneParts DEF Service!Elapse, ServiceTypes, EpisodeStep, Rows
<1> QED
  BY <1>1, <1>2, <1>3, <1>4, <1>5 DEF Outside

LEMMA ServiceCases ==
    ASSUME Service!Next
    PROVE  \/ \E p \in Pollers : \/ Service!Load(p) \/ Service!Probe(p) \/ Service!Advance(p)
                                 \/ Service!Finish(p) \/ Service!Conflict(p) \/ Service!Fault(p)
           \/ Outside
BY DEF Service!Next, Service!Step, Outside

LEMMA ServiceTypesKeep ==
    ASSUME ServiceTypes, Service!Next
    PROVE  ServiceTypes' /\ EpisodeStep
BY ServiceCases, LoadTypes, AdvanceTypes, FinishTypes, OutsideTypes

LEMMA LevelOf ==
    /\ ep.state = "outage" => Service!Level = "P1"
    /\ ep.state = "down" => Service!Level = "P2"
    /\ ep.state \notin {"down", "outage"} => Service!Level = "none"
BY Zenon DEF Service!Level

LEMMA LevelNext ==
    /\ ep'.state = "outage" => Service!Level' = "P1"
    /\ ep'.state = "down" => Service!Level' = "P2"
    /\ ep'.state \notin {"down", "outage"} => Service!Level' = "none"
BY Zenon DEF Service!Level

\* Each of those steps of the episode is one of an incident.
LEMMA IncidentGoesOn ==
    ASSUME ep \in Rows, ep' \in Rows, EpisodeStep
    PROVE  Service!Incidents!Next
<1> DEFINE Owner(e) == IF e = Gone THEN "no ticket" ELSE "ticket"
           s == "monitor"
<1>1. /\ ep.state \in {"none", "down", "outage"} /\ (ep = Gone <=> ep.state = "none")
      /\ ep'.state \in {"none", "down", "outage"} /\ (ep' = Gone <=> ep'.state = "none")
  BY GoneParts
<1>2. Owner(ep) = (IF ep.state = "none" THEN "no ticket" ELSE "ticket")
      /\ Owner(ep') = (IF ep'.state = "none" THEN "no ticket" ELSE "ticket")
  BY <1>1
<1>3. \/ Service!Incidents!Raise(s) \/ Service!Incidents!Escalate(s)
      \/ Service!Incidents!End(s) \/ Service!Incidents!Stays(s)
  <2>1. CASE ep'.state = ep.state
    BY <1>1, <2>1, LevelOf, LevelNext DEF Service!Incidents!Stays, Gone
  <2>2. CASE ep = Gone /\ ep'.state = "down"
    BY <1>1, <2>2, LevelOf, LevelNext DEF Service!Incidents!Raise, Gone
  <2>3. CASE ep.state = "down" /\ ep'.state = "outage"
    BY <1>1, <2>3, LevelOf, LevelNext DEF Service!Incidents!Escalate, Gone
  <2>4. CASE ep' = Gone /\ ep # Gone
    BY <1>1, <2>4, LevelOf, LevelNext DEF Service!Incidents!End, Gone
  <2> QED
    BY <1>1, <2>1, <2>2, <2>3, <2>4 DEF EpisodeStep
<1> QED
  BY <1>3 DEF Service!Incidents!Next

LEMMA ServiceStarts ==
    ASSUME Service!Init
    PROVE  ServiceTypes /\ Service!Incidents!Init
<1>1. ep = Gone /\ mon = Service!NoMonitor /\ ticket = "none" /\ up = TRUE
      /\ poll = [p \in Pollers |-> Service!Idle]
  BY DEF Service!Init, Gone
<1>2. ServiceTypes
  BY <1>1, IdleType DEF ServiceTypes, Rows, Service!TicketRows
<1>3. Service!Level = "none"
  BY <1>1, LevelOf, GoneParts
<1> QED
  BY <1>1, <1>2, <1>3 DEF Service!Incidents!Init, Gone

-----------------------------------------------------------------------------
(* The ticket of an episode, when polls overlap as far as the run lets them. *)

\* At most one poll overtakes one under way, and one failure is not enough.
OverlapIsShort == MaxLate <= 1 /\ FailThreshold >= 2

\* A poll that found the episode there; one that did not; one that may open another.
HasEpisode(p) == \/ poll[p].at \in {"escalating", "closing"}
                 \/ poll[p].at \in {"loaded", "probed"} /\ poll[p].ep # Gone
Blank(p)      == poll[p].at \in {"loaded", "probed"} /\ poll[p].ep = Gone
MayOpen(p)    == Blank(p) /\ poll[p].fail + 1 >= FailThreshold

\* None that may open one is under way together with one that knows one, which therefore ends
\* or raises the episode it has found: an episode comes only with the end of a poll, and goes with
\* one or with the monitor, whose failures are then counted anew.
ServiceRel ==
    /\ ep # Gone => ticket # "none"
    /\ ep.state = "outage" => ticket # "P2"
    /\ ticket \in {"P2", "P1"} => ep # Gone
    /\ \A p, q \in Pollers : ~(HasEpisode(p) /\ MayOpen(q))
    /\ \A p \in Pollers :
         /\ HasEpisode(p) /\ poll[p].late = 0 /\ ep = Gone => mon.fail = 0
         /\ Blank(p) /\ poll[p].late = 0 => ep = Gone
         /\ poll[p].at = "closing" /\ ep # Gone => ticket = "closed"
         /\ poll[p].at = "escalating" /\ ep # Gone => ticket # "P2"

\* The polls that are under way are later than a poll that is done.
LEMMA DoneKeeps ==
    ASSUME ServiceTypes, ServiceRel, NEW p \in Pollers, Service!Done(p)
    PROVE  /\ ~HasEpisode(p)' /\ ~Blank(p)' /\ poll'[p].at = "idle"
           /\ \A q \in Pollers : q # p =>
                 /\ poll'[q].at = poll[q].at
                 /\ HasEpisode(q)' <=> HasEpisode(q)
                 /\ Blank(q)' <=> Blank(q)
                 /\ MayOpen(q)' <=> MayOpen(q)
                 /\ HasEpisode(q) \/ Blank(q) => poll'[q].late # 0
           /\ \A q, r \in Pollers : ~(HasEpisode(q)' /\ MayOpen(r)')
<1>1. poll \in [Pollers -> PollRows]
  BY DEF ServiceTypes
<1>2. ~HasEpisode(p)' /\ ~Blank(p)' /\ poll'[p].at = "idle"
  BY <1>1, DoneType, IdleType DEF HasEpisode, Blank
<1>3. ASSUME NEW q \in Pollers, q # p
      PROVE  /\ poll'[q].at = poll[q].at
             /\ HasEpisode(q)' <=> HasEpisode(q)
             /\ Blank(q)' <=> Blank(q)
             /\ MayOpen(q)' <=> MayOpen(q)
             /\ HasEpisode(q) \/ Blank(q) => poll'[q].late # 0
  <2>1. /\ poll'[q].at = poll[q].at /\ poll'[q].ep = poll[q].ep /\ poll'[q].fail = poll[q].fail
        /\ poll[q].at # "idle" => poll'[q].late = poll[q].late + 1
    BY <1>1, <1>3, DoneType
  <2>2. poll[q].late \in Nat
    BY <1>1 DEF PollRows
  <2> QED
    BY <2>1, <2>2 DEF HasEpisode, Blank, MayOpen
<1> QED
  BY <1>2, <1>3 DEF ServiceRel, MayOpen

LEMMA LoadRel ==
    ASSUME OverlapIsShort, ServiceTypes, ServiceRel, NEW p \in Pollers, Service!Load(p)
    PROVE  ServiceRel'
<1>1. /\ UNCHANGED <<mon, ep, ticket>> /\ mon \in Service!Monitors /\ mon.fail \in 0..FailThreshold
      /\ \A q \in Pollers : poll[q].late = 0 /\ (q # p => poll'[q] = poll[q])
  <2>1. mon \in Service!Monitors
    BY DEF Service!Load, Service!Probed, ServiceTypes, Service!NoMonitor
  <2>2. \A q \in Pollers : poll[q].late \in Nat /\ poll[q].late < MaxLate
    BY DEF Service!Load, ServiceTypes, PollRows
  <2>3. \A q \in Pollers : poll[q].late = 0
    BY <2>2, ServiceBounds DEF OverlapIsShort, Bounded
  <2>4. mon.fail \in 0..FailThreshold
    BY <2>1 DEF Service!Monitors
  <2>5. \A q \in Pollers : q # p => poll'[q] = poll[q]
    BY DEF Service!Load, ServiceTypes
  <2>6. UNCHANGED <<mon, ep, ticket>>
    BY DEF Service!Load
  <2> QED
    BY <2>1, <2>3, <2>4, <2>5, <2>6
<1>2. /\ poll'[p].at = "loaded" /\ poll'[p].ep = ep /\ poll'[p].fail = mon.fail
      /\ poll'[p].late = 0
  <2>1. poll'[p] = [Service!Idle EXCEPT !.at = "loaded", !.fail = mon.fail, !.ok = mon.ok,
                                        !.ep = ep]
    BY DEF Service!Load, ServiceTypes
  <2> QED
    BY <2>1 DEF Service!Idle
<1>3. \A q \in Pollers : q # p =>
          /\ HasEpisode(q)' <=> HasEpisode(q)
          /\ Blank(q)' <=> Blank(q)
          /\ MayOpen(q)' <=> MayOpen(q)
  BY <1>1 DEF HasEpisode, Blank, MayOpen
<1>4. (HasEpisode(p)' <=> ep # Gone) /\ (Blank(p)' <=> ep = Gone)
  BY <1>2 DEF HasEpisode, Blank
<1>5. MayOpen(p)' => ep = Gone /\ mon.fail # 0
  BY <1>1, <1>2, <1>4, ServiceBounds DEF MayOpen, OverlapIsShort, Bounded
<1>6. ASSUME NEW q \in Pollers, NEW r \in Pollers, HasEpisode(q)', MayOpen(r)'
      PROVE  FALSE
  <2>1. CASE q # p /\ r # p
    BY <1>3, <1>6, <2>1 DEF ServiceRel
  <2>2. CASE q # p /\ r = p
    BY <1>1, <1>3, <1>5, <1>6, <2>2 DEF ServiceRel
  <2>3. CASE q = p /\ r # p
    BY <1>1, <1>3, <1>4, <1>6, <2>3 DEF ServiceRel, MayOpen
  <2>4. CASE q = p /\ r = p
    BY <1>4, <1>5, <1>6, <2>4
  <2> QED
    BY <2>1, <2>2, <2>3, <2>4
<1>7. ASSUME NEW q \in Pollers
      PROVE  /\ HasEpisode(q)' /\ poll'[q].late = 0 /\ ep' = Gone => mon'.fail = 0
             /\ Blank(q)' /\ poll'[q].late = 0 => ep' = Gone
             /\ poll'[q].at = "closing" /\ ep' # Gone => ticket' = "closed"
             /\ poll'[q].at = "escalating" /\ ep' # Gone => ticket' # "P2"
  BY <1>1, <1>2, <1>3, <1>4 DEF ServiceRel
<1> QED
  BY <1>1, <1>6, <1>7 DEF ServiceRel

LEMMA ProbeRel ==
    ASSUME ServiceTypes, ServiceRel, NEW p \in Pollers, Service!Probe(p)
    PROVE  ServiceRel'
<1>1. /\ poll[p].at = "loaded" /\ UNCHANGED <<mon, ep, ticket>>
      /\ poll'[p] = [poll[p] EXCEPT !.at = "probed", !.up = up]
      /\ \A q \in Pollers : q # p => poll'[q] = poll[q]
  BY DEF Service!Probe, ServiceTypes
<1>2. /\ poll'[p].at = "probed" /\ poll'[p].ep = poll[p].ep /\ poll'[p].fail = poll[p].fail
      /\ poll'[p].late = poll[p].late
  BY <1>1 DEF ServiceTypes, PollRows
<1>3. \A q \in Pollers :
          /\ HasEpisode(q)' <=> HasEpisode(q)
          /\ Blank(q)' <=> Blank(q)
          /\ MayOpen(q)' <=> MayOpen(q)
          /\ poll'[q].late = poll[q].late
          /\ poll'[q].at \in {"closing", "escalating"} => poll'[q].at = poll[q].at
  BY <1>1, <1>2 DEF HasEpisode, Blank, MayOpen
<1> QED
  BY <1>1, <1>3 DEF ServiceRel

\* The end of a poll that leaves the episode and its ticket as they are or, when it knows the
\* episode, changes them.
LEMMA DoneRel ==
    ASSUME ServiceTypes, ServiceRel, NEW p \in Pollers, Service!Done(p),
           ep' # Gone => ticket' # "none",
           ep'.state = "outage" => ticket' # "P2",
           ticket' \in {"P2", "P1"} => ep' # Gone,
           \A q \in Pollers : q # p /\ poll[q].at = "closing" /\ ep' # Gone => ticket' = "closed",
           \A q \in Pollers : q # p /\ poll[q].at = "escalating" /\ ep' # Gone => ticket' # "P2"
    PROVE  ServiceRel'
<1>1. ASSUME NEW q \in Pollers
      PROVE  /\ HasEpisode(q)' /\ poll'[q].late = 0 /\ ep' = Gone => mon'.fail = 0
             /\ Blank(q)' /\ poll'[q].late = 0 => ep' = Gone
             /\ poll'[q].at = "closing" /\ ep' # Gone => ticket' = "closed"
             /\ poll'[q].at = "escalating" /\ ep' # Gone => ticket' # "P2"
  BY DoneKeeps
<1> QED
  BY <1>1, DoneKeeps DEF ServiceRel

LEMMA AdvanceRel ==
    ASSUME OverlapIsShort, ServiceTypes, ServiceRel, NEW p \in Pollers, Service!Advance(p)
    PROVE  ServiceRel'
<1>1. /\ poll[p].at = "probed" /\ poll[p] \in PollRows /\ poll[p].ep \in Rows /\ ep \in Rows
      /\ poll[p].ep # Gone => ep # Gone
      /\ poll \in [Pollers -> PollRows]
  BY DEF Service!Advance, Service!Commits, ServiceTypes, PollRows, Gone
<1>2. CASE Service!Done(p) /\ UNCHANGED <<ep, ticket>>
  BY <1>2, DoneRel DEF ServiceRel
<1>3. CASE /\ Service!Opens(p) /\ ep' = [state |-> "down", age |-> 0] /\ ticket' = "P2"
           /\ Service!Done(p)
  <2>1. poll[p].fail + 1 >= FailThreshold
    BY <1>1, <1>3, ServiceBounds DEF Service!Opens, Service!Streaks, Service!AtMost, Bounded,
                                     PollRows
  <2>2. MayOpen(p)
    BY <1>1, <1>3, <2>1 DEF MayOpen, Blank, Service!Opens, Gone
  <2>3. \A q \in Pollers : poll[q].at \notin {"closing", "escalating"}
    BY <2>2 DEF ServiceRel, HasEpisode
  <2>4. ep' # Gone /\ ep'.state = "down"
    BY <1>3, GoneParts
  <2> QED
    BY <1>3, <2>3, <2>4, DoneRel
<1>4. ASSUME NEW at \in {"escalating", "closing"}, poll[p].ep # Gone,
             poll' = [poll EXCEPT ![p] = Service!Ending(p, at)], UNCHANGED ep,
             ticket' = IF at = "closing" THEN "closed" ELSE IF ticket = "P2" THEN "P1" ELSE ticket
      PROVE  ServiceRel'
  <2>1. ep # Gone /\ HasEpisode(p)
    BY <1>1, <1>4 DEF HasEpisode
  <2>2. poll'[p].at = at /\ \A q \in Pollers : q # p => poll'[q] = poll[q]
    BY <1>1, <1>4, EndingType
  <2>3. HasEpisode(p)' /\ ~Blank(p)'
    BY <1>4, <2>2 DEF HasEpisode, Blank
  <2>4. \A q \in Pollers : /\ HasEpisode(q)' <=> HasEpisode(q)
                           /\ Blank(q)' => Blank(q)
                           /\ MayOpen(q)' => MayOpen(q)
                           /\ Blank(q)' => poll'[q].late = poll[q].late
    BY <2>1, <2>2, <2>3 DEF HasEpisode, Blank, MayOpen
  <2>5. ASSUME NEW q \in Pollers
        PROVE  /\ HasEpisode(q)' /\ poll'[q].late = 0 /\ ep' = Gone => mon'.fail = 0
               /\ Blank(q)' /\ poll'[q].late = 0 => ep' = Gone
               /\ poll'[q].at = "closing" /\ ep' # Gone => ticket' = "closed"
               /\ poll'[q].at = "escalating" /\ ep' # Gone => ticket' # "P2"
    <3>1. CASE q = p
      BY <1>4, <2>1, <2>2, <2>3, <3>1
    <3>2. CASE q # p
      <4>1. poll[q].at = "closing" => ticket = "closed"
        BY <2>1 DEF ServiceRel
      <4>2. poll[q].at = "closing" => ticket' = "closed"
        BY <1>4, <4>1
      <4>3. ticket' # "P2"
        BY <1>4
      <4> QED
        BY <1>4, <2>1, <2>2, <2>4, <3>2, <4>2, <4>3 DEF ServiceRel
    <3> QED
      BY <3>1, <3>2
  <2> QED
    BY <1>4, <2>1, <2>4, <2>5 DEF ServiceRel
<1>5. CASE /\ Service!Escalates(p) /\ ticket' = IF ticket = "P2" THEN "P1" ELSE ticket
           /\ poll' = [poll EXCEPT ![p] = Service!Ending(p, "escalating")] /\ UNCHANGED ep
  BY <1>1, <1>4, <1>5, GoneParts DEF Service!Escalates
<1>6. CASE /\ Service!Closes(p) /\ ticket' = "closed"
           /\ poll' = [poll EXCEPT ![p] = Service!Ending(p, "closing")] /\ UNCHANGED ep
  BY <1>4, <1>6 DEF Service!Closes, Gone
<1> QED
  BY <1>2, <1>3, <1>5, <1>6 DEF Service!Advance

LEMMA FinishRel ==
    ASSUME ServiceTypes, ServiceRel, NEW p \in Pollers,
           Service!Finish(p) \/ Service!Conflict(p) \/ Service!Fault(p)
    PROVE  ServiceRel'
<1>1. Service!Done(p) /\ UNCHANGED ticket
  BY DEF Service!Finish, Service!Conflict, Service!Fault
<1>2. CASE poll[p].at = "escalating" /\ ep # Gone /\ ep' = [ep EXCEPT !.state = "outage"]
  <2>1. ep' # Gone
    BY <1>2, FinishTypes, GoneParts DEF ServiceTypes, Rows, Service!Episodes
  <2> QED
    BY <1>1, <1>2, <2>1, DoneRel DEF ServiceRel
<1>3. CASE poll[p].at = "closing" /\ ep' = Gone
  <2>1. ticket \notin {"P2", "P1"}
    BY <1>3 DEF ServiceRel
  <2> QED
    BY <1>1, <1>3, <2>1, GoneParts, DoneRel
<1>4. CASE UNCHANGED ep
  BY <1>1, <1>4, DoneRel DEF ServiceRel
<1> QED
  BY <1>2, <1>3, <1>4 DEF Service!Finish, Service!Conflict, Service!Fault, Gone

LEMMA OutsideRel ==
    ASSUME ServiceTypes, ServiceRel, Outside
    PROVE  ServiceRel'
<1>1. UNCHANGED poll /\ ep \in Rows /\ ep' \in Rows
  BY OutsideTypes DEF ServiceTypes
<1>2. \A p \in Pollers : /\ HasEpisode(p)' <=> HasEpisode(p)
                         /\ Blank(p)' <=> Blank(p)
                         /\ MayOpen(p)' <=> MayOpen(p)
  BY <1>1 DEF HasEpisode, Blank, MayOpen
<1>3. CASE /\ UNCHANGED ticket /\ ep'.state = ep.state
           /\ mon'.fail = mon.fail \/ mon'.fail = 0
  <2>1. ep' = Gone <=> ep = Gone
    BY <1>1, <1>3, GoneParts
  <2> QED
    BY <1>1, <1>2, <1>3, <2>1 DEF ServiceRel
<1>4. CASE /\ ep' = Gone /\ mon'.fail = 0
           /\ ticket' = IF ep = Gone THEN ticket ELSE "closed"
  <2>1. ticket' \notin {"P2", "P1"} /\ ep'.state = "none"
    BY <1>4, GoneParts DEF ServiceRel
  <2> QED
    BY <1>1, <1>2, <1>4, <2>1 DEF ServiceRel
<1> QED
  BY <1>3, <1>4, OutsideTypes

LEMMA ServiceRelKeeps ==
    ASSUME OverlapIsShort, ServiceTypes, ServiceRel, Service!Next
    PROVE  ServiceRel'
BY ServiceCases, LoadRel, ProbeRel, AdvanceRel, FinishRel, OutsideRel

LEMMA ServiceRelStarts ==
    ASSUME Service!Init
    PROVE  ServiceRel
<1>1. /\ ep = Gone /\ ep.state = "none" /\ ticket = "none"
      /\ \A p \in Pollers : poll[p] = Service!Idle
  BY GoneParts DEF Service!Init, Gone
<1>2. \A p \in Pollers : poll[p].at = "idle"
  BY <1>1, IdleType
<1> QED
  BY <1>1, <1>2 DEF ServiceRel, HasEpisode, Blank, MayOpen

\* The two together are what the run checks of a service.
LEMMA ServiceFollows ==
    ASSUME ServiceTypes, ServiceRel
    PROVE  Service!TypeOK /\ Service!OpenIsWatched
BY DEF ServiceTypes, ServiceRel, Service!TypeOK, Service!OpenIsWatched, Rows, Gone

-----------------------------------------------------------------------------
(* Scans of the network.                                                     *)

\* A run has a stage as soon as it has a row, only such a run is cancelled, and no thread of an
\* earlier process runs on.
ScanRel ==
    /\ \A r \in Opt!Runs : scan[r] = "none" <=> stage[r] = "none"
    /\ \A r \in asked : scan[r] # "none"
    /\ \A q \in old : stage[q] \in {"ended", "lost"}

ScansHold == Opt!TypeOK /\ ScanRel /\ Opt!OldRunsAreReconciled

\* The steps of one run change its row and its stage at most, and nothing of earlier processes.
Moves(r) ==
    /\ UNCHANGED <<old, spawned, closed, resolved, fix>>
    /\ scan'[r] \in {"queued", "running"} \cup Opt!Final
    /\ stage'[r] \in Opt!Stages \ {"none"}
    /\ scan' = [scan EXCEPT ![r] = scan'[r]] /\ stage' = [stage EXCEPT ![r] = stage'[r]]

LEMMA ScanBounds == /\ MaxRuns \in Nat /\ Hosts \in Nat /\ MaxTickets \in Nat
                    /\ MaxScanFaults \in Nat /\ IsFiniteSet(Findings)
BY EnginesAssumption

LEMMA FaultType ==
    ASSUME Opt!TypeOK, Opt!Fault
    PROVE  scanFaults' \in 0..MaxScanFaults
BY ScanBounds DEF Opt!TypeOK, Opt!Fault

\* A step of a run's thread, or of a request to cancel it.
LEMMA MovesHold ==
    ASSUME ScansHold, NEW r \in Opt!Runs, Moves(r),
           event' \subseteq Opt!Runs, asked' \subseteq asked \cup {r},
           left' \in [Opt!Runs -> 0..Hosts],
           found' \in [Opt!Runs -> SUBSET Findings], scanFaults' \in 0..MaxScanFaults,
           r \in old => stage'[r] = stage[r],
           scan'[r] = "running" => r \notin old \/ scan[r] = "running",
           stage[r] \in {"none", "created"} => stage'[r] \in {"none", "created"}
    PROVE  ScansHold'
<1>1. /\ scan \in [Opt!Runs -> {"none", "queued", "running"} \cup Opt!Final]
      /\ stage \in [Opt!Runs -> Opt!Stages] /\ old \subseteq Opt!Runs /\ asked \subseteq Opt!Runs
  BY DEF ScansHold, Opt!TypeOK
<1>2. \A q \in Opt!Runs : q # r => scan'[q] = scan[q] /\ stage'[q] = stage[q]
  BY <1>1 DEF Moves
<1>3. /\ scan' \in [Opt!Runs -> {"none", "queued", "running"} \cup Opt!Final]
      /\ stage' \in [Opt!Runs -> Opt!Stages]
  BY <1>1 DEF Moves
<1>4. Opt!TypeOK'
  BY <1>1, <1>3 DEF ScansHold, Opt!TypeOK, Moves
<1>5. ScanRel'
  <2>1. scan'[r] # "none" /\ stage'[r] # "none"
    BY DEF Moves, Opt!Final
  <2> QED
    BY <1>1, <1>2, <2>1 DEF ScansHold, ScanRel, Moves
<1>6. Opt!OldRunsAreReconciled'
  BY <1>1, <1>2 DEF ScansHold, Opt!OldRunsAreReconciled, Moves, Opt!Stages
<1> QED
  BY <1>4, <1>5, <1>6 DEF ScansHold

LEMMA ThreadHolds ==
    ASSUME ScansHold, NEW r \in Opt!Runs,
           \/ Opt!StartRun(r) \/ Opt!Begin(r) \/ Opt!Register(r) \/ Opt!Submit(r)
           \/ Opt!Collect(r) \/ Opt!Finalize(r) \/ Opt!Breaks(r) \/ Opt!Fails(r)
           \/ Opt!CancelRead(r) \/ Opt!CancelCommit(r)
    PROVE  ScansHold'
<1>1. /\ scan \in [Opt!Runs -> {"none", "queued", "running"} \cup Opt!Final]
      /\ stage \in [Opt!Runs -> Opt!Stages] /\ old \subseteq Opt!Runs
      /\ event \subseteq Opt!Runs /\ asked \subseteq Opt!Runs
      /\ left \in [Opt!Runs -> 0..Hosts] /\ found \in [Opt!Runs -> SUBSET Findings]
      /\ scanFaults \in 0..MaxScanFaults
  BY DEF ScansHold, Opt!TypeOK
<1>2. r \in old => stage[r] \in {"ended", "lost"}
  BY DEF ScansHold, ScanRel
<1>3. scan[r] = "none" <=> stage[r] = "none"
  BY DEF ScansHold, ScanRel
<1>4. CASE Opt!StartRun(r)
  <2>1. Moves(r) /\ scan'[r] = "queued" /\ stage'[r] = "created"
    BY <1>1, <1>4 DEF Opt!StartRun, Opt!tickets, Moves, Opt!Stages, Opt!Final
  <2>2. stage[r] = "none" /\ UNCHANGED <<event, asked, left, found, scanFaults>>
    BY <1>3, <1>4 DEF Opt!StartRun
  <2> QED
    BY <1>1, <1>2, <2>1, <2>2, MovesHold
<1>5. CASE Opt!Begin(r)
  <2>1. Moves(r) /\ scan'[r] = "running" /\ stage'[r] = "running" /\ stage[r] = "begun"
    BY <1>1, <1>5 DEF Opt!Begin, Opt!tickets, Moves, Opt!Stages, Opt!Final
  <2>2. UNCHANGED <<event, asked, left, found, scanFaults>>
    BY <1>5 DEF Opt!Begin
  <2> QED
    BY <1>1, <1>2, <2>1, <2>2, MovesHold
<1>6. CASE Opt!Register(r) \/ Opt!Submit(r) \/ Opt!Breaks(r)
  <2>1. /\ stage[r] \in {"running", "registered"} /\ UNCHANGED <<scan, event, asked, found>>
        /\ UNCHANGED <<old, spawned, closed, resolved, fix>>
        /\ stage'[r] \in {"registered", "hosts", "lost"} /\ stage' = [stage EXCEPT ![r] = stage'[r]]
    BY <1>1, <1>6 DEF Opt!Register, Opt!Submit, Opt!Breaks, Opt!tickets
  <2>2. scan[r] # "none" /\ scan' = [scan EXCEPT ![r] = scan'[r]]
    BY <1>1, <1>3, <2>1
  <2>3. Moves(r)
    BY <1>1, <2>1, <2>2 DEF Moves, Opt!Stages
  <2>4. left' \in [Opt!Runs -> 0..Hosts]
    BY <1>1, <1>6, ScanBounds DEF Opt!Register, Opt!Submit, Opt!Breaks
  <2>5. scanFaults' \in 0..MaxScanFaults
    BY <1>1, <1>6, FaultType DEF Opt!Register, Opt!Submit, Opt!Breaks, ScansHold
  <2> QED
    BY <1>1, <1>2, <2>1, <2>3, <2>4, <2>5, MovesHold
<1>7. CASE Opt!Collect(r) \/ Opt!Finalize(r) \/ Opt!Fails(r)
  <2>1. /\ stage[r] \in {"registered", "hosts"} /\ UNCHANGED <<event, asked>>
        /\ UNCHANGED <<old, spawned, closed, resolved, fix>>
    BY <1>7 DEF Opt!Collect, Opt!Finalize, Opt!Fails, Opt!tickets
  <2>2. \/ UNCHANGED <<scan, stage>>
        \/ \E s \in Opt!Final : Opt!End(r, s)
    BY <1>7 DEF Opt!Collect, Opt!Finalize, Opt!Fails, Opt!Final
  <2>3. Moves(r) /\ scan'[r] \in Opt!Final \cup {scan[r]} /\ stage'[r] \in {stage[r], "ended"}
    <3>1. CASE UNCHANGED <<scan, stage>>
      BY <1>1, <1>3, <2>1, <3>1 DEF Moves
    <3>2. ASSUME NEW s \in Opt!Final, Opt!End(r, s)
          PROVE  Moves(r) /\ scan'[r] = s /\ stage'[r] = "ended"
      BY <1>1, <2>1, <3>2 DEF Moves, Opt!End, Opt!Stages
    <3> QED
      BY <2>2, <3>1, <3>2
  <2>4. left' \in [Opt!Runs -> 0..Hosts]
    <3>1. CASE left' = [left EXCEPT ![r] = @ - 1] /\ left[r] > 0
      <4>1. left[r] - 1 \in 0..Hosts
        BY <1>1, <3>1, ScanBounds
      <4> QED
        BY <1>1, <3>1, <4>1
    <3>2. CASE UNCHANGED left
      BY <1>1, <3>2
    <3> QED
      BY <1>7, <3>1, <3>2 DEF Opt!Collect, Opt!Finalize, Opt!Fails
  <2>5. found' \in [Opt!Runs -> SUBSET Findings]
    BY <1>1, <1>7 DEF Opt!Collect, Opt!Finalize, Opt!Fails
  <2>6. scanFaults' \in 0..MaxScanFaults
    BY <1>1, <1>7, FaultType DEF Opt!Collect, Opt!Finalize, Opt!Fails, ScansHold
  <2> QED
    BY <1>1, <1>2, <2>1, <2>3, <2>4, <2>5, <2>6, MovesHold DEF Opt!Final
<1>8. CASE Opt!CancelRead(r) \/ Opt!CancelCommit(r)
  <2>1. /\ UNCHANGED <<stage, left, found, scanFaults>>
        /\ UNCHANGED <<old, spawned, closed, resolved, fix>>
        /\ event' \subseteq Opt!Runs /\ asked' \subseteq asked \cup {r} /\ scan[r] # "none"
    BY <1>1, <1>8 DEF Opt!CancelRead, Opt!CancelCommit, Opt!tickets, ScansHold, ScanRel
  <2>2. Moves(r) /\ scan'[r] \in {scan[r], "cancelled"}
    BY <1>1, <1>3, <1>8, <2>1 DEF Opt!CancelRead, Opt!CancelCommit, Moves, Opt!Final, Opt!Stages
  <2> QED
    BY <1>1, <1>2, <2>1, <2>2, MovesHold
<1> QED
  BY <1>4, <1>5, <1>6, <1>7, <1>8

\* One thread cancels what an earlier process has left.
LEMMA ReconcileHolds ==
    ASSUME ScansHold, NEW r \in Opt!Runs, Opt!Reconcile(r)
    PROVE  ScansHold'
<1>1. /\ scan \in [Opt!Runs -> {"none", "queued", "running"} \cup Opt!Final]
      /\ stage \in [Opt!Runs -> Opt!Stages] /\ old \subseteq Opt!Runs /\ asked \subseteq Opt!Runs
  BY DEF ScansHold, Opt!TypeOK
<1>2. /\ UNCHANGED <<event, left, asked, found, old, scanFaults, fix, spawned, closed, resolved>>
      /\ stage[r] = "created" /\ stage' = [stage EXCEPT ![r] = "begun"]
      /\ \A q \in Opt!Runs : scan'[q] = IF scan[q] = "running" THEN "cancelled" ELSE scan[q]
      /\ scan' = [q \in Opt!Runs |-> scan'[q]]
  BY DEF Opt!Reconcile, Opt!Reconciled, Opt!tickets
<1>3. scan' \in [Opt!Runs -> {"none", "queued", "running"} \cup Opt!Final]
  BY <1>1, <1>2 DEF Opt!Final
<1>4. stage' \in [Opt!Runs -> Opt!Stages]
  BY <1>1, <1>2 DEF Opt!Stages
<1>5. Opt!TypeOK'
  BY <1>2, <1>3, <1>4 DEF ScansHold, Opt!TypeOK
<1>6. ScanRel'
  BY <1>1, <1>2 DEF ScansHold, ScanRel
<1>7. Opt!OldRunsAreReconciled'
  BY <1>1, <1>2 DEF Opt!OldRunsAreReconciled
<1> QED
  BY <1>5, <1>6, <1>7 DEF ScansHold

LEMMA RestartHolds ==
    ASSUME ScansHold, Opt!Restart
    PROVE  ScansHold'
<1>1. /\ scan \in [Opt!Runs -> {"none", "queued", "running"} \cup Opt!Final]
      /\ stage \in [Opt!Runs -> Opt!Stages] /\ old \subseteq Opt!Runs
  BY DEF ScansHold, Opt!TypeOK
<1>2. /\ UNCHANGED <<scan, found, fix, spawned, closed, resolved>>
      /\ old' = {r \in Opt!Runs : scan[r] # "none"} /\ event' = {} /\ asked' = {}
      /\ left' = [r \in Opt!Runs |-> 0]
      /\ stage' = [r \in Opt!Runs |-> IF stage[r] \in {"none", "ended"} THEN stage[r] ELSE "lost"]
  BY DEF Opt!Restart, Opt!tickets
<1>3. left' \in [Opt!Runs -> 0..Hosts] /\ scanFaults' \in 0..MaxScanFaults
  BY <1>2, ScanBounds, FaultType DEF Opt!Restart, ScansHold
<1>4. stage' \in [Opt!Runs -> Opt!Stages]
  BY <1>1, <1>2 DEF Opt!Stages
<1>5. Opt!TypeOK'
  BY <1>2, <1>3, <1>4 DEF ScansHold, Opt!TypeOK
<1>6. ScanRel'
  BY <1>1, <1>2 DEF ScansHold, ScanRel
<1>7. Opt!OldRunsAreReconciled'
  BY <1>1, <1>2, <1>6 DEF Opt!OldRunsAreReconciled, ScanRel
<1> QED
  BY <1>5, <1>6, <1>7 DEF ScansHold

\* Findings and their tickets.
LEMMA TicketsHold ==
    ASSUME ScansHold,
           \/ \E r \in Opt!Runs, F \in SUBSET Findings, b \in BOOLEAN : Opt!Optimize(r, F, b)
           \/ \E t \in Opt!Tickets : Opt!CloseTicket(t)
    PROVE  ScansHold'
<1>1. UNCHANGED <<scan, stage, event, left, asked, found, old, scanFaults>>
  BY DEF Opt!Optimize, Opt!CloseTicket
<1>2. /\ fix \in [Opt!Runs -> [Findings -> {Opt!NoTicket} \cup Opt!Tickets]]
      /\ spawned \in 0..MaxTickets /\ closed \subseteq 1..spawned
      /\ resolved \subseteq Opt!Runs \X Findings
  BY DEF ScansHold, Opt!TypeOK
<1>3. /\ fix' \in [Opt!Runs -> [Findings -> {Opt!NoTicket} \cup Opt!Tickets]]
      /\ spawned' \in 0..MaxTickets /\ closed' \subseteq 1..spawned'
      /\ resolved' \subseteq Opt!Runs \X Findings
  <2>1. ASSUME NEW r \in Opt!Runs, NEW F \in SUBSET Findings, NEW b \in BOOLEAN,
               Opt!Optimize(r, F, b)
        PROVE  /\ fix' \in [Opt!Runs -> [Findings -> {Opt!NoTicket} \cup Opt!Tickets]]
               /\ spawned' \in 0..MaxTickets /\ closed' \subseteq 1..spawned'
               /\ resolved' \subseteq Opt!Runs \X Findings
    <3> DEFINE n == IF b THEN 1 ELSE Cardinality(F)
    <3>1. n \in Nat
      BY ScanBounds, FS_Subset, FS_CardinalityType
    <3>0. Opt!Cardinality(F) = Cardinality(F)
      BY DEF Opt!Cardinality, Cardinality
    <3> HIDE DEF n
    <3>2. /\ spawned + n <= MaxTickets /\ spawned' = spawned + n
          /\ \E T \in [F -> spawned + 1 .. spawned + n] :
               /\ b \/ \A f, g \in F : T[f] = T[g] => f = g
               /\ fix' = [fix EXCEPT ![r] = [f \in Findings |-> IF f \in F THEN T[f] ELSE @[f]]]
      BY <2>1, <3>0 DEF Opt!Optimize, n
    <3>3. PICK T \in [F -> spawned + 1 .. spawned + n] :
                fix' = [fix EXCEPT ![r] = [f \in Findings |-> IF f \in F THEN T[f] ELSE fix[r][f]]]
      BY <1>2, <3>2
    <3>7. UNCHANGED <<closed, resolved>>
      BY <2>1 DEF Opt!Optimize
    <3>4. spawned + 1 .. spawned + n \subseteq Opt!Tickets
      BY <1>2, <3>1, <3>2, ScanBounds DEF Opt!Tickets
    <3>5. [f \in Findings |-> IF f \in F THEN T[f] ELSE fix[r][f]]
             \in [Findings -> {Opt!NoTicket} \cup Opt!Tickets]
      BY <1>2, <3>4
    <3>6. fix' \in [Opt!Runs -> [Findings -> {Opt!NoTicket} \cup Opt!Tickets]]
      BY <1>2, <3>3, <3>5
    <3> QED
      BY <1>2, <3>1, <3>2, <3>6, <3>7, ScanBounds
  <2>2. ASSUME NEW t \in Opt!Tickets, Opt!CloseTicket(t)
        PROVE  /\ fix' \in [Opt!Runs -> [Findings -> {Opt!NoTicket} \cup Opt!Tickets]]
               /\ spawned' \in 0..MaxTickets /\ closed' \subseteq 1..spawned'
               /\ resolved' \subseteq Opt!Runs \X Findings
    BY <1>2, <2>2, ScanBounds DEF Opt!CloseTicket, Opt!Resolutions, Opt!Tickets
  <2> QED
    BY <2>1, <2>2
<1>4. Opt!TypeOK'
  BY <1>1, <1>3 DEF ScansHold, Opt!TypeOK
<1> QED
  BY <1>1, <1>4 DEF ScansHold, ScanRel, Opt!OldRunsAreReconciled

LEMMA ScansKeep ==
    ASSUME ScansHold, Opt!Next
    PROVE  ScansHold'
BY ThreadHolds, ReconcileHolds, RestartHolds, TicketsHold DEF Opt!Next, Opt!ThreadStep

LEMMA ScansStart ==
    ASSUME Opt!Init
    PROVE  ScansHold
<1>1. /\ scan = [r \in Opt!Runs |-> "none"] /\ stage = [r \in Opt!Runs |-> "none"]
      /\ event = {} /\ asked = {} /\ left = [r \in Opt!Runs |-> 0]
      /\ found = [r \in Opt!Runs |-> {}]
      /\ fix = [r \in Opt!Runs |-> [f \in Findings |-> Opt!NoTicket]]
      /\ spawned = 0 /\ closed = {} /\ resolved = {} /\ old = {} /\ scanFaults = 0
  BY DEF Opt!Init
<1>2. Opt!TypeOK
  BY <1>1, ScanBounds DEF Opt!TypeOK, Opt!Stages
<1> QED
  BY <1>1, <1>2 DEF ScansHold, ScanRel, Opt!OldRunsAreReconciled

-----------------------------------------------------------------------------
(* Firmware upgrades, by one ticker.                                         *)

Fleets == [Fw!Devices -> [version : {"old", "new"}, up : BOOLEAN]]

\* What a pass keeps between its transactions.
Ticks == {Fw!Away} \cup [pc : {"choose"}, profile : Profiles]
         \cup [pc : {"advance"}, dev : Fw!Devices, row : Fw!Rows]
         \cup [pc : {"escalate"}, dev : Fw!Devices]

UpgradeTypes ==
    /\ fleet \in Fleets
    /\ inv \in [Fw!Devices -> {"old", "new"}] /\ cached \in [Fw!Devices -> BOOLEAN]
    /\ upgrade \in [Fw!Devices -> Fw!Rows] /\ line \in Seq(Fw!Devices)
    /\ items \in Seq(Fw!Items) /\ tick \in [Tickers -> Ticks]
    /\ failed \subseteq Fw!Devices /\ crashes \in 0..MaxCrashes

NoneFlies == line = <<>> /\ \A d \in Fw!Devices : upgrade[d] = Fw!NoRow
Flies(d)  == /\ line = <<d>> /\ d \in Fw!Devices /\ upgrade[d] # Fw!NoRow
             /\ \A x \in Fw!Devices : x # d => upgrade[x] = Fw!NoRow

\* The upgrade that a pass has read is still the only one in flight, and there is none yet
\* while it chooses.
FlightRel(e) ==
    /\ NoneFlies \/ \E d \in Fw!Devices : Flies(d)
    /\ tick[e].pc = "advance" => Flies(tick[e].dev)
    /\ tick[e].pc = "choose" => NoneFlies

\* A failure that no person has reviewed has a pending escalation, or the pass that saw it is
\* about to escalate it.
Escalated(d) == \E i \in DOMAIN items : /\ items[i].kind = "escalation" /\ items[i].dev = d
                                        /\ items[i].status = "pending"
ReviewRel(e) == crashes = 0 => \A d \in failed :
                    Escalated(d) \/ (tick[e].pc = "escalate" /\ tick[e].dev = d)

UpgradesHold(e) == UpgradeTypes /\ FlightRel(e) /\ ReviewRel(e)

\* No upgrade comes to be.
NoneStarts == \A d \in Fw!Devices : upgrade'[d] # Fw!NoRow => upgrade[d] # Fw!NoRow

LEMMA TickParts ==
    ASSUME NEW k \in Ticks
    PROVE  /\ k.pc \in {"away", "choose", "advance", "escalate"}
           /\ k.pc = "away" => k = Fw!Away
           /\ k.pc = "advance" => k.dev \in Fw!Devices /\ k.row \in Fw!Rows
           /\ k.pc = "choose" => k.profile \in Profiles
           /\ k.pc = "escalate" => k.dev \in Fw!Devices
BY DEF Ticks, Fw!Away

LEMMA AwayTick == Fw!Away \in Ticks /\ Fw!Away.pc = "away"
BY DEF Ticks, Fw!Away

LEMMA TickNext ==
    ASSUME UpgradeTypes, NEW e \in Tickers, NEW k \in Ticks, tick' = [tick EXCEPT ![e] = k]
    PROVE  tick' \in [Tickers -> Ticks] /\ tick'[e] = k
BY DEF UpgradeTypes

LEMMA RowParts ==
    /\ Fw!NoRow \in Fw!Rows /\ Fw!NoRow.st = "none" /\ ~Fw!NoRow.begun /\ ~Fw!NoRow.due
    /\ [Fw!NoRow EXCEPT !.st = "staging"] \in Fw!Rows
    /\ [Fw!NoRow EXCEPT !.st = "staging"] # Fw!NoRow
BY DEF Fw!NoRow, Fw!Rows

\* The only upgrade in flight ends.
LEMMA LeavesNone ==
    ASSUME UpgradeTypes, NEW d, Flies(d), Fw!Leaves(d)
    PROVE  NoneFlies' /\ upgrade' \in [Fw!Devices -> Fw!Rows] /\ line' = <<>>
<1>1. line = <<d>> /\ d \in Fw!Devices /\ Len(line) = 1 /\ line[1] = d /\ DOMAIN line = 1..1
  BY DEF Flies
<1>2. line' = <<>>
  <2>1. PICK k \in DOMAIN line :
            line[k] = d /\ line' = SubSeq(line, 1, k - 1) \o SubSeq(line, k + 1, Len(line))
    BY <1>1 DEF Fw!Leaves
  <2>2. k = 1 /\ line \in Seq(Fw!Devices)
    BY <1>1, <2>1
  <2>3. line' = SubSeq(line, 1, 0) \o SubSeq(line, 2, 1)
    BY <1>1, <2>1, <2>2
  <2>4. SubSeq(line, 1, 0) = <<>> /\ SubSeq(line, 2, 1) = <<>>
    BY <2>2, SubSeqProperties, EmptySeq
  <2> QED
    BY <2>3, <2>4
<1>3. upgrade' = [upgrade EXCEPT ![d] = Fw!NoRow]
  BY DEF Fw!Leaves
<1>4. upgrade' \in [Fw!Devices -> Fw!Rows]
  BY <1>3, RowParts DEF UpgradeTypes
<1> QED
  BY <1>1, <1>2, <1>3, <1>4 DEF NoneFlies, Flies, UpgradeTypes

\* The only upgrade in flight goes on.
LEMMA StaysFlying ==
    ASSUME UpgradeTypes, NEW d, Flies(d), NEW r \in Fw!Rows, r # Fw!NoRow,
           upgrade' = [upgrade EXCEPT ![d] = r], line' = line
    PROVE  Flies(d)' /\ upgrade' \in [Fw!Devices -> Fw!Rows]
BY DEF Flies, UpgradeTypes

LEMMA AppendItem ==
    ASSUME items \in Seq(Fw!Items), NEW x \in Fw!Items, items' = Append(items, x)
    PROVE  /\ items' \in Seq(Fw!Items) /\ Len(items') = Len(items) + 1
           /\ items'[Len(items) + 1] = x
           /\ \A i \in DOMAIN items : i \in DOMAIN items' /\ items'[i] = items[i]
           /\ \A d : Escalated(d) => Escalated(d)'
<1>1. /\ items' \in Seq(Fw!Items) /\ Len(items') = Len(items) + 1
      /\ items'[Len(items) + 1] = x
      /\ \A i \in 1..Len(items) : items'[i] = items[i]
  BY AppendProperties
<1>2. DOMAIN items = 1..Len(items) /\ DOMAIN items' = 1..Len(items')
  BY <1>1, LenProperties
<1>3. Len(items) \in Nat
  BY LenProperties
<1>4. \A i \in DOMAIN items : i \in DOMAIN items' /\ items'[i] = items[i]
  BY <1>1, <1>2, <1>3
<1>5. \A d : Escalated(d) => Escalated(d)'
  BY <1>4 DEF Escalated
<1> QED
  BY <1>1, <1>4, <1>5

LEMMA ItemType ==
    ASSUME NEW kind \in {"approval", "escalation"}, NEW d \in Fw!Devices,
           NEW status \in {"pending", "deferred", "approved", "resolved"},
           NEW by \in {"nobody", "system", "person"}
    PROVE  /\ Fw!Item(kind, d, status, by) \in Fw!Items
           /\ Fw!Item(kind, d, status, by).kind = kind /\ Fw!Item(kind, d, status, by).dev = d
           /\ Fw!Item(kind, d, status, by).status = status
BY DEF Fw!Item, Fw!Items

LEMMA SeenType ==
    ASSUME UpgradeTypes
    PROVE  Fw!Seen \in [Fw!Devices -> {"old", "new"}]
BY DEF UpgradeTypes, Fleets, Fw!Seen

\* A pass begins: it reads the upgrade in flight or, when there is none, a profile.
LEMMA BeginHolds ==
    ASSUME NEW e, Tickers = {e}, UpgradesHold(e), Fw!Begin(e)
    PROVE  UpgradesHold(e)' /\ NoneStarts
<1>1. /\ tick[e] = Fw!Away
      /\ UNCHANGED <<fleet, inv, cached, upgrade, line, items, failed, crashes>>
  BY DEF Fw!Begin, Fw!gear
<1>2. PICK k \in Ticks : /\ tick' = [tick EXCEPT ![e] = k]
                         /\ \/ k.pc = "advance" /\ Flies(k.dev)
                            \/ k.pc = "choose" /\ NoneFlies
  <2>1. CASE Fw!ReadInflight(e)
    <3> DEFINE k == [pc |-> "advance", dev |-> Head(line), row |-> upgrade[Head(line)]]
    <3>1. PICK d \in Fw!Devices : Flies(d)
      BY <2>1 DEF Fw!ReadInflight, UpgradesHold, FlightRel, NoneFlies
    <3>2. Head(line) = d
      BY <3>1 DEF Flies
    <3>3. k \in Ticks /\ k.pc = "advance" /\ k.dev = d
      BY <3>1, <3>2 DEF Ticks, UpgradesHold, UpgradeTypes
    <3>4. tick' = [tick EXCEPT ![e] = k]
      BY <2>1 DEF Fw!ReadInflight
    <3> QED
      BY <3>1, <3>3, <3>4
  <2>2. ASSUME line = <<>>, NEW p \in Profiles \ {"off"},
               tick' = [tick EXCEPT ![e] = [pc |-> "choose", profile |-> p]]
        PROVE  \E k \in Ticks : /\ tick' = [tick EXCEPT ![e] = k]
                                /\ \/ k.pc = "advance" /\ Flies(k.dev)
                                   \/ k.pc = "choose" /\ NoneFlies
    <3>1. NoneFlies
      BY <2>2 DEF UpgradesHold, FlightRel, Flies
    <3>2. [pc |-> "choose", profile |-> p] \in Ticks
      BY DEF Ticks
    <3> QED
      BY <2>2, <3>1, <3>2
  <2> QED
    BY <2>1, <2>2 DEF Fw!Begin
<1>3. tick' \in [Tickers -> Ticks] /\ tick'[e] = k
  BY <1>2, TickNext DEF UpgradesHold
<1>4. UpgradeTypes'
  BY <1>1, <1>3 DEF UpgradesHold, UpgradeTypes
<1>5. FlightRel(e)'
  BY <1>1, <1>2, <1>3 DEF UpgradesHold, FlightRel, Flies, NoneFlies
<1>6. ReviewRel(e)'
  BY <1>1, AwayTick DEF UpgradesHold, ReviewRel, Escalated
<1> QED
  BY <1>1, <1>4, <1>5, <1>6 DEF UpgradesHold, NoneStarts

\* What a step does that touches neither the upgrades nor the actions nor the passes.
LEMMA GearHolds ==
    ASSUME NEW e, Tickers = {e}, UpgradesHold(e),
           Fw!Prestage(e) \/ Fw!Refresh \/ \E d \in Fw!Devices : Fw!Device(d)
    PROVE  UpgradesHold(e)' /\ NoneStarts
<1>1. UNCHANGED <<upgrade, line, items, tick, failed, crashes>>
  BY DEF Fw!Prestage, Fw!Refresh, Fw!Device
<1>2. /\ fleet' \in Fleets /\ inv' \in [Fw!Devices -> {"old", "new"}]
      /\ cached' \in [Fw!Devices -> BOOLEAN]
  <2>1. CASE Fw!Prestage(e)
    BY <2>1 DEF Fw!Prestage, UpgradesHold, UpgradeTypes
  <2>2. CASE Fw!Refresh
    BY <2>2, SeenType DEF Fw!Refresh, UpgradesHold, UpgradeTypes
  <2>3. ASSUME NEW d \in Fw!Devices, Fw!Device(d)
        PROVE  fleet' \in Fleets /\ UNCHANGED <<inv, cached>>
    <3>1. PICK v \in {"old", "new"} : fleet' = [fleet EXCEPT ![d] = [version |-> v, up |-> TRUE]]
      BY <2>3 DEF Fw!Device
    <3>2. fleet' \in Fleets
      BY <3>1 DEF UpgradesHold, UpgradeTypes, Fleets
    <3> QED
      BY <2>3, <3>2 DEF Fw!Device
  <2> QED
    BY <2>1, <2>2, <2>3 DEF UpgradesHold, UpgradeTypes
<1>3. UpgradeTypes'
  BY <1>1, <1>2 DEF UpgradesHold, UpgradeTypes
<1>4. FlightRel(e)' /\ ReviewRel(e)'
  BY <1>1 DEF UpgradesHold, FlightRel, ReviewRel, Escalated, Flies, NoneFlies
<1> QED
  BY <1>1, <1>3, <1>4 DEF UpgradesHold, NoneStarts

\* The inventory has been read: the pass starts the first upgrade, only while no failure waits,
\* or asks for its approval.
LEMMA ChooseHolds ==
    ASSUME NEW e, Tickers = {e}, UpgradesHold(e), Fw!Choose(e)
    PROVE  UpgradesHold(e)' /\ (NoneStarts \/ (crashes = 0 => failed = {}))
<1>1. /\ tick[e].pc = "choose" /\ NoneFlies /\ UNCHANGED <<fleet, cached, failed, crashes>>
      /\ inv' = Fw!Seen
  BY DEF Fw!Choose, UpgradesHold, FlightRel
<1>2. tick' = [tick EXCEPT ![e] = Fw!Away]
  BY DEF Fw!Choose
<1>3. tick' \in [Tickers -> Ticks] /\ tick'[e] = Fw!Away
  BY <1>2, AwayTick, TickNext DEF UpgradesHold
<1>4. inv' \in [Fw!Devices -> {"old", "new"}]
  BY <1>1, SeenType DEF UpgradesHold
<1>5. crashes = 0 => \A d \in failed : Escalated(d)
  BY <1>1 DEF UpgradesHold, ReviewRel
<1>6. CASE UNCHANGED <<items, upgrade, line>>
  <2>1. UpgradeTypes'
    BY <1>1, <1>3, <1>4, <1>6 DEF UpgradesHold, UpgradeTypes
  <2>2. FlightRel(e)' /\ ReviewRel(e)'
    BY <1>1, <1>3, <1>5, <1>6, AwayTick DEF FlightRel, ReviewRel, Escalated, NoneFlies
  <2> QED
    BY <1>6, <2>1, <2>2 DEF UpgradesHold, NoneStarts
<1>7. ASSUME NEW d \in Fw!Devices, Fw!IsNext(d, Fw!Seen),
             NEW x \in Fw!Items, items' = Append(items, x),
             \/ UNCHANGED <<upgrade, line>>
             \/ /\ upgrade' = [upgrade EXCEPT ![d] = [Fw!NoRow EXCEPT !.st = "staging"]]
                /\ line' = <<d>> \o line
      PROVE  UpgradesHold(e)' /\ (NoneStarts \/ (crashes = 0 => failed = {}))
  <2>1. items' \in Seq(Fw!Items) /\ \A f : Escalated(f) => Escalated(f)'
    BY <1>7, AppendItem DEF UpgradesHold, UpgradeTypes
  <2>2. ReviewRel(e)'
    BY <1>1, <1>5, <2>1 DEF ReviewRel
  <2>3. crashes = 0 => failed = {}
    BY <1>5, <1>7 DEF Fw!IsNext, Fw!Halted, Escalated
  <2>4. CASE UNCHANGED <<upgrade, line>>
    <3>1. UpgradeTypes'
      BY <1>1, <1>3, <1>4, <2>1, <2>4 DEF UpgradesHold, UpgradeTypes
    <3>2. FlightRel(e)'
      BY <1>1, <1>3, <2>4, AwayTick DEF FlightRel, NoneFlies
    <3> QED
      BY <2>2, <2>3, <3>1, <3>2 DEF UpgradesHold
  <2>5. CASE /\ upgrade' = [upgrade EXCEPT ![d] = [Fw!NoRow EXCEPT !.st = "staging"]]
             /\ line' = <<d>> \o line
    <3>1. line' = <<d>>
      BY <1>1, <2>5 DEF NoneFlies
    <3>2. upgrade' \in [Fw!Devices -> Fw!Rows]
      BY <2>5, RowParts DEF UpgradesHold, UpgradeTypes
    <3>3. Flies(d)'
      BY <1>1, <2>5, <3>1, RowParts DEF Flies, NoneFlies, UpgradesHold, UpgradeTypes
    <3>4. UpgradeTypes'
      BY <1>1, <1>3, <1>4, <2>1, <3>1, <3>2 DEF UpgradesHold, UpgradeTypes
    <3>5. FlightRel(e)'
      BY <1>3, <3>3, AwayTick DEF FlightRel
    <3> QED
      BY <2>2, <2>3, <3>4, <3>5 DEF UpgradesHold
  <2> QED
    BY <1>7, <2>4, <2>5
<1>8. CASE UNCHANGED <<items, upgrade, line>> \/ \E d \in Fw!Devices : Fw!IsNext(d, Fw!Seen)
  <2>1. ASSUME NEW d \in Fw!Devices, Fw!IsNext(d, Fw!Seen),
               \/ /\ items' = Append(items, Fw!Item("approval", d, "approved", "system"))
                  /\ upgrade' = [upgrade EXCEPT ![d] = [Fw!NoRow EXCEPT !.st = "staging"]]
                  /\ line' = <<d>> \o line
               \/ /\ items' = Append(items, Fw!Item("approval", d, "pending", "nobody"))
                  /\ UNCHANGED <<upgrade, line>>
        PROVE  UpgradesHold(e)' /\ (NoneStarts \/ (crashes = 0 => failed = {}))
    BY <1>7, <2>1, ItemType
  <2> QED
    BY <1>6, <2>1 DEF Fw!Choose
<1> QED
  BY <1>6, <1>8 DEF Fw!Choose

\* The four ways an upgrade in flight goes on.
LEMMA AdvanceCases ==
    ASSUME NEW e, Tickers = {e}, UpgradeTypes, Fw!Advance(e)
    PROVE  /\ tick[e].pc = "advance" /\ tick[e].dev \in Fw!Devices /\ UNCHANGED <<items, crashes>>
           /\ fleet' \in Fleets /\ inv' \in [Fw!Devices -> {"old", "new"}]
           /\ cached' \in [Fw!Devices -> BOOLEAN]
           /\ \/ \E r \in Fw!Rows : r # Fw!NoRow /\ Fw!Stays(e, tick[e].dev, r)
              \/ /\ Fw!Leaves(tick[e].dev) /\ tick' = [tick EXCEPT ![e] = Fw!Away]
                 /\ UNCHANGED failed
              \/ Fw!Fails(e, tick[e].dev)
              \/ UNCHANGED <<upgrade, line, failed>> /\ tick' = [tick EXCEPT ![e] = Fw!Away]
<1> DEFINE d == tick[e].dev  r == tick[e].row
<1>1. tick[e].pc = "advance" /\ tick[e] \in Ticks
  BY DEF Fw!Advance, UpgradeTypes
<1>2. d \in Fw!Devices /\ r \in Fw!Rows
  BY <1>1, TickParts
<1>3. /\ UNCHANGED <<items, crashes>>
      /\ \/ Fw!Staging(e, d, r) \/ Fw!Verifying(e, d, r)
         \/ Fw!RollingBack(e, d, r) \/ Fw!Waits(e, d, r)
  BY DEF Fw!Advance
<1> HIDE DEF d, r
<1> DEFINE Typed == /\ fleet' \in Fleets /\ inv' \in [Fw!Devices -> {"old", "new"}]
                    /\ cached' \in [Fw!Devices -> BOOLEAN]
           Goes == \/ \E s \in Fw!Rows : s # Fw!NoRow /\ Fw!Stays(e, d, s)
                   \/ /\ Fw!Leaves(d) /\ tick' = [tick EXCEPT ![e] = Fw!Away] /\ UNCHANGED failed
                   \/ Fw!Fails(e, d)
                   \/ UNCHANGED <<upgrade, line, failed>> /\ tick' = [tick EXCEPT ![e] = Fw!Away]
<1>4. ASSUME Fw!Fails(e, d)
      PROVE  Typed /\ Goes
  BY <1>4 DEF Fw!Fails, Fw!gear, UpgradeTypes
<1>5. ASSUME NEW version \in {"old", "new"}, Fw!Ends(e, d, version)
      PROVE  Typed /\ Goes
  BY <1>2, <1>5 DEF Fw!Ends, UpgradeTypes
<1>6. ASSUME NEW s \in Fw!Rows, s.st \in {"verifying", "rolling_back"}, Fw!Commanded(e, d, s)
      PROVE  Typed /\ Goes
  <2>1. s # Fw!NoRow
    BY <1>6, RowParts
  <2>2. fleet' \in Fleets
    BY <1>2, <1>6 DEF Fw!Commanded, UpgradeTypes, Fleets
  <2>3. UNCHANGED <<inv, cached>> /\ Fw!Stays(e, d, s)
    BY <1>6 DEF Fw!Commanded, Fw!Stays
  <2> QED
    BY <2>1, <2>2, <2>3 DEF UpgradeTypes
<1>7. ASSUME Fw!Staging(e, d, r)
      PROVE  Typed /\ Goes
  <2>1. [r EXCEPT !.begun = TRUE] \in Fw!Rows /\ [r EXCEPT !.begun = TRUE] # Fw!NoRow
    BY <1>2, RowParts DEF Fw!Rows
  <2>2. [r EXCEPT !.st = "verifying", !.due = FALSE] \in Fw!Rows
        /\ [r EXCEPT !.st = "verifying", !.due = FALSE].st = "verifying"
    BY <1>2 DEF Fw!Rows
  <2>3. ASSUME Fw!Stays(e, d, [r EXCEPT !.begun = TRUE]), UNCHANGED fleet,
               cached' = [cached EXCEPT ![d] = TRUE]
        PROVE  Typed /\ Goes
    BY <1>2, <2>1, <2>3 DEF Fw!Stays, UpgradeTypes
  <2> QED
    BY <1>4, <1>6, <1>7, <2>2, <2>3 DEF Fw!Staging
<1>8. ASSUME Fw!Verifying(e, d, r)
      PROVE  Typed /\ Goes
  <2>1. /\ [r EXCEPT !.st = "rolling_back", !.due = FALSE, !.tried = TRUE] \in Fw!Rows
        /\ [r EXCEPT !.st = "rolling_back", !.due = FALSE, !.tried = TRUE].st = "rolling_back"
    BY <1>2 DEF Fw!Rows
  <2> QED
    BY <1>4, <1>5, <1>6, <1>8, <2>1 DEF Fw!Verifying
<1>9. ASSUME Fw!RollingBack(e, d, r)
      PROVE  Typed /\ Goes
  <2>1. inv[d] \in {"old", "new"}
    BY <1>2 DEF UpgradeTypes
  <2> QED
    BY <1>4, <1>5, <1>9, <2>1 DEF Fw!RollingBack
<1>10. ASSUME Fw!Waits(e, d, r)
      PROVE  Typed /\ Goes
  BY <1>10 DEF Fw!Waits, Fw!gear, UpgradeTypes
<1> QED
  BY <1>1, <1>2, <1>3, <1>7, <1>8, <1>9, <1>10 DEF d

LEMMA AdvanceHolds ==
    ASSUME NEW e, Tickers = {e}, UpgradesHold(e), Fw!Advance(e)
    PROVE  UpgradesHold(e)' /\ NoneStarts
<1>1. PICK d \in Fw!Devices :
         /\ tick[e].pc = "advance" /\ tick[e].dev = d /\ UNCHANGED <<items, crashes>>
         /\ fleet' \in Fleets /\ inv' \in [Fw!Devices -> {"old", "new"}]
         /\ cached' \in [Fw!Devices -> BOOLEAN]
         /\ \/ \E r \in Fw!Rows : r # Fw!NoRow /\ Fw!Stays(e, d, r)
            \/ Fw!Leaves(d) /\ tick' = [tick EXCEPT ![e] = Fw!Away] /\ UNCHANGED failed
            \/ Fw!Fails(e, d)
            \/ UNCHANGED <<upgrade, line, failed>> /\ tick' = [tick EXCEPT ![e] = Fw!Away]
  BY AdvanceCases DEF UpgradesHold
<1>2. Flies(d)
  BY <1>1 DEF UpgradesHold, FlightRel
<1>3. \A f : Escalated(f)' <=> Escalated(f)
  BY <1>1 DEF Escalated
<1>4. crashes = 0 => \A f \in failed : Escalated(f)
  BY <1>1 DEF UpgradesHold, ReviewRel
<1>5. ASSUME tick' = [tick EXCEPT ![e] = Fw!Away], UNCHANGED failed,
             upgrade' \in [Fw!Devices -> Fw!Rows], line' \in Seq(Fw!Devices),
             NoneFlies' \/ Flies(d)'
      PROVE  UpgradesHold(e)' /\ NoneStarts
  <2>1. tick' \in [Tickers -> Ticks] /\ tick'[e] = Fw!Away
    BY <1>5, AwayTick, TickNext DEF UpgradesHold
  <2>2. UpgradeTypes'
    BY <1>1, <1>5, <2>1 DEF UpgradesHold, UpgradeTypes
  <2>3. FlightRel(e)' /\ ReviewRel(e)'
    BY <1>1, <1>3, <1>4, <1>5, <2>1, AwayTick DEF FlightRel, ReviewRel
  <2>4. NoneStarts
    BY <1>2, <1>5 DEF NoneStarts, NoneFlies, Flies
  <2> QED
    BY <2>2, <2>3, <2>4 DEF UpgradesHold
<1>6. ASSUME NEW r \in Fw!Rows, r # Fw!NoRow, Fw!Stays(e, d, r)
      PROVE  UpgradesHold(e)' /\ NoneStarts
  <2>1. line' = line
    BY <1>2, <1>6 DEF Fw!Stays, Flies
  <2>2. Flies(d)' /\ upgrade' \in [Fw!Devices -> Fw!Rows]
    BY <1>2, <1>6, <2>1, StaysFlying DEF Fw!Stays, UpgradesHold
  <2>3. line' \in Seq(Fw!Devices)
    BY <2>1 DEF UpgradesHold, UpgradeTypes
  <2> QED
    BY <1>5, <1>6, <2>2, <2>3 DEF Fw!Stays
<1>7. CASE Fw!Leaves(d) /\ tick' = [tick EXCEPT ![e] = Fw!Away] /\ UNCHANGED failed
  <2>1. NoneFlies' /\ upgrade' \in [Fw!Devices -> Fw!Rows] /\ line' = <<>>
    BY <1>2, <1>7, LeavesNone DEF UpgradesHold
  <2> QED
    BY <1>5, <1>7, <2>1
<1>8. CASE Fw!Fails(e, d)
  <2> DEFINE k == [pc |-> "escalate", dev |-> d]
  <2>1. NoneFlies' /\ upgrade' \in [Fw!Devices -> Fw!Rows] /\ line' = <<>>
    BY <1>2, <1>8, LeavesNone DEF UpgradesHold, Fw!Fails
  <2>2. k \in Ticks /\ k.pc = "escalate" /\ k.dev = d
    BY <1>1 DEF Ticks
  <2>3. failed' = failed \cup {d} /\ tick' = [tick EXCEPT ![e] = k]
    BY <1>8 DEF Fw!Fails
  <2> HIDE DEF k
  <2>4. tick' \in [Tickers -> Ticks] /\ tick'[e] = k
    BY <2>2, <2>3, TickNext DEF UpgradesHold
  <2>5. UpgradeTypes'
    BY <1>1, <2>1, <2>3, <2>4 DEF UpgradesHold, UpgradeTypes
  <2>6. FlightRel(e)' /\ ReviewRel(e)'
    BY <1>1, <1>3, <1>4, <2>1, <2>2, <2>3, <2>4 DEF FlightRel, ReviewRel
  <2> QED
    BY <2>1, <2>5, <2>6 DEF UpgradesHold, NoneStarts, NoneFlies
<1>9. CASE UNCHANGED <<upgrade, line, failed>> /\ tick' = [tick EXCEPT ![e] = Fw!Away]
  BY <1>2, <1>5, <1>9 DEF Flies, UpgradesHold, UpgradeTypes
<1> QED
  BY <1>1, <1>6, <1>7, <1>8, <1>9

LEMMA EscalateHolds ==
    ASSUME NEW e, Tickers = {e}, UpgradesHold(e), Fw!Escalate(e)
    PROVE  UpgradesHold(e)' /\ NoneStarts
<1>0. PICK d \in Fw!Devices : tick[e].pc = "escalate" /\ tick[e].dev = d
  BY TickParts DEF Fw!Escalate, UpgradesHold, UpgradeTypes
<1> DEFINE x == Fw!Item("escalation", d, "pending", "nobody")
<1>1. /\ UNCHANGED <<fleet, inv, cached, upgrade, line, failed, crashes>>
      /\ tick' = [tick EXCEPT ![e] = Fw!Away]
      /\ items' = IF Escalated(d) THEN items ELSE Append(items, x)
  BY <1>0 DEF Fw!Escalate, Fw!gear, Escalated
<1>2. x \in Fw!Items /\ x.kind = "escalation" /\ x.dev = d /\ x.status = "pending"
  BY ItemType
<1> HIDE DEF x
<1>3. tick' \in [Tickers -> Ticks] /\ tick'[e] = Fw!Away
  BY <1>1, AwayTick, TickNext DEF UpgradesHold
<1>4. items' \in Seq(Fw!Items) /\ Escalated(d)' /\ \A f : Escalated(f) => Escalated(f)'
  <2>1. CASE Escalated(d)
    BY <1>1, <2>1 DEF Escalated, UpgradesHold, UpgradeTypes
  <2>2. CASE ~Escalated(d)
    <3>1. /\ items' \in Seq(Fw!Items) /\ Len(items') = Len(items) + 1
          /\ items'[Len(items) + 1] = x
          /\ \A f : Escalated(f) => Escalated(f)'
      BY <1>1, <1>2, <2>2, AppendItem DEF UpgradesHold, UpgradeTypes
    <3>2. Len(items) + 1 \in DOMAIN items'
      BY <3>1, LenProperties DEF UpgradesHold, UpgradeTypes
    <3> QED
      BY <1>2, <3>1, <3>2 DEF Escalated
  <2> QED
    BY <2>1, <2>2
<1>5. UpgradeTypes'
  BY <1>1, <1>3, <1>4 DEF UpgradesHold, UpgradeTypes
<1>6. FlightRel(e)'
  BY <1>1, <1>3, AwayTick DEF UpgradesHold, FlightRel, NoneFlies, Flies
<1>7. ReviewRel(e)'
  BY <1>0, <1>1, <1>4 DEF UpgradesHold, ReviewRel
<1> QED
  BY <1>1, <1>5, <1>6, <1>7 DEF UpgradesHold, NoneStarts

\* People change one action: one that is a pending escalation stays so, but when a person has
\* reviewed it.
LEMMA PeopleHold ==
    ASSUME NEW e, Tickers = {e}, UpgradesHold(e), Fw!People
    PROVE  UpgradesHold(e)' /\ NoneStarts
<1>1. PICK i \in DOMAIN items :
         Fw!Approve(i) \/ Fw!Defer(i) \/ Fw!EscalateItem(i) \/ Fw!Resolve(i)
  BY DEF Fw!People
<1>2. items \in Seq(Fw!Items) /\ items[i] \in Fw!Items
  BY <1>1, ElementOfSeq, LenProperties DEF UpgradesHold, UpgradeTypes
<1>3. UNCHANGED <<fleet, inv, cached, upgrade, line, tick, crashes>>
  BY <1>1 DEF Fw!Approve, Fw!Defer, Fw!EscalateItem, Fw!Resolve, Fw!Acts, Fw!gear
<1>4. PICK f \in Fw!Items :
         /\ items' = [items EXCEPT ![i] = f]
         /\ \/ items[i].kind = "approval" /\ UNCHANGED failed
            \/ /\ f.kind = "escalation" /\ f.status = "pending" /\ f.dev = items[i].dev
               /\ UNCHANGED failed
            \/ items[i].kind = "escalation" /\ failed' = failed \ {items[i].dev}
  <2>1. CASE Fw!Approve(i)
    <3>1. [items[i] EXCEPT !.status = "approved", !.by = "person"] \in Fw!Items
      BY <1>2 DEF Fw!Items
    <3> QED
      BY <2>1, <3>1 DEF Fw!Approve, Fw!Acts
  <2>2. CASE Fw!Defer(i)
    <3>1. [items[i] EXCEPT !.status = "deferred"] \in Fw!Items
      BY <1>2 DEF Fw!Items
    <3> QED
      BY <2>2, <3>1 DEF Fw!Defer, Fw!Acts
  <2>3. CASE Fw!EscalateItem(i)
    <3> DEFINE f == [items[i] EXCEPT !.kind = "escalation", !.status = "pending", !.by = "nobody"]
    <3>1. f \in Fw!Items /\ f.kind = "escalation" /\ f.status = "pending" /\ f.dev = items[i].dev
      BY <1>2 DEF Fw!Items
    <3> QED
      BY <2>3, <3>1 DEF Fw!EscalateItem, Fw!Acts
  <2>4. CASE Fw!Resolve(i)
    <3>1. [items[i] EXCEPT !.status = "resolved", !.by = "person"] \in Fw!Items
      BY <1>2 DEF Fw!Items
    <3>2. items[i].kind \in {"approval", "escalation"}
      BY <1>2 DEF Fw!Items
    <3> QED
      BY <2>4, <3>1, <3>2 DEF Fw!Resolve, Fw!Acts
  <2> QED
    BY <1>1, <2>1, <2>2, <2>3, <2>4
<1>5. items' \in Seq(Fw!Items) /\ DOMAIN items' = DOMAIN items
  BY <1>2, <1>4, ExceptSeq
<1>6. items'[i] = f /\ \A j \in DOMAIN items : j # i => items'[j] = items[j]
  BY <1>1, <1>2, <1>4
<1>7. ASSUME NEW d \in failed', Escalated(d)
      PROVE  Escalated(d)'
  <2>1. PICK j \in DOMAIN items : /\ items[j].kind = "escalation" /\ items[j].dev = d
                                  /\ items[j].status = "pending"
    BY <1>7 DEF Escalated
  <2>2. /\ items'[j].kind = "escalation" /\ items'[j].dev = d /\ items'[j].status = "pending"
    BY <1>4, <1>6, <1>7, <2>1
  <2> QED
    BY <1>5, <2>1, <2>2 DEF Escalated
<1>8. failed' \subseteq failed
  BY <1>4
<1>9. UpgradeTypes'
  BY <1>3, <1>5, <1>8 DEF UpgradesHold, UpgradeTypes
<1>10. FlightRel(e)'
  BY <1>3 DEF UpgradesHold, FlightRel, NoneFlies, Flies
<1>11. ReviewRel(e)'
  BY <1>3, <1>7, <1>8 DEF UpgradesHold, ReviewRel
<1> QED
  BY <1>3, <1>9, <1>10, <1>11 DEF UpgradesHold, NoneStarts

LEMMA DeadlineHolds ==
    ASSUME NEW e, Tickers = {e}, UpgradesHold(e), NEW d \in Fw!Devices, Fw!DeadlinePasses(d)
    PROVE  UpgradesHold(e)' /\ NoneStarts
<1> DEFINE r == [upgrade[d] EXCEPT !.due = TRUE]
<1>1. /\ upgrade[d] # Fw!NoRow /\ upgrade' = [upgrade EXCEPT ![d] = r]
      /\ UNCHANGED <<fleet, inv, cached, line, items, tick, failed, crashes>>
  BY DEF Fw!DeadlinePasses, Fw!gear, UpgradesHold, UpgradeTypes
<1>2. r \in Fw!Rows /\ r.due
  BY DEF UpgradesHold, UpgradeTypes, Fw!Rows
<1> HIDE DEF r
<1>3. Flies(d)
  BY <1>1 DEF UpgradesHold, FlightRel, NoneFlies, Flies
<1>4. Flies(d)' /\ upgrade' \in [Fw!Devices -> Fw!Rows]
  BY <1>1, <1>2, <1>3, RowParts, StaysFlying DEF UpgradesHold
<1>5. UpgradeTypes'
  BY <1>1, <1>4 DEF UpgradesHold, UpgradeTypes
<1>6. FlightRel(e)'
  <2>1. tick[e].pc # "choose"
    BY <1>1 DEF UpgradesHold, FlightRel, NoneFlies
  <2>2. tick[e].pc = "advance" => tick[e].dev = d
    BY <1>3 DEF UpgradesHold, FlightRel, Flies
  <2> QED
    BY <1>1, <1>4, <2>1, <2>2 DEF FlightRel
<1>7. ReviewRel(e)'
  BY <1>1 DEF UpgradesHold, ReviewRel, Escalated
<1> QED
  BY <1>3, <1>4, <1>5, <1>6, <1>7 DEF UpgradesHold, NoneStarts, Flies

LEMMA CrashHolds ==
    ASSUME NEW e, Tickers = {e}, UpgradesHold(e), Fw!Crash
    PROVE  UpgradesHold(e)' /\ NoneStarts
<1>1. /\ tick' = [t \in Tickers |-> Fw!Away] /\ crashes < MaxCrashes /\ crashes' = crashes + 1
      /\ UNCHANGED <<fleet, inv, cached, upgrade, line, items, failed>>
  BY DEF Fw!Crash, Fw!gear
<1>2. tick' \in [Tickers -> Ticks] /\ tick'[e].pc = "away"
  BY <1>1, AwayTick
<1>3. crashes' \in 0..MaxCrashes /\ crashes' # 0
  BY <1>1, EnginesAssumption DEF UpgradesHold, UpgradeTypes
<1>4. UpgradeTypes'
  BY <1>1, <1>2, <1>3 DEF UpgradesHold, UpgradeTypes
<1>5. FlightRel(e)' /\ ReviewRel(e)'
  BY <1>1, <1>2, <1>3 DEF UpgradesHold, FlightRel, ReviewRel, NoneFlies, Flies
<1> QED
  BY <1>1, <1>4, <1>5 DEF UpgradesHold, NoneStarts

LEMMA UpgradesKeep ==
    ASSUME NEW e, Tickers = {e}, UpgradesHold(e), Fw!Next
    PROVE  UpgradesHold(e)' /\ (NoneStarts \/ (crashes = 0 => failed = {}))
<1>1. CASE Fw!Pass(e)
  BY <1>1, BeginHolds, GearHolds, ChooseHolds, AdvanceHolds, EscalateHolds DEF Fw!Pass
<1>2. CASE \E d \in Fw!Devices : Fw!Device(d) \/ Fw!DeadlinePasses(d)
  BY <1>2, GearHolds, DeadlineHolds
<1>3. CASE Fw!People \/ Fw!Refresh \/ Fw!Crash
  BY <1>3, PeopleHold, GearHolds, CrashHolds
<1> QED
  BY <1>1, <1>2, <1>3 DEF Fw!Next

LEMMA UpgradesStart ==
    ASSUME NEW e, Tickers = {e}, Fw!Init
    PROVE  UpgradesHold(e)
<1>1. /\ fleet = [d \in Fw!Devices |-> [version |-> "old", up |-> TRUE]]
      /\ inv = [d \in Fw!Devices |-> "old"] /\ cached = [d \in Fw!Devices |-> FALSE]
      /\ upgrade = [d \in Fw!Devices |-> Fw!NoRow] /\ line = <<>> /\ items = <<>>
      /\ tick = [t \in Tickers |-> Fw!Away] /\ failed = {} /\ crashes = 0
  BY DEF Fw!Init
<1>2. UpgradeTypes
  BY <1>1, AwayTick, RowParts, EnginesAssumption DEF UpgradeTypes, Fleets
<1>3. tick[e].pc = "away"
  BY <1>1, AwayTick
<1> QED
  BY <1>1, <1>2, <1>3 DEF UpgradesHold, FlightRel, NoneFlies, ReviewRel

\* What the run checks of the upgrades follows.
LEMMA UpgradesFollow ==
    ASSUME NEW e, UpgradesHold(e)
    PROVE  Fw!TypeOK /\ Fw!OneAtATime
<1>1. CASE NoneFlies
  BY <1>1 DEF UpgradesHold, UpgradeTypes, NoneFlies, Fleets, Fw!TypeOK, Fw!OneAtATime
<1>2. ASSUME NEW d \in Fw!Devices, Flies(d)
      PROVE  Fw!TypeOK /\ Fw!OneAtATime
  <2>1. Len(line) = 1 /\ DOMAIN line = 1..1 /\ line[1] = d
    BY <1>2 DEF Flies
  <2>2. \A x \in Fw!Devices : upgrade[x] # Fw!NoRow <=> \E i \in DOMAIN line : line[i] = x
    BY <1>2, <2>1 DEF Flies
  <2> QED
    BY <2>1, <2>2 DEF UpgradesHold, UpgradeTypes, Fleets, Fw!TypeOK, Fw!OneAtATime
<1> QED
  BY <1>1, <1>2 DEF UpgradesHold, FlightRel

-----------------------------------------------------------------------------
(* The engines together: one of them runs, the others stay as they started.  *)

LEMMA PartsOfNext ==
    ASSUME [Next]_vars
    PROVE  /\ Service!Next \/ UNCHANGED <<up, mon, ep, ticket, poll, pollFaults>>
           /\ Fw!Next \/ UNCHANGED <<fleet, inv, cached, upgrade, line, items, tick, failed,
                                     crashes>>
           /\ Opt!Next \/ UNCHANGED <<scan, stage, event, left, asked, found, fix, spawned, closed,
                                      resolved, old, scanFaults>>
BY DEF Next, vars, fwVars, optVars, serviceVars

LEMMA ServiceTypesHold == Spec => []ServiceTypes
<1>1. ServiceTypes /\ [Next]_vars => ServiceTypes'
  <2> SUFFICES ASSUME ServiceTypes, [Next]_vars PROVE ServiceTypes'
    OBVIOUS
  <2>1. CASE Service!Next
    BY <2>1, ServiceTypesKeep
  <2>2. CASE UNCHANGED <<up, mon, ep, ticket, poll, pollFaults>>
    BY <2>2 DEF ServiceTypes
  <2> QED
    BY <2>1, <2>2, PartsOfNext
<1>2. Init => ServiceTypes
  BY ServiceStarts DEF Init
<1> QED
  BY <1>1, <1>2, PTL DEF Spec

\* Overlapping polls of a service, however many and with whatever faults and changes of the
\* administrator, raise, escalate and end one incident: no second ticket while one is there, and
\* P1 only after P2 (service_checks.py, the unique row of service_check_episodes).
THEOREM ServiceIncidentsAlways == Spec => ServiceIncidents
<1>1. ServiceTypes /\ [Next]_vars => [Service!Incidents!Next]_(Service!Incidents!vars)
  <2> SUFFICES ASSUME ServiceTypes, [Next]_vars
               PROVE  [Service!Incidents!Next]_(Service!Incidents!vars)
    OBVIOUS
  <2>1. CASE Service!Next
    BY <2>1, ServiceTypesKeep, IncidentGoesOn DEF ServiceTypes
  <2>2. CASE UNCHANGED <<up, mon, ep, ticket, poll, pollFaults>>
    <3>1. UNCHANGED Service!Level
      BY <2>2 DEF Service!Level
    <3> QED
      BY <2>2, <3>1 DEF Service!Incidents!vars
  <2> QED
    BY <2>1, <2>2, PartsOfNext
<1>2. Init => Service!Incidents!Init
  BY ServiceStarts DEF Init
<1> QED
  BY <1>1, <1>2, ServiceTypesHold, PTL DEF Spec, ServiceIncidents, Service!ServiceIncidents,
                                           Service!Incidents!Spec

LEMMA UpgradesHoldAlways ==
    ASSUME NEW e, Tickers = {e}
    PROVE  Spec => []UpgradesHold(e)
<1>1. UpgradesHold(e) /\ [Next]_vars => UpgradesHold(e)'
  <2> SUFFICES ASSUME UpgradesHold(e), [Next]_vars PROVE UpgradesHold(e)'
    OBVIOUS
  <2>1. CASE Fw!Next
    BY <2>1, UpgradesKeep
  <2>2. CASE UNCHANGED <<fleet, inv, cached, upgrade, line, items, tick, failed, crashes>>
    BY <2>2 DEF UpgradesHold, UpgradeTypes, FlightRel, ReviewRel, Flies, NoneFlies, Escalated
  <2> QED
    BY <2>1, <2>2, PartsOfNext
<1>2. Init => UpgradesHold(e)
  BY UpgradesStart DEF Init
<1> QED
  BY <1>1, <1>2, PTL DEF Spec

\* With one session that runs engine_tick (firmware.py: the API's thread), no upgrade is started
\* while a failure waits for a person's review, unless the API was restarted between recording
\* the failure and escalating it.
THEOREM FailureHaltsAlways ==
    ASSUME NEW e, Tickers = {e}
    PROVE  Spec => FailureHalts
<1>1. UpgradesHold(e) /\ [Next]_vars =>
          [\A d \in Fw!Devices : Fw!Starts(d) /\ crashes = 0 => failed = {}]_(Fw!vars)
  <2> SUFFICES ASSUME UpgradesHold(e), [Next]_vars
               PROVE  [\A d \in Fw!Devices : Fw!Starts(d) /\ crashes = 0 => failed = {}]_(Fw!vars)
    OBVIOUS
  <2>1. CASE Fw!Next
    BY <2>1, UpgradesKeep DEF NoneStarts, Fw!Starts
  <2>2. CASE UNCHANGED <<fleet, inv, cached, upgrade, line, items, tick, failed, crashes>>
    BY <2>2 DEF Fw!vars, Fw!gear
  <2> QED
    BY <2>1, <2>2, PartsOfNext
<1> QED
  BY <1>1, UpgradesHoldAlways, PTL DEF Spec, FailureHalts, Fw!FailureHalts

LEMMA ScansHoldAlways == Spec => []ScansHold
<1>1. ScansHold /\ [Next]_vars => ScansHold'
  <2> SUFFICES ASSUME ScansHold, [Next]_vars PROVE ScansHold'
    OBVIOUS
  <2>1. CASE Opt!Next
    BY <2>1, ScansKeep
  <2>2. CASE UNCHANGED <<scan, stage, event, left, asked, found, fix, spawned, closed, resolved,
                         old, scanFaults>>
    BY <2>2 DEF ScansHold, ScanRel, Opt!TypeOK, Opt!OldRunsAreReconciled
  <2> QED
    BY <2>1, <2>2, PartsOfNext
<1>2. Init => ScansHold
  BY ScansStart DEF Init
<1> QED
  BY <1>1, <1>2, PTL DEF Spec

LEMMA ServiceRelHolds == OverlapIsShort => (Spec => []ServiceRel)
<1> SUFFICES ASSUME OverlapIsShort PROVE Spec => []ServiceRel
  OBVIOUS
<1>1. ServiceTypes /\ ServiceRel /\ [Next]_vars => ServiceRel'
  <2> SUFFICES ASSUME ServiceTypes, ServiceRel, [Next]_vars PROVE ServiceRel'
    OBVIOUS
  <2>1. CASE Service!Next
    BY <2>1, ServiceRelKeeps
  <2>2. CASE UNCHANGED <<up, mon, ep, ticket, poll, pollFaults>>
    BY <2>2 DEF ServiceRel, HasEpisode, MayOpen, Blank
  <2> QED
    BY <2>1, <2>2, PartsOfNext
<1>2. Init => ServiceRel
  BY ServiceRelStarts DEF Init
<1> QED
  BY <1>1, <1>2, ServiceTypesHold, PTL DEF Spec

\* Of upgrades by one ticker, scans that a restart has lost, and polls of a service that overlap
\* a little: one device at a time, no row of an earlier process left running, and no open ticket
\* without the episode that closes it.
THEOREM EnginesHoldAlways ==
    ASSUME NEW e, Tickers = {e}, OverlapIsShort
    PROVE  Spec => []EnginesHold
<1>1. UpgradesHold(e) /\ ScansHold /\ ServiceTypes /\ ServiceRel => EnginesHold
  BY UpgradesFollow, ServiceFollows DEF ScansHold, EnginesHold
<1>2. Spec => []ServiceRel
  BY ServiceRelHolds
<1> QED
  BY <1>1, <1>2, UpgradesHoldAlways, ScansHoldAlways, ServiceTypesHold, PTL

=============================================================================
