----------------------------- MODULE Telemetry -----------------------------
(***************************************************************************)
(* Telemetry: the engine that polls counters and gauges and turns counters *)
(* into rates (telemetry.py).  What becomes of the samples that it writes  *)
(* is in MetricsStore.                                                     *)
(*                                                                         *)
(* Two channels stand for four: "unifi" reads the counters, over the        *)
(* long-lived session, and "ping" gauges only.  SNMP reads counters like    *)
(* the one and fails device by device like the other.  A time is a number   *)
(* of ticks; a rate is kept as the fraction it is computed from.            *)
(***************************************************************************)
EXTENDS Integers, FiniteSets, FiniteSetsExt

CONSTANTS
    Interfaces,     \* ifindex or port_idx: naturals, polled in their order
    NameOf,         \* the metric each one is stored under (normalised name or port number)
    Line,           \* what an interface can carry in one tick
    Width,          \* its counter counts modulo this
    MaxLag,         \* ticks from the reading of the values to their time stamp
    MaxTime, MaxBack, MaxUpsets    \* bounds: ticks, steps back of the clock, what goes wrong

VARIABLES
    now,        \* the appliance's clock
    octets,     \* the counters in the devices
    prev,       \* _COUNTER_PREV
    at,         \* the loop: asleep, or the channel it looks at
    woke,       \* `now` of _engine_loop
    last,       \* when each channel was polled
    read,       \* the values of the poll under way and when they were read
    written,    \* the samples of the last poll that were written
    session,    \* _UNIFI: the password of the client that is kept, and whether it is logged in
    saved,      \* UNIFI_PASSWORD in .env
    account,    \* the password the controller knows
    back, upsets

clockVars   == <<now, octets, back>>
loopVars    == <<at, woke, last, read>>
sessionVars == <<session, saved, account>>
vars        == <<clockVars, prev, loopVars, written, sessionVars, upsets>>

Channels == {"unifi", "ping"}
Interval == [unifi |-> 1, ping |-> 2]
Metrics  == {NameOf[i] : i \in Interfaces}
None     == [none |-> TRUE]
Gauge    == "reachable"

TypeOK ==
    /\ now \in 0..MaxTime /\ back \in 0..MaxBack /\ upsets \in 0..MaxUpsets
    /\ octets \in [Interfaces -> 0..Width - 1]
    /\ prev \in [Metrics -> {None} \cup [ts : 0..MaxTime, raw : 0..Width - 1]]
    /\ at \in {"sleep", "unifi", "ping"} /\ woke \in 0..MaxTime
    /\ last \in [Channels -> -2..MaxTime]
    /\ read = None \/ (read.of \subseteq Interfaces /\ read.at \in 0..MaxTime)
    /\ \A r \in written : r.metric \in Metrics \cup {Gauge} /\ r.ts \in 0..MaxTime
    /\ session.password \in {0, 1, 2} /\ session.in \in BOOLEAN
    /\ saved \in {1, 2} /\ account \in {1, 2}

-----------------------------------------------------------------------------
(* Rates and samples.                                                        *)

\* Read in both polls, forward in time, and not rolled over.
Comparable(p, c) == p # None /\ c.ts > p.ts /\ c.raw >= p.raw

Rate(metric, p, c) == [metric |-> metric, ts |-> c.ts, num |-> c.raw - p.raw, den |-> c.ts - p.ts]

\* Of interfaces under one name the last one's value stays.
Current(got) ==
    [m \in {NameOf[i] : i \in got.of} |->
        [ts |-> now, raw |-> got.values[Max({i \in got.of : NameOf[i] = m})]]]

\* Mutant: a first or a reset counter counts from zero.
compute_counter_rates_FromZero(curr) ==
    {Rate(m, IF prev[m] = None THEN [ts |-> now - 1, raw |-> 0] ELSE prev[m], curr[m]) :
        m \in {x \in DOMAIN curr : Comparable(IF prev[x] = None THEN [ts |-> now - 1, raw |-> 0]
                                              ELSE prev[x], curr[x])}}

compute_counter_rates(curr) ==
    {Rate(m, prev[m], curr[m]) : m \in {x \in DOMAIN curr : Comparable(prev[x], curr[x])}}

-----------------------------------------------------------------------------

Init ==
    /\ now = 0 /\ back = 0 /\ upsets = 0
    /\ octets \in [Interfaces -> 0..Width - 1]
    /\ prev = [m \in Metrics |-> None]
    /\ at = "sleep" /\ woke = 0 /\ last = [c \in Channels |-> -2] /\ read = None
    /\ written = {}
    /\ session = [password |-> 0, in |-> FALSE] /\ saved = 1 /\ account = 1

\* Time passes and the interfaces carry something.
Tick ==
    /\ now < MaxTime
    /\ read # None => now - read.at < MaxLag
    /\ now' = now + 1
    /\ \E n \in [Interfaces -> 0..Line] :
          octets' = [i \in Interfaces |-> (octets[i] + n[i]) % Width]
    /\ UNCHANGED <<back, prev, loopVars, written, sessionVars, upsets>>

\* A device starts again: its counters begin at zero.
DeviceReboot ==
    /\ upsets < MaxUpsets /\ upsets' = upsets + 1
    /\ octets # [i \in Interfaces |-> 0]
    /\ octets' = [i \in Interfaces |-> 0]
    /\ UNCHANGED <<now, back, prev, loopVars, written, sessionVars>>

\* The clock is set back.
ClockBack ==
    /\ back < MaxBack /\ back' = back + 1
    /\ read = None
    /\ \E t \in 0..now - 1 : now' = t
    /\ UNCHANGED <<octets, prev, loopVars, written, sessionVars, upsets>>

\* The API restarts: what is in memory is gone.
Restart ==
    /\ upsets < MaxUpsets /\ upsets' = upsets + 1
    /\ prev' = [m \in Metrics |-> None]
    /\ at' = "sleep" /\ last' = [c \in Channels |-> -2] /\ read' = None /\ UNCHANGED woke
    /\ session' = [password |-> 0, in |-> FALSE]
    /\ UNCHANGED <<clockVars, written, saved, account>>

-----------------------------------------------------------------------------
(* _engine_loop.                                                             *)

After(c) == IF c = "unifi" THEN "ping" ELSE "sleep"

Wake ==
    /\ at = "sleep"
    /\ at' = "unifi" /\ woke' = now
    /\ UNCHANGED <<clockVars, prev, last, read, written, sessionVars, upsets>>

Due(c) == woke - last[c] >= Interval[c]

NotDue ==
    /\ at \in Channels /\ read = None /\ ~Due(at)
    /\ at' = After(at)
    /\ UNCHANGED <<clockVars, prev, woke, last, read, written, sessionVars, upsets>>

\* _unifi_client: one client is kept as long as the address is the same, whatever password the
\* file has by now.
Client == IF session.password = 0 THEN [session EXCEPT !.password = saved] ELSE session
LoggedIn == Client.in \/ Client.password = account

\* The values come, of all interfaces or, when the walk breaks off, of some; or the login or the
\* request fails, and the poll is an empty one.
ReadUnifi ==
    /\ at = "unifi" /\ read = None /\ Due(at)
    /\ \/ /\ LoggedIn /\ Client.password = account
          /\ \E some \in SUBSET Interfaces :
                read' = [of |-> some, values |-> octets, at |-> now]
          /\ session' = [Client EXCEPT !.in = TRUE]
       \/ /\ read' = [of |-> {}, values |-> octets, at |-> now]
          /\ session' = [Client EXCEPT !.in = FALSE]
    /\ UNCHANGED <<clockVars, prev, at, woke, last, written, saved, account, upsets>>

ReadPing ==
    /\ at = "ping" /\ read = None /\ Due(at)
    /\ read' = [of |-> {}, values |-> octets, at |-> now]
    /\ UNCHANGED <<clockVars, prev, at, woke, last, written, sessionVars, upsets>>

Samples ==
    compute_counter_rates(Current(read))
        \cup (IF at = "ping" THEN {[metric |-> Gauge, ts |-> now, num |-> 1, den |-> 1]} ELSE {})

\* _persist: the new values are kept first, then the samples are written.
Persist ==
    /\ read # None
    /\ prev' = [m \in Metrics |->
                   IF m \in DOMAIN Current(read) THEN Current(read)[m] ELSE prev[m]]
    /\ written' = Samples
    /\ last' = [last EXCEPT ![at] = woke]
    /\ at' = After(at) /\ read' = None
    /\ UNCHANGED <<clockVars, woke, sessionVars, upsets>>

\* The commit raises: the samples are lost and so is the rest of the cycle.
PersistFails ==
    /\ read # None /\ upsets < MaxUpsets /\ upsets' = upsets + 1
    /\ prev' = [m \in Metrics |->
                   IF m \in DOMAIN Current(read) THEN Current(read)[m] ELSE prev[m]]
    /\ at' = "sleep" /\ read' = None
    /\ UNCHANGED <<clockVars, woke, last, written, sessionVars>>

-----------------------------------------------------------------------------
(* The settings.                                                             *)

\* The password is changed at the controller, and the settings follow.
ChangePassword ==
    /\ account = 1 /\ upsets < MaxUpsets /\ upsets' = upsets + 1
    /\ account' = 2
    /\ UNCHANGED <<clockVars, prev, loopVars, written, session, saved>>

SavePassword ==
    /\ saved # account
    /\ saved' = account
    /\ UNCHANGED <<clockVars, prev, loopVars, written, session, account, upsets>>

Engine == Wake \/ NotDue \/ ReadUnifi \/ ReadPing \/ Persist

Next ==
    \/ Tick \/ DeviceReboot \/ ClockBack \/ Restart
    \/ Engine \/ PersistFails
    \/ ChangePassword \/ SavePassword

Spec == Init /\ [][Next]_vars

-----------------------------------------------------------------------------

\* No sample shows a rate that the interface could not have had, whatever wrapped, was reset,
\* restarted, was missed or lost between two polls.  What the time stamps lag behind the values
\* is allowed for.  ("no bogus spike", telemetry.py:158.)
\* It fails when the clock is set back, and when two interfaces normalise to one name and a walk
\* breaks off between them.
NoBogusSpike ==
    \A r \in written :
        r.den > 0 /\ 0 <= r.num /\ (r.metric = Gauge \/ r.num <= Line * (r.den + MaxLag))

\* Once the settings have the controller's password, the engine does not poll with another one.
\* Refuted: the client is kept until the address changes or the API restarts.
PollsWithSaved ==
    [][read = None /\ read' # None /\ at = "unifi" /\ saved = account /\ session.password # 0
          => session.password = saved]_vars

=============================================================================
