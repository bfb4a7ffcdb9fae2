---------------------------- MODULE MetricsProofs ----------------------------
(***************************************************************************)
(* Telemetry and its store, for any number of ticks, days, devices, rows   *)
(* and faults: the rates that Telemetry computes, and what MetricsStore    *)
(* keeps and shows of the samples.                                         *)
(***************************************************************************)
EXTENDS MCAppliance, FiniteSetTheorems, WellFoundedInduction, TLAPS


-----------------------------------------------------------------------------
(* Telemetry: the rates that polls of the counters give.                     *)

\* Every interface is stored under a name of its own.
NamesDiffer == \A i, j \in Interfaces : NameOf[i] = NameOf[j] => i = j

Octets   == [Interfaces -> 0..Width - 1]
Counters == [ts : 0..MaxTicks, raw : 0..Width - 1]
Reads    == [of : SUBSET Interfaces, values : Octets, at : 0..MaxTicks]

EngineTypes ==
    /\ now \in 0..MaxTicks /\ back \in 0..0 /\ upsets \in 0..MaxUpsets
    /\ octets \in Octets
    /\ prev \in [Engine!Metrics -> {Engine!None} \cup Counters]
    /\ at \in {"sleep", "unifi", "ping"} /\ woke \in 0..MaxTicks
    /\ last \in [Engine!Channels -> -2..MaxTicks]
    /\ read \in {Engine!None} \cup Reads
    /\ \A r \in written : r.metric \in Engine!Metrics \cup {Engine!Gauge} /\ r.ts \in 0..MaxTicks
    /\ session \in [password : {0, 1, 2}, in : BOOLEAN]
    /\ password \in {1, 2} /\ account \in {1, 2}

\* What an interface carries in n ticks.
Carried(n) == Line * n

\* A counter is ahead of a value kept of it by what the line carries from when it was read, which
\* is MaxLag before its time stamp at most: wrapping and restarting only take away.
KeptIsRecent ==
    \A i \in Interfaces : LET p == prev[NameOf[i]] IN
        p # Engine!None => /\ p.ts <= now
                           /\ octets[i] <= p.raw + Carried(now - p.ts + MaxLag)

\* The same of the values that a poll has read, and of them against those kept before.
ReadIsRecent ==
    read # Engine!None =>
        /\ read.at <= now /\ now <= read.at + MaxLag
        /\ \A i \in Interfaces :
             /\ octets[i] <= read.values[i] + Carried(now - read.at)
             /\ prev[NameOf[i]] # Engine!None =>
                  /\ prev[NameOf[i]].ts <= read.at
                  /\ read.values[i]
                        <= prev[NameOf[i]].raw + Carried(read.at - prev[NameOf[i]].ts + MaxLag)

EngineInv == EngineTypes /\ KeptIsRecent /\ ReadIsRecent /\ Engine!NoBogusSpike

LEMMA EngineBounds ==
    /\ Line \in Nat /\ MaxTicks \in Nat /\ MaxLag \in Nat /\ MaxUpsets \in Nat
    /\ Interfaces \subseteq Nat /\ Width \in Nat \ {0}
BY ApplianceAssumption

LEMMA CarriedMore ==
    ASSUME NEW m \in Int, NEW n \in Int, m <= n
    PROVE  /\ Carried(m) <= Carried(n) /\ Carried(m) \in Int /\ Carried(n) \in Int
           /\ Carried(n + 1) = Carried(n) + Line
           /\ Carried(m) + Carried(n) = Carried(m + n)
BY EngineBounds DEF Carried

LEMMA NoneParts ==
    Engine!None \notin Counters /\ Engine!None \notin Reads
BY DEF Engine!None, Counters, Reads

LEMMA MetricOf == \A i \in Interfaces : NameOf[i] \in Engine!Metrics
BY DEF Engine!Metrics

LEMMA EngineStarts ==
    ASSUME Engine!Init
    PROVE  EngineInv
<1>1. /\ now = 0 /\ back = 0 /\ upsets = 0 /\ octets \in Octets
      /\ prev = [m \in Engine!Metrics |-> Engine!None]
      /\ at = "sleep" /\ woke = 0 /\ last = [c \in Engine!Channels |-> -2] /\ read = Engine!None
      /\ written = {} /\ session = [password |-> 0, in |-> FALSE] /\ password = 1 /\ account = 1
  BY DEF Engine!Init, Octets
<1>2. EngineTypes
  BY <1>1, EngineBounds DEF EngineTypes
<1>3. KeptIsRecent /\ ReadIsRecent /\ Engine!NoBogusSpike
  BY <1>1, MetricOf DEF KeptIsRecent, ReadIsRecent, Engine!NoBogusSpike
<1> QED
  BY <1>2, <1>3 DEF EngineInv

LEMMA Wrapped ==
    ASSUME NEW a \in Nat, NEW w \in Nat \ {0}
    PROVE  a % w \in 0..w - 1 /\ a % w <= a
OBVIOUS

\* The counters go on, wrap or begin again.
LEMMA CountersGoOn ==
    ASSUME EngineInv, Engine!Tick \/ Engine!DeviceReboot
    PROVE  EngineInv'
<1>1. /\ now \in 0..MaxTicks /\ octets \in Octets /\ back = 0 /\ upsets \in 0..MaxUpsets
      /\ UNCHANGED <<back, prev, at, woke, last, read, written, session, password, account>>
  BY DEF EngineInv, EngineTypes, Engine!Tick, Engine!DeviceReboot, Engine!loopVars,
         Engine!sessionVars
<1>2. /\ now' \in 0..MaxTicks /\ now' \in {now, now + 1} /\ upsets' \in 0..MaxUpsets
      /\ octets' \in Octets
      /\ \A i \in Interfaces : octets'[i] <= octets[i] + Carried(now' - now)
      /\ read # Engine!None => now' <= read.at + MaxLag
  <2>1. CASE Engine!Tick
    <3>1. PICK n \in [Interfaces -> 0..Line] :
              octets' = [i \in Interfaces |-> (octets[i] + n[i]) % Width]
      BY <2>1 DEF Engine!Tick
    <3>2. \A i \in Interfaces : octets'[i] \in 0..Width - 1 /\ octets'[i] <= octets[i] + Line
      <4>1. ASSUME NEW i \in Interfaces
            PROVE  /\ (octets[i] + n[i]) % Width \in 0..Width - 1
                   /\ (octets[i] + n[i]) % Width <= octets[i] + Line
        <5>1. octets[i] \in Nat /\ n[i] \in Nat /\ n[i] <= Line
          BY <1>1, EngineBounds DEF Octets
        <5>2. octets[i] + n[i] \in Nat /\ Width \in Nat \ {0}
          BY <5>1, EngineBounds
        <5> DEFINE a == octets[i] + n[i]
        <5>3. a % Width \in 0..Width - 1 /\ a % Width <= a
          BY <5>2, Wrapped
        <5> QED
          BY <5>1, <5>3, EngineBounds
      <4> QED
        BY <3>1, <4>1
    <3>3. now' = now + 1 /\ now < MaxTicks /\ UNCHANGED upsets
          /\ (read # Engine!None => now - read.at < MaxLag)
      BY <2>1 DEF Engine!Tick
    <3>4. octets' \in Octets
      BY <3>1, <3>2 DEF Octets
    <3>5. Carried(now' - now) = Line
      BY <1>1, <3>3, EngineBounds DEF Carried
    <3>6. read # Engine!None => read.at \in Int
      BY DEF EngineInv, EngineTypes, Reads
    <3> QED
      BY <1>1, <3>2, <3>3, <3>4, <3>5, <3>6, EngineBounds
  <2>2. CASE Engine!DeviceReboot
    <3>1. octets' = [i \in Interfaces |-> 0] /\ UNCHANGED now /\ upsets < MaxUpsets
          /\ upsets' = upsets + 1
      BY <2>2 DEF Engine!DeviceReboot
    <3>2. octets' \in Octets /\ \A i \in Interfaces : octets'[i] = 0 /\ octets[i] \in Nat
      BY <1>1, <3>1, EngineBounds DEF Octets
    <3>3. Carried(now' - now) = 0
      BY <1>1, <3>1, EngineBounds DEF Carried
    <3> QED
      BY <1>1, <3>1, <3>2, <3>3, EngineBounds DEF EngineInv, ReadIsRecent
  <2> QED
    BY <2>1, <2>2
<1>3. EngineTypes'
  BY <1>1, <1>2 DEF EngineInv, EngineTypes
<1>4. ASSUME NEW v \in Int, NEW n \in Int, NEW i \in Interfaces, octets[i] <= v + Carried(n)
      PROVE  octets'[i] <= v + Carried(n + (now' - now))
  <2>1. now' - now \in Int /\ octets[i] \in Int /\ octets'[i] \in Int
    BY <1>1, <1>2, EngineBounds DEF Octets
  <2>2. /\ Carried(n + (now' - now)) = Carried(n) + Carried(now' - now)
        /\ Carried(n) \in Int /\ Carried(now' - now) \in Int
    BY <2>1, EngineBounds DEF Carried
  <2> QED
    BY <1>2, <1>4, <2>1, <2>2
<1>5. KeptIsRecent'
  <2>1. ASSUME NEW i \in Interfaces, prev[NameOf[i]] # Engine!None
        PROVE  /\ prev[NameOf[i]].ts <= now'
               /\ octets'[i] <= prev[NameOf[i]].raw + Carried(now' - prev[NameOf[i]].ts + MaxLag)
    <3>1. prev[NameOf[i]].ts \in Int /\ prev[NameOf[i]].raw \in Int
      BY <2>1, MetricOf, EngineBounds DEF EngineInv, EngineTypes, Counters
    <3>2. /\ prev[NameOf[i]].ts <= now
          /\ octets[i] <= prev[NameOf[i]].raw + Carried(now - prev[NameOf[i]].ts + MaxLag)
      BY <2>1 DEF EngineInv, KeptIsRecent
    <3> DEFINE n == now - prev[NameOf[i]].ts + MaxLag
    <3>3. n \in Int /\ n + (now' - now) = now' - prev[NameOf[i]].ts + MaxLag
      BY <1>1, <1>2, <3>1, EngineBounds
    <3>4. octets'[i] <= prev[NameOf[i]].raw + Carried(n + (now' - now))
      BY <1>4, <3>1, <3>2, <3>3
    <3>5. prev[NameOf[i]].ts <= now'
      BY <1>1, <1>2, <3>1, <3>2
    <3> QED
      BY <3>3, <3>4, <3>5
  <2> QED
    BY <1>1, <2>1 DEF KeptIsRecent
<1>6. ReadIsRecent'
  <2>1. ASSUME read # Engine!None
        PROVE  /\ read.at <= now' /\ now' <= read.at + MaxLag
               /\ \A i \in Interfaces : octets'[i] <= read.values[i] + Carried(now' - read.at)
    <3>1. read.at \in Int /\ \A i \in Interfaces : read.values[i] \in Int
      BY <2>1, EngineBounds DEF EngineInv, EngineTypes, Reads, Octets
    <3>2. /\ read.at <= now
          /\ \A i \in Interfaces : octets[i] <= read.values[i] + Carried(now - read.at)
      BY <2>1 DEF EngineInv, ReadIsRecent
    <3>3. now - read.at \in Int /\ (now - read.at) + (now' - now) = now' - read.at
      BY <1>1, <1>2, <3>1
    <3>4. \A i \in Interfaces :
            octets'[i] <= read.values[i] + Carried((now - read.at) + (now' - now))
      BY <1>4, <3>1, <3>2, <3>3
    <3>5. read.at <= now' /\ now' <= read.at + MaxLag
      BY <1>1, <1>2, <2>1, <3>1, <3>2
    <3> QED
      BY <3>3, <3>4, <3>5
  <2> QED
    BY <1>1, <2>1 DEF EngineInv, ReadIsRecent
<1>7. Engine!NoBogusSpike'
  BY <1>1 DEF EngineInv, Engine!NoBogusSpike
<1> QED
  BY <1>3, <1>5, <1>6, <1>7 DEF EngineInv

\* A poll reads the values; of those it keeps it has not read one before.
LEMMA ReadKeeps ==
    ASSUME EngineInv, Engine!ReadUnifi \/ Engine!ReadPing
    PROVE  EngineInv'
<1>1. /\ read = Engine!None /\ now \in 0..MaxTicks /\ octets \in Octets
      /\ UNCHANGED <<now, octets, back, prev, at, woke, last, written, password, account, upsets>>
  BY DEF EngineInv, EngineTypes, Engine!ReadUnifi, Engine!ReadPing, Engine!clockVars,
         Engine!sessionVars
<1>2. PICK some \in SUBSET Interfaces : read' = [of |-> some, values |-> octets, at |-> now]
  BY DEF Engine!ReadUnifi, Engine!ReadPing
<1>3. session' \in [password : {0, 1, 2}, in : BOOLEAN]
  <2>1. Engine!Client \in [password : {0, 1, 2}, in : BOOLEAN]
    BY DEF EngineInv, EngineTypes, Engine!Client
  <2>2. [Engine!Client EXCEPT !.in = TRUE] \in [password : {0, 1, 2}, in : BOOLEAN]
        /\ [Engine!Client EXCEPT !.in = FALSE] \in [password : {0, 1, 2}, in : BOOLEAN]
    BY <2>1
  <2>3. \/ session' \in {[Engine!Client EXCEPT !.in = TRUE], [Engine!Client EXCEPT !.in = FALSE]}
        \/ session' = session
    BY DEF Engine!ReadUnifi, Engine!ReadPing, Engine!sessionVars
  <2> QED
    BY <2>2, <2>3 DEF EngineInv, EngineTypes
<1>4. read' \in Reads /\ read'.at = now /\ read'.values = octets
  BY <1>1, <1>2 DEF Reads
<1>5. EngineTypes'
  BY <1>1, <1>3, <1>4 DEF EngineInv, EngineTypes
<1>6. KeptIsRecent' /\ Engine!NoBogusSpike'
  BY <1>1 DEF EngineInv, KeptIsRecent, Engine!NoBogusSpike
<1>7. ReadIsRecent'
  <2>1. now <= now + MaxLag /\ Carried(now - now) = 0 /\ \A i \in Interfaces : octets[i] \in Int
    BY <1>1, EngineBounds DEF Carried, Octets
  <2>2. \A i \in Interfaces : octets[i] <= octets[i] + Carried(now - now)
    BY <2>1
  <2> QED
    BY <1>1, <1>4, <2>1, <2>2 DEF EngineInv, KeptIsRecent, ReadIsRecent
<1> QED
  BY <1>5, <1>6, <1>7 DEF EngineInv

\* With names of their own, the value of an interface is the one that was read of it.
LEMMA CurrentValue ==
    ASSUME NamesDiffer, EngineInv, read # Engine!None
    PROVE  /\ DOMAIN Engine!Current(read) = {NameOf[i] : i \in read.of}
           /\ \A i \in read.of :
                 /\ i \in Interfaces
                 /\ Engine!Current(read)[NameOf[i]] = [ts |-> now, raw |-> read.values[i]]
                 /\ Engine!Current(read)[NameOf[i]] \in Counters
<1>1. read \in Reads /\ now \in 0..MaxTicks
  BY DEF EngineInv, EngineTypes
<1>2. /\ DOMAIN Engine!Current(read) = {NameOf[i] : i \in read.of}
      /\ \A m \in {NameOf[i] : i \in read.of} : Engine!Current(read)[m] =
            [ts |-> now, raw |-> read.values[Engine!Max({i \in read.of : NameOf[i] = m})]]
  BY DEF Engine!Current
<1>3. ASSUME NEW i \in read.of
      PROVE  /\ i \in Interfaces
             /\ Engine!Current(read)[NameOf[i]] = [ts |-> now, raw |-> read.values[i]]
             /\ Engine!Current(read)[NameOf[i]] \in Counters
  <2>1. i \in Interfaces /\ i \in Nat /\ read.values[i] \in 0..Width - 1
    BY <1>1, EngineBounds DEF Reads, Octets
  <2>2. {j \in read.of : NameOf[j] = NameOf[i]} = {i}
    BY <1>1, <2>1 DEF NamesDiffer, Reads
  <2>3. Engine!Max({i}) = i
    BY <2>1 DEF Engine!Max
  <2>4. Engine!Current(read)[NameOf[i]] = [ts |-> now, raw |-> read.values[i]]
    BY <1>2, <2>2, <2>3
  <2> QED
    BY <1>1, <2>1, <2>4 DEF Counters
<1> QED
  BY <1>2, <1>3

\* What is kept after a poll.
Remembers == prev' = [m \in Engine!Metrics |->
                     IF m \in DOMAIN Engine!Current(read) THEN Engine!Current(read)[m] ELSE prev[m]]

LEMMA KeptNext ==
    ASSUME NamesDiffer, EngineInv, read # Engine!None, Remembers
    PROVE  /\ prev' \in [Engine!Metrics -> {Engine!None} \cup Counters]
           /\ \A i \in Interfaces :
                prev'[NameOf[i]] # Engine!None =>
                    /\ prev'[NameOf[i]].ts <= now
                    /\ octets[i] <=
                           prev'[NameOf[i]].raw + Carried(now - prev'[NameOf[i]].ts + MaxLag)
<1>1. /\ read \in Reads /\ now \in 0..MaxTicks /\ octets \in Octets
      /\ prev \in [Engine!Metrics -> {Engine!None} \cup Counters]
  BY DEF EngineInv, EngineTypes
<1>2. prev' \in [Engine!Metrics -> {Engine!None} \cup Counters]
  <2>1. ASSUME NEW m \in Engine!Metrics
        PROVE  prev'[m] \in {Engine!None} \cup Counters
    BY <1>1, CurrentValue DEF Remembers
  <2> QED
    BY <2>1 DEF Remembers
<1>3. ASSUME NEW i \in Interfaces, prev'[NameOf[i]] # Engine!None
      PROVE  /\ prev'[NameOf[i]].ts <= now
             /\ octets[i] <= prev'[NameOf[i]].raw + Carried(now - prev'[NameOf[i]].ts + MaxLag)
  <2>1. CASE i \in read.of
    <3>1. prev'[NameOf[i]] = [ts |-> now, raw |-> read.values[i]]
      BY <2>1, CurrentValue, MetricOf DEF Remembers
    <3>7. octets[i] <= read.values[i] + Carried(now - read.at) /\ now <= read.at + MaxLag
      BY <1>1 DEF EngineInv, ReadIsRecent
    <3>8. read.at \in Int /\ now \in Int
      BY <1>1 DEF Reads
    <3>2. octets[i] <= read.values[i] + Carried(now - read.at) /\ now - read.at <= MaxLag
      BY <3>7, <3>8, EngineBounds
    <3>3. /\ read.values[i] \in Int /\ octets[i] \in Int /\ now - read.at \in Int
          /\ now - now + MaxLag = MaxLag /\ MaxLag \in Int
      BY <1>1, EngineBounds DEF Reads, Octets
    <3>4. Carried(now - read.at) <= Carried(MaxLag) /\ Carried(now - read.at) \in Int
          /\ Carried(MaxLag) \in Int
      BY <3>2, <3>3, CarriedMore
    <3>5. octets[i] <= read.values[i] + Carried(MaxLag)
      BY <3>2, <3>3, <3>4
    <3> QED
      BY <1>1, <3>1, <3>3, <3>5
  <2>2. CASE i \notin read.of
    <3>1. NameOf[i] \notin DOMAIN Engine!Current(read)
      BY <1>1, <2>2, CurrentValue DEF NamesDiffer, Reads
    <3>2. prev'[NameOf[i]] = prev[NameOf[i]]
      BY <3>1, MetricOf DEF Remembers
    <3> QED
      BY <1>3, <3>2 DEF EngineInv, KeptIsRecent
  <2> QED
    BY <2>1, <2>2
<1> QED
  BY <1>2, <1>3

\* A rate of a poll is one that the line can have.
LEMMA RatesArePossible ==
    ASSUME NamesDiffer, EngineInv, read # Engine!None,
           NEW r \in Engine!compute_counter_rates(Engine!Current(read))
    PROVE  /\ r.metric \in Engine!Metrics /\ r.ts \in 0..MaxTicks
           /\ r.den > 0 /\ 0 <= r.num /\ r.num <= Line * (r.den + MaxLag)
<1>1. PICK m \in DOMAIN Engine!Current(read) :
         /\ Engine!Comparable(prev[m], Engine!Current(read)[m])
         /\ r = Engine!Rate(m, prev[m], Engine!Current(read)[m])
  BY DEF Engine!compute_counter_rates
<1>2. PICK i \in read.of : m = NameOf[i]
  BY <1>1, CurrentValue
<1>3. i \in Interfaces /\ Engine!Current(read)[m] = [ts |-> now, raw |-> read.values[i]]
  BY <1>2, CurrentValue
<1> DEFINE p == prev[NameOf[i]]
<1>4. p # Engine!None /\ now > p.ts /\ read.values[i] >= p.raw
      /\ r = [metric |-> m, ts |-> now, num |-> read.values[i] - p.raw, den |-> now - p.ts]
  BY <1>1, <1>2, <1>3 DEF Engine!Comparable, Engine!Rate
<1>5. /\ p \in Counters /\ read \in Reads /\ now \in 0..MaxTicks
  BY <1>3, <1>4, MetricOf DEF EngineInv, EngineTypes
<1>6. /\ read.at <= now /\ p.ts <= read.at
      /\ read.values[i] <= p.raw + Carried(read.at - p.ts + MaxLag)
  BY <1>3, <1>4 DEF EngineInv, ReadIsRecent
<1>7. p.ts \in Int /\ p.raw \in Int /\ read.at \in Int /\ read.values[i] \in Int /\ now \in Int
  BY <1>3, <1>5, EngineBounds DEF Counters, Reads, Octets
<1>8. Carried(read.at - p.ts + MaxLag) <= Carried((now - p.ts) + MaxLag)
      /\ Carried(read.at - p.ts + MaxLag) \in Int /\ Carried((now - p.ts) + MaxLag) \in Int
  <2>1. /\ read.at - p.ts + MaxLag <= (now - p.ts) + MaxLag
        /\ read.at - p.ts + MaxLag \in Int /\ (now - p.ts) + MaxLag \in Int
    BY <1>6, <1>7, EngineBounds
  <2> QED
    BY <2>1, CarriedMore
<1>9. read.values[i] - p.raw <= Carried((now - p.ts) + MaxLag)
  BY <1>6, <1>7, <1>8
<1> HIDE DEF p
<1>10. /\ r.num = read.values[i] - p.raw /\ r.den = now - p.ts /\ r.ts = now /\ r.metric = m
  BY <1>4
<1>11. r.num <= Line * (r.den + MaxLag)
  BY <1>9, <1>10 DEF Carried
<1> QED
  BY <1>2, <1>3, <1>4, <1>5, <1>7, <1>10, <1>11, MetricOf

\* A poll ends: it keeps its values, and its samples are written or lost.
LEMMA PersistKeeps ==
    ASSUME NamesDiffer, EngineInv, Engine!Persist \/ Engine!PersistFails
    PROVE  EngineInv'
<1>1. /\ read # Engine!None /\ Remembers /\ read' = Engine!None
      /\ UNCHANGED <<now, octets, back, woke, session, password, account>>
  BY DEF Engine!Persist, Engine!PersistFails, Engine!clockVars, Engine!sessionVars, Remembers
<1>2. /\ at \in {"sleep", "unifi", "ping"} /\ woke \in 0..MaxTicks /\ now \in 0..MaxTicks
      /\ last \in [Engine!Channels -> -2..MaxTicks]
  BY DEF EngineInv, EngineTypes
<1>3. /\ at' \in {"sleep", "unifi", "ping"} /\ upsets' \in 0..MaxUpsets
      /\ last' \in [Engine!Channels -> -2..MaxTicks]
  BY <1>2, EngineBounds
     DEF Engine!Persist, Engine!PersistFails, Engine!After, EngineInv, EngineTypes
<1>4. /\ prev' \in [Engine!Metrics -> {Engine!None} \cup Counters]
      /\ \A i \in Interfaces :
           prev'[NameOf[i]] # Engine!None =>
               /\ prev'[NameOf[i]].ts <= now
               /\ octets[i] <= prev'[NameOf[i]].raw + Carried(now - prev'[NameOf[i]].ts + MaxLag)
  BY <1>1, KeptNext
<1>5. \A r \in written' : /\ r.metric \in Engine!Metrics \cup {Engine!Gauge} /\ r.ts \in 0..MaxTicks
                          /\ r.den > 0 /\ 0 <= r.num
                          /\ r.metric = Engine!Gauge \/ r.num <= Line * (r.den + MaxLag)
  <2>1. ASSUME Engine!PersistFails
        PROVE  UNCHANGED written
    BY <2>1 DEF Engine!PersistFails
  <2>2. CASE UNCHANGED written
    BY <2>2 DEF EngineInv, EngineTypes, Engine!NoBogusSpike
  <2>3. ASSUME NEW r \in Engine!Samples
        PROVE  /\ r.metric \in Engine!Metrics \cup {Engine!Gauge} /\ r.ts \in 0..MaxTicks
               /\ r.den > 0 /\ 0 <= r.num
               /\ r.metric = Engine!Gauge \/ r.num <= Line * (r.den + MaxLag)
    <3>1. CASE r \in Engine!compute_counter_rates(Engine!Current(read))
      BY <1>1, <3>1, RatesArePossible
    <3>2. CASE r = [metric |-> Engine!Gauge, ts |-> now, num |-> 1, den |-> 1]
      BY <1>2, <3>2
    <3> QED
      BY <2>3, <3>1, <3>2 DEF Engine!Samples
  <2> QED
    BY <2>1, <2>2, <2>3 DEF Engine!Persist
<1>6. EngineTypes'
  BY <1>1, <1>3, <1>4, <1>5 DEF EngineInv, EngineTypes
<1>7. KeptIsRecent' /\ ReadIsRecent'
  BY <1>1, <1>4 DEF KeptIsRecent, ReadIsRecent
<1>8. Engine!NoBogusSpike'
  BY <1>5 DEF Engine!NoBogusSpike
<1> QED
  BY <1>6, <1>7, <1>8 DEF EngineInv

\* The loop, restarts, passwords; the clock is not set back.
LEMMA RestKeeps ==
    ASSUME EngineInv,
           \/ Engine!Wake \/ Engine!NotDue \/ Engine!Restart \/ Engine!ClockBack
           \/ Engine!ChangePassword \/ Engine!SavePassword
    PROVE  EngineInv'
<1>1. ~Engine!ClockBack
  BY DEF EngineInv, EngineTypes, Engine!ClockBack
<1>2. CASE Engine!Wake \/ Engine!NotDue \/ Engine!ChangePassword \/ Engine!SavePassword
  <2>1. /\ UNCHANGED <<now, octets, back, prev, last, read, written, session>>
    BY <1>2 DEF Engine!Wake, Engine!NotDue, Engine!ChangePassword, Engine!SavePassword,
                Engine!clockVars, Engine!loopVars, Engine!sessionVars
  <2>2. /\ at' \in {"sleep", "unifi", "ping"} /\ woke' \in 0..MaxTicks
        /\ upsets' \in 0..MaxUpsets /\ password' \in {1, 2} /\ account' \in {1, 2}
    BY <1>2, EngineBounds
       DEF Engine!Wake, Engine!NotDue, Engine!ChangePassword, Engine!SavePassword, Engine!After,
           Engine!clockVars, Engine!loopVars, Engine!sessionVars, EngineInv, EngineTypes
  <2>3. EngineTypes'
    BY <2>1, <2>2 DEF EngineInv, EngineTypes
  <2>4. KeptIsRecent' /\ ReadIsRecent' /\ Engine!NoBogusSpike'
    BY <2>1 DEF EngineInv, KeptIsRecent, ReadIsRecent, Engine!NoBogusSpike
  <2> QED
    BY <2>3, <2>4 DEF EngineInv
<1>3. CASE Engine!Restart
  <2>1. /\ UNCHANGED <<now, octets, back, woke, written, password, account>>
        /\ prev' = [m \in Engine!Metrics |-> Engine!None] /\ at' = "sleep"
        /\ last' = [c \in Engine!Channels |-> -2] /\ read' = Engine!None
        /\ session' = [password |-> 0, in |-> FALSE] /\ upsets' \in 0..MaxUpsets
    BY <1>3, EngineBounds DEF Engine!Restart, Engine!clockVars, EngineInv, EngineTypes
  <2>2. EngineTypes'
    BY <2>1, EngineBounds DEF EngineInv, EngineTypes
  <2>3. KeptIsRecent' /\ ReadIsRecent' /\ Engine!NoBogusSpike'
    BY <2>1, MetricOf DEF EngineInv, KeptIsRecent, ReadIsRecent, Engine!NoBogusSpike
  <2> QED
    BY <2>2, <2>3 DEF EngineInv
<1> QED
  BY <1>1, <1>2, <1>3

LEMMA EngineStep == ASSUME NamesDiffer, EngineInv, [Engine!Next]_(Engine!vars) PROVE EngineInv'
<1>1. CASE Engine!Next
  BY <1>1, CountersGoOn, ReadKeeps, PersistKeeps, RestKeeps DEF Engine!Next, Engine!Engine
<1>2. CASE UNCHANGED (Engine!vars)
  BY <1>2 DEF Engine!vars, Engine!clockVars, Engine!loopVars, Engine!sessionVars, EngineInv,
              EngineTypes, KeptIsRecent, ReadIsRecent, Engine!NoBogusSpike
<1> QED
  BY <1>1, <1>2

-----------------------------------------------------------------------------
(* Sums over finite sets.  The library's sum is a recursive function, which *)
(* the provers know nothing of until it is shown to exist.                  *)

\* Of sets of subsets of a finite set, one is minimal.
LEMMA MinimalSubset ==
    ASSUME NEW S, IsFiniteSet(S), NEW C, C \subseteq SUBSET S, C # {}
    PROVE  \E T \in C : \A U \in C : U \subseteq T => U = T
<1>1. IsWellFoundedOn(StrictSubsetOrdering(S), SUBSET S)
  BY FS_StrictSubsetOrderingWellFounded, FS_FiniteSubsetsOfFinite
<1>2. PICK T \in C : \A U \in C : ~(<<U, T>> \in StrictSubsetOrdering(S))
  BY <1>1, WFMin, Zenon
<1>3. ASSUME NEW U \in C, U \subseteq T, U # T
      PROVE  <<U, T>> \in StrictSubsetOrdering(S)
  <2>1. U \in SUBSET S /\ T \in SUBSET S
    OBVIOUS
  <2> QED
    BY <1>3, <2>1 DEF StrictSubsetOrdering
<1>4. \A U \in C : U \subseteq T => U = T
  BY <1>2, <1>3, Zenon
<1> QED
  BY <1>4, Zenon

\* Induction over a finite set, one element after the other.
LEMMA SetInduction ==
    ASSUME NEW S, IsFiniteSet(S), NEW C,
           {} \in C,
           \A T \in SUBSET S : T \in C => \A x \in S \ T : T \cup {x} \in C
    PROVE  S \in C
<1> DEFINE Left == {U \in SUBSET S : S \ U \in C}
<1>1. S \in Left
  <2>1. S \ S = {}
    OBVIOUS
  <2> QED
    BY <2>1
<1>2. Left \subseteq SUBSET S /\ Left # {}
  BY <1>1
<1>3. PICK T \in Left : \A U \in Left : U \subseteq T => U = T
  <2> HIDE DEF Left
  <2> QED
    BY <1>2, MinimalSubset
<1>4. T = {}
  <2> SUFFICES ASSUME NEW x \in T PROVE FALSE
    OBVIOUS
  <2>1. T \in SUBSET S /\ S \ T \in C /\ x \in S \ (S \ T) /\ S \ T \in SUBSET S
    OBVIOUS
  <2>2. (S \ T) \cup {x} \in C
    BY <2>1
  <2>3. (S \ T) \cup {x} = S \ (T \ {x})
    BY <2>1
  <2>4. T \ {x} \in Left
    BY <2>1, <2>2, <2>3
  <2> QED
    BY <1>3, <2>4
<1>5. S \ {} = S
  OBVIOUS
<1> QED
  BY <1>3, <1>4, <1>5

Picked(T) == CHOOSE x \in T : TRUE

LEMMA PickedIn == \A T : T # {} => Picked(T) \in T
BY DEF Picked

Sum(f, S) == Metrics!SumFunctionOnSet(f, S)

\* g is the sum of f over the subsets of S: it may take the elements in any order.
Adds(f, S, g) ==
    /\ g \in [SUBSET S -> Nat] /\ g[{}] = 0
    /\ \A T \in SUBSET S : \A x \in T : g[T] = f[x] + g[T \ {x}]

\* g is what the library computes of f.
Folds(f, S, g) ==
    g = [T \in SUBSET S |-> IF T = {} THEN 0 ELSE f[Picked(T)] + g[T \ {Picked(T)}]]

LEMMA AddsFolds ==
    ASSUME NEW S, NEW f, NEW g, Adds(f, S, g)
    PROVE  Folds(f, S, g)
<1>1. ASSUME NEW T \in SUBSET S, T # {}
      PROVE  g[T] = f[Picked(T)] + g[T \ {Picked(T)}]
  BY <1>1, PickedIn DEF Adds
<1> QED
  BY <1>1, Zenon DEF Adds, Folds

LEMMA SumExists ==
    ASSUME NEW S, IsFiniteSet(S), NEW f, \A x \in S : f[x] \in Nat
    PROVE  \E g : Adds(f, S, g)
<1> DEFINE C == {T \in SUBSET S : \E g : Adds(f, T, g)}
<1>1. {} \in C
  <2> DEFINE g == [T \in SUBSET {} |-> 0]
  <2>1. Adds(f, {}, g)
    BY DEF Adds
  <2> HIDE DEF g
  <2> QED
    BY <2>1
<1>2. ASSUME NEW T \in SUBSET S, T \in C, NEW x \in S \ T
      PROVE  T \cup {x} \in C
  <2>1. PICK g : Adds(f, T, g)
    BY <1>2
  <2>2. /\ g \in [SUBSET T -> Nat] /\ g[{}] = 0 /\ f[x] \in Nat
        /\ \A U \in SUBSET T : \A y \in U : g[U] = f[y] + g[U \ {y}]
        /\ \A y \in T : f[y] \in Nat
    BY <2>1 DEF Adds
  <2> DEFINE h == [U \in SUBSET (T \cup {x}) |-> IF x \in U THEN f[x] + g[U \ {x}] ELSE g[U]]
  <2>3. ASSUME NEW U \in SUBSET (T \cup {x})
        PROVE  /\ U \ {x} \in SUBSET T /\ g[U \ {x}] \in Nat
               /\ x \notin U => U \in SUBSET T /\ g[U] \in Nat
               /\ h[U] = IF x \in U THEN f[x] + g[U \ {x}] ELSE g[U]
    <3>1. U \ {x} \in SUBSET T /\ (x \notin U => U \in SUBSET T)
      BY <2>3
    <3> QED
      BY <2>2, <3>1
  <2>4. h \in [SUBSET (T \cup {x}) -> Nat]
    <3>1. ASSUME NEW U \in SUBSET (T \cup {x})
          PROVE  h[U] \in Nat
      <4>1. CASE x \in U
        BY <2>2, <2>3, <4>1
      <4>2. CASE x \notin U
        BY <2>2, <2>3, <4>2
      <4> QED
        BY <4>1, <4>2
    <3> QED
      BY <3>1
  <2>5. h[{}] = 0
    BY <2>2, <2>3
  <2>6. ASSUME NEW U \in SUBSET (T \cup {x}), NEW y \in U
        PROVE  h[U] = f[y] + h[U \ {y}]
    <3>1. U \ {y} \in SUBSET (T \cup {x})
      BY <2>6
    <3> HIDE DEF h
    <3>2. CASE y = x
      <4>1. h[U] = f[x] + g[U \ {x}] /\ h[U \ {x}] = g[U \ {x}]
        <5>1. (U \ {x}) \ {x} = U \ {x} /\ x \notin U \ {x}
          OBVIOUS
        <5> QED
          BY <2>3, <3>1, <3>2, <5>1
      <4> QED
        BY <3>2, <4>1
    <3>3. CASE y # x /\ x \in U
      <4>1. U \ {x} \in SUBSET T /\ y \in U \ {x} /\ (U \ {x}) \ {y} \in SUBSET T
        BY <3>3, <2>3
      <4>2. g[U \ {x}] = f[y] + g[(U \ {x}) \ {y}]
        BY <4>1, <2>2
      <4>3. (U \ {x}) \ {y} = (U \ {y}) \ {x}
        OBVIOUS
      <4>4. h[U] = f[x] + g[U \ {x}] /\ h[U \ {y}] = f[x] + g[(U \ {x}) \ {y}]
        BY <2>3, <3>1, <3>3, <4>3
      <4>5. f[y] \in Nat /\ g[(U \ {x}) \ {y}] \in Nat
        BY <2>2, <4>1
      <4> QED
        BY <2>2, <4>2, <4>4, <4>5
    <3>4. CASE x \notin U
      <4>1. U \in SUBSET T /\ h[U] = g[U] /\ h[U \ {y}] = g[U \ {y}]
        BY <2>3, <3>1, <3>4
      <4> QED
        BY <2>2, <4>1
    <3> QED
      BY <3>2, <3>3, <3>4
  <2>7. Adds(f, T \cup {x}, h)
    <3> HIDE DEF h
    <3> QED
      BY <2>4, <2>5, <2>6 DEF Adds
  <2>8. T \cup {x} \in SUBSET S
    BY <1>2
  <2> HIDE DEF h
  <2> QED
    BY <2>7, <2>8
<1>3. S \in C
  <2> HIDE DEF C
  <2> QED
    BY <1>1, <1>2, SetInduction
<1> QED
  BY <1>3

\* There is one such function only.
LEMMA SumIsUnique ==
    ASSUME NEW S, IsFiniteSet(S), NEW f, NEW g, NEW h, Folds(f, S, g), Folds(f, S, h)
    PROVE  g[S] = h[S]
<1> DEFINE C == {T \in SUBSET S : g[T] # h[T]}
<1>1. /\ \A T \in SUBSET S : g[T] = IF T = {} THEN 0 ELSE f[Picked(T)] + g[T \ {Picked(T)}]
      /\ \A T \in SUBSET S : h[T] = IF T = {} THEN 0 ELSE f[Picked(T)] + h[T \ {Picked(T)}]
  BY DEF Folds
<1>2. C = {}
  <2> SUFFICES ASSUME C # {} PROVE FALSE
    OBVIOUS
  <2>1. PICK T \in C : \A U \in C : U \subseteq T => U = T
    <3>1. C \subseteq SUBSET S
      OBVIOUS
    <3> HIDE DEF C
    <3> QED
      BY <3>1, MinimalSubset
  <2>2. T \in SUBSET S /\ g[T] # h[T]
    OBVIOUS
  <2>3. T # {}
    BY <1>1, <2>2
  <2> DEFINE U == T \ {Picked(T)}
  <2>4. U \in SUBSET S /\ U \subseteq T /\ U # T
    BY <2>2, <2>3, PickedIn
  <2>5. g[U] = h[U]
    BY <2>1, <2>4
  <2> QED
    BY <1>1, <2>2, <2>3, <2>5
<1> QED
  BY <1>2

LEMMA SumIs ==
    ASSUME NEW S, IsFiniteSet(S), NEW f, NEW g, Adds(f, S, g)
    PROVE  Sum(f, S) = g[S]
<1> DEFINE i == CHOOSE h : Folds(f, S, h)
<1>1. Folds(f, S, g)
  BY AddsFolds
<1>2. Folds(f, S, i)
  BY <1>1, Zenon
<1>3. Sum(f, S) = i[S]
  BY Zenon DEF Sum, Folds, Picked, Metrics!SumFunctionOnSet, Metrics!FoldFunctionOnSet,
                Metrics!MapThenFoldSet
<1> HIDE DEF i
<1> QED
  BY <1>1, <1>2, <1>3, SumIsUnique

LEMMA SumOfPart ==
    ASSUME NEW S, IsFiniteSet(S), NEW f, NEW g, Adds(f, S, g), NEW T \in SUBSET S
    PROVE  Sum(f, T) = g[T]
<1> DEFINE h == [U \in SUBSET T |-> g[U]]
<1>1. \A U \in SUBSET T : U \in SUBSET S /\ h[U] = g[U] /\ \A x \in U : h[U \ {x}] = g[U \ {x}]
  OBVIOUS
<1>2. h \in [SUBSET T -> Nat]
  BY <1>1 DEF Adds
<1>3. \A U \in SUBSET T : \A x \in U : h[U] = f[x] + h[U \ {x}]
  <2> HIDE DEF h
  <2> QED
    BY <1>1 DEF Adds
<1>4. h[{}] = 0
  BY <1>1 DEF Adds
<1> HIDE DEF h
<1>5. Adds(f, T, h)
  BY <1>2, <1>3, <1>4 DEF Adds
<1>6. IsFiniteSet(T)
  BY FS_Subset
<1>7. Sum(f, T) = h[T]
  BY <1>5, <1>6, SumIs
<1> QED
  BY <1>1, <1>7

\* A sum over a finite set, with one of its elements taken out.
LEMMA SumSplit ==
    ASSUME NEW S, IsFiniteSet(S), NEW f, \A x \in S : f[x] \in Nat
    PROVE  /\ Sum(f, {}) = 0
           /\ Sum(f, S) \in Nat
           /\ \A x \in S : Sum(f, S) = f[x] + Sum(f, S \ {x})
<1>1. PICK g : Adds(f, S, g)
  BY SumExists
<1>2. \A T \in SUBSET S : Sum(f, T) = g[T]
  BY <1>1, SumOfPart
<1>3. {} \in SUBSET S /\ S \in SUBSET S /\ \A x \in S : S \ {x} \in SUBSET S
  OBVIOUS
<1>4. g[S] \in Nat /\ g[{}] = 0 /\ \A x \in S : g[S] = f[x] + g[S \ {x}]
  BY <1>1, <1>3 DEF Adds
<1> QED
  BY <1>2, <1>3, <1>4

\* ... and of its subsets, with an element put in.
LEMMA SumJoin ==
    ASSUME NEW S, IsFiniteSet(S), NEW f, \A x \in S : f[x] \in Nat
    PROVE  /\ \A T \in SUBSET S : Sum(f, T) \in Nat
           /\ \A T \in SUBSET S : \A x \in S \ T : Sum(f, T \cup {x}) = f[x] + Sum(f, T)
<1>1. PICK g : Adds(f, S, g)
  BY SumExists
<1>2. \A T \in SUBSET S : Sum(f, T) = g[T]
  BY <1>1, SumOfPart
<1>3. ASSUME NEW T \in SUBSET S
      PROVE  Sum(f, T) \in Nat
  BY <1>1, <1>2 DEF Adds
<1>4. ASSUME NEW T \in SUBSET S, NEW x \in S \ T
      PROVE  Sum(f, T \cup {x}) = f[x] + Sum(f, T)
  <2>1. T \cup {x} \in SUBSET S /\ x \in T \cup {x} /\ (T \cup {x}) \ {x} = T
    OBVIOUS
  <2>2. g[T \cup {x}] = f[x] + g[(T \cup {x}) \ {x}]
    BY <1>1, <2>1 DEF Adds
  <2> QED
    BY <1>2, <2>1, <2>2
<1> QED
  BY <1>3, <1>4

\* More of each is more in all.
LEMMA SumMore ==
    ASSUME NEW S, IsFiniteSet(S), NEW f, NEW h,
           \A x \in S : f[x] \in Nat /\ h[x] \in Nat /\ f[x] <= h[x]
    PROVE  Sum(f, S) <= Sum(h, S)
<1> DEFINE C == {T \in SUBSET S : Sum(f, T) <= Sum(h, T)}
<1>1. {} \in C
  BY SumSplit
<1>2. ASSUME NEW T \in SUBSET S, T \in C, NEW x \in S \ T
      PROVE  T \cup {x} \in C
  <2>1. /\ Sum(f, T \cup {x}) = f[x] + Sum(f, T) /\ Sum(f, T) \in Nat
        /\ Sum(h, T \cup {x}) = h[x] + Sum(h, T) /\ Sum(h, T) \in Nat
    BY SumJoin
  <2>2. Sum(f, T) <= Sum(h, T) /\ f[x] \in Nat /\ h[x] \in Nat /\ f[x] <= h[x]
    BY <1>2
  <2>3. Sum(f, T \cup {x}) <= Sum(h, T \cup {x})
    BY <2>1, <2>2
  <2> QED
    BY <2>3
<1>3. S \in C
  <2> HIDE DEF C
  <2> QED
    BY <1>1, <1>2, SetInduction
<1> QED
  BY <1>3

LEMMA SumSame ==
    ASSUME NEW S, IsFiniteSet(S), NEW f, NEW h, \A x \in S : f[x] \in Nat /\ f[x] = h[x]
    PROVE  Sum(f, S) = Sum(h, S)
<1>1. Sum(f, S) <= Sum(h, S) /\ Sum(h, S) <= Sum(f, S)
  <2>1. \A x \in S : f[x] \in Nat /\ h[x] \in Nat /\ f[x] <= h[x] /\ h[x] <= f[x]
    OBVIOUS
  <2> QED
    BY <2>1, SumMore
<1>2. Sum(f, S) \in Nat /\ Sum(h, S) \in Nat
  BY SumSplit
<1> QED
  BY <1>1, <1>2

LEMMA SumPlus ==
    ASSUME NEW S, IsFiniteSet(S), NEW f, NEW h, NEW k,
           \A x \in S : f[x] \in Nat /\ h[x] \in Nat /\ k[x] = f[x] + h[x]
    PROVE  Sum(k, S) = Sum(f, S) + Sum(h, S)
<1> DEFINE C == {T \in SUBSET S : Sum(k, T) = Sum(f, T) + Sum(h, T)}
<1>1. \A x \in S : k[x] \in Nat
  OBVIOUS
<1>2. {} \in C
  BY <1>1, SumSplit
<1>3. ASSUME NEW T \in SUBSET S, T \in C, NEW x \in S \ T
      PROVE  T \cup {x} \in C
  <2>1. /\ Sum(f, T \cup {x}) = f[x] + Sum(f, T) /\ Sum(f, T) \in Nat
        /\ Sum(h, T \cup {x}) = h[x] + Sum(h, T) /\ Sum(h, T) \in Nat
        /\ Sum(k, T \cup {x}) = k[x] + Sum(k, T) /\ Sum(k, T) \in Nat
    BY <1>1, SumJoin
  <2>2. Sum(k, T) = Sum(f, T) + Sum(h, T) /\ f[x] \in Nat /\ h[x] \in Nat /\ k[x] = f[x] + h[x]
    BY <1>3
  <2>3. Sum(k, T \cup {x}) = Sum(f, T \cup {x}) + Sum(h, T \cup {x})
    BY <2>1, <2>2
  <2> QED
    BY <2>3
<1>4. S \in C
  <2> HIDE DEF C
  <2> QED
    BY <1>2, <1>3, SetInduction
<1> QED
  BY <1>4

\* The sum over two sets without a common element.
LEMMA SumCup ==
    ASSUME NEW S, IsFiniteSet(S), NEW f, \A x \in S : f[x] \in Nat,
           NEW A \in SUBSET S, NEW B \in SUBSET S, A \cap B = {}
    PROVE  Sum(f, A \cup B) = Sum(f, A) + Sum(f, B)
<1> DEFINE C == {T \in SUBSET B : Sum(f, A \cup T) = Sum(f, A) + Sum(f, T)}
<1>1. {} \in C
  <2>1. A \cup {} = A /\ Sum(f, {}) = 0 /\ Sum(f, A) \in Nat
    BY SumSplit, SumJoin
  <2> QED
    BY <2>1
<1>2. ASSUME NEW T \in SUBSET B, T \in C, NEW x \in B \ T
      PROVE  T \cup {x} \in C
  <2>1. /\ T \in SUBSET S /\ A \cup T \in SUBSET S /\ x \in S \ T /\ x \in S \ (A \cup T)
        /\ A \cup (T \cup {x}) = (A \cup T) \cup {x}
    OBVIOUS
  <2>8. \A U \in SUBSET S : \A y \in S \ U : Sum(f, U \cup {y}) = f[y] + Sum(f, U)
    BY SumJoin
  <2>2. /\ Sum(f, T \cup {x}) = f[x] + Sum(f, T)
        /\ Sum(f, (A \cup T) \cup {x}) = f[x] + Sum(f, A \cup T)
    BY <2>1, <2>8, Zenon
  <2>6. Sum(f, T) \in Nat /\ Sum(f, A) \in Nat /\ Sum(f, A \cup T) \in Nat /\ f[x] \in Nat
    BY <2>1, SumJoin
  <2>3. Sum(f, A \cup T) = Sum(f, A) + Sum(f, T)
    BY <1>2
  <2>7. f[x] + Sum(f, A \cup T) = Sum(f, A) + (f[x] + Sum(f, T))
    BY <2>3, <2>6
  <2>4. Sum(f, A \cup (T \cup {x})) = Sum(f, A) + Sum(f, T \cup {x})
    BY <2>1, <2>2, <2>7, Zenon
  <2>5. T \cup {x} \in SUBSET B
    BY <1>2
  <2> QED
    BY <2>4, <2>5
<1>3. B \in C
  <2>1. IsFiniteSet(B)
    BY FS_Subset
  <2> HIDE DEF C
  <2> QED
    BY <1>1, <1>2, <2>1, SetInduction
<1> QED
  BY <1>3

\* The sum of the sums over the parts of a set.
LEMMA SumParts ==
    ASSUME NEW S, IsFiniteSet(S), NEW f, \A x \in S : f[x] \in Nat,
           NEW K, IsFiniteSet(K), NEW P, \A k \in K : P[k] \in SUBSET S,
           \A k, l \in K : k # l => P[k] \cap P[l] = {},
           NEW F, \A k \in K : F[k] = Sum(f, P[k])
    PROVE  Sum(F, K) = Sum(f, UNION {P[k] : k \in K})
<1> DEFINE All(L) == UNION {P[k] : k \in L}
           C == {L \in SUBSET K : Sum(F, L) = Sum(f, All(L))}
<1>1. \A k \in K : F[k] \in Nat
  BY SumJoin
<1>2. {} \in C
  <2>1. All({}) = {}
    OBVIOUS
  <2>2. Sum(F, {}) = 0 /\ Sum(f, {}) = 0
    BY <1>1, SumSplit
  <2> QED
    BY <2>1, <2>2
<1>3. ASSUME NEW L \in SUBSET K, L \in C, NEW k \in K \ L
      PROVE  L \cup {k} \in C
  <2>1. /\ All(L) \in SUBSET S /\ P[k] \in SUBSET S
        /\ All(L \cup {k}) = All(L) \cup P[k]
    <3>1. \A l \in L : P[l] \in SUBSET S
      OBVIOUS
    <3> QED
      BY <3>1
  <2>2. All(L) \cap P[k] = {}
    <3>1. \A l \in L : P[l] \cap P[k] = {}
      OBVIOUS
    <3> QED
      BY <3>1
  <2>3. Sum(F, L \cup {k}) = F[k] + Sum(F, L) /\ Sum(F, L) \in Nat
    BY <1>1, SumJoin
  <2>4. Sum(F, L) = Sum(f, All(L)) /\ F[k] = Sum(f, P[k]) /\ F[k] \in Nat
    BY <1>1, <1>3
  <2> HIDE DEF All
  <2>5. Sum(f, All(L) \cup P[k]) = Sum(f, All(L)) + Sum(f, P[k])
    BY <2>1, <2>2, SumCup
  <2>8. F[k] + Sum(F, L) = Sum(f, All(L)) + Sum(f, P[k])
    BY <2>3, <2>4
  <2>6. Sum(F, L \cup {k}) = Sum(f, All(L \cup {k}))
    BY <2>1, <2>3, <2>5, <2>8, Zenon
  <2>7. L \cup {k} \in SUBSET K
    BY <1>3
  <2> QED
    BY <2>6, <2>7
<1>4. K \in C
  <2> HIDE DEF C
  <2> QED
    BY <1>2, <1>3, SetInduction
<1> QED
  BY <1>4

\* The sum of ones is the number of elements.
LEMMA SumOnes ==
    ASSUME NEW S, IsFiniteSet(S), NEW D \in SUBSET S, NEW f,
           \A x \in S : f[x] = IF x \in D THEN 1 ELSE 0
    PROVE  Sum(f, S) = Cardinality(D)
<1> DEFINE C == {T \in SUBSET S : Sum(f, T) = Cardinality(T \cap D)}
<1>1. \A x \in S : f[x] \in Nat
  OBVIOUS
<1>2. {} \in C
  <2>1. {} \cap D = {}
    OBVIOUS
  <2> QED
    BY <1>1, <2>1, SumSplit, FS_EmptySet
<1>3. ASSUME NEW T \in SUBSET S, T \in C, NEW x \in S \ T
      PROVE  T \cup {x} \in C
  <2>1. Sum(f, T \cup {x}) = f[x] + Sum(f, T)
    BY <1>1, SumJoin
  <2>2. Sum(f, T) = Cardinality(T \cap D)
    BY <1>3
  <2>3. IsFiniteSet(T \cap D)
    BY FS_Subset
  <2>4. Cardinality(T \cap D) \in Nat
    BY <2>3, FS_CardinalityType
  <2>7. f[x] = IF x \in D THEN 1 ELSE 0
    OBVIOUS
  <2>5. Cardinality((T \cup {x}) \cap D) = f[x] + Cardinality(T \cap D)
    <3>1. CASE x \in D
      <4>1. (T \cup {x}) \cap D = (T \cap D) \cup {x} /\ x \notin T \cap D
        BY <3>1
      <4>2. Cardinality((T \cap D) \cup {x}) = Cardinality(T \cap D) + 1
        BY <2>3, <4>1, FS_AddElement
      <4>3. f[x] = 1
        BY <2>7, <3>1
      <4>4. Cardinality((T \cup {x}) \cap D) = Cardinality(T \cap D) + 1
        BY <4>1, <4>2, Zenon
      <4> QED
        BY <2>4, <4>3, <4>4
    <3>2. CASE x \notin D
      <4>1. (T \cup {x}) \cap D = T \cap D
        BY <3>2
      <4>2. f[x] = 0
        BY <2>7, <3>2
      <4>4. Cardinality((T \cup {x}) \cap D) = Cardinality(T \cap D)
        BY <4>1, Zenon
      <4> QED
        BY <2>4, <4>2, <4>4
    <3> QED
      BY <3>1, <3>2
  <2>6. T \cup {x} \in SUBSET S
    BY <1>3
  <2> QED
    BY <2>1, <2>2, <2>5, <2>6
<1>4. S \in C
  <2> HIDE DEF C
  <2> QED
    BY <1>2, <1>3, SetInduction
<1>5. S \cap D = D
  OBVIOUS
<1> QED
  BY <1>4, <1>5

\* What one element gives to another stays in the sum.
LEMMA SumMoved ==
    ASSUME NEW S, IsFiniteSet(S), NEW f, NEW h, \A x \in S : f[x] \in Nat,
           NEW a \in S, NEW b \in S, a # b,
           h[a] = f[a] + f[b], h[b] = 0, \A x \in S \ {a, b} : h[x] = f[x]
    PROVE  Sum(h, S) = Sum(f, S)
<1> DEFINE A == S \ {a}
           B == A \ {b}
<1>1. \A x \in S : h[x] \in Nat
  <2>1. f[a] \in Nat /\ f[b] \in Nat
    OBVIOUS
  <2> QED
    BY <2>1
<1>2. IsFiniteSet(A) /\ IsFiniteSet(B) /\ b \in A /\ A \subseteq S /\ B \subseteq S
  BY FS_RemoveElement
<1>3. Sum(f, S) = f[a] + Sum(f, A) /\ Sum(h, S) = h[a] + Sum(h, A)
  BY <1>1, SumSplit
<1>4. Sum(f, A) = f[b] + Sum(f, B) /\ Sum(h, A) = h[b] + Sum(h, B)
  <2>1. \A x \in A : f[x] \in Nat /\ h[x] \in Nat
    BY <1>1, <1>2
  <2> QED
    BY <1>2, <2>1, SumSplit
<1>5. Sum(f, B) = Sum(h, B) /\ Sum(f, B) \in Nat
  <2>1. \A x \in B : f[x] \in Nat /\ f[x] = h[x]
    BY <1>2
  <2> HIDE DEF A, B
  <2> QED
    BY <1>2, <2>1, SumSame, SumSplit
<1>6. f[a] \in Nat /\ f[b] \in Nat
  OBVIOUS
<1> HIDE DEF A, B
<1> QED
  BY <1>3, <1>4, <1>5, <1>6

-----------------------------------------------------------------------------
(* MetricsStore: the rows.                                                   *)

Days  == 0..MaxDays
Table == [Ids -> [Days -> Nat]]

\* How many rows a device has, and the table.
RowsOf(rows)  == [d \in Ids |-> Sum(rows[d], Days)]
SizeOf(rows)  == Sum(RowsOf(rows), Ids)
\* ... of a day.
CountOf(rows, t) == Sum([d \in Ids |-> rows[d][t]], Ids)

LEMMA StoreBounds ==
    /\ MaxDays \in Nat /\ MaxSamples \in Nat /\ MaxUpsets \in Nat /\ Floor \in Nat
    /\ MaxRaw \in Nat /\ MaxBuckets \in Nat \ {0}
    /\ Windows \subseteq Nat /\ {0, 2} \subseteq Windows
    /\ IsFiniteSet(Ids) /\ IsFiniteSet(Days) /\ Metrics!Times = Days
<1>1. MaxDays \in Nat
  BY ApplianceAssumption
<1>2. IsFiniteSet(Days)
  BY <1>1, FS_Interval DEF Days
<1> QED
  BY <1>2, ApplianceAssumption DEF Metrics!Times, Days

LEMMA RowsAre ==
    ASSUME NEW rows \in Table
    PROVE  /\ \A d \in Ids : RowsOf(rows)[d] \in Nat /\ RowsOf(rows)[d] = Sum(rows[d], Days)
           /\ \A d \in Ids : \A t \in Days : rows[d][t] \in Nat /\ rows[d][t] <= RowsOf(rows)[d]
           /\ \A d \in Ids : RowsOf(rows)[d] <= SizeOf(rows)
           /\ SizeOf(rows) \in Nat
<1>1. ASSUME NEW d \in Ids
      PROVE  /\ RowsOf(rows)[d] = Sum(rows[d], Days) /\ RowsOf(rows)[d] \in Nat
             /\ \A t \in Days : rows[d][t] \in Nat /\ rows[d][t] <= RowsOf(rows)[d]
  <2>1. \A t \in Days : rows[d][t] \in Nat
    BY DEF Table
  <2>2. RowsOf(rows)[d] = Sum(rows[d], Days)
    BY DEF RowsOf
  <2>3. RowsOf(rows)[d] \in Nat
    BY <2>1, <2>2, SumSplit, StoreBounds
  <2>4. ASSUME NEW t \in Days
        PROVE  rows[d][t] <= RowsOf(rows)[d]
    <3>1. Sum(rows[d], Days) = rows[d][t] + Sum(rows[d], Days \ {t})
      BY <2>1, SumSplit, StoreBounds
    <3>2. Sum(rows[d], Days \ {t}) \in Nat
      BY <2>1, SumJoin, StoreBounds
    <3> QED
      BY <2>1, <2>2, <3>1, <3>2
  <2> QED
    BY <2>1, <2>2, <2>3, <2>4
<1>2. SizeOf(rows) \in Nat
  BY <1>1, SumSplit, StoreBounds DEF SizeOf
<1>3. ASSUME NEW d \in Ids
      PROVE  RowsOf(rows)[d] <= SizeOf(rows)
  <2>1. SizeOf(rows) = RowsOf(rows)[d] + Sum(RowsOf(rows), Ids \ {d})
    BY <1>1, SumSplit, StoreBounds DEF SizeOf
  <2>2. Sum(RowsOf(rows), Ids \ {d}) \in Nat
    BY <1>1, SumJoin, StoreBounds
  <2> QED
    BY <1>1, <2>1, <2>2
<1> QED
  BY <1>1, <1>2, <1>3

\* Fewer rows of each device and day.
LEMMA FewerRows ==
    ASSUME NEW rows \in Table, NEW left \in Table,
           \A d \in Ids : \A t \in Days : left[d][t] <= rows[d][t]
    PROVE  SizeOf(left) <= SizeOf(rows)
<1>1. ASSUME NEW d \in Ids
      PROVE  RowsOf(left)[d] <= RowsOf(rows)[d]
  <2>1. \A t \in Days : left[d][t] \in Nat /\ rows[d][t] \in Nat /\ left[d][t] <= rows[d][t]
    BY RowsAre
  <2> QED
    BY <2>1, SumMore, StoreBounds, RowsAre
<1> QED
  BY <1>1, SumMore, StoreBounds, RowsAre DEF SizeOf

\* Rows of some devices come.
LEMMA MoreRows ==
    ASSUME NEW rows \in Table, NEW ds \in SUBSET Ids, NEW t \in Days
    PROVE  /\ Metrics!With(rows, ds, t) \in Table
           /\ SizeOf(Metrics!With(rows, ds, t)) = SizeOf(rows) + Cardinality(ds)
           /\ \A d \in Ids : \A u \in Days : rows[d][u] <= Metrics!With(rows, ds, t)[d][u]
<1> DEFINE more == Metrics!With(rows, ds, t)
           one  == [d \in Ids |-> IF d \in ds THEN 1 ELSE 0]
<1>1. ASSUME NEW d \in Ids
      PROVE  /\ more[d] = IF d \in ds THEN [rows[d] EXCEPT ![t] = rows[d][t] + 1] ELSE rows[d]
             /\ rows[d] \in [Days -> Nat]
  BY DEF Metrics!With, Table
<1>2. ASSUME NEW d \in Ids
      PROVE  /\ more[d] \in [Days -> Nat]
             /\ \A u \in Days :
                    more[d][u] = IF d \in ds /\ u = t THEN rows[d][u] + 1 ELSE rows[d][u]
  <2> HIDE DEF more
  <2>4. rows[d] \in [Days -> Nat]
    BY <1>1
  <2>1. rows[d] \in [Days -> Nat] /\ rows[d][t] + 1 \in Nat
    BY <2>4
  <2>2. CASE d \in ds
    <3>1. more[d] = [rows[d] EXCEPT ![t] = rows[d][t] + 1]
      BY <1>1, <2>2
    <3> QED
      BY <2>1, <2>2, <3>1
  <2>3. CASE d \notin ds
    <3>1. more[d] = rows[d]
      BY <1>1, <2>3
    <3> QED
      BY <2>1, <2>3, <3>1
  <2> QED
    BY <2>2, <2>3
<1>3. more \in Table
  <2>1. more = [d \in Ids |-> more[d]]
    BY DEF Metrics!With
  <2> HIDE DEF more
  <2> QED
    BY <1>2, <2>1 DEF Table
<1> HIDE DEF more
<1>4. \A d \in Ids : \A u \in Days : rows[d][u] <= more[d][u]
  BY <1>2, RowsAre
<1>5. ASSUME NEW d \in Ids
      PROVE  RowsOf(more)[d] = RowsOf(rows)[d] + one[d]
  <2>1. CASE d \in ds
    <3> DEFINE e == [u \in Days |-> IF u \in {t} THEN 1 ELSE 0]
    <3>1. \A u \in Days : rows[d][u] \in Nat /\ e[u] \in Nat /\ more[d][u] = rows[d][u] + e[u]
      BY <1>2, <2>1, RowsAre
    <3>2. \A u \in Days : e[u] = IF u \in {t} THEN 1 ELSE 0
      OBVIOUS
    <3> HIDE DEF e
    <3>3. Sum(more[d], Days) = Sum(rows[d], Days) + Sum(e, Days)
      BY <3>1, SumPlus, StoreBounds
    <3>4. Sum(e, Days) = 1
      <4>1. {t} \in SUBSET Days /\ Cardinality({t}) = 1
        BY FS_Singleton
      <4> QED
        BY <3>2, <4>1, SumOnes, StoreBounds
    <3> QED
      BY <1>3, <2>1, <3>3, <3>4, RowsAre
  <2>2. CASE d \notin ds
    <3>1. more[d] = rows[d]
      BY <1>1, <2>2
    <3>2. RowsOf(more)[d] = RowsOf(rows)[d] /\ RowsOf(rows)[d] \in Nat
      BY <1>3, <3>1, RowsAre
    <3> QED
      BY <2>2, <3>2
  <2> QED
    BY <2>1, <2>2
<1>6. SizeOf(more) = SizeOf(rows) + Sum(one, Ids)
  <2>1. \A d \in Ids : RowsOf(rows)[d] \in Nat /\ one[d] \in Nat
    BY RowsAre
  <2> HIDE DEF one
  <2> QED
    BY <1>5, <2>1, SumPlus, StoreBounds DEF SizeOf
<1>7. Sum(one, Ids) = Cardinality(ds)
  <2>1. \A d \in Ids : one[d] = IF d \in ds THEN 1 ELSE 0
    OBVIOUS
  <2> HIDE DEF one
  <2> QED
    BY <2>1, SumOnes, StoreBounds
<1> QED
  BY <1>3, <1>4, <1>6, <1>7 DEF more

LEMMA SizeIs ==
    ASSUME stored \in Table
    PROVE  /\ \A d \in Ids : Metrics!Rows(d) = RowsOf(stored)[d]
           /\ Metrics!Size = SizeOf(stored)
<1>1. ASSUME NEW d \in Ids
      PROVE  Metrics!Rows(d) = RowsOf(stored)[d]
  <2>1. DOMAIN stored[d] = Days
    BY DEF Table
  <2>2. Metrics!Rows(d) = Sum(stored[d], DOMAIN stored[d])
    BY Zenon DEF Metrics!Rows, Metrics!SumFunction, Sum
  <2> QED
    BY <2>1, <2>2 DEF RowsOf
<1> DEFINE f == [d \in Ids |-> Metrics!Rows(d)]
<1>2. Metrics!Size = Sum(f, DOMAIN f)
  BY Zenon DEF Metrics!Size, Metrics!SumFunction, Sum
<1>3. f = RowsOf(stored) /\ DOMAIN f = Ids
  BY <1>1 DEF RowsOf
<1> HIDE DEF f
<1> QED
  BY <1>1, <1>2, <1>3, Zenon DEF SizeOf

LEMMA CountIs ==
    ASSUME NEW rows, NEW t
    PROVE  Metrics!Count(rows, t) = CountOf(rows, t)
<1> DEFINE f == [d \in Ids |-> rows[d][t]]
<1>1. Metrics!Count(rows, t) = Sum(f, DOMAIN f) /\ CountOf(rows, t) = Sum(f, Ids)
  BY Zenon DEF Metrics!Count, Metrics!SumFunction, CountOf, Sum
<1>2. DOMAIN f = Ids
  OBVIOUS
<1> HIDE DEF f
<1> QED
  BY <1>1, <1>2, Zenon

\* As many rows of a day at least, if no device has fewer.
LEMMA CountKept ==
    ASSUME NEW rows \in Table, NEW left \in Table, NEW t \in Days,
           \A d \in Ids : rows[d][t] <= left[d][t]
    PROVE  CountOf(rows, t) <= CountOf(left, t) /\ CountOf(rows, t) \in Nat
<1> DEFINE f == [d \in Ids |-> rows[d][t]]
           h == [d \in Ids |-> left[d][t]]
<1>1. \A d \in Ids : f[d] \in Nat /\ h[d] \in Nat /\ f[d] <= h[d]
  BY RowsAre
<1>2. CountOf(rows, t) = Sum(f, Ids) /\ CountOf(left, t) = Sum(h, Ids)
  BY DEF CountOf
<1> HIDE DEF f, h
<1>3. Sum(f, Ids) <= Sum(h, Ids) /\ Sum(f, Ids) \in Nat
  BY <1>1, SumMore, SumSplit, StoreBounds
<1> QED
  BY <1>2, <1>3, Zenon

\* A merge moves rows.
LEMMA MovedRows ==
    ASSUME stored \in Table, NEW to \in Ids, NEW from \in Ids, to # from
    PROVE  /\ Metrics!Repointed(from, to) \in Table
           /\ Metrics!Repointed(from, to)[from] = [t \in Days |-> 0]
           /\ \A d \in Ids \ {to, from} : Metrics!Repointed(from, to)[d] = stored[d]
           /\ SizeOf(Metrics!Repointed(from, to)) = SizeOf(stored)
           /\ \A t \in Days : CountOf(Metrics!Repointed(from, to), t) = CountOf(stored, t)
<1> DEFINE moved == Metrics!Repointed(from, to)
           sum   == [t \in Days |-> stored[to][t] + stored[from][t]]
           none  == [t \in Days |-> 0]
<1>1. moved = [stored EXCEPT ![to] = sum, ![from] = none]
  BY StoreBounds DEF Metrics!Repointed
<1>2. \A t \in Days : stored[to][t] \in Nat /\ stored[from][t] \in Nat
  BY RowsAre
<1>3. sum \in [Days -> Nat] /\ none \in [Days -> Nat]
  BY <1>2
<1>4. /\ stored \in [Ids -> [Days -> Nat]]
      /\ \A t \in Days : sum[t] = stored[to][t] + stored[from][t] /\ none[t] = 0
  BY DEF Table
<1> HIDE DEF moved, sum, none
<1>5. /\ moved \in Table /\ moved[to] = sum /\ moved[from] = none
      /\ \A d \in Ids \ {to, from} : moved[d] = stored[d]
  BY <1>1, <1>3, <1>4 DEF Table
<1>6. SizeOf(moved) = SizeOf(stored)
  <2>1. RowsOf(moved)[to] = RowsOf(stored)[to] + RowsOf(stored)[from]
    <3>1. \A t \in Days : sum[t] = stored[to][t] + stored[from][t]
      BY <1>4
    <3>2. Sum(sum, Days) = Sum(stored[to], Days) + Sum(stored[from], Days)
      BY <1>2, <3>1, SumPlus, StoreBounds
    <3>3. /\ RowsOf(moved)[to] = Sum(moved[to], Days)
          /\ RowsOf(stored)[to] = Sum(stored[to], Days)
          /\ RowsOf(stored)[from] = Sum(stored[from], Days)
      BY <1>5, RowsAre
    <3> QED
      BY <1>5, <3>2, <3>3, Zenon
  <2>2. RowsOf(moved)[from] = 0
    <3>1. \A t \in Days : none[t] = IF t \in {} THEN 1 ELSE 0
      BY <1>4
    <3>2. Sum(none, Days) = Cardinality({})
      BY <3>1, SumOnes, StoreBounds
    <3> QED
      BY <1>5, <3>2, RowsAre, FS_EmptySet
  <2>3. \A d \in Ids \ {to, from} : RowsOf(moved)[d] = RowsOf(stored)[d]
    BY <1>5, RowsAre
  <2>4. \A d \in Ids : RowsOf(stored)[d] \in Nat
    BY RowsAre
  <2> QED
    BY <2>1, <2>2, <2>3, <2>4, SumMoved, StoreBounds DEF SizeOf
<1>7. ASSUME NEW t \in Days
      PROVE  CountOf(moved, t) = CountOf(stored, t)
  <2> DEFINE f == [d \in Ids |-> stored[d][t]]
             h == [d \in Ids |-> moved[d][t]]
  <2>1. \A d \in Ids : f[d] \in Nat
    BY RowsAre
  <2>2. h[to] = f[to] + f[from] /\ h[from] = 0 /\ \A d \in Ids \ {to, from} : h[d] = f[d]
    BY <1>4, <1>5
  <2>3. CountOf(moved, t) = Sum(h, Ids) /\ CountOf(stored, t) = Sum(f, Ids)
    BY DEF CountOf
  <2> HIDE DEF f, h
  <2>4. Sum(h, Ids) = Sum(f, Ids)
    BY <2>1, <2>2, SumMoved, StoreBounds
  <2> QED
    BY <2>3, <2>4, Zenon
<1> QED
  BY <1>5, <1>6, <1>7 DEF moved, none

\* A prune takes what is older than so many days.
LEMMA PrunedRows ==
    ASSUME stored \in Table, today \in Int, NEW n \in Int
    PROVE  /\ Metrics!Pruned(n) \in Table
           /\ \A d \in Ids : \A t \in Days : Metrics!Pruned(n)[d][t] <= stored[d][t]
           /\ \A d \in Ids : \A t \in Days :
                 t >= today - n => Metrics!Pruned(n)[d][t] = stored[d][t]
<1> DEFINE left == Metrics!Pruned(n)
<1>1. ASSUME NEW d \in Ids
      PROVE  left[d] = [t \in Days |-> IF t < today - n THEN 0 ELSE stored[d][t]]
  BY StoreBounds DEF Metrics!Pruned
<1>2. left = [d \in Ids |-> left[d]]
  BY DEF Metrics!Pruned
<1> HIDE DEF left
<1>3. ASSUME NEW d \in Ids, NEW t \in Days
      PROVE  /\ left[d][t] = IF t < today - n THEN 0 ELSE stored[d][t]
             /\ left[d][t] \in Nat /\ stored[d][t] \in Nat /\ t \in Int
  <2>1. stored[d][t] \in Nat /\ t \in Int
    BY RowsAre DEF Days
  <2>2. left[d][t] = IF t < today - n THEN 0 ELSE stored[d][t]
    BY <1>1
  <2> QED
    BY <2>1, <2>2
<1>4. left \in Table
  <2>1. \A d \in Ids : left[d] \in [Days -> Nat]
    BY <1>1, <1>3
  <2> QED
    BY <1>2, <2>1 DEF Table
<1>5. ASSUME NEW d \in Ids, NEW t \in Days
      PROVE  left[d][t] <= stored[d][t] /\ (t >= today - n => left[d][t] = stored[d][t])
  BY <1>3
<1> QED
  BY <1>4, <1>5 DEF left

-----------------------------------------------------------------------------
(* MetricsStore: the invariant.                                              *)

Samples   == [device : Ids, finite : BOOLEAN]
Retention == [telemetry : Windows \ {0}, metrics : Windows]

StoreTypes ==
    /\ today \in Days /\ changes \in 0..MaxUpsets
    /\ stored \in Table /\ known \subseteq Ids
    /\ batch \subseteq Samples /\ IsFiniteSet(batch)
    /\ keep \in Retention /\ tight \in BOOLEAN /\ overruled \in BOOLEAN

\* A device that there is not has no rows.
NoOrphans == \A d \in Ids \ known : stored[d] = [t \in Days |-> 0]

\* The rows there are, and those that a poll will write, are within the bound.
RowsFit == SizeOf(stored) + Cardinality(batch) <= MaxSamples

StoreInv == StoreTypes /\ NoOrphans /\ RowsFit

\* The modules count alike.
LEMMA SameCount == \A T : Metrics!Cardinality(T) = Cardinality(T)
BY DEF Metrics!Cardinality, Cardinality

LEMMA StoreStarts == ASSUME Metrics!Init PROVE StoreInv
<1>1. /\ today = 0 /\ changes = 0 /\ known = Ids /\ batch = {}
      /\ stored = [d \in Ids |-> [t \in Days |-> 0]]
      /\ keep \in Retention /\ tight = FALSE /\ overruled = FALSE
  BY StoreBounds DEF Metrics!Init, Retention
<1>2. stored \in Table
  BY <1>1 DEF Table
<1>3. StoreTypes /\ NoOrphans
  <2>1. 0 \in Days
    BY StoreBounds DEF Days
  <2>2. IsFiniteSet({}) /\ MaxUpsets \in Nat
    BY FS_EmptySet, StoreBounds
  <2>3. NoOrphans
    BY <1>1 DEF NoOrphans
  <2>4. IsFiniteSet(batch) /\ batch \subseteq Samples
    BY <1>1, <2>2, Zenon
  <2>5. changes \in 0..MaxUpsets
    BY <1>1, <2>2
  <2>6. tight \in BOOLEAN /\ overruled \in BOOLEAN
    BY <1>1, Zenon
  <2> QED
    BY <1>1, <1>2, <2>1, <2>3, <2>4, <2>5, <2>6, Zenon DEF StoreTypes
<1>4. SizeOf(stored) = 0
  <2>1. ASSUME NEW d \in Ids
        PROVE  RowsOf(stored)[d] = IF d \in {} THEN 1 ELSE 0
    <3>1. \A t \in Days : stored[d][t] = IF t \in {} THEN 1 ELSE 0
      BY <1>1
    <3>2. Sum(stored[d], Days) = Cardinality({})
      BY <3>1, SumOnes, StoreBounds
    <3> QED
      BY <1>2, <3>2, RowsAre, FS_EmptySet
  <2>2. Sum(RowsOf(stored), Ids) = Cardinality({})
    BY <2>1, SumOnes, StoreBounds
  <2> QED
    BY <2>2, FS_EmptySet DEF SizeOf
<1> QED
  BY <1>1, <1>3, <1>4, FS_EmptySet, StoreBounds DEF StoreInv, RowsFit

\* A poll collects and writes.
LEMMA CollectKeeps ==
    ASSUME StoreInv, Metrics!Collect
    PROVE  StoreInv'
<1>1. /\ UNCHANGED <<today, stored, known, keep, tight, overruled, changes>>
      /\ batch' \subseteq [device : known, finite : BOOLEAN]
      /\ SizeOf(stored) + Cardinality(batch') <= MaxSamples
  <2>1. /\ UNCHANGED <<today, stored, known, keep, tight, overruled, changes>>
        /\ batch' \in SUBSET {[device |-> d, finite |-> v] : d \in known, v \in BOOLEAN}
        /\ Metrics!Size + Cardinality(batch') <= MaxSamples
    BY SameCount DEF Metrics!Collect
  <2>2. {[device |-> d, finite |-> v] : d \in known, v \in BOOLEAN}
            \subseteq [device : known, finite : BOOLEAN]
    OBVIOUS
  <2> QED
    BY <2>1, <2>2, SizeIs DEF StoreInv, StoreTypes
<1>2. batch' \subseteq Samples /\ IsFiniteSet(batch')
  <2>1. known \subseteq Ids
    BY DEF StoreInv, StoreTypes
  <2>2. batch' \subseteq Samples
    BY <1>1, <2>1 DEF Samples
  <2>3. IsFiniteSet(Samples)
    <3> DEFINE P == Ids \X BOOLEAN
               f == [p \in P |-> [device |-> p[1], finite |-> p[2]]]
    <3>1. IsFiniteSet(BOOLEAN)
      <4>1. BOOLEAN = {TRUE} \cup {FALSE}
        BY Zenon
      <4>2. IsFiniteSet({TRUE}) /\ IsFiniteSet({FALSE})
        BY FS_Singleton, Zenon
      <4>3. IsFiniteSet({TRUE} \cup {FALSE})
        BY <4>2, FS_Union, Zenon
      <4> QED
        BY <4>1, <4>3, Zenon
    <3>2. IsFiniteSet(P)
      BY <3>1, FS_Product, StoreBounds
    <3>3. f \in Surjection(P, Samples)
      <4>1. f \in [P -> Samples]
        BY DEF Samples
      <4>2. ASSUME NEW r \in Samples
            PROVE  \E p \in P : f[p] = r
        <5>1. <<r.device, r.finite>> \in P /\ r = [device |-> r.device, finite |-> r.finite]
          BY DEF Samples
        <5>2. f[<<r.device, r.finite>>] = r
          BY <5>1
        <5> HIDE DEF f, P
        <5> QED
          BY <5>1, <5>2
      <4> HIDE DEF f, P
      <4> QED
        BY <4>1, <4>2 DEF Surjection
    <3> HIDE DEF f, P
    <3> QED
      BY <3>2, <3>3, FS_Surjection
  <2> QED
    BY <2>2, <2>3, FS_Subset
<1> QED
  BY <1>1, <1>2 DEF StoreInv, StoreTypes, NoOrphans, RowsFit

LEMMA WriteKeeps ==
    ASSUME StoreInv, Metrics!Write
    PROVE  /\ StoreInv' /\ UNCHANGED <<today, keep, tight, overruled>>
           /\ \A d \in Ids : \A t \in Days : stored[d][t] <= stored'[d][t]
<1> DEFINE some    == {m \in batch : m.finite}
           devices == {m.device : m \in some}
<1>1. /\ batch' = {} /\ UNCHANGED <<today, known, keep, tight, overruled, changes>>
      /\ stored' = IF devices \subseteq known THEN Metrics!With(stored, devices, today) ELSE stored
  BY DEF Metrics!Write
<1>2. /\ stored \in Table /\ today \in Days /\ known \subseteq Ids
      /\ batch \subseteq Samples /\ IsFiniteSet(batch)
  BY DEF StoreInv, StoreTypes
<1>3. IsFiniteSet(devices) /\ Cardinality(devices) <= Cardinality(batch) /\ devices \subseteq Ids
  <2>1. some \in SUBSET batch
    OBVIOUS
  <2>2. IsFiniteSet(some) /\ Cardinality(some) <= Cardinality(batch)
    BY <1>2, <2>1, FS_Subset
  <2> DEFINE f == [m \in some |-> m.device]
  <2>3. f \in Surjection(some, devices)
    BY DEF Surjection
  <2>4. devices \subseteq Ids
    BY <1>2, <2>1 DEF Samples
  <2> HIDE DEF some, devices, f
  <2>5. IsFiniteSet(devices) /\ Cardinality(devices) <= Cardinality(some)
    BY <2>2, <2>3, FS_Surjection
  <2>6. Cardinality(devices) \in Nat /\ Cardinality(some) \in Nat /\ Cardinality(batch) \in Nat
    BY <1>2, <2>2, <2>5, FS_CardinalityType
  <2> QED
    BY <2>2, <2>4, <2>5, <2>6
<1> HIDE DEF some, devices
<1>4. /\ stored' \in Table /\ SizeOf(stored') <= SizeOf(stored) + Cardinality(batch)
      /\ \A d \in Ids : \A t \in Days : stored[d][t] <= stored'[d][t]
      /\ \A d \in Ids \ known : stored'[d] = stored[d]
  <2>1. /\ Cardinality(devices) \in Nat /\ Cardinality(batch) \in Nat /\ SizeOf(stored) \in Nat
        /\ \A d \in Ids : \A t \in Days : stored[d][t] \in Nat
    BY <1>2, <1>3, FS_CardinalityType, RowsAre
  <2>2. CASE devices \subseteq known
    <3>1. stored' = Metrics!With(stored, devices, today)
      BY <1>1, <2>2
    <3>2. /\ stored' \in Table /\ SizeOf(stored') = SizeOf(stored) + Cardinality(devices)
          /\ \A d \in Ids : \A t \in Days : stored[d][t] <= stored'[d][t]
      BY <1>2, <1>3, <3>1, MoreRows
    <3>3. \A d \in Ids \ known : stored'[d] = stored[d]
      BY <1>2, <2>2, <3>1 DEF Metrics!With
    <3> QED
      BY <1>3, <2>1, <3>2, <3>3
  <2>3. CASE ~(devices \subseteq known)
    <3>1. stored' = stored
      BY <1>1, <2>3
    <3> QED
      BY <1>2, <2>1, <3>1
  <2> QED
    BY <2>2, <2>3
<1>5. RowsFit'
  <2>1. Cardinality(batch') = 0 /\ SizeOf(stored') \in Nat
    BY <1>1, <1>4, FS_EmptySet, RowsAre
  <2>2. SizeOf(stored) + Cardinality(batch) <= MaxSamples
    BY DEF StoreInv, RowsFit
  <2>3. SizeOf(stored) \in Nat /\ Cardinality(batch) \in Nat /\ MaxSamples \in Nat
    BY <1>2, FS_CardinalityType, RowsAre, StoreBounds
  <2> QED
    BY <1>4, <2>1, <2>2, <2>3 DEF RowsFit
<1>6. StoreTypes' /\ NoOrphans'
  BY <1>1, <1>4, FS_EmptySet DEF StoreInv, StoreTypes, NoOrphans
<1> QED
  BY <1>1, <1>4, <1>5, <1>6 DEF StoreInv

LEMMA IngestKeeps ==
    ASSUME StoreInv, Metrics!Ingest
    PROVE  /\ StoreInv' /\ UNCHANGED <<today, keep, tight, overruled>>
           /\ \A d \in Ids : \A t \in Days : stored[d][t] <= stored'[d][t]
<1>1. /\ stored \in Table /\ known \subseteq Ids /\ IsFiniteSet(batch)
  BY DEF StoreInv, StoreTypes
<1>2. /\ UNCHANGED <<today, known, batch, keep, tight, overruled, changes>>
      /\ SizeOf(stored) + Cardinality(batch) < MaxSamples
  BY <1>1, SizeIs, SameCount DEF Metrics!Ingest
<1>3. PICK d \in known, t \in Days : stored' = Metrics!With(stored, {d}, t)
  BY StoreBounds DEF Metrics!Ingest
<1>4. Cardinality({d}) = 1 /\ {d} \in SUBSET Ids
  BY <1>1, FS_Singleton
<1>5. /\ stored' \in Table /\ SizeOf(stored') = SizeOf(stored) + 1
      /\ \A e \in Ids : \A u \in Days : stored[e][u] <= stored'[e][u]
  BY <1>1, <1>3, <1>4, MoreRows
<1>6. \A e \in Ids \ known : stored'[e] = stored[e]
  BY <1>1, <1>3 DEF Metrics!With
<1>7. SizeOf(stored) \in Nat /\ Cardinality(batch) \in Nat /\ MaxSamples \in Nat
  BY <1>1, FS_CardinalityType, RowsAre, StoreBounds
<1>8. SizeOf(stored') + Cardinality(batch') <= MaxSamples
  BY <1>2, <1>5, <1>7
<1> QED
  BY <1>2, <1>5, <1>6, <1>8 DEF StoreInv, StoreTypes, NoOrphans, RowsFit

LEMMA MergeKeeps ==
    ASSUME StoreInv, Metrics!Merge
    PROVE  /\ StoreInv' /\ UNCHANGED <<today, keep, tight, overruled>>
           /\ \A t \in Days : CountOf(stored', t) = CountOf(stored, t)
<1>1. /\ stored \in Table /\ known \subseteq Ids
  BY DEF StoreInv, StoreTypes
<1>2. PICK to \in known, from \in known :
          /\ to # from /\ stored' = Metrics!Repointed(from, to) /\ known' = known \ {from}
          /\ UNCHANGED <<today, batch, keep, tight, overruled, changes>>
  BY DEF Metrics!Merge
<1>3. /\ stored' \in Table /\ SizeOf(stored') = SizeOf(stored)
      /\ stored'[from] = [t \in Days |-> 0]
      /\ \A d \in Ids \ {to, from} : stored'[d] = stored[d]
      /\ \A t \in Days : CountOf(stored', t) = CountOf(stored, t)
  BY <1>1, <1>2, MovedRows
<1>4. NoOrphans'
  <2>1. ASSUME NEW d \in Ids \ known'
        PROVE  stored'[d] = [t \in Days |-> 0]
    <3>1. CASE d = from
      BY <1>3, <3>1
    <3>2. CASE d # from
      BY <1>2, <1>3, <2>1, <3>2 DEF StoreInv, NoOrphans
    <3> QED
      BY <3>1, <3>2
  <2> QED
    BY <2>1 DEF NoOrphans
<1>5. StoreTypes'
  BY <1>2, <1>3 DEF StoreInv, StoreTypes
<1>6. RowsFit'
  BY <1>2, <1>3 DEF StoreInv, RowsFit
<1> QED
  BY <1>2, <1>3, <1>4, <1>5, <1>6 DEF StoreInv

\* A prune, whatever its days.
LEMMA PruneKeeps ==
    ASSUME StoreInv, NEW n \in Int, stored' = Metrics!Pruned(n), overruled' \in BOOLEAN,
           UNCHANGED <<today, known, batch, keep, tight, changes>>
    PROVE  StoreInv'
<1>1. stored \in Table /\ known \subseteq Ids /\ IsFiniteSet(batch) /\ today \in Int
  BY DEF StoreInv, StoreTypes, Days
<1>2. /\ stored' \in Table
      /\ \A d \in Ids : \A t \in Days : stored'[d][t] <= stored[d][t]
  BY <1>1, PrunedRows
<1>3. StoreTypes'
  BY <1>2 DEF StoreInv, StoreTypes
<1>4. NoOrphans'
  <2>1. ASSUME NEW d \in Ids \ known
        PROVE  stored'[d] = [t \in Days |-> 0]
    <3>1. stored[d] = [t \in Days |-> 0]
      BY DEF StoreInv, NoOrphans
    <3>2. stored'[d] = [t \in Days |-> IF t < today - n THEN 0 ELSE stored[d][t]]
      BY StoreBounds DEF Metrics!Pruned
    <3>3. \A t \in Days : (IF t < today - n THEN 0 ELSE stored[d][t]) = 0
      BY <3>1
    <3> QED
      BY <3>2, <3>3
  <2> QED
    BY <2>1 DEF NoOrphans
<1>5. SizeOf(stored') <= SizeOf(stored)
  BY <1>1, <1>2, FewerRows
<1>6. RowsFit'
  <2>1. SizeOf(stored) + Cardinality(batch) <= MaxSamples /\ batch' = batch
    BY DEF StoreInv, RowsFit
  <2>2. /\ SizeOf(stored) \in Nat /\ SizeOf(stored') \in Nat /\ Cardinality(batch) \in Nat
        /\ MaxSamples \in Nat
    BY <1>1, <1>2, RowsAre, FS_CardinalityType, StoreBounds
  <2>3. SizeOf(stored') + Cardinality(batch) <= MaxSamples
    BY <1>5, <2>1, <2>2
  <2> QED
    BY <2>1, <2>3 DEF RowsFit
<1> QED
  BY <1>3, <1>4, <1>6 DEF StoreInv

\* The days of each prune.
LEMMA WindowsAre ==
    ASSUME StoreInv
    PROVE  /\ keep.telemetry \in Nat \ {0} /\ keep.metrics \in Nat
           /\ \A n \in Nat : Metrics!retention_days(n) = IF tight /\ Floor < n THEN Floor ELSE n
           /\ \A n \in Nat : Metrics!retention_days(n) \in Nat
<1>1. keep.telemetry \in Nat \ {0} /\ keep.metrics \in Nat
  BY StoreBounds DEF StoreInv, StoreTypes, Retention
<1>2. ASSUME NEW n \in Nat
      PROVE  /\ Metrics!retention_days(n) = IF tight /\ Floor < n THEN Floor ELSE n
             /\ Metrics!retention_days(n) \in Nat
  BY StoreBounds DEF Metrics!retention_days
<1> QED
  BY <1>1, <1>2

LEMMA PrunesKeep ==
    ASSUME StoreInv, Metrics!PruneTelemetry \/ Metrics!PruneRetention \/ Metrics!PruneByHand
    PROVE  StoreInv'
<1>1. CASE Metrics!PruneTelemetry
  <2>1. /\ stored' = Metrics!Pruned(Metrics!retention_days(keep.telemetry))
        /\ UNCHANGED <<today, known, batch, keep, tight, overruled, changes>>
    BY <1>1 DEF Metrics!PruneTelemetry
  <2>2. Metrics!retention_days(keep.telemetry) \in Int /\ overruled' \in BOOLEAN
    BY <2>1, WindowsAre DEF StoreInv, StoreTypes
  <2> QED
    BY <2>1, <2>2, PruneKeeps
<1>2. CASE Metrics!PruneRetention
  <2>1. /\ stored' = Metrics!Pruned(keep.metrics)
        /\ UNCHANGED <<today, known, batch, keep, tight, overruled, changes>>
    BY <1>2 DEF Metrics!PruneRetention
  <2>2. keep.metrics \in Int /\ overruled' \in BOOLEAN
    BY <2>1, WindowsAre DEF StoreInv, StoreTypes
  <2> QED
    BY <2>1, <2>2, PruneKeeps
<1>3. CASE Metrics!PruneByHand
  <2>1. PICK n \in Windows \ {0} :
            /\ stored' = Metrics!Pruned(Metrics!retention_days(n)) /\ overruled' = TRUE
            /\ UNCHANGED <<today, known, batch, keep, tight, changes>>
    BY <1>3 DEF Metrics!PruneByHand
  <2>2. Metrics!retention_days(n) \in Int
    BY WindowsAre, StoreBounds
  <2>3. overruled' \in BOOLEAN
    BY <2>1, Zenon
  <2> QED
    BY <2>1, <2>2, <2>3, PruneKeeps
<1> QED
  BY <1>1, <1>2, <1>3

\* The day, the settings, the disk, and a device without rows.
LEMMA SettingsKeep ==
    ASSUME StoreInv, \/ Metrics!NextDay \/ Metrics!DeleteDevice
                     \/ Metrics!SetRetention \/ Metrics!DiskChanges
    PROVE  StoreInv' /\ UNCHANGED stored
<1>1. CASE Metrics!NextDay
  <2>1. today < MaxDays /\ today' = today + 1
        /\ UNCHANGED <<stored, known, batch, keep, tight, overruled, changes>>
    BY <1>1 DEF Metrics!NextDay
  <2>2. today' \in Days
    BY <2>1, StoreBounds DEF StoreInv, StoreTypes, Days
  <2> QED
    BY <2>1, <2>2 DEF StoreInv, StoreTypes, NoOrphans, RowsFit
<1>2. CASE Metrics!DeleteDevice
  <2>1. PICK d \in known : /\ Metrics!Rows(d) = 0 /\ known' = known \ {d}
                           /\ UNCHANGED <<today, stored, batch, keep, tight, overruled, changes>>
    BY <1>2 DEF Metrics!DeleteDevice
  <2>2. stored \in Table /\ d \in Ids
    BY DEF StoreInv, StoreTypes
  <2>3. stored[d] = [t \in Days |-> 0]
    <3>1. RowsOf(stored)[d] = 0
      BY <2>1, <2>2, SizeIs
    <3>2. \A t \in Days : stored[d][t] \in Nat /\ stored[d][t] <= 0
      BY <2>2, <3>1, RowsAre
    <3>3. stored[d] \in [Days -> Nat]
      BY <2>2 DEF Table
    <3> QED
      BY <3>2, <3>3
  <2>4. NoOrphans'
    BY <2>1, <2>3 DEF StoreInv, NoOrphans
  <2>5. StoreTypes' /\ RowsFit'
    BY <2>1 DEF StoreInv, StoreTypes, RowsFit
  <2> QED
    BY <2>1, <2>4, <2>5 DEF StoreInv
<1>3. CASE Metrics!SetRetention
  <2>1. changes < MaxUpsets /\ changes' = changes + 1 /\ keep' \in Retention
        /\ UNCHANGED <<today, stored, known, batch, tight, overruled>>
    BY <1>3 DEF Metrics!SetRetention, Retention
  <2>2. changes' \in 0..MaxUpsets
    BY <2>1, StoreBounds DEF StoreInv, StoreTypes
  <2> QED
    BY <2>1, <2>2 DEF StoreInv, StoreTypes, NoOrphans, RowsFit
<1>4. CASE Metrics!DiskChanges
  <2>1. changes < MaxUpsets /\ changes' = changes + 1 /\ tight' = ~tight
        /\ UNCHANGED <<today, stored, known, batch, keep, overruled>>
    BY <1>4 DEF Metrics!DiskChanges
  <2>2. changes' \in 0..MaxUpsets
    BY <2>1, StoreBounds DEF StoreInv, StoreTypes
  <2>3. tight' \in BOOLEAN
    BY <2>1, Zenon
  <2> QED
    BY <2>1, <2>2, <2>3 DEF StoreInv, StoreTypes, NoOrphans, RowsFit
<1> QED
  BY <1>1, <1>2, <1>3, <1>4

LEMMA StoreStep == ASSUME StoreInv, [Metrics!Next]_(Metrics!vars) PROVE StoreInv'
<1>1. CASE Metrics!Next
  BY <1>1, CollectKeeps, WriteKeeps, IngestKeeps, MergeKeeps, PrunesKeep, SettingsKeep
     DEF Metrics!Next
<1>2. CASE UNCHANGED (Metrics!vars)
  BY <1>2 DEF Metrics!vars, StoreInv, StoreTypes, NoOrphans, RowsFit
<1> QED
  BY <1>1, <1>2

LEMMA StoreInvTypes == ASSUME StoreInv PROVE Metrics!TypeOK
<1>1. /\ stored \in Table /\ known \subseteq Ids /\ batch \subseteq Samples /\ IsFiniteSet(batch)
      /\ keep \in Retention
  BY DEF StoreInv, StoreTypes
<1>2. stored \in [Ids -> [Days -> 0..MaxSamples]]
  <2>1. SizeOf(stored) <= MaxSamples
    <3>1. SizeOf(stored) + Cardinality(batch) <= MaxSamples
      BY DEF StoreInv, RowsFit
    <3>2. SizeOf(stored) \in Nat /\ Cardinality(batch) \in Nat /\ MaxSamples \in Nat
      BY <1>1, RowsAre, FS_CardinalityType, StoreBounds
    <3> QED
      BY <3>1, <3>2
  <2>2. ASSUME NEW d \in Ids, NEW t \in Days
        PROVE  stored[d][t] \in 0..MaxSamples
    <3>1. /\ stored[d][t] \in Nat /\ stored[d][t] <= RowsOf(stored)[d]
          /\ RowsOf(stored)[d] \in Nat /\ RowsOf(stored)[d] <= SizeOf(stored)
          /\ SizeOf(stored) \in Nat /\ MaxSamples \in Nat
      BY <1>1, RowsAre, StoreBounds
    <3> QED
      BY <2>1, <3>1
  <2>3. stored \in [Ids -> [Days -> Nat]]
    BY <1>1 DEF Table
  <2>4. \A d \in Ids : stored[d] \in [Days -> 0..MaxSamples]
    BY <2>2, <2>3
  <2> QED
    BY <2>3, <2>4
<1>3. \A d \in Ids \ known : Metrics!Rows(d) = 0
  <2>1. ASSUME NEW d \in Ids \ known
        PROVE  Metrics!Rows(d) = 0
    <3>1. \A t \in Days : stored[d][t] = IF t \in {} THEN 1 ELSE 0
      BY DEF StoreInv, NoOrphans
    <3>2. Sum(stored[d], Days) = Cardinality({})
      BY <3>1, SumOnes, StoreBounds
    <3> QED
      BY <1>1, <3>2, SizeIs, RowsAre, FS_EmptySet
  <2> QED
    BY <2>1
<1>4. \A r \in batch : r.device \in Ids /\ r.finite \in BOOLEAN
  BY <1>1 DEF Samples
<1>5. keep.telemetry \in Windows \ {0} /\ keep.metrics \in Windows
  BY <1>1 DEF Retention
<1>6. today \in Metrics!Times /\ changes \in 0..MaxUpsets /\ tight \in BOOLEAN
      /\ overruled \in BOOLEAN
  BY StoreBounds DEF StoreInv, StoreTypes
<1> QED
  BY <1>1, <1>2, <1>3, <1>4, <1>5, <1>6, StoreBounds DEF Metrics!TypeOK

-----------------------------------------------------------------------------
(* MetricsStore: what is kept.                                               *)

LEMMA LeastOf ==
    ASSUME NEW S \in SUBSET Nat, S # {}
    PROVE  \E k \in S : \A j \in S : k <= j
<1> DEFINE R == {p \in Nat \X Nat : p[1] < p[2]}
<1>1. IsWellFoundedOn(R, Nat)
  BY NatLessThanWellFounded, Zenon DEF OpToRel
<1>2. \A p \in Nat, q \in Nat : <<p, q>> \in R <=> p < q
  OBVIOUS
<1> HIDE DEF R
<1>3. PICK x \in S : \A y \in S : ~ (<<y, x>> \in R)
  BY <1>1, WFMin, Zenon
<1>4. ASSUME NEW y \in S PROVE ~(y < x)
  BY <1>2, <1>3, Zenon
<1> QED
  BY <1>4

LEMMA MinIs ==
    ASSUME NEW S \in SUBSET Nat, S # {}
    PROVE  Metrics!Min(S) \in S /\ \A j \in S : Metrics!Min(S) <= j
<1>1. \E k \in S : \A j \in S : k <= j
  BY LeastOf
<1> QED
  BY <1>1, Zenon DEF Metrics!Min

\* What is promised is within the window of each prune.
LEMMA PromisedIs ==
    ASSUME StoreInv
    PROVE  /\ Metrics!Promised \in Nat
           /\ Metrics!Promised <= Metrics!retention_days(keep.telemetry)
           /\ keep.metrics > 0 => Metrics!Promised <= keep.metrics
<1> DEFINE W == {keep.telemetry} \cup ({keep.metrics} \ {0}) \cup (IF tight THEN {Floor} ELSE {})
<1>1. /\ keep.telemetry \in W
      /\ keep.metrics > 0 => keep.metrics \in W
      /\ tight => Floor \in W
      /\ W \in SUBSET Nat
  BY WindowsAre, StoreBounds
<1>2. Metrics!Promised = Metrics!Min(W)
  BY Zenon DEF Metrics!Promised
<1> HIDE DEF W
<1>3. Metrics!Promised \in W /\ \A j \in W : Metrics!Promised <= j
  BY <1>1, <1>2, MinIs, Zenon
<1>4. Metrics!retention_days(keep.telemetry) \in W
  BY <1>1, WindowsAre
<1> QED
  BY <1>1, <1>3, <1>4

LEMMA KeptByPrune ==
    ASSUME StoreInv, NEW n \in Nat, stored' = Metrics!Pruned(n), Metrics!Promised <= n
    PROVE  Metrics!Kept(Metrics!Promised)
<1>1. stored \in Table /\ today \in Int /\ Metrics!Promised \in Nat
  BY PromisedIs DEF StoreInv, StoreTypes, Days
<1>2. /\ stored' \in Table
      /\ \A d \in Ids : \A t \in Days : t >= today - n => stored'[d][t] = stored[d][t]
  BY <1>1, PrunedRows
<1>3. ASSUME NEW t \in Days, t >= today - Metrics!Promised
      PROVE  CountOf(stored', t) >= CountOf(stored, t)
  <2>1. t >= today - n
    BY <1>1, <1>3 DEF Days
  <2>2. \A d \in Ids : stored[d][t] <= stored'[d][t]
    BY <1>1, <1>2, <2>1, RowsAre
  <2>3. /\ CountOf(stored, t) <= CountOf(stored', t)
        /\ CountOf(stored, t) \in Nat
    BY <1>1, <1>2, <2>2, CountKept
  <2>4. CountOf(stored', t) \in Nat
    <3>1. \A d \in Ids : stored'[d][t] <= stored'[d][t]
      BY <1>2, RowsAre
    <3> QED
      BY <1>2, <3>1, CountKept
  <2> QED
    BY <2>3, <2>4
<1> QED
  BY <1>3, CountIs, StoreBounds DEF Metrics!Kept

LEMMA KeptByMore ==
    ASSUME StoreInv, stored' \in Table,
           \A d \in Ids : \A t \in Days : stored[d][t] <= stored'[d][t]
    PROVE  Metrics!Kept(Metrics!Promised)
<1>1. stored \in Table
  BY DEF StoreInv, StoreTypes
<1>2. ASSUME NEW t \in Days
      PROVE  CountOf(stored', t) >= CountOf(stored, t)
  <2>1. /\ CountOf(stored, t) <= CountOf(stored', t)
        /\ CountOf(stored, t) \in Nat
    BY <1>1, CountKept
  <2>2. CountOf(stored', t) \in Nat
    <3>1. \A d \in Ids : stored'[d][t] <= stored'[d][t]
      BY RowsAre
    <3> QED
      BY <3>1, CountKept
  <2> QED
    BY <2>1, <2>2
<1> QED
  BY <1>2, CountIs, StoreBounds DEF Metrics!Kept

LEMMA KeptStep ==
    ASSUME StoreInv, [Metrics!Next]_(Metrics!vars), stored' # stored, ~overruled'
    PROVE  Metrics!Kept(Metrics!Promised)
<1>1. Metrics!Next
  BY DEF Metrics!vars
<1>2. StoreInv'
  BY StoreStep
<1>3. stored' \in Table
  BY <1>2 DEF StoreInv, StoreTypes
<1>4. CASE Metrics!Write \/ Metrics!Ingest
  BY <1>3, <1>4, WriteKeeps, IngestKeeps, KeptByMore
<1>5. CASE Metrics!Merge
  <2>1. \A t \in Days : CountOf(stored', t) = CountOf(stored, t) /\ CountOf(stored, t) \in Nat
    <3>1. stored \in Table
      BY DEF StoreInv, StoreTypes
    <3>2. ASSUME NEW t \in Days
          PROVE  CountOf(stored, t) \in Nat
      <4>1. \A d \in Ids : stored[d][t] <= stored[d][t]
        BY <3>1, RowsAre
      <4> QED
        BY <3>1, <4>1, CountKept
    <3> QED
      BY <1>5, <3>2, MergeKeeps
  <2> QED
    BY <2>1, CountIs, StoreBounds DEF Metrics!Kept
<1>6. CASE Metrics!PruneTelemetry
  BY <1>6, KeptByPrune, PromisedIs, WindowsAre DEF Metrics!PruneTelemetry
<1>7. CASE Metrics!PruneRetention
  BY <1>7, KeptByPrune, PromisedIs, WindowsAre DEF Metrics!PruneRetention
<1>8. ~Metrics!PruneByHand
  BY Zenon DEF Metrics!PruneByHand
<1>9. ~Metrics!Collect
  BY DEF Metrics!Collect
<1>10. CASE Metrics!NextDay \/ Metrics!DeleteDevice \/ Metrics!SetRetention \/ Metrics!DiskChanges
  BY <1>10, SettingsKeep
<1> QED
  BY <1>1, <1>4, <1>5, <1>6, <1>7, <1>8, <1>9, <1>10 DEF Metrics!Next

-----------------------------------------------------------------------------
(* MetricsStore: the trends.                                                 *)

LEMMA MinOfTwo ==
    ASSUME NEW a \in Nat, NEW b \in Nat
    PROVE  Metrics!Min({a, b}) = IF a <= b THEN a ELSE b
<1>1. Metrics!Min({a, b}) \in {a, b} /\ \A j \in {a, b} : Metrics!Min({a, b}) <= j
  <2>1. {a, b} \in SUBSET Nat /\ {a, b} # {}
    OBVIOUS
  <2> QED
    BY <2>1, MinIs
<1> QED
  BY <1>1

LEMMA MaxWithZero ==
    ASSUME NEW a \in Int
    PROVE  Metrics!Max({0, a}) = IF a > 0 THEN a ELSE 0
<1> DEFINE m == IF a > 0 THEN a ELSE 0
<1>1. m \in {0, a} /\ \A x \in {0, a} : m >= x
  OBVIOUS
<1>2. Metrics!Max({0, a}) \in {0, a} /\ \A x \in {0, a} : Metrics!Max({0, a}) >= x
  <2>1. \E y \in {0, a} : \A x \in {0, a} : y >= x
    BY <1>1
  <2> QED
    BY <2>1, Zenon DEF Metrics!Max
<1> QED
  BY <1>2

\* A range of days of a row of the table.
Ranged(row, start, end) ==
    row \in [Days -> Nat] /\ start \in Days /\ end \in Days /\ start < end

Found(row, start, end) == Metrics!query_range(row, start, end)

LEMMA BeforeIs ==
    ASSUME NEW row, NEW start, NEW end, Ranged(row, start, end)
    PROVE  /\ \A t \in start..end + 1 : Metrics!Before(row, start, t) = Sum(row, start..t - 1)
           /\ \A t \in start..end + 1 : Metrics!Before(row, start, t) \in Nat
           /\ \A t \in start..end : row[t] \in Nat
           /\ IsFiniteSet(start..end)
<1>1. start \in Nat /\ end \in Nat /\ start <= end /\ start..end \subseteq Days
  BY StoreBounds DEF Ranged, Days
<1>2. \A t \in start..end : row[t] \in Nat
  BY <1>1 DEF Ranged
<1>3. IsFiniteSet(start..end)
  BY <1>1, FS_Interval
<1>4. ASSUME NEW t \in start..end + 1
      PROVE  /\ Metrics!Before(row, start, t) = Sum(row, start..t - 1)
             /\ Metrics!Before(row, start, t) \in Nat
  <2>1. Metrics!Before(row, start, t) = Sum(row, start..t - 1)
    BY Zenon DEF Metrics!Before, Sum
  <2>2. start..t - 1 \in SUBSET (start..end)
    BY <1>1
  <2>3. \A T \in SUBSET (start..end) : Sum(row, T) \in Nat
    BY <1>2, <1>3, SumJoin
  <2> QED
    BY <2>1, <2>2, <2>3, Zenon
<1> QED
  BY <1>2, <1>3, <1>4

LEMMA FoundIs ==
    ASSUME NEW row, NEW start, NEW end, Ranged(row, start, end)
    PROVE  /\ DOMAIN Found(row, start, end) = start..end
           /\ \A t \in start..end :
                LET left == MaxRaw - Metrics!Before(row, start, t)
                    most == IF left > 0 THEN left ELSE 0
                IN  /\ Found(row, start, end)[t] = IF row[t] <= most THEN row[t] ELSE most
                    /\ Found(row, start, end)[t] \in Nat
<1>1. Found(row, start, end) =
        [t \in start..end |->
            Metrics!Min({row[t], Metrics!Max({0, MaxRaw - Metrics!Before(row, start, t)})})]
  BY Zenon DEF Found, Metrics!query_range
<1>2. ASSUME NEW t \in start..end
      PROVE  LET left == MaxRaw - Metrics!Before(row, start, t)
                 most == IF left > 0 THEN left ELSE 0
             IN  /\ Found(row, start, end)[t] = IF row[t] <= most THEN row[t] ELSE most
                 /\ Found(row, start, end)[t] \in Nat
  <2> DEFINE left == MaxRaw - Metrics!Before(row, start, t)
             most == IF left > 0 THEN left ELSE 0
  <2>1. row[t] \in Nat /\ Metrics!Before(row, start, t) \in Nat /\ MaxRaw \in Nat
    <3>1. t \in start..end + 1
      BY StoreBounds DEF Ranged, Days
    <3> QED
      BY <3>1, BeforeIs, StoreBounds
  <2>2. left \in Int /\ most \in Nat
    BY <2>1
  <2>3. Found(row, start, end)[t] = Metrics!Min({row[t], Metrics!Max({0, left})})
    BY <1>1
  <2> HIDE DEF left
  <2>4. Metrics!Max({0, left}) = most
    BY <2>2, MaxWithZero
  <2> HIDE DEF most
  <2>5. Metrics!Min({row[t], most}) = IF row[t] <= most THEN row[t] ELSE most
    BY <2>1, <2>2, MinOfTwo
  <2>6. /\ Found(row, start, end)[t] = IF row[t] <= most THEN row[t] ELSE most
        /\ Found(row, start, end)[t] \in Nat
    BY <2>1, <2>2, <2>3, <2>4, <2>5
  <2> QED
    BY <2>6, Zenon DEF most, left
<1> QED
  BY <1>1, <1>2

\* The limit cuts the newest: so many of the rows before a day are found.
LEMMA FoundBefore ==
    ASSUME NEW row, NEW start, NEW end, Ranged(row, start, end)
    PROVE  \A t \in start..end + 1 :
              Sum(Found(row, start, end), start..t - 1) =
                  IF Metrics!Before(row, start, t) <= MaxRaw
                  THEN Metrics!Before(row, start, t) ELSE MaxRaw
<1> DEFINE found == Found(row, start, end)
           b(t)  == Metrics!Before(row, start, t)
           Good(t) == Sum(found, start..t - 1) = IF b(t) <= MaxRaw THEN b(t) ELSE MaxRaw
           Bad == {t \in start..end + 1 : ~Good(t)}
<1>7. IsFiniteSet(start..end)
  BY BeforeIs
<1>1. /\ start \in Nat /\ end \in Nat /\ start <= end /\ MaxRaw \in Nat
      /\ IsFiniteSet(start..end)
  BY <1>7, StoreBounds DEF Ranged, Days
<1>2. \A t \in start..end : found[t] \in Nat /\ row[t] \in Nat
  BY FoundIs, BeforeIs
<1>3. Good(start)
  <2>1. start..start - 1 = {}
    BY <1>1
  <2>2. Sum(found, {}) = 0 /\ Sum(row, {}) = 0
    BY <1>1, <1>2, SumSplit
  <2>3. b(start) = Sum(row, start..start - 1)
    BY <1>1, BeforeIs
  <2> HIDE DEF found, b
  <2> QED
    BY <1>1, <2>1, <2>2, <2>3
<1>4. ASSUME NEW t \in start..end, Good(t)
      PROVE  Good(t + 1)
  <2> DEFINE T == start..t - 1
  <2>1. /\ T \in SUBSET (start..end) /\ t \in (start..end) \ T /\ T \cup {t} = start..(t + 1) - 1
        /\ t \in start..end + 1 /\ t + 1 \in start..end + 1
    BY <1>1
  <2>2. b(t) = Sum(row, T) /\ b(t + 1) = Sum(row, start..(t + 1) - 1) /\ b(t) \in Nat
    BY <2>1, BeforeIs
  <2> HIDE DEF T
  <2>3. Sum(row, T \cup {t}) = row[t] + Sum(row, T)
    BY <1>1, <1>2, <2>1, SumJoin
  <2>4. Sum(found, T \cup {t}) = found[t] + Sum(found, T)
    <3> HIDE DEF found
    <3> QED
      BY <1>1, <1>2, <2>1, SumJoin
  <2>5. b(t + 1) = row[t] + b(t)
    BY <2>1, <2>2, <2>3, Zenon
  <2>6. Sum(found, start..(t + 1) - 1) = found[t] + Sum(found, T)
    BY <2>1, <2>4, Zenon
  <2>7. Sum(found, T) = IF b(t) <= MaxRaw THEN b(t) ELSE MaxRaw
    BY <1>4, Zenon DEF T
  <2> DEFINE left == MaxRaw - b(t)
             most == IF left > 0 THEN left ELSE 0
  <2>8. found[t] = IF row[t] <= most THEN row[t] ELSE most
    BY FoundIs
  <2>9. row[t] \in Nat
    BY <1>2
  <2> HIDE DEF found, b
  <2>10. found[t] + Sum(found, T) = IF b(t + 1) <= MaxRaw THEN b(t + 1) ELSE MaxRaw
    BY <1>1, <2>2, <2>5, <2>7, <2>8, <2>9
  <2> QED
    BY <2>6, <2>10, Zenon
<1>5. Bad = {}
  <2> SUFFICES ASSUME Bad # {} PROVE FALSE
    OBVIOUS
  <2>1. Bad \in SUBSET Nat
    BY <1>1
  <2> HIDE DEF Good
  <2>2. PICK t \in Bad : \A u \in Bad : t <= u
    BY <2>1, LeastOf
  <2>3. t \in start..end + 1 /\ ~Good(t)
    OBVIOUS
  <2>4. t # start
    BY <1>3, <2>3
  <2>5. t - 1 \in start..end /\ t - 1 \in start..end + 1 /\ ~(t <= t - 1) /\ (t - 1) + 1 = t
    BY <1>1, <2>3, <2>4
  <2>6. Good(t - 1)
    BY <2>2, <2>5
  <2> QED
    BY <1>4, <2>3, <2>5, <2>6
<1> HIDE DEF Good
<1>6. \A t \in start..end + 1 : Good(t)
  BY <1>5
<1> QED
  BY <1>6, Zenon DEF Good

LEMMA MoreTimes ==
    ASSUME NEW x \in Int, NEW y \in Int, NEW n \in Nat, x <= y
    PROVE  x * n <= y * n
OBVIOUS

LEMMA Quotient ==
    ASSUME NEW a \in Nat, NEW n \in Nat \ {0}
    PROVE  /\ a \div n \in Nat
           /\ (a \div n) * n <= a /\ a < (a \div n) * n + n
OBVIOUS

\* Of two numbers that are not more than b divisors apart the quotients are neither.
LEMMA QuotientsNear ==
    ASSUME NEW a \in Nat, NEW c \in Nat, NEW n \in Nat \ {0}, NEW b \in Nat,
           a <= c, c <= a + b * n
    PROVE  a \div n <= c \div n /\ c \div n <= (a \div n) + b
<1> DEFINE p == a \div n
           q == c \div n
<1>1. /\ p \in Nat /\ q \in Nat /\ p * n \in Nat /\ q * n \in Nat /\ b * n \in Nat
      /\ p * n <= a /\ a < p * n + n /\ q * n <= c /\ c < q * n + n
  BY Quotient
<1> HIDE DEF p, q
<1>2. p <= q
  <2> SUFFICES ASSUME q + 1 <= p PROVE FALSE
    BY <1>1
  <2>1. (q + 1) * n <= p * n
    BY <1>1, MoreTimes
  <2>2. (q + 1) * n = q * n + n
    BY <1>1
  <2> QED
    BY <1>1, <2>1, <2>2
<1>3. q <= p + b
  <2> SUFFICES ASSUME p + b + 1 <= q PROVE FALSE
    BY <1>1
  <2>1. (p + b + 1) * n <= q * n
    BY <1>1, MoreTimes
  <2>2. (p + b + 1) * n = p * n + b * n + n
    BY <1>1
  <2> QED
    BY <1>1, <2>1, <2>2
<1> QED
  BY <1>2, <1>3 DEF p, q

\* The buckets of a range are next to each other.
LEMMA BucketsNear ==
    ASSUME NEW start \in Days, NEW end \in Days, start < end, NEW t \in start..end
    PROVE  /\ Metrics!Bucket(start, start, end) \in Nat
           /\ Metrics!Bucket(t, start, end) \in
                  Metrics!Bucket(start, start, end)..Metrics!Bucket(start, start, end) + MaxBuckets
<1>1. start \in Nat /\ end \in Nat /\ t \in Nat /\ MaxBuckets \in Nat /\ start <= t /\ t <= end
  BY StoreBounds DEF Days
<1>2. CASE end - start > MaxBuckets
  <2> DEFINE n == end - start
             a == start * MaxBuckets
             c == t * MaxBuckets
  <2>1. n \in Nat \ {0}
    BY <1>1
  <2>2. a \in Nat /\ c \in Nat /\ a <= c
    BY <1>1, MoreTimes
  <2>3. c <= a + MaxBuckets * n
    <3>1. t * MaxBuckets <= end * MaxBuckets
      BY <1>1, MoreTimes
    <3>2. end * MaxBuckets = start * MaxBuckets + MaxBuckets * (end - start)
      BY <1>1
    <3> QED
      BY <1>1, <3>1, <3>2
  <2>4. Metrics!Bucket(start, start, end) = a \div n /\ Metrics!Bucket(t, start, end) = c \div n
    BY <1>2 DEF Metrics!Bucket
  <2> HIDE DEF n, a, c
  <2>5. a \div n \in Nat /\ c \div n \in Nat
    BY <2>1, <2>2, Quotient
  <2>6. a \div n <= c \div n /\ c \div n <= (a \div n) + MaxBuckets
    BY <1>1, <2>1, <2>2, <2>3, QuotientsNear
  <2> QED
    BY <1>1, <2>4, <2>5, <2>6
<1>3. CASE ~(end - start > MaxBuckets)
  <2>1. Metrics!Bucket(start, start, end) = start /\ Metrics!Bucket(t, start, end) = t
    BY <1>3 DEF Metrics!Bucket
  <2> QED
    BY <1>1, <1>3, <2>1
<1> QED
  BY <1>2, <1>3

LEMMA TrendsHold ==
    ASSUME NEW row, NEW start, NEW end, Ranged(row, start, end)
    PROVE  LET points == Metrics!trends(row, start, end)
               all    == Metrics!Before(row, start, end + 1)
           IN  /\ \A k \in DOMAIN points : points[k] > 0
               /\ Metrics!SumFunction(points) = Metrics!Min({all, MaxRaw})
               /\ Metrics!Cardinality(DOMAIN points) <= MaxBuckets + 1
<1> DEFINE points == Metrics!trends(row, start, end)
           all    == Metrics!Before(row, start, end + 1)
           found  == Found(row, start, end)
           span   == start..end
           filled == {t \in span : found[t] > 0}
           bucket(t) == Metrics!Bucket(t, start, end)
           K == {bucket(t) : t \in filled}
           P == [k \in K |-> {t \in filled : bucket(t) = k}]
<1>1. /\ start \in Days /\ end \in Days /\ start < end /\ start \in Nat /\ end \in Nat
      /\ MaxRaw \in Nat /\ MaxBuckets \in Nat
  BY StoreBounds DEF Ranged, Days
<1>2. IsFiniteSet(span) /\ \A t \in span : found[t] \in Nat
  BY BeforeIs, FoundIs
<1>3. filled \in SUBSET span /\ IsFiniteSet(filled)
  <2>1. filled \in SUBSET span
    OBVIOUS
  <2> HIDE DEF filled, span
  <2> QED
    BY <1>2, <2>1, FS_Subset
<1>4. points = [k \in K |-> Sum(found, {t \in filled : bucket(t) = k})]
  BY Zenon DEF Metrics!trends, Sum, Found
<1> HIDE DEF points, all, found, span
<1>5. /\ DOMAIN points = K
      /\ \A k \in K : points[k] = Sum(found, P[k]) /\ P[k] = {t \in filled : bucket(t) = k}
  BY <1>4
<1>6. IsFiniteSet(K) /\ Cardinality(K) <= MaxBuckets + 1
  <2> DEFINE lo == bucket(start)
             R  == lo..lo + MaxBuckets
  <2>1. lo \in Nat /\ \A t \in filled : bucket(t) \in R
    <3>1. \A t \in filled : t \in start..end
      BY <1>3 DEF span
    <3>2. start \in start..end
      BY <1>1
    <3> HIDE DEF filled
    <3> QED
      BY <1>1, <3>1, <3>2, BucketsNear
  <2> HIDE DEF lo, bucket, filled
  <2>2. IsFiniteSet(R) /\ Cardinality(R) = MaxBuckets + 1
    <3>1. lo \in Int /\ lo + MaxBuckets \in Int /\ ~(lo > lo + MaxBuckets)
          /\ (lo + MaxBuckets) - lo + 1 = MaxBuckets + 1
      BY <1>1, <2>1
    <3> QED
      BY <3>1, FS_Interval
  <2>3. K \in SUBSET R
    BY <2>1
  <2> HIDE DEF K, R
  <2> QED
    BY <2>2, <2>3, FS_Subset
<1>7. ASSUME NEW k \in K
      PROVE  P[k] \in SUBSET span /\ points[k] > 0
  <2>1. PICK t \in filled : bucket(t) = k
    OBVIOUS
  <2>2. P[k] = {u \in filled : bucket(u) = k}
    BY <1>5
  <2>3. P[k] \in SUBSET span /\ t \in P[k] /\ found[t] > 0 /\ found[t] \in Nat
    BY <1>2, <1>3, <2>1, <2>2
  <2>4. IsFiniteSet(P[k]) /\ \A u \in P[k] : found[u] \in Nat
    <3> HIDE DEF P, K, filled
    <3> QED
      BY <1>2, <2>3, FS_Subset
  <2> HIDE DEF P, K, filled
  <2>5. Sum(found, P[k]) = found[t] + Sum(found, P[k] \ {t})
    BY <2>3, <2>4, SumSplit
  <2>6. Sum(found, P[k] \ {t}) \in Nat
    <3>1. P[k] \ {t} \in SUBSET P[k]
      OBVIOUS
    <3> QED
      BY <2>4, <3>1, SumJoin
  <2>7. points[k] = Sum(found, P[k])
    BY <1>5
  <2> QED
    BY <2>3, <2>5, <2>6, <2>7
<1>8. Sum(points, K) = Sum(found, filled)
  <2>1. \A k, l \in K : k # l => P[k] \cap P[l] = {}
    BY <1>5
  <2>2. UNION {P[k] : k \in K} = filled
    <3>1. \A k \in K : P[k] = {t \in filled : bucket(t) = k}
      BY <1>5
    <3>2. \A t \in filled : bucket(t) \in K
      OBVIOUS
    <3> HIDE DEF P, K, bucket, filled
    <3> QED
      BY <3>1, <3>2
  <2>3. \A k \in K : P[k] \in SUBSET span
    BY <1>7
  <2>4. \A k \in K : points[k] = Sum(found, P[k])
    BY <1>5
  <2> HIDE DEF P, K, filled
  <2>5. Sum(points, K) = Sum(found, UNION {P[k] : k \in K})
    BY <1>2, <1>6, <2>1, <2>3, <2>4, SumParts
  <2> QED
    BY <2>2, <2>5, Zenon
<1>9. Sum(found, filled) = Sum(found, span)
  <2> DEFINE rest == span \ filled
  <2>1. filled \cap rest = {} /\ filled \cup rest = span /\ rest \in SUBSET span
    BY <1>3
  <2>2. \A t \in rest : found[t] = IF t \in {} THEN 1 ELSE 0
    <3>1. \A t \in rest : found[t] \in Nat /\ ~(found[t] > 0)
      BY <1>2
    <3> HIDE DEF rest
    <3> QED
      BY <3>1
  <2> HIDE DEF rest, filled
  <2>3. IsFiniteSet(rest)
    BY <1>2, <2>1, FS_Subset
  <2>4. Sum(found, rest) = 0
    <3>1. Sum(found, rest) = Cardinality({})
      BY <2>2, <2>3, SumOnes
    <3> QED
      BY <3>1, FS_EmptySet
  <2>5. Sum(found, filled \cup rest) = Sum(found, filled) + Sum(found, rest)
    BY <1>2, <1>3, <2>1, SumCup
  <2>6. Sum(found, filled) \in Nat
    BY <1>2, <1>3, SumJoin
  <2>7. Sum(found, filled) + Sum(found, rest) = Sum(found, filled)
    BY <2>4, <2>6
  <2> QED
    BY <2>1, <2>5, <2>7, Zenon
<1>10. Sum(found, span) = Metrics!Min({all, MaxRaw})
  <2>1. end + 1 \in start..end + 1 /\ start..(end + 1) - 1 = span
    BY <1>1 DEF span
  <2>2. Sum(found, start..(end + 1) - 1) = IF all <= MaxRaw THEN all ELSE MaxRaw
    BY <2>1, FoundBefore, Zenon DEF all, found
  <2>3. all \in Nat
    BY <2>1, BeforeIs, Zenon DEF all
  <2>4. Metrics!Min({all, MaxRaw}) = IF all <= MaxRaw THEN all ELSE MaxRaw
    BY <1>1, <2>3, MinOfTwo
  <2> QED
    BY <2>1, <2>2, <2>4, Zenon
<1>11. Metrics!SumFunction(points) = Sum(points, DOMAIN points)
  BY Zenon DEF Metrics!SumFunction, Sum
<1> HIDE DEF K, P, filled
<1>12. Metrics!SumFunction(points) = Metrics!Min({all, MaxRaw})
  BY <1>5, <1>8, <1>9, <1>10, <1>11, Zenon
<1>13. \A k \in DOMAIN points : points[k] > 0
  BY <1>5, <1>7
<1>14. Metrics!Cardinality(DOMAIN points) <= MaxBuckets + 1
  BY <1>5, <1>6, SameCount
<1> QED
  BY <1>12, <1>13, <1>14, Zenon DEF points, all

LEMMA StoreInvTrends == ASSUME StoreInv PROVE Metrics!TrendsAreHonest
<1>1. ASSUME NEW d \in Ids, NEW start \in Days, NEW end \in Days, start < end
      PROVE  Ranged(stored[d], start, end)
  BY <1>1 DEF StoreInv, StoreTypes, Table, Ranged
<1> QED
  BY <1>1, TrendsHold, StoreBounds, Zenon DEF Metrics!TrendsAreHonest

-----------------------------------------------------------------------------
(* The telemetry and the store in the appliance.                             *)

LEMMA MetricsInit == ASSUME MCInit PROVE Engine!Init /\ Metrics!Init
  BY Zenon DEF MCInit

\* A step of the appliance is a step of each of the two, or leaves it as it is.
LEMMA MetricsStep ==
    ASSUME [MCNext]_<<part, vars, timedVars, updateVars, settingsVars, offsiteVars, metricVars>>
    PROVE  [Engine!Next]_(Engine!vars) /\ [Metrics!Next]_(Metrics!vars)
<1>1. /\ Engine!Next \/ UNCHANGED pollVars
      /\ Metrics!Next \/ UNCHANGED storeVars
  BY Zenon DEF MCNext, metricVars
<1>2. UNCHANGED pollVars => UNCHANGED (Engine!vars)
  BY DEF pollVars, Engine!vars, Engine!clockVars, Engine!loopVars, Engine!sessionVars
<1>3. UNCHANGED storeVars => UNCHANGED (Metrics!vars)
  BY DEF storeVars, Metrics!vars
<1> QED
  BY <1>1, <1>2, <1>3, Zenon

LEMMA EngineInvAlways == ASSUME NamesDiffer PROVE MCSpec => []EngineInv
<1>1. MCInit => EngineInv
  BY MetricsInit, EngineStarts, Zenon
<1>2. EngineInv /\ [MCNext]_<<part, vars, timedVars, updateVars, settingsVars, offsiteVars,
                              metricVars>> => EngineInv'
  BY MetricsStep, EngineStep, Zenon
<1> QED
  BY <1>1, <1>2, PTL DEF MCSpec

LEMMA StoreInvAlways == MCSpec => []StoreInv
<1>1. MCInit => StoreInv
  BY MetricsInit, StoreStarts, Zenon
<1>2. StoreInv /\ [MCNext]_<<part, vars, timedVars, updateVars, settingsVars, offsiteVars,
                             metricVars>> => StoreInv'
  BY MetricsStep, StoreStep, Zenon
<1> QED
  BY <1>1, <1>2, PTL DEF MCSpec

\* Telemetry: with a name for every interface and a clock that is not set back, no rate is above
\* what the line carries, whatever counter wrapped or restarted, whatever poll was missed or lost.
THEOREM NoBogusSpikeAlways == ASSUME NamesDiffer PROVE MCSpec => []Engine!NoBogusSpike
<1>1. EngineInv => Engine!NoBogusSpike
  BY Zenon DEF EngineInv
<1> QED
  BY <1>1, EngineInvAlways, PTL

\* MetricsStore: a chart shows every sample of its range or, when the limit cuts the newest, as
\* many as the limit says, each in one bucket, no empty bucket, one more than MAX_BUCKETS at most.
THEOREM TrendsAreHonestAlways == MCSpec => []Metrics!TrendsAreHonest
<1>1. StoreInv => Metrics!TrendsAreHonest
  BY StoreInvTrends
<1> QED
  BY <1>1, StoreInvAlways, PTL

\* MetricsStore: unless an administrator prunes by hand, no sample within both settings, and within
\* the floor under disk pressure, is lost: to a prune, a merge, a deletion or a poll that fails.
THEOREM KeptLongEnoughAlways == MCSpec => Metrics!KeptLongEnough
<1>1. StoreInv /\ [MCNext]_<<part, vars, timedVars, updateVars, settingsVars, offsiteVars,
                             metricVars>>
      => [stored' # stored /\ ~overruled' => Metrics!Kept(Metrics!Promised)]_(Metrics!vars)
  BY MetricsStep, KeptStep, Zenon
<1> QED
  BY <1>1, StoreInvAlways, PTL DEF MCSpec, Metrics!KeptLongEnough

\* Telemetry and MetricsStore: the rates are possible ones, the charts show what is stored, and
\* nothing is lost that both settings keep.
THEOREM MetricsHoldAlways == ASSUME NamesDiffer PROVE MCSpec => MetricsHold
  BY NoBogusSpikeAlways, TrendsAreHonestAlways, KeptLongEnoughAlways, PTL DEF MetricsHold

=============================================================================
