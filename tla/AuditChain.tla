----------------------------- MODULE AuditChain -----------------------------
(***************************************************************************)
(* The hash-chained audit log (api/audit.py), an SQLite table that the     *)
(* containers of the appliance share.  The API, the worker and the         *)
(* scheduler append to it; the scheduler does so with its own copy of the  *)
(* code.  A maintenance script may repair the chain, a factory reset       *)
(* empties it, and under the strict retention profile the API redacts old  *)
(* rows when it starts.                                                    *)
(*                                                                         *)
(* A row commits to its data and to the hash of the row before it.  The    *)
(* hash is taken to be collision free, so it is modelled by what it        *)
(* commits to: the data of all rows up to its own.  No previous hash is    *)
(* the empty sequence.                                                     *)
(***************************************************************************)
EXTENDS Integers, Sequences

CONSTANTS
    Writers,    \* processes that append: the worker, the scheduler, and "api"
    MaxRows,    \* bound: a log this long is only reset, repaired or sealed by an event
    MaxCrashes  \* bound: times a process dies in the middle of something

ASSUME AuditChainAssumption ==
    /\ {"api", "gate", "none"} \cap Writers = {"api"}
    /\ {MaxRows, MaxCrashes} \subseteq Nat

\* A payload with personal identifiers, the same redacted, one without.
Data == {"personal", "redacted", "plain"}

Processes == Writers \cup {"gate"}

\* compute_hash(data, previous_hash)
Hash(data, previous) == Append(previous, data)

Row(data, previous) ==
    [data |-> data, prev |-> previous, hash |-> Hash(data, previous)]

VARIABLES
    log,        \* audit_log in id order
    lock,       \* who holds SQLite's write lock, "none" when nobody
    pc,         \* where each process is
    held,       \* the rows (or the last row) it has read
    raced,      \* history: rows were appended under the last retention pass
    crashes     \* counter for the bound

vars == <<log, lock, pc, held, raced, crashes>>

Init ==
    /\ log = <<>>
    /\ lock = "none"
    /\ pc = [p \in Processes |-> "idle"]
    /\ held = [p \in Processes |-> <<>>]
    /\ raced = FALSE
    /\ crashes = 0

Goto(p, place) == pc' = [pc EXCEPT ![p] = place]

\* BEGIN IMMEDIATE
Acquire(p) == lock = "none" /\ lock' = p
Holds(p)   == lock = p
Release    == lock' = "none"

\* SQLite commits a write when no other process holds the write lock.
CanCommit(p) == lock \in {p, "none"}

\* The previous hash of a row appended to these rows.
TailHash(rows) == IF rows = <<>> THEN <<>> ELSE rows[Len(rows)].hash

\* _rechain from the first row: the data stay, pointers and hashes are redone.
Rechained(rows) ==
    [i \in 1..Len(rows) |->
        Row(rows[i].data, [j \in 1..(i - 1) |-> rows[j].data])]

-----------------------------------------------------------------------------
(* log_event, and _audit_event of the scheduler.                           *)

\* Mutant: the tail is read before the lock is taken.
BeginUnlocked(p, from) ==
    /\ pc[p] = from
    /\ Goto(p, "read") /\ UNCHANGED <<log, lock, held, raced, crashes>>

Begin(p, from) ==
    /\ pc[p] = from
    /\ Acquire(p)
    /\ Goto(p, "read")
    /\ UNCHANGED <<log, held, raced, crashes>>

ReadTail(p) ==
    /\ pc[p] = "read"
    /\ held' = [held EXCEPT ![p] = log]
    /\ Goto(p, "insert")
    /\ UNCHANGED <<log, lock, raced, crashes>>

Insert(p, data) ==
    /\ pc[p] = "insert" /\ CanCommit(p)
    /\ log' = Append(log, Row(data, TailHash(held[p])))
    /\ Release
    /\ held' = [held EXCEPT ![p] = <<>>]
    /\ Goto(p, "idle")
    /\ UNCHANGED <<raced, crashes>>

-----------------------------------------------------------------------------
(* pseudonymize_audit_log, run by the API before it serves.  The session   *)
(* does not flush before a query, so nothing is locked until the commit    *)
(* writes the rows back.                                                   *)

\* Mutant: the payload is dropped instead of redacted.
RetentionSelectBlank(n) ==
    /\ pc["api"] = "idle" /\ n \in 1..Len(log) /\ Len(log) < MaxRows
    /\ held' = [held EXCEPT !["api"] =
                   [i \in 1..n |-> [log[i] EXCEPT !.data = "blank"]]]
    /\ Goto("api", "redacted")
    /\ UNCHANGED <<log, lock, raced, crashes>>

\* Select the rows older than the cutoff: an initial segment of the log.  Each
\* has an actor to redact, so the chain is redone from the first row.
RetentionSelect(n) ==
    /\ pc["api"] = "idle" /\ n \in 1..Len(log) /\ Len(log) < MaxRows
    /\ held' = [held EXCEPT !["api"] =
                   [i \in 1..n |-> [log[i] EXCEPT !.data =
                       IF @ = "personal" THEN "redacted" ELSE @]]]
    /\ Goto("api", "redacted")
    /\ UNCHANGED <<log, lock, raced, crashes>>

\* Read the rows after them and redo the chain in memory.  The rows already
\* loaded are not read again.
RetentionRechain ==
    /\ pc["api"] = "redacted"
    /\ held' = [held EXCEPT !["api"] =
                   Rechained(@ \o SubSeq(log, Len(@) + 1, Len(log)))]
    /\ Goto("api", "rechained")
    /\ UNCHANGED <<log, lock, raced, crashes>>

\* Mutant: the table is rewritten with the rows that were read.
RetentionOverwrite ==
    /\ pc["api"] = "rechained" /\ CanCommit("api")
    /\ log' = held["api"]
    /\ held' = [held EXCEPT !["api"] = <<>>]
    /\ Goto("api", "event")
    /\ UNCHANGED <<lock, raced, crashes>>

\* The commit updates each row that was read, by its id; a row appended in the
\* meantime stays as it is, and so does its pointer to the old hash.
RetentionCommit ==
    /\ pc["api"] = "rechained" /\ CanCommit("api")
    /\ log' = held["api"] \o SubSeq(log, Len(held["api"]) + 1, Len(log))
    /\ raced' = (Len(held["api"]) < Len(log))
    /\ held' = [held EXCEPT !["api"] = <<>>]
    /\ Goto("api", "event")
    /\ UNCHANGED <<lock, crashes>>

-----------------------------------------------------------------------------
(* repair_chain, run by hand.                                              *)

\* Mutant: the rows are read before the lock is taken.
RepairBeginUnlocked ==
    /\ pc["gate"] = "idle" /\ log # <<>>
    /\ Goto("gate", "repair")
    /\ held' = [held EXCEPT !["gate"] = log]
    /\ UNCHANGED <<log, lock, raced, crashes>>

RepairBegin ==
    /\ pc["gate"] = "idle" /\ log # <<>>
    /\ Acquire("gate")
    /\ Goto("gate", "repair")
    /\ held' = [held EXCEPT !["gate"] = log]
    /\ UNCHANGED <<log, raced, crashes>>

\* Rows were changed, and an event is due; or none was.
RepairCommit ==
    /\ pc["gate"] = "repair" /\ CanCommit("gate")
    /\ log' = Rechained(held["gate"]) \o SubSeq(log, Len(held["gate"]) + 1, Len(log))
    /\ Goto("gate", IF log' = log THEN "idle" ELSE "event")
    /\ raced' = FALSE
    /\ held' = [held EXCEPT !["gate"] = <<>>]
    /\ Release
    /\ UNCHANGED crashes

-----------------------------------------------------------------------------

\* factory_reset deletes the log in a transaction of its own, and then appends.
FactoryReset ==
    /\ pc["api"] = "idle" /\ CanCommit("api") /\ log # <<>>
    /\ log' = <<>>
    /\ raced' = FALSE
    /\ Goto("api", "event")
    /\ UNCHANGED <<lock, held, crashes>>

\* A process dies: SQLite rolls its transaction back and frees the lock.
Crash(p) ==
    /\ crashes < MaxCrashes /\ pc[p] # "idle"
    /\ crashes' = crashes + 1
    /\ lock' = IF Holds(p) THEN "none" ELSE lock
    /\ held' = [held EXCEPT ![p] = <<>>]
    /\ Goto(p, "idle")
    /\ UNCHANGED <<log, raced>>

Next ==
    \/ \E n \in 1..Len(log) : RetentionSelect(n)
    \/ RetentionRechain \/ RetentionCommit
    \/ RepairBegin \/ RepairCommit \/ FactoryReset
    \/ \E p \in Processes :
          \/ p \in Writers /\ Len(log) < MaxRows /\ Begin(p, "idle")
          \/ Begin(p, "event") \/ ReadTail(p) \/ Crash(p)
          \/ \E data \in Data \ {"redacted"} : Insert(p, data)

Spec == Init /\ [][Next]_vars

-----------------------------------------------------------------------------

RowType == [data : Data, prev : Seq(Data), hash : Seq(Data)]

TypeOK ==
    /\ log \in Seq(RowType)
    /\ lock \in Processes \cup {"none"}
    /\ pc \in [Processes -> {"idle", "read", "insert", "redacted", "rechained",
                             "repair", "event"}]
    /\ held \in [Processes -> Seq(RowType)]
    /\ raced \in BOOLEAN
    /\ crashes \in 0..MaxCrashes

\* What verify_chain accepts.
Consistent(rows) ==
    \A i \in 1..Len(rows) :
        /\ rows[i].prev = IF i = 1 THEN <<>> ELSE rows[i - 1].hash
        /\ rows[i].hash = Hash(rows[i].data, rows[i].prev)

\* Whatever processes append, die, repair or reset, and in whatever order, the
\* chain verifies, unless a row was appended between the reads and the commit of
\* the last retention pass: that is the only way to break it.
GreenUnlessRaced == ~raced => Consistent(log)

\* No event is lost or altered: outside a factory reset every step keeps every
\* row, and only ever redacts its personal data.
EventsAreKept ==
    [][\/ pc'["api"] = "event" /\ log' = <<>>
       \/ /\ Len(log) <= Len(log')
          /\ \A i \in 1..Len(log) :
                \/ log'[i].data = log[i].data
                \/ log[i].data = "personal" /\ log'[i].data = "redacted"]_vars

\* A repair leaves a chain that verifies, however it was broken and whoever
\* appends meanwhile.
RepairHeals ==
    [][pc["gate"] = "repair" /\ pc'["gate"] # "repair" /\ crashes' = crashes
       => Consistent(log')]_vars

\* What pseudonymize_audit_log says of itself: verify_chain stays green.
StaysGreen == Consistent(log)

=============================================================================
