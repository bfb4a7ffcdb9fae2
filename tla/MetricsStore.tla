---------------------------- MODULE MetricsStore ----------------------------
(***************************************************************************)
(* The metrics table: who writes samples into it (the engine's poll, the   *)
(* ingest route), who removes them (the scheduler's two prunes, the         *)
(* administrator's), how the rows follow their device, and the trends that  *)
(* are read from it (metrics_store.py, routes/metrics.py,                   *)
(* scheduler/main.py).                                                     *)
(*                                                                         *)
(* A row is counted by its device and its time; what it measures and its    *)
(* value are left out.                                                     *)
(***************************************************************************)
EXTENDS Integers, FiniteSetsExt, Functions

CONSTANTS
    Ids,            \* device ids
    Windows,        \* days a setting may have; 0: the category is not pruned
    Floor,          \* FLOOR_RETENTION_DAYS
    MaxRaw,         \* MAX_RAW_POINTS
    MaxBuckets,     \* MAX_BUCKETS
    MaxTime, MaxSamples, MaxUpsets    \* bounds: days, rows, changes of settings and disk

VARIABLES
    today,
    stored,     \* how many rows a device has of a time
    known,      \* the devices there are
    batch,      \* the samples a poll has collected: a device, and whether the value is a number
    keep,       \* TELEMETRY_RETENTION_DAYS and RETENTION_METRICS_DAYS
    tight,      \* free space is below TELEMETRY_DISK_MIN_FREE_PCT
    asked,      \* an administrator has pruned by hand
    changes

vars == <<today, stored, known, batch, keep, tight, asked, changes>>

Times == 0..MaxTime
Rows(d) == SumFunction(stored[d])
Size    == SumFunction([d \in Ids |-> Rows(d)])

TypeOK ==
    /\ today \in Times /\ changes \in 0..MaxUpsets
    /\ stored \in [Ids -> [Times -> 0..MaxSamples]]
    /\ known \subseteq Ids
    /\ \A d \in Ids \ known : Rows(d) = 0          \* the foreign key
    /\ \A s \in batch : s.device \in Ids /\ s.finite \in BOOLEAN
    /\ keep.telemetry \in Windows \ {0} /\ keep.metrics \in Windows
    /\ tight \in BOOLEAN /\ asked \in BOOLEAN

-----------------------------------------------------------------------------
(* Retention.                                                                *)

\* Mutant: the floor is taken while there is space.
retention_days_Swapped(days) == IF ~tight /\ Floor < days THEN Floor ELSE days

\* The window in force: under disk pressure the floor, if that is shorter.
retention_days(days) == IF tight /\ Floor < days THEN Floor ELSE days

Pruned(days) == [d \in Ids |-> [t \in Times |-> IF t < today - days THEN 0 ELSE stored[d][t]]]

-----------------------------------------------------------------------------
(* Trends.                                                                   *)

Before(row, start, t) == SumFunctionOnSet(row, start..t - 1)

\* The rows of a range in the order of time, up to the limit.
query_range(row, start, end) ==
    [t \in start..end |-> Min({row[t], Max({0, MaxRaw - Before(row, start, t)})})]

\* Buckets are aligned to the epoch; a bucket is the span over MaxBuckets, and one at least.
Bucket(t, start, end) ==
    IF end - start > MaxBuckets THEN (t * MaxBuckets) \div (end - start) ELSE t

\* Mutant: a bucket for every part of the range, filled or not.
trends_Filled(row, start, end) ==
    LET found == query_range(row, start, end)
    IN  [k \in {Bucket(t, start, end) : t \in start..end} |->
            SumFunctionOnSet(found, {t \in start..end : Bucket(t, start, end) = k})]

trends(row, start, end) ==
    LET found == query_range(row, start, end)
        filled == {t \in start..end : found[t] > 0}
    IN  [k \in {Bucket(t, start, end) : t \in filled} |->
            SumFunctionOnSet(found, {t \in filled : Bucket(t, start, end) = k})]

-----------------------------------------------------------------------------

Init ==
    /\ today = 0 /\ changes = 0
    /\ stored = [d \in Ids |-> [t \in Times |-> 0]]
    /\ known = Ids /\ batch = {}
    /\ keep \in [telemetry : Windows \ {0}, metrics : Windows] /\ tight = FALSE
    /\ asked = FALSE

NextDay ==
    /\ today < MaxTime /\ batch = {}
    /\ today' = today + 1
    /\ UNCHANGED <<stored, known, batch, keep, tight, asked, changes>>

With(rows, ds, t) == [d \in Ids |-> IF d \in ds THEN [rows[d] EXCEPT ![t] = @ + 1] ELSE rows[d]]

\* A poll has its device maps and its answers.
Collect ==
    /\ batch = {}
    /\ batch' \in SUBSET {[device |-> d, finite |-> v] : d \in known, v \in BOOLEAN} \ {{}}
    /\ \A d \in Ids : Cardinality({s \in batch' : s.device = d}) <= 1
    /\ Size + Cardinality(batch') <= MaxSamples
    /\ UNCHANGED <<today, stored, known, keep, tight, asked, changes>>

\* write_samples: what is not a number is left out, the rest is one insert.  If one of its
\* devices is gone by now, the insert fails and nothing is stored.
Write ==
    LET devices == {s.device : s \in {x \in batch : x.finite}}
    IN  /\ batch # {}
        /\ batch' = {}
        /\ stored' = IF devices \subseteq known THEN With(stored, devices, today) ELSE stored
        /\ UNCHANGED <<today, known, keep, tight, asked, changes>>

\* POST /metrics/ingest, with a time of the sender's.
Ingest ==
    /\ Size + Cardinality(batch) < MaxSamples
    /\ \E d \in known, t \in Times : stored' = With(stored, {d}, t)
    /\ UNCHANGED <<today, known, batch, keep, tight, asked, changes>>

\* A device that has samples cannot be deleted: the foreign key is enforced.
DeleteDevice ==
    \E d \in known :
        /\ Rows(d) = 0
        /\ known' = known \ {d}
        /\ UNCHANGED <<today, stored, batch, keep, tight, asked, changes>>

\* Mutant: a duplicate's samples are deleted with it.
Repointed_Dropped(from, to) == [stored EXCEPT ![from] = [t \in Times |-> 0]]

\* The duplicate's samples go to the record that stays.
Repointed(from, to) ==
    [stored EXCEPT ![to] = [t \in Times |-> stored[to][t] + stored[from][t]],
                   ![from] = [t \in Times |-> 0]]

Merge ==
    \E to, from \in known :
        /\ to # from
        /\ stored' = Repointed(from, to)
        /\ known' = known \ {from}
        /\ UNCHANGED <<today, batch, keep, tight, asked, changes>>

-----------------------------------------------------------------------------
(* The prunes, and what changes their windows.                               *)

PruneTelemetry ==
    /\ stored' = Pruned(retention_days(keep.telemetry))
    /\ UNCHANGED <<today, known, batch, keep, tight, asked, changes>>

PruneRetention ==
    /\ keep.metrics > 0
    /\ stored' = Pruned(keep.metrics)
    /\ UNCHANGED <<today, known, batch, keep, tight, asked, changes>>

\* POST /metrics/prune, with days of its own.
PruneByHand ==
    \E days \in Windows \ {0} :
        /\ stored' = Pruned(retention_days(days))
        /\ asked' = TRUE
        /\ UNCHANGED <<today, known, batch, keep, tight, changes>>

SetRetention ==
    /\ changes < MaxUpsets /\ changes' = changes + 1
    /\ keep' \in [telemetry : Windows \ {0}, metrics : Windows] \ {keep}
    /\ UNCHANGED <<today, stored, known, batch, tight, asked>>

DiskChanges ==
    /\ changes < MaxUpsets /\ changes' = changes + 1
    /\ tight' = ~tight
    /\ UNCHANGED <<today, stored, known, batch, keep, asked>>

Next ==
    \/ NextDay \/ Collect \/ Write \/ Ingest \/ DeleteDevice \/ Merge
    \/ PruneTelemetry \/ PruneRetention \/ PruneByHand \/ SetRetention \/ DiskChanges

Spec == Init /\ [][Next]_vars

-----------------------------------------------------------------------------

Promised ==
    Min({keep.telemetry} \cup ({keep.metrics} \ {0}) \cup (IF tight THEN {Floor} ELSE {}))

Count(rows, t) == SumFunction([d \in Ids |-> rows[d][t]])

Kept(days) == \A t \in Times : t >= today - days => Count(stored', t) >= Count(stored, t)

\* Unless an administrator prunes by hand, no sample within both retention settings, and within
\* the floor under disk pressure, is ever lost: not by the scheduler, nor by a merge, a deletion,
\* or a poll that fails.
KeptLongEnough == [][stored' # stored /\ ~asked' => Kept(Promised)]_vars

\* A chart shows every sample of its range, unless the limit cuts the newest, each in one bucket
\* and no bucket without samples.  There are at most MaxBuckets + 1 of them, since a range need
\* not begin where a bucket does.
TrendsAreHonest ==
    \A d \in Ids, start, end \in Times :
        start < end =>
            LET points == trends(stored[d], start, end)
                all    == Before(stored[d], start, end + 1)
            IN  /\ \A k \in DOMAIN points : points[k] > 0
                /\ SumFunction(points) = Min({all, MaxRaw})
                /\ Cardinality(DOMAIN points) <= MaxBuckets + 1

\* "At most MAX_BUCKETS points" (metrics_store.py:36).  Refuted.
AtMostMaxBuckets ==
    \A d \in Ids, start, end \in Times :
        start < end => Cardinality(DOMAIN trends(stored[d], start, end)) <= MaxBuckets

\* The store keeps what TELEMETRY_RETENTION_DAYS says (telemetry.py:14).  Refuted: the days of the
\* compliance category apply as well.
SettingIsKept == [][stored' # stored /\ ~asked' /\ ~tight => Kept(keep.telemetry)]_vars

\* "A bad collector sample must never take the engine down": the others' samples of a poll are
\* stored (metrics_store.py:51-52).  Refuted: a device that was deleted or merged while the poll
\* ran fails the whole insert.
BadSampleIsSkipped ==
    [][batch # {} /\ batch' = {} =>
          \A s \in batch : s.finite /\ s.device \in known =>
              stored'[s.device][today] = stored[s.device][today] + 1]_vars

\* A device can be deleted (routes/devices.py:1003).  Refuted: not once it has been polled.
DeletionWorks == \A d \in known : ENABLED (DeleteDevice /\ known' = known \ {d})

=============================================================================
