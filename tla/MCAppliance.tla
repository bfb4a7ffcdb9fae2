----------------------------- MODULE MCAppliance ----------------------------
(***************************************************************************)
(* What the appliance keeps of itself, for TLC: the audit chain, the       *)
(* scheduler, the self-update, the settings, the offsite backup and the    *)
(* telemetry with its store.  In each behaviour one of them runs and the   *)
(* others stay at one of their initial states; what they have to do with   *)
(* each other (the scheduler queues updates) is in the modules themselves. *)
(***************************************************************************)
EXTENDS AuditChain, FiniteSets

CONSTANTS Restarts, MaxPeriod, MaxWindowsRuns, MaxSchedulerFaults,
          MaxRelease, MaxDay, MaxUpdateRuns, MaxUpdateFaults,
          Savers, Plain, Injected, Providers, OnPrem, Serial, MaxSaves, MaxRestarts,
          MaxUploads, MaxChanges, MaxStops,
          Interfaces, NameOf, Line, Width, MaxTicks, MaxLag, MaxUpsets,
          Ids, Windows, Floor, MaxRaw, MaxBuckets, MaxDays, MaxSamples

\* Bounds are numbers, "none" stands for no setting, a counter counts modulo something, the table
\* has finitely many devices, and the days a category is kept may be none or two.
ASSUME ApplianceAssumption ==
    /\ {MaxPeriod, MaxUpdateRuns, MaxUploads, MaxChanges, MaxStops,
        Line, MaxTicks, MaxLag, MaxUpsets, Floor, MaxRaw, MaxDays, MaxSamples} \subseteq Nat
    /\ "none" \notin Plain
    /\ Interfaces \subseteq Nat /\ Width \in Nat \ {0, 1}
    /\ IsFiniteSet(Ids) /\ {0, 2} \subseteq Windows /\ Windows \subseteq Nat
    /\ MaxBuckets \in Nat \ {0}

\* The bounds that only the types depend on; there is a first release.
ASSUME BoundsAssumption ==
    /\ {MaxWindowsRuns, MaxSchedulerFaults, MaxDay} \subseteq Nat
    /\ MaxRelease \in Nat \ {0}

Eth0 == <<"eth0">>

VARIABLES
    part,                                                       \* what runs
    proc, login, failing, logged, incident, period, due, mark, guard, scanned, jobs, tickets,
    spoiled, device, cool, timedFaults,
    latest, clock, sched, status, request, rollback, trigger, tree, previous, running, host,
    progress, memory, marker, asked, mails, updateFaults,
    env, secret, web, s, kept, before, saves, restarts,
    conf, creds, provisioned, dek, archive, store, remote, record, job, save, shown, twoMade, used,
    now, octets, prev, at, woke, last, read, written, session, password, account, back, upsets,
    today, stored, known, batch, keep, tight, overruled, changes

timedVars    == <<proc, login, failing, logged, incident, period, due, mark, guard, scanned,
                  jobs, tickets, spoiled, device, cool, timedFaults>>
updateVars   == <<latest, clock, sched, status, request, rollback, trigger, tree, previous,
                  running, host, progress, memory, marker, asked, mails, updateFaults>>
settingsVars == <<env, secret, web, s, kept, before, saves, restarts>>
offsiteVars  == <<conf, creds, provisioned, dek, archive, store, remote, record, job, save, shown,
                  twoMade, used>>
pollVars     == <<now, octets, prev, at, woke, last, read, written, session, password, account,
                  back, upsets>>
storeVars    == <<today, stored, known, batch, keep, tight, overruled, changes>>
metricVars   == <<pollVars, storeVars>>

-----------------------------------------------------------------------------
(* The instances.                                                            *)

Timed == INSTANCE Scheduler WITH
    MaxRuns <- MaxWindowsRuns, MaxFaults <- MaxSchedulerFaults,
    faults <- timedFaults

Update == INSTANCE SelfUpdate WITH
    MaxRuns <- MaxUpdateRuns, MaxFaults <- MaxUpdateFaults, faults <- updateFaults

Stored == INSTANCE Settings

\* The cron job and the button, and one thread that saves.
Offsite == INSTANCE OffsiteBackup WITH
    Jobs <- {"cron", "button"}, Savers <- {"admin"}, raced <- twoMade,
    MaxRuns <- MaxUploads, MaxSaves <- MaxChanges, MaxCrashes <- MaxStops

\* A clock that is not set back, and counters near their end.
Engine == INSTANCE Telemetry WITH MaxTime <- MaxTicks, MaxBack <- 0, saved <- password

Metrics == INSTANCE MetricsStore WITH
    MaxTime <- MaxDays, asked <- overruled

-----------------------------------------------------------------------------

MCInit ==
    /\ part \in {"audit", "scheduler", "update", "settings", "offsite", "telemetry", "metrics"}
    /\ Init /\ Timed!Init /\ Stored!Init
    /\ Offsite!Init /\ (part # "offsite" => provisioned)
    /\ Update!Init /\ (part # "update" => sched.mode = "recurring")
    /\ Engine!Init /\ octets = [i \in Interfaces |-> Width - 2]
    /\ Metrics!Init /\ (part # "metrics" => keep = [telemetry |-> 2, metrics |-> 0])

MCNext ==
    \/ /\ part = "audit" /\ Next
       /\ UNCHANGED <<part, timedVars, updateVars, settingsVars, offsiteVars, metricVars>>
    \/ /\ part = "scheduler" /\ Timed!Next
       /\ UNCHANGED <<part, vars, updateVars, settingsVars, offsiteVars, metricVars>>
    \/ /\ part = "update" /\ Update!Next
       /\ UNCHANGED <<part, vars, timedVars, settingsVars, offsiteVars, metricVars>>
    \/ /\ part = "settings" /\ Stored!Next
       /\ UNCHANGED <<part, vars, timedVars, updateVars, offsiteVars, metricVars>>
    \/ /\ part = "offsite" /\ Offsite!Next
       /\ UNCHANGED <<part, vars, timedVars, updateVars, settingsVars, metricVars>>
    \/ /\ part = "telemetry" /\ Engine!Next
       /\ UNCHANGED <<part, vars, timedVars, updateVars, settingsVars, offsiteVars, storeVars>>
    \/ /\ part = "metrics" /\ Metrics!Next
       /\ UNCHANGED <<part, vars, timedVars, updateVars, settingsVars, offsiteVars, pollVars>>

MCSpec ==
    /\ MCInit
    /\ [][MCNext]_<<part, vars, timedVars, updateVars, settingsVars, offsiteVars, metricVars>>

-----------------------------------------------------------------------------

\* Every variable of every part has its type.
ApplianceTypeOK ==
    /\ TypeOK /\ Timed!TypeOK /\ Update!TypeOK /\ Offsite!TypeOK
    /\ Engine!TypeOK /\ (part = "metrics" => Metrics!TypeOK)

\* Scheduler: a Windows run is queued once in its period, over restarts.
OncePerPeriod == Timed!OncePerPeriod

\* SelfUpdate: an update that fails leaves the release that ran before it, and a run that ended
\* is mailed once, over restarts of the scheduler.
UpdatesHold == Update!FailureRestores /\ Update!NotifiedOnce

\* Settings: settings that belong together are never seen apart, their copies follow, no save
\* is lost to another section's, and a preset can be taken back.
SettingsHold ==
    /\ Stored!SettingsAgree /\ Stored!WebFlagFollows
    /\ Stored!SavedIsKept /\ Stored!PresetIsReversible

\* OffsiteBackup: the customer's key is displayed once and opens every copy, the record of a success
\* is true, and a mode that needs a plan is on only with one.
BackupsHold ==
    /\ Offsite!ManagedNeedsPlan /\ Offsite!KeyShownOnce
    /\ Offsite!KeyOpens /\ Offsite!SuccessIsThere

\* Telemetry: no sample shows a rate that an interface could not have had.  MetricsStore: charts
\* show what is stored, and nothing is lost that both settings keep.
MetricsHold ==
    /\ []Engine!NoBogusSpike /\ [](part = "metrics" => Metrics!TrendsAreHonest)
    /\ Metrics!KeptLongEnough

=============================================================================
