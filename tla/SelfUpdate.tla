----------------------------- MODULE SelfUpdate -----------------------------
(***************************************************************************)
(* How the appliance replaces its own release: the API's check and request *)
(* files (routes/updates.py), the scheduler that asks for an update in its *)
(* window and reports how it ended (scheduler/main.py), and the host       *)
(* service that backs up, applies, rebuilds and restores                   *)
(* (scripts/barenoc-self-update.sh), with power losses, lost replies and   *)
(* restarts of the scheduler.                                              *)
(***************************************************************************)
EXTENDS Integers

CONSTANTS
    MaxRelease,     \* bound: releases published
    MaxDay,         \* bound: days
    MaxRuns,        \* bound: runs of the host service
    MaxFaults       \* bound: power losses, lost replies, restores that do not build

Releases == 1..MaxRelease
Runs     == 1..MaxRuns
None     == 0               \* no release, no request
Part     == -1              \* a tree that is copied in part
Trees    == Releases \cup {None, Part}

Modes == {"recurring", "onetime"}

\* Keys of last_triggered and of the marker files.
NoKey == <<"none", 0>>
Keys  == {NoKey, <<"onetime", 0>>} \cup ({"day"} \X (0..MaxDay)) \cup ({"done", "failed"} \X Runs)

NoRun  == [at |-> "idle", want |-> None]
Phases == {"idle", "download", "backup", "extract", "apply", "rebuild", "health", "verify",
           "restore", "rollback", "rebuild back"}

VARIABLES
    latest,     \* the newest release of the manifest
    clock,      \* the day, and whether it is the schedule's hour
    sched,      \* update_schedule.conf: mode and enabled
    status,     \* status.json: what the last check found
    request,    \* update_request.json: the release asked for
    rollback,   \* rollback_request.json is there
    trigger,    \* systemd has seen a request file change
    tree,       \* the release in /opt/barenoc
    previous,   \* the release in .previous
    running,    \* the release that the containers run
    host,       \* the service: its phase and the release it wants
    progress,   \* progress.json: stage and time, the time as the number of the run
    memory,     \* last_triggered of the scheduler
    marker,     \* its marker files
    asked,      \* history: the day of the schedule's last request
    mails,      \* history: mails about a run that ended, per run
    faults      \* faults so far

api   == <<latest, clock, sched, status, request, rollback, trigger>>
disk  == <<tree, previous, running, host, progress>>
watch == <<memory, marker, asked, mails>>
vars  == <<api, disk, watch, faults>>

-----------------------------------------------------------------------------
(* routes/updates.py                                                         *)

\* _run_check: an update is available when the manifest's release is newer.
Checked == [there |-> TRUE, latest |-> latest, available |-> latest > running]

\* POST /check, which only the dashboard asks for.
UpdateCheck ==
    /\ status' = Checked
    /\ UNCHANGED <<latest, clock, sched, request, rollback, trigger, disk, watch, faults>>

\* The file is written; systemd may miss a change while the service runs.
Writes == trigger' = TRUE \/ (host.at # "idle" /\ trigger' = trigger)

\* What POST /now goes by: the last check, or a new one when there has been none.
Known == IF status.there THEN status ELSE Checked

UpdateNow ==
    /\ Known.available
    /\ request' = Known.latest
    /\ Writes

ByHand ==
    /\ UpdateNow
    /\ status' = Known
    /\ UNCHANGED <<latest, clock, sched, rollback, disk, watch, faults>>

UpdateRollback ==
    /\ rollback' = TRUE
    /\ Writes
    /\ UNCHANGED <<latest, clock, sched, status, request, disk, watch, faults>>

\* POST /schedule with a recurring one, and /schedule/cancel.
SetSchedule ==
    /\ sched' \in {[mode |-> "recurring", enabled |-> TRUE], [sched EXCEPT !.enabled = FALSE]}
    /\ UNCHANGED <<latest, clock, status, request, rollback, trigger, disk, watch, faults>>

-----------------------------------------------------------------------------
(* The scheduler: check_update_schedule, check_update_progress, restarts.    *)

Key == IF sched.mode = "onetime" THEN <<"onetime", 0>> ELSE <<"day", clock.day>>

\* The schedule is due and the guard does not know its key.
Due == /\ sched.enabled
       /\ sched.mode = "onetime" \/ clock.hour
       /\ memory.update # Key

\* _queue_update: the guard is set when the API has answered, and not without a release;
\* a one-time schedule is then completed.  The reply to either request may be lost.
Queue ==
    /\ Due
    /\ status' = Known
    /\ \/ /\ ~Known.available
          /\ UNCHANGED <<sched, request, trigger, memory, asked, faults>>
       \/ /\ UpdateNow
          /\ asked' = clock.day
          /\ \/ /\ memory' = [memory EXCEPT !.update = Key]
                /\ sched' = [sched EXCEPT !.enabled = sched.mode = "recurring"]
                /\ UNCHANGED faults
             \/ /\ faults < MaxFaults /\ faults' = faults + 1
                /\ memory' \in {memory, [memory EXCEPT !.update = Key]}
                /\ UNCHANGED sched
    /\ UNCHANGED <<latest, clock, rollback, disk, marker, mails>>

Ended == progress.stage \in {"done", "failed"}
EndKey == <<progress.stage, progress.at>>

\* _transient_done is true of a key that neither the memory nor the marker file has.
TransientNew(which) == memory[which] # EndKey /\ marker[which] # EndKey

\* A mail goes out once for every run that ended, and a report for one that failed; a
\* reply that is lost leaves both unmarked.  The memory's key "update" is the schedule's.
Notify(which) ==
    /\ Ended
    /\ which = "report" => progress.stage = "failed"
    /\ TransientNew(which)
    /\ mails' = [mails EXCEPT ![which][progress.at] = @ + 1]
    /\ \/ /\ memory' = [memory EXCEPT ![which] = EndKey]
          /\ marker' = [marker EXCEPT ![which] = EndKey]
          /\ UNCHANGED faults
       \/ /\ faults < MaxFaults /\ faults' = faults + 1
          /\ UNCHANGED <<memory, marker>>
    /\ UNCHANGED <<api, disk, asked>>

\* What the marker says becomes the memory's.
Remember(which) ==
    /\ Ended /\ marker[which] = EndKey /\ memory[which] # EndKey
    /\ which = "report" => progress.stage = "failed"
    /\ memory' = [memory EXCEPT ![which] = EndKey]
    /\ UNCHANGED <<api, disk, marker, asked, mails, faults>>

NoMemory == [update |-> NoKey, report |-> NoKey]

RestartScheduler ==
    /\ memory # NoMemory
    /\ memory' = NoMemory
    /\ UNCHANGED <<api, disk, marker, asked, mails, faults>>

-----------------------------------------------------------------------------
(* scripts/barenoc-self-update.sh                                            *)

Enter(phase) == host' = [host EXCEPT !.at = phase]
Unwatched == UNCHANGED <<latest, clock, sched, status, watch>>

\* The service ends: the request is consumed and the terminal stage written.
End(stage) == /\ host' = NoRun
              /\ request' = None
              /\ progress' = [progress EXCEPT !.stage = stage]

\* The path unit starts the service; a rollback comes first and an update next time.
Start ==
    /\ host.at = "idle" /\ trigger /\ trigger' = FALSE
    /\ \/ /\ rollback /\ progress.at < MaxRuns
          /\ rollback' = FALSE
          /\ progress' = [stage |-> "rollback", at |-> progress.at + 1]
          /\ host' = [at |-> "rollback", want |-> previous]
       \/ /\ ~rollback /\ request # None /\ progress.at < MaxRuns
          /\ progress' = [stage |-> "snapshot", at |-> progress.at + 1]
          /\ host' = [at |-> "download", want |-> request]
          /\ UNCHANGED rollback
       \/ /\ ~rollback /\ request = None
          /\ UNCHANGED <<rollback, progress, host>>
    /\ UNCHANGED <<request, tree, previous, running, faults>> /\ Unwatched

\* Download, checksum, layout, version and signature: all hold, or nothing is touched.
Download ==
    /\ host.at = "download"
    /\ \/ Enter("backup") /\ previous' = Part /\ UNCHANGED <<request, progress>>
       \/ End("failed") /\ UNCHANGED previous
    /\ UNCHANGED <<rollback, trigger, tree, running, faults>> /\ Unwatched

Backup ==
    /\ host.at = "backup" /\ Enter("extract")
    /\ previous' = tree
    /\ UNCHANGED <<request, rollback, trigger, tree, running, progress, faults>> /\ Unwatched

\* The backup is removed again when the archive cannot be extracted.
Extract ==
    /\ host.at = "extract"
    /\ \/ Enter("apply") /\ tree' = Part /\ UNCHANGED <<previous, request, progress>>
       \/ End("failed") /\ previous' = None /\ UNCHANGED tree
    /\ UNCHANGED <<rollback, trigger, running, faults>> /\ Unwatched

\* The tree flips to the release, or the guard on its version.py restores the backup.
Apply ==
    /\ host.at = "apply"
    /\ \/ Enter("rebuild") /\ tree' = host.want
       \/ Enter("restore") /\ UNCHANGED tree
    /\ UNCHANGED <<request, rollback, trigger, previous, running, progress, faults>> /\ Unwatched

Rebuild ==
    /\ host.at = "rebuild"
    /\ \/ Enter("health") /\ running' = tree
       \/ Enter("restore") /\ UNCHANGED running
    /\ UNCHANGED <<request, rollback, trigger, tree, previous, progress, faults>> /\ Unwatched

\* When the new release answers, the scheduler is recreated before the verification.
Health ==
    /\ host.at = "health"
    /\ \/ Enter("verify") /\ memory' = NoMemory
       \/ Enter("restore") /\ UNCHANGED memory
    /\ UNCHANGED <<latest, clock, sched, status, request, rollback, trigger, tree, previous,
                   running, progress, marker, asked, mails, faults>>

\* A verification that fails is reported, the release stays.
Verify ==
    /\ host.at = "verify"
    /\ End("done") \/ End("failed")
    /\ UNCHANGED <<rollback, trigger, tree, previous, running, faults>> /\ Unwatched

\* What .previous holds is built, unless it does not build.
Rebuilt ==
    \/ /\ tree' \in Releases
       /\ running' = tree' /\ UNCHANGED faults
    \/ /\ faults < MaxFaults /\ faults' = faults + 1
       /\ UNCHANGED running

\* Mutant: the tree is rebuilt as it is.
RestoreNothing ==
    /\ host.at = "restore" /\ End("failed")
    /\ UNCHANGED tree /\ (running' = running \/ running' = tree) /\ UNCHANGED faults
    /\ UNCHANGED <<rollback, trigger, previous>> /\ Unwatched

\* restore_previous_release.
Restore ==
    /\ host.at = "restore" /\ End("failed")
    /\ tree' = previous
    /\ Rebuilt
    /\ UNCHANGED <<rollback, trigger, previous>> /\ Unwatched

Rollback ==
    /\ host.at = "rollback"
    /\ \/ /\ previous = None /\ UNCHANGED <<tree, request>>
          /\ host' = NoRun /\ progress' = [progress EXCEPT !.stage = "failed"]
       \/ /\ previous # None /\ tree' = previous
          /\ Enter("rebuild back") /\ UNCHANGED <<request, progress>>
    /\ UNCHANGED <<rollback, trigger, previous, running, faults>> /\ Unwatched

\* Any answer of the health check ends the rollback well, whatever runs.
RebuildBack ==
    /\ host.at = "rebuild back"
    /\ UNCHANGED tree /\ Rebuilt
    /\ host' = NoRun
    /\ \E stage \in {"done", "failed"} : progress' = [progress EXCEPT !.stage = stage]
    /\ UNCHANGED <<request, rollback, trigger, previous>> /\ Unwatched

Host == \/ Start \/ Download \/ Backup \/ Extract \/ Apply \/ Rebuild \/ Health \/ Verify
        \/ Restore \/ Rollback \/ RebuildBack

\* The containers come back as they were; nothing looks at a request file that is there.
PowerLoss ==
    /\ faults < MaxFaults /\ faults' = faults + 1
    /\ host' = NoRun /\ trigger' = FALSE /\ memory' = NoMemory
    /\ UNCHANGED <<latest, clock, sched, status, request, rollback, tree, previous, running,
                   progress, marker, asked, mails>>

-----------------------------------------------------------------------------

Publish ==
    /\ latest < MaxRelease /\ latest' = latest + 1
    /\ UNCHANGED <<clock, sched, status, request, rollback, trigger, disk, watch, faults>>

\* The schedule's hour comes and goes once a day.
Elapse ==
    /\ clock' = IF clock.hour THEN [day |-> clock.day + 1, hour |-> FALSE]
                ELSE [clock EXCEPT !.hour = TRUE]
    /\ clock'.day <= MaxDay
    /\ UNCHANGED <<latest, sched, status, request, rollback, trigger, disk, watch, faults>>

Init ==
    /\ latest = 1
    /\ clock = [day |-> 0, hour |-> FALSE]
    /\ sched \in [mode : Modes, enabled : {TRUE}]
    /\ status = [there |-> FALSE, latest |-> None, available |-> FALSE]
    /\ request = None /\ rollback = FALSE /\ trigger = FALSE
    /\ tree = 1 /\ previous = None /\ running = 1
    /\ host = NoRun
    /\ progress = [stage |-> "none", at |-> 0]
    /\ memory = NoMemory /\ marker = NoMemory
    /\ asked = None - 1
    /\ mails = [which \in {"update", "report"} |-> [r \in Runs |-> 0]]
    /\ faults = 0

Scheduler == Queue \/ \E which \in {"update", "report"} : Notify(which) \/ Remember(which)

Next == \/ UpdateCheck \/ ByHand \/ UpdateRollback \/ SetSchedule
        \/ Scheduler \/ RestartScheduler
        \/ Host \/ PowerLoss
        \/ Publish \/ Elapse

Spec == Init /\ [][Next]_vars /\ WF_vars(Host) /\ WF_vars(Scheduler)

-----------------------------------------------------------------------------

TypeOK ==
    /\ latest \in Releases
    /\ clock \in [day : 0..MaxDay, hour : BOOLEAN]
    /\ sched \in [mode : Modes, enabled : BOOLEAN]
    /\ status \in [there : BOOLEAN, latest : Releases \cup {None}, available : BOOLEAN]
    /\ request \in Releases \cup {None} /\ rollback \in BOOLEAN /\ trigger \in BOOLEAN
    /\ tree \in Trees \ {None} /\ previous \in Trees /\ running \in Releases
    /\ host \in [at : Phases, want : Trees]
    /\ progress.at \in 0..MaxRuns
    /\ {memory.update, memory.report, marker.update, marker.report} \subseteq Keys

\* An update that fails anywhere leaves the release that ran before it, in the tree and in
\* the containers, unless the power was lost or the restored release does not build.
FailureRestores ==
    host.at = "idle" /\ faults = 0 => tree = running

\* A run that ended is mailed once and reported once, over restarts of the scheduler too;
\* only a lost reply repeats it.
NotifiedOnce ==
    \A which \in {"update", "report"} : \A r \in Runs : mails[which][r] <= 1 + faults

\* "At most once per calendar day."
OncePerDay == [][Queue /\ request' # None /\ memory'.update # memory.update
                    => asked # clock.day]_vars

\* "only fire when an update is available": the host is asked for a newer release only.
RequestIsNewer == [][request' # request /\ request' # None => request' > running]_vars

\* "previous release restored".
RollbackRestores == [][host.at = "rebuild back" /\ progress'.stage = "done"
                          => running' = host.want]_vars

=============================================================================
