---------------------------- MODULE OffsiteBackup ---------------------------
(***************************************************************************)
(* The offsite backup: the newest local archive is encrypted with a key of *)
(* the installation and uploaded, by the host's hourly cron job (a process *)
(* of its own) and by the "Run now" button (a thread of the API).          *)
(*                                                                         *)
(* They share files with the API's handlers: offsite.conf, which a save    *)
(* reads, changes and rewrites in place; the key, made by whoever needs it *)
(* first; the status record, read at a run's start and written at its end; *)
(* and the directory of encrypted copies.  The endpoint answers a listing  *)
(* in XML, as S3 does; the job reads it as JSON, so that it deletes        *)
(* nothing there.                                                          *)
(***************************************************************************)
EXTENDS Naturals, FiniteSets

CONSTANTS Jobs,         \* the processes that run the job: "cron" and "button"
          Savers,       \* the API's threads that change the settings
          MaxRuns, MaxSaves, MaxCrashes     \* bounds of the model

None == 0
Modes == {"off", "managed", "byo"}

VARIABLES
  conf,      \* offsite.conf
  creds,     \* offsite-credentials: the customer's access key and secret are there
  provisioned,  \* the managed profile is in the API's environment
  dek,       \* the key on file, None or its number
  archive,   \* a local archive to upload is there
  store,     \* the encrypted copies on the appliance
  remote,    \* the objects at the endpoint
  record,    \* the status record
  job,       \* Jobs -> the run in progress
  save,      \* Savers -> the save in progress
  shown,     \* history: the keys that were displayed, in the number of each
  raced,     \* history: two looked for the key before either had made it
  used       \* counters of the bounds

vars == <<conf, creds, provisioned, dek, archive, store, remote, record, job, save, shown,
          raced, used>>

Blank  == [mode |-> "off", plan |-> FALSE, bucket |-> FALSE, shown |-> FALSE]
Confs  == [mode : Modes, plan : BOOLEAN, bucket : BOOLEAN, shown : BOOLEAN]
NoJob  == [at |-> "idle", id |-> None, mode |-> "off", ok |-> None, key |-> None]
NoSave == [at |-> "idle", conf |-> Blank]

Init ==
  /\ conf = Blank /\ creds = FALSE /\ provisioned \in BOOLEAN
  /\ dek = None /\ archive = FALSE /\ store = {} /\ remote = {}
  /\ record = [mode |-> "off", ok |-> None, failed |-> FALSE]
  /\ job = [p \in Jobs |-> NoJob] /\ save = [h \in Savers |-> NoSave]
  /\ shown = {} /\ raced = FALSE
  /\ used = [runs |-> 0, saves |-> 0, crashes |-> 0, keys |-> 0]

Spend(what, max) == used[what] < max /\ used' = [used EXCEPT ![what] = @ + 1]

-----------------------------------------------------------------------------
(* The key: ensure_dek looks for it and, if it is not there, makes one.    *)

\* Mutant: a key on file is not recognised (it ends in white space, say).
HasKeyNever == FALSE

HasKey == dek # None

(* Those that found no key and are about to make one.                      *)
Making == {p \in Jobs : job[p].at = "make"} \cup {h \in Savers : save[h].at = "make"}

MakeKey ==
  /\ used' = [used EXCEPT !.keys = @ + 1] /\ dek' = used.keys + 1
  /\ raced' = (raced \/ Cardinality(Making) > 1)

-----------------------------------------------------------------------------
(* The job.                                                                *)

Target(c) ==
  \/ c.mode = "managed" /\ c.plan /\ provisioned
  \/ c.mode = "byo" /\ c.bucket /\ creds

Record(mode, ok, failed) == record' = [mode |-> mode, ok |-> ok, failed |-> failed]

(* Off, not due, no target and nothing to upload end the run at once.      *)
Start(p) ==
  /\ job[p].at = "idle" /\ Spend("runs", MaxRuns)
  /\ \/ conf.mode = "off" /\ Record("off", record.ok, record.failed) /\ UNCHANGED job
     \/ /\ conf.mode # "off" /\ p = "cron"           \* not the hour
        /\ Record(conf.mode, record.ok, record.failed) /\ UNCHANGED job
     \/ /\ conf.mode # "off" /\ ~(Target(conf) /\ archive)
        /\ Record(conf.mode, record.ok, TRUE) /\ UNCHANGED job
     \/ /\ conf.mode # "off" /\ Target(conf) /\ archive
        /\ job' = [job EXCEPT ![p] = [at |-> "key", id |-> used.runs + 1,
                                      mode |-> conf.mode, ok |-> record.ok, key |-> None]]
        /\ UNCHANGED record
  /\ UNCHANGED <<conf, creds, provisioned, dek, archive, store, remote, save, shown, raced>>

Key(p) ==
  /\ job[p].at = "key"
  /\ job' = [job EXCEPT ![p].at = IF HasKey THEN "encrypt" ELSE "make"]
  /\ UNCHANGED <<conf, creds, provisioned, dek, archive, store, remote, record, save, shown,
                 raced, used>>

Make(p) ==
  /\ job[p].at = "make" /\ MakeKey
  /\ job' = [job EXCEPT ![p].at = "encrypt"]
  /\ UNCHANGED <<conf, creds, provisioned, archive, store, remote, record, save, shown>>

(* encrypt_file_to reads the key once more; the copy is read back.         *)
Encrypt(p) ==
  /\ job[p].at = "encrypt"
  /\ store' = store \cup {[id |-> job[p].id, key |-> dek]}
  /\ job' = [job EXCEPT ![p].at = "upload", ![p].key = dek]
  /\ UNCHANGED <<conf, creds, provisioned, dek, archive, remote, record, save, shown, raced,
                 used>>

Mine(p) == [id |-> job[p].id, key |-> job[p].key]

(* A run that fails removes its copy and says so, from the record it read. *)
Fails(p) ==
  /\ store' = store \ {Mine(p)}
  /\ Record(job[p].mode, job[p].ok, TRUE)
  /\ job' = [job EXCEPT ![p] = NoJob]

(* What was encrypted is in memory: the object is whole if its copy is     *)
(* pruned meanwhile.  The answer to the upload may be lost.                *)
Upload(p) ==
  /\ job[p].at = "upload"
  /\ \/ /\ remote' = remote \cup {Mine(p)}
        /\ job' = [job EXCEPT ![p].at = "prune"] /\ UNCHANGED <<store, record>>
     \/ remote' \in {remote, remote \cup {Mine(p)}} /\ Fails(p)
  /\ UNCHANGED <<conf, creds, provisioned, dek, archive, save, shown, raced, used>>

(* _prune_local: the copies but the two newest go.                         *)
Pruned(files) == {f \in files : Cardinality({g \in files : g.id > f.id}) < 2}

(* Pruning, then the record.  A listing without an answer fails the run    *)
(* although the object is there.                                           *)
Finish(p) ==
  /\ job[p].at = "prune"
  /\ \/ /\ store' = Pruned(store)
        /\ Record(job[p].mode, job[p].id, FALSE)
        /\ job' = [job EXCEPT ![p] = NoJob]
     \/ Fails(p)
  /\ UNCHANGED <<conf, creds, provisioned, dek, archive, remote, save, shown, raced, used>>

(* The container stops in the middle of a run.                             *)
Crash ==
  /\ Spend("crashes", MaxCrashes)
  /\ job' = [p \in Jobs |-> NoJob] /\ save' = [h \in Savers |-> NoSave]
  /\ UNCHANGED <<conf, creds, provisioned, dek, archive, store, remote, record, shown, raced>>

-----------------------------------------------------------------------------
(* The settings.                                                           *)

(* Managed mode needs a valid plan key.                                    *)
Allowed(c) == c.mode = "managed" => c.plan

(* _update_backups: any of the fields; the credentials have a file of      *)
(* their own, which is written although the rest is refused.               *)
UpdateBackups(h) ==
  \E mode \in Modes, plan, bucket, keys \in BOOLEAN :
    LET c == [conf EXCEPT !.mode = mode, !.plan = plan, !.bucket = bucket] IN
    /\ save[h].at = "idle" /\ Spend("saves", MaxSaves)
    /\ creds' \in {creds, keys}
    /\ save' = IF Allowed(c) THEN [save EXCEPT ![h] = [at |-> "open", conf |-> c]]
               ELSE save
    /\ UNCHANGED <<conf, provisioned, dek, archive, store, remote, record, job, shown, raced>>

(* The recovery key is displayed once, after a confirmation.               *)
RecoveryKey(h) ==
  /\ save[h].at = "idle" /\ ~conf.shown /\ Spend("saves", MaxSaves)
  /\ save' = [save EXCEPT ![h] = [at |-> IF HasKey THEN "show" ELSE "make",
                                  conf |-> [conf EXCEPT !.shown = TRUE]]]
  /\ UNCHANGED <<conf, creds, provisioned, dek, archive, store, remote, record, job, shown,
                 raced>>

MakeShown(h) ==
  /\ save[h].at = "make" /\ MakeKey
  /\ save' = [save EXCEPT ![h].at = "show"]
  /\ UNCHANGED <<conf, creds, provisioned, archive, store, remote, record, job, shown>>

(* write_offsite_conf opens the file, which empties it ...                 *)
Truncate(h) ==
  /\ save[h].at \in {"open", "show"}
  /\ conf' = Blank
  /\ save' = [save EXCEPT ![h].at = IF @ = "show" THEN "reveal" ELSE "write"]
  /\ UNCHANGED <<creds, provisioned, dek, archive, store, remote, record, job, shown, raced,
                 used>>

(* ... and fills it; the key on file is what the answer holds.             *)
Fill(h) ==
  /\ save[h].at \in {"write", "reveal"}
  /\ conf' = save[h].conf
  /\ shown' = IF save[h].at = "reveal"
              THEN shown \cup {[nth |-> Cardinality(shown) + 1, key |-> dek]}
              ELSE shown
  /\ save' = [save EXCEPT ![h] = NoSave]
  /\ UNCHANGED <<creds, provisioned, dek, archive, store, remote, record, job, raced, used>>

(* The six-hourly local backup makes its first archive.                    *)
BackupApp ==
  /\ ~archive /\ archive' = TRUE
  /\ UNCHANGED <<conf, creds, provisioned, dek, store, remote, record, job, save, shown, raced,
                 used>>

-----------------------------------------------------------------------------

Run(p) == Start(p) \/ Key(p) \/ Make(p) \/ Encrypt(p) \/ Upload(p) \/ Finish(p)

Handler(h) == UpdateBackups(h) \/ RecoveryKey(h) \/ MakeShown(h) \/ Truncate(h) \/ Fill(h)

Next ==
  \/ \E p \in Jobs : Run(p)
  \/ \E h \in Savers : Handler(h)
  \/ Crash \/ BackupApp

Spec == Init /\ [][Next]_vars

-----------------------------------------------------------------------------
(* Properties.                                                             *)

Copies == [id : 1..MaxRuns, key : 1..(MaxRuns + MaxSaves)]

TypeOK ==
  /\ conf \in Confs /\ {creds, provisioned, archive, raced} \subseteq BOOLEAN
  /\ dek \in 0..(MaxRuns + MaxSaves)
  /\ store \subseteq Copies /\ remote \subseteq Copies
  /\ record \in [mode : Modes, ok : 0..MaxRuns, failed : BOOLEAN]
  /\ job \in [Jobs -> [at : {"idle", "key", "make", "encrypt", "upload", "prune"},
                       id : 0..MaxRuns, mode : Modes, ok : 0..MaxRuns,
                       key : 0..(MaxRuns + MaxSaves)]]
  /\ save \in [Savers -> [at : {"idle", "open", "make", "show", "write", "reveal"}, conf : Confs]]

\* Managed mode is on only with a valid plan key, also while a save rewrites the file.
ManagedNeedsPlan == conf.mode = "managed" => conf.plan

\* The recovery key is displayed once, whatever is saved and uploaded in between: only a
\* process that died within a rewrite of offsite.conf, whose flag is gone, shows it again.
KeyShownOnce == Cardinality(shown) <= 1 + used.crashes

\* Every copy and every object opens with the key on file, and so does the key the customer was
\* shown, unless two made a key at the same time.
KeyOpens == raced \/ \A f \in store \cup remote \cup shown : f.key = dek

\* The last success of the record is an object at the endpoint, and a copy to download is there.
SuccessIsThere == record.ok # None => (\E o \in remote : o.id = record.ok) /\ store # {}

-----------------------------------------------------------------------------
(* What the documentation says and the code does not keep.                 *)

\* The customer's key opens every copy.
KeyAlwaysOpens == \A f \in store \cup remote \cup shown : f.key = dek

\* "the key is never displayed again" (settings.py:1845).
KeyNeverShownAgain == Cardinality(shown) <= 1

\* A run that says it failed left nothing at the endpoint.
FailureIsTrue == [][\A p \in Jobs :
    job[p].at # "idle" /\ job'[p].at = "idle" /\ record'.failed
        => \A o \in remote' : o.id # job[p].id]_vars

=============================================================================
