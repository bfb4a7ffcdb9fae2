-------------------------- MODULE DeviceJobsProofs --------------------------
(***************************************************************************)
(* Jobs for endpoint agents, for any number of devices, jobs, resets,      *)
(* faults and losses: a result belongs to its job, is kept until it is     *)
(* stored, and a command is repeated by faults of the agent only.          *)
(***************************************************************************)
EXTENDS DeviceJobs, TLAPS

-----------------------------------------------------------------------------
(* The inductive invariant.                                                *)

\* A row or an entry that is there has a nonce that was issued, and one that
\* is not there has none.
NoncesAreIssued ==
    /\ \A i \in Ids :
          IF jobs[i].st = "none" THEN jobs[i] = NoRow
          ELSE jobs[i].nonce \in 1..issued /\ jobs[i].owner \in Devices
    /\ \A d \in Devices, i \in Ids :
          IF ledger[d][i].st = "none" THEN ledger[d][i] = NoEntry
          ELSE ledger[d][i].nonce \in 1..issued
    /\ \A d \in Devices : \A job \in offered[d] : job.nonce \in 1..issued

\* The command with nonce n is known as job i of device d: in the table, in the
\* reply to a pull, or in the agent's ledger.
KnownAs(d, i, n) ==
    \/ jobs[i].owner = d /\ jobs[i].nonce = n
    \/ [id |-> i, nonce |-> n] \in offered[d]
    \/ ledger[d][i].nonce = n

\* A nonce belongs to one job of one device.
NoncesAreUnique ==
    \A n \in Nonces, d, e \in Devices, i, j \in Ids :
        KnownAs(d, i, n) /\ KnownAs(e, j, n) => d = e /\ i = j

\* The agent works through entries of the status it has listed them by, and only
\* while it runs or posts.
BatchIsListed ==
    \A d \in Devices :
        /\ \A i \in batch[d] : \/ pc[d] = "run" /\ ledger[d][i].st = "pending"
                               \/ pc[d] = "post" /\ ledger[d][i].st = "executed"
        /\ current[d] \in batch[d] \cup {0}

\* What is marked executed, or about to be, was handled.
ExecutedWasHandled ==
    \A d \in Devices, i \in Ids :
        \/ ledger[d][i].st \in {"executed", "reported"}
        \/ pc[d] = "run" /\ current[d] = i
        => ledger[d][i].nonce \in handled[d]

\* The appliance has stored the result of entry i, or does not know the job.
Stored(d, i) == jobs[i].nonce = ledger[d][i].nonce => jobs[i].st = "done"

\* What is marked reported, or about to be, is stored.
ReportedWasStored ==
    \A d \in Devices, i \in Ids :
        ledger[d][i].st = "reported" \/ (pc[d] = "post" /\ current[d] = i) => Stored(d, i)

\* A job that waits to be pulled, or was offered and is not buffered, has not run.
UnbufferedHasNotRun ==
    /\ \A i \in Ids : jobs[i].st = "pending" =>
          /\ ran[jobs[i].nonce] = 0
          /\ \A d \in Devices : /\ ledger[d][i].nonce # jobs[i].nonce
                                /\ [id |-> i, nonce |-> jobs[i].nonce] \notin offered[d]
    /\ \A d \in Devices : \A job \in offered[d] :
          ran[job.nonce] = 0 /\ ledger[d][job.id].nonce # job.nonce
    /\ \A n \in Nonces : n > issued => ran[n] = 0

\* Every run of a pending entry but the one under way ended in a fault.
RunsArePaidFor ==
    /\ \A n \in Nonces : ran[n] <= 1 + used.faults
    /\ \A d \in Devices, i \in Ids :
          ledger[d][i].st = "pending" /\ current[d] # i => ran[ledger[d][i].nonce] <= used.faults

IInv ==
    /\ TypeOK /\ NoncesAreIssued /\ NoncesAreUnique
    /\ BatchIsListed /\ ExecutedWasHandled /\ ReportedWasStored
    /\ UnbufferedHasNotRun /\ RunsArePaidFor

-----------------------------------------------------------------------------
(* Lemmas about the parts of a step.                                       *)

\* What the provers need to know of a row, an entry and an offer.
LEMMA Shapes ==
    ASSUME TypeOK
    PROVE  /\ Ids \subseteq Nat \ {0} /\ MaxJobs \in Nat /\ issued \in 0..MaxJobs
           /\ \A i \in Ids : jobs[i] \in Rows
           /\ \A d \in Devices, i \in Ids : ledger[d][i] \in Entries
           /\ \A d \in Devices : offered[d] \subseteq Offers
           /\ \A d \in Devices : batch[d] \subseteq Ids /\ current[d] \in Ids \cup {0}
<1>1. Ids \subseteq Nat \ {0} /\ MaxJobs \in Nat
  BY DeviceJobsAssumption DEF Ids
<1> QED
  BY <1>1 DEF TypeOK

\* A counted event counts one of its kind.
LEMMA Counted ==
    ASSUME TypeOK
    PROVE  /\ used.faults \in Nat
           /\ Spend("faults", MaxFaults) =>
                 /\ used' \in [resets : 0..MaxResets, faults : 0..MaxFaults, lost : 0..MaxLost]
                 /\ used'.faults = used.faults + 1
           /\ Spend("lost", MaxLost) =>
                 /\ used' \in [resets : 0..MaxResets, faults : 0..MaxFaults, lost : 0..MaxLost]
                 /\ used'.faults = used.faults
           /\ Spend("resets", MaxResets) =>
                 /\ used' \in [resets : 0..MaxResets, faults : 0..MaxFaults, lost : 0..MaxLost]
                 /\ used'.faults = used.faults
<1> USE DeviceJobsAssumption
<1>1. /\ MaxResets \in Nat /\ MaxFaults \in Nat /\ MaxLost \in Nat
      /\ used = [resets |-> used.resets, faults |-> used.faults, lost |-> used.lost]
      /\ used.resets \in 0..MaxResets /\ used.faults \in 0..MaxFaults /\ used.lost \in 0..MaxLost
  BY DEF TypeOK
<1>2. ASSUME Spend("faults", MaxFaults)
      PROVE  used' = [resets |-> used.resets, faults |-> used.faults + 1, lost |-> used.lost]
             /\ used.faults < MaxFaults
  BY <1>1, <1>2 DEF Spend
<1>3. ASSUME Spend("lost", MaxLost)
      PROVE  used' = [resets |-> used.resets, faults |-> used.faults, lost |-> used.lost + 1]
             /\ used.lost < MaxLost
  BY <1>1, <1>3 DEF Spend
<1>4. ASSUME Spend("resets", MaxResets)
      PROVE  used' = [resets |-> used.resets + 1, faults |-> used.faults, lost |-> used.lost]
             /\ used.resets < MaxResets
  BY <1>1, <1>4 DEF Spend
<1>5. Spend("faults", MaxFaults) =>
         /\ used' \in [resets : 0..MaxResets, faults : 0..MaxFaults, lost : 0..MaxLost]
         /\ used'.faults = used.faults + 1
  BY <1>1, <1>2
<1>6. Spend("lost", MaxLost) =>
         /\ used' \in [resets : 0..MaxResets, faults : 0..MaxFaults, lost : 0..MaxLost]
         /\ used'.faults = used.faults
  BY <1>1, <1>3
<1>7. Spend("resets", MaxResets) =>
         /\ used' \in [resets : 0..MaxResets, faults : 0..MaxFaults, lost : 0..MaxLost]
         /\ used'.faults = used.faults
  BY <1>1, <1>4
<1> QED
  BY <1>1, <1>5, <1>6, <1>7

\* An issued nonce is one, and so is the nonce of an entry.
LEMMA EntriesHaveNonces ==
    ASSUME IInv
    PROVE  /\ 1..issued \subseteq Nonces
           /\ \A d \in Devices, i \in Ids :
                 ledger[d][i].st # "none" => ledger[d][i].nonce \in Nonces
<1>1. 1..issued \subseteq Nonces
  BY Shapes DEF IInv, Nonces
<1> QED
  BY <1>1 DEF IInv, NoncesAreIssued

\* A step that makes no command known under a new job keeps nonces unique.
LEMMA NothingNewIsUnique ==
    ASSUME NoncesAreUnique,
           \A n \in Nonces, d \in Devices, i \in Ids : KnownAs(d, i, n)' => KnownAs(d, i, n)
    PROVE  NoncesAreUnique'
BY Zenon DEF NoncesAreUnique

\* A step that touches neither rows nor ledgers nor offers.
LEMMA SameJobs ==
    ASSUME IInv, UNCHANGED <<jobs, issued, ledger, offered>>
    PROVE  NoncesAreIssued' /\ NoncesAreUnique'
<1>1. NoncesAreIssued'
  BY DEF IInv, NoncesAreIssued
<1>2. \A n \in Nonces, d \in Devices, i \in Ids : KnownAs(d, i, n)' => KnownAs(d, i, n)
  BY DEF KnownAs
<1> QED
  BY <1>1, <1>2, NothingNewIsUnique DEF IInv

\* ... nor runs anything.
LEMMA SameRuns ==
    ASSUME IInv, UNCHANGED <<jobs, issued, ledger, offered, ran>>
    PROVE  UnbufferedHasNotRun'
BY DEF IInv, UnbufferedHasNotRun

-----------------------------------------------------------------------------
(* The appliance.                                                          *)


\* enqueue_job: the nonce is new, so that the new row is nothing known.
LEMMA EnqueueKeeps ==
    ASSUME IInv, NEW d \in Devices, NEW i \in Ids, Enqueue(d, i)
    PROVE  IInv'
<1> DEFINE n == issued + 1
<1>0. n \in Nonces /\ issued \in Nat /\ issued < MaxJobs
  BY Shapes DEF IInv, Enqueue, Nonces
<1>1. /\ issued' = n /\ jobs[i] = NoRow
      /\ jobs' = [jobs EXCEPT ![i] = [st |-> "pending", owner |-> d, nonce |-> n]]
      /\ UNCHANGED <<revoked, ledger, pc, offered, batch, current, told, handled, ran, used>>
  BY DEF Enqueue, loop, history
<1>2. \A j \in Ids : jobs'[j] = IF j = i THEN [st |-> "pending", owner |-> d, nonce |-> n]
                                ELSE jobs[j]
  BY <1>0, <1>1 DEF IInv, TypeOK
<1> HIDE DEF n
<1>3. TypeOK'
  BY <1>0, <1>1 DEF IInv, TypeOK, Rows, Nonces
<1>4. NoncesAreIssued'
  BY <1>0, <1>1, <1>2, Shapes DEF IInv, NoncesAreIssued, n, Rows, Entries, Offers
<1>5. \A e \in Devices, j \in Ids, m \in Nonces :
         /\ KnownAs(e, j, m) => m # n
         /\ KnownAs(e, j, m)' => KnownAs(e, j, m) \/ (m = n /\ e = d /\ j = i)
  BY <1>0, <1>1, <1>2, Shapes DEF IInv, NoncesAreIssued, n, KnownAs, Nonces, Rows, NoRow, NoEntry
<1>6. NoncesAreUnique'
  BY <1>5 DEF IInv, NoncesAreUnique
<1>7. BatchIsListed' /\ ExecutedWasHandled' /\ RunsArePaidFor'
  BY <1>0, <1>1 DEF IInv, BatchIsListed, ExecutedWasHandled, RunsArePaidFor
<1>8. ReportedWasStored'
  <2>1. \A e \in Devices, j \in Ids : ledger[e][j].nonce # n
    BY <1>0, <1>1, Shapes DEF IInv, NoncesAreIssued, n, NoEntry
  <2> QED
    BY <2>1, <1>1, <1>2 DEF IInv, ReportedWasStored, Stored
<1>9. UnbufferedHasNotRun'
  <2>1. \A e \in Devices : /\ ledger[e][i].nonce # n
                           /\ [id |-> i, nonce |-> n] \notin offered[e]
    BY <1>0, <1>1, <1>5 DEF KnownAs
  <2>2. ran[n] = 0 /\ \A m \in Nonces : m > n => ran[m] = 0
    BY <1>0, <1>1 DEF IInv, UnbufferedHasNotRun, n, Nonces
  <2> QED
    BY <2>1, <2>2, <1>0, <1>1, <1>2 DEF IInv, UnbufferedHasNotRun
<1> QED
  BY <1>3, <1>4, <1>6, <1>7, <1>8, <1>9 DEF IInv

\* factory_reset: what is deleted was neither pending nor done.
LEMMA FactoryResetKeeps ==
    ASSUME IInv, FactoryReset
    PROVE  IInv'
<1>1. /\ Spend("resets", MaxResets) /\ jobs' = [i \in Ids |-> NoRow]
      /\ UNCHANGED <<issued, revoked, ledger, pc, offered, batch, current, told, handled, ran>>
  BY DEF FactoryReset, loop, history
<1>2. used'.faults = used.faults
  BY <1>1, Counted DEF IInv
<1>3. TypeOK'
  BY <1>1, Counted, Shapes DEF IInv, TypeOK, Rows, NoRow
<1>4. NoncesAreIssued'
  BY <1>1 DEF IInv, NoncesAreIssued, NoRow
<1>5. \A n \in Nonces, d \in Devices, i \in Ids : KnownAs(d, i, n)' => KnownAs(d, i, n)
  BY <1>1 DEF KnownAs, NoRow, Nonces
<1>6. NoncesAreUnique'
  BY <1>5, NothingNewIsUnique DEF IInv
<1>7. BatchIsListed' /\ ExecutedWasHandled' /\ RunsArePaidFor'
  BY <1>1, <1>2 DEF IInv, BatchIsListed, ExecutedWasHandled, RunsArePaidFor
<1>8. ReportedWasStored'
  <2>1. \A d \in Devices, i \in Ids :
           ledger[d][i].st = "reported" \/ (pc[d] = "post" /\ current[d] = i)
               => ledger[d][i].nonce # 0
    BY Shapes DEF IInv, NoncesAreIssued, BatchIsListed
  <2> QED
    BY <2>1, <1>1 DEF ReportedWasStored, Stored, NoRow
<1>9. UnbufferedHasNotRun'
  BY <1>1 DEF IInv, UnbufferedHasNotRun, NoRow
<1> QED
  BY <1>3, <1>4, <1>6, <1>7, <1>8, <1>9 DEF IInv

\* A revocation.
LEMMA RevokeKeeps ==
    ASSUME IInv, NEW d \in Devices, Revoke(d)
    PROVE  IInv'
<1>1. /\ revoked' = revoked \cup {d}
      /\ UNCHANGED <<jobs, issued, ledger, pc, offered, batch, current, told, handled, ran, used>>
  BY DEF Revoke, loop, history
<1>2. TypeOK'
  BY <1>1 DEF IInv, TypeOK
<1>3. BatchIsListed' /\ ExecutedWasHandled' /\ ReportedWasStored' /\ RunsArePaidFor'
  BY <1>1 DEF IInv, BatchIsListed, ExecutedWasHandled, ReportedWasStored, Stored, RunsArePaidFor
<1> QED
  BY <1>1, <1>2, <1>3, SameJobs, SameRuns DEF IInv

-----------------------------------------------------------------------------
(* The agent: reports and pulls.                                           *)


\* report.Once: the loop goes on, whatever the answer.
LEMMA ReportKeeps ==
    ASSUME IInv, NEW d \in Devices, Report(d)
    PROVE  IInv'
<1>1. /\ pc[d] = "report" /\ pc' = [pc EXCEPT ![d] = "pull"]
      /\ \/ told' = [told EXCEPT ![d] = (d \in revoked)] /\ used' = used
         \/ Spend("lost", MaxLost) /\ told' = told
      /\ UNCHANGED <<jobs, issued, revoked, ledger, offered, batch, current, handled, ran>>
  BY DEF Report, Goto, server
<1>2. used'.faults = used.faults
  BY <1>1, Counted DEF IInv
<1>3. TypeOK'
  <2>1. told' \in [Devices -> BOOLEAN]
    <3>1. (d \in revoked) \in BOOLEAN
      OBVIOUS
    <3>2. ASSUME NEW b \in BOOLEAN PROVE [told EXCEPT ![d] = b] \in [Devices -> BOOLEAN]
      BY DEF IInv, TypeOK
    <3>3. [told EXCEPT ![d] = (d \in revoked)] \in [Devices -> BOOLEAN]
      BY <3>1, <3>2, Zenon
    <3> QED
      BY <1>1, <3>3 DEF IInv, TypeOK
  <2>2. /\ pc' \in [Devices -> {"report", "pull", "save", "run", "post"}]
        /\ used' \in [resets : 0..MaxResets, faults : 0..MaxFaults, lost : 0..MaxLost]
    BY <1>1, Counted DEF IInv, TypeOK
  <2> QED
    BY <1>1, <2>1, <2>2 DEF IInv, TypeOK
<1>4. \A e \in Devices : pc'[e] = IF e = d THEN "pull" ELSE pc[e]
  BY <1>1 DEF IInv, TypeOK
<1>5. BatchIsListed' /\ ExecutedWasHandled' /\ ReportedWasStored' /\ RunsArePaidFor'
  BY <1>1, <1>2, <1>4
     DEF IInv, BatchIsListed, ExecutedWasHandled, ReportedWasStored, Stored, RunsArePaidFor
<1> QED
  BY <1>1, <1>3, <1>5, SameJobs, SameRuns DEF IInv

\* A pull that is refused or lost.
LEMMA PullFailsKeeps ==
    ASSUME IInv, NEW d \in Devices, PullFails(d)
    PROVE  IInv'
<1>1. /\ pc[d] = "pull" /\ pc' = [pc EXCEPT ![d] = "save"]
      /\ used' = used \/ Spend("lost", MaxLost)
      /\ UNCHANGED <<jobs, issued, revoked, ledger, offered, batch, current, told, handled, ran>>
  BY DEF PullFails, Goto, server, history
<1>2. used'.faults = used.faults
  BY <1>1, Counted DEF IInv
<1>3. TypeOK'
  BY <1>1, Counted DEF IInv, TypeOK
<1>4. \A e \in Devices : pc'[e] = IF e = d THEN "save" ELSE pc[e]
  BY <1>1 DEF IInv, TypeOK
<1>5. BatchIsListed' /\ ExecutedWasHandled' /\ ReportedWasStored' /\ RunsArePaidFor'
  BY <1>1, <1>2, <1>4
     DEF IInv, BatchIsListed, ExecutedWasHandled, ReportedWasStored, Stored, RunsArePaidFor
<1> QED
  BY <1>1, <1>3, <1>5, SameJobs, SameRuns DEF IInv

\* jobs_pull: what was pending is offered, or the reply is lost; it is pending no more.
LEMMA PullKeeps ==
    ASSUME IInv, NEW d \in Devices, Pull(d)
    PROVE  IInv'
<1> DEFINE given == {[id |-> i, nonce |-> jobs[i].nonce] : i \in Claimable(d)}
<1>1. /\ pc[d] = "pull" /\ pc' = [pc EXCEPT ![d] = "save"]
      /\ jobs' = [i \in Ids |-> IF i \in Claimable(d)
                                THEN [jobs[i] EXCEPT !.st = "running"] ELSE jobs[i]]
      /\ \/ offered' = [offered EXCEPT ![d] = given] /\ used' = used
         \/ offered' = offered /\ Spend("lost", MaxLost)
      /\ UNCHANGED <<issued, revoked, ledger, batch, current, told, handled, ran>>
  BY DEF Pull, Goto, history
<1>2. used'.faults = used.faults
  BY <1>1, Counted DEF IInv
<1>3. \A i \in Ids : /\ jobs'[i] \in Rows
                     /\ jobs'[i].owner = jobs[i].owner /\ jobs'[i].nonce = jobs[i].nonce
                     /\ jobs'[i].st = IF i \in Claimable(d) THEN "running" ELSE jobs[i].st
                     /\ jobs'[i] = IF i \in Claimable(d) THEN jobs'[i] ELSE jobs[i]
  BY <1>1, Shapes DEF IInv, Rows
<1>4. \A i \in Claimable(d) : /\ i \in Ids /\ jobs[i].st = "pending" /\ jobs[i].owner = d
                              /\ jobs[i].nonce \in 1..issued /\ jobs[i].nonce \in Nonces
  BY Shapes DEF IInv, NoncesAreIssued, Claimable, Nonces
<1>5. given \subseteq Offers
  BY <1>4 DEF Offers
<1>6. \A e \in Devices : offered'[e] \in {offered[e], IF e = d THEN given ELSE offered[e]}
  BY <1>1 DEF IInv, TypeOK
<1>7. TypeOK'
  <2>1. jobs' \in [Ids -> Rows]
    BY <1>1, <1>3
  <2>2. offered' \in [Devices -> SUBSET Offers]
    BY <1>1, <1>5 DEF IInv, TypeOK
  <2> QED
    BY <1>1, <2>1, <2>2, Counted DEF IInv, TypeOK
<1> HIDE DEF given
<1>8. \A job \in given : \E i \in Claimable(d) : job = [id |-> i, nonce |-> jobs[i].nonce]
  BY DEF given
<1>9. NoncesAreIssued'
  <2>1. \A e \in Devices : \A job \in offered'[e] : job.nonce \in 1..issued
    BY <1>4, <1>6, <1>8 DEF IInv, NoncesAreIssued
  <2> QED
    BY <1>1, <1>3, <1>4, <2>1 DEF IInv, NoncesAreIssued
<1>10. \A m \in Nonces, e \in Devices, j \in Ids : KnownAs(e, j, m)' => KnownAs(e, j, m)
  BY <1>1, <1>3, <1>4, <1>6, <1>8 DEF KnownAs
<1>11. NoncesAreUnique'
  BY <1>10, NothingNewIsUnique DEF IInv
<1>12. \A e \in Devices : pc'[e] = IF e = d THEN "save" ELSE pc[e]
  BY <1>1 DEF IInv, TypeOK
<1>13. BatchIsListed' /\ ExecutedWasHandled' /\ RunsArePaidFor'
  BY <1>1, <1>2, <1>12 DEF IInv, BatchIsListed, ExecutedWasHandled, RunsArePaidFor
<1>14. ReportedWasStored'
  <2>1. \A e \in Devices, i \in Ids : Stored(e, i) => Stored(e, i)'
    BY <1>1, <1>3, <1>4 DEF Stored
  <2> QED
    BY <2>1, <1>1, <1>12 DEF IInv, ReportedWasStored
<1>15. UnbufferedHasNotRun'
  <2>1. ASSUME NEW i \in Ids, jobs'[i].st = "pending", NEW e \in Devices
        PROVE  [id |-> i, nonce |-> jobs[i].nonce] \notin offered'[e]
    BY <2>1, <1>3, <1>6, <1>8 DEF IInv, UnbufferedHasNotRun
  <2>2. ASSUME NEW e \in Devices, NEW job \in offered'[e]
        PROVE  ran[job.nonce] = 0 /\ ledger[e][job.id].nonce # job.nonce
    BY <1>4, <1>6, <1>8 DEF IInv, UnbufferedHasNotRun
  <2>3. \A i \in Ids : jobs'[i].st = "pending" => jobs[i].st = "pending"
    BY <1>3
  <2> QED
    BY <2>1, <2>2, <2>3, <1>1, <1>3 DEF IInv, UnbufferedHasNotRun
<1> QED
  BY <1>7, <1>9, <1>11, <1>13, <1>14, <1>15 DEF IInv

\* INSERT OR IGNORE: an offered job gets an entry, unless its id has one.
LEMMA SaveKeeps ==
    ASSUME IInv, NEW d \in Devices, NEW job \in offered[d], Save(d, job)
    PROVE  IInv'
<1> DEFINE new == [st |-> "pending", nonce |-> job.nonce]
<1>1. /\ pc[d] = "save"
      /\ offered' = [offered EXCEPT ![d] = @ \ {job}]
      /\ ledger' = [ledger EXCEPT ![d][job.id] = IF @ = NoEntry THEN new ELSE @]
      /\ UNCHANGED <<jobs, issued, revoked, pc, batch, current, told, handled, ran, used>>
  BY DEF Save, server, history
<1>2. /\ job = [id |-> job.id, nonce |-> job.nonce] /\ job.id \in Ids
      /\ job.nonce \in Nonces /\ job.nonce \in 1..issued
  BY Shapes DEF IInv, Offers, NoncesAreIssued
<1>3. \A e \in Devices, i \in Ids :
         ledger'[e][i] = IF e = d /\ i = job.id /\ ledger[e][i] = NoEntry THEN new
                         ELSE ledger[e][i]
  BY <1>1, <1>2 DEF IInv, TypeOK
<1>4. \A e \in Devices : offered'[e] = IF e = d THEN offered[e] \ {job} ELSE offered[e]
  BY <1>1 DEF IInv, TypeOK
<1>5. TypeOK'
  <2>1. new \in Entries
    BY <1>2, Shapes DEF Entries, Nonces, IInv
  <2>2. ledger' \in [Devices -> [Ids -> Entries]]
    BY <1>1, <1>2, <2>1 DEF IInv, TypeOK
  <2>3. offered' \in [Devices -> SUBSET Offers]
    BY <1>1 DEF IInv, TypeOK
  <2> QED
    BY <1>1, <2>2, <2>3 DEF IInv, TypeOK
<1>6. NoncesAreIssued'
  <2>1. \A e \in Devices, i \in Ids : IF ledger'[e][i].st = "none" THEN ledger'[e][i] = NoEntry
                                     ELSE ledger'[e][i].nonce \in 1..issued
    BY <1>2, <1>3 DEF IInv, NoncesAreIssued
  <2>2. \A e \in Devices : offered'[e] \subseteq offered[e]
    BY <1>4
  <2> QED
    BY <1>1, <2>1, <2>2 DEF IInv, NoncesAreIssued
<1>7. \A m \in Nonces, e \in Devices, j \in Ids : KnownAs(e, j, m)' => KnownAs(e, j, m)
  BY <1>1, <1>2, <1>3, <1>4 DEF KnownAs
<1>8. NoncesAreUnique'
  BY <1>7, NothingNewIsUnique DEF IInv
<1>9. ASSUME NEW e \in Devices, NEW i \in Ids, ledger'[e][i] # ledger[e][i]
      PROVE  /\ e = d /\ i = job.id /\ ledger[e][i] = NoEntry /\ ledger'[e][i] = new
             /\ i \notin batch[e] /\ ran[job.nonce] = 0
  <2>1. e = d /\ i = job.id /\ ledger[e][i] = NoEntry /\ ledger'[e][i] = new
    BY <1>3, <1>9
  <2>2. i \notin batch[e]
    BY <2>1 DEF IInv, BatchIsListed, NoEntry
  <2> QED
    BY <2>1, <2>2 DEF IInv, UnbufferedHasNotRun
<1>10. BatchIsListed' /\ ExecutedWasHandled'
  BY <1>1, <1>9 DEF IInv, BatchIsListed, ExecutedWasHandled
<1>11. ReportedWasStored'
  BY <1>1, <1>9 DEF IInv, ReportedWasStored, BatchIsListed, Stored
<1>12. RunsArePaidFor'
  <2>1. ASSUME NEW e \in Devices, NEW i \in Ids, ledger'[e][i].st = "pending", current[e] # i
        PROVE  ran[ledger'[e][i].nonce] <= used.faults
    <3>1. CASE ledger'[e][i] = ledger[e][i]
      BY <2>1, <3>1 DEF IInv, RunsArePaidFor
    <3>2. CASE ledger'[e][i] # ledger[e][i]
      BY <3>2, <1>9, Counted DEF IInv
    <3> QED
      BY <3>1, <3>2
  <2> QED
    BY <2>1, <1>1 DEF IInv, RunsArePaidFor
<1>13. UnbufferedHasNotRun'
  <2>1. ASSUME NEW i \in Ids, jobs[i].st = "pending", NEW e \in Devices
        PROVE  ledger'[e][i].nonce # jobs[i].nonce
    <3>1. /\ ledger[e][i].nonce # jobs[i].nonce
          /\ [id |-> i, nonce |-> jobs[i].nonce] \notin offered[e]
      BY <2>1 DEF IInv, UnbufferedHasNotRun
    <3>2. e = d /\ i = job.id => job.nonce # jobs[i].nonce
      BY <3>1, <1>2
    <3> QED
      BY <3>1, <3>2, <1>3
  <2>2. ASSUME NEW e \in Devices, NEW other \in offered'[e]
        PROVE  ledger'[e][other.id].nonce # other.nonce
    <3>1. other \in offered[e] /\ (e = d => other # job)
      BY <1>4
    <3>2. /\ other = [id |-> other.id, nonce |-> other.nonce]
          /\ other.id \in Ids
      BY <3>1, Shapes DEF IInv, Offers
    <3> QED
      BY <3>1, <3>2, <1>2, <1>3 DEF IInv, UnbufferedHasNotRun
  <2> QED
    BY <2>1, <2>2, <1>1, <1>4 DEF IInv, UnbufferedHasNotRun
<1> QED
  BY <1>5, <1>6, <1>8, <1>10, <1>11, <1>12, <1>13 DEF IInv

-----------------------------------------------------------------------------
(* The agent: runs and posts.                                              *)


\* A step of the loop that only moves it, and lists the entries of one status or
\* none, while no job is at hand.
LEMMA MovesKeep ==
    ASSUME IInv, NEW d \in Devices, NEW place \in {"report", "run", "post"},
           NEW listed \in SUBSET Ids,
           \A i \in listed : ledger[d][i].st = (IF place = "run" THEN "pending" ELSE "executed"),
           place = "report" => listed = {},
           current[d] = 0,
           pc' = [pc EXCEPT ![d] = place],
           batch' = [batch EXCEPT ![d] = listed],
           UNCHANGED <<jobs, issued, revoked, ledger, offered, current, told, handled, ran, used>>
    PROVE  IInv'
<1>1. TypeOK'
  BY DEF IInv, TypeOK
<1>2. \A e \in Devices : /\ pc'[e] = IF e = d THEN place ELSE pc[e]
                         /\ batch'[e] = IF e = d THEN listed ELSE batch[e]
  BY DEF IInv, TypeOK
<1>3. BatchIsListed'
  BY <1>2 DEF IInv, BatchIsListed
<1>4. 0 \notin Ids
  BY Shapes DEF IInv
<1>5. ExecutedWasHandled' /\ ReportedWasStored' /\ RunsArePaidFor'
  BY <1>2, <1>4 DEF IInv, ExecutedWasHandled, ReportedWasStored, Stored, RunsArePaidFor
<1> QED
  BY <1>1, <1>3, <1>5, SameJobs, SameRuns DEF IInv

\* Without a list there is no job at hand.
LEMMA NoListNoJob ==
    ASSUME IInv, NEW d \in Devices
    PROVE  /\ batch[d] = {} => current[d] = 0
           /\ pc[d] \notin {"run", "post"} => batch[d] = {} /\ current[d] = 0
BY DEF IInv, BatchIsListed

\* The list of the pending entries, and that of the executed ones.
LEMMA StartKeeps ==
    ASSUME IInv, NEW d \in Devices, StartRunning(d) \/ StartPosting(d)
    PROVE  IInv'
<1>1. current[d] = 0
  BY NoListNoJob DEF StartRunning, StartPosting
<1>2. CASE StartRunning(d)
  <2> DEFINE listed == {i \in Ids : ledger[d][i].st = "pending"}
  <2>1. /\ pc' = [pc EXCEPT ![d] = "run"] /\ batch' = [batch EXCEPT ![d] = listed]
        /\ UNCHANGED <<jobs, issued, revoked, ledger, offered, current, told, handled, ran, used>>
    BY <1>2 DEF StartRunning, List, Goto, server, history
  <2>2. /\ listed \in SUBSET Ids
        /\ \A i \in listed : ledger[d][i].st = (IF "run" = "run" THEN "pending" ELSE "executed")
    OBVIOUS
  <2> HIDE DEF listed
  <2> QED
    BY <1>1, <2>1, <2>2, MovesKeep
<1>3. CASE StartPosting(d)
  <2> DEFINE listed == {i \in Ids : ledger[d][i].st = "executed"}
  <2>1. /\ pc' = [pc EXCEPT ![d] = "post"] /\ batch' = [batch EXCEPT ![d] = listed]
        /\ UNCHANGED <<jobs, issued, revoked, ledger, offered, current, told, handled, ran, used>>
    BY <1>3 DEF StartPosting, List, Goto, server, history
  <2>2. /\ listed \in SUBSET Ids
        /\ \A i \in listed : ledger[d][i].st = (IF "post" = "run" THEN "pending" ELSE "executed")
    OBVIOUS
  <2> HIDE DEF listed
  <2> QED
    BY <1>1, <2>1, <2>2, MovesKeep
<1> QED
  BY <1>2, <1>3

LEMMA EndCycleKeeps ==
    ASSUME IInv, NEW d \in Devices, EndCycle(d)
    PROVE  IInv'
<1>1. current[d] = 0 /\ batch[d] = {}
  BY NoListNoJob DEF EndCycle
<1>2. batch \in [Devices -> SUBSET Ids]
  BY DEF IInv, TypeOK
<1>3. /\ pc' = [pc EXCEPT ![d] = "report"] /\ batch' = [batch EXCEPT ![d] = {}]
      /\ UNCHANGED <<jobs, issued, revoked, ledger, offered, current, told, handled, ran, used>>
  BY <1>1, <1>2 DEF EndCycle, Goto, server, history
<1> QED
  BY <1>1, <1>3, MovesKeep

\* Execute: a pending entry is handled, and run or refused.
LEMMA ExecuteKeeps ==
    ASSUME IInv, NEW d \in Devices, NEW i \in batch[d], NEW runs \in BOOLEAN,
           Execute(d, i, runs)
    PROVE  IInv'
<1> DEFINE n == ledger[d][i].nonce
<1>1. /\ pc[d] = "run" /\ current[d] = 0
      /\ current' = [current EXCEPT ![d] = i]
      /\ handled' = [handled EXCEPT ![d] = @ \cup {n}]
      /\ ran' = [ran EXCEPT ![n] = @ + 1] \/ ran' = ran
      /\ UNCHANGED <<jobs, issued, revoked, ledger, pc, offered, batch, told, used>>
  BY DEF Execute, server
<1>2. /\ i \in Ids /\ i # 0 /\ ledger[d][i].st = "pending"
      /\ n \in 1..issued /\ issued \in Nat /\ n \in Nonces /\ 1..issued \subseteq Nonces
  BY <1>1, Shapes DEF IInv, BatchIsListed, NoncesAreIssued, Nonces
<1> HIDE DEF n
<1>3. \A e \in Devices : /\ current'[e] = IF e = d THEN i ELSE current[e]
                         /\ handled'[e] = IF e = d THEN handled[e] \cup {n} ELSE handled[e]
  BY <1>1 DEF IInv, TypeOK
<1>4. /\ ran \in [Nonces -> Nat] /\ ran' \in [Nonces -> Nat]
      /\ \A m \in Nonces : ran'[m] = ran[m] \/ (m = n /\ ran'[m] = ran[m] + 1)
  BY <1>1, <1>2 DEF IInv, TypeOK
<1>5. TypeOK'
  <2>1. handled' \in [Devices -> SUBSET Nonces] /\ current' \in [Devices -> Ids \cup {0}]
    BY <1>1, <1>2 DEF IInv, TypeOK
  <2> QED
    BY <1>1, <1>4, <2>1 DEF IInv, TypeOK
<1>6. BatchIsListed' /\ ReportedWasStored'
  BY <1>1, <1>3 DEF IInv, BatchIsListed, ReportedWasStored, Stored
<1>7. ExecutedWasHandled'
  <2>1. ledger[d][i].nonce \in handled'[d] /\ \A e \in Devices : handled[e] \subseteq handled'[e]
    BY <1>3 DEF n
  <2> QED
    BY <2>1, <1>1, <1>3 DEF IInv, ExecutedWasHandled
<1>8. \A e \in Devices, j \in Ids : KnownAs(e, j, n) => e = d /\ j = i
  <2>1. KnownAs(d, i, n)
    BY DEF KnownAs, n
  <2> QED
    BY <2>1, <1>2 DEF IInv, NoncesAreUnique
<1>9. UnbufferedHasNotRun'
  <2>1. ASSUME NEW j \in Ids, jobs[j].st = "pending" PROVE ran'[jobs[j].nonce] = 0
    <3>1. jobs[j].nonce \in Nonces /\ jobs[j].owner \in Devices /\ ran[jobs[j].nonce] = 0
      BY <2>1, <1>2 DEF IInv, NoncesAreIssued, UnbufferedHasNotRun, NoRow
    <3>2. jobs[j].nonce # n
      BY <2>1, <3>1, <1>8 DEF IInv, UnbufferedHasNotRun, KnownAs, n
    <3> QED
      BY <3>1, <3>2, <1>4
  <2>2. ASSUME NEW e \in Devices, NEW job \in offered[e] PROVE ran'[job.nonce] = 0
    <3>1. /\ job = [id |-> job.id, nonce |-> job.nonce]
          /\ job.id \in Ids /\ job.nonce \in Nonces /\ ran[job.nonce] = 0
      BY Shapes DEF IInv, Offers, UnbufferedHasNotRun
    <3>2. job.nonce # n
      BY <3>1, <1>8 DEF IInv, UnbufferedHasNotRun, KnownAs, n
    <3> QED
      BY <3>1, <3>2, <1>4
  <2>3. ASSUME NEW m \in Nonces, m > issued PROVE ran'[m] = 0
    <3>1. m # n
      BY <2>3, <1>2
    <3>2. ran[m] = 0
      BY <2>3 DEF IInv, UnbufferedHasNotRun
    <3> QED
      BY <3>1, <3>2, <1>4
  <2> QED
    BY <2>1, <2>2, <2>3, <1>1 DEF IInv, UnbufferedHasNotRun
<1>10. RunsArePaidFor'
  <2>1. ran[n] <= used.faults /\ used.faults \in Nat
    BY <1>1, <1>2, Counted DEF IInv, RunsArePaidFor, n
  <2>2. \A m \in Nonces : ran'[m] <= 1 + used.faults
    BY <2>1, <1>4 DEF IInv, RunsArePaidFor
  <2>3. ASSUME NEW e \in Devices, NEW j \in Ids, ledger[e][j].st = "pending", current'[e] # j
        PROVE  ran'[ledger[e][j].nonce] <= used.faults
    <3>1. ledger[e][j].nonce \in Nonces /\ ~(e = d /\ j = i)
      BY <2>3, <1>2, <1>3 DEF IInv, NoncesAreIssued, NoEntry
    <3>2. ledger[e][j].nonce # n
      BY <3>1, <1>8 DEF KnownAs
    <3>3. current[e] # j
      BY <2>3, <1>1, <1>2, <1>3, Shapes DEF IInv
    <3> QED
      BY <2>3, <3>1, <3>2, <3>3, <1>4 DEF IInv, RunsArePaidFor
  <2> QED
    BY <2>2, <2>3, <1>1 DEF RunsArePaidFor
<1> QED
  BY <1>1, <1>5, <1>6, <1>7, <1>9, <1>10, SameJobs DEF IInv


\* The job at hand: its entry goes on to a next word, or the write fails.
LEMMA MarkingKeeps ==
    ASSUME IInv, NEW d \in Devices, NEW c \in Ids, NEW to \in {"executed", "reported"},
           c = current[d], to = (IF pc[d] = "run" THEN "executed" ELSE "reported"),
           pc[d] \in {"run", "post"}, Proceed(d),
           \/ Mark(d, to) /\ used' = used
           \/ Spend("faults", MaxFaults) /\ ledger' = ledger,
           UNCHANGED <<jobs, issued, revoked, pc, offered, told, handled, ran>>
    PROVE  IInv'
<1>1. /\ batch' = [batch EXCEPT ![d] = @ \ {c}] /\ current' = [current EXCEPT ![d] = 0]
      /\ \/ Mark(d, to) /\ used' = used
         \/ ledger' = ledger /\ Spend("faults", MaxFaults)
      /\ UNCHANGED <<jobs, issued, revoked, pc, offered, told, handled, ran>>
  BY DEF Proceed
<1>2. /\ pc[d] \in {"run", "post"} /\ c \in batch[d] /\ c \in Ids /\ c # 0
      /\ ledger[d][c].st = IF pc[d] = "run" THEN "pending" ELSE "executed"
  BY Shapes DEF IInv, BatchIsListed
<1>3. \A e \in Devices : /\ batch'[e] = IF e = d THEN batch[e] \ {c} ELSE batch[e]
                         /\ current'[e] = IF e = d THEN 0 ELSE current[e]
  BY <1>1 DEF IInv, TypeOK
<1>4. /\ ledger' \in [Devices -> [Ids -> Entries]]
      /\ \A e \in Devices, j \in Ids :
            /\ ledger'[e][j].nonce = ledger[e][j].nonce
            /\ e # d \/ j # c => ledger'[e][j] = ledger[e][j]
      /\ \/ ledger'[d][c].st = to /\ used' = used
         \/ ledger'[d][c] = ledger[d][c] /\ Spend("faults", MaxFaults)
  <2>1. TypeOK /\ to \in {"none", "pending", "executed", "reported"}
    BY DEF IInv
  <2>2. CASE ledger' = ledger /\ Spend("faults", MaxFaults)
    BY <2>1, <2>2 DEF TypeOK
  <2>3. CASE Mark(d, to) /\ used' = used
    <3> DEFINE entry == [ledger[d][c] EXCEPT !.st = to]
    <3>1. ledger[d][c] \in Entries /\ ledger \in [Devices -> [Ids -> Entries]]
      BY <2>1 DEF TypeOK
    <3>2. entry \in Entries /\ entry.st = to /\ entry.nonce = ledger[d][c].nonce
      BY <2>1, <3>1 DEF Entries
    <3>3. ledger' = [ledger EXCEPT ![d][c] = entry]
      BY <2>3 DEF Mark
    <3> HIDE DEF entry
    <3>4. ledger' \in [Devices -> [Ids -> Entries]]
      BY <3>1, <3>2, <3>3
    <3>5. \A e \in Devices, j \in Ids :
             ledger'[e][j] = IF e = d /\ j = c THEN entry ELSE ledger[e][j]
      BY <3>1, <3>3
    <3> QED
      BY <2>3, <3>2, <3>4, <3>5
  <2> QED
    BY <2>2, <2>3, <1>1
<1>5. ledger'[d][c].st \in {to, ledger[d][c].st}
  BY <1>4
<1>6. TypeOK'
  <2>1. batch' \in [Devices -> SUBSET Ids] /\ current' \in [Devices -> Ids \cup {0}]
    BY <1>1 DEF IInv, TypeOK
  <2> QED
    BY <1>1, <1>4, <2>1, Counted DEF IInv, TypeOK
<1>7. NoncesAreIssued'
  BY <1>1, <1>2, <1>4, <1>5 DEF IInv, NoncesAreIssued
<1>8. NoncesAreUnique'
  <2>1. \A m \in Nonces, e \in Devices, j \in Ids : KnownAs(e, j, m)' => KnownAs(e, j, m)
    BY <1>1, <1>4 DEF KnownAs
  <2> QED
    BY <2>1, NothingNewIsUnique DEF IInv
<1>9. BatchIsListed'
  <2>1. \A e \in Devices : \A j \in batch'[e] : /\ j \in batch[e] /\ j \in Ids
                                             /\ ledger'[e][j] = ledger[e][j]
    <3>1. \A e \in Devices : batch[e] \subseteq Ids
      BY Shapes DEF IInv
    <3>2. ASSUME NEW e \in Devices, NEW j \in batch'[e]
          PROVE  j \in batch[e] /\ (e # d \/ j # c)
      BY <3>2, <1>3
    <3>3. ASSUME NEW e \in Devices, NEW j \in Ids, e # d \/ j # c
          PROVE  ledger'[e][j] = ledger[e][j]
      BY <3>3, <1>4
    <3> QED
      BY <3>1, <3>2, <3>3
  <2> QED
    BY <2>1, <1>1, <1>3 DEF IInv, BatchIsListed
<1>10. ExecutedWasHandled'
  <2>1. ledger[d][c].nonce \in handled[d]
    BY <1>1, <1>2 DEF IInv, ExecutedWasHandled
  <2>2. 0 \notin Ids
    BY Shapes DEF IInv
  <2> QED
    BY <2>1, <2>2, <1>1, <1>3, <1>4 DEF IInv, ExecutedWasHandled
<1>11. ReportedWasStored'
  <2>1. \A e \in Devices, j \in Ids : Stored(e, j)' <=> Stored(e, j)
    BY <1>1, <1>4 DEF Stored
  <2>2. pc[d] = "post" => Stored(d, c)
    BY <1>2 DEF IInv, ReportedWasStored
  <2>3. 0 \notin Ids
    BY Shapes DEF IInv
  <2> QED
    BY <2>1, <2>2, <2>3, <1>1, <1>2, <1>3, <1>4, <1>5 DEF IInv, ReportedWasStored
<1>12. UnbufferedHasNotRun'
  BY <1>1, <1>4, Shapes DEF IInv, UnbufferedHasNotRun, Offers
<1>13. RunsArePaidFor'
  <2>1. used.faults \in Nat /\ used'.faults \in {used.faults, used.faults + 1}
    BY <1>1, Counted DEF IInv
  <2>2. \A m \in Nonces : ran[m] \in Nat /\ ran[m] <= 1 + used.faults
    BY DEF IInv, TypeOK, RunsArePaidFor
  <2>3. ASSUME NEW e \in Devices, NEW j \in Ids, ledger'[e][j].st = "pending", current'[e] # j
        PROVE  ran[ledger[e][j].nonce] <= used'.faults
    <3>1. CASE used'.faults = used.faults + 1
      <4>1. ledger[e][j].nonce \in Nonces
        BY <2>3, <1>2, <1>4, EntriesHaveNonces
      <4> QED
        BY <3>1, <4>1, <2>1, <2>2
    <3>2. CASE used'.faults = used.faults
      <4>1. ~(e = d /\ j = c)
        BY <2>1, <2>3, <3>2, <1>4, Counted DEF IInv
      <4>2. current[e] # j
        BY <4>1, <2>3, <1>3
      <4> QED
        BY <4>1, <4>2, <2>3, <3>2, <1>4 DEF IInv, RunsArePaidFor
    <3> QED
      BY <3>1, <3>2, <2>1
  <2> QED
    BY <2>1, <2>2, <2>3, <1>1, <1>4 DEF RunsArePaidFor
<1> QED
  BY <1>6, <1>7, <1>8, <1>9, <1>10, <1>11, <1>12, <1>13 DEF IInv

\* MarkExecuted and MarkReported keep the invariant.
LEMMA MarkKeeps ==
    ASSUME IInv, NEW d \in Devices, MarkExecuted(d) \/ MarkReported(d)
    PROVE  IInv'
<1>1. current[d] \in Ids /\ current[d] # 0
  BY Shapes DEF IInv, MarkExecuted, MarkReported
<1>2. PICK c \in Ids : c = current[d]
  BY <1>1
<1>3. CASE MarkExecuted(d)
  <2>1. /\ pc[d] = "run" /\ Proceed(d)
        /\ \/ Mark(d, "executed") /\ used' = used
           \/ Spend("faults", MaxFaults) /\ ledger' = ledger
        /\ UNCHANGED <<jobs, issued, revoked, pc, offered, told, handled, ran>>
    BY <1>3 DEF MarkExecuted, server, history
  <2> QED
    BY <1>2, <2>1, MarkingKeeps
<1>4. CASE MarkReported(d)
  <2>1. /\ pc[d] = "post" /\ Proceed(d)
        /\ \/ Mark(d, "reported") /\ used' = used
           \/ Spend("faults", MaxFaults) /\ ledger' = ledger
        /\ UNCHANGED <<jobs, issued, revoked, pc, offered, told, handled, ran>>
    BY <1>4 DEF MarkReported, server, history
  <2> QED
    BY <1>2, <2>1, MarkingKeeps
<1> QED
  BY <1>3, <1>4

\* jobs_result: a row is completed, or nothing happens; and a result that is not
\* refused is stored, because the entry's nonce belongs to this device's job.
LEMMA ResultWrites ==
    ASSUME IInv, NEW d \in Devices, NEW i \in batch[d], pc[d] = "post",
           JobsResult(d, i, ledger[d][i].nonce)
    PROVE  /\ i \in Ids /\ ledger[d][i].st = "executed"
           /\ jobs' \in [Ids -> Rows]
           /\ \A j \in Ids :
                 /\ jobs'[j].owner = jobs[j].owner /\ jobs'[j].nonce = jobs[j].nonce
                 /\ \/ jobs'[j] = jobs[j]
                    \/ /\ jobs'[j].st = "done" /\ jobs[j].st \in {"pending", "running"}
                       /\ j = i /\ jobs[j].owner = d /\ jobs[j].nonce = ledger[d][i].nonce
           /\ ~Refused(d, i) /\ jobs[i].nonce = ledger[d][i].nonce => jobs'[i].st = "done"
<1> DEFINE n == ledger[d][i].nonce
<1>1. i \in Ids /\ ledger[d][i].st = "executed" /\ n \in Nonces
  BY Shapes DEF IInv, BatchIsListed, NoncesAreIssued, Nonces
<1>2. /\ jobs' = IF Completes(d, i, n) THEN [jobs EXCEPT ![i].st = "done"] ELSE jobs
      /\ jobs \in [Ids -> Rows]
  BY DEF JobsResult, IInv, TypeOK
<1>3. Completes(d, i, n) <=> /\ jobs[i].owner = d /\ d \notin revoked /\ jobs[i].nonce = n
                             /\ jobs[i].st \in {"pending", "running"}
  BY DEF Completes
<1>4. jobs[i].nonce = n => jobs[i].owner = d
  <2>1. KnownAs(d, i, n)
    BY DEF KnownAs
  <2>2. ASSUME jobs[i].nonce = n PROVE jobs[i].owner \in Devices /\ KnownAs(jobs[i].owner, i, n)
    BY <2>2, <1>1 DEF IInv, NoncesAreIssued, NoRow, KnownAs, Nonces
  <2> QED
    BY <2>1, <2>2, <1>1 DEF IInv, NoncesAreUnique
<1>5. jobs[i].nonce = n => jobs[i].st \in {"pending", "running", "done"}
  BY <1>1, Shapes DEF IInv, NoncesAreIssued, NoRow, Rows, Nonces
<1>6. jobs' \in [Ids -> Rows]
  BY <1>1, <1>2 DEF Rows
<1>7. \A j \in Ids :
         /\ jobs'[j].owner = jobs[j].owner /\ jobs'[j].nonce = jobs[j].nonce
         /\ \/ jobs'[j] = jobs[j]
            \/ /\ jobs'[j].st = "done" /\ jobs[j].st \in {"pending", "running"}
               /\ j = i /\ jobs[j].owner = d /\ jobs[j].nonce = n
  <2>1. CASE ~Completes(d, i, n)
    BY <2>1, <1>2
  <2>2. CASE Completes(d, i, n)
    BY <2>2, <1>1, <1>2, <1>3 DEF Rows
  <2> QED
    BY <2>1, <2>2
<1>8. ~Refused(d, i) /\ jobs[i].nonce = n => jobs'[i].st = "done"
  <2>1. ASSUME ~Refused(d, i), jobs[i].nonce = n, jobs[i].st # "done" PROVE Completes(d, i, n)
    BY <2>1, <1>3, <1>4, <1>5 DEF Refused
  <2>2. CASE Completes(d, i, n)
    BY <2>2, <1>1, <1>2 DEF Rows
  <2>3. CASE ~Completes(d, i, n)
    BY <2>1, <2>3, <1>2
  <2> QED
    BY <2>2, <2>3
<1> QED
  BY <1>1, <1>6, <1>7, <1>8

\* A step that completes rows at most, and leaves the ledgers alone.
LEMMA CompletionKeeps ==
    ASSUME IInv,
           jobs' \in [Ids -> Rows],
           \A j \in Ids : /\ jobs'[j].owner = jobs[j].owner /\ jobs'[j].nonce = jobs[j].nonce
                          /\ \/ jobs'[j] = jobs[j]
                             \/ jobs'[j].st = "done" /\ jobs[j].st \in {"pending", "running"},
           UNCHANGED <<issued, ledger, offered, ran>>
    PROVE  /\ NoncesAreIssued' /\ NoncesAreUnique' /\ UnbufferedHasNotRun'
           /\ \A d \in Devices, i \in Ids : Stored(d, i) => Stored(d, i)'
<1>1. NoncesAreIssued'
  BY DEF IInv, NoncesAreIssued
<1>2. \A n \in Nonces, d \in Devices, i \in Ids : KnownAs(d, i, n)' => KnownAs(d, i, n)
  BY DEF KnownAs
<1>3. UnbufferedHasNotRun'
  BY DEF IInv, UnbufferedHasNotRun
<1>4. \A d \in Devices, i \in Ids : Stored(d, i) => Stored(d, i)'
  BY DEF Stored
<1> QED
  BY <1>1, <1>2, <1>3, <1>4, NothingNewIsUnique DEF IInv

\* A result that is answered with success.
LEMMA PostResultKeeps ==
    ASSUME IInv, NEW d \in Devices, NEW i \in batch[d], PostResult(d, i)
    PROVE  IInv'
<1>1. /\ pc[d] = "post" /\ current[d] = 0 /\ ~Refused(d, i)
      /\ JobsResult(d, i, ledger[d][i].nonce)
      /\ current' = [current EXCEPT ![d] = i]
      /\ UNCHANGED <<issued, revoked, ledger, pc, offered, batch, told, handled, ran, used>>
  BY DEF PostResult, history
<1>2. i \in Ids /\ ledger[d][i].st = "executed" /\ jobs' \in [Ids -> Rows]
  BY <1>1, ResultWrites
<1>3. \A e \in Devices : current'[e] = IF e = d THEN i ELSE current[e]
  BY <1>1 DEF IInv, TypeOK
<1>4. /\ NoncesAreIssued' /\ NoncesAreUnique' /\ UnbufferedHasNotRun'
      /\ \A e \in Devices, j \in Ids : Stored(e, j) => Stored(e, j)'
  BY <1>1, ResultWrites, CompletionKeeps
<1>5. TypeOK'
  BY <1>1, <1>2 DEF IInv, TypeOK
<1>6. BatchIsListed' /\ ExecutedWasHandled'
  BY <1>1, <1>3 DEF IInv, BatchIsListed, ExecutedWasHandled
<1>7. ReportedWasStored'
  <2>1. Stored(d, i)'
    BY <1>1, ResultWrites DEF Stored
  <2> QED
    BY <2>1, <1>1, <1>3, <1>4 DEF IInv, ReportedWasStored
<1>8. RunsArePaidFor'
  BY <1>1, <1>2, <1>3, Shapes DEF IInv, RunsArePaidFor
<1> QED
  BY <1>4, <1>5, <1>6, <1>7, <1>8 DEF IInv

\* A result that is refused or lost, or whose reply is.
LEMMA PostFailsKeeps ==
    ASSUME IInv, NEW d \in Devices, NEW i \in batch[d], PostFails(d, i)
    PROVE  IInv'
<1>1. /\ pc[d] = "post" /\ current[d] = 0
      /\ batch' = [batch EXCEPT ![d] = @ \ {i}]
      /\ used' = used \/ Spend("lost", MaxLost)
      /\ jobs' = jobs \/ JobsResult(d, i, ledger[d][i].nonce)
      /\ UNCHANGED <<issued, revoked, ledger, pc, offered, current, told, handled, ran>>
  BY DEF PostFails, history
<1>2. used'.faults = used.faults
  BY <1>1, Counted DEF IInv
<1>3. \A e \in Devices : batch'[e] = IF e = d THEN batch[e] \ {i} ELSE batch[e]
  BY <1>1 DEF IInv, TypeOK
<1>4. /\ jobs' \in [Ids -> Rows]
      /\ \A j \in Ids : /\ jobs'[j].owner = jobs[j].owner /\ jobs'[j].nonce = jobs[j].nonce
                        /\ \/ jobs'[j] = jobs[j]
                           \/ jobs'[j].st = "done" /\ jobs[j].st \in {"pending", "running"}
  <2>1. CASE jobs' = jobs
    BY <2>1 DEF IInv, TypeOK
  <2>2. CASE JobsResult(d, i, ledger[d][i].nonce)
    BY <2>2, <1>1, ResultWrites
  <2> QED
    BY <2>1, <2>2, <1>1
<1>5. /\ NoncesAreIssued' /\ NoncesAreUnique' /\ UnbufferedHasNotRun'
      /\ \A e \in Devices, j \in Ids : Stored(e, j) => Stored(e, j)'
  BY <1>1, <1>4, CompletionKeeps
<1>6. TypeOK'
  BY <1>1, <1>4, Counted DEF IInv, TypeOK
<1>7. BatchIsListed' /\ ExecutedWasHandled' /\ RunsArePaidFor'
  BY <1>1, <1>2, <1>3 DEF IInv, BatchIsListed, ExecutedWasHandled, RunsArePaidFor
<1>8. ReportedWasStored'
  BY <1>1, <1>5 DEF IInv, ReportedWasStored
<1> QED
  BY <1>5, <1>6, <1>7, <1>8 DEF IInv

-----------------------------------------------------------------------------
(* The agent: its deaths.                                                  *)

\* Crash and LedgerLost: the loop starts again, entries are kept or forgotten, and
\* the fault pays for whatever has run.
LEMMA RestartKeeps ==
    ASSUME IInv, NEW d \in Devices,
           LedgerLost(d) \/ \E old \in SUBSET Ids : Crash(d, old)
    PROVE  IInv'
<1>1. /\ Spend("faults", MaxFaults)
      /\ pc' = [pc EXCEPT ![d] = "report"]
      /\ offered' = [offered EXCEPT ![d] = {}] /\ batch' = [batch EXCEPT ![d] = {}]
      /\ current' = [current EXCEPT ![d] = 0] /\ told' = [told EXCEPT ![d] = FALSE]
      /\ UNCHANGED <<jobs, issued, revoked, handled, ran>>
  BY DEF LedgerLost, Crash, Restart, Goto, server
<1>2. /\ ledger' \in [Devices -> [Ids -> Entries]]
      /\ \A e \in Devices, j \in Ids : ledger'[e][j] \in {ledger[e][j], NoEntry}
  <2>1. NoEntry \in Entries
    BY Shapes DEF IInv, Entries, NoEntry
  <2>2. CASE LedgerLost(d)
    BY <2>1, <2>2 DEF LedgerLost, IInv, TypeOK
  <2>3. ASSUME NEW old \in SUBSET Ids, Crash(d, old)
        PROVE  /\ ledger' \in [Devices -> [Ids -> Entries]]
               /\ \A e \in Devices, j \in Ids : ledger'[e][j] \in {ledger[e][j], NoEntry}
    BY <2>1, <2>3 DEF Crash, IInv, TypeOK
  <2> QED
    BY <2>2, <2>3
<1>3. \A e \in Devices : /\ pc'[e] = IF e = d THEN "report" ELSE pc[e]
                         /\ offered'[e] = IF e = d THEN {} ELSE offered[e]
                         /\ batch'[e] = IF e = d THEN {} ELSE batch[e]
                         /\ current'[e] = IF e = d THEN 0 ELSE current[e]
  BY <1>1 DEF IInv, TypeOK
<1>4. TypeOK'
  BY <1>1, <1>2, Counted DEF IInv, TypeOK
<1>5. \A e \in Devices, j \in Ids :
         \/ ledger'[e][j] = ledger[e][j]
         \/ ledger'[e][j] = NoEntry /\ NoEntry.st = "none" /\ NoEntry.nonce = 0
  BY <1>2 DEF NoEntry
<1>6. NoncesAreIssued'
  BY <1>1, <1>3, <1>5 DEF IInv, NoncesAreIssued
<1>7. NoncesAreUnique'
  <2>1. \A m \in Nonces : m # 0
    BY DEF Nonces
  <2>2. \A m \in Nonces, e \in Devices, j \in Ids : KnownAs(e, j, m)' => KnownAs(e, j, m)
    BY <2>1, <1>1, <1>3, <1>5 DEF KnownAs
  <2> QED
    BY <2>2, NothingNewIsUnique DEF IInv
<1>8. BatchIsListed'
  <2>1. ASSUME NEW e \in Devices, e # d, NEW j \in Ids PROVE ledger'[e][j] = ledger[e][j]
    BY <2>1 DEF LedgerLost, Crash, IInv, TypeOK
  <2> QED
    BY <2>1, <1>3, Shapes DEF IInv, BatchIsListed
<1>9. 0 \notin Ids
  BY Shapes DEF IInv
<1>10. ExecutedWasHandled'
  <2>1. ASSUME NEW e \in Devices, e # d, NEW j \in Ids PROVE ledger'[e][j] = ledger[e][j]
    BY <2>1 DEF LedgerLost, Crash, IInv, TypeOK
  <2> QED
    BY <2>1, <1>1, <1>3, <1>5, <1>9 DEF IInv, ExecutedWasHandled
<1>11. ReportedWasStored'
  <2>1. ASSUME NEW e \in Devices, e # d, NEW j \in Ids PROVE ledger'[e][j] = ledger[e][j]
    BY <2>1 DEF LedgerLost, Crash, IInv, TypeOK
  <2> QED
    BY <2>1, <1>1, <1>3, <1>5, <1>9 DEF IInv, ReportedWasStored, Stored
<1>12. UnbufferedHasNotRun'
  <2>1. \A j \in Ids : jobs[j].st = "pending" => jobs[j].nonce # 0
    BY Shapes DEF IInv, NoncesAreIssued
  <2>2. \A e \in Devices : \A job \in offered[e] : job.nonce # 0 /\ job.id \in Ids
    BY Shapes DEF IInv, Offers, Nonces
  <2> QED
    BY <2>1, <2>2, <1>1, <1>3, <1>5 DEF IInv, UnbufferedHasNotRun
<1>13. RunsArePaidFor'
  <2>1. used.faults \in Nat /\ used'.faults = used.faults + 1
    BY <1>1, Counted DEF IInv
  <2>2. \A m \in Nonces : ran[m] \in Nat /\ ran[m] <= 1 + used.faults
    BY DEF IInv, TypeOK, RunsArePaidFor
  <2>3. \A e \in Devices, j \in Ids : ledger'[e][j].st = "pending" => ledger'[e][j].nonce \in Nonces
    BY <1>5, EntriesHaveNonces
  <2> QED
    BY <2>1, <2>2, <2>3, <1>1 DEF RunsArePaidFor
<1> QED
  BY <1>4, <1>6, <1>7, <1>8, <1>10, <1>11, <1>12, <1>13 DEF IInv


-----------------------------------------------------------------------------
(* The theorems.                                                           *)

LEMMA InitIInv == Init => IInv
<1> SUFFICES ASSUME Init PROVE IInv
  OBVIOUS
<1>1. MaxJobs \in Nat /\ 0 \notin Ids /\ 0 \notin Nonces
  BY DeviceJobsAssumption DEF Ids, Nonces
<1>2. TypeOK
  BY <1>1, DeviceJobsAssumption DEF Init, TypeOK, Rows, Entries, NoRow, NoEntry
<1>3. NoncesAreIssued /\ NoncesAreUnique
  BY <1>1 DEF Init, NoncesAreIssued, NoncesAreUnique, KnownAs, NoRow, NoEntry
<1>4. BatchIsListed /\ ExecutedWasHandled /\ ReportedWasStored
  BY <1>1 DEF Init, BatchIsListed, ExecutedWasHandled, ReportedWasStored, NoEntry
<1>5. UnbufferedHasNotRun /\ RunsArePaidFor
  BY <1>1 DEF Init, UnbufferedHasNotRun, RunsArePaidFor, NoRow, NoEntry
<1> QED
  BY <1>2, <1>3, <1>4, <1>5 DEF IInv

LEMMA NextKeeps == IInv /\ [Next]_vars => IInv'
<1> SUFFICES ASSUME IInv, [Next]_vars PROVE IInv'
  OBVIOUS
<1>1. CASE FactoryReset
  BY <1>1, FactoryResetKeeps
<1>2. ASSUME NEW d \in Devices, Agent(d) PROVE IInv'
  BY <1>2, ReportKeeps, PullKeeps, PullFailsKeeps, SaveKeeps, StartKeeps, EndCycleKeeps,
     MarkKeeps, PostResultKeeps, PostFailsKeeps, ExecuteKeeps DEF Agent
<1>3. ASSUME NEW d \in Devices,
             \/ Revoke(d) \/ LedgerLost(d)
             \/ \E i \in Ids : Enqueue(d, i)
             \/ \E old \in SUBSET Ids : Crash(d, old)
      PROVE  IInv'
  BY <1>3, RevokeKeeps, EnqueueKeeps, RestartKeeps
<1>4. CASE UNCHANGED vars
  <2>1. UNCHANGED <<jobs, issued, revoked, ledger, pc, offered, batch, current, told, handled,
                    ran, used>>
    BY <1>4 DEF vars, server, loop, history
  <2>2. TypeOK'
    BY <2>1 DEF IInv, TypeOK
  <2>3. BatchIsListed' /\ ExecutedWasHandled' /\ ReportedWasStored' /\ RunsArePaidFor'
    BY <2>1
       DEF IInv, BatchIsListed, ExecutedWasHandled, ReportedWasStored, Stored, RunsArePaidFor
  <2> QED
    BY <2>1, <2>2, <2>3, SameJobs, SameRuns DEF IInv
<1> QED
  BY <1>1, <1>2, <1>3, <1>4 DEF Next

LEMMA Invariance == Spec => []IInv
BY InitIInv, NextKeeps, PTL DEF Spec

\* A command is executed once, and once more at most for every fault of an agent: lost
\* replies, refusals, revocations and factory resets never repeat one (jobs.go, ledger.go,
\* device_agent.py).
THEOREM RunsAreBoundedAlways == Spec => []RunsAreBounded
<1>1. IInv => RunsAreBounded
  BY DEF IInv, RunsArePaidFor, RunsAreBounded
<1> QED
  BY <1>1, Invariance, PTL

\* The agent forgets a result only after the appliance has stored it (MarkReported,
\* Prune, jobs_result).
THEOREM ReportedIsStoredAlways == Spec => [](TypeOK /\ ReportedIsStored)
<1>1. IInv => TypeOK /\ ReportedIsStored
  BY DEF IInv, ReportedWasStored, Stored, ReportedIsStored
<1> QED
  BY <1>1, Invariance, PTL

\* What is done was handled: rows become done by results only.
LEMMA NextKeepsDone == IInv /\ DoneWasHandled /\ [Next]_vars => DoneWasHandled'
<1> SUFFICES ASSUME IInv, DoneWasHandled, [Next]_vars, NEW j \in Ids, jobs'[j].st = "done"
             PROVE  jobs'[j].nonce \in handled'[jobs'[j].owner]
  BY DEF DoneWasHandled
<1>1. \A d \in Devices : handled[d] \subseteq handled'[d]
  <2>1. ASSUME NEW d \in Devices, NEW i \in batch[d], NEW runs \in BOOLEAN, Execute(d, i, runs)
        PROVE  \A e \in Devices : handled[e] \subseteq handled'[e]
    BY <2>1 DEF Execute, IInv, TypeOK
  <2>2. \/ UNCHANGED handled
        \/ \E d \in Devices : \E i \in batch[d], runs \in BOOLEAN : Execute(d, i, runs)
    BY DEF Next, Agent, vars, history, Enqueue, Revoke, FactoryReset, Report, Pull, PullFails,
           Save, StartRunning, MarkExecuted, StartPosting, PostResult, PostFails, MarkReported,
           EndCycle, Crash, LedgerLost, Restart
  <2> QED
    BY <2>1, <2>2
<1>2. ASSUME jobs'[j].st = jobs[j].st, jobs'[j].owner = jobs[j].owner,
             jobs'[j].nonce = jobs[j].nonce
      PROVE  jobs'[j].nonce \in handled'[jobs'[j].owner]
  <2>1. jobs[j].owner \in Devices
    BY <1>2 DEF IInv, NoncesAreIssued
  <2> QED
    BY <1>1, <1>2, <2>1 DEF DoneWasHandled
<1>3. CASE UNCHANGED jobs
  BY <1>2, <1>3
<1>4. ASSUME NEW d \in Devices, NEW i \in Ids, Enqueue(d, i)
      PROVE  jobs'[j].nonce \in handled'[jobs'[j].owner]
  <2>1. jobs' = [jobs EXCEPT ![i] = [st |-> "pending", owner |-> d, nonce |-> issued + 1]]
    BY <1>4 DEF Enqueue
  <2>2. jobs'[j] = jobs[j]
    BY <2>1 DEF IInv, TypeOK
  <2> QED
    BY <2>2, <1>2
<1>5. CASE FactoryReset
  BY <1>5 DEF FactoryReset, NoRow
<1>6. ASSUME NEW d \in Devices, Pull(d)
      PROVE  jobs'[j].nonce \in handled'[jobs'[j].owner]
  <2>1. jobs'[j] = IF j \in Claimable(d) THEN [jobs[j] EXCEPT !.st = "running"] ELSE jobs[j]
    BY <1>6 DEF Pull
  <2>2. jobs'[j] = jobs[j]
    BY <2>1, Shapes DEF IInv, Rows
  <2> QED
    BY <2>2, <1>2
<1>7. ASSUME NEW d \in Devices, NEW i \in batch[d], PostResult(d, i) \/ PostFails(d, i),
             ~UNCHANGED jobs
      PROVE  jobs'[j].nonce \in handled'[jobs'[j].owner]
  <2>1. pc[d] = "post" /\ JobsResult(d, i, ledger[d][i].nonce)
    BY <1>7 DEF PostResult, PostFails
  <2>2. \/ jobs'[j] = jobs[j]
        \/ /\ j = i /\ jobs'[j].owner = d
           /\ jobs'[j].nonce = ledger[d][i].nonce /\ ledger[d][i].st = "executed"
    BY <2>1, ResultWrites
  <2>3. ledger[d][i].st = "executed" /\ i \in Ids => ledger[d][i].nonce \in handled[d]
    BY DEF IInv, ExecutedWasHandled
  <2> QED
    BY <2>2, <2>3, <1>1, <1>2
<1> QED
  BY <1>3, <1>4, <1>5, <1>6, <1>7
     DEF Next, Agent, vars, server, Revoke, Report, PullFails, Save, StartRunning, Execute,
         MarkExecuted, StartPosting, MarkReported, EndCycle, Crash, LedgerLost, Restart

\* A job that is done is one its own device produced a result for: no result of a deleted
\* job, and none of another device, completes the job that has its id (jobs_result).
THEOREM DoneWasHandledAlways == Spec => []DoneWasHandled
<1>1. Init => DoneWasHandled
  BY DEF Init, DoneWasHandled, NoRow
<1> QED
  BY <1>1, NextKeepsDone, Invariance, PTL DEF Spec

=============================================================================
