------------------------------ MODULE Inventory ------------------------------
(***************************************************************************)
(* The device inventory: what the network sweeps, the UniFi sync, the      *)
(* devices' own reports and the operators do to the rows of one table.     *)
(*                                                                         *)
(* A box is a physical device; it has a name and, unless it is Randomized, *)
(* one MAC address (a randomized box shows another MAC at every address it *)
(* gets).  DHCP may give any address to any box, so a sighting is any pair *)
(* of a box and an address.  Matching never sees the box, only the MAC,    *)
(* the address, the names and the certificate's CN (the box's name).       *)
(*                                                                         *)
(* The sync reads the table sighting by sighting but writes it only when   *)
(* it commits (SessionLocal has autoflush off), which a fold does early:   *)
(* its audit record commits the session.  All other operations are one     *)
(* transaction.                                                            *)
(***************************************************************************)
EXTENDS Naturals, FiniteSets, Sequences, FiniteSetsExt

CONSTANTS Boxes, Gear, Randomized,   \* Gear: the boxes the controller manages
          Addresses,
          MaxRows,                   \* rows the table holds at once
          AutoAdopt,                 \* UNIFI_AUTO_ADOPT
          MaxSteps                   \* a bound on the length of a history

None == "none"
Ids == 1 .. MaxRows
Names == Boxes \union {None}         \* None: absent or generic
MacOf(b, ip) == IF b \in Randomized THEN <<b, ip>> ELSE <<b>>
Macs == {MacOf(b, ip) : b \in Boxes, ip \in Addresses}

VARIABLES
  row,     \* Ids -> the row, a partial function
  sync,    \* the sync in progress: sightings left, edits and rows to insert
  steps    \* how long the history is, for the bound only

vars == <<row, sync, steps>>

Row == [name : Names, host : Names, mac : Macs \union {<<>>}, ip : Addresses,
        claimed : BOOLEAN, adoption : {"none", "enrolling", "linked", "revoked"},
        cn : Names, gear : BOOLEAN,
        stale : BOOLEAN,   \* tagged unifi-client, last seen before the cutoff
        held : BOOLEAN]    \* a metric, job, finding or episode refers to it

Nothing == [i \in {} |-> 0]
Idle == [on |-> FALSE, todo |-> {}, edits |-> Nothing, adds |-> <<>>]

Rows == DOMAIN row
Plain(b, ip) ==
  [name |-> b, host |-> b, mac |-> MacOf(b, ip), ip |-> ip, claimed |-> FALSE,
   adoption |-> "none", cn |-> None, gear |-> FALSE, stale |-> FALSE,
   held |-> FALSE]

(* SQLite hands out the id after the largest one in the table.             *)
LastId == Max({0} \union Rows)
NextId == 1 + LastId
Put(i, r) == [j \in Rows \union {i} |-> IF j = i THEN r ELSE row[j]]
Inserted(r) == Put(NextId, r)
Deleted(i) == [j \in Rows \ {i} |-> row[j]]
Room == LastId < MaxRows

Init == /\ row = Nothing
        /\ sync = Idle
        /\ steps = 0

-----------------------------------------------------------------------------
(* Matching.                                                               *)

Lowest(S) == IF S = {} THEN {} ELSE {Min(S)}

(* An existing row: by MAC first, then by address.                         *)
FindExisting(m, ip) ==
  LET byMac == {i \in Rows : m # <<>> /\ row[i].mac = m}
  IN  IF byMac # {} THEN Lowest(byMac)
      ELSE Lowest({i \in Rows : row[i].ip = ip})

FoldEligible(r) == /\ ~r.claimed
                   /\ r.adoption \in {"none", "enrolling"}
                   /\ ~r.gear

SameIdentity(r, b) == /\ r.name \in {b, None}
                      /\ b \in {r.name, r.host}

(* A randomized MAC that matches no row: the unclaimed row of the same     *)
(* name it may be folded into.  The most recently seen one wins, which can *)
(* be any of them.                                                         *)
FoldTargets(b, m) ==
  IF b \in Randomized /\ m # <<>>
  THEN {i \in Rows : FoldEligible(row[i]) /\ SameIdentity(row[i], b)}
  ELSE {}

Filled(old, new) == IF old = None THEN new ELSE old

Folded(r, b, m, ip) ==
  [r EXCEPT !.ip = ip, !.name = Filled(@, b), !.host = Filled(@, b),
            !.mac = IF @ = <<>> THEN m ELSE @, !.stale = FALSE]

-----------------------------------------------------------------------------
(* A ping or SNMP sweep reports a box; SNMP knows no MAC.                  *)

Conflicts(r, b, m) == \/ m # <<>> /\ r.mac # <<>> /\ r.mac # m
                      \/ r.name \notin {b, None}

Refreshed(r, b, m) ==
  [r EXCEPT !.mac = IF @ = <<>> THEN m ELSE @, !.name = Filled(@, b),
            !.host = Filled(@, b), !.stale = FALSE]

Sweep(b, ip, m) ==
  LET found == FindExisting(m, ip)
      folds == FoldTargets(b, m)
  IN  /\ UNCHANGED sync
      /\ \/ /\ found = {} /\ folds = {} /\ Room
            /\ row' = Inserted([Plain(b, ip) EXCEPT !.mac = m])
         \/ /\ found = {}
            /\ \E i \in folds : row' = [row EXCEPT ![i] = Folded(@, b, m, ip)]
         \/ \E i \in found :
              IF row[i].claimed
              THEN /\ ~Conflicts(row[i], b, m)
                   /\ row' = [row EXCEPT ![i].stale = FALSE]
              ELSE row' = [row EXCEPT ![i] = Refreshed(@, b, m)]

-----------------------------------------------------------------------------
(* The UniFi sync.                                                         *)

SyncStart == /\ ~sync.on
             /\ \E S \in SUBSET Boxes : sync' = [Idle EXCEPT !.on = TRUE, !.todo = S]
             /\ UNCHANGED row

(* The row as the session sees it, what it has set over what is stored;    *)
(* and the edits once it sets the row to r: the fields that differ.        *)
Seen(i) == [f \in DOMAIN row[i] |->
              IF i \in DOMAIN sync.edits /\ f \in DOMAIN sync.edits[i]
              THEN sync.edits[i][f] ELSE row[i][f]]

Edits(i, r) == [j \in DOMAIN sync.edits \union {i} |->
                  IF j = i THEN [f \in {g \in DOMAIN r : r[g] # row[i][g]} |-> r[f]]
                  ELSE sync.edits[j]]

NewGear(b, ip) == [Plain(b, ip) EXCEPT !.claimed = AutoAdopt, !.gear = TRUE]

(* A device of the controller: whatever row its MAC or address finds takes *)
(* its address and host name.                                              *)
RefreshedGear(r, b, ip) ==
  [r EXCEPT !.gear = TRUE, !.ip = ip, !.host = b, !.stale = FALSE,
            !.claimed = @ \/ AutoAdopt]

SyncGear(b, ip) ==
  LET found == FindExisting(MacOf(b, ip), ip)
  IN  /\ sync.on /\ b \in sync.todo \intersect Gear
      /\ \/ /\ found = {}
            /\ sync' = [sync EXCEPT !.todo = @ \ {b}, !.adds = Append(@, NewGear(b, ip))]
         \/ \E i \in found :
              sync' = [sync EXCEPT !.todo = @ \ {b},
                                   !.edits = Edits(i, RefreshedGear(Seen(i), b, ip))]
      /\ UNCHANGED row

(* A client: an unclaimed row without a MAC takes the client's identity,   *)
(* any other one its reachability.                                         *)
RefreshedClient(r, b, m, old) ==
  IF r.mac = <<>> /\ ~r.claimed
  THEN [r EXCEPT !.mac = m, !.name = Filled(@, b), !.host = Filled(@, b), !.stale = old]
  ELSE [r EXCEPT !.host = Filled(@, b), !.stale = old]

(* The commit: the edits and the new rows, in one transaction that fails   *)
(* as a whole when an edited or pruned row is gone or a pruned row is      *)
(* still referred to (foreign keys are enforced).                          *)
Flushed(adds) ==
  [i \in Rows \union (NextId .. LastId + Len(adds)) |->
     IF i \in Rows THEN Seen(i) ELSE adds[i - LastId]]

Writable == /\ DOMAIN sync.edits \subseteq Rows
            /\ LastId + Len(sync.adds) <= MaxRows

SyncClient(b, ip, old) ==
  LET m == MacOf(b, ip)
      found == FindExisting(m, ip)
      folds == FoldTargets(b, m)
  IN  /\ sync.on /\ b \in sync.todo \ Gear
      /\ \/ /\ found = {} /\ folds = {}
            /\ sync' = [sync EXCEPT !.todo = @ \ {b},
                                    !.adds = Append(@, [Plain(b, ip) EXCEPT !.stale = old])]
            /\ UNCHANGED row
         \/ \E i \in found :
              /\ sync' = [sync EXCEPT !.todo = @ \ {b},
                            !.edits = Edits(i, RefreshedClient(Seen(i), b, m, old))]
              /\ UNCHANGED row
         \/ /\ found = {} /\ Writable      \* the fold's audit record commits
            /\ \E i \in folds :
                 /\ row' = [Flushed(sync.adds) EXCEPT ![i] = Folded(@, b, m, ip)]
                 /\ sync' = [sync EXCEPT !.todo = @ \ {b}, !.edits = Nothing, !.adds = <<>>]

(* Clients of the table that were not seen for the retention period and in *)
(* which nobody invested are pruned with the commit.                       *)
Prunable(r) == ~r.claimed /\ r.adoption = "none" /\ r.stale

SyncCommit ==
  LET rows == Flushed(sync.adds)
      old == {i \in Rows : Prunable(row[i])}
  IN  /\ sync.on /\ sync.todo = {} /\ Writable
      /\ \A i \in old : ~row[i].held
      /\ row' = [i \in DOMAIN rows \ old |-> rows[i]]
      /\ sync' = Idle

SyncFails == /\ sync.on
             /\ sync' = Idle
             /\ UNCHANGED row

-----------------------------------------------------------------------------
(* A device reports with its certificate.  The row is the one with its CN, *)
(* else the newest one of its name, else an unclaimed one with its address *)
(* or MAC (or, for a randomized MAC, its identity), else a new one.        *)

Unlinked(i) == ~row[i].claimed /\ row[i].adoption \in {"none", "enrolling"}

ReportRow(b, ip, m) ==
  LET byCn == {i \in Rows : row[i].cn = b}
      byName == {i \in Rows : row[i].name = b}
      byPlace == {i \in Rows : Unlinked(i) /\ (row[i].ip = ip \/ (m # <<>> /\ row[i].mac = m))}
  IN  IF byCn # {} THEN Lowest(byCn)
      ELSE IF byName # {} THEN {Max(byName)}
      ELSE IF byPlace # {} THEN byPlace
      ELSE FoldTargets(b, m)

InPlace(b, i) == row[i].cn # b /\ row[i].name # b

Placed(r, b, ip, m) == [r EXCEPT !.host = b, !.ip = ip, !.mac = IF @ = <<>> THEN m ELSE @]

Linked(r, b) == [r EXCEPT !.adoption = "linked", !.claimed = TRUE, !.stale = FALSE,
                          !.cn = IF r.adoption = "linked" THEN @ ELSE b]

Reported(i, b, ip, m) ==
  LET r == row[i]
  IN  Linked(IF InPlace(b, i) THEN Placed(r, b, ip, m)
             ELSE [r EXCEPT !.host = Filled(@, b)], b)

Report(b, ip, m) ==
  LET found == ReportRow(b, ip, m)
  IN  /\ UNCHANGED sync
      /\ \/ /\ found = {} /\ Room
            /\ row' = Inserted(Linked([Plain(b, ip) EXCEPT !.mac = <<>>], b))
         \/ \E i \in found :
              /\ row[i].adoption # "revoked"
              /\ row' = [row EXCEPT ![i] = Reported(i, b, ip, m)]

-----------------------------------------------------------------------------
(* The operators.                                                          *)

Create(b, ip) == /\ Room /\ \A i \in Rows : row[i].ip # ip
                 /\ row' = Inserted([Plain(b, ip) EXCEPT !.claimed = TRUE, !.mac = <<>>])
                 /\ UNCHANGED sync

Claim(i, b) == /\ ~row[i].claimed
               /\ row' = [row EXCEPT ![i].claimed = TRUE, ![i].name = b, ![i].host = b,
                                     ![i].stale = FALSE]
               /\ UNCHANGED sync

AdoptCert(i) == /\ row[i].adoption # "revoked"
                /\ row' = [row EXCEPT ![i].adoption = "enrolling", ![i].cn = row[i].name]
                /\ UNCHANGED sync

Revoke(i) == /\ row' = [row EXCEPT ![i].adoption = "revoked"]
             /\ UNCHANGED sync

(* The tickets and the monitors of the row are detached; any other         *)
(* reference makes the delete fail.                                        *)
Delete(i) == /\ ~row[i].held
             /\ row' = Deleted(i)
             /\ UNCHANGED sync

(* Two rows of one box: the survivor takes over what the duplicate has,    *)
(* the adoption status "none" included.                                    *)
Merged(k, d) ==
  [k EXCEPT !.cn = IF d.cn = None THEN @ ELSE d.cn, !.adoption = d.adoption,
            !.claimed = @ \/ d.claimed, !.host = Filled(@, d.host),
            !.held = @ \/ d.held]

MergeUnasked(k, d) ==   \* mutant: only two certificates are compared
  /\ k # d
  /\ ~ /\ row[k].adoption = "linked" /\ row[d].cn # None
       /\ row[k].cn \notin {None, row[d].cn}
  /\ row' = [i \in Rows \ {d} |-> IF i = k THEN Merged(row[k], row[d]) ELSE row[i]]
  /\ UNCHANGED sync

Merge(k, d) ==
  /\ k # d /\ row[k].adoption # "revoked"
  /\ ~ /\ row[k].adoption = "linked" /\ row[d].cn # None
       /\ row[k].cn \notin {None, row[d].cn}
  /\ row' = [i \in Rows \ {d} |-> IF i = k THEN Merged(row[k], row[d]) ELSE row[i]]
  /\ UNCHANGED sync

(* A metric, a job, a finding or an episode comes to refer to the row.     *)
Refer(i) == /\ row' = [row EXCEPT ![i].held = TRUE]
            /\ UNCHANGED sync

(* Time passes: a tagged client has not been seen for the retention time.  *)
Ages(i) == /\ row' = [row EXCEPT ![i].stale = TRUE]
           /\ UNCHANGED sync

Act ==
  \/ \E b \in Boxes, ip \in Addresses :
       \/ \E m \in {<<>>, MacOf(b, ip)} : Sweep(b, ip, m) \/ Report(b, ip, m)
       \/ SyncGear(b, ip)
       \/ \E old \in BOOLEAN : SyncClient(b, ip, old)
       \/ Create(b, ip)
  \/ SyncStart \/ SyncCommit \/ SyncFails
  \/ \E i \in Rows : \/ \E b \in Boxes : Claim(i, b)
                     \/ AdoptCert(i) \/ Revoke(i) \/ Delete(i) \/ Refer(i) \/ Ages(i)
                     \/ \E d \in Rows : Merge(i, d)

Next == steps < MaxSteps /\ steps' = steps + 1 /\ Act

Spec == Init /\ [][Next]_vars

-----------------------------------------------------------------------------
TypeOK == /\ steps \in 0 .. MaxSteps
          /\ Rows \subseteq Ids /\ \A i \in Rows : row[i] \in Row
          /\ sync.on \in BOOLEAN /\ sync.todo \subseteq Boxes
          /\ \A n \in DOMAIN sync.adds : sync.adds[n] \in Row

(* The revocation of a device's certificate is final for the row that      *)
(* carries it: no report, enrollment, sync or merge that leaves the row in *)
(* the table makes it trusted again.                                       *)
RevokedStays ==
  [][\A i \in Rows \intersect DOMAIN row' :
       row[i].adoption = "revoked" => row'[i].adoption = "revoked"]_row

(* discovery.py:10: "A `claimed=1` record's identity is never stolen": the *)
(* host name of a claimed row changes by no discovery, sync or report.     *)
ClaimedIdentityKept ==
  [][\A i \in Rows \intersect DOMAIN row' :
       row[i].claimed /\ row[i].host # None => row'[i].host = row[i].host]_row
=============================================================================
