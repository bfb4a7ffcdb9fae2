---------------------------- MODULE DevicesProofs ----------------------------
(***************************************************************************)
(* Proofs about MCDevices: what the appliance keeps of the devices has its *)
(* types, a revoked record stays revoked, no unconfirmed write cuts off a  *)
(* port, and the tables of channels and rules agree with each other.       *)
(*                                                                         *)
(* A sync's edits never contain the adoption of a row, so that neither a   *)
(* commit nor a fold can undo a revocation.  The verdict of the gate still *)
(* holds when the PUT is sent, because one request is made at a time and   *)
(* the client holds what the controller stores.                            *)
(***************************************************************************)
EXTENDS MCDevices, DeviceJobsProofs, FiniteSetTheorems, WellFoundedInduction,
        Sequences, SequenceTheorems, TLAPS

-----------------------------------------------------------------------------
(* Inventory: what the rows and the edits of a sync are.                   *)

\* The fields that a sync may set: the adoption is not one of them.
Fields == {"name", "host", "mac", "ip", "claimed", "adoption", "cn", "gear", "stale", "held"}

\* Edits are values that a row may have, ...
EditOfRow(e) == /\ DOMAIN e \subseteq Fields
                /\ \E r \in Records!Row : \A f \in DOMAIN e : e[f] = r[f]

\* ... and never the adoption of one.
EditsLeaveAdoption == \A i \in DOMAIN sync.edits : "adoption" \notin DOMAIN sync.edits[i]

SyncTypes ==
    /\ sync = [on |-> sync.on, todo |-> sync.todo, edits |-> sync.edits, adds |-> sync.adds]
    /\ sync.on \in BOOLEAN /\ sync.todo \subseteq Boxes
    /\ sync.adds \in Seq(Records!Row)
    /\ sync.edits = [i \in DOMAIN sync.edits |-> sync.edits[i]]
    /\ \A i \in DOMAIN sync.edits : EditOfRow(sync.edits[i])

RowTypes ==
    /\ row = [i \in DOMAIN row |-> row[i]]
    /\ DOMAIN row \subseteq 1..MaxRecords
    /\ \A i \in DOMAIN row : row[i] \in Records!Row

RecordsInv == RowTypes /\ SyncTypes /\ EditsLeaveAdoption /\ steps \in 0..MaxSteps

-----------------------------------------------------------------------------
(* Rows.                                                                    *)

\* A row is a function of its fields, and has the types of Row.
RowShape(r) ==
    /\ r = [name |-> r.name, host |-> r.host, mac |-> r.mac, ip |-> r.ip, claimed |-> r.claimed,
            adoption |-> r.adoption, cn |-> r.cn, gear |-> r.gear, stale |-> r.stale,
            held |-> r.held]
    /\ r.name \in Records!Names /\ r.host \in Records!Names
    /\ r.mac \in Records!Macs \union {<<>>} /\ r.ip \in Addresses /\ r.claimed \in BOOLEAN
    /\ r.adoption \in {"none", "enrolling", "linked", "revoked"} /\ r.cn \in Records!Names
    /\ r.gear \in BOOLEAN /\ r.stale \in BOOLEAN /\ r.held \in BOOLEAN

LEMMA RowIsShape == \A r : r \in Records!Row <=> RowShape(r)
  BY DEF Records!Row, RowShape

LEMMA RowFields ==
    ASSUME NEW r, RowShape(r) PROVE DOMAIN r = Fields /\ r = [f \in Fields |-> r[f]]
<1>1. DOMAIN r = Fields
  BY DEF RowShape, Fields
<1>2. r = [f \in Fields |-> r[f]]
  BY DEF RowShape, Fields
<1> QED
  BY <1>1, <1>2

\* Fields of two rows make a row.
LEMMA MixIsRow ==
    ASSUME NEW r \in Records!Row, NEW q \in Records!Row, NEW m, m = [f \in Fields |-> m[f]],
           \A f \in Fields : m[f] = r[f] \/ m[f] = q[f]
    PROVE  m \in Records!Row
<1> DEFINE p == [name |-> m["name"], host |-> m["host"], mac |-> m["mac"], ip |-> m["ip"],
                 claimed |-> m["claimed"], adoption |-> m["adoption"], cn |-> m["cn"],
                 gear |-> m["gear"], stale |-> m["stale"], held |-> m["held"]]
<1>1. RowShape(r) /\ RowShape(q)
  BY RowIsShape
<1>2. RowShape(p)
  BY <1>1 DEF RowShape, Fields
<1>3. \A f \in Fields : p[f] = m[f]
  BY DEF Fields
<1>4. p = [f \in Fields |-> p[f]]
  BY <1>2, RowFields
<1> HIDE DEF p
<1>5. p = m
  BY <1>3, <1>4
<1> QED
  BY <1>2, <1>5, RowIsShape

\* What a session sees of a row is a row of the same adoption.
LEMMA SeenIsRow ==
    ASSUME RecordsInv, NEW i \in DOMAIN row
    PROVE  /\ Records!Seen(i) \in Records!Row
           /\ Records!Seen(i).adoption = row[i].adoption
<1> DEFINE m == Records!Seen(i)
<1>1. row[i] \in Records!Row /\ DOMAIN row[i] = Fields /\ "adoption" \in Fields
  BY RowIsShape, RowFields DEF RecordsInv, RowTypes, Fields
<1>2. m = [f \in Fields |-> IF i \in DOMAIN sync.edits /\ f \in DOMAIN sync.edits[i]
                            THEN sync.edits[i][f] ELSE row[i][f]]
  BY <1>1 DEF Records!Seen
<1>3. m["adoption"] = row[i]["adoption"]
  BY <1>1, <1>2 DEF RecordsInv, EditsLeaveAdoption
<1>4. m = [f \in Fields |-> m[f]]
  BY <1>2
<1>5. CASE i \in DOMAIN sync.edits
  <2>1. PICK r \in Records!Row : \A f \in DOMAIN sync.edits[i] : sync.edits[i][f] = r[f]
    BY <1>5 DEF RecordsInv, SyncTypes, EditOfRow
  <2>2. \A f \in Fields : m[f] = r[f] \/ m[f] = row[i][f]
    BY <1>2, <2>1
  <2> HIDE DEF m
  <2>3. m \in Records!Row
    BY <1>1, <1>4, <2>2, MixIsRow
  <2> QED
    BY <1>3, <2>3 DEF m
<1>6. CASE i \notin DOMAIN sync.edits
  <2>1. \A f \in Fields : m[f] = row[i][f]
    BY <1>2, <1>6
  <2> HIDE DEF m
  <2>2. m \in Records!Row
    BY <1>1, <1>4, <2>1, MixIsRow
  <2> QED
    BY <1>3, <2>2 DEF m
<1> QED
  BY <1>5, <1>6

\* The rows that the operations make, and the adoption they have.
LEMMA PlainIsRow ==
    ASSUME NEW b \in Boxes, NEW ip \in Addresses
    PROVE  LET m == Records!Plain(b, ip) IN m \in Records!Row /\ m.adoption = "none"
  BY DEF Records!Row, Records!Plain, Records!Names, Records!Macs, Records!None

LEMMA FilledIsName ==
    ASSUME NEW old \in Records!Names, NEW new \in Records!Names
    PROVE  Records!Filled(old, new) \in Records!Names
  BY DEF Records!Filled

LEMMA FoldedIsRow ==
    ASSUME NEW r \in Records!Row, NEW b \in Boxes, NEW m \in Records!Macs \union {<<>>},
           NEW ip \in Addresses
    PROVE  LET q == Records!Folded(r, b, m, ip) IN
           q \in Records!Row /\ q.adoption = r.adoption
<1> DEFINE name == Records!Filled(r.name, b)
           host == Records!Filled(r.host, b)
           mac == IF r.mac = <<>> THEN m ELSE r.mac
           q == Records!Folded(r, b, m, ip)
<1>1. RowShape(r) /\ b \in Records!Names
  BY RowIsShape DEF Records!Names
<1>2. /\ name \in Records!Names /\ host \in Records!Names
      /\ mac \in Records!Macs \union {<<>>}
  BY <1>1, FilledIsName DEF RowShape
<1>3. q = [r EXCEPT !.ip = ip, !.name = name, !.host = host, !.mac = mac, !.stale = FALSE]
  BY DEF Records!Folded
<1> HIDE DEF name, host, mac, q
<1>4. RowShape(q) /\ q.adoption = r.adoption
  BY <1>1, <1>2, <1>3 DEF RowShape
<1> QED
  BY <1>4, RowIsShape DEF q

LEMMA RefreshedIsRow ==
    ASSUME NEW r \in Records!Row, NEW b \in Boxes, NEW m \in Records!Macs \union {<<>>}
    PROVE  LET q == Records!Refreshed(r, b, m) IN
           q \in Records!Row /\ q.adoption = r.adoption
<1> DEFINE name == Records!Filled(r.name, b)
           host == Records!Filled(r.host, b)
           mac == IF r.mac = <<>> THEN m ELSE r.mac
           q == Records!Refreshed(r, b, m)
<1>1. RowShape(r) /\ b \in Records!Names
  BY RowIsShape DEF Records!Names
<1>2. /\ name \in Records!Names /\ host \in Records!Names
      /\ mac \in Records!Macs \union {<<>>}
  BY <1>1, FilledIsName DEF RowShape
<1>3. q = [r EXCEPT !.mac = mac, !.name = name, !.host = host, !.stale = FALSE]
  BY DEF Records!Refreshed
<1> HIDE DEF name, host, mac, q
<1>4. RowShape(q) /\ q.adoption = r.adoption
  BY <1>1, <1>2, <1>3 DEF RowShape
<1> QED
  BY <1>4, RowIsShape DEF q

LEMMA GearIsRow ==
    ASSUME NEW r \in Records!Row, NEW b \in Boxes, NEW ip \in Addresses
    PROVE  LET q == Records!RefreshedGear(r, b, ip) IN
           q \in Records!Row /\ q.adoption = r.adoption
<1> DEFINE claimed == r.claimed \/ AutoAdopt
           q == Records!RefreshedGear(r, b, ip)
<1>1. RowShape(r) /\ b \in Records!Names
  BY RowIsShape DEF Records!Names
<1>2. q = [r EXCEPT !.gear = TRUE, !.ip = ip, !.host = b, !.stale = FALSE, !.claimed = claimed]
  BY DEF Records!RefreshedGear
<1>3. claimed \in BOOLEAN
  OBVIOUS
<1> HIDE DEF claimed, q
<1>4. RowShape(q) /\ q.adoption = r.adoption
  BY <1>1, <1>2, <1>3 DEF RowShape
<1> QED
  BY <1>4, RowIsShape DEF q

LEMMA ClientIsRow ==
    ASSUME NEW r \in Records!Row, NEW b \in Boxes, NEW m \in Records!Macs, NEW old \in BOOLEAN
    PROVE  LET q == Records!RefreshedClient(r, b, m, old) IN
           q \in Records!Row /\ q.adoption = r.adoption
<1> DEFINE name == Records!Filled(r.name, b)
           host == Records!Filled(r.host, b)
           q == Records!RefreshedClient(r, b, m, old)
<1>1. RowShape(r) /\ b \in Records!Names
  BY RowIsShape DEF Records!Names
<1>2. name \in Records!Names /\ host \in Records!Names
  BY <1>1, FilledIsName DEF RowShape
<1>3. \/ q = [r EXCEPT !.mac = m, !.name = name, !.host = host, !.stale = old]
      \/ q = [r EXCEPT !.host = host, !.stale = old]
  BY DEF Records!RefreshedClient
<1> HIDE DEF name, host, q
<1>4. CASE q = [r EXCEPT !.mac = m, !.name = name, !.host = host, !.stale = old]
  <2>1. RowShape(q) /\ q.adoption = r.adoption
    BY <1>1, <1>2, <1>4 DEF RowShape
  <2> QED
    BY <2>1, RowIsShape DEF q
<1>5. CASE q = [r EXCEPT !.host = host, !.stale = old]
  <2>1. RowShape(q) /\ q.adoption = r.adoption
    BY <1>1, <1>2, <1>5 DEF RowShape
  <2> QED
    BY <2>1, RowIsShape DEF q
<1> QED
  BY <1>3, <1>4, <1>5

LEMMA LinkedIsRow ==
    ASSUME NEW r \in Records!Row, NEW b \in Boxes
    PROVE  Records!Linked(r, b) \in Records!Row
<1> DEFINE cn == IF r.adoption = "linked" THEN r.cn ELSE b
           q == Records!Linked(r, b)
<1>1. RowShape(r) /\ b \in Records!Names
  BY RowIsShape DEF Records!Names
<1>2. q = [r EXCEPT !.adoption = "linked", !.claimed = TRUE, !.stale = FALSE, !.cn = cn]
  BY DEF Records!Linked
<1>3. cn \in Records!Names
  BY <1>1 DEF RowShape
<1> HIDE DEF cn, q
<1>4. RowShape(q)
  BY <1>1, <1>2, <1>3 DEF RowShape
<1> QED
  BY <1>4, RowIsShape DEF q

LEMMA PlacedIsRow ==
    ASSUME NEW r \in Records!Row, NEW b \in Boxes, NEW m \in Records!Macs \union {<<>>},
           NEW ip \in Addresses
    PROVE  Records!Placed(r, b, ip, m) \in Records!Row
<1> DEFINE mac == IF r.mac = <<>> THEN m ELSE r.mac
           q == Records!Placed(r, b, ip, m)
<1>1. RowShape(r) /\ b \in Records!Names
  BY RowIsShape DEF Records!Names
<1>2. mac \in Records!Macs \union {<<>>}
  BY <1>1 DEF RowShape
<1>3. q = [r EXCEPT !.host = b, !.ip = ip, !.mac = mac]
  BY DEF Records!Placed
<1> HIDE DEF mac, q
<1>4. RowShape(q)
  BY <1>1, <1>2, <1>3 DEF RowShape
<1> QED
  BY <1>4, RowIsShape DEF q

LEMMA MergedIsRow ==
    ASSUME NEW r \in Records!Row, NEW d \in Records!Row
    PROVE  Records!Merged(r, d) \in Records!Row
<1> DEFINE cn == IF d.cn = Records!None THEN r.cn ELSE d.cn
           host == Records!Filled(r.host, d.host)
           claimed == r.claimed \/ d.claimed
           held == r.held \/ d.held
           q == Records!Merged(r, d)
<1>1. RowShape(r) /\ RowShape(d)
  BY RowIsShape
<1>2. cn \in Records!Names /\ host \in Records!Names
  BY <1>1, FilledIsName DEF RowShape
<1>3. claimed \in BOOLEAN /\ held \in BOOLEAN
  OBVIOUS
<1>4. q = [r EXCEPT !.cn = cn, !.adoption = d.adoption, !.claimed = claimed, !.host = host,
                    !.held = held]
  BY DEF Records!Merged
<1> HIDE DEF cn, host, claimed, held, q
<1>5. RowShape(q)
  BY <1>1, <1>2, <1>3, <1>4 DEF RowShape
<1> QED
  BY <1>5, RowIsShape DEF q

\* Of the numbers of a set of natural numbers that has a bound, Max is the greatest.
LEMMA SmallestNumber ==
    ASSUME NEW S \in SUBSET Nat, S # {}
    PROVE  \E k \in S : \A j \in S : k <= j
<1> DEFINE R == {p \in Nat \X Nat : p[1] < p[2]}
<1>1. IsWellFoundedOn(R, Nat)
  BY NatLessThanWellFounded, Zenon DEF OpToRel
<1>2. \A p \in Nat, q \in Nat : <<p, q>> \in R <=> p < q
  OBVIOUS
<1> HIDE DEF R
<1>3. PICK x \in S : \A y \in S : ~ (<<y, x>> \in R)
  BY <1>1, WFMin, Zenon
<1>4. ASSUME NEW y \in S PROVE ~(y < x)
  BY <1>2, <1>3, Zenon
<1> QED
  BY <1>4

LEMMA MaxIsGreatest ==
    ASSUME NEW n \in Nat, NEW S \in SUBSET (0..n), S # {}
    PROVE  Records!Max(S) \in S /\ \A j \in S : j <= Records!Max(S)
<1> DEFINE T == {n - j : j \in S}
<1>1. T \in SUBSET Nat /\ T # {}
  OBVIOUS
<1>2. PICK k \in T : \A j \in T : k <= j
  BY <1>1, SmallestNumber
<1>3. PICK x \in S : k = n - x
  OBVIOUS
<1>4. ASSUME NEW j \in S PROVE x >= j
  BY <1>2, <1>3
<1>5. \E y \in S : \A j \in S : y >= j
  BY <1>4
<1>6. Records!Max(S) \in S /\ \A j \in S : Records!Max(S) >= j
  BY <1>5, Zenon DEF Records!Max
<1> QED
  BY <1>6

LEMMA LastIdIsLast ==
    ASSUME RecordsInv
    PROVE  Records!LastId \in 0..MaxRecords /\ \A i \in DOMAIN row : i <= Records!LastId
<1>1. MaxRecords \in Nat
  BY DevicesAssumption
<1>2. ({0} \union DOMAIN row) \in SUBSET (0..MaxRecords)
  BY <1>1 DEF RecordsInv, RowTypes
<1> QED
  BY <1>1, <1>2, MaxIsGreatest DEF Records!LastId, Records!Rows

-----------------------------------------------------------------------------
(* What the operations do to the table.                                    *)

\* The rows that stay are revoked if they were.
RevokedKept ==
    \A i \in DOMAIN row \intersect DOMAIN row' :
        row[i].adoption = "revoked" => row'[i].adoption = "revoked"

\* A row changes: what was revoked stays so.
LEMMA OneRowChanges ==
    ASSUME RecordsInv, NEW i \in DOMAIN row, NEW r \in Records!Row,
           row' = [row EXCEPT ![i] = r],
           row[i].adoption = "revoked" => r.adoption = "revoked"
    PROVE  RowTypes' /\ RevokedKept
<1>1. row' = [j \in DOMAIN row |-> IF j = i THEN r ELSE row[j]]
  BY DEF RecordsInv, RowTypes
<1>2. DOMAIN row' = DOMAIN row
  BY <1>1
<1>3. \A j \in DOMAIN row : row'[j] = IF j = i THEN r ELSE row[j]
  BY <1>1
<1>4. row' = [j \in DOMAIN row' |-> row'[j]]
  BY <1>1
<1> QED
  BY <1>2, <1>3, <1>4 DEF RecordsInv, RowTypes, RevokedKept

\* A row is inserted with an id that no row has.
LEMMA OneRowMore ==
    ASSUME RecordsInv, Records!Room, NEW r \in Records!Row, row' = Records!Inserted(r)
    PROVE  RowTypes' /\ RevokedKept
<1>1. MaxRecords \in Nat /\ Records!LastId \in 0..MaxRecords
      /\ \A i \in DOMAIN row : i <= Records!LastId
  BY LastIdIsLast, DevicesAssumption
<1> DEFINE n == 1 + Records!LastId
<1>2. n \in 1..MaxRecords
  BY <1>1 DEF Records!Room
<1>3. n \notin DOMAIN row
  BY <1>1
<1>4. row' = [j \in DOMAIN row \union {n} |-> IF j = n THEN r ELSE row[j]]
  BY DEF Records!Inserted, Records!Put, Records!NextId, Records!Rows
<1> HIDE DEF n
<1>5. DOMAIN row' = DOMAIN row \union {n}
  BY <1>4
<1>6. \A j \in DOMAIN row' : row'[j] = IF j = n THEN r ELSE row[j]
  BY <1>4
<1>7. row' = [j \in DOMAIN row' |-> row'[j]]
  BY <1>4
<1>8. RevokedKept
  BY <1>3, <1>5, <1>6 DEF RevokedKept
<1>9. RowTypes'
  BY <1>2, <1>5, <1>6, <1>7 DEF RecordsInv, RowTypes
<1> QED
  BY <1>8, <1>9

\* Rows go.
LEMMA RowsGo ==
    ASSUME RecordsInv, NEW old, row' = [i \in DOMAIN row \ old |-> row[i]]
    PROVE  RowTypes' /\ RevokedKept
<1>1. DOMAIN row' = DOMAIN row \ old /\ \A i \in DOMAIN row' : row'[i] = row[i]
  OBVIOUS
<1> QED
  BY <1>1 DEF RecordsInv, RowTypes, RevokedKept

\* The commit of a session: its edits and the rows it adds.
LEMMA FlushedIsTable ==
    ASSUME RecordsInv, Records!Writable
    PROVE  LET rows == Records!Flushed(sync.adds) IN
           /\ rows = [i \in DOMAIN rows |-> rows[i]]
           /\ DOMAIN row \subseteq DOMAIN rows /\ DOMAIN rows \subseteq 1..MaxRecords
           /\ \A i \in DOMAIN rows : rows[i] \in Records!Row
           /\ \A i \in DOMAIN row : rows[i].adoption = row[i].adoption
<1> DEFINE last == Records!LastId
           rows == Records!Flushed(sync.adds)
           new == (1 + last) .. (last + Len(sync.adds))
<1>1. /\ MaxRecords \in Nat /\ last \in 0..MaxRecords
      /\ \A i \in DOMAIN row : i <= last
  BY LastIdIsLast, DevicesAssumption
<1>2. /\ Len(sync.adds) \in Nat
      /\ \A n \in 1..Len(sync.adds) : sync.adds[n] \in Records!Row
  BY DEF RecordsInv, SyncTypes
<1>3. last + Len(sync.adds) <= MaxRecords
  BY DEF Records!Writable
<1>4. rows = [i \in DOMAIN row \union new |->
                IF i \in DOMAIN row THEN Records!Seen(i) ELSE sync.adds[i - last]]
  BY DEF Records!Flushed, Records!Rows, Records!NextId
<1> HIDE DEF rows, last
<1>5. \A i \in new : i \in 1..MaxRecords /\ i - last \in 1..Len(sync.adds)
  BY <1>1, <1>2, <1>3
<1>6. DOMAIN row \subseteq 1..MaxRecords
  BY DEF RecordsInv, RowTypes
<1> HIDE DEF new
<1>7. DOMAIN rows = DOMAIN row \union new
  BY <1>4
<1>8. ASSUME NEW i \in DOMAIN row
      PROVE  rows[i] \in Records!Row /\ rows[i].adoption = row[i].adoption
  <2>1. rows[i] = Records!Seen(i)
    BY <1>4
  <2> QED
    BY <2>1, SeenIsRow
<1>9. ASSUME NEW i \in new, i \notin DOMAIN row PROVE rows[i] \in Records!Row
  <2>1. rows[i] = sync.adds[i - last]
    BY <1>4, <1>9
  <2> QED
    BY <1>2, <1>5, <2>1
<1>10. rows = [i \in DOMAIN rows |-> rows[i]]
  BY <1>4
<1>11. DOMAIN rows \subseteq 1..MaxRecords
  BY <1>5, <1>6, <1>7
<1>12. \A i \in DOMAIN rows : rows[i] \in Records!Row
  BY <1>7, <1>8, <1>9
<1> QED
  BY <1>7, <1>8, <1>10, <1>11, <1>12 DEF rows

-----------------------------------------------------------------------------
(* What the matching finds are rows of the table.                          *)

LEMMA LowestIsIn ==
    ASSUME NEW S \in SUBSET Nat PROVE Records!Lowest(S) \subseteq S
<1>1. CASE S = {}
  BY <1>1 DEF Records!Lowest
<1>2. CASE S # {}
  <2>1. \E x \in S : \A y \in S : x =< y
    BY <1>2, SmallestNumber
  <2>2. Records!Min(S) \in S
    BY <2>1, Zenon DEF Records!Min
  <2> QED
    BY <1>2, <2>2 DEF Records!Lowest
<1> QED
  BY <1>1, <1>2

LEMMA FoundAreRows ==
    ASSUME RecordsInv, NEW b, NEW m, NEW ip
    PROVE  /\ Records!FindExisting(m, ip) \subseteq DOMAIN row
           /\ Records!FoldTargets(b, m) \subseteq DOMAIN row
           /\ Records!ReportRow(b, ip, m) \subseteq DOMAIN row
<1>1. DOMAIN row \subseteq 1..MaxRecords /\ MaxRecords \in Nat
  BY DevicesAssumption DEF RecordsInv, RowTypes
<1>2. \A S \in SUBSET DOMAIN row : S \in SUBSET Nat /\ S \in SUBSET (0..MaxRecords)
  BY <1>1
<1>3. \A S \in SUBSET DOMAIN row : Records!Lowest(S) \subseteq DOMAIN row
  BY <1>2, LowestIsIn, Zenon
<1>4. \A S \in SUBSET DOMAIN row : S # {} => Records!Max(S) \in DOMAIN row
  BY <1>1, <1>2, MaxIsGreatest
<1>5. Records!FoldTargets(b, m) \subseteq DOMAIN row
  BY DEF Records!FoldTargets, Records!Rows
<1>6. Records!FindExisting(m, ip) \subseteq DOMAIN row
  <2> DEFINE byMac == {i \in DOMAIN row : m # <<>> /\ row[i].mac = m}
             byIp == {i \in DOMAIN row : row[i].ip = ip}
  <2>1. \/ Records!FindExisting(m, ip) = Records!Lowest(byMac)
        \/ Records!FindExisting(m, ip) = Records!Lowest(byIp)
    BY Zenon DEF Records!FindExisting, Records!Rows
  <2>2. byMac \in SUBSET DOMAIN row /\ byIp \in SUBSET DOMAIN row
    OBVIOUS
  <2> HIDE DEF byMac, byIp
  <2> QED
    BY <1>3, <2>1, <2>2
<1>7. Records!ReportRow(b, ip, m) \subseteq DOMAIN row
  <2> DEFINE byCn == {i \in DOMAIN row : row[i].cn = b}
             byName == {i \in DOMAIN row : row[i].name = b}
             byPlace == {i \in DOMAIN row : Records!Unlinked(i)
                           /\ (row[i].ip = ip \/ (m # <<>> /\ row[i].mac = m))}
  <2>1. \/ Records!ReportRow(b, ip, m) = Records!Lowest(byCn)
        \/ byName # {} /\ Records!ReportRow(b, ip, m) = {Records!Max(byName)}
        \/ Records!ReportRow(b, ip, m) = byPlace
        \/ Records!ReportRow(b, ip, m) = Records!FoldTargets(b, m)
    BY Zenon DEF Records!ReportRow, Records!Rows
  <2>2. /\ byCn \in SUBSET DOMAIN row /\ byName \in SUBSET DOMAIN row
        /\ byPlace \in SUBSET DOMAIN row
    OBVIOUS
  <2> HIDE DEF byCn, byName, byPlace
  <2> QED
    BY <1>3, <1>4, <1>5, <2>1, <2>2
<1> QED
  BY <1>5, <1>6, <1>7

-----------------------------------------------------------------------------
(* The operations.                                                          *)

\* What a step must keep.
Kept == RowTypes' /\ SyncTypes' /\ EditsLeaveAdoption' /\ RevokedKept

LEMMA SyncIsSame ==
    ASSUME RecordsInv, sync' = sync PROVE SyncTypes' /\ EditsLeaveAdoption'
  BY DEF RecordsInv, SyncTypes, EditsLeaveAdoption

LEMMA RowsAreSame ==
    ASSUME RecordsInv, row' = row PROVE RowTypes' /\ RevokedKept
  BY DEF RecordsInv, RowTypes, RevokedKept

LEMMA SyncIsIdle ==
    ASSUME sync' = Records!Idle PROVE SyncTypes' /\ EditsLeaveAdoption'
<1>1. /\ sync' = [on |-> FALSE, todo |-> {}, edits |-> Records!Nothing, adds |-> <<>>]
      /\ DOMAIN Records!Nothing = {}
      /\ Records!Nothing = [i \in DOMAIN Records!Nothing |-> Records!Nothing[i]]
  BY DEF Records!Idle, Records!Nothing
<1> QED
  BY <1>1 DEF SyncTypes, EditsLeaveAdoption

\* A sweep refreshes, folds into, or inserts a row.
LEMMA SweepKeeps ==
    ASSUME RecordsInv, NEW b \in Boxes, NEW ip \in Addresses,
           NEW m \in Records!Macs \union {<<>>}, Records!Sweep(b, ip, m)
    PROVE  Kept
<1>1. sync' = sync
  BY DEF Records!Sweep
<1>2. CASE Records!Room /\ row' = Records!Inserted([Records!Plain(b, ip) EXCEPT !.mac = m])
  <2> DEFINE r == [Records!Plain(b, ip) EXCEPT !.mac = m]
  <2>1. RowShape(Records!Plain(b, ip))
    BY PlainIsRow, RowIsShape
  <2>2. RowShape(r)
    BY <2>1 DEF RowShape
  <2> HIDE DEF r
  <2>3. r \in Records!Row
    BY <2>2, RowIsShape
  <2>4. row' = Records!Inserted(r)
    BY <1>2 DEF r
  <2> QED
    BY <1>1, <1>2, <2>3, <2>4, OneRowMore, SyncIsSame DEF Kept
<1>3. ASSUME NEW i \in Records!FoldTargets(b, m),
             row' = [row EXCEPT ![i] = Records!Folded(@, b, m, ip)]
      PROVE  Kept
  <2>1. i \in DOMAIN row /\ row[i] \in Records!Row
    BY FoundAreRows DEF RecordsInv, RowTypes
  <2> DEFINE r == Records!Folded(row[i], b, m, ip)
  <2>2. r \in Records!Row /\ r.adoption = row[i].adoption
    BY <2>1, FoldedIsRow
  <2>3. row' = [row EXCEPT ![i] = r]
    BY <1>3
  <2> HIDE DEF r
  <2> QED
    BY <1>1, <2>1, <2>2, <2>3, OneRowChanges, SyncIsSame DEF Kept
<1>4. ASSUME NEW i \in Records!FindExisting(m, ip),
             IF row[i].claimed
             THEN row' = [row EXCEPT ![i].stale = FALSE]
             ELSE row' = [row EXCEPT ![i] = Records!Refreshed(@, b, m)]
      PROVE  Kept
  <2>1. i \in DOMAIN row /\ row[i] \in Records!Row
    BY FoundAreRows DEF RecordsInv, RowTypes
  <2> DEFINE r == IF row[i].claimed THEN [row[i] EXCEPT !.stale = FALSE]
                  ELSE Records!Refreshed(row[i], b, m)
  <2>2. r \in Records!Row /\ r.adoption = row[i].adoption
    <3>1. CASE row[i].claimed
      BY <2>1, <3>1 DEF Records!Row
    <3>2. CASE ~row[i].claimed
      BY <2>1, <3>2, RefreshedIsRow
    <3> QED
      BY <3>1, <3>2
  <2>3. row' = [row EXCEPT ![i] = r]
    BY <1>4
  <2> HIDE DEF r
  <2> QED
    BY <1>1, <2>1, <2>2, <2>3, OneRowChanges, SyncIsSame DEF Kept
<1> QED
  BY <1>2, <1>3, <1>4 DEF Records!Sweep

\* The edits of a row are fields of a row, without its adoption.
LEMMA EditsAreMade ==
    ASSUME RecordsInv, NEW i \in DOMAIN row, NEW r \in Records!Row,
           r.adoption = row[i].adoption
    PROVE  LET e == Records!Edits(i, r) IN
           /\ e = [j \in DOMAIN e |-> e[j]]
           /\ \A j \in DOMAIN e : EditOfRow(e[j]) /\ "adoption" \notin DOMAIN e[j]
<1> DEFINE new == [f \in {g \in DOMAIN r : r[g] # row[i][g]} |-> r[f]]
           e == Records!Edits(i, r)
<1>1. DOMAIN r = Fields
  BY RowIsShape, RowFields
<1>2. DOMAIN new \subseteq Fields /\ \A f \in DOMAIN new : new[f] = r[f]
  BY <1>1
<1>3. "adoption" \notin DOMAIN new
  OBVIOUS
<1> HIDE DEF new
<1>4. EditOfRow(new)
  BY <1>2 DEF EditOfRow
<1>5. e = [j \in DOMAIN sync.edits \union {i} |-> IF j = i THEN new ELSE sync.edits[j]]
  BY DEF Records!Edits, new
<1> HIDE DEF e
<1>6. /\ DOMAIN e = DOMAIN sync.edits \union {i}
      /\ \A j \in DOMAIN e : e[j] = IF j = i THEN new ELSE sync.edits[j]
      /\ e = [j \in DOMAIN e |-> e[j]]
  BY <1>5
<1>7. ASSUME NEW j \in DOMAIN e PROVE EditOfRow(e[j]) /\ "adoption" \notin DOMAIN e[j]
  BY <1>3, <1>4, <1>6 DEF RecordsInv, SyncTypes, EditsLeaveAdoption
<1> QED
  BY <1>6, <1>7 DEF e

\* The sync goes on with a sighting.
LEMMA SyncGoesOn ==
    ASSUME RecordsInv, NEW todo \in SUBSET Boxes, NEW edits, NEW adds \in Seq(Records!Row),
           edits = [j \in DOMAIN edits |-> edits[j]],
           \A j \in DOMAIN edits : EditOfRow(edits[j]) /\ "adoption" \notin DOMAIN edits[j],
           sync' = [on |-> sync.on, todo |-> todo, edits |-> edits, adds |-> adds]
    PROVE  SyncTypes' /\ EditsLeaveAdoption'
<1>1. sync'.on = sync.on /\ sync'.todo = todo /\ sync'.edits = edits /\ sync'.adds = adds
  OBVIOUS
<1>2. EditsLeaveAdoption'
  BY <1>1 DEF EditsLeaveAdoption
<1>3. SyncTypes'
  BY <1>1 DEF SyncTypes, RecordsInv
<1> QED
  BY <1>2, <1>3

LEMMA SyncShape ==
    ASSUME RecordsInv
    PROVE  /\ sync = [on |-> sync.on, todo |-> sync.todo, edits |-> sync.edits,
                      adds |-> sync.adds]
           /\ sync.todo \subseteq Boxes /\ sync.adds \in Seq(Records!Row)
           /\ sync.edits = [j \in DOMAIN sync.edits |-> sync.edits[j]]
           /\ \A j \in DOMAIN sync.edits : /\ EditOfRow(sync.edits[j])
                                           /\ "adoption" \notin DOMAIN sync.edits[j]
  BY DEF RecordsInv, SyncTypes, EditsLeaveAdoption

\* A device of the controller.
LEMMA SyncGearKeeps ==
    ASSUME RecordsInv, NEW b \in Boxes, NEW ip \in Addresses, Records!SyncGear(b, ip)
    PROVE  Kept
<1> DEFINE todo == sync.todo \ {b}
           found == Records!FindExisting(Records!MacOf(b, ip), ip)
<1>1. row' = row
  BY DEF Records!SyncGear
<1>2. todo \in SUBSET Boxes
  BY SyncShape
<1>3. CASE sync' = [sync EXCEPT !.todo = todo, !.adds = Append(@, Records!NewGear(b, ip))]
  <2> DEFINE r == Records!NewGear(b, ip)
             adds == Append(sync.adds, r)
  <2>1. RowShape(Records!Plain(b, ip)) /\ AutoAdopt \in BOOLEAN
    BY PlainIsRow, RowIsShape, DevicesAssumption
  <2>0. r = [Records!Plain(b, ip) EXCEPT !.claimed = AutoAdopt, !.gear = TRUE]
    BY DEF Records!NewGear
  <2> HIDE DEF r
  <2>2. RowShape(r)
    BY <2>0, <2>1 DEF RowShape
  <2>3. r \in Records!Row
    BY <2>2, RowIsShape
  <2>4. adds \in Seq(Records!Row)
    BY <2>3, SyncShape
  <2>5. sync' = [sync EXCEPT !.todo = todo, !.adds = adds]
    BY <1>3 DEF r
  <2> HIDE DEF adds, todo
  <2>6. sync' = [on |-> sync.on, todo |-> todo, edits |-> sync.edits, adds |-> adds]
    BY <2>5, SyncShape
  <2>7. SyncTypes' /\ EditsLeaveAdoption'
    BY <1>2, <2>4, <2>6, SyncShape, SyncGoesOn
  <2> QED
    BY <1>1, <2>7, RowsAreSame DEF Kept
<1>4. ASSUME NEW i \in found,
             sync' = [sync EXCEPT !.todo = todo,
                        !.edits = Records!Edits(i, Records!RefreshedGear(Records!Seen(i), b, ip))]
      PROVE  Kept
  <2> DEFINE r == Records!RefreshedGear(Records!Seen(i), b, ip)
             edits == Records!Edits(i, r)
  <2>1. i \in DOMAIN row
    BY FoundAreRows
  <2>2. r \in Records!Row /\ r.adoption = row[i].adoption
    BY <2>1, SeenIsRow, GearIsRow
  <2> HIDE DEF r
  <2>3. /\ edits = [j \in DOMAIN edits |-> edits[j]]
        /\ \A j \in DOMAIN edits : EditOfRow(edits[j]) /\ "adoption" \notin DOMAIN edits[j]
    BY <2>1, <2>2, EditsAreMade
  <2>4. sync' = [sync EXCEPT !.todo = todo, !.edits = edits]
    BY <1>4 DEF r
  <2> HIDE DEF edits, todo
  <2>5. sync' = [on |-> sync.on, todo |-> todo, edits |-> edits, adds |-> sync.adds]
    BY <2>4, SyncShape
  <2>6. SyncTypes' /\ EditsLeaveAdoption'
    BY <1>2, <2>3, <2>5, SyncShape, SyncGoesOn
  <2> QED
    BY <1>1, <2>6, RowsAreSame DEF Kept
<1> QED
  BY <1>3, <1>4 DEF Records!SyncGear

\* A client; a fold commits the session.
LEMMA SyncClientKeeps ==
    ASSUME RecordsInv, NEW b \in Boxes, NEW ip \in Addresses, NEW old \in BOOLEAN,
           Records!SyncClient(b, ip, old)
    PROVE  Kept
<1> DEFINE todo == sync.todo \ {b}
           m == Records!MacOf(b, ip)
           found == Records!FindExisting(m, ip)
           folds == Records!FoldTargets(b, m)
<1>1. todo \in SUBSET Boxes
  BY SyncShape
<1>2. m \in Records!Macs
  BY DEF Records!Macs
<1>3. CASE row' = row /\ sync' = [sync EXCEPT !.todo = todo,
                           !.adds = Append(@, [Records!Plain(b, ip) EXCEPT !.stale = old])]
  <2> DEFINE r == [Records!Plain(b, ip) EXCEPT !.stale = old]
             adds == Append(sync.adds, r)
  <2>1. RowShape(Records!Plain(b, ip))
    BY PlainIsRow, RowIsShape
  <2>2. RowShape(r)
    BY <2>1 DEF RowShape
  <2>3. sync' = [sync EXCEPT !.todo = todo, !.adds = adds]
    BY <1>3
  <2> HIDE DEF r
  <2>4. r \in Records!Row
    BY <2>2, RowIsShape
  <2>5. adds \in Seq(Records!Row)
    BY <2>4, SyncShape
  <2> HIDE DEF adds, todo
  <2>6. sync' = [on |-> sync.on, todo |-> todo, edits |-> sync.edits, adds |-> adds]
    BY <2>3, SyncShape
  <2>7. SyncTypes' /\ EditsLeaveAdoption'
    BY <1>1, <2>5, <2>6, SyncShape, SyncGoesOn
  <2> QED
    BY <1>3, <2>7, RowsAreSame DEF Kept
<1>4. ASSUME NEW i \in found, row' = row,
             sync' = [sync EXCEPT !.todo = todo,
               !.edits = Records!Edits(i, Records!RefreshedClient(Records!Seen(i), b, m, old))]
      PROVE  Kept
  <2> DEFINE r == Records!RefreshedClient(Records!Seen(i), b, m, old)
             edits == Records!Edits(i, r)
  <2>1. i \in DOMAIN row
    BY FoundAreRows
  <2>2. sync' = [sync EXCEPT !.todo = todo, !.edits = edits]
    BY <1>4
  <2> HIDE DEF m
  <2>3. r \in Records!Row /\ r.adoption = row[i].adoption
    BY <1>2, <2>1, SeenIsRow, ClientIsRow
  <2> HIDE DEF r
  <2>4. /\ edits = [j \in DOMAIN edits |-> edits[j]]
        /\ \A j \in DOMAIN edits : EditOfRow(edits[j]) /\ "adoption" \notin DOMAIN edits[j]
    BY <2>1, <2>3, EditsAreMade
  <2> HIDE DEF edits, todo
  <2>5. sync' = [on |-> sync.on, todo |-> todo, edits |-> edits, adds |-> sync.adds]
    BY <2>2, SyncShape
  <2>6. SyncTypes' /\ EditsLeaveAdoption'
    BY <1>1, <2>4, <2>5, SyncShape, SyncGoesOn
  <2> QED
    BY <1>4, <2>6, RowsAreSame DEF Kept
<1>5. ASSUME NEW i \in folds, Records!Writable,
             row' = [Records!Flushed(sync.adds) EXCEPT ![i] = Records!Folded(@, b, m, ip)],
             sync' = [sync EXCEPT !.todo = todo, !.edits = Records!Nothing, !.adds = <<>>]
      PROVE  Kept
  <2> DEFINE rows == Records!Flushed(sync.adds)
             r == Records!Folded(rows[i], b, m, ip)
  <2>1. i \in DOMAIN row
    BY FoundAreRows
  <2>2. /\ rows = [j \in DOMAIN rows |-> rows[j]]
        /\ DOMAIN row \subseteq DOMAIN rows /\ DOMAIN rows \subseteq 1..MaxRecords
        /\ \A j \in DOMAIN rows : rows[j] \in Records!Row
        /\ \A j \in DOMAIN row : rows[j].adoption = row[j].adoption
    BY <1>5, FlushedIsTable
  <2>3. row' = [rows EXCEPT ![i] = r]
    BY <1>5
  <2> HIDE DEF rows, m
  <2>4. r \in Records!Row /\ r.adoption = rows[i].adoption
    BY <1>2, <2>1, <2>2, FoldedIsRow
  <2> HIDE DEF r
  <2>5. row' = [j \in DOMAIN rows |-> IF j = i THEN r ELSE rows[j]]
    BY <2>2, <2>3
  <2>6. /\ DOMAIN row' = DOMAIN rows
        /\ \A j \in DOMAIN row' : row'[j] = IF j = i THEN r ELSE rows[j]
        /\ row' = [j \in DOMAIN row' |-> row'[j]]
    BY <2>5
  <2>7. RowTypes'
    BY <2>2, <2>4, <2>6 DEF RowTypes
  <2>8. RevokedKept
    BY <2>1, <2>2, <2>4, <2>6 DEF RevokedKept
  <2>9. sync' = [on |-> sync.on, todo |-> todo, edits |-> Records!Nothing, adds |-> <<>>]
    <3> HIDE DEF todo
    <3> QED
      BY <1>5, SyncShape
  <2>10. DOMAIN Records!Nothing = {}
         /\ Records!Nothing = [j \in DOMAIN Records!Nothing |-> Records!Nothing[j]]
    BY DEF Records!Nothing
  <2>11. <<>> \in Seq(Records!Row)
    OBVIOUS
  <2> HIDE DEF todo
  <2>12. SyncTypes' /\ EditsLeaveAdoption'
    BY <1>1, <2>9, <2>10, <2>11, SyncGoesOn
  <2> QED
    BY <2>7, <2>8, <2>12 DEF Kept
<1> QED
  BY <1>3, <1>4, <1>5 DEF Records!SyncClient

\* The sync begins, is committed or fails.
LEMMA SyncEndsKeep ==
    ASSUME RecordsInv, Records!SyncStart \/ Records!SyncCommit \/ Records!SyncFails
    PROVE  Kept
<1>1. CASE Records!SyncStart
  <2>1. PICK S \in SUBSET Boxes : sync' = [Records!Idle EXCEPT !.on = TRUE, !.todo = S]
    BY <1>1 DEF Records!SyncStart
  <2>2. row' = row
    BY <1>1 DEF Records!SyncStart
  <2>3. sync' = [on |-> TRUE, todo |-> S, edits |-> Records!Nothing, adds |-> <<>>]
    BY <2>1 DEF Records!Idle
  <2>4. DOMAIN Records!Nothing = {}
        /\ Records!Nothing = [j \in DOMAIN Records!Nothing |-> Records!Nothing[j]]
    BY DEF Records!Nothing
  <2>5. SyncTypes' /\ EditsLeaveAdoption'
    BY <2>3, <2>4 DEF SyncTypes, EditsLeaveAdoption
  <2> QED
    BY <2>2, <2>5, RowsAreSame DEF Kept
<1>2. CASE Records!SyncCommit
  <2> DEFINE rows == Records!Flushed(sync.adds)
             old == {i \in DOMAIN row : Records!Prunable(row[i])}
  <2>1. /\ Records!Writable /\ row' = [i \in DOMAIN rows \ old |-> rows[i]]
        /\ sync' = Records!Idle
    BY <1>2 DEF Records!SyncCommit, Records!Rows
  <2>2. /\ DOMAIN rows \subseteq 1..MaxRecords
        /\ \A j \in DOMAIN rows : rows[j] \in Records!Row
        /\ \A j \in DOMAIN row : rows[j].adoption = row[j].adoption
    BY <2>1, FlushedIsTable
  <2> HIDE DEF rows, old
  <2>3. /\ DOMAIN row' = DOMAIN rows \ old
        /\ \A j \in DOMAIN row' : row'[j] = rows[j]
        /\ row' = [j \in DOMAIN row' |-> row'[j]]
    BY <2>1
  <2>4. RowTypes'
    BY <2>2, <2>3 DEF RowTypes
  <2>5. RevokedKept
    BY <2>2, <2>3 DEF RevokedKept
  <2> QED
    BY <2>1, <2>4, <2>5, SyncIsIdle DEF Kept
<1>3. CASE Records!SyncFails
  BY <1>3, SyncIsIdle, RowsAreSame DEF Kept, Records!SyncFails
<1> QED
  BY <1>1, <1>2, <1>3

\* The report of a device never finds a revoked row.
LEMMA ReportKeepsRows ==
    ASSUME RecordsInv, NEW b \in Boxes, NEW ip \in Addresses,
           NEW m \in Records!Macs \union {<<>>}, Records!Report(b, ip, m)
    PROVE  Kept
<1>1. sync' = sync
  BY DEF Records!Report
<1>2. CASE /\ Records!Room
           /\ row' = Records!Inserted(Records!Linked([Records!Plain(b, ip) EXCEPT !.mac = <<>>], b))
  <2> DEFINE q == [Records!Plain(b, ip) EXCEPT !.mac = <<>>]
             r == Records!Linked(q, b)
  <2>1. RowShape(Records!Plain(b, ip))
    BY PlainIsRow, RowIsShape
  <2>2. RowShape(q)
    BY <2>1 DEF RowShape
  <2>3. row' = Records!Inserted(r)
    BY <1>2
  <2> HIDE DEF q
  <2>4. q \in Records!Row
    BY <2>2, RowIsShape
  <2>5. r \in Records!Row
    BY <2>4, LinkedIsRow
  <2> HIDE DEF r
  <2> QED
    BY <1>1, <1>2, <2>3, <2>5, OneRowMore, SyncIsSame DEF Kept
<1>3. ASSUME NEW i \in Records!ReportRow(b, ip, m), row[i].adoption # "revoked",
             row' = [row EXCEPT ![i] = Records!Reported(i, b, ip, m)]
      PROVE  Kept
  <2> DEFINE host == Records!Filled(row[i].host, b)
             q == [row[i] EXCEPT !.host = host]
             p == IF Records!InPlace(b, i) THEN Records!Placed(row[i], b, ip, m) ELSE q
             r == Records!Linked(p, b)
  <2>1. i \in DOMAIN row /\ row[i] \in Records!Row
    BY FoundAreRows DEF RecordsInv, RowTypes
  <2>0. r = Records!Reported(i, b, ip, m)
    BY DEF Records!Reported
  <2>2. row' = [row EXCEPT ![i] = r]
    BY <1>3, <2>0
  <2>3. RowShape(row[i]) /\ b \in Records!Names
    BY <2>1, RowIsShape DEF Records!Names
  <2>4. host \in Records!Names
    BY <2>3, FilledIsName DEF RowShape
  <2> HIDE DEF host
  <2>5. RowShape(q)
    BY <2>3, <2>4 DEF RowShape
  <2> HIDE DEF q
  <2>6. q \in Records!Row
    BY <2>5, RowIsShape
  <2>7. p \in Records!Row
    BY <2>1, <2>6, PlacedIsRow
  <2> HIDE DEF p
  <2>8. r \in Records!Row
    BY <2>7, LinkedIsRow
  <2> HIDE DEF r
  <2> QED
    BY <1>1, <1>3, <2>1, <2>2, <2>8, OneRowChanges, SyncIsSame DEF Kept
<1>4. \/ /\ Records!Room
         /\ row' = Records!Inserted(Records!Linked([Records!Plain(b, ip) EXCEPT !.mac = <<>>], b))
      \/ \E i \in Records!ReportRow(b, ip, m) :
            row[i].adoption # "revoked" /\ row' = [row EXCEPT ![i] = Records!Reported(i, b, ip, m)]
  BY Zenon DEF Records!Report
<1> QED
  BY <1>2, <1>3, <1>4

\* The operators.
LEMMA CreateKeeps ==
    ASSUME RecordsInv, NEW b \in Boxes, NEW ip \in Addresses, Records!Create(b, ip)
    PROVE  Kept
<1> DEFINE r == [Records!Plain(b, ip) EXCEPT !.claimed = TRUE, !.mac = <<>>]
<1>1. Records!Room /\ row' = Records!Inserted(r) /\ sync' = sync
  BY DEF Records!Create
<1>2. RowShape(Records!Plain(b, ip)) /\ r = [Records!Plain(b, ip) EXCEPT !.claimed = TRUE,
                                                                     !.mac = <<>>]
  BY PlainIsRow, RowIsShape
<1> HIDE DEF r
<1>3. RowShape(r)
  BY <1>2 DEF RowShape
<1>4. r \in Records!Row
  BY <1>3, RowIsShape
<1> QED
  BY <1>1, <1>4, OneRowMore, SyncIsSame DEF Kept

LEMMA OperatorsKeep ==
    ASSUME RecordsInv, NEW i \in DOMAIN row,
           \/ \E b \in Boxes : Records!Claim(i, b)
           \/ Records!AdoptCert(i) \/ Records!Revoke(i) \/ Records!Refer(i) \/ Records!Ages(i)
    PROVE  Kept
<1>1. RowShape(row[i]) /\ sync' = sync
  BY RowIsShape DEF RecordsInv, RowTypes, Records!Claim, Records!AdoptCert, Records!Revoke,
                    Records!Refer, Records!Ages
<1>2. ASSUME NEW r, RowShape(r), row' = [row EXCEPT ![i] = r],
             row[i].adoption = "revoked" => r.adoption = "revoked"
      PROVE  Kept
  <2>1. r \in Records!Row
    BY <1>2, RowIsShape
  <2> QED
    BY <1>1, <1>2, <2>1, OneRowChanges, SyncIsSame DEF Kept
<1>3. ASSUME NEW b \in Boxes, Records!Claim(i, b) PROVE Kept
  <2> DEFINE r == [row[i] EXCEPT !.claimed = TRUE, !.name = b, !.host = b, !.stale = FALSE]
  <2>1. b \in Records!Names
    BY DEF Records!Names
  <2>3. row' = [row EXCEPT ![i] = r]
    <3> DEFINE q == [j \in DOMAIN row |-> row[j]]
    <3>1. row = q
      BY DEF RecordsInv, RowTypes
    <3> QED
      BY <1>3, <3>1 DEF Records!Claim
  <2>9. r = [row[i] EXCEPT !.claimed = TRUE, !.name = b, !.host = b, !.stale = FALSE]
    OBVIOUS
  <2> HIDE DEF r
  <2>2. RowShape(r) /\ r.adoption = row[i].adoption
    BY <1>1, <2>9, <2>1 DEF RowShape
  <2> QED
    BY <1>2, <2>2, <2>3
<1>4. CASE Records!AdoptCert(i)
  <2> DEFINE r == [row[i] EXCEPT !.adoption = "enrolling", !.cn = row[i].name]
  <2>2. row' = [row EXCEPT ![i] = r] /\ row[i].adoption # "revoked"
    BY <1>4 DEF Records!AdoptCert, RecordsInv, RowTypes
  <2>9. r = [row[i] EXCEPT !.adoption = "enrolling", !.cn = row[i].name]
    OBVIOUS
  <2> HIDE DEF r
  <2>1. RowShape(r)
    BY <1>1, <2>9 DEF RowShape
  <2> QED
    BY <1>2, <2>1, <2>2
<1>5. CASE Records!Revoke(i)
  <2> DEFINE r == [row[i] EXCEPT !.adoption = "revoked"]
  <2>2. row' = [row EXCEPT ![i] = r]
    BY <1>5 DEF Records!Revoke
  <2>9. r = [row[i] EXCEPT !.adoption = "revoked"]
    OBVIOUS
  <2> HIDE DEF r
  <2>1. RowShape(r) /\ r.adoption = "revoked"
    BY <1>1, <2>9 DEF RowShape
  <2> QED
    BY <1>2, <2>1, <2>2
<1>6. CASE Records!Refer(i)
  <2> DEFINE r == [row[i] EXCEPT !.held = TRUE]
  <2>2. row' = [row EXCEPT ![i] = r]
    BY <1>6 DEF Records!Refer
  <2>9. r = [row[i] EXCEPT !.held = TRUE]
    OBVIOUS
  <2> HIDE DEF r
  <2>1. RowShape(r) /\ r.adoption = row[i].adoption
    BY <1>1, <2>9 DEF RowShape
  <2> QED
    BY <1>2, <2>1, <2>2
<1>7. CASE Records!Ages(i)
  <2> DEFINE r == [row[i] EXCEPT !.stale = TRUE]
  <2>2. row' = [row EXCEPT ![i] = r]
    BY <1>7 DEF Records!Ages
  <2>9. r = [row[i] EXCEPT !.stale = TRUE]
    OBVIOUS
  <2> HIDE DEF r
  <2>1. RowShape(r) /\ r.adoption = row[i].adoption
    BY <1>1, <2>9 DEF RowShape
  <2> QED
    BY <1>2, <2>1, <2>2
<1> QED
  BY <1>3, <1>4, <1>5, <1>6, <1>7

LEMMA DeleteKeeps ==
    ASSUME RecordsInv, NEW i \in DOMAIN row, Records!Delete(i) PROVE Kept
<1>1. row' = [j \in DOMAIN row \ {i} |-> row[j]] /\ sync' = sync
  BY DEF Records!Delete, Records!Deleted, Records!Rows
<1> QED
  BY <1>1, RowsGo, SyncIsSame DEF Kept

\* The survivor of a merge is none that is revoked, the duplicate goes.
LEMMA MergeKeeps ==
    ASSUME RecordsInv, NEW k \in DOMAIN row, NEW d \in DOMAIN row, Records!Merge(k, d)
    PROVE  Kept
<1> DEFINE r == Records!Merged(row[k], row[d])
<1>1. /\ row' = [j \in DOMAIN row \ {d} |-> IF j = k THEN r ELSE row[j]]
      /\ sync' = sync /\ row[k].adoption # "revoked"
  BY DEF Records!Merge, Records!Rows
<1>2. r \in Records!Row
  BY MergedIsRow DEF RecordsInv, RowTypes
<1> HIDE DEF r
<1>3. /\ DOMAIN row' = DOMAIN row \ {d}
      /\ \A j \in DOMAIN row' : row'[j] = IF j = k THEN r ELSE row[j]
      /\ row' = [j \in DOMAIN row' |-> row'[j]]
  BY <1>1
<1>4. RowTypes'
  BY <1>2, <1>3 DEF RecordsInv, RowTypes
<1>5. RevokedKept
  BY <1>1, <1>3 DEF RevokedKept
<1> QED
  BY <1>1, <1>4, <1>5, SyncIsSame DEF Kept

-----------------------------------------------------------------------------
LEMMA RecordsInit == ASSUME Records!Init PROVE RecordsInv
<1>1. /\ row = Records!Nothing /\ sync = Records!Idle /\ steps = 0
      /\ DOMAIN Records!Nothing = {}
      /\ Records!Nothing = [i \in DOMAIN Records!Nothing |-> Records!Nothing[i]]
  BY DEF Records!Init, Records!Nothing
<1>2. SyncTypes /\ EditsLeaveAdoption
  BY <1>1 DEF SyncTypes, EditsLeaveAdoption, Records!Idle
<1>3. RowTypes
  BY <1>1 DEF RowTypes
<1>4. steps \in 0..MaxSteps
  BY <1>1, DevicesAssumption
<1> QED
  BY <1>2, <1>3, <1>4 DEF RecordsInv

\* Every operation keeps the types, and what was revoked.
LEMMA ActKeeps == ASSUME RecordsInv, Records!Act PROVE Kept
<1>1. ASSUME NEW b \in Boxes, NEW ip \in Addresses, NEW m \in {<<>>, Records!MacOf(b, ip)},
             Records!Sweep(b, ip, m) \/ Records!Report(b, ip, m)
      PROVE  Kept
  <2>1. m \in Records!Macs \union {<<>>}
    BY DEF Records!Macs
  <2> QED
    BY <1>1, <2>1, SweepKeeps, ReportKeepsRows
<1>2. ASSUME NEW i \in DOMAIN row,
             \/ \E b \in Boxes : Records!Claim(i, b)
             \/ Records!AdoptCert(i) \/ Records!Revoke(i) \/ Records!Delete(i)
             \/ Records!Refer(i) \/ Records!Ages(i)
             \/ \E d \in DOMAIN row : Records!Merge(i, d)
      PROVE  Kept
  BY <1>2, OperatorsKeep, DeleteKeeps, MergeKeeps
<1> QED
  BY <1>1, <1>2, SyncGearKeeps, SyncClientKeeps, CreateKeeps, SyncEndsKeep, Zenon
     DEF Records!Act, Records!Rows

LEMMA RecordsStep ==
    ASSUME RecordsInv, [Records!Next]_(Records!vars)
    PROVE  RecordsInv' /\ RevokedKept
<1>1. CASE UNCHANGED (Records!vars)
  <2>1. row' = row /\ sync' = sync /\ steps' = steps
    BY <1>1 DEF Records!vars
  <2>2. steps' \in 0..MaxSteps
    BY <2>1 DEF RecordsInv
  <2> QED
    BY <2>1, <2>2, SyncIsSame, RowsAreSame DEF RecordsInv
<1>2. CASE Records!Next
  <2>1. Kept
    BY <1>2, ActKeeps DEF Records!Next
  <2>2. steps' \in 0..MaxSteps
    BY <1>2, DevicesAssumption DEF Records!Next, RecordsInv
  <2> QED
    BY <2>1, <2>2 DEF RecordsInv, Kept
<1> QED
  BY <1>1, <1>2

\* The rows and the sync have the types of Inventory.
LEMMA RecordsTyped == ASSUME RecordsInv PROVE Records!TypeOK
  BY DEF RecordsInv, RowTypes, SyncTypes, Records!TypeOK, Records!Rows, Records!Ids

-----------------------------------------------------------------------------
(* SwitchPorts: what is written, and what the gate made of it.              *)

\* A request that was made has a kind and a port.
RequestTypes ==
    /\ req = [r \in Requests |-> req[r]]
    /\ \A r \in Requests :
          /\ req[r] = [phase |-> req[r].phase, kind |-> req[r].kind, port |-> req[r].port,
                       native |-> req[r].native, tagged |-> req[r].tagged,
                       confirm |-> req[r].confirm, read |-> req[r].read]
          /\ req[r].phase \in {"new", "refused", "allowed", "writing", "done", "failed"}
          /\ req[r].phase # "new" => req[r].kind \in Kinds /\ req[r].port \in Ports
          /\ req[r].native \in Networks \union {Switch!None}
          /\ req[r].tagged \in SUBSET Networks /\ req[r].confirm \in BOOLEAN
          /\ req[r].read \in SUBSET [Ports -> Switch!Override]

PortTypes == /\ override \in [Ports -> Switch!Override] /\ RequestTypes
             /\ blind \in 0..MaxBlind

\* What the rest rests on: one request at a time, VLAN requests that name their native network,
\* a controller that can be read, and none of the kinds that ask no gate.
Gated == OneAtATime /\ NativeGiven /\ MaxBlind = 0 /\ Kinds \subseteq {"vlans", "disabled"}

Active(r) == req[r].phase \in {"allowed", "writing"}

OneIsActive == \A r, x \in Requests : r # x => ~Active(r) \/ ~Active(x)

\* The gate would still say what it said, and the client holds what is stored.
GateStillHolds ==
    \A r \in Requests :
        /\ Active(r) /\ ~req[r].confirm => ~Switch!Blocked(req[r], TRUE)
        /\ req[r].phase = "writing" => req[r].read = {override}
        /\ Active(r) /\ req[r].kind = "vlans" => req[r].native # Switch!None

\* An override either sets the networks or repeats the table's.
OverridesFollow ==
    \A p \in Ports :
        /\ override[p].custom => override[p].given
        /\ override[p].given /\ ~override[p].custom =>
              /\ override[p].native \in {Switch!None, Table[p].native}
              /\ override[p].tagged \in {{}, Table[p].tagged}

PortsInv == PortTypes /\ (Gated => OneIsActive /\ GateStillHolds /\ OverridesFollow)

\* The parts of a request.
LEMMA RequestParts ==
    ASSUME PortTypes, NEW r \in Requests
    PROVE  /\ req[r] = [phase |-> req[r].phase, kind |-> req[r].kind, port |-> req[r].port,
                        native |-> req[r].native, tagged |-> req[r].tagged,
                        confirm |-> req[r].confirm, read |-> req[r].read]
           /\ req[r].phase # "new" => req[r].kind \in Kinds /\ req[r].port \in Ports
           /\ req[r].native \in Networks \union {Switch!None}
           /\ req[r].tagged \in SUBSET Networks /\ req[r].confirm \in BOOLEAN
           /\ req[r].read \in SUBSET [Ports -> Switch!Override]
  BY DEF PortTypes, RequestTypes

\* A request goes on.
LEMMA RequestGoesOn ==
    ASSUME PortTypes, NEW r \in Requests, NEW q, req' = [req EXCEPT ![r] = q],
           q = [phase |-> q.phase, kind |-> q.kind, port |-> q.port, native |-> q.native,
                tagged |-> q.tagged, confirm |-> q.confirm, read |-> q.read],
           q.phase \in {"refused", "allowed", "writing", "done", "failed"},
           q.kind \in Kinds, q.port \in Ports, q.native \in Networks \union {Switch!None},
           q.tagged \in SUBSET Networks, q.confirm \in BOOLEAN,
           q.read \in SUBSET [Ports -> Switch!Override]
    PROVE  /\ RequestTypes' /\ req'[r] = q
           /\ \A x \in Requests : x # r => req'[x] = req[x]
<1>1. req' = [x \in Requests |-> IF x = r THEN q ELSE req[x]]
  BY DEF PortTypes, RequestTypes
<1>2. /\ req'[r] = q /\ \A x \in Requests : x # r => req'[x] = req[x]
      /\ req' = [x \in Requests |-> req'[x]]
  BY <1>1
<1>3. ASSUME NEW x \in Requests
      PROVE  /\ req'[x] = [phase |-> req'[x].phase, kind |-> req'[x].kind,
                           port |-> req'[x].port, native |-> req'[x].native,
                           tagged |-> req'[x].tagged, confirm |-> req'[x].confirm,
                           read |-> req'[x].read]
             /\ req'[x].phase \in {"new", "refused", "allowed", "writing", "done", "failed"}
             /\ req'[x].phase # "new" => req'[x].kind \in Kinds /\ req'[x].port \in Ports
             /\ req'[x].native \in Networks \union {Switch!None}
             /\ req'[x].tagged \in SUBSET Networks /\ req'[x].confirm \in BOOLEAN
             /\ req'[x].read \in SUBSET [Ports -> Switch!Override]
  <2>1. CASE x = r
    BY <1>2, <2>1
  <2>2. CASE x # r
    <3>1. req'[x] = req[x]
      BY <1>2, <2>2
    <3> QED
      BY <3>1 DEF PortTypes, RequestTypes
  <2> QED
    BY <2>1, <2>2
<1> QED
  BY <1>2, <1>3 DEF RequestTypes

\* What a PUT carries is an array of overrides.
LEMMA WrittenIsTyped ==
    ASSUME NEW q, q.port \in Ports, q.native \in Networks \union {Switch!None},
           q.tagged \in SUBSET Networks, NEW base \in [Ports -> Switch!Override]
    PROVE  Switch!Written(q, base) \in [Ports -> Switch!Override]
<1>1. /\ Table[q.port].native \in Networks /\ Table[q.port].tagged \in SUBSET Networks
  BY DevicesAssumption
<1>2. Switch!VlanOverride(q) \in Switch!Override
  BY <1>1 DEF Switch!VlanOverride, Switch!Override
<1>3. \A o \in Switch!Override : Switch!DisabledOverride(o, q.port) \in Switch!Override
  BY <1>1 DEF Switch!DisabledOverride, Switch!Override
<1>4. Switch!NoOverride \in Switch!Override
  BY DEF Switch!NoOverride, Switch!Override
<1> DEFINE alone == [Switch!NoOverride EXCEPT !.given = TRUE]
<1>5. alone \in Switch!Override
  BY <1>4 DEF Switch!Override
<1> HIDE DEF alone
<1>6. Switch!Alone(q.port, alone) \in [Ports -> Switch!Override]
  BY <1>4, <1>5 DEF Switch!Alone
<1>7. [base EXCEPT ![q.port] = Switch!VlanOverride(q)] \in [Ports -> Switch!Override]
  BY <1>2
<1>8. [base EXCEPT ![q.port] = Switch!DisabledOverride(@, q.port)] \in [Ports -> Switch!Override]
  BY <1>3
<1>9. \/ Switch!Written(q, base) = [base EXCEPT ![q.port] = Switch!VlanOverride(q)]
      \/ Switch!Written(q, base) = [base EXCEPT ![q.port] = Switch!DisabledOverride(@, q.port)]
      \/ Switch!Written(q, base) = Switch!Alone(q.port, alone)
  BY DEF Switch!Written, alone
<1> QED
  BY <1>6, <1>7, <1>8, <1>9

\* What a port carries is what the gate takes it to carry, or less.
LEMMA GateSeesEnough ==
    ASSUME PortTypes, OverridesFollow, NEW p \in Ports
    PROVE  LET port == Switch!EffectivePort(override[p], p) IN
           Switch!Carried(override[p], p) \subseteq {port.native} \union port.tagged
<1>1. override[p] \in Switch!Override
  BY DEF PortTypes
<1>2. CASE override[p].custom
  BY <1>1, <1>2 DEF OverridesFollow, Switch!Carried, Switch!EffectivePort
<1>3. CASE ~override[p].custom /\ override[p].given
  BY <1>1, <1>3 DEF OverridesFollow, Switch!Carried, Switch!EffectivePort
<1>4. CASE ~override[p].custom /\ ~override[p].given
  BY <1>4 DEF Switch!Carried, Switch!EffectivePort
<1> QED
  BY <1>1, <1>2, <1>3, <1>4 DEF Switch!Override

\* The gate looks at what is asked and at the overrides, nothing else.
LEMMA GateIsSame ==
    ASSUME NEW q, NEW p, q.kind = p.kind, q.port = p.port, q.native = p.native,
           q.tagged = p.tagged
    PROVE  Switch!Blocked(q, TRUE) <=> Switch!Blocked(p, TRUE)
  BY DEF Switch!Blocked

LEMMA GateIsStill ==
    ASSUME NEW r \in Requests, override' = override, req'[r].kind = req[r].kind,
           req'[r].port = req[r].port, req'[r].native = req[r].native,
           req'[r].tagged = req[r].tagged
    PROVE  Switch!Blocked(req[r], TRUE)' <=> Switch!Blocked(req[r], TRUE)
  BY DEF Switch!Blocked, Switch!EffectivePort

\* A request in its next phase, with what the client holds.
Moved(o, phase, read) == [o EXCEPT !.phase = phase, !.read = read]

LEMMA MovedParts ==
    ASSUME NEW o, NEW phase, NEW read,
           o = [phase |-> o.phase, kind |-> o.kind, port |-> o.port, native |-> o.native,
                tagged |-> o.tagged, confirm |-> o.confirm, read |-> o.read]
    PROVE  Moved(o, phase, read) =
             [phase |-> phase, kind |-> o.kind, port |-> o.port, native |-> o.native,
              tagged |-> o.tagged, confirm |-> o.confirm, read |-> read]
<1> DEFINE q == Moved(o, phase, read)
<1>1. q = [o EXCEPT !.phase = phase, !.read = read]
  BY DEF Moved
<1> HIDE DEF q
<1>2. q = [phase |-> phase, kind |-> o.kind, port |-> o.port, native |-> o.native,
           tagged |-> o.tagged, confirm |-> o.confirm, read |-> read]
  BY <1>1
<1> QED
  BY <1>2 DEF q

\* The route asks the gate.
LEMMA AskKeeps ==
    ASSUME PortsInv, NEW r \in Requests, Switch!Ask(r)
    PROVE  PortsInv' /\ override' = override /\ req'[r].phase # "done"
           /\ \A x \in Requests : x # r => req'[x] = req[x]
<1>1. PICK kind \in Kinds, p \in Ports, t \in SUBSET Networks, confirm \in BOOLEAN,
           n \in Networks \union (IF NativeGiven THEN {} ELSE {Switch!None}), sees \in BOOLEAN :
        LET q == [req[r] EXCEPT !.kind = kind, !.port = p, !.confirm = confirm,
                    !.native = IF kind = "vlans" THEN n ELSE Switch!None,
                    !.tagged = IF kind = "vlans" THEN t ELSE {}]
        IN  /\ req[r].phase = "new"
            /\ OneAtATime => \A x \in Requests : req[x].phase \notin {"allowed", "writing"}
            /\ ~sees => blind < MaxBlind
            /\ blind' = IF sees THEN blind ELSE blind + 1
            /\ req' = [req EXCEPT ![r] =
                         [q EXCEPT !.phase = IF Switch!Blocked(q, sees) /\ ~confirm
                                             THEN "refused" ELSE "allowed"]]
            /\ UNCHANGED override
  BY Zenon DEF Switch!Ask
<1> DEFINE native == IF kind = "vlans" THEN n ELSE Switch!None
           tagged == IF kind = "vlans" THEN t ELSE {}
           q == [req[r] EXCEPT !.kind = kind, !.port = p, !.confirm = confirm,
                   !.native = native, !.tagged = tagged]
           phase == IF Switch!Blocked(q, sees) /\ ~confirm THEN "refused" ELSE "allowed"
           a == [q EXCEPT !.phase = phase]
<1>2. /\ OneAtATime => \A x \in Requests : ~Active(x)
      /\ ~sees => blind < MaxBlind
      /\ blind' = IF sees THEN blind ELSE blind + 1
      /\ req' = [req EXCEPT ![r] = a] /\ override' = override
  BY <1>1 DEF Active
<1>3. PortTypes /\ blind \in 0..MaxBlind /\ MaxBlind \in Nat
  BY DevicesAssumption DEF PortsInv, PortTypes
<1>4. blind' \in 0..MaxBlind
  BY <1>2, <1>3
<1>5. /\ native \in Networks \union {Switch!None} /\ tagged \in SUBSET Networks
      /\ NativeGiven /\ kind = "vlans" => native # Switch!None
  BY DevicesAssumption DEF Switch!None
<1>6. /\ q = [req[r] EXCEPT !.kind = kind, !.port = p, !.confirm = confirm,
                !.native = native, !.tagged = tagged]
      /\ phase \in {"refused", "allowed"}
      /\ phase = "allowed" /\ ~confirm => ~Switch!Blocked(q, sees)
  OBVIOUS
<1>7. a = [q EXCEPT !.phase = phase]
  OBVIOUS
<1> HIDE DEF native, tagged, q, phase, a
<1>8. q = [phase |-> req[r].phase, kind |-> kind, port |-> p, native |-> native,
           tagged |-> tagged, confirm |-> confirm, read |-> req[r].read]
  <2> DEFINE o == req[r]
  <2>1. /\ o = [phase |-> o.phase, kind |-> o.kind, port |-> o.port, native |-> o.native,
                tagged |-> o.tagged, confirm |-> o.confirm, read |-> o.read]
        /\ q = [o EXCEPT !.kind = kind, !.port = p, !.confirm = confirm,
                  !.native = native, !.tagged = tagged]
    BY <1>3, <1>6, RequestParts
  <2>2. o.phase = req[r].phase /\ o.read = req[r].read
    OBVIOUS
  <2> HIDE DEF o
  <2> QED
    BY <2>1, <2>2
<1>9. a = [phase |-> phase, kind |-> kind, port |-> p, native |-> native,
           tagged |-> tagged, confirm |-> confirm, read |-> req[r].read]
  BY <1>7, <1>8
<1>10. req[r].read \in SUBSET [Ports -> Switch!Override]
  BY <1>3, RequestParts
<1>11. /\ RequestTypes' /\ req'[r] = a
       /\ \A x \in Requests : x # r => req'[x] = req[x]
  <2>1. /\ a.phase = phase /\ a.kind = kind /\ a.port = p /\ a.native = native
        /\ a.tagged = tagged /\ a.confirm = confirm /\ a.read = req[r].read
    BY <1>9
  <2>2. a = [phase |-> a.phase, kind |-> a.kind, port |-> a.port, native |-> a.native,
             tagged |-> a.tagged, confirm |-> a.confirm, read |-> a.read]
    BY <1>9, <2>1
  <2>3. a.phase \in {"refused", "allowed", "writing", "done", "failed"}
    BY <1>6, <2>1
  <2> QED
    BY <1>2, <1>3, <1>5, <1>10, <2>1, <2>2, <2>3, RequestGoesOn
<1>12. PortTypes'
  BY <1>2, <1>3, <1>4, <1>11 DEF PortTypes
<1>13. ASSUME Gated PROVE (OneIsActive /\ GateStillHolds /\ OverridesFollow)'
  <2>1. \A x \in Requests : x # r => ~Active(x) /\ ~Active(x)'
    BY <1>2, <1>11, <1>13 DEF Gated, Active
  <2>2. sees
    BY <1>2, <1>3, <1>13 DEF Gated
  <2>3. OverridesFollow'
    BY <1>2, <1>13 DEF PortsInv, OverridesFollow
  <2>4. OneIsActive'
    BY <2>1 DEF OneIsActive
  <2>5. /\ Active(r)' /\ ~req'[r].confirm => ~Switch!Blocked(req[r], TRUE)'
        /\ req'[r].phase # "writing"
        /\ Active(r)' /\ req'[r].kind = "vlans" => req'[r].native # Switch!None
    <3>1. /\ req'[r].phase = phase /\ req'[r].kind = kind /\ req'[r].native = native
          /\ req'[r].confirm = confirm /\ req'[r].port = p /\ req'[r].tagged = tagged
      BY <1>9, <1>11
    <3>2. q.kind = kind /\ q.port = p /\ q.native = native /\ q.tagged = tagged
      BY <1>8
    <3>3. Switch!Blocked(req[r], TRUE)' <=> Switch!Blocked(q, TRUE)
      BY <1>2, <3>1, <3>2 DEF Switch!Blocked, Switch!EffectivePort
    <3> QED
      BY <1>5, <1>6, <1>13, <2>2, <3>1, <3>3 DEF Active, Gated
  <2>6. GateStillHolds'
    BY <2>1, <2>5 DEF GateStillHolds, Active
  <2> QED
    BY <2>3, <2>4, <2>6
<1>14. req'[r].phase # "done"
  BY <1>6, <1>9, <1>11
<1> QED
  BY <1>2, <1>11, <1>12, <1>13, <1>14 DEF PortsInv

\* The client reads the overrides.
LEMMA ReadKeeps ==
    ASSUME PortsInv, NEW r \in Requests, Switch!ReadOverrides(r)
    PROVE  PortsInv' /\ override' = override /\ req'[r].phase # "done"
           /\ \A x \in Requests : x # r => req'[x] = req[x]
<1> DEFINE q == [phase |-> "writing", kind |-> req[r].kind, port |-> req[r].port,
                 native |-> req[r].native, tagged |-> req[r].tagged,
                 confirm |-> req[r].confirm, read |-> {override}]
<1>1. /\ PortTypes /\ req[r].phase = "allowed" /\ override' = override /\ blind' = blind
      /\ req' = [req EXCEPT ![r].phase = "writing", ![r].read = {override}]
  BY DEF PortsInv, Switch!ReadOverrides
<1>2. /\ req[r] = [phase |-> req[r].phase, kind |-> req[r].kind, port |-> req[r].port,
                   native |-> req[r].native, tagged |-> req[r].tagged,
                   confirm |-> req[r].confirm, read |-> req[r].read]
      /\ req = [x \in Requests |-> req[x]]
  BY <1>1, RequestParts DEF PortTypes, RequestTypes
<1>3. req' = [req EXCEPT ![r] = Moved(req[r], "writing", {override})]
  BY <1>1, <1>2 DEF Moved
<1>4. Moved(req[r], "writing", {override}) = q
  BY <1>2, MovedParts
<1>5. req' = [req EXCEPT ![r] = q]
  BY <1>3, <1>4
<1>6. /\ q.phase = "writing" /\ q.kind = req[r].kind /\ q.port = req[r].port
      /\ q.native = req[r].native /\ q.tagged = req[r].tagged
      /\ q.confirm = req[r].confirm /\ q.read = {override}
      /\ q = [phase |-> q.phase, kind |-> q.kind, port |-> q.port, native |-> q.native,
              tagged |-> q.tagged, confirm |-> q.confirm, read |-> q.read]
  OBVIOUS
<1> HIDE DEF q
<1>7. {override} \in SUBSET [Ports -> Switch!Override]
  BY <1>1 DEF PortTypes
<1>8. /\ RequestTypes' /\ req'[r] = q
      /\ \A x \in Requests : x # r => req'[x] = req[x]
  <2>1. /\ q.kind \in Kinds /\ q.port \in Ports
        /\ q.native \in Networks \union {Switch!None}
        /\ q.tagged \in SUBSET Networks /\ q.confirm \in BOOLEAN
        /\ q.read \in SUBSET [Ports -> Switch!Override]
    BY <1>1, <1>6, <1>7, RequestParts
  <2> QED
    BY <1>1, <1>5, <1>6, <2>1, RequestGoesOn
<1>9. PortTypes'
  BY <1>1, <1>8 DEF PortTypes
<1>10. ASSUME Gated PROVE (OneIsActive /\ GateStillHolds /\ OverridesFollow)'
  <2>1. OneIsActive /\ GateStillHolds /\ OverridesFollow
    BY <1>10 DEF PortsInv
  <2>2. Active(r) /\ \A x \in Requests : x # r => ~Active(x) /\ ~Active(x)'
    BY <1>1, <1>8, <2>1 DEF OneIsActive, Active
  <2>3. Switch!Blocked(req[r], TRUE)' <=> Switch!Blocked(req[r], TRUE)
    BY <1>1, <1>6, <1>8, GateIsStill
  <2>4. /\ ~req'[r].confirm => ~Switch!Blocked(req[r], TRUE)'
        /\ req'[r].read = {override'}
        /\ req'[r].kind = "vlans" => req'[r].native # Switch!None
    BY <1>1, <1>6, <1>8, <2>1, <2>2, <2>3 DEF GateStillHolds
  <2>5. OneIsActive' /\ GateStillHolds'
    BY <2>2, <2>4 DEF OneIsActive, GateStillHolds, Active
  <2>6. OverridesFollow'
    BY <1>1, <2>1 DEF OverridesFollow
  <2> QED
    BY <2>5, <2>6
<1> QED
  BY <1>1, <1>6, <1>8, <1>9, <1>10 DEF PortsInv

\* The PUT fails.
LEMMA PutFailsKeeps ==
    ASSUME PortsInv, NEW r \in Requests, Switch!PutFails(r)
    PROVE  PortsInv' /\ override' = override /\ req'[r].phase # "done"
           /\ \A x \in Requests : x # r => req'[x] = req[x]
<1> DEFINE q == [phase |-> "failed", kind |-> req[r].kind, port |-> req[r].port,
                 native |-> req[r].native, tagged |-> req[r].tagged,
                 confirm |-> req[r].confirm, read |-> {}]
<1>1. /\ PortTypes /\ req[r].phase = "writing" /\ override' = override /\ blind' = blind
      /\ req' = [req EXCEPT ![r].phase = "failed", ![r].read = {}]
  BY DEF PortsInv, Switch!PutFails
<1>2. /\ req[r] = [phase |-> req[r].phase, kind |-> req[r].kind, port |-> req[r].port,
                   native |-> req[r].native, tagged |-> req[r].tagged,
                   confirm |-> req[r].confirm, read |-> req[r].read]
      /\ req = [x \in Requests |-> req[x]]
  BY <1>1, RequestParts DEF PortTypes, RequestTypes
<1>3. req' = [req EXCEPT ![r] = Moved(req[r], "failed", {})]
  BY <1>1, <1>2 DEF Moved
<1>4. Moved(req[r], "failed", {}) = q
  BY <1>2, MovedParts
<1>5. req' = [req EXCEPT ![r] = q]
  BY <1>3, <1>4
<1>6. /\ q.phase = "failed" /\ q.kind = req[r].kind /\ q.port = req[r].port
      /\ q.native = req[r].native /\ q.tagged = req[r].tagged
      /\ q.confirm = req[r].confirm /\ q.read = {}
      /\ q = [phase |-> q.phase, kind |-> q.kind, port |-> q.port, native |-> q.native,
              tagged |-> q.tagged, confirm |-> q.confirm, read |-> q.read]
  OBVIOUS
<1> HIDE DEF q
<1>8. /\ RequestTypes' /\ req'[r] = q
      /\ \A x \in Requests : x # r => req'[x] = req[x]
  BY <1>1, <1>5, <1>6, RequestParts, RequestGoesOn
<1>9. PortTypes'
  BY <1>1, <1>8 DEF PortTypes
<1>10. ASSUME Gated PROVE (OneIsActive /\ GateStillHolds /\ OverridesFollow)'
  <2>1. OneIsActive /\ GateStillHolds /\ OverridesFollow
    BY <1>10 DEF PortsInv
  <2>2. \A x \in Requests : ~Active(x)'
    BY <1>1, <1>6, <1>8, <2>1 DEF OneIsActive, Active
  <2>3. OneIsActive' /\ GateStillHolds'
    BY <2>2 DEF OneIsActive, GateStillHolds, Active
  <2>4. OverridesFollow'
    BY <1>1, <2>1 DEF OverridesFollow
  <2> QED
    BY <2>3, <2>4
<1> QED
  BY <1>1, <1>6, <1>8, <1>9, <1>10 DEF PortsInv

\* What is promised of a write that nobody confirmed.
PortsAreKept ==
    /\ \A p \in Ports : (Switch!Carried(override[p], p) \intersect Protected)
                          \subseteq Switch!Carried(override[p], p)'
    /\ \A p \in Appliance \union Uplinks : override'[p].disabled => override[p].disabled

\* What a PUT makes of the port it is about; the others keep their overrides.
LEMMA PutChangesOne ==
    ASSUME PortTypes, NEW q, q.port \in Ports, q.kind \in {"vlans", "disabled"},
           override' = Switch!Written(q, override)
    PROVE  /\ \A p \in Ports : p # q.port => override'[p] = override[p]
           /\ override'[q.port] = IF q.kind = "vlans" THEN Switch!VlanOverride(q)
                                  ELSE Switch!DisabledOverride(override[q.port], q.port)
<1>1. override = [p \in Ports |-> override[p]]
  BY DEF PortTypes
<1>2. CASE q.kind = "vlans"
  <2>1. override' = [override EXCEPT ![q.port] = Switch!VlanOverride(q)]
    BY <1>2 DEF Switch!Written
  <2> QED
    BY <1>1, <1>2, <2>1
<1>3. CASE q.kind = "disabled"
  <2>1. override' = [override EXCEPT ![q.port] = Switch!DisabledOverride(@, q.port)]
    BY <1>3 DEF Switch!Written
  <2> QED
    BY <1>1, <1>3, <2>1
<1> QED
  BY <1>2, <1>3

\* The fields of what is written.
LEMMA VlanFields ==
    ASSUME NEW q, q.native # Switch!None
    PROVE  LET o == Switch!VlanOverride(q) IN
           /\ o.given /\ o.custom /\ ~o.disabled /\ o.tagged = q.tagged /\ o.native = q.native
  BY DEF Switch!VlanOverride

LEMMA DisabledFields ==
    ASSUME NEW p, override[p] \in Switch!Override,
           override'[p] = Switch!DisabledOverride(override[p], p)
    PROVE  /\ override'[p].given
           /\ override[p].given => /\ override'[p].custom = override[p].custom
                                  /\ override'[p].native = override[p].native
                                  /\ override'[p].tagged = override[p].tagged
           /\ ~override[p].given => /\ override'[p].custom = FALSE
                                   /\ override'[p].native = Table[p].native
                                   /\ override'[p].tagged = Table[p].tagged
<1>1. CASE override[p].given
  <2>1. override'[p] = [override[p] EXCEPT !.disabled = TRUE]
    BY <1>1 DEF Switch!DisabledOverride
  <2> QED
    BY <1>1, <2>1 DEF Switch!Override
<1>2. CASE ~override[p].given
  <2>1. override'[p] = [given |-> TRUE, custom |-> FALSE, disabled |-> TRUE,
                        native |-> Table[p].native, tagged |-> Table[p].tagged]
    BY <1>2 DEF Switch!DisabledOverride
  <2>2. /\ override'[p].given /\ override'[p].custom = FALSE
        /\ override'[p].native = Table[p].native /\ override'[p].tagged = Table[p].tagged
    BY <2>1
  <2> QED
    BY <1>2, <2>2
<1> QED
  BY <1>1, <1>2

\* The PUT that the gate let pass leaves what is protected.
LEMMA PutIsSafe ==
    ASSUME PortTypes, OverridesFollow, NEW q, q.port \in Ports,
           q.kind \in {"vlans", "disabled"}, q.tagged \in SUBSET Networks,
           q.kind = "vlans" => q.native # Switch!None,
           override' = Switch!Written(q, override)
    PROVE  OverridesFollow' /\ (~Switch!Blocked(q, TRUE) => PortsAreKept)
<1> DEFINE p == q.port
           o == override[p]
           port == Switch!EffectivePort(o, p)
<1>1. /\ \A x \in Ports : x # p => override'[x] = override[x]
      /\ q.kind = "vlans" => override'[p] = Switch!VlanOverride(q)
      /\ q.kind = "disabled" => override'[p] = Switch!DisabledOverride(o, p)
  BY PutChangesOne
<1>2. o \in Switch!Override /\ p \in Ports
  BY DEF PortTypes
<1>3. Switch!Carried(o, p) \subseteq {port.native} \union port.tagged
  BY GateSeesEnough
<1>4. /\ o.custom => o.given
      /\ o.given /\ ~o.custom => /\ o.native \in {Switch!None, Table[p].native}
                                 /\ o.tagged \in {{}, Table[p].tagged}
  BY DEF OverridesFollow
<1>5. CASE q.kind = "vlans"
  <2>1. /\ override'[p].given /\ override'[p].custom /\ ~override'[p].disabled
        /\ override'[p].tagged = q.tagged /\ override'[p].native = q.native
    BY <1>1, <1>5, VlanFields
  <2>2. OverridesFollow'
    BY <1>1, <2>1 DEF OverridesFollow
  <2>3. ASSUME ~Switch!Blocked(q, TRUE) PROVE PortsAreKept
    <3>1. (({port.native} \union port.tagged) \ ({q.native} \union q.tagged))
            \intersect Protected = {}
      BY <1>5, <2>3 DEF Switch!Blocked, Switch!CheckPortChange
    <3>2. Switch!Carried(override[p], p)' = {q.native} \union q.tagged
      BY <1>5, <2>1 DEF Switch!Carried
    <3>3. (Switch!Carried(o, p) \intersect Protected) \subseteq Switch!Carried(override[p], p)'
      BY <1>3, <3>1, <3>2
    <3>4. \A x \in Ports : x # p =>
            Switch!Carried(override[x], x)' = Switch!Carried(override[x], x)
      BY <1>1 DEF Switch!Carried
    <3>5. \A x \in Ports : (Switch!Carried(override[x], x) \intersect Protected)
                             \subseteq Switch!Carried(override[x], x)'
      BY <3>3, <3>4
    <3>6. \A x \in Ports : override'[x].disabled => override[x].disabled
      BY <1>1, <2>1
    <3>7. Appliance \union Uplinks \subseteq Ports
      BY DevicesAssumption
    <3> QED
      BY <3>5, <3>6, <3>7 DEF PortsAreKept
  <2> QED
    BY <2>2, <2>3
<1>6. CASE q.kind = "disabled"
  <2>1. /\ override'[p].given
        /\ o.given => /\ override'[p].custom = o.custom /\ override'[p].native = o.native
                      /\ override'[p].tagged = o.tagged
        /\ ~o.given => /\ override'[p].custom = FALSE
                       /\ override'[p].native = Table[p].native
                       /\ override'[p].tagged = Table[p].tagged
    BY <1>1, <1>2, <1>6, DisabledFields
  <2>2. o.given \in BOOLEAN /\ o.custom \in BOOLEAN
    BY <1>2 DEF Switch!Override
  <2>3. OverridesFollow'
    <3>1. /\ override'[p].custom => override'[p].given
          /\ override'[p].given /\ ~override'[p].custom =>
                /\ override'[p].native \in {Switch!None, Table[p].native}
                /\ override'[p].tagged \in {{}, Table[p].tagged}
      BY <1>4, <2>1
    <3> QED
      BY <1>1, <3>1 DEF OverridesFollow
  <2>4. Switch!Carried(override[p], p)' = Switch!Carried(o, p)
    BY <1>4, <2>1, <2>2 DEF Switch!Carried
  <2>5. ASSUME ~Switch!Blocked(q, TRUE) PROVE PortsAreKept
    <3>1. p \notin Appliance \union Uplinks
      BY <1>6, <2>5 DEF Switch!Blocked, Switch!CheckPortDisable
    <3>2. \A x \in Ports : x # p =>
            Switch!Carried(override[x], x)' = Switch!Carried(override[x], x)
      BY <1>1 DEF Switch!Carried
    <3>3. \A x \in Ports : (Switch!Carried(override[x], x) \intersect Protected)
                             \subseteq Switch!Carried(override[x], x)'
      BY <2>4, <3>2
    <3>4. Appliance \union Uplinks \subseteq Ports
      BY DevicesAssumption
    <3> QED
      BY <1>1, <3>1, <3>3, <3>4 DEF PortsAreKept
  <2> QED
    BY <2>3, <2>5
<1> QED
  BY <1>5, <1>6

\* The PUT.
LEMMA PutKeeps ==
    ASSUME PortsInv, NEW r \in Requests, Switch!Put(r)
    PROVE  /\ PortsInv'
           /\ \A x \in Requests : x # r => req'[x] = req[x]
           /\ Gated /\ ~req[r].confirm => PortsAreKept
<1> DEFINE q == Moved(req[r], "done", {})
<1>1. /\ PortTypes /\ req[r].phase = "writing" /\ blind' = blind
      /\ \E base \in req[r].read : override' = Switch!Written(req[r], base)
      /\ req' = [req EXCEPT ![r].phase = "done", ![r].read = {}]
  BY DEF PortsInv, Switch!Put
<1>2. /\ req[r] = [phase |-> req[r].phase, kind |-> req[r].kind, port |-> req[r].port,
                   native |-> req[r].native, tagged |-> req[r].tagged,
                   confirm |-> req[r].confirm, read |-> req[r].read]
      /\ req = [x \in Requests |-> req[x]]
  BY <1>1, RequestParts DEF PortTypes, RequestTypes
<1>3. /\ req[r].kind \in Kinds /\ req[r].port \in Ports
      /\ req[r].native \in Networks \union {Switch!None}
      /\ req[r].tagged \in SUBSET Networks /\ req[r].confirm \in BOOLEAN
      /\ req[r].read \in SUBSET [Ports -> Switch!Override]
  BY <1>1, RequestParts
<1>4. q = [phase |-> "done", kind |-> req[r].kind, port |-> req[r].port,
           native |-> req[r].native, tagged |-> req[r].tagged,
           confirm |-> req[r].confirm, read |-> {}]
  BY <1>2, MovedParts
<1>5. req' = [req EXCEPT ![r] = q]
  BY <1>1, <1>2 DEF Moved
<1> HIDE DEF q
<1>6. /\ q.phase = "done" /\ q.kind = req[r].kind /\ q.port = req[r].port
      /\ q.native = req[r].native /\ q.tagged = req[r].tagged
      /\ q.confirm = req[r].confirm /\ q.read = {}
      /\ q = [phase |-> q.phase, kind |-> q.kind, port |-> q.port, native |-> q.native,
              tagged |-> q.tagged, confirm |-> q.confirm, read |-> q.read]
  BY <1>4
<1>7. /\ RequestTypes' /\ req'[r] = q
      /\ \A x \in Requests : x # r => req'[x] = req[x]
  BY <1>1, <1>3, <1>5, <1>6, RequestGoesOn
<1>8. override' \in [Ports -> Switch!Override]
  BY <1>1, <1>3, WrittenIsTyped
<1>9. PortTypes'
  BY <1>1, <1>7, <1>8 DEF PortTypes
<1>10. ASSUME Gated
       PROVE  /\ (OneIsActive /\ GateStillHolds /\ OverridesFollow)'
              /\ ~req[r].confirm => PortsAreKept
  <2>1. OneIsActive /\ GateStillHolds /\ OverridesFollow
    BY <1>10 DEF PortsInv
  <2>2. \A x \in Requests : ~Active(x)'
    BY <1>1, <1>6, <1>7, <2>1 DEF OneIsActive, Active
  <2>3. OneIsActive' /\ GateStillHolds'
    BY <2>2 DEF OneIsActive, GateStillHolds, Active
  <2>4. /\ override' = Switch!Written(req[r], override)
        /\ req[r].kind = "vlans" => req[r].native # Switch!None
        /\ ~req[r].confirm => ~Switch!Blocked(req[r], TRUE)
    BY <1>1, <2>1 DEF GateStillHolds, Active
  <2>5. req[r].kind \in {"vlans", "disabled"}
    BY <1>3, <1>10 DEF Gated
  <2>6. OverridesFollow' /\ (~Switch!Blocked(req[r], TRUE) => PortsAreKept)
    BY <1>1, <1>3, <2>1, <2>4, <2>5, PutIsSafe
  <2> QED
    BY <2>3, <2>4, <2>6
<1> QED
  BY <1>7, <1>9, <1>10 DEF PortsInv

-----------------------------------------------------------------------------
LEMMA PortsInit == ASSUME Switch!Init PROVE PortsInv
<1>1. /\ override \in [Ports -> Switch!InitialOverrides] /\ blind = 0
      /\ req = [r \in Requests |-> Switch!NoRequest]
  BY DEF Switch!Init
<1>2. \A n \in Networks : Networks \ {n} \in SUBSET Networks
  OBVIOUS
<1>3. ASSUME NEW o \in Switch!InitialOverrides
      PROVE  /\ o \in Switch!Override /\ (o.custom <=> o.given)
  <2>1. CASE o = Switch!NoOverride
    BY <2>1 DEF Switch!NoOverride, Switch!Override
  <2>2. CASE o # Switch!NoOverride
    <3>1. PICK n \in Networks :
            o = [Switch!NoOverride EXCEPT !.given = TRUE, !.custom = TRUE,
                                          !.native = n, !.tagged = Networks \ {n}]
      BY <2>2, Zenon DEF Switch!InitialOverrides
    <3>2. o = [given |-> TRUE, custom |-> TRUE, native |-> n, tagged |-> Networks \ {n},
               disabled |-> FALSE]
      BY <3>1 DEF Switch!NoOverride
    <3> QED
      BY <1>2, <3>2 DEF Switch!Override
  <2> QED
    BY <2>1, <2>2
<1>4. override \in [Ports -> Switch!Override] /\ OverridesFollow
  BY <1>1, <1>3 DEF OverridesFollow
<1>5. RequestTypes /\ \A r \in Requests : ~Active(r)
  BY <1>1 DEF RequestTypes, Active, Switch!NoRequest
<1>6. blind \in 0..MaxBlind
  BY <1>1, DevicesAssumption
<1> QED
  BY <1>4, <1>5, <1>6 DEF PortsInv, PortTypes, OneIsActive, GateStillHolds, Active

\* Every step of the requests, and what a write that nobody confirmed leaves.
LEMMA PortsStep ==
    ASSUME PortsInv, [Switch!Next]_(Switch!vars)
    PROVE  PortsInv' /\ (Gated /\ Switch!Unconfirmed => PortsAreKept)
<1>1. CASE UNCHANGED (Switch!vars)
  <2>1. override' = override /\ req' = req /\ blind' = blind
    BY <1>1 DEF Switch!vars
  <2>2. PortsInv'
    BY <2>1 DEF PortsInv, PortTypes, RequestTypes, OneIsActive, GateStillHolds, OverridesFollow,
                Active, Switch!Blocked, Switch!EffectivePort
  <2>3. ~Switch!Unconfirmed
    BY <2>1 DEF Switch!Unconfirmed
  <2> QED
    BY <2>2, <2>3
<1>2. ASSUME NEW r \in Requests, Switch!Ask(r) \/ Switch!ReadOverrides(r) \/ Switch!PutFails(r)
      PROVE  PortsInv' /\ ~Switch!Unconfirmed
  <2>1. /\ PortsInv' /\ req'[r].phase # "done"
        /\ \A x \in Requests : x # r => req'[x] = req[x]
    BY <1>2, AskKeeps, ReadKeeps, PutFailsKeeps
  <2>2. ~Switch!Unconfirmed
    BY <2>1 DEF Switch!Unconfirmed
  <2> QED
    BY <2>1, <2>2
<1>3. ASSUME NEW r \in Requests, Switch!Put(r)
      PROVE  PortsInv' /\ (Gated /\ Switch!Unconfirmed => PortsAreKept)
  <2>1. /\ PortsInv' /\ \A x \in Requests : x # r => req'[x] = req[x]
        /\ Gated /\ ~req[r].confirm => PortsAreKept
    BY <1>3, PutKeeps
  <2>2. Switch!Unconfirmed => ~req[r].confirm
    BY <2>1 DEF Switch!Unconfirmed
  <2> QED
    BY <2>1, <2>2
<1> QED
  BY <1>1, <1>2, <1>3 DEF Switch!Next

\* The overrides and the requests have the types of SwitchPorts.
LEMMA PortsTyped == ASSUME PortsInv PROVE Switch!TypeOK
  BY DEF PortsInv, PortTypes, RequestTypes, Switch!TypeOK

-----------------------------------------------------------------------------
(* DeviceChannels: what the tables of the channels agree about.             *)

\* A device has the fields of a device, and nobody declares another channel than a vendor's.
DeviceShape(d) ==
    /\ d = [claimed |-> d.claimed, key |-> d.key, snmp |-> d.snmp, unifi |-> d.unifi,
            agent |-> d.agent, reports |-> d.reports, declared |-> d.declared, type |-> d.type,
            class |-> d.class]
    /\ d.declared \subseteq {"vendor_api"}

ChannelsInv == /\ DeviceShape(dev)
               /\ fp = <<>> \/ \E f \in Channels!Fingerprints : fp = <<f>>

LEMMA ChannelsInit == ASSUME Channels!Init PROVE ChannelsInv
  BY DEF Channels!Init, Channels!Discovered, ChannelsInv, DeviceShape

\* What a fingerprint, a claim and an edit make of a device.
LEMMA DeviceChanges ==
    ASSUME NEW d, DeviceShape(d), NEW e,
           \/ \E t : e = [d EXCEPT !.type = t]
           \/ \E k, s, t, c : \E v \in SUBSET {"vendor_api"} :
                e = [d EXCEPT !.claimed = TRUE, !.type = t, !.class = c,
                              !.key = k, !.snmp = s, !.declared = v]
           \/ \E s : e = [d EXCEPT !.snmp = s]
           \/ \E k : e = [d EXCEPT !.key = k]
           \/ \E v \in SUBSET {"vendor_api"} : e = [d EXCEPT !.declared = v]
           \/ \E s : e = [d EXCEPT !.agent = TRUE, !.reports = s, !.claimed = TRUE]
           \/ e = [d EXCEPT !.unifi = TRUE, !.claimed = TRUE]
    PROVE  DeviceShape(e)
<1>1. /\ d = [claimed |-> d.claimed, key |-> d.key, snmp |-> d.snmp, unifi |-> d.unifi,
              agent |-> d.agent, reports |-> d.reports, declared |-> d.declared, type |-> d.type,
              class |-> d.class]
      /\ d.declared \subseteq {"vendor_api"}
  BY DEF DeviceShape
<1>2. CASE \E t : e = [d EXCEPT !.type = t]
  BY <1>1, <1>2 DEF DeviceShape
<1>3. CASE \E k, s, t, c : \E v \in SUBSET {"vendor_api"} :
             e = [d EXCEPT !.claimed = TRUE, !.type = t, !.class = c,
                           !.key = k, !.snmp = s, !.declared = v]
  BY <1>1, <1>3 DEF DeviceShape
<1>4. CASE \/ \E s : e = [d EXCEPT !.snmp = s]
           \/ \E k : e = [d EXCEPT !.key = k]
  BY <1>1, <1>4 DEF DeviceShape
<1>5. CASE \E v \in SUBSET {"vendor_api"} : e = [d EXCEPT !.declared = v]
  BY <1>1, <1>5 DEF DeviceShape
<1>6. CASE \/ \E s : e = [d EXCEPT !.agent = TRUE, !.reports = s, !.claimed = TRUE]
           \/ e = [d EXCEPT !.unifi = TRUE, !.claimed = TRUE]
  BY <1>1, <1>6 DEF DeviceShape
<1> QED
  BY <1>2, <1>3, <1>4, <1>5, <1>6

LEMMA ChannelsStep ==
    ASSUME ChannelsInv, [Channels!Next]_(Channels!vars)
    PROVE  ChannelsInv'
<1>1. DeviceShape(dev) /\ (fp = <<>> \/ \E f \in Channels!Fingerprints : fp = <<f>>)
  BY DEF ChannelsInv
<1>2. CASE UNCHANGED (Channels!vars)
  BY <1>1, <1>2 DEF Channels!vars, ChannelsInv, DeviceShape
<1>3. ASSUME NEW f \in Channels!Fingerprints, Channels!ApplyFingerprint(f) PROVE ChannelsInv'
  <2>1. fp' = <<f>> /\ \E t : dev' = [dev EXCEPT !.type = t]
    BY <1>3 DEF Channels!ApplyFingerprint, Channels!Change
  <2>2. DeviceShape(dev')
    BY <1>1, <2>1, DeviceChanges
  <2> QED
    BY <2>1, <2>2 DEF ChannelsInv, DeviceShape
<1>4. ASSUME NEW key, NEW snmp, NEW declared \in {{}, {"vendor_api"}}, NEW type, NEW class,
             Channels!Claim(key, snmp, declared, type, class)
      PROVE  ChannelsInv'
  <2> DEFINE v == IF declared = {} THEN dev.declared ELSE declared
  <2>1. fp' = <<>> /\ dev' = [dev EXCEPT !.claimed = TRUE, !.type = type, !.class = class,
                                         !.key = @ \/ key, !.snmp = @ \/ snmp, !.declared = v]
    BY <1>4 DEF Channels!Claim, Channels!Change
  <2>2. v \in SUBSET {"vendor_api"}
    BY <1>1 DEF DeviceShape
  <2>3. DeviceShape(dev')
    BY <1>1, <2>1, <2>2, DeviceChanges
  <2> QED
    BY <2>1, <2>3 DEF ChannelsInv, DeviceShape
<1>5. ASSUME NEW d, Channels!Update(d) PROVE ChannelsInv'
  <2>1. /\ fp' = <<>> /\ dev' = d
        /\ d \in {[dev EXCEPT !.snmp = ~@], [dev EXCEPT !.key = TRUE],
                  [dev EXCEPT !.declared = {}], [dev EXCEPT !.declared = {"vendor_api"}]}
    BY <1>5 DEF Channels!Update, Channels!Change
  <2>2. \/ \E s : d = [dev EXCEPT !.snmp = s]
        \/ \E k : d = [dev EXCEPT !.key = k]
        \/ \E v \in SUBSET {"vendor_api"} : d = [dev EXCEPT !.declared = v]
    BY <2>1
  <2>3. DeviceShape(d)
    BY <1>1, <2>2, DeviceChanges
  <2> QED
    BY <2>1, <2>3 DEF ChannelsInv, DeviceShape
<1>6. ASSUME (\E reports : Channels!AgentReports(reports)) \/ Channels!UnifiAdopts
      PROVE  ChannelsInv'
  <2>1. /\ fp' = <<>>
        /\ \/ \E s : dev' = [dev EXCEPT !.agent = TRUE, !.reports = s, !.claimed = TRUE]
           \/ dev' = [dev EXCEPT !.unifi = TRUE, !.claimed = TRUE]
    BY <1>6 DEF Channels!AgentReports, Channels!UnifiAdopts, Channels!Change
  <2>2. DeviceShape(dev')
    BY <1>1, <2>1, DeviceChanges
  <2> QED
    BY <2>1, <2>2 DEF ChannelsInv, DeviceShape
<1>7. ASSUME Channels!LoadManagedDevices \/ \E a, good : Channels!Dispatch(a, good)
      PROVE  ChannelsInv'
  <2>1. fp' = <<>> /\ dev' = dev
    BY <1>7 DEF Channels!LoadManagedDevices, Channels!Dispatch
  <2> QED
    BY <1>1, <2>1 DEF ChannelsInv, DeviceShape
<1> QED
  BY <1>2, <1>3, <1>4, <1>5, <1>6, <1>7 DEF Channels!Next

\* The channel a choice returns is one of those offered, or monitoring where none is: the ranks
\* are numbers, so that one of them is the smallest.
LEMMA BestIsOffered ==
    ASSUME NEW cs \in SUBSET Channels!Channels, cs # {} PROVE Channels!Best(cs) \in cs
<1>1. \A c \in cs : Channels!Rank[c] \in Nat
  BY DEF Channels!Rank, Channels!Channels
<1>2. \E c \in cs : \A e \in cs : Channels!Rank[c] <= Channels!Rank[e]
  <2> DEFINE R == {Channels!Rank[c] : c \in cs}
  <2>1. R \subseteq Nat /\ R # {}
    BY <1>1
  <2>2. \E n \in R : \A m \in R : n <= m
    BY <2>1, SmallestNumber
  <2> QED
    BY <2>2
<1> QED
  BY <1>2 DEF Channels!Best

LEMMA RecommendationHolds ==
    ASSUME NEW f \in Channels!Fingerprints
    PROVE  LET best == Channels!Recommendation(f)
           IN  /\ best = "snmp" => f.v3
               /\ best \in {"ssh", "agent"} => f.ssh
               /\ best = "monitor" /\ f.ssh => f.rtsp /\ ~Channels!IsGear(f)
<1> DEFINE all == Channels!CandidateChannels(f)
           cs  == all \ ({"monitor"} \union Channels!Insecure(f))
           best == Channels!Recommendation(f)
           gear == Channels!IsGear(f)
<1>1. f.ssh \in BOOLEAN /\ f.rtsp \in BOOLEAN /\ f.smb \in BOOLEAN /\ f.printer \in BOOLEAN
      /\ f.snmp \in BOOLEAN /\ f.v3 \in BOOLEAN
  BY DEF Channels!Fingerprints
<1>2. all \in SUBSET Channels!Channels
  BY DEF Channels!CandidateChannels, Channels!Channels, Channels!Snmp
<1>3. ~f.ssh => "ssh" \notin all /\ "agent" \notin all
  BY <1>1 DEF Channels!CandidateChannels, Channels!Snmp
<1>4. f.ssh /\ (gear \/ ~f.rtsp) => "ssh" \in all
  BY <1>1 DEF Channels!CandidateChannels
<1>5. /\ ~f.v3 => "snmp" \in Channels!Insecure(f)
      /\ "ssh" \notin Channels!Insecure(f)
  BY DEF Channels!Insecure
<1>6. best = Channels!Best(cs)
  BY DEF Channels!Recommendation
<1>7. IF cs = {} THEN best = "monitor" ELSE best \in cs
  <2>1. CASE cs = {}
    BY <1>6, <2>1 DEF Channels!Best
  <2>2. CASE cs # {}
    BY <1>2, <1>6, <2>2, BestIsOffered
  <2> QED
    BY <2>1, <2>2
<1> HIDE DEF all, best, gear
<1>8. /\ best = "snmp" => f.v3
      /\ best \in {"ssh", "agent"} => f.ssh
      /\ best = "monitor" /\ f.ssh => f.rtsp /\ ~gear
  BY <1>1, <1>3, <1>4, <1>5, <1>7
<1> QED
  BY <1>8 DEF best, gear

\* What is said to be fixable has a channel that a changing action accepts.
LEMMA FixHolds == ASSUME ChannelsInv PROVE Channels!FixIsPossible
<1> SUFFICES ASSUME Channels!ActionChannel(dev) = "bareNOC_fix", ~dev.unifi
             PROVE  \E a \in {"reboot_device", "apply_patch", "apply_updates"} :
                      Channels!ValidateChannels(a, Channels!EffectiveChannels(dev))
  BY DEF Channels!FixIsPossible
<1>1. Channels!EffectiveChannels(dev) \intersect {"agent", "vendor_api", "ssh", "unifi"} # {}
  BY DEF Channels!ActionChannel, Channels!ControlChannels
<1>2. "unifi" \notin Channels!EffectiveChannels(dev)
  BY DEF Channels!EffectiveChannels, ChannelsInv, DeviceShape
<1>3. CASE Channels!EffectiveChannels(dev) \intersect {"agent", "ssh", "vendor_api"} # {}
  <2>1. Channels!ValidateChannels("reboot_device", Channels!EffectiveChannels(dev))
    BY <1>3 DEF Channels!ValidateChannels, Channels!RequiredChannels
  <2> QED
    BY <2>1
<1> QED
  BY <1>1, <1>2, <1>3

LEMMA ChannelsInvImplies == ASSUME ChannelsInv PROVE ChannelsHold
<1>1. Channels!RecommendationIsSound
  <2> SUFFICES ASSUME fp # <<>>
               PROVE  LET best == Channels!Recommendation(fp[1])
                      IN  /\ best = "snmp" => fp[1].v3
                          /\ best \in {"ssh", "agent"} => fp[1].ssh
                          /\ best = "monitor" /\ fp[1].ssh
                               => fp[1].rtsp /\ ~Channels!IsGear(fp[1])
    BY Zenon DEF Channels!RecommendationIsSound
  <2>1. fp[1] \in Channels!Fingerprints
    BY DEF ChannelsInv
  <2> QED
    BY <2>1, RecommendationHolds
<1> QED
  BY <1>1, FixHolds DEF ChannelsHold

-----------------------------------------------------------------------------
(* PortRules: the advice of a finding, and the sum of the penalties.        *)

Ones(severity) == {i \in DOMAIN listed : listed[i] = severity}

\* What was counted so far.
SumFollows ==
    LET infos == Cardinality(Ones("info"))
        most  == IF infos < 5 THEN infos ELSE 5
    IN  penalty = [total |-> 20 * Cardinality(Ones("critical")) + 5 * Cardinality(Ones("warning"))
                               + 2 * most,
                   infos |-> most]

RulesInv ==
    /\ findings # Rules!Nothing => findings = <<Rules!Rules(snapshot)>>
    /\ listed \in Seq({"critical", "warning", "info"})
    /\ SumFollows /\ overall = Rules!Score(penalty)

\* One more finding is one more of its severity.
LEMMA OneMore ==
    ASSUME listed \in Seq({"critical", "warning", "info"}),
           NEW s \in {"critical", "warning", "info"}, listed' = Append(listed, s)
    PROVE  /\ listed' \in Seq({"critical", "warning", "info"})
           /\ \A t \in {"critical", "warning", "info"} :
                 /\ Cardinality(Ones(t)) \in Nat
                 /\ Cardinality(Ones(t)') = Cardinality(Ones(t)) + (IF t = s THEN 1 ELSE 0)
<1> DEFINE n == Len(listed)
<1>1. /\ n \in Nat /\ DOMAIN listed = 1..n /\ DOMAIN listed' = 1..(n + 1)
      /\ listed' \in Seq({"critical", "warning", "info"})
      /\ \A i \in 1..n : listed'[i] = listed[i]
      /\ listed'[n + 1] = s
  OBVIOUS
<1> HIDE DEF n
<1>2. ASSUME NEW t \in {"critical", "warning", "info"}
      PROVE  /\ IsFiniteSet(Ones(t)) /\ Cardinality(Ones(t)) \in Nat
             /\ Ones(t)' = IF t = s THEN Ones(t) \cup {n + 1} ELSE Ones(t)
             /\ n + 1 \notin Ones(t)
  <2>1. IsFiniteSet(1..n)
    BY <1>1, FS_Interval
  <2>2. IsFiniteSet(Ones(t)) /\ Cardinality(Ones(t)) \in Nat
    BY <1>1, <2>1, FS_Subset, FS_CardinalityType DEF Ones
  <2>3. n + 1 \notin Ones(t)
    BY <1>1 DEF Ones
  <2>4. \A i : i \in Ones(t)' <=> i \in 1..(n + 1) /\ listed'[i] = t
    BY <1>1 DEF Ones
  <2>5. \A i : i \in Ones(t) <=> i \in 1..n /\ listed[i] = t
    BY <1>1 DEF Ones
  <2>6. \A i : i \in 1..(n + 1) <=> i \in 1..n \/ i = n + 1
    BY <1>1
  <2>7. Ones(t)' = IF t = s THEN Ones(t) \cup {n + 1} ELSE Ones(t)
    BY <1>1, <2>4, <2>5, <2>6
  <2> QED
    BY <2>2, <2>3, <2>7
<1>3. ASSUME NEW t \in {"critical", "warning", "info"}
      PROVE  Cardinality(Ones(t)') = Cardinality(Ones(t)) + (IF t = s THEN 1 ELSE 0)
  <2>1. Cardinality(Ones(t) \cup {n + 1}) = Cardinality(Ones(t)) + 1
    BY <1>2, <1>3, FS_AddElement
  <2>2. CASE t = s
    BY <1>2, <2>1, <2>2
  <2>3. CASE t # s
    <3>1. Ones(t)' = Ones(t) /\ Cardinality(Ones(t)) \in Nat
      BY <1>2, <2>3
    <3>2. Cardinality(Ones(t)') = Cardinality(Ones(t))
      BY <3>1
    <3> QED
      BY <2>3, <3>1, <3>2
  <2> QED
    BY <2>2, <2>3
<1> QED
  BY <1>1, <1>2, <1>3

LEMMA RulesInit == ASSUME Rules!Init PROVE RulesInv
<1>1. /\ findings = Rules!Nothing /\ listed = <<>> /\ overall = 100
      /\ penalty = [total |-> 0, infos |-> 0]
  BY DEF Rules!Init, Rules!NoPenalty
<1>2. Ones("critical") = {} /\ Ones("warning") = {} /\ Ones("info") = {}
  BY <1>1 DEF Ones
<1>3. /\ Cardinality(Ones("critical")) = 0 /\ Cardinality(Ones("warning")) = 0
      /\ Cardinality(Ones("info")) = 0
  BY <1>2, FS_EmptySet
<1>4. SumFollows
  BY <1>1, <1>3 DEF SumFollows
<1>5. overall = Rules!Score(penalty)
  BY <1>1 DEF Rules!Score
<1> QED
  BY <1>1, <1>4, <1>5 DEF RulesInv

LEMMA RulesStep == ASSUME RulesInv, [Rules!Next]_(Rules!vars) PROVE RulesInv'
<1>1. CASE UNCHANGED (Rules!vars)
  BY <1>1 DEF Rules!vars, RulesInv, SumFollows, Ones
<1>2. CASE Rules!Evaluate
  <2>1. /\ findings' = <<Rules!Rules(snapshot)>> /\ snapshot' = snapshot
        /\ listed' = listed /\ penalty' = penalty /\ overall' = overall
    BY <1>2 DEF Rules!Evaluate
  <2>2. findings' = <<Rules!Rules(snapshot)>>'
    BY <2>1
  <2> QED
    BY <2>1, <2>2 DEF RulesInv, SumFollows, Ones
<1>3. CASE Rules!Add
  <2>1. PICK s \in {"critical", "warning", "info"} :
          /\ listed' = Append(listed, s) /\ penalty' = Rules!Counted(penalty, s)
          /\ overall' = Rules!Score(penalty')
    BY <1>3, Zenon DEF Rules!Add
  <2>2. snapshot' = snapshot /\ findings' = findings
    BY <1>3 DEF Rules!Add
  <2> DEFINE c == Cardinality(Ones("critical"))
             w == Cardinality(Ones("warning"))
             i == Cardinality(Ones("info"))
             m == IF i < 5 THEN i ELSE 5
  <2>3. /\ c \in Nat /\ w \in Nat /\ i \in Nat
        /\ Cardinality(Ones("critical")') = c + (IF "critical" = s THEN 1 ELSE 0)
        /\ Cardinality(Ones("warning")') = w + (IF "warning" = s THEN 1 ELSE 0)
        /\ Cardinality(Ones("info")') = i + (IF "info" = s THEN 1 ELSE 0)
        /\ listed' \in Seq({"critical", "warning", "info"})
    BY <2>1, OneMore DEF RulesInv
  <2>4. penalty = [total |-> 20 * c + 5 * w + 2 * m, infos |-> m]
    BY DEF RulesInv, SumFollows
  <2>5. SumFollows'
    <3>1. CASE s = "critical"
      BY <2>1, <2>3, <2>4, <3>1 DEF SumFollows, Rules!Counted, Rules!Weight
    <3>2. CASE s = "warning"
      BY <2>1, <2>3, <2>4, <3>2 DEF SumFollows, Rules!Counted, Rules!Weight
    <3>3. CASE s = "info" /\ i >= 5
      <4>1. m = 5 /\ penalty.infos = 5 /\ penalty' = penalty
        BY <2>1, <2>3, <2>4, <3>3 DEF Rules!Counted
      <4> QED
        BY <2>3, <2>4, <3>3, <4>1 DEF SumFollows
    <3>4. CASE s = "info" /\ i < 5
      <4>1. penalty' = [total |-> penalty.total + 2, infos |-> penalty.infos + 1]
        BY <2>1, <2>3, <2>4, <3>4 DEF Rules!Counted, Rules!Weight
      <4>2. penalty' = [total |-> 20 * c + 5 * w + 2 * (i + 1), infos |-> i + 1]
        BY <2>3, <2>4, <3>4, <4>1
      <4>3. /\ Cardinality(Ones("critical")') = c /\ Cardinality(Ones("warning")') = w
            /\ Cardinality(Ones("info")') = i + 1
        BY <2>3, <3>4
      <4>4. i + 1 = IF i + 1 < 5 THEN i + 1 ELSE 5
        BY <2>3, <3>4
      <4> HIDE DEF c, w, i
      <4> QED
        BY <4>2, <4>3, <4>4 DEF SumFollows
    <3> QED
      BY <2>3, <3>1, <3>2, <3>3, <3>4
  <2>6. overall' = Rules!Score(penalty)'
    BY <2>1 DEF Rules!Score
  <2>7. (findings # Rules!Nothing => findings = <<Rules!Rules(snapshot)>>)'
    BY <2>2 DEF RulesInv
  <2> QED
    BY <2>3, <2>5, <2>6, <2>7 DEF RulesInv
<1> QED
  BY <1>1, <1>2, <1>3 DEF Rules!Next

\* A rule about ports gives no advice, ...
LEMMA FirstPortAdvises ==
    ASSUME NEW s, NEW key, NEW severity, NEW hits,
           NEW f \in Rules!FirstPort(s, key, severity, hits)
    PROVE  f.advice = {}
  BY DEF Rules!FirstPort, Rules!Finding

\* ... a rule about networks names no port, ...
LEMMA NetworksNameNoPort ==
    ASSUME NEW s, NEW key, NEW severity, NEW N,
           NEW f \in Rules!PerNetwork(s, key, severity, N)
    PROVE  f.port = Rules!NoPort
  BY DEF Rules!PerNetwork, Rules!Finding

\* ... and the one that does both asks for the archetype first.
LEMMA AdviceIsCautious ==
    ASSUME NEW s, NEW f \in Rules!Rules(s), f.port # Rules!NoPort,
           Rules!Archetype(s.ports[f.port]) \in {"router_ap", "unknown"}
    PROVE  f.advice \subseteq {Rules!VerifyFirst}
<1>1. CASE f \in UNION {Rules!PerfLinkSpeed100(s), Rules!PerfLinkSpeed10(s),
                        Rules!PerfPortErrors(s), Rules!PerfUplink(s), Rules!SecMgmtOnUplink(s),
                        Rules!SecTrunkNative(s), Rules!HygUnnamedUplink(s), Rules!HygDeadEnd(s),
                        Rules!HygUnused(s)}
  <2>1. CASE f \in Rules!PerfLinkSpeed100(s) \/ f \in Rules!PerfLinkSpeed10(s)
           \/ f \in Rules!PerfPortErrors(s)
    BY <2>1, FirstPortAdvises
    DEF Rules!PerfLinkSpeed100, Rules!PerfLinkSpeed10, Rules!PerfPortErrors
  <2>2. CASE f \in Rules!PerfUplink(s) \/ f \in Rules!SecMgmtOnUplink(s)
           \/ f \in Rules!SecTrunkNative(s)
    BY <2>2, FirstPortAdvises
    DEF Rules!PerfUplink, Rules!SecMgmtOnUplink, Rules!SecTrunkNative
  <2>3. CASE f \in Rules!HygUnnamedUplink(s) \/ f \in Rules!HygDeadEnd(s)
           \/ f \in Rules!HygUnused(s)
    BY <2>3, FirstPortAdvises
    DEF Rules!HygUnnamedUplink, Rules!HygDeadEnd, Rules!HygUnused
  <2> QED
    BY <1>1, <2>1, <2>2, <2>3, Zenon
<1>2. CASE f \in Rules!RelLinkDown(s)
  BY <1>2 DEF Rules!RelLinkDown, Rules!Finding
<1>3. CASE f \in Rules!HygNoProfile(s)
  <2>1. f.advice = Rules!Advice(s, s.ports[f.port])
    BY <1>3 DEF Rules!HygNoProfile, Rules!Finding
  <2> QED
    BY <2>1 DEF Rules!Advice
<1>4. CASE f \in UNION {Rules!SecMgmtNotIsolated(s), Rules!HygVlan1(s), Rules!HygUnusedVlan(s),
                        Rules!HygDisabled(s)}
  <2>1. CASE f \in Rules!SecMgmtNotIsolated(s) \/ f \in Rules!HygVlan1(s)
    BY <2>1, NetworksNameNoPort DEF Rules!SecMgmtNotIsolated, Rules!HygVlan1
  <2>2. CASE f \in Rules!HygUnusedVlan(s) \/ f \in Rules!HygDisabled(s)
    BY <2>2, NetworksNameNoPort DEF Rules!HygUnusedVlan, Rules!HygDisabled
  <2> QED
    BY <1>4, <2>1, <2>2, Zenon
<1> QED
  BY <1>1, <1>2, <1>3, <1>4, Zenon DEF Rules!Rules

LEMMA RulesCount == \A S : Rules!Cardinality(S) = Cardinality(S)
  BY Zenon DEF Rules!Cardinality, Cardinality

LEMMA RulesInvImplies == ASSUME RulesInv PROVE RulesHold
<1>1. Rules!EdgeIsLeftAlone
  <2>1. findings # Rules!Nothing => findings[1] = Rules!Rules(snapshot)
    BY DEF RulesInv
  <2> QED
    BY <2>1, AdviceIsCautious DEF Rules!EdgeIsLeftAlone
<1>2. Rules!ScoreIsPinned
  <2> DEFINE c == Cardinality(Ones("critical"))
             w == Cardinality(Ones("warning"))
             i == Cardinality(Ones("info"))
             m == IF i < 5 THEN i ELSE 5
  <2>1. \A t : Rules!Count(t) = Cardinality(Ones(t))
    BY RulesCount DEF Rules!Count, Ones
  <2>2. penalty = [total |-> 20 * c + 5 * w + 2 * m, infos |-> m]
    BY DEF RulesInv, SumFollows
  <2>3. overall = Rules!Score(penalty)
    BY DEF RulesInv
  <2>4. c \in Nat /\ w \in Nat /\ i \in Nat
    <3>1. ASSUME NEW t PROVE Cardinality(Ones(t)) \in Nat
      <4>1. DOMAIN listed = 1..Len(listed) /\ Len(listed) \in Nat
        BY DEF RulesInv
      <4>2. Ones(t) \subseteq 1..Len(listed)
        BY <4>1 DEF Ones
      <4>3. IsFiniteSet(1..Len(listed))
        BY <4>1, FS_Interval
      <4>4. IsFiniteSet(Ones(t))
        BY <4>2, <4>3, FS_Subset
      <4> QED
        BY <4>4, FS_CardinalityType
    <3> QED
      BY <3>1
  <2> HIDE DEF c, w, i
  <2>5. penalty.total = 20 * c + 5 * w + 2 * m
    BY <2>2
  <2>6. overall = IF 100 - 20 * c - 5 * w - 2 * m < 0 THEN 0 ELSE 100 - 20 * c - 5 * w - 2 * m
    BY <2>3, <2>4, <2>5 DEF Rules!Score
  <2> QED
    BY <2>1, <2>6, Zenon DEF Rules!ScoreIsPinned, c, w, i
<1> QED
  BY <1>1, <1>2 DEF RulesHold

-----------------------------------------------------------------------------
(* The devices: one part runs, the others stay where they started.         *)

\* Initially every part is at one of its initial states.
LEMMA PartsInit ==
    ASSUME MCInit PROVE Init /\ Records!Init /\ Channels!Init /\ Switch!Init /\ Rules!Init
  BY Zenon DEF MCInit

\* A step is a step of each part, or leaves it as it is.
LEMMA PartsStep ==
    ASSUME [MCNext]_<<part, vars, tableVars, channelVars, portVars, ruleVars>>
    PROVE  /\ [Next]_vars /\ [Records!Next]_(Records!vars) /\ [Channels!Next]_(Channels!vars)
           /\ [Switch!Next]_(Switch!vars) /\ [Rules!Next]_(Rules!vars)
<1>1. /\ Next \/ UNCHANGED vars
      /\ Records!Next \/ UNCHANGED tableVars
      /\ Channels!Next \/ UNCHANGED channelVars
      /\ Switch!Next \/ UNCHANGED portVars
      /\ Rules!Next \/ UNCHANGED ruleVars
  BY Zenon DEF MCNext
<1>2. UNCHANGED tableVars => UNCHANGED (Records!vars)
  BY DEF tableVars, Records!vars
<1>3. UNCHANGED channelVars => UNCHANGED (Channels!vars)
  BY DEF channelVars, Channels!vars
<1>4. UNCHANGED portVars => UNCHANGED (Switch!vars)
  BY DEF portVars, Switch!vars
<1>5. UNCHANGED ruleVars => UNCHANGED (Rules!vars)
  BY DEF ruleVars, Rules!vars
<1> QED
  BY <1>1, <1>2, <1>3, <1>4, <1>5, Zenon

\* What is proved of every part.
DevicesInv == IInv /\ DoneWasHandled /\ RecordsInv /\ ChannelsInv /\ PortsInv /\ RulesInv

LEMMA DevicesInit == MCInit => DevicesInv
<1> SUFFICES ASSUME MCInit PROVE DevicesInv
  OBVIOUS
<1>1. Init => DoneWasHandled
  BY DEF Init, DoneWasHandled, NoRow
<1> QED
  BY <1>1, PartsInit, InitIInv, RecordsInit, ChannelsInit, PortsInit, RulesInit, Zenon
     DEF DevicesInv

\* A step keeps it, the revoked records, and the ports of an unconfirmed write.
LEMMA DevicesStep ==
    ASSUME DevicesInv, [MCNext]_<<part, vars, tableVars, channelVars, portVars, ruleVars>>
    PROVE  DevicesInv' /\ RevokedKept /\ (Gated /\ Switch!Unconfirmed => PortsAreKept)
<1>1. IInv' /\ DoneWasHandled'
  BY PartsStep, NextKeeps, NextKeepsDone, Zenon DEF DevicesInv
<1>2. RecordsInv' /\ RevokedKept
  BY PartsStep, RecordsStep, Zenon DEF DevicesInv
<1>3. PortsInv' /\ (Gated /\ Switch!Unconfirmed => PortsAreKept)
  BY PartsStep, PortsStep, Zenon DEF DevicesInv
<1>4. ChannelsInv' /\ RulesInv'
  BY PartsStep, ChannelsStep, RulesStep, Zenon DEF DevicesInv
<1> QED
  BY <1>1, <1>2, <1>3, <1>4, Zenon DEF DevicesInv

LEMMA DevicesInvariance == MCSpec => []DevicesInv
<1>1. DevicesInv /\ [MCNext]_<<part, vars, tableVars, channelVars, portVars, ruleVars>>
        => DevicesInv'
  BY DevicesStep, Zenon
<1> QED
  BY <1>1, DevicesInit, PTL DEF MCSpec

\* Jobs of a device, rows of the inventory and overrides of a switch keep their types; what an
\* agent calls done was handled, and what the appliance stored is what the agent reported.
THEOREM LedgerHoldsAlways == MCSpec => []LedgerHolds
<1>1. DevicesInv => LedgerHolds
  <2>1. IInv => TypeOK /\ ReportedIsStored
    BY Zenon DEF IInv, ReportedWasStored, Stored, ReportedIsStored
  <2> QED
    BY <2>1, RecordsTyped, PortsTyped, Zenon DEF DevicesInv, LedgerHolds
<1> QED
  BY <1>1, DevicesInvariance, PTL

\* Inventory: no report, sync, fold or merge makes a revoked record trusted again.
THEOREM RevokedStaysAlways == MCSpec => RevokedStays
<1>1. DevicesInv /\ [MCNext]_<<part, vars, tableVars, channelVars, portVars, ruleVars>>
        => [\A i \in Records!Rows \intersect DOMAIN row' :
              row[i].adoption = "revoked" => row'[i].adoption = "revoked"]_row
  BY DevicesStep, Zenon DEF RevokedKept, Records!Rows
<1> QED
  BY <1>1, DevicesInvariance, PTL DEF MCSpec, RevokedStays, Records!RevokedStays

\* SwitchPorts: where requests come one after the other, name the network of the port, ask a gate
\* and find the controller, no unconfirmed write takes a protected network from a port or
\* disables one that the appliance or a device hangs on, whatever the overrides have become.
THEOREM PortsHoldAlways == ASSUME Gated PROVE MCSpec => PortsHold
<1>1. DevicesInv /\ [MCNext]_<<part, vars, tableVars, channelVars, portVars, ruleVars>>
        => (Switch!Unconfirmed => PortsAreKept)
  BY DevicesStep, Zenon
<1>2. PortsAreKept =>
        /\ \A p \in Ports : (Switch!Carried(override[p], p) \intersect Protected)
                              \subseteq Switch!Carried(override'[p], p)
        /\ \A p \in Appliance \union Uplinks : override'[p].disabled => override[p].disabled
  BY DEF PortsAreKept, Switch!Carried
<1>3. DevicesInv /\ [MCNext]_<<part, vars, tableVars, channelVars, portVars, ruleVars>>
        => /\ [Switch!Unconfirmed => \A p \in Ports :
                  (Switch!Carried(override[p], p) \intersect Protected)
                    \subseteq Switch!Carried(override'[p], p)]_(Switch!vars)
           /\ [Switch!Unconfirmed => \A p \in Appliance \union Uplinks :
                  override'[p].disabled => override[p].disabled]_(Switch!vars)
  BY <1>1, <1>2, Zenon
<1> QED
  BY <1>3, DevicesInvariance, PTL
  DEF MCSpec, PortsHold, ProtectedIsKept, Switch!ProtectedIsKept, Switch!NobodyIsCutOff

\* DeviceChannels: what is said to be fixable can be changed, and the recommended channel is one
\* the fingerprint shows.
THEOREM ChannelsHoldAlways == MCSpec => []ChannelsHold
<1>1. DevicesInv => ChannelsHold
  BY ChannelsInvImplies, Zenon DEF DevicesInv
<1> QED
  BY <1>1, DevicesInvariance, PTL

\* PortRules: an edge port is never told to change its network, and the score is a function of
\* the counts of the findings.
THEOREM RulesHoldAlways == MCSpec => []RulesHold
<1>1. DevicesInv => RulesHold
  BY RulesInvImplies, Zenon DEF DevicesInv
<1> QED
  BY <1>1, DevicesInvariance, PTL
=============================================================================
