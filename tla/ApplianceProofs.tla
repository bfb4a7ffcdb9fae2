--------------------------- MODULE ApplianceProofs ---------------------------
(***************************************************************************)
(* What the appliance keeps of itself, for any number of rows, periods,    *)
(* runs, saves, uploads and faults: the hash chain of AuditChain, the      *)
(* scheduled Windows runs of Scheduler, the updates of SelfUpdate, the     *)
(* offsite copies of OffsiteBackup and the settings of Settings.  The      *)
(* telemetry is in MetricsProofs.                                          *)
(***************************************************************************)
EXTENDS MetricsProofs, SequenceTheorems

-----------------------------------------------------------------------------
(* AuditChain: the chain.                                                  *)

\* A row with valid data and a valid pointer is a valid row.
LEMMA RowIsTyped ==
    ASSUME NEW data \in Data, NEW tail \in Seq(Data)
    PROVE  /\ Row(data, tail) \in RowType
           /\ Row(data, tail).data = data
           /\ Row(data, tail).prev = tail
           /\ Row(data, tail).hash = Append(tail, data)
BY DEF Row, Hash, RowType

\* The fields of a row of the log.
LEMMA FieldsOfRow ==
    ASSUME NEW rows \in Seq(RowType), NEW i \in 1..Len(rows)
    PROVE  /\ rows[i] \in RowType
           /\ rows[i].data \in Data
           /\ rows[i].prev \in Seq(Data)
           /\ rows[i].hash \in Seq(Data)
<1>1. rows[i] \in RowType
  BY ElementOfSeq
<1> QED
  BY <1>1 DEF RowType

\* What _rechain does: the rows keep their number, their order and their data,
\* and verify_chain accepts them.
LEMMA RechainedIsConsistent ==
    ASSUME NEW rows \in Seq(RowType)
    PROVE  /\ Rechained(rows) \in Seq(RowType)
           /\ Len(Rechained(rows)) = Len(rows)
           /\ \A i \in 1..Len(rows) : Rechained(rows)[i].data = rows[i].data
           /\ Consistent(Rechained(rows))
<1> DEFINE Prefix(i) == [j \in 1..(i - 1) |-> rows[j].data]
<1> DEFINE chain == Rechained(rows)
<1>1. \A i \in 1..Len(rows) : rows[i] \in RowType /\ rows[i].data \in Data
  BY FieldsOfRow
<1>2. ASSUME NEW i \in 1..Len(rows)
      PROVE  Prefix(i) \in Seq(Data) /\ Len(Prefix(i)) = i - 1
  <2>1. i - 1 \in Nat /\ \A j \in 1..(i - 1) : j \in 1..Len(rows)
    OBVIOUS
  <2>2. Prefix(i) \in [1..(i - 1) -> Data]
    BY <2>1, <1>1
  <2> QED
    BY <2>1, <2>2, LenProperties, SeqDef
<1>3. chain = [i \in 1..Len(rows) |-> Row(rows[i].data, Prefix(i))]
  BY DEF Rechained
<1> HIDE DEF Prefix
<1>4. ASSUME NEW i \in 1..Len(rows)
      PROVE  /\ chain[i] \in RowType
             /\ chain[i].data = rows[i].data
             /\ chain[i].prev = Prefix(i)
             /\ chain[i].hash = Append(Prefix(i), rows[i].data)
  BY <1>1, <1>2, <1>3, RowIsTyped
<1>5. chain \in Seq(RowType) /\ Len(chain) = Len(rows)
  BY <1>3, <1>4
<1>6. ASSUME NEW i \in 1..Len(rows), i # 1
      PROVE  Prefix(i) = chain[i - 1].hash
  <2>1. i - 1 \in 1..Len(rows)
    BY <1>6
  <2>2. chain[i - 1].hash = Append(Prefix(i - 1), rows[i - 1].data)
    BY <2>1, <1>4
  <2>3. Prefix(i) = Append(Prefix(i - 1), rows[i - 1].data)
    BY <2>1, <1>1, <1>2 DEF Prefix
  <2> QED
    BY <2>2, <2>3
<1>7. ASSUME 1 \in 1..Len(rows) PROVE Prefix(1) = <<>>
  BY <1>2, <1>7
<1>8. Consistent(chain)
  <2> SUFFICES ASSUME NEW i \in 1..Len(chain)
               PROVE  /\ chain[i].prev = IF i = 1 THEN <<>> ELSE chain[i - 1].hash
                      /\ chain[i].hash = Hash(chain[i].data, chain[i].prev)
    BY DEF Consistent
  <2>1. i \in 1..Len(rows)
    BY <1>5
  <2>2. chain[i].hash = Hash(chain[i].data, chain[i].prev)
    BY <2>1, <1>4 DEF Hash
  <2>3. chain[i].prev = IF i = 1 THEN <<>> ELSE chain[i - 1].hash
    BY <2>1, <1>4, <1>6, <1>7
  <2> QED
    BY <2>2, <2>3
<1> QED
  BY <1>4, <1>5, <1>8

\* The previous hash of a new row is typed.
LEMMA TailHashIsTyped ==
    ASSUME NEW rows \in Seq(RowType)
    PROVE  TailHash(rows) \in Seq(Data)
<1>1. CASE rows = <<>>
  BY <1>1 DEF TailHash
<1>2. CASE rows # <<>>
  <2>1. Len(rows) \in 1..Len(rows)
    BY <1>2
  <2> QED
    BY <1>2, <2>1, FieldsOfRow DEF TailHash
<1> QED
  BY <1>1, <1>2

\* What log_event does when it read the tail it appends to: a chain that
\* verifies still does.
LEMMA AppendKeepsConsistent ==
    ASSUME NEW rows \in Seq(RowType), NEW data \in Data
    PROVE  /\ Append(rows, Row(data, TailHash(rows))) \in Seq(RowType)
           /\ Consistent(rows) => Consistent(Append(rows, Row(data, TailHash(rows))))
<1> DEFINE row == Row(data, TailHash(rows))
<1>1. TailHash(rows) \in Seq(Data)
  BY TailHashIsTyped
<1>2. /\ row \in RowType
      /\ row.data = data /\ row.prev = TailHash(rows)
      /\ row.hash = Append(TailHash(rows), data)
  BY <1>1, RowIsTyped
<1> HIDE DEF row
<1>3. ASSUME Consistent(rows), NEW i \in 1..(Len(rows) + 1)
      PROVE  LET longer == Append(rows, row) IN
             /\ longer[i].prev = IF i = 1 THEN <<>> ELSE longer[i - 1].hash
             /\ longer[i].hash = Hash(longer[i].data, longer[i].prev)
  <2>1. CASE i \in 1..Len(rows)
    BY <1>3, <2>1 DEF Consistent
  <2>2. CASE i = Len(rows) + 1
    <3>1. Append(rows, row)[i] = row
      BY <2>2, <1>2
    <3>2. i # 1 => Append(rows, row)[i - 1] = rows[Len(rows)]
      BY <2>2, <1>2
    <3>3. TailHash(rows) = IF i = 1 THEN <<>> ELSE rows[Len(rows)].hash
      BY <2>2 DEF TailHash
    <3> QED
      BY <3>1, <3>2, <3>3, <1>2 DEF Hash
  <2> QED
    BY <2>1, <2>2, <1>3
<1>4. Consistent(rows) => Consistent(Append(rows, row))
  BY <1>2, <1>3 DEF Consistent
<1> QED
  BY <1>2, <1>4 DEF row

-----------------------------------------------------------------------------
(* AuditChain: the inductive invariant.                                    *)

\* Whoever appends or repairs holds the lock, ...
LockIsHeld ==
    \A p \in Processes : pc[p] \in {"read", "insert", "repair"} => lock = p

\* ... so that what it has read is still what the table says.
ReadsAreFresh ==
    \A p \in Processes : pc[p] \in {"insert", "repair"} => held[p] = log

\* Only the API redacts and only the script repairs.
PlacesAreOwn ==
    \A p \in Processes :
        /\ pc[p] \in {"redacted", "rechained"} => p = "api"
        /\ pc[p] = "repair" => p = "gate"

\* These rows, the first of the log, have the data of the log, redacted or not.
KeepsData(rows, longer) ==
    /\ Len(rows) <= Len(longer)
    /\ \A i \in 1..Len(rows) :
          \/ rows[i].data = longer[i].data
          \/ longer[i].data = "personal" /\ rows[i].data = "redacted"

\* The rows a retention pass works on are the first of the log, and once they
\* are rechained they are consistent by themselves.
PassIsSound ==
    /\ pc["api"] \in {"redacted", "rechained"} => KeepsData(held["api"], log)
    /\ pc["api"] = "rechained" => Consistent(held["api"])

ChainInv ==
    /\ TypeOK
    /\ LockIsHeld
    /\ ReadsAreFresh
    /\ PlacesAreOwn
    /\ PassIsSound
    /\ GreenUnlessRaced

LEMMA ProcessNames ==
    /\ "api" \in Processes /\ "gate" \in Processes /\ "none" \notin Processes
BY AuditChainAssumption DEF Processes

LEMMA InitChainInv == Init => ChainInv
<1> SUFFICES ASSUME Init PROVE ChainInv
  OBVIOUS
<1>1. TypeOK
  <2>1. <<>> \in Seq(RowType)
    BY EmptySeq
  <2>2. crashes \in 0..MaxCrashes
    BY AuditChainAssumption DEF Init
  <2>3. held \in [Processes -> Seq(RowType)] /\ log \in Seq(RowType)
    BY <2>1 DEF Init
  <2> QED
    BY <2>2, <2>3 DEF Init, TypeOK
<1>2. LockIsHeld /\ ReadsAreFresh /\ PlacesAreOwn /\ PassIsSound
  BY ProcessNames DEF Init, LockIsHeld, ReadsAreFresh, PlacesAreOwn, PassIsSound
<1>3. GreenUnlessRaced
  BY DEF Init, GreenUnlessRaced, Consistent
<1> QED
  BY <1>1, <1>2, <1>3 DEF ChainInv

-----------------------------------------------------------------------------
(* AuditChain: one lemma per action.                                       *)

LEMMA BeginKeeps ==
    ASSUME ChainInv, NEW p \in Processes, NEW from \in {"idle", "event"}, Begin(p, from)
    PROVE  ChainInv'
<1>1. TypeOK'
  BY ProcessNames DEF ChainInv, TypeOK, Begin, Acquire, Goto
<1>2. LockIsHeld' /\ ReadsAreFresh' /\ PlacesAreOwn'
  BY ProcessNames DEF ChainInv, TypeOK, LockIsHeld, ReadsAreFresh, PlacesAreOwn, Begin,
     Acquire, Goto
<1>3. PassIsSound' /\ GreenUnlessRaced'
  BY ProcessNames DEF ChainInv, TypeOK, PassIsSound, GreenUnlessRaced, KeepsData,
     Consistent, Begin, Acquire, Goto
<1> QED
  BY <1>1, <1>2, <1>3 DEF ChainInv

LEMMA ReadTailKeeps ==
    ASSUME ChainInv, NEW p \in Processes, ReadTail(p)
    PROVE  ChainInv'
<1>1. TypeOK'
  BY ProcessNames DEF ChainInv, TypeOK, ReadTail, Goto
<1>2. LockIsHeld' /\ ReadsAreFresh' /\ PlacesAreOwn'
  BY ProcessNames DEF ChainInv, TypeOK, LockIsHeld, ReadsAreFresh, PlacesAreOwn, ReadTail,
     Goto
<1>3. PassIsSound' /\ GreenUnlessRaced'
  BY ProcessNames DEF ChainInv, TypeOK, PassIsSound, GreenUnlessRaced, KeepsData,
     Consistent, ReadTail, Goto
<1> QED
  BY <1>1, <1>2, <1>3 DEF ChainInv

\* The appended row points at the tail, because the rows read under the lock
\* are still the rows of the table.
LEMMA InsertKeeps ==
    ASSUME ChainInv, NEW p \in Processes, NEW data \in Data, Insert(p, data)
    PROVE  ChainInv'
<1>1. /\ lock = p /\ held[p] = log
      /\ log' = Append(log, Row(data, TailHash(log)))
      /\ log \in Seq(RowType)
  BY DEF ChainInv, TypeOK, LockIsHeld, ReadsAreFresh, Insert
<1>2. log' \in Seq(RowType) /\ (Consistent(log) => Consistent(log'))
  BY <1>1, AppendKeepsConsistent
<1>3. TypeOK'
  BY <1>2, ProcessNames DEF ChainInv, TypeOK, Insert, Goto, Release
<1>4. LockIsHeld' /\ ReadsAreFresh' /\ PlacesAreOwn'
  BY <1>1, ProcessNames DEF ChainInv, TypeOK, LockIsHeld, ReadsAreFresh, PlacesAreOwn,
     Insert, Goto, Release
<1>5. /\ Len(log') = Len(log) + 1
      /\ \A i \in 1..Len(log) : log'[i] = log[i]
  BY <1>1, <1>2, AppendProperties DEF RowType
<1>6. PassIsSound'
  <2>1. pc'["api"] \in {"redacted", "rechained"}
        => /\ pc'["api"] = pc["api"] /\ held'["api"] = held["api"]
           /\ held["api"] \in Seq(RowType)
    BY ProcessNames DEF ChainInv, TypeOK, Insert, Goto
  <2>2. ASSUME pc'["api"] \in {"redacted", "rechained"}
        PROVE  KeepsData(held["api"], log')
    <3>1. KeepsData(held["api"], log) /\ Len(held["api"]) \in Nat /\ Len(log) \in Nat
      BY <2>1, <2>2, <1>1, LenProperties DEF ChainInv, PassIsSound
    <3> QED
      BY <3>1, <1>5 DEF KeepsData
  <2> QED
    BY <2>1, <2>2 DEF ChainInv, PassIsSound, KeepsData, Consistent
<1>7. GreenUnlessRaced'
  BY <1>2 DEF ChainInv, GreenUnlessRaced, Insert, Consistent
<1> QED
  BY <1>3, <1>4, <1>6, <1>7 DEF ChainInv

\* The redaction changes the data of rows it has read, and nothing in the log.
LEMMA RetentionSelectKeeps ==
    ASSUME ChainInv, NEW n \in 1..Len(log), RetentionSelect(n)
    PROVE  ChainInv'
<1> DEFINE redacted == [i \in 1..n |-> [log[i] EXCEPT !.data =
                           IF @ = "personal" THEN "redacted" ELSE @]]
<1>1. log \in Seq(RowType) /\ Len(log) \in Nat /\ n \in Nat /\ 1..n \subseteq 1..Len(log)
  BY LenProperties DEF ChainInv, TypeOK
<1>2. \A i \in 1..n : log[i] \in RowType
  BY <1>1, ElementOfSeq
<1>3. \A i \in 1..n : /\ redacted[i] \in RowType
                      /\ redacted[i].data = IF log[i].data = "personal"
                                            THEN "redacted" ELSE log[i].data
  BY <1>2 DEF RowType, Data
<1> HIDE DEF redacted
<1>4. redacted \in Seq(RowType) /\ Len(redacted) = n
  <2>1. redacted \in [1..n -> RowType]
    BY <1>3 DEF redacted
  <2> QED
    BY <2>1, <1>1, SeqDef, LenProperties
<1>5. held' = [held EXCEPT !["api"] = redacted] /\ pc' = [pc EXCEPT !["api"] = "redacted"]
  BY DEF RetentionSelect, Goto, redacted
<1>6. UNCHANGED <<log, lock, raced, crashes>> /\ pc["api"] = "idle"
  BY DEF RetentionSelect
<1>7. TypeOK'
  BY <1>4, <1>5, <1>6, ProcessNames DEF ChainInv, TypeOK
<1>8. LockIsHeld' /\ ReadsAreFresh' /\ PlacesAreOwn'
  BY <1>5, <1>6, ProcessNames DEF ChainInv, TypeOK, LockIsHeld, ReadsAreFresh, PlacesAreOwn
<1>9. PassIsSound'
  <2>1. held'["api"] = redacted /\ pc'["api"] = "redacted"
    BY <1>5, ProcessNames DEF ChainInv, TypeOK
  <2> QED
    BY <2>1, <1>1, <1>3, <1>4, <1>6 DEF PassIsSound, KeepsData
<1>10. GreenUnlessRaced'
  BY <1>6 DEF ChainInv, GreenUnlessRaced, Consistent
<1> QED
  BY <1>7, <1>8, <1>9, <1>10 DEF ChainInv

\* The rows read first are followed by the rest of the log, as it now is.
LEMMA RetentionRechainKeeps ==
    ASSUME ChainInv, RetentionRechain
    PROVE  ChainInv'
<1> DEFINE first == held["api"]
           rest == SubSeq(log, Len(first) + 1, Len(log))
           rows == first \o rest
<1>1. /\ log \in Seq(RowType) /\ first \in Seq(RowType)
      /\ Len(log) \in Nat /\ Len(first) \in Nat
      /\ pc["api"] = "redacted" /\ KeepsData(first, log)
  BY LenProperties, ProcessNames DEF ChainInv, TypeOK, PassIsSound, RetentionRechain
<1>2. Len(first) <= Len(log)
  BY <1>1 DEF KeepsData
<1> HIDE DEF first
<1>3. /\ rest \in Seq(RowType)
      /\ Len(rest) = Len(log) - Len(first)
      /\ \A i \in 1..Len(rest) : rest[i] = log[Len(first) + i]
  BY <1>1, <1>2, SubSeqProperties
<1> HIDE DEF rest
<1>4. /\ rows \in Seq(RowType) /\ Len(rows) = Len(log)
      /\ \A i \in 1..Len(rows) : rows[i] = IF i <= Len(first) THEN first[i] ELSE log[i]
  <2>1. /\ rows \in Seq(RowType) /\ Len(rows) = Len(first) + Len(rest)
        /\ \A i \in 1..(Len(first) + Len(rest)) :
              rows[i] = IF i <= Len(first) THEN first[i] ELSE rest[i - Len(first)]
    BY <1>1, <1>3, ConcatProperties
  <2>2. Len(rows) = Len(log)
    BY <2>1, <1>1, <1>3
  <2>3. ASSUME NEW i \in 1..Len(log), ~(i <= Len(first))
        PROVE  rest[i - Len(first)] = log[i]
    <3>1. i - Len(first) \in 1..Len(rest) /\ Len(first) + (i - Len(first)) = i
      BY <1>1, <1>2, <1>3, <2>3
    <3> QED
      BY <3>1, <1>3
  <2> QED
    BY <2>1, <2>2, <2>3, <1>1, <1>3
<1> HIDE DEF rows
<1>5. KeepsData(rows, log)
  BY <1>1, <1>4 DEF KeepsData
<1>6. /\ Rechained(rows) \in Seq(RowType) /\ Consistent(Rechained(rows))
      /\ KeepsData(Rechained(rows), log)
  BY <1>4, <1>5, RechainedIsConsistent DEF KeepsData
<1>7. /\ held' = [held EXCEPT !["api"] = Rechained(rows)]
      /\ pc' = [pc EXCEPT !["api"] = "rechained"]
      /\ UNCHANGED <<log, lock, raced, crashes>>
  BY ProcessNames DEF ChainInv, TypeOK, RetentionRechain, Goto, rows, rest, first
<1>8. TypeOK'
  BY <1>6, <1>7, ProcessNames DEF ChainInv, TypeOK
<1>9. LockIsHeld' /\ ReadsAreFresh' /\ PlacesAreOwn'
  BY <1>7, ProcessNames DEF ChainInv, TypeOK, LockIsHeld, ReadsAreFresh, PlacesAreOwn
<1>10. PassIsSound'
  <2>1. held'["api"] = Rechained(rows) /\ log' = log
    BY <1>7, ProcessNames DEF ChainInv, TypeOK
  <2> QED
    BY <2>1, <1>6 DEF PassIsSound
<1>11. GreenUnlessRaced'
  BY <1>7 DEF ChainInv, GreenUnlessRaced, Consistent
<1> QED
  BY <1>8, <1>9, <1>10, <1>11 DEF ChainInv

\* What the commit writes: the rows of the pass, and the rows appended since.
LEMMA RetentionWrites ==
    ASSUME ChainInv, RetentionCommit
    PROVE  /\ log' \in Seq(RowType)
           /\ Len(log') = Len(log)
           /\ \A i \in 1..Len(log) :
                 log'[i].data \in {log[i].data, "redacted"}
                 /\ (log'[i].data # log[i].data => log[i].data = "personal")
           /\ ~raced' => Consistent(log')
<1> DEFINE first == held["api"]
           rest == SubSeq(log, Len(first) + 1, Len(log))
<1>1. /\ log \in Seq(RowType) /\ first \in Seq(RowType)
      /\ Len(log) \in Nat /\ Len(first) \in Nat
      /\ KeepsData(first, log) /\ Consistent(first)
  BY LenProperties, ProcessNames DEF ChainInv, TypeOK, PassIsSound, RetentionCommit
<1>2. Len(first) <= Len(log)
  BY <1>1 DEF KeepsData
<1>3. log' = first \o rest /\ raced' = (Len(first) < Len(log))
  BY DEF RetentionCommit
<1> HIDE DEF first
<1>4. /\ rest \in Seq(RowType)
      /\ Len(rest) = Len(log) - Len(first)
      /\ \A i \in 1..Len(rest) : rest[i] = log[Len(first) + i]
  BY <1>1, <1>2, SubSeqProperties
<1> HIDE DEF rest
<1>5. /\ log' \in Seq(RowType) /\ Len(log') = Len(log)
      /\ \A i \in 1..Len(log) : log'[i] = IF i <= Len(first) THEN first[i] ELSE log[i]
  BY <1>1, <1>2, <1>3, <1>4, ConcatProperties
<1>6. ASSUME NEW i \in 1..Len(log)
      PROVE  log'[i].data \in {log[i].data, "redacted"}
             /\ (log'[i].data # log[i].data => log[i].data = "personal")
  BY <1>1, <1>5 DEF KeepsData
<1>7. ASSUME ~raced' PROVE Consistent(log')
  <2>1. ~(Len(first) < Len(log))
    BY <1>3, <1>7, Zenon
  <2>2. Len(first) = Len(log)
    BY <2>1, <1>1, <1>2
  <2>3. log' = first
    BY <2>2, <1>1, <1>5, SeqEqual
  <2> QED
    BY <2>3, <1>1
<1> QED
  BY <1>5, <1>6, <1>7

LEMMA RetentionCommitKeeps ==
    ASSUME ChainInv, RetentionCommit
    PROVE  ChainInv'
<1>1. log' \in Seq(RowType) /\ (~raced' => Consistent(log'))
  BY RetentionWrites
<1>2. /\ lock \in {"api", "none"} /\ pc["api"] = "rechained"
      /\ held' = [held EXCEPT !["api"] = <<>>]
      /\ pc' = [pc EXCEPT !["api"] = "event"]
      /\ UNCHANGED <<lock, crashes>> /\ raced' \in BOOLEAN
  BY DEF RetentionCommit, CanCommit, Goto
<1>3. <<>> \in Seq(RowType)
  BY EmptySeq
<1>4. TypeOK'
  BY <1>1, <1>2, <1>3, ProcessNames DEF ChainInv, TypeOK
<1>5. LockIsHeld' /\ ReadsAreFresh' /\ PlacesAreOwn' /\ PassIsSound'
  BY <1>2, ProcessNames DEF ChainInv, TypeOK, LockIsHeld, ReadsAreFresh, PlacesAreOwn,
     PassIsSound
<1>6. GreenUnlessRaced'
  BY <1>1 DEF GreenUnlessRaced, Consistent
<1> QED
  BY <1>4, <1>5, <1>6 DEF ChainInv

LEMMA RepairBeginKeeps ==
    ASSUME ChainInv, RepairBegin
    PROVE  ChainInv'
<1>1. TypeOK'
  BY ProcessNames DEF ChainInv, TypeOK, RepairBegin, Acquire, Goto
<1>2. LockIsHeld' /\ ReadsAreFresh' /\ PlacesAreOwn'
  BY ProcessNames DEF ChainInv, TypeOK, LockIsHeld, ReadsAreFresh, PlacesAreOwn,
     RepairBegin, Acquire, Goto
<1>3. PassIsSound' /\ GreenUnlessRaced'
  BY ProcessNames DEF ChainInv, TypeOK, PassIsSound, GreenUnlessRaced, KeepsData,
     Consistent, RepairBegin, Acquire, Goto
<1> QED
  BY <1>1, <1>2, <1>3 DEF ChainInv

\* What a repair writes: the chain of the rows that are there.
LEMMA RepairWrites ==
    ASSUME ChainInv, RepairCommit
    PROVE  /\ lock = "gate"
           /\ log' = Rechained(log)
           /\ log' \in Seq(RowType) /\ Len(log') = Len(log)
           /\ \A i \in 1..Len(log) : log'[i].data = log[i].data
           /\ Consistent(log')
<1>1. lock = "gate" /\ held["gate"] = log /\ log \in Seq(RowType)
  BY ProcessNames DEF ChainInv, TypeOK, LockIsHeld, ReadsAreFresh, RepairCommit
<1>2. Rechained(log) \in Seq(RowType)
  BY <1>1, RechainedIsConsistent
<1>3. Len(log) \in Nat
  BY <1>1, LenProperties
<1>4. SubSeq(log, Len(log) + 1, Len(log)) = <<>>
  BY <1>1, <1>3, SubSeqEmpty
<1>5. log' = Rechained(log)
  BY <1>1, <1>2, <1>4, ConcatEmptySeq DEF RepairCommit
<1> QED
  BY <1>1, <1>5, RechainedIsConsistent

LEMMA RepairCommitKeeps ==
    ASSUME ChainInv, RepairCommit
    PROVE  ChainInv'
<1>1. lock = "gate" /\ log' \in Seq(RowType) /\ Consistent(log')
  BY RepairWrites
<1>2. Len(log') = Len(log) /\ \A i \in 1..Len(log) : log'[i].data = log[i].data
  BY RepairWrites
<1>3. PICK next \in {"idle", "event"} : pc' = [pc EXCEPT !["gate"] = next]
  BY DEF RepairCommit, Goto
<1>4. /\ held' = [held EXCEPT !["gate"] = <<>>] /\ lock' = "none"
      /\ raced' = FALSE /\ crashes' = crashes
  BY DEF RepairCommit, Release
<1>5. <<>> \in Seq(RowType)
  BY EmptySeq
<1>6. TypeOK'
  BY <1>1, <1>3, <1>4, <1>5, ProcessNames DEF ChainInv, TypeOK
<1>7. LockIsHeld' /\ ReadsAreFresh' /\ PlacesAreOwn'
  BY <1>1, <1>3, <1>4, ProcessNames DEF ChainInv, TypeOK, LockIsHeld, ReadsAreFresh,
     PlacesAreOwn
<1>8. PassIsSound'
  <2>1. pc'["api"] = pc["api"] /\ held'["api"] = held["api"]
    BY <1>3, <1>4, ProcessNames DEF ChainInv, TypeOK
  <2>2. ASSUME pc["api"] \in {"redacted", "rechained"}
        PROVE  KeepsData(held["api"], log')
    <3>1. KeepsData(held["api"], log)
      BY <2>2 DEF ChainInv, PassIsSound
    <3>2. Len(held["api"]) \in Nat /\ Len(log) \in Nat
      BY ProcessNames, LenProperties DEF ChainInv, TypeOK
    <3> QED
      BY <3>1, <3>2, <1>2 DEF KeepsData
  <2> QED
    BY <2>1, <2>2 DEF ChainInv, PassIsSound, KeepsData, Consistent
<1>9. GreenUnlessRaced'
  BY <1>1 DEF GreenUnlessRaced, Consistent
<1> QED
  BY <1>6, <1>7, <1>8, <1>9 DEF ChainInv

LEMMA FactoryResetKeeps ==
    ASSUME ChainInv, FactoryReset
    PROVE  ChainInv'
<1>1. <<>> \in Seq(RowType)
  BY EmptySeq
<1>2. TypeOK'
  BY <1>1, ProcessNames DEF ChainInv, TypeOK, FactoryReset, Goto
<1>3. LockIsHeld' /\ ReadsAreFresh' /\ PlacesAreOwn' /\ PassIsSound'
  BY ProcessNames DEF ChainInv, TypeOK, LockIsHeld, ReadsAreFresh, PlacesAreOwn, PassIsSound,
     FactoryReset, CanCommit, Goto
<1>4. GreenUnlessRaced'
  BY DEF GreenUnlessRaced, Consistent, FactoryReset
<1> QED
  BY <1>2, <1>3, <1>4 DEF ChainInv

LEMMA ChainCrashKeeps ==
    ASSUME ChainInv, NEW p \in Processes, Crash(p)
    PROVE  ChainInv'
<1>1. <<>> \in Seq(RowType)
  BY EmptySeq
<1>2. crashes' \in 0..MaxCrashes
  BY AuditChainAssumption DEF ChainInv, TypeOK, Crash
<1>3. TypeOK'
  BY <1>1, <1>2, ProcessNames DEF ChainInv, TypeOK, Crash, Holds, Goto
<1>4. LockIsHeld' /\ ReadsAreFresh' /\ PlacesAreOwn'
  BY ProcessNames DEF ChainInv, TypeOK, LockIsHeld, ReadsAreFresh, PlacesAreOwn, Crash,
     Holds, Goto
<1>5. PassIsSound' /\ GreenUnlessRaced'
  BY ProcessNames DEF ChainInv, TypeOK, PassIsSound, GreenUnlessRaced, KeepsData, Consistent,
     Crash, Goto
<1> QED
  BY <1>3, <1>4, <1>5 DEF ChainInv

LEMMA ChainStep == ChainInv /\ [Next]_vars => ChainInv'
<1> SUFFICES ASSUME ChainInv, [Next]_vars PROVE ChainInv'
  OBVIOUS
<1>1. ASSUME NEW n \in 1..Len(log), RetentionSelect(n) PROVE ChainInv'
  BY <1>1, RetentionSelectKeeps
<1>2. CASE RetentionRechain
  BY <1>2, RetentionRechainKeeps
<1>3. CASE RetentionCommit
  BY <1>3, RetentionCommitKeeps
<1>4. CASE RepairBegin
  BY <1>4, RepairBeginKeeps
<1>5. CASE RepairCommit
  BY <1>5, RepairCommitKeeps
<1>6. CASE FactoryReset
  BY <1>6, FactoryResetKeeps
<1>7. ASSUME NEW p \in Processes,
             Begin(p, "idle") \/ Begin(p, "event") \/ ReadTail(p) \/ Crash(p)
      PROVE  ChainInv'
  BY <1>7, BeginKeeps, ReadTailKeeps, ChainCrashKeeps
<1>8. ASSUME NEW p \in Processes, NEW data \in Data \ {"redacted"}, Insert(p, data)
      PROVE  ChainInv'
  BY <1>8, InsertKeeps
<1>9. CASE UNCHANGED vars
  BY <1>9 DEF vars, ChainInv, TypeOK, LockIsHeld, ReadsAreFresh, PlacesAreOwn, PassIsSound,
     KeepsData, GreenUnlessRaced, Consistent
<1> QED
  BY <1>1, <1>2, <1>3, <1>4, <1>5, <1>6, <1>7, <1>8, <1>9 DEF Next

-----------------------------------------------------------------------------
(* AuditChain: the theorems.                                               *)

LEMMA ChainInvAlways == Spec => []ChainInv
BY InitChainInv, ChainStep, PTL DEF Spec

\* The chain verifies whatever the processes do, unless a row was appended under
\* the last retention pass (log_event, _audit_event, _rechain, repair_chain).
THEOREM ChainIsGreen == Spec => [](TypeOK /\ GreenUnlessRaced)
<1>1. ChainInv => TypeOK /\ GreenUnlessRaced
  BY DEF ChainInv
<1> QED
  BY <1>1, ChainInvAlways, PTL

\* No step but a factory reset drops a row or changes more of it than personal
\* data, which a retention pass redacts.
THEOREM EventsAreKeptAlways == Spec => EventsAreKept
<1> DEFINE Keeps ==
        \/ pc'["api"] = "event" /\ log' = <<>>
        \/ /\ Len(log) <= Len(log')
           /\ \A i \in 1..Len(log) :
                 \/ log'[i].data = log[i].data
                 \/ log[i].data = "personal" /\ log'[i].data = "redacted"
<1>1. ASSUME ChainInv, [Next]_vars PROVE Keeps \/ UNCHANGED vars
  <2>1. log \in Seq(RowType) /\ Len(log) \in Nat
    BY <1>1, LenProperties DEF ChainInv, TypeOK
  <2>2. CASE UNCHANGED log
    BY <2>1, <2>2
  <2>3. CASE RetentionCommit
    BY <1>1, <2>1, <2>3, RetentionWrites
  <2>4. CASE RepairCommit
    BY <1>1, <2>1, <2>4, RepairWrites
  <2>5. CASE FactoryReset
    BY <1>1, <2>5, ProcessNames DEF FactoryReset, Goto, ChainInv, TypeOK
  <2>6. ASSUME NEW p \in Processes, NEW data \in Data, Insert(p, data) PROVE Keeps
    <3>1. held[p] = log
      BY <1>1, <2>6 DEF ChainInv, ReadsAreFresh, Insert
    <3>2. log' = Append(log, Row(data, TailHash(log)))
      BY <2>6, <3>1 DEF Insert
    <3>3. Row(data, TailHash(log)) \in RowType
      BY <2>1, TailHashIsTyped, RowIsTyped
    <3>4. Len(log') = Len(log) + 1 /\ \A i \in 1..Len(log) : log'[i] = log[i]
      BY <2>1, <3>2, <3>3, AppendProperties
    <3> QED
      BY <2>1, <3>4
  <2> QED
    BY <1>1, <2>2, <2>3, <2>4, <2>5, <2>6
       DEF Next, vars, Begin, ReadTail, Crash, RetentionSelect, RetentionRechain, RepairBegin
<1>2. ChainInv /\ [Next]_vars => [Keeps]_vars
  BY <1>1
<1> QED
  BY <1>2, ChainInvAlways, PTL DEF Spec, EventsAreKept

\* repair_chain leaves a chain that verifies.
THEOREM RepairHealsAlways == Spec => RepairHeals
<1> DEFINE Heals == pc["gate"] = "repair" /\ pc'["gate"] # "repair" /\ crashes' = crashes
                    => Consistent(log')
<1>1. ASSUME ChainInv, [Next]_vars, pc["gate"] = "repair", pc'["gate"] # "repair",
             crashes' = crashes
      PROVE  Consistent(log')
  <2>1. CASE RepairCommit
    BY <1>1, <2>1, RepairWrites
  <2>2. ASSUME NEW p \in Processes, Crash(p) PROVE FALSE
    BY <1>1, <2>2, AuditChainAssumption DEF Crash, ChainInv, TypeOK
  <2>3. ASSUME ~RepairCommit PROVE \E p \in Processes : Crash(p)
    BY <1>1, <2>3, ProcessNames
       DEF Next, vars, Begin, ReadTail, Insert, RetentionSelect, RetentionRechain,
           RetentionCommit, RepairBegin, FactoryReset, Goto, ChainInv, TypeOK
  <2> QED
    BY <2>1, <2>2, <2>3
<1>2. ChainInv /\ [Next]_vars => [Heals]_vars
  BY <1>1
<1> QED
  BY <1>2, ChainInvAlways, PTL DEF Spec, RepairHeals

-----------------------------------------------------------------------------
(* Scheduler: one Windows run in a period.                                 *)

\* The counts and the clock have their types.
TimedTypes ==
    /\ period \in 0..MaxPeriod
    /\ mark \in Int
    /\ jobs \in [0..MaxPeriod -> Nat]

\* The mark of the last run is not ahead of the clock, nor is any job.
MarkIsPast ==
    /\ mark <= period
    /\ \A p \in 0..MaxPeriod : p > period => jobs[p] = 0

\* A period with a job whose mark was not lost is behind the mark: queueing
\* another one needs a mark that is not the period's.
JobsAreMarked ==
    \A p \in 0..MaxPeriod : p \notin spoiled => jobs[p] <= 1 /\ (jobs[p] = 1 => p <= mark)

TimedInv == TimedTypes /\ MarkIsPast /\ JobsAreMarked

LEMMA TimedInit == Timed!Init => TimedInv
BY ApplianceAssumption
   DEF Timed!Init, Timed!Periods, Timed!None, TimedInv, TimedTypes, MarkIsPast, JobsAreMarked

\* A job is written: with its mark, or in a period whose mark is then lost.
LEMMA JobIsWritten ==
    ASSUME TimedInv,
           mark # period,
           jobs' = [jobs EXCEPT ![period] = @ + 1],
           period' = period,
           \/ mark' = period /\ spoiled' = spoiled
           \/ mark' = mark /\ spoiled' = spoiled \cup {period}
    PROVE  TimedInv'
<1>1. period \in 0..MaxPeriod /\ mark \in Int /\ jobs \in [0..MaxPeriod -> Nat] /\ mark <= period
  BY DEF TimedInv, TimedTypes, MarkIsPast
<1>2. mark' \in Int /\ mark' <= period /\ mark <= mark'
  BY <1>1
<1>3. jobs' \in [0..MaxPeriod -> Nat] /\ jobs'[period] = jobs[period] + 1
  BY <1>1
<1>4. ASSUME NEW p \in 0..MaxPeriod
      PROVE  /\ p > period' => jobs'[p] = 0
             /\ p \notin spoiled' => jobs'[p] <= 1 /\ (jobs'[p] = 1 => p <= mark')
  <2>1. /\ p > period => jobs[p] = 0
        /\ p \notin spoiled => jobs[p] <= 1 /\ (jobs[p] = 1 => p <= mark)
    BY DEF TimedInv, MarkIsPast, JobsAreMarked
  <2>2. CASE p # period
    <3>1. jobs'[p] = jobs[p] /\ jobs[p] \in Nat
      BY <2>2, <1>1
    <3>2. p \notin spoiled' => p \notin spoiled
      OBVIOUS
    <3> QED
      BY <3>1, <3>2, <2>1, <1>1, <1>2
  <2>3. CASE p = period
    <3>1. p \notin spoiled' => mark' = period /\ p \notin spoiled
      BY <2>3
    <3>2. p \notin spoiled => jobs[p] = 0
      BY <2>1, <2>3, <1>1
    <3> QED
      BY <3>1, <3>2, <2>3, <1>1, <1>3
  <2> QED
    BY <2>2, <2>3
<1> QED
  BY <1>1, <1>2, <1>3, <1>4 DEF TimedInv, TimedTypes, MarkIsPast, JobsAreMarked

LEMMA TimedStep == TimedInv /\ [Timed!Next]_(Timed!vars) => TimedInv'
<1> SUFFICES ASSUME TimedInv, [Timed!Next]_(Timed!vars) PROVE TimedInv'
  OBVIOUS
<1>1. CASE UNCHANGED <<period, mark, jobs, spoiled>>
  BY <1>1 DEF TimedInv, TimedTypes, MarkIsPast, JobsAreMarked
<1>2. CASE Timed!QueueWindows
  BY <1>1, <1>2, JobIsWritten DEF Timed!QueueWindows, Timed!clock
<1>3. CASE Timed!DiesUnmarked
  BY <1>3, JobIsWritten DEF Timed!DiesUnmarked, Timed!clock
<1>4. CASE Timed!Time
  <2>1. UNCHANGED <<mark, jobs, spoiled>>
    BY <1>4 DEF Timed!Time, Timed!windows
  <2>2. /\ period \in 0..MaxPeriod /\ mark \in Int /\ mark <= period
        /\ \A p \in 0..MaxPeriod : p > period => jobs[p] = 0
    BY DEF TimedInv, TimedTypes, MarkIsPast
  <2>3. period' \in 0..MaxPeriod /\ period <= period'
    BY <1>4, <2>2, ApplianceAssumption DEF Timed!Time
  <2>4. mark <= period' /\ \A p \in 0..MaxPeriod : p > period' => jobs[p] = 0
    BY <2>2, <2>3
  <2> QED
    BY <2>1, <2>3, <2>4 DEF TimedInv, TimedTypes, MarkIsPast, JobsAreMarked
<1>5. CASE Timed!Start \/ Timed!Dies \/ Timed!Login \/ Timed!QueueScan
  BY <1>1, <1>5 DEF Timed!Start, Timed!Dies, Timed!Login, Timed!QueueScan, Timed!clock,
     Timed!windows
<1>6. CASE Timed!Restart
  BY <1>1, <1>6 DEF Timed!Restart, Timed!clock
<1>7. CASE Timed!Verify \/ Timed!Verified \/ Timed!ApiChanges \/ Timed!Cools \/ Timed!GoesOffline
  BY <1>1, <1>7 DEF Timed!Verify, Timed!Verified, Timed!ApiChanges, Timed!Cools,
     Timed!GoesOffline, Timed!clock, Timed!windows
<1>8. CASE UNCHANGED Timed!vars
  BY <1>1, <1>8 DEF Timed!vars, Timed!clock, Timed!windows
<1> QED
  BY <1>2, <1>3, <1>4, <1>5, <1>6, <1>7, <1>8 DEF Timed!Next

LEMMA TimedInvImplies == TimedInv => OncePerPeriod
BY DEF TimedInv, JobsAreMarked, OncePerPeriod, Timed!OncePerPeriod, Timed!Periods
-----------------------------------------------------------------------------
(* SelfUpdate: what an update that fails leaves, and what is mailed.       *)

Whiches == {"update", "report"}

\* The records have their fields, the counters their types.
UpdateTypes ==
    /\ updateFaults \in Nat
    /\ progress \in [stage : {"none", "snapshot", "rollback", "done", "failed"}, at : Nat]
    /\ host = [at |-> host.at, want |-> host.want]
    /\ marker = [which \in Whiches |-> marker[which]]
    /\ mails \in [Whiches -> [Update!Runs -> Nat]]

\* The tree is what the containers run, except from where the tree is
\* replaced to where the containers are built; a restore ends with both.
TreeIsRunning ==
    updateFaults = 0 /\ host.at \notin {"apply", "rebuild", "restore", "rebuild back"}
        => tree = running

\* A service at work has not written how its run ended.
WorkIsOpen == host.at # "idle" => ~Update!Ended

\* A run that has not ended is mailed by no one; of the last one that ended,
\* the marker knows the mail unless a reply was lost.
MailsAreMarked ==
    \A which \in Whiches : \A r \in Update!Runs :
        /\ r > progress.at \/ (r = progress.at /\ ~Update!Ended) => mails[which][r] = 0
        /\ r = progress.at /\ marker[which] # Update!EndKey => mails[which][r] <= updateFaults
        /\ mails[which][r] <= 1 + updateFaults

UpdateInv == UpdateTypes /\ TreeIsRunning /\ WorkIsOpen /\ MailsAreMarked

LEMMA UpdateInit == Update!Init => UpdateInv
BY DEF Update!Init, Update!NoRun, Update!None, Update!NoMemory, Update!Ended, Update!EndKey,
   Whiches, UpdateInv, UpdateTypes, TreeIsRunning, WorkIsOpen, MailsAreMarked

LEMMA UpdateRuns == \A r \in Update!Runs : r \in Int
BY DEF Update!Runs

\* The service that starts a run, works on it or ends it mails nothing.
LEMMA WorkKeepsMails ==
    ASSUME UpdateInv, updateFaults' \in Nat, updateFaults <= updateFaults',
           UNCHANGED <<marker, mails>>,
           \/ progress' = progress
           \/ progress'.at = progress.at /\ ~Update!Ended
           \/ progress'.at = progress.at + 1 /\ ~Update!Ended'
    PROVE  MailsAreMarked'
<1>1. progress.at \in Nat /\ updateFaults \in Nat
  BY DEF UpdateInv, UpdateTypes
<1>2. SUFFICES ASSUME NEW which \in Whiches, NEW r \in Update!Runs
      PROVE  /\ r > progress'.at \/ (r = progress'.at /\ ~Update!Ended') => mails[which][r] = 0
             /\ r = progress'.at /\ marker[which] # Update!EndKey'
                  => mails[which][r] <= updateFaults'
             /\ mails[which][r] <= 1 + updateFaults'
  BY DEF MailsAreMarked
<1>3. /\ r > progress.at \/ (r = progress.at /\ ~Update!Ended) => mails[which][r] = 0
      /\ r = progress.at /\ marker[which] # Update!EndKey => mails[which][r] <= updateFaults
      /\ mails[which][r] <= 1 + updateFaults
  BY DEF UpdateInv, MailsAreMarked
<1>4. mails[which][r] \in Nat /\ r \in Int
  BY UpdateRuns DEF UpdateInv, UpdateTypes
<1>5. CASE progress' = progress
  BY <1>1, <1>3, <1>4, <1>5 DEF Update!Ended, Update!EndKey
<1>6. CASE progress'.at = progress.at /\ ~Update!Ended
  BY <1>1, <1>3, <1>4, <1>6
<1>7. CASE progress'.at = progress.at + 1 /\ ~Update!Ended'
  BY <1>1, <1>3, <1>4, <1>7
<1> QED
  BY <1>5, <1>6, <1>7

\* A mail about the run that ended is sent when the marker does not know it,
\* and afterwards the marker does or a reply was lost.
LEMMA NotifyKeeps ==
    ASSUME UpdateInv, NEW which \in Whiches, Update!Notify(which)
    PROVE  UpdateInv'
<1> DEFINE r0 == progress.at
           more == [mails[which] EXCEPT ![r0] = mails[which][r0] + 1]
<1>1. /\ Update!Ended /\ marker[which] # Update!EndKey
      /\ mails' = [mails EXCEPT ![which] = more]
      /\ UNCHANGED <<tree, running, host, progress>>
      /\ \/ marker' = [marker EXCEPT ![which] = Update!EndKey] /\ updateFaults' = updateFaults
         \/ marker' = marker /\ updateFaults' = updateFaults + 1
  BY DEF Update!Notify, Update!TransientNew, Update!api, Update!disk
<1>2. /\ updateFaults \in Nat /\ r0 \in Nat
      /\ marker = [w \in Whiches |-> marker[w]]
      /\ mails \in [Whiches -> [Update!Runs -> Nat]]
  BY DEF UpdateInv, UpdateTypes
<1>3. mails[which] \in [Update!Runs -> Nat]
  BY <1>2
<1>4. more \in [Update!Runs -> Nat]
  <2>1. CASE r0 \in Update!Runs
    BY <2>1, <1>3
  <2>2. CASE r0 \notin Update!Runs
    BY <2>2, <1>3
  <2> QED
    BY <2>1, <2>2
<1>5. \A r \in Update!Runs : more[r] = IF r = r0 THEN mails[which][r] + 1 ELSE mails[which][r]
  BY <1>3
<1> HIDE DEF more
<1>6. mails' \in [Whiches -> [Update!Runs -> Nat]] /\ mails'[which] = more
  BY <1>1, <1>2, <1>4
<1>7. updateFaults' \in Nat /\ updateFaults <= updateFaults' /\ updateFaults' <= updateFaults + 1
  BY <1>1, <1>2
<1>8. marker' = [w \in Whiches |-> marker'[w]]
  BY <1>1, <1>2
<1>9. UpdateTypes'
  BY <1>1, <1>6, <1>7, <1>8 DEF UpdateInv, UpdateTypes
<1>10. TreeIsRunning' /\ WorkIsOpen'
  <2>1. updateFaults' = 0 => updateFaults = 0
    BY <1>7, <1>2
  <2> QED
    BY <2>1, <1>1 DEF UpdateInv, TreeIsRunning, WorkIsOpen, Update!Ended
<1>11. Update!Ended' /\ Update!EndKey' = Update!EndKey /\ progress'.at = r0
  BY <1>1 DEF Update!Ended, Update!EndKey
<1>12. ASSUME NEW w \in Whiches, NEW r \in Update!Runs
       PROVE  /\ r > r0 => mails'[w][r] = 0
              /\ r = r0 /\ marker'[w] # Update!EndKey => mails'[w][r] <= updateFaults'
              /\ mails'[w][r] <= 1 + updateFaults'
  <2>1. /\ r > r0 => mails[w][r] = 0
        /\ r = r0 /\ marker[w] # Update!EndKey => mails[w][r] <= updateFaults
        /\ mails[w][r] <= 1 + updateFaults
    BY DEF UpdateInv, MailsAreMarked
  <2>2. mails[w][r] \in Nat /\ r \in Int
    BY <1>2, UpdateRuns
  <2>3. CASE w # which
    <3>1. mails'[w] = mails[w] /\ marker'[w] = marker[w]
      BY <2>3, <1>1, <1>2
    <3> QED
      BY <3>1, <2>1, <2>2, <1>2, <1>7
  <2>4. CASE w = which /\ r # r0
    <3>1. mails'[w][r] = mails[w][r]
      BY <2>4, <1>5, <1>6
    <3> QED
      BY <3>1, <2>1, <2>2, <2>4, <1>2, <1>7
  <2>5. CASE w = which /\ r = r0
    <3>1. mails'[w][r] = mails[w][r] + 1 /\ mails[w][r] <= updateFaults
      BY <2>5, <2>1, <1>1, <1>5, <1>6
    <3>2. marker'[w] # Update!EndKey => updateFaults' = updateFaults + 1
      BY <2>5, <1>1, <1>2
    <3> QED
      BY <3>1, <3>2, <2>2, <2>5, <1>2, <1>7
  <2> QED
    BY <2>3, <2>4, <2>5
<1>13. MailsAreMarked'
  BY <1>11, <1>12 DEF MailsAreMarked
<1> QED
  BY <1>9, <1>10, <1>13 DEF UpdateInv

\* A step that leaves the disk, the run and its mails alone; it may lose a reply.
LEMMA ApiKeeps ==
    ASSUME UpdateInv, UNCHANGED <<tree, running, host, progress, marker, mails>>,
           updateFaults' \in {updateFaults, updateFaults + 1}
    PROVE  UpdateInv'
<1>1. /\ updateFaults' \in Nat /\ updateFaults <= updateFaults'
      /\ updateFaults' = 0 => updateFaults = 0
  BY DEF UpdateInv, UpdateTypes
<1>2. MailsAreMarked'
  BY <1>1, WorkKeepsMails
<1> QED
  BY <1>1, <1>2 DEF UpdateInv, UpdateTypes, TreeIsRunning, WorkIsOpen, Update!Ended

\* Every step of the host service.
LEMMA HostKeeps ==
    ASSUME UpdateInv, Update!Host
    PROVE  UpdateInv'
<1>1. /\ updateFaults \in Nat
      /\ progress \in [stage : {"none", "snapshot", "rollback", "done", "failed"}, at : Nat]
      /\ host = [at |-> host.at, want |-> host.want]
  BY DEF UpdateInv, UpdateTypes
<1>2. UNCHANGED <<marker, mails>>
  BY DEF Update!Host, Update!Start, Update!Download, Update!Backup, Update!Extract,
     Update!Apply, Update!Rebuild, Update!Health, Update!Verify, Update!Restore,
     Update!Rollback, Update!RebuildBack, Update!Unwatched, Update!watch
<1>3. updateFaults' \in {updateFaults, updateFaults + 1}
  BY DEF Update!Host, Update!Start, Update!Download, Update!Backup, Update!Extract,
     Update!Apply, Update!Rebuild, Update!Health, Update!Verify, Update!Restore,
     Update!Rollback, Update!RebuildBack, Update!Rebuilt
<1>4. /\ updateFaults' \in Nat /\ updateFaults <= updateFaults'
      /\ updateFaults' = 0 => updateFaults = 0
  BY <1>1, <1>3
<1>5. /\ host' = [at |-> host'.at, want |-> host'.want]
      /\ progress' \in [stage : {"none", "snapshot", "rollback", "done", "failed"}, at : Nat]
      /\ \/ progress' = progress /\ host.at # "idle" 
         \/ progress' = progress /\ host'.at = "idle" 
         \/ progress'.at = progress.at /\ host.at # "idle" /\ host'.at = "idle"
         \/ progress'.at = progress.at + 1 /\ progress'.stage \in {"snapshot", "rollback"}
  <2>1. CASE Update!Start
    BY <2>1, <1>1 DEF Update!Start
  <2>2. CASE Update!Download \/ Update!Extract \/ Update!Verify \/ Update!Restore
    BY <2>2, <1>1 DEF Update!Download, Update!Extract, Update!Verify, Update!Restore,
       Update!End, Update!Enter, Update!NoRun, Update!None
  <2>3. CASE Update!Backup \/ Update!Apply \/ Update!Rebuild \/ Update!Health
    BY <2>3, <1>1 DEF Update!Backup, Update!Apply, Update!Rebuild, Update!Health, Update!Enter
  <2>4. CASE Update!Rollback
    <3>1. host.at = "rollback"
      BY <2>4 DEF Update!Rollback
    <3>2. \/ host' = Update!NoRun /\ progress' = [progress EXCEPT !.stage = "failed"]
          \/ host' = [host EXCEPT !.at = "rebuild back"] /\ progress' = progress
      BY <2>4 DEF Update!Rollback, Update!Enter
    <3>3. /\ host' \in {Update!NoRun, [host EXCEPT !.at = "rebuild back"]}
          /\ progress' \in {progress, [progress EXCEPT !.stage = "failed"]}
      BY <3>2
    <3>4. host' = [at |-> host'.at, want |-> host'.want]
      BY <3>3, <1>1 DEF Update!NoRun
    <3>5. /\ progress' \in [stage : {"none", "snapshot", "rollback", "done", "failed"}, at : Nat]
          /\ progress'.at = progress.at
      BY <3>3, <1>1
    <3>6. progress' = progress \/ host'.at = "idle"
      <4>1. Update!NoRun.at = "idle"
        BY DEF Update!NoRun
      <4> QED
        BY <3>2, <4>1
    <3> QED
      BY <3>1, <3>4, <3>5, <3>6
  <2>5. CASE Update!RebuildBack
    <3>1. PICK stage \in {"done", "failed"} : progress' = [progress EXCEPT !.stage = stage]
      BY <2>5 DEF Update!RebuildBack
    <3> QED
      BY <3>1, <2>5, <1>1 DEF Update!RebuildBack, Update!NoRun, Update!None
  <2> QED
    BY <2>1, <2>2, <2>3, <2>4, <2>5 DEF Update!Host
<1>6. UpdateTypes'
  BY <1>2, <1>4, <1>5 DEF UpdateInv, UpdateTypes
<1>7. WorkIsOpen'
  BY <1>5 DEF UpdateInv, WorkIsOpen, Update!Ended
<1>8. MailsAreMarked'
  <2>1. progress'.stage \in {"snapshot", "rollback"} => ~Update!Ended'
    BY DEF Update!Ended
  <2>2. host.at # "idle" => ~Update!Ended
    BY DEF UpdateInv, WorkIsOpen
  <2> QED
    BY <2>1, <2>2, <1>2, <1>4, <1>5, WorkKeepsMails
<1>9. updateFaults' = 0 => updateFaults' # updateFaults + 1
  BY <1>1
<1>10. TreeIsRunning'
  <2> SUFFICES ASSUME updateFaults' = 0,
                      host'.at \notin {"apply", "rebuild", "restore", "rebuild back"}
               PROVE  tree' = running'
    BY DEF TreeIsRunning
  <2>1. host.at \notin {"apply", "rebuild", "restore", "rebuild back"} => tree = running
    BY <1>4 DEF UpdateInv, TreeIsRunning
  <2>2. CASE Update!Start
    BY <2>1, <2>2 DEF Update!Start
  <2>3. CASE Update!Download \/ Update!Extract \/ Update!Verify
    BY <2>1, <2>3, <1>1 DEF Update!Download, Update!Extract, Update!Verify, Update!Enter
  <2>4. CASE Update!Restore \/ Update!RebuildBack
    BY <1>9, <2>4 DEF Update!Restore, Update!RebuildBack, Update!Rebuilt
  <2>5. CASE Update!Backup \/ Update!Health
    BY <2>1, <2>5, <1>1 DEF Update!Backup, Update!Health, Update!Enter
  <2>6. CASE Update!Apply \/ Update!Rebuild
    BY <2>6, <1>1 DEF Update!Apply, Update!Rebuild, Update!Enter
  <2>7. CASE Update!Rollback
    BY <2>1, <2>7, <1>1 DEF Update!Rollback, Update!Enter
  <2> QED
    BY <2>2, <2>3, <2>4, <2>5, <2>6, <2>7 DEF Update!Host
<1> QED
  BY <1>6, <1>7, <1>8, <1>10 DEF UpdateInv

\* Power losses cost a fault; the run they cut is not ended.
LEMMA PowerLossKeeps ==
    ASSUME UpdateInv, Update!PowerLoss
    PROVE  UpdateInv'
<1>1. /\ updateFaults' = updateFaults + 1 /\ updateFaults \in Nat
      /\ UNCHANGED <<tree, running, progress, marker, mails>>
      /\ host' = [at |-> "idle", want |-> 0]
  BY DEF UpdateInv, UpdateTypes, Update!PowerLoss, Update!NoRun, Update!None
<1>2. updateFaults' \in Nat /\ updateFaults <= updateFaults' /\ updateFaults' # 0
  BY <1>1
<1>3. MailsAreMarked'
  BY <1>1, <1>2, WorkKeepsMails
<1> QED
  BY <1>1, <1>2, <1>3 DEF UpdateInv, UpdateTypes, TreeIsRunning, WorkIsOpen

LEMMA UpdateStep == UpdateInv /\ [Update!Next]_(Update!vars) => UpdateInv'
<1> SUFFICES ASSUME UpdateInv, [Update!Next]_(Update!vars) PROVE UpdateInv'
  OBVIOUS
<1> USE DEF Update!disk, Update!watch, Update!api
<1>1. CASE Update!UpdateCheck \/ Update!ByHand \/ Update!UpdateRollback \/ Update!SetSchedule
  BY <1>1, ApiKeeps DEF Update!UpdateCheck, Update!ByHand, Update!UpdateRollback,
     Update!SetSchedule
<1>2. CASE Update!Queue
  BY <1>2, ApiKeeps DEF Update!Queue
<1>3. ASSUME NEW which \in Whiches, Update!Notify(which) \/ Update!Remember(which)
      PROVE  UpdateInv'
  BY <1>3, ApiKeeps, NotifyKeeps DEF Update!Remember
<1>4. CASE Update!RestartScheduler \/ Update!Publish \/ Update!Elapse
  BY <1>4, ApiKeeps DEF Update!RestartScheduler, Update!Publish, Update!Elapse
<1>5. CASE Update!Host \/ Update!PowerLoss
  BY <1>5, HostKeeps, PowerLossKeeps
<1>6. CASE UNCHANGED Update!vars
  BY <1>6, ApiKeeps DEF Update!vars
<1> QED
  BY <1>1, <1>2, <1>3, <1>4, <1>5, <1>6 DEF Update!Next, Update!Scheduler, Whiches

LEMMA UpdateInvImplies == UpdateInv => UpdatesHold
BY DEF UpdateInv, TreeIsRunning, MailsAreMarked, UpdatesHold, Update!FailureRestores,
   Update!NotifiedOnce, Whiches

-----------------------------------------------------------------------------
(* OffsiteBackup: the key, what is displayed of it, and the copies.        *)

Runners == {"cron", "button"}

\* A run has a copy of its own from its encryption on.
HasCopy(p) == job[p].at \in {"upload", "prune"}

\* Copies that no run in progress will remove when it fails.
Loose == {f \in store : \A p \in Runners : HasCopy(p) => f.id # job[p].id}

Copy == [id : Nat, key : Nat]

OffsiteTypes ==
    /\ conf \in Offsite!Confs /\ twoMade \in BOOLEAN /\ dek \in Nat
    /\ store \subseteq Copy /\ remote \subseteq Copy /\ IsFiniteSet(store)
    /\ IsFiniteSet(shown)
    /\ record.ok \in Nat
    /\ job \in [Runners -> [at : {"idle", "key", "make", "encrypt", "upload", "prune"},
                            id : Nat, mode : Offsite!Modes, ok : Nat, key : Nat]]
    /\ save \in [{"admin"} -> [at : {"idle", "open", "make", "show", "write", "reveal"},
                               conf : Offsite!Confs]]
    /\ used \in [runs : Nat, saves : Nat, crashes : Nat, keys : Nat]

\* What a save is about to write keeps the plan, like the file.
PlanIsKept == Offsite!Allowed(conf) /\ Offsite!Allowed(save["admin"].conf)

\* The flag of a key that was displayed is in the file, or in the save that
\* rewrites it; a display under way found no flag.
ShownIsFlagged ==
    LET a == save["admin"] IN
    /\ a.at = "open" => a.conf.shown = conf.shown
    /\ a.at = "write" /\ ~a.conf.shown => Cardinality(shown) <= used.crashes
    /\ a.at \in {"idle", "open"} /\ ~conf.shown => Cardinality(shown) <= used.crashes
    /\ a.at \in {"make", "show", "reveal"}
         => a.conf.shown /\ Cardinality(shown) <= used.crashes
    /\ Cardinality(shown) <= 1 + used.crashes

\* Whoever made the key found none, so that nothing was encrypted with another.
KeyIsOne ==
    ~twoMade =>
        /\ \A f \in store \cup remote \cup shown : f.key = dek /\ dek # 0
        /\ \A p \in Runners : /\ HasCopy(p) => job[p].key = dek
                              /\ HasCopy(p) \/ job[p].at = "encrypt" => dek # 0
                              /\ job[p].at = "make" => dek = 0
        /\ save["admin"].at \in {"show", "reveal"} => dek # 0
        /\ save["admin"].at = "make" => dek = 0

\* A run's number is its own, and no copy has it before the run encrypts.
NumbersAreOwn ==
    /\ \A p \in Runners : job[p].at # "idle" => job[p].id \in 1..used.runs
    /\ \A p, q \in Runners :
          p # q /\ job[p].at # "idle" /\ job[q].at # "idle" => job[p].id # job[q].id
    /\ \A f \in store : f.id <= used.runs
    /\ \A f, g \in store : f.id = g.id => f = g
    /\ \A p \in Runners : job[p].at \in {"key", "make", "encrypt"} =>
          \A f \in store : f.id # job[p].id

\* A success that a record or a run knows of is at the endpoint, ...
There(n, objects) == n # 0 => \E o \in objects : o.id = n

SuccessIsRemote ==
    /\ There(record.ok, remote)
    /\ \A p \in Runners :
          /\ There(job[p].ok, remote)
          /\ job[p].at = "prune" => There(job[p].id, remote)

\* ... and a copy stays that no failure takes away; a run whose own copy is
\* gone knows of one.
CopyStays ==
    /\ record.ok # 0 => Loose # {}
    /\ \A p \in Runners :
          /\ job[p].ok # 0 => Loose # {}
          /\ HasCopy(p) => Offsite!Mine(p) \in store \/ Loose # {}

OffsiteInv ==
    /\ OffsiteTypes
    /\ PlanIsKept
    /\ ShownIsFlagged
    /\ KeyIsOne
    /\ NumbersAreOwn
    /\ SuccessIsRemote
    /\ CopyStays

\* The instance counts as FiniteSets does.
LEMMA OffsiteCounts == \A S : Offsite!Cardinality(S) = Cardinality(S)
BY Zenon DEF Offsite!Cardinality, Cardinality

LEMMA OffsiteInit == Offsite!Init => OffsiteInv
<1> SUFFICES ASSUME Offsite!Init PROVE OffsiteInv
  OBVIOUS
<1> USE DEF Offsite!Init, Offsite!None, Offsite!NoJob, Offsite!NoSave, Offsite!Blank
<1>1. IsFiniteSet({}) /\ Cardinality({}) = 0
  BY FS_EmptySet
<1>2. OffsiteTypes
  BY <1>1 DEF OffsiteTypes, Offsite!Confs, Offsite!Modes, Runners
<1>3. PlanIsKept /\ KeyIsOne
  BY DEF PlanIsKept, Offsite!Allowed, KeyIsOne, HasCopy, Runners
<1>4. ShownIsFlagged
  <2>1. save["admin"].at = "idle" /\ used.crashes = 0 /\ Cardinality(shown) = 0
    BY <1>1
  <2> HIDE DEF Offsite!Init, Offsite!None, Offsite!NoJob, Offsite!NoSave, Offsite!Blank
  <2> QED
    BY <2>1 DEF ShownIsFlagged
<1>5. NumbersAreOwn /\ SuccessIsRemote /\ CopyStays
  BY DEF NumbersAreOwn, SuccessIsRemote, There, CopyStays, HasCopy, Runners
<1> QED
  BY <1>2, <1>3, <1>4, <1>5 DEF OffsiteInv

\* What a step of a run does to the record of the run, and to no other.
LEMMA RunSteps ==
    ASSUME OffsiteTypes, NEW p \in Runners, Offsite!Run(p)
    PROVE  /\ job' = [job EXCEPT ![p] = job'[p]]
           /\ UNCHANGED <<conf, save, shown>>
           /\ job'[p] \in [at : {"idle", "key", "make", "encrypt", "upload", "prune"},
                           id : Nat, mode : Offsite!Modes, ok : Nat, key : Nat]
           /\ used' \in [runs : Nat, saves : Nat, crashes : Nat, keys : Nat]
           /\ used'.crashes = used.crashes
           /\ dek' \in Nat /\ twoMade' \in BOOLEAN
<1>1. /\ job \in [Runners -> [at : {"idle", "key", "make", "encrypt", "upload", "prune"},
                              id : Nat, mode : Offsite!Modes, ok : Nat, key : Nat]]
      /\ used \in [runs : Nat, saves : Nat, crashes : Nat, keys : Nat]
      /\ conf.mode \in Offsite!Modes /\ record.ok \in Nat
      /\ dek \in Nat /\ twoMade \in BOOLEAN
      /\ "off" \in Offsite!Modes
  BY DEF OffsiteTypes, Offsite!Confs, Offsite!Modes
<1>2. Offsite!NoJob \in [at : {"idle", "key", "make", "encrypt", "upload", "prune"},
                         id : Nat, mode : Offsite!Modes, ok : Nat, key : Nat]
  BY <1>1 DEF Offsite!NoJob, Offsite!None
<1>3. CASE Offsite!Start(p)
  <2>1. used.runs \in Nat /\ used' = [used EXCEPT !["runs"] = used.runs + 1]
    BY <1>1, <1>3 DEF Offsite!Start, Offsite!Spend
  <2>2. used' \in [runs : Nat, saves : Nat, crashes : Nat, keys : Nat]
        /\ used'.crashes = used.crashes
    BY <2>1, <1>1
  <2>3. \/ job' = job
        \/ job' = [job EXCEPT ![p] = [at |-> "key", id |-> used.runs + 1, mode |-> conf.mode,
                                      ok |-> record.ok, key |-> 0]]
    BY <1>3 DEF Offsite!Start, Offsite!None
  <2>4. used.runs + 1 \in Nat
    BY <2>1
  <2>5. /\ job' = [job EXCEPT ![p] = job'[p]]
        /\ job'[p] \in [at : {"idle", "key", "make", "encrypt", "upload", "prune"},
                        id : Nat, mode : Offsite!Modes, ok : Nat, key : Nat]
    BY <2>3, <2>4, <1>1
  <2> QED
    BY <2>2, <2>5, <1>1, <1>3 DEF Offsite!Start
<1>4. CASE Offsite!Key(p)
  BY <1>1, <1>4 DEF Offsite!Key
<1>5. CASE Offsite!Make(p)
  <2>1. twoMade' \in BOOLEAN
    BY <1>5 DEF Offsite!Make, Offsite!MakeKey
  <2> QED
    BY <2>1, <1>1, <1>5 DEF Offsite!Make, Offsite!MakeKey
<1>6. CASE Offsite!Encrypt(p)
  BY <1>1, <1>6 DEF Offsite!Encrypt
<1>7. CASE Offsite!Upload(p)
  <2>1. \/ job' = [job EXCEPT ![p].at = "prune"]
        \/ job' = [job EXCEPT ![p] = Offsite!NoJob]
    BY <1>7 DEF Offsite!Upload, Offsite!Fails
  <2> QED
    BY <2>1, <1>1, <1>2, <1>7 DEF Offsite!Upload
<1>8. CASE Offsite!Finish(p)
  BY <1>1, <1>2, <1>8 DEF Offsite!Finish, Offsite!Fails
<1> QED
  BY <1>3, <1>4, <1>5, <1>6, <1>7, <1>8 DEF Offsite!Run

\* The steps of a run keep the types of what it writes.
LEMMA RunKeepsTypes ==
    ASSUME OffsiteTypes, NEW p \in Runners, Offsite!Run(p)
    PROVE  OffsiteTypes'
<1>1. /\ job \in [Runners -> [at : {"idle", "key", "make", "encrypt", "upload", "prune"},
                              id : Nat, mode : Offsite!Modes, ok : Nat, key : Nat]]
      /\ dek \in Nat /\ record.ok \in Nat
      /\ store \subseteq Copy /\ remote \subseteq Copy /\ IsFiniteSet(store)
  BY DEF OffsiteTypes
<1>2. Offsite!Mine(p) \in Copy /\ job[p].ok \in Nat /\ job[p].id \in Nat
  BY <1>1 DEF Offsite!Mine, Copy
<1>3. record'.ok \in Nat
  BY <1>1, <1>2 DEF Offsite!Run, Offsite!Start, Offsite!Key, Offsite!Make, Offsite!Encrypt,
     Offsite!Upload, Offsite!Finish, Offsite!Fails, Offsite!Record
<1>4. remote' \subseteq Copy
  BY <1>1, <1>2 DEF Offsite!Run, Offsite!Start, Offsite!Key, Offsite!Make, Offsite!Encrypt,
     Offsite!Upload, Offsite!Finish
<1>5. store' \subseteq Copy /\ IsFiniteSet(store')
  <2>1. \/ store' \subseteq store
        \/ store' = store \cup {[id |-> job[p].id, key |-> dek]}
    BY DEF Offsite!Run, Offsite!Start, Offsite!Key, Offsite!Make, Offsite!Encrypt,
       Offsite!Upload, Offsite!Finish, Offsite!Fails, Offsite!Pruned
  <2>2. [id |-> job[p].id, key |-> dek] \in Copy
    BY <1>1, <1>2 DEF Copy
  <2> QED
    BY <2>1, <2>2, <1>1, FS_Subset, FS_AddElement
<1>6. job' \in [Runners -> [at : {"idle", "key", "make", "encrypt", "upload", "prune"},
                            id : Nat, mode : Offsite!Modes, ok : Nat, key : Nat]]
  <2>1. /\ job' = [job EXCEPT ![p] = job'[p]]
        /\ job'[p] \in [at : {"idle", "key", "make", "encrypt", "upload", "prune"},
                        id : Nat, mode : Offsite!Modes, ok : Nat, key : Nat]
    BY RunSteps
  <2> DEFINE entry == job'[p]
  <2>2. job' = [job EXCEPT ![p] = entry]
    BY <2>1
  <2> HIDE DEF entry
  <2> QED
    BY <2>1, <2>2, <1>1 DEF entry
<1> QED
  BY <1>3, <1>4, <1>5, <1>6, RunSteps DEF OffsiteTypes

\* The steps of a save keep the types.
LEMMA HandlerKeepsTypes ==
    ASSUME OffsiteTypes, Offsite!Handler("admin")
    PROVE  /\ OffsiteTypes'
           /\ UNCHANGED <<store, remote, record, job>>
           /\ used'.crashes = used.crashes /\ used'.runs = used.runs
<1>1. UNCHANGED <<store, remote, record, job>>
  BY DEF Offsite!Handler, Offsite!UpdateBackups, Offsite!RecoveryKey, Offsite!MakeShown,
     Offsite!Truncate, Offsite!Fill
<1>2. /\ used \in [runs : Nat, saves : Nat, crashes : Nat, keys : Nat]
      /\ save \in [{"admin"} -> [at : {"idle", "open", "make", "show", "write", "reveal"},
                                 conf : Offsite!Confs]]
      /\ conf \in Offsite!Confs /\ dek \in Nat /\ twoMade \in BOOLEAN /\ IsFiniteSet(shown)
  BY DEF OffsiteTypes
<1>3. Offsite!Blank \in Offsite!Confs
  BY DEF Offsite!Blank, Offsite!Confs, Offsite!Modes
<1>4. /\ used' \in [runs : Nat, saves : Nat, crashes : Nat, keys : Nat]
      /\ used'.crashes = used.crashes /\ used'.runs = used.runs
  <2>1. \/ used' = used
        \/ used' = [used EXCEPT !["saves"] = @ + 1]
        \/ used' = [used EXCEPT !.keys = @ + 1]
    BY DEF Offsite!Spend, Offsite!MakeKey, Offsite!Handler, Offsite!UpdateBackups,
       Offsite!RecoveryKey, Offsite!MakeShown, Offsite!Truncate, Offsite!Fill
  <2> QED
    BY <2>1, <1>2
<1>5. dek' \in Nat
  <2>1. dek' = dek \/ dek' = used.keys + 1
    BY DEF Offsite!MakeKey, Offsite!Handler, Offsite!UpdateBackups, Offsite!RecoveryKey,
       Offsite!MakeShown, Offsite!Truncate, Offsite!Fill
  <2> QED
    BY <2>1, <1>2
<1>6. twoMade' \in BOOLEAN
  BY <1>2 DEF Offsite!MakeKey, Offsite!Handler, Offsite!UpdateBackups, Offsite!RecoveryKey,
     Offsite!MakeShown, Offsite!Truncate, Offsite!Fill
<1>7. IsFiniteSet(shown')
  <2>1. shown' = shown \/ \E x : shown' = shown \cup {x}
    BY DEF Offsite!Handler, Offsite!UpdateBackups, Offsite!RecoveryKey,
       Offsite!MakeShown, Offsite!Truncate, Offsite!Fill
  <2> QED
    BY <2>1, <1>2, FS_AddElement
<1>8. conf' \in Offsite!Confs
  BY <1>2, <1>3 DEF Offsite!Handler, Offsite!UpdateBackups, Offsite!RecoveryKey,
     Offsite!MakeShown, Offsite!Truncate, Offsite!Fill
<1>9. save' \in [{"admin"} -> [at : {"idle", "open", "make", "show", "write", "reveal"},
                               conf : Offsite!Confs]]
  <2>1. CASE Offsite!UpdateBackups("admin")
    <3>1. PICK mode \in Offsite!Modes, plan \in BOOLEAN, bucket \in BOOLEAN :
             \/ save' = save
             \/ save' = [save EXCEPT !["admin"] = [at |-> "open",
                   conf |-> [conf EXCEPT !.mode = mode, !.plan = plan, !.bucket = bucket]]]
      BY <2>1 DEF Offsite!UpdateBackups
    <3> DEFINE c == [conf EXCEPT !.mode = mode, !.plan = plan, !.bucket = bucket]
    <3>2. c \in Offsite!Confs
      BY <1>2 DEF Offsite!Confs
    <3>3. save' = save \/ save' = [save EXCEPT !["admin"] = [at |-> "open", conf |-> c]]
      BY <3>1
    <3> HIDE DEF c
    <3> QED
      BY <3>2, <3>3, <1>2
  <2>2. CASE Offsite!RecoveryKey("admin")
    <3>1. [conf EXCEPT !.shown = TRUE] \in Offsite!Confs
      BY <1>2 DEF Offsite!Confs
    <3> QED
      BY <3>1, <2>2, <1>2 DEF Offsite!RecoveryKey
  <2>3. CASE Offsite!MakeShown("admin") \/ Offsite!Truncate("admin")
    BY <2>3, <1>2 DEF Offsite!MakeShown, Offsite!Truncate
  <2>4. CASE Offsite!Fill("admin")
    BY <2>4, <1>2, <1>3 DEF Offsite!Fill, Offsite!NoSave
  <2> QED
    BY <2>1, <2>2, <2>3, <2>4 DEF Offsite!Handler
<1> QED
  BY <1>1, <1>2, <1>4, <1>5, <1>6, <1>7, <1>8, <1>9 DEF OffsiteTypes

\* A save keeps the plan and the flag of the key that was displayed.
LEMMA HandlerKeepsFlags ==
    ASSUME OffsiteTypes, PlanIsKept, ShownIsFlagged, Offsite!Handler("admin")
    PROVE  PlanIsKept' /\ ShownIsFlagged'
<1> DEFINE a == save["admin"]
           n == Cardinality(shown)
           k == used.crashes
<1>1. /\ n \in Nat /\ k \in Nat
      /\ used'.crashes = k
  BY HandlerKeepsTypes, FS_CardinalityType DEF OffsiteTypes
<1>2. /\ save \in [{"admin"} -> [at : {"idle", "open", "make", "show", "write", "reveal"},
                                 conf : Offsite!Confs]]
      /\ conf \in Offsite!Confs
  BY DEF OffsiteTypes
<1>3. ASSUME NEW e, save' = [save EXCEPT !["admin"] = e] PROVE save'["admin"] = e
  BY <1>2, <1>3
<1>4. Offsite!Blank = [mode |-> "off", plan |-> FALSE, bucket |-> FALSE, shown |-> FALSE]
  BY DEF Offsite!Blank
<1>5. CASE Offsite!UpdateBackups("admin")
  <2>1. PICK mode \in Offsite!Modes, plan \in BOOLEAN, bucket \in BOOLEAN :
           LET c == [conf EXCEPT !.mode = mode, !.plan = plan, !.bucket = bucket] IN
           save' = IF Offsite!Allowed(c)
                   THEN [save EXCEPT !["admin"] = [at |-> "open", conf |-> c]] ELSE save
    BY <1>5 DEF Offsite!UpdateBackups
  <2> DEFINE c == [conf EXCEPT !.mode = mode, !.plan = plan, !.bucket = bucket]
  <2>2. c.shown = conf.shown
    BY <1>2 DEF Offsite!Confs
  <2>3. \/ save' = save
        \/ Offsite!Allowed(c) /\ save' = [save EXCEPT !["admin"] = [at |-> "open", conf |-> c]]
    BY <2>1
  <2> HIDE DEF c
  <2>4. a.at = "idle" /\ UNCHANGED <<conf, shown>>
    BY <1>5 DEF Offsite!UpdateBackups
  <2>5. CASE save' = save
    BY <2>4, <2>5, <1>1 DEF PlanIsKept, ShownIsFlagged
  <2>6. CASE save' = [save EXCEPT !["admin"] = [at |-> "open", conf |-> c]]
    <3>1. save'["admin"].at = "open" /\ save'["admin"].conf = c
      BY <2>6, <1>3
    <3>2. Offsite!Allowed(c)
      <4>1. CASE save' = save
        BY <4>1, <3>1, <2>4
      <4> QED
        BY <4>1, <2>3
    <3> QED
      BY <3>1, <3>2, <2>2, <2>4, <1>1 DEF PlanIsKept, ShownIsFlagged
  <2> QED
    BY <2>3, <2>5, <2>6
<1>6. CASE Offsite!RecoveryKey("admin")
  <2> DEFINE c == [conf EXCEPT !.shown = TRUE]
             at0 == IF Offsite!HasKey THEN "show" ELSE "make"
  <2>1. c.shown = TRUE /\ c.mode = conf.mode /\ c.plan = conf.plan
    BY <1>2 DEF Offsite!Confs
  <2>2. /\ a.at = "idle" /\ conf.shown = FALSE /\ UNCHANGED <<conf, shown>>
        /\ save' = [save EXCEPT !["admin"] = [at |-> at0, conf |-> c]]
    BY <1>2, <1>6 DEF Offsite!RecoveryKey, Offsite!Confs
  <2>3. at0 \in {"show", "make"}
    OBVIOUS
  <2> HIDE DEF c, at0
  <2>4. save'["admin"].at = at0 /\ save'["admin"].conf = c
    BY <2>2, <1>3
  <2>5. n <= k
    BY <2>2 DEF ShownIsFlagged
  <2>6. ShownIsFlagged'
    BY <2>1, <2>2, <2>3, <2>4, <2>5, <1>1 DEF ShownIsFlagged
  <2> QED
    BY <2>1, <2>2, <2>4, <2>6 DEF PlanIsKept, Offsite!Allowed
<1>7. CASE Offsite!MakeShown("admin")
  <2>1. /\ a.at = "make" /\ UNCHANGED <<conf, shown>>
        /\ save' = [save EXCEPT !["admin"] = [a EXCEPT !.at = "show"]]
    BY <1>7 DEF Offsite!MakeShown
  <2>2. save'["admin"].at = "show" /\ save'["admin"].conf = a.conf
    BY <2>1, <1>2
  <2> QED
    BY <2>1, <2>2, <1>1 DEF PlanIsKept, ShownIsFlagged
<1>8. CASE Offsite!Truncate("admin")
  <2> DEFINE at0 == IF a.at = "show" THEN "reveal" ELSE "write"
  <2>1. /\ a.at \in {"open", "show"} /\ conf' = Offsite!Blank /\ UNCHANGED shown
        /\ save' = [save EXCEPT !["admin"] = [a EXCEPT !.at = at0]]
    BY <1>8 DEF Offsite!Truncate
  <2>2. save'["admin"].at = at0 /\ save'["admin"].conf = a.conf
    BY <2>1, <1>2
  <2>3. PlanIsKept'
    BY <2>1, <2>2, <1>4 DEF PlanIsKept, Offsite!Allowed
  <2>4. CASE a.at = "open"
    <3>1. at0 = "write" /\ (~a.conf.shown => n <= k) /\ n <= 1 + k
      BY <2>4 DEF ShownIsFlagged
    <3> HIDE DEF at0
    <3> QED
      BY <3>1, <2>1, <2>2, <2>3, <1>1 DEF ShownIsFlagged
  <2>5. CASE a.at = "show"
    <3>1. at0 = "reveal" /\ a.conf.shown /\ n <= k
      BY <2>5 DEF ShownIsFlagged
    <3> HIDE DEF at0
    <3> QED
      BY <3>1, <2>1, <2>2, <2>3, <1>1 DEF ShownIsFlagged
  <2> QED
    BY <2>1, <2>4, <2>5
<1>9. CASE Offsite!Fill("admin")
  <2>1. /\ a.at \in {"write", "reveal"} /\ conf' = a.conf
        /\ save' = [save EXCEPT !["admin"] = Offsite!NoSave]
    BY <1>9 DEF Offsite!Fill
  <2>2. save'["admin"].at = "idle" /\ save'["admin"].conf = Offsite!Blank
    BY <2>1, <1>3 DEF Offsite!NoSave
  <2>3. PlanIsKept'
    BY <2>1, <2>2, <1>4 DEF PlanIsKept, Offsite!Allowed
  <2>4. CASE a.at = "write"
    <3>1. shown' = shown /\ (~a.conf.shown => n <= k) /\ n <= 1 + k
      BY <1>9, <2>4 DEF Offsite!Fill, ShownIsFlagged
    <3> QED
      BY <3>1, <2>1, <2>2, <2>3, <1>1 DEF ShownIsFlagged
  <2>5. CASE a.at = "reveal"
    <3>1. shown' = shown \cup {[nth |-> n + 1, key |-> dek]}
      <4>1. shown' = IF a.at = "reveal" THEN shown \cup {[nth |-> n + 1, key |-> dek]} ELSE shown
        BY <1>9, OffsiteCounts, Zenon DEF Offsite!Fill
      <4> QED
        BY <4>1, <2>5, Zenon
    <3>6. a.conf.shown /\ n <= k
      BY <2>5 DEF ShownIsFlagged
    <3>2. IsFiniteSet(shown)
      BY DEF OffsiteTypes
    <3>3. Cardinality(shown') \in {n, n + 1}
      BY <3>1, <3>2, FS_AddElement
    <3> DEFINE m == Cardinality(shown')
    <3>4. m <= 1 + k
      BY <3>6, <3>3, <1>1
    <3> HIDE DEF m
    <3>5. conf'.shown
      BY <2>1, <3>6
    <3> QED
      BY <3>4, <3>5, <2>2, <2>3, <1>1 DEF ShownIsFlagged, m
  <2> QED
    BY <2>1, <2>4, <2>5
<1> QED
  BY <1>5, <1>6, <1>7, <1>8, <1>9 DEF Offsite!Handler

\* A set with two members has more than one.
LEMMA TwoAreMore ==
    ASSUME NEW S, IsFiniteSet(S), NEW x \in S, NEW y \in S, x # y
    PROVE  Cardinality(S) > 1
<1>1. IsFiniteSet({x}) /\ Cardinality({x}) = 1
  BY FS_Singleton
<1> DEFINE pair == {x} \cup {y}
<1>2. pair \subseteq S /\ y \notin {x}
  OBVIOUS
<1>3. Cardinality(pair) = Cardinality({x}) + 1
  BY <1>1, <1>2, FS_AddElement
<1> HIDE DEF pair
<1>4. Cardinality(pair) <= Cardinality(S) /\ Cardinality(S) \in Nat
  BY <1>2, FS_Subset, FS_CardinalityType
<1> QED
  BY <1>1, <1>3, <1>4

\* Who makes the key alone is the only one that is about to, found none, and
\* nothing has been encrypted or displayed.
LEMMA MakesAlone ==
    ASSUME OffsiteTypes, KeyIsOne, NEW m \in Offsite!Making, Offsite!MakeKey, ~twoMade'
    PROVE  /\ ~twoMade /\ Offsite!Making = {m}
           /\ dek = 0 /\ dek' # 0
           /\ store \cup remote \cup shown = {}
           /\ \A p \in Runners : ~HasCopy(p) /\ job[p].at # "encrypt"
           /\ save["admin"].at \notin {"show", "reveal"}
<1>1. /\ dek' = used.keys + 1
      /\ twoMade' = (twoMade \/ Cardinality(Offsite!Making) > 1)
  BY OffsiteCounts, Zenon DEF Offsite!MakeKey
<1>6. ~twoMade /\ ~(Cardinality(Offsite!Making) > 1)
  BY <1>1, Zenon
<1>2. IsFiniteSet(Offsite!Making)
  <2>1. Offsite!Making \subseteq ({"cron"} \cup {"button"}) \cup {"admin"}
    BY DEF Offsite!Making
  <2>2. IsFiniteSet(({"cron"} \cup {"button"}) \cup {"admin"})
    BY FS_Singleton, FS_AddElement
  <2> QED
    BY <2>1, <2>2, FS_Subset
<1>3. Offsite!Making = {m}
  BY <1>6, <1>2, TwoAreMore
<1>4. dek' # 0
  <2>1. used.keys \in Nat
    BY DEF OffsiteTypes
  <2> QED
    BY <1>1, <2>1
<1>5. dek = 0
  BY <1>6 DEF KeyIsOne, Offsite!Making, Runners
<1> QED
  BY <1>6, <1>3, <1>4, <1>5 DEF KeyIsOne

\* The key stays one.
LEMMA RunKeepsKey ==
    ASSUME OffsiteTypes, KeyIsOne, NEW p \in Runners, Offsite!Run(p)
    PROVE  KeyIsOne'
<1> SUFFICES ASSUME ~twoMade'
             PROVE  /\ \A f \in store' \cup remote' \cup shown' : f.key = dek' /\ dek' # 0
                    /\ \A q \in Runners :
                          /\ HasCopy(q)' => job'[q].key = dek'
                          /\ HasCopy(q)' \/ job'[q].at = "encrypt" => dek' # 0
                          /\ job'[q].at = "make" => dek' = 0
                    /\ save'["admin"].at \in {"show", "reveal"} => dek' # 0
                    /\ save'["admin"].at = "make" => dek' = 0
  BY DEF KeyIsOne
<1>1. /\ job' = [job EXCEPT ![p] = job'[p]] /\ UNCHANGED <<conf, save, shown>>
  BY RunSteps
<1>2. job \in [Runners -> [at : {"idle", "key", "make", "encrypt", "upload", "prune"},
                            id : Nat, mode : Offsite!Modes, ok : Nat, key : Nat]]
  BY DEF OffsiteTypes
<1>3. \A q \in Runners : q # p => job'[q] = job[q]
  BY <1>1, <1>2
<1>4. CASE Offsite!Make(p)
  <2>1. p \in Offsite!Making /\ Offsite!MakeKey /\ UNCHANGED <<store, remote>>
    BY <1>4 DEF Offsite!Make, Offsite!Making, Runners
  <2>2. /\ Offsite!Making = {p} /\ dek' # 0
        /\ store \cup remote \cup shown = {}
        /\ \A q \in Runners : ~HasCopy(q) /\ job[q].at # "encrypt"
    BY <2>1, MakesAlone
  <2>3. job'[p].at = "encrypt"
    BY <1>2, <1>4 DEF Offsite!Make
  <2>4. /\ \A q \in Runners : q # p => job[q].at # "make"
        /\ save["admin"].at # "make"
    BY <2>2 DEF Offsite!Making, Runners
  <2> QED
    BY <2>1, <2>2, <2>3, <2>4, <1>1, <1>3 DEF HasCopy
<1>5. CASE ~Offsite!Make(p)
  <2>1. UNCHANGED <<dek, twoMade>>
    BY <1>5 DEF Offsite!Run, Offsite!Start, Offsite!Key, Offsite!Encrypt, Offsite!Upload,
       Offsite!Finish
  <2>2. /\ \A f \in store \cup remote \cup shown : f.key = dek /\ dek # 0
        /\ \A q \in Runners : /\ HasCopy(q) => job[q].key = dek
                              /\ HasCopy(q) \/ job[q].at = "encrypt" => dek # 0
                              /\ job[q].at = "make" => dek = 0
        /\ save["admin"].at \in {"show", "reveal"} => dek # 0
        /\ save["admin"].at = "make" => dek = 0
    BY <2>1 DEF KeyIsOne
  <2>3. HasCopy(p) => Offsite!Mine(p).key = dek /\ dek # 0
    BY <2>2 DEF Offsite!Mine
  <2>4. \A f \in store' \cup remote' : f.key = dek /\ dek # 0
    <3>1. CASE Offsite!Start(p) \/ Offsite!Key(p)
      BY <3>1, <2>2 DEF Offsite!Start, Offsite!Key
    <3>2. CASE Offsite!Encrypt(p)
      BY <3>2, <2>2 DEF Offsite!Encrypt
    <3>3. CASE Offsite!Upload(p) \/ Offsite!Finish(p)
      <4>1. store' \subseteq store /\ remote' \subseteq remote \cup {Offsite!Mine(p)} /\ HasCopy(p)
        BY <3>3 DEF Offsite!Upload, Offsite!Finish, Offsite!Fails, Offsite!Pruned, HasCopy
      <4> QED
        BY <4>1, <2>2, <2>3
    <3> QED
      BY <3>1, <3>2, <3>3, <1>5 DEF Offsite!Run
  <2>5. /\ HasCopy(p)' => job'[p].key = dek
        /\ HasCopy(p)' \/ job'[p].at = "encrypt" => dek # 0
        /\ job'[p].at = "make" => dek = 0
    <3>1. CASE Offsite!Start(p)
      <4>1. job'[p] = job[p] \/ job'[p].at = "key"
        <5>1. \/ job' = job
              \/ \E i, mode, ok : job' = [job EXCEPT ![p] = [at |-> "key", id |-> i,
                                       mode |-> mode, ok |-> ok, key |-> Offsite!None]]
          BY <3>1 DEF Offsite!Start
        <5> QED
          BY <5>1, <1>2
      <4> QED
        BY <4>1, <2>2 DEF HasCopy
    <3>2. CASE Offsite!Key(p)
      <4>1. job'[p].at = IF dek # 0 THEN "encrypt" ELSE "make"
        BY <3>2, <1>2 DEF Offsite!Key, Offsite!HasKey, Offsite!None
      <4> QED
        BY <4>1 DEF HasCopy
    <3>3. CASE Offsite!Encrypt(p)
      <4>1. job'[p].at = "upload" /\ job'[p].key = dek /\ dek # 0
        BY <3>3, <1>2, <2>2 DEF Offsite!Encrypt
      <4> QED
        BY <4>1
    <3>4. CASE Offsite!Upload(p) \/ Offsite!Finish(p)
      <4>1. /\ HasCopy(p)
            /\ \/ job' = [job EXCEPT ![p].at = "prune"]
               \/ job' = [job EXCEPT ![p] = Offsite!NoJob]
        BY <3>4 DEF Offsite!Upload, Offsite!Finish, Offsite!Fails, HasCopy
      <4>2. (job'[p].at = "prune" /\ job'[p].key = job[p].key) \/ job'[p].at = "idle"
        BY <4>1, <1>2 DEF Offsite!NoJob
      <4> QED
        BY <4>1, <4>2, <2>2 DEF HasCopy
    <3> QED
      BY <3>1, <3>2, <3>3, <3>4, <1>5 DEF Offsite!Run
  <2> QED
    BY <2>1, <2>2, <2>4, <2>5, <1>1, <1>3 DEF HasCopy
<1> QED
  BY <1>4, <1>5

LEMMA HandlerKeepsKey ==
    ASSUME OffsiteTypes, KeyIsOne, Offsite!Handler("admin")
    PROVE  KeyIsOne'
<1> DEFINE a == save["admin"]
<1>1. UNCHANGED <<store, remote, job>>
  BY HandlerKeepsTypes
<1>2. save \in [{"admin"} -> [at : {"idle", "open", "make", "show", "write", "reveal"},
                              conf : Offsite!Confs]]
  BY DEF OffsiteTypes
<1>3. CASE Offsite!MakeShown("admin")
  <2>1. save'["admin"].at = "show" /\ shown' = shown /\ Offsite!MakeKey
        /\ "admin" \in Offsite!Making
    BY <1>2, <1>3 DEF Offsite!MakeShown, Offsite!Making
  <2>2. ASSUME ~twoMade'
        PROVE  /\ Offsite!Making = {"admin"} /\ dek' # 0
               /\ store \cup remote \cup shown = {}
               /\ \A q \in Runners : ~HasCopy(q) /\ job[q].at # "encrypt"
    BY <2>1, <2>2, MakesAlone
  <2>3. ASSUME ~twoMade', NEW q \in Runners
        PROVE  job[q].at # "make"
    BY <2>2, <2>3 DEF Offsite!Making, Runners
  <2> QED
    BY <1>1, <2>1, <2>2, <2>3 DEF KeyIsOne, HasCopy
<1>4. CASE ~Offsite!MakeShown("admin")
  <2>1. UNCHANGED <<dek, twoMade>>
    BY <1>4 DEF Offsite!Handler, Offsite!UpdateBackups, Offsite!RecoveryKey, Offsite!Truncate,
       Offsite!Fill
  <2>2. /\ save'["admin"].at \in {"show", "reveal"} => dek # 0 \/ a.at \in {"show", "reveal"}
        /\ save'["admin"].at = "make" => dek = 0 \/ a.at = "make"
    <3>1. CASE Offsite!UpdateBackups("admin")
      <4>1. \/ save' = save
            \/ \E c : save' = [save EXCEPT !["admin"] = [at |-> "open", conf |-> c]]
        BY <3>1 DEF Offsite!UpdateBackups
      <4> QED
        BY <4>1, <1>2
    <3>2. CASE Offsite!RecoveryKey("admin")
      BY <3>2, <1>2 DEF Offsite!RecoveryKey, Offsite!HasKey, Offsite!None
    <3>3. CASE Offsite!Truncate("admin") \/ Offsite!Fill("admin")
      BY <3>3, <1>2 DEF Offsite!Truncate, Offsite!Fill, Offsite!NoSave
    <3> QED
      BY <3>1, <3>2, <3>3, <1>4 DEF Offsite!Handler
  <2>3. \/ shown' = shown
        \/ \E i : shown' = shown \cup {[nth |-> i, key |-> dek]} /\ a.at = "reveal"
    BY <1>4 DEF Offsite!Handler, Offsite!UpdateBackups, Offsite!RecoveryKey, Offsite!Truncate,
       Offsite!Fill
  <2>4. ASSUME ~twoMade', NEW f \in shown' PROVE f.key = dek /\ dek # 0
    BY <2>1, <2>3, <2>4 DEF KeyIsOne
  <2> QED
    BY <1>1, <2>1, <2>2, <2>4 DEF KeyIsOne, HasCopy
<1> QED
  BY <1>3, <1>4

\* A nonempty set of numbers has a least one.
LEMMA LeastNumber ==
    ASSUME NEW S \in SUBSET Nat, S # {}
    PROVE  \E k \in S : \A j \in S : k <= j
<1> DEFINE R == {p \in Nat \X Nat : p[1] < p[2]}
<1>1. IsWellFoundedOn(R, Nat)
  BY NatLessThanWellFounded, Zenon DEF OpToRel
<1>2. \A p \in Nat, q \in Nat : <<p, q>> \in R <=> p < q
  OBVIOUS
<1> HIDE DEF R
<1>3. PICK x \in S : \A y \in S : ~ (<<y, x>> \in R)
  BY <1>1, WFMin, Zenon
<1>4. ASSUME NEW y \in S PROVE ~(y < x)
  BY <1>2, <1>3, Zenon
<1> QED
  BY <1>4

\* Of copies with bounded numbers, one is the newest.
LEMMA NewestCopy ==
    ASSUME NEW files, files \subseteq Copy, files # {}, NEW n \in Nat,
           \A f \in files : f.id <= n
    PROVE  \E f \in files : \A g \in files : g.id <= f.id
<1> DEFINE S == {n - f.id : f \in files}
<1>1. \A f \in files : f.id \in Nat /\ n - f.id \in Nat
  BY DEF Copy
<1>2. S \in SUBSET Nat /\ S # {}
  BY <1>1
<1>3. PICK k \in S : \A j \in S : k <= j
  BY <1>2, LeastNumber
<1>4. PICK f \in files : k = n - f.id
  OBVIOUS
<1>5. ASSUME NEW g \in files PROVE g.id <= f.id
  <2>1. n - f.id <= n - g.id
    BY <1>3, <1>4
  <2> QED
    BY <2>1, <1>1
<1> QED
  BY <1>5

\* Pruning keeps the two newest copies: one that goes leaves two others.
LEMMA PruningKeepsTwo ==
    ASSUME NEW files, files \subseteq Copy, IsFiniteSet(files), NEW n \in Nat,
           \A f \in files : f.id <= n,
           \A f, g \in files : f.id = g.id => f = g,
           NEW x \in files, x \notin Offsite!Pruned(files)
    PROVE  \E g, h \in Offsite!Pruned(files) : g.id # h.id
<1> DEFINE Newer(f) == {g \in files : g.id > f.id}
<1>1. Offsite!Pruned(files) = {f \in files : Cardinality(Newer(f)) < 2}
  BY OffsiteCounts DEF Offsite!Pruned
<1>2. \A f \in files : f.id \in Nat
  BY DEF Copy
<1>3. PICK g \in files : \A f \in files : f.id <= g.id
  BY NewestCopy
<1>4. Newer(g) = {}
  BY <1>2, <1>3
<1>5. Cardinality({}) = 0 /\ \A y : IsFiniteSet({y}) /\ Cardinality({y}) = 1
  BY FS_EmptySet, FS_Singleton
<1>6. g \in Offsite!Pruned(files)
  BY <1>1, <1>4, <1>5
<1>7. PICK f \in files : f.id # g.id
  <2>1. ~(Cardinality(Newer(x)) < 2)
    BY <1>1
  <2>2. Newer(x) # {} 
    BY <2>1, <1>5
  <2> QED
    BY <2>2, <1>2
<1>8. PICK h \in files \ {g} : \A y \in files \ {g} : y.id <= h.id
  BY <1>7, NewestCopy
<1>9. Newer(h) \subseteq {g}
  BY <1>2, <1>8
<1> HIDE DEF Newer
<1>10. Cardinality(Newer(h)) <= 1 /\ Cardinality(Newer(h)) \in Nat
  <2>1. IsFiniteSet({g}) /\ Cardinality({g}) = 1
    BY <1>5
  <2> QED
    BY <2>1, <1>9, FS_Subset, FS_CardinalityType
<1>11. h \in Offsite!Pruned(files)
  BY <1>1, <1>10
<1> QED
  BY <1>6, <1>8, <1>11

-----------------------------------------------------------------------------

\* The numbers of the runs and of their copies.
LEMMA RunKeepsNumbers ==
    ASSUME OffsiteTypes, NumbersAreOwn, NEW p \in Runners, Offsite!Run(p)
    PROVE  NumbersAreOwn'
<1> DEFINE n == used.runs
           Numbered(r) == r.at # "idle"
           Fresh(r) == r.at \in {"key", "make", "encrypt"}
<1>1. /\ n \in Nat
      /\ job \in [Runners -> [at : {"idle", "key", "make", "encrypt", "upload", "prune"},
                              id : Nat, mode : Offsite!Modes, ok : Nat, key : Nat]]
      /\ used \in [runs : Nat, saves : Nat, crashes : Nat, keys : Nat]
      /\ store \subseteq Copy
  BY DEF OffsiteTypes
<1>2. /\ \A q \in Runners : Numbered(job[q]) => job[q].id \in 1..n
      /\ \A q, r \in Runners :
            q # r /\ Numbered(job[q]) /\ Numbered(job[r]) => job[q].id # job[r].id
      /\ \A f \in store : f.id <= n
      /\ \A f, g \in store : f.id = g.id => f = g
      /\ \A q \in Runners : Fresh(job[q]) => \A f \in store : f.id # job[q].id
  BY DEF NumbersAreOwn
<1>3. job' = [job EXCEPT ![p] = job'[p]]
  BY RunSteps
<1>4. \A q \in Runners : q # p => job'[q] = job[q]
  BY <1>1, <1>3
<1>5. CASE Offsite!Start(p)
  <2>1. /\ store' = store /\ used' = [used EXCEPT !["runs"] = @ + 1]
        /\ job[p].at = "idle"
        /\ \/ job' = job
           \/ \E mode, ok : job' = [job EXCEPT ![p] = [at |-> "key", id |-> n + 1,
                                       mode |-> mode, ok |-> ok, key |-> Offsite!None]]
    BY <1>5 DEF Offsite!Start, Offsite!Spend
  <2>2. used'.runs = n + 1
    BY <2>1, <1>1
  <2>3. ~Numbered(job'[p]) \/ job'[p].id = n + 1
    BY <2>1, <1>1
  <2>4. /\ \A q \in Runners : Numbered(job'[q]) => job'[q].id \in 1..(n + 1)
        /\ \A f \in store : f.id <= n + 1 /\ f.id # n + 1
    BY <1>1, <1>2, <1>4, <2>3 DEF Copy
  <2>5. \A q \in Runners : q # p /\ Numbered(job'[q]) => job'[q].id # n + 1
    BY <1>1, <1>2, <1>4
  <2>6. \A q \in Runners : Fresh(job'[q]) => \A f \in store : f.id # job'[q].id
    <3> SUFFICES ASSUME NEW q \in Runners, Fresh(job'[q]), NEW f \in store
                 PROVE  f.id # job'[q].id
      OBVIOUS
    <3>1. CASE q = p
      BY <3>1, <2>3, <2>4
    <3>2. CASE q # p
      BY <3>2, <1>2, <1>4
    <3> QED
      BY <3>1, <3>2
  <2>7. \A q, r \in Runners :
            q # r /\ Numbered(job'[q]) /\ Numbered(job'[r]) => job'[q].id # job'[r].id
    BY <1>2, <1>4, <2>3, <2>5
  <2> QED
    BY <2>1, <2>2, <2>4, <2>6, <2>7, <1>2 DEF NumbersAreOwn
<1>6. CASE ~Offsite!Start(p)
  <2>1. /\ used'.runs = n
        /\ Numbered(job[p])
        /\ \/ ~Numbered(job'[p])
           \/ job'[p].id = job[p].id /\ (Fresh(job'[p]) => Fresh(job[p]) /\ store' = store)
        /\ \/ store' \subseteq store
           \/ store' = store \cup {[id |-> job[p].id, key |-> dek]} /\ Fresh(job[p])
    <3>1. CASE Offsite!Key(p)
      BY <3>1, <1>1 DEF Offsite!Key
    <3>2. CASE Offsite!Make(p)
      BY <3>2, <1>1 DEF Offsite!Make, Offsite!MakeKey
    <3>3. CASE Offsite!Encrypt(p)
      BY <3>3, <1>1 DEF Offsite!Encrypt
    <3>4. CASE Offsite!Upload(p) \/ Offsite!Finish(p)
      <4>1. /\ HasCopy(p) /\ used' = used /\ store' \subseteq store
            /\ \/ job' = [job EXCEPT ![p].at = "prune"]
               \/ job' = [job EXCEPT ![p] = Offsite!NoJob]
        BY <3>4 DEF Offsite!Upload, Offsite!Finish, Offsite!Fails, Offsite!Pruned, HasCopy
      <4>2. (job'[p].at = "prune" /\ job'[p].id = job[p].id) \/ job'[p].at = "idle"
        BY <4>1, <1>1 DEF Offsite!NoJob
      <4> QED
        BY <4>1, <4>2 DEF HasCopy
    <3> QED
      BY <3>1, <3>2, <3>3, <3>4, <1>6 DEF Offsite!Run
  <2>2. /\ \A q \in Runners : Numbered(job'[q]) => Numbered(job[q]) /\ job'[q].id = job[q].id
        /\ \A q \in Runners : Fresh(job'[q]) => Fresh(job[q]) /\ (q = p => store' = store)
    BY <1>4, <2>1
  <2>3. ASSUME NEW q \in Runners, Fresh(job'[q]), NEW f \in store' PROVE f.id # job'[q].id
    <3>1. Numbered(job'[q]) /\ Fresh(job[q])
      BY <2>2, <2>3
    <3>2. f \in store \/ (f.id = job[p].id /\ q # p)
      BY <2>1, <2>2, <2>3
    <3> QED
      BY <3>1, <3>2, <2>1, <2>2, <1>2
  <2>4. ASSUME NEW f \in store', NEW g \in store', f.id = g.id PROVE f = g
    BY <2>1, <2>4, <1>2
  <2>5. ASSUME NEW f \in store' PROVE f.id <= n
    <3>1. f \in store \/ f.id = job[p].id
      BY <2>1
    <3> QED
      BY <3>1, <2>1, <1>1, <1>2
  <2> QED
    BY <2>1, <2>2, <2>3, <2>4, <2>5, <1>2 DEF NumbersAreOwn
<1> QED
  BY <1>5, <1>6

\* What a step of a run leaves of the objects at the endpoint.
LEMMA RunKeepsSuccess ==
    ASSUME OffsiteTypes, SuccessIsRemote, NEW p \in Runners, Offsite!Run(p)
    PROVE  SuccessIsRemote'
<1>1. job \in [Runners -> [at : {"idle", "key", "make", "encrypt", "upload", "prune"},
                            id : Nat, mode : Offsite!Modes, ok : Nat, key : Nat]]
  BY DEF OffsiteTypes
<1>2. job' = [job EXCEPT ![p] = job'[p]]
  BY RunSteps
<1>3. \A q \in Runners : q # p => job'[q] = job[q]
  BY <1>1, <1>2
<1>4. remote \subseteq remote'
  BY DEF Offsite!Run, Offsite!Start, Offsite!Key, Offsite!Make, Offsite!Encrypt,
     Offsite!Upload, Offsite!Finish
<1>5. There(0, remote')
  BY DEF There
<1>6. \A q \in Runners : q # p =>
         /\ There(job'[q].ok, remote')
         /\ job'[q].at = "prune" => There(job'[q].id, remote')
  BY <1>3, <1>4 DEF SuccessIsRemote, There
<1>7. /\ There(record.ok, remote') /\ There(job[p].ok, remote')
      /\ job[p].at = "prune" => There(job[p].id, remote')
  BY <1>4 DEF SuccessIsRemote, There
<1>8. /\ There(record'.ok, remote') /\ There(job'[p].ok, remote')
      /\ job'[p].at = "prune" => There(job'[p].id, remote')
  <2>1. CASE Offsite!Start(p)
    <3>1. /\ record'.ok = record.ok /\ job[p].at = "idle"
          /\ \/ job' = job
             \/ \E i, mode : job' = [job EXCEPT ![p] = [at |-> "key", id |-> i,
                                mode |-> mode, ok |-> record.ok, key |-> Offsite!None]]
      BY <2>1 DEF Offsite!Start, Offsite!Record
    <3>2. job'[p] = job[p] \/ (job'[p].at = "key" /\ job'[p].ok = record.ok)
      BY <3>1, <1>1
    <3> QED
      BY <3>1, <3>2, <1>7
  <2>2. CASE Offsite!Key(p) \/ Offsite!Make(p) \/ Offsite!Encrypt(p)
    <3>1. record' = record /\ job'[p].ok = job[p].ok /\ job'[p].at # "prune"
      BY <2>2, <1>1 DEF Offsite!Key, Offsite!Make, Offsite!Encrypt
    <3> QED
      BY <3>1, <1>7
  <2>3. CASE Offsite!Fails(p)
    <3>1. record'.ok = job[p].ok /\ job'[p].at = "idle" /\ job'[p].ok = 0
      BY <2>3, <1>1 DEF Offsite!Fails, Offsite!Record, Offsite!NoJob, Offsite!None
    <3> QED
      BY <3>1, <1>5, <1>7
  <2>4. CASE /\ remote' = remote \cup {Offsite!Mine(p)} /\ record' = record
             /\ job' = [job EXCEPT ![p].at = "prune"]
    <3>1. job'[p].id = job[p].id /\ job'[p].ok = job[p].ok
      BY <2>4, <1>1
    <3>2. Offsite!Mine(p) \in remote' /\ Offsite!Mine(p).id = job[p].id
      BY <2>4 DEF Offsite!Mine
    <3>3. There(job[p].id, remote')
      BY <3>2 DEF There
    <3> QED
      BY <3>1, <3>3, <2>4, <1>7
  <2>5. CASE /\ job[p].at = "prune" /\ record'.ok = job[p].id
             /\ job' = [job EXCEPT ![p] = Offsite!NoJob]
    <3>1. job'[p].at = "idle" /\ job'[p].ok = 0
      BY <2>5, <1>1 DEF Offsite!NoJob, Offsite!None
    <3> QED
      BY <3>1, <2>5, <1>5, <1>7
  <2>6. CASE Offsite!Upload(p)
    BY <2>6, <2>3, <2>4 DEF Offsite!Upload
  <2>7. CASE Offsite!Finish(p)
    BY <2>7, <2>3, <2>5 DEF Offsite!Finish, Offsite!Record
  <2> QED
    BY <2>1, <2>2, <2>6, <2>7 DEF Offsite!Run
<1> QED
  BY <1>6, <1>8 DEF SuccessIsRemote

\* A success leaves a copy that no failure takes away: the run's own, or the
\* newer of those for which its own was pruned.
LEMMA FinishLeavesCopy ==
    ASSUME OffsiteTypes, NumbersAreOwn, CopyStays, NEW p \in Runners,
           HasCopy(p), store' = Offsite!Pruned(store),
           job' = [job EXCEPT ![p] = Offsite!NoJob]
    PROVE  Loose' # {}
<1>1. /\ used.runs \in Nat /\ IsFiniteSet(store) /\ store \subseteq Copy
      /\ job \in [Runners -> [at : {"idle", "key", "make", "encrypt", "upload", "prune"},
                              id : Nat, mode : Offsite!Modes, ok : Nat, key : Nat]]
  BY DEF OffsiteTypes
<1>2. /\ \A f \in store : f.id <= used.runs
      /\ \A f, g \in store : f.id = g.id => f = g
  BY DEF NumbersAreOwn
<1>3. ~HasCopy(p)' /\ \A q \in Runners : q # p => job'[q] = job[q]
  BY <1>1 DEF Offsite!NoJob, HasCopy
<1>4. PICK x \in store : \A q \in Runners : q # p /\ HasCopy(q) => x.id # job[q].id
  <2>1. CASE Offsite!Mine(p) \in store
    <3>1. Offsite!Mine(p).id = job[p].id
      BY DEF Offsite!Mine
    <3>2. \A q \in Runners : q # p /\ HasCopy(q) => job[p].id # job[q].id
      BY DEF NumbersAreOwn, HasCopy
    <3> QED
      BY <2>1, <3>1, <3>2
  <2>2. CASE Loose # {}
    BY <2>2 DEF Loose
  <2> QED
    BY <2>1, <2>2 DEF CopyStays
<1>5. CASE x \in store'
  BY <1>3, <1>4, <1>5 DEF Loose, HasCopy
<1>6. CASE x \notin store'
  <2>1. PICK g, h \in store' : g.id # h.id
    <3>1. x \notin Offsite!Pruned(store)
      BY <1>6
    <3>2. \E g, h \in Offsite!Pruned(store) : g.id # h.id
      BY <3>1, <1>1, <1>2, PruningKeepsTwo
    <3> QED
      BY <3>2
  <2>2. \A q, r \in Runners : q # p /\ r # p => q = r
    BY DEF Runners
  <2>3. PICK f \in {g, h} : \A q \in Runners : q # p => f.id # job[q].id
    BY <2>1, <2>2
  <2> QED
    BY <2>1, <2>3, <1>3 DEF Loose, HasCopy
<1> QED
  BY <1>5, <1>6

LEMMA RunKeepsCopies ==
    ASSUME OffsiteTypes, NumbersAreOwn, CopyStays, NEW p \in Runners, Offsite!Run(p)
    PROVE  CopyStays'
<1>1. /\ job \in [Runners -> [at : {"idle", "key", "make", "encrypt", "upload", "prune"},
                              id : Nat, mode : Offsite!Modes, ok : Nat, key : Nat]]
      /\ record.ok \in Nat
  BY DEF OffsiteTypes
<1>2. job' = [job EXCEPT ![p] = job'[p]]
  BY RunSteps
<1>3. \A q \in Runners : q # p => job'[q] = job[q]
  BY <1>1, <1>2
<1>4. CASE Offsite!Start(p) \/ Offsite!Key(p) \/ Offsite!Make(p)
  <2>1. /\ store' = store /\ ~HasCopy(p) /\ ~HasCopy(p)' /\ record'.ok = record.ok
        /\ job'[p].ok \in {job[p].ok, record.ok}
    <3>1. CASE Offsite!Start(p)
      <4>1. /\ record'.ok = record.ok /\ job[p].at = "idle" /\ store' = store
            /\ \/ job' = job
               \/ \E i, mode : job' = [job EXCEPT ![p] = [at |-> "key", id |-> i,
                                  mode |-> mode, ok |-> record.ok, key |-> Offsite!None]]
        BY <3>1 DEF Offsite!Start, Offsite!Record
      <4>2. job'[p] = job[p] \/ (job'[p].at = "key" /\ job'[p].ok = record.ok)
        BY <4>1, <1>1
      <4> QED
        BY <4>1, <4>2 DEF HasCopy
    <3>2. CASE Offsite!Key(p) \/ Offsite!Make(p)
      BY <3>2, <1>1 DEF Offsite!Key, Offsite!Make, HasCopy
    <3> QED
      BY <3>1, <3>2, <1>4
  <2>2. Loose' = Loose
    BY <2>1, <1>3 DEF Loose, HasCopy
  <2>3. \A q \in Runners : HasCopy(q)' => HasCopy(q) /\ Offsite!Mine(q)' = Offsite!Mine(q)
    BY <2>1, <1>3 DEF HasCopy, Offsite!Mine
  <2>4. \A q \in Runners : job'[q].ok # 0 => Loose # {}
    BY <2>1, <1>3 DEF CopyStays
  <2> QED
    BY <2>1, <2>2, <2>3, <2>4 DEF CopyStays
<1>5. CASE Offsite!Encrypt(p)
  <2>1. /\ store' = store \cup {[id |-> job[p].id, key |-> dek]}
        /\ \A f \in store : f.id # job[p].id
        /\ job'[p].ok = job[p].ok /\ record' = record /\ ~HasCopy(p)
        /\ job'[p].id = job[p].id /\ job'[p].key = dek
    BY <1>1, <1>5 DEF Offsite!Encrypt, NumbersAreOwn, HasCopy
  <2>2. Loose \subseteq Loose'
    BY <2>1, <1>3 DEF Loose, HasCopy
  <2>3. Offsite!Mine(p)' \in store'
    BY <2>1 DEF Offsite!Mine
  <2>4. \A q \in Runners : q # p =>
           /\ HasCopy(q)' = HasCopy(q)
           /\ Offsite!Mine(q)' = Offsite!Mine(q)
    BY <1>3 DEF HasCopy, Offsite!Mine
  <2>5. \A q \in Runners : job'[q].ok = job[q].ok
    BY <2>1, <1>3
  <2> QED
    BY <2>1, <2>2, <2>3, <2>4, <2>5 DEF CopyStays
<1>6. CASE Offsite!Fails(p) /\ HasCopy(p)
  <2>1. /\ store' = store \ {Offsite!Mine(p)} /\ record'.ok = job[p].ok
        /\ job'[p].at = "idle" /\ job'[p].ok = 0
    BY <1>1, <1>6 DEF Offsite!Fails, Offsite!Record, Offsite!NoJob, Offsite!None
  <2>2. Loose \subseteq Loose'
    BY <2>1, <1>3, <1>6 DEF Loose, HasCopy, Offsite!Mine
  <2>3. \A q \in Runners : q # p /\ HasCopy(q)' =>
            /\ HasCopy(q) /\ Offsite!Mine(q)' = Offsite!Mine(q)
            /\ Offsite!Mine(q) # Offsite!Mine(p)
    BY <1>3, <1>6 DEF HasCopy, Offsite!Mine, NumbersAreOwn
  <2>4. ~HasCopy(p)'
    BY <2>1 DEF HasCopy
  <2>5. \A q \in Runners : job'[q].ok # 0 => q # p /\ job'[q].ok = job[q].ok
    BY <2>1, <1>3
  <2> QED
    BY <2>1, <2>2, <2>3, <2>4, <2>5 DEF CopyStays
<1>7. CASE Offsite!Upload(p) /\ ~Offsite!Fails(p)
  <2>1. /\ store' = store /\ record' = record /\ HasCopy(p) /\ HasCopy(p)'
        /\ job'[p].id = job[p].id /\ job'[p].ok = job[p].ok /\ job'[p].key = job[p].key
    BY <1>1, <1>7 DEF Offsite!Upload, HasCopy
  <2>2. \A q \in Runners : /\ HasCopy(q)' = HasCopy(q) /\ job'[q].id = job[q].id
                           /\ job'[q].ok = job[q].ok /\ job'[q].key = job[q].key
    BY <2>1, <1>3 DEF HasCopy
  <2>3. Loose' = Loose
    BY <2>1, <2>2 DEF Loose
  <2> QED
    BY <2>1, <2>2, <2>3 DEF CopyStays, Offsite!Mine
<1>8. CASE Offsite!Finish(p) /\ ~Offsite!Fails(p)
  <2>1. Loose' # {}
    BY <1>8, FinishLeavesCopy DEF Offsite!Finish, HasCopy
  <2> QED
    BY <2>1 DEF CopyStays
<1> QED
  BY <1>4, <1>5, <1>6, <1>7, <1>8
     DEF Offsite!Run, Offsite!Upload, Offsite!Finish, HasCopy

\* A save leaves the runs and the copies alone.
LEMMA HandlerKeepsCopies ==
    ASSUME OffsiteInv, Offsite!Handler("admin")
    PROVE  NumbersAreOwn' /\ SuccessIsRemote' /\ CopyStays'
<1>1. UNCHANGED <<store, remote, record, job>> /\ used'.runs = used.runs
  BY HandlerKeepsTypes DEF OffsiteInv
<1> QED
  BY <1>1 DEF OffsiteInv, NumbersAreOwn, SuccessIsRemote, CopyStays, Loose, HasCopy,
     Offsite!Mine

\* A stop ends every run and every save; it costs one more display at most.
LEMMA CrashKeeps ==
    ASSUME OffsiteInv, Offsite!Crash
    PROVE  OffsiteInv'
<1>1. /\ job' = [p \in Runners |-> Offsite!NoJob]
      /\ save' = [h \in {"admin"} |-> Offsite!NoSave]
      /\ used' = [used EXCEPT !["crashes"] = @ + 1]
      /\ UNCHANGED <<conf, dek, store, remote, record, shown, twoMade>>
  BY DEF Offsite!Crash, Offsite!Spend, Runners
<1>2. OffsiteTypes
  BY DEF OffsiteInv
<1>3. /\ used \in [runs : Nat, saves : Nat, crashes : Nat, keys : Nat]
      /\ Cardinality(shown) \in Nat
  BY <1>2, FS_CardinalityType DEF OffsiteTypes
<1>4. /\ used' \in [runs : Nat, saves : Nat, crashes : Nat, keys : Nat]
      /\ used'.crashes = used.crashes + 1 /\ used'.runs = used.runs
  BY <1>1, <1>3
<1>5. /\ Offsite!NoJob \in [at : {"idle", "key", "make", "encrypt", "upload", "prune"},
                            id : Nat, mode : Offsite!Modes, ok : Nat, key : Nat]
      /\ Offsite!NoSave \in [at : {"idle", "open", "make", "show", "write", "reveal"},
                             conf : Offsite!Confs]
      /\ Offsite!Allowed(Offsite!NoSave.conf)
  BY DEF Offsite!NoJob, Offsite!None, Offsite!NoSave, Offsite!Blank, Offsite!Confs,
     Offsite!Modes, Offsite!Allowed
<1>6. /\ \A p \in Runners : job'[p].at = "idle" /\ job'[p].ok = 0
      /\ save'["admin"].at = "idle" /\ save'["admin"].conf = Offsite!NoSave.conf
  BY <1>1 DEF Offsite!NoJob, Offsite!None, Offsite!NoSave
<1>7. OffsiteTypes'
  BY <1>1, <1>2, <1>4, <1>5 DEF OffsiteTypes
<1>8. PlanIsKept'
  BY <1>1, <1>5, <1>6 DEF OffsiteInv, PlanIsKept
<1>9. ShownIsFlagged'
  <2>1. Cardinality(shown) <= used'.crashes
    BY <1>3, <1>4 DEF OffsiteInv, ShownIsFlagged
  <2>2. Cardinality(shown) <= 1 + used'.crashes
    BY <2>1, <1>3, <1>4
  <2> QED
    BY <2>1, <2>2, <1>1, <1>6 DEF ShownIsFlagged
<1>10. KeyIsOne'
  BY <1>1, <1>6 DEF OffsiteInv, KeyIsOne, HasCopy
<1>11. NumbersAreOwn' /\ SuccessIsRemote'
  BY <1>1, <1>4, <1>6 DEF OffsiteInv, NumbersAreOwn, SuccessIsRemote, There
<1>12. Loose \subseteq Loose'
  BY <1>1, <1>6 DEF Loose, HasCopy
<1>13. CopyStays'
  BY <1>1, <1>6, <1>12 DEF OffsiteInv, CopyStays, HasCopy
<1> QED
  BY <1>7, <1>8, <1>9, <1>10, <1>11, <1>13 DEF OffsiteInv

LEMMA OffsiteStep == OffsiteInv /\ [Offsite!Next]_(Offsite!vars) => OffsiteInv'
<1> SUFFICES ASSUME OffsiteInv, [Offsite!Next]_(Offsite!vars) PROVE OffsiteInv'
  OBVIOUS
<1>1. ASSUME NEW p \in Runners, Offsite!Run(p) PROVE OffsiteInv'
  <2>1. /\ UNCHANGED <<conf, save, shown>> /\ used'.crashes = used.crashes
    BY <1>1, RunSteps DEF OffsiteInv
  <2>2. PlanIsKept' /\ ShownIsFlagged'
    BY <2>1 DEF OffsiteInv, PlanIsKept, ShownIsFlagged
  <2> QED
    BY <2>2, <1>1, RunKeepsTypes, RunKeepsKey, RunKeepsNumbers, RunKeepsSuccess,
       RunKeepsCopies DEF OffsiteInv
<1>2. CASE Offsite!Handler("admin")
  BY <1>2, HandlerKeepsTypes, HandlerKeepsFlags, HandlerKeepsKey, HandlerKeepsCopies
     DEF OffsiteInv
<1>3. CASE Offsite!Crash
  BY <1>3, CrashKeeps
<1>4. CASE UNCHANGED <<conf, dek, store, remote, record, job, save, shown, twoMade, used>>
  <2> USE <1>4 DEF OffsiteInv
  <2>1. OffsiteTypes' /\ PlanIsKept' /\ ShownIsFlagged'
    BY DEF OffsiteTypes, PlanIsKept, ShownIsFlagged
  <2>2. KeyIsOne' /\ NumbersAreOwn' /\ SuccessIsRemote' /\ CopyStays'
    BY DEF KeyIsOne, NumbersAreOwn, SuccessIsRemote, CopyStays, Loose, HasCopy, Offsite!Mine
  <2> QED
    BY <2>1, <2>2
<1> QED
  BY <1>1, <1>2, <1>3, <1>4 DEF Offsite!Next, Offsite!BackupApp, Offsite!vars, Runners

LEMMA OffsiteInvImplies == OffsiteInv => BackupsHold
<1> SUFFICES ASSUME OffsiteInv PROVE BackupsHold
  OBVIOUS
<1>1. Offsite!ManagedNeedsPlan
  BY DEF OffsiteInv, PlanIsKept, Offsite!Allowed, Offsite!ManagedNeedsPlan
<1>2. Offsite!KeyShownOnce
  BY OffsiteCounts DEF OffsiteInv, ShownIsFlagged, Offsite!KeyShownOnce
<1>3. Offsite!KeyOpens
  BY DEF OffsiteInv, KeyIsOne, Offsite!KeyOpens
<1>4. Offsite!SuccessIsThere
  BY DEF OffsiteInv, SuccessIsRemote, There, CopyStays, Loose, Offsite!SuccessIsThere,
     Offsite!None
<1> QED
  BY <1>1, <1>2, <1>3, <1>4 DEF BackupsHold
-----------------------------------------------------------------------------
(* Settings: what a save reads, changes and writes back.                   *)

\* Every control has something.
OfControls(f) == f = [c \in Stored!Controls |-> f[c]]

\* The settings have their keys; the values of the stored ones are opaque.
IsFile(e) ==
    /\ e = [plain |-> e.plain, profile |-> e.profile, pi |-> e.pi, providers |-> e.providers,
            active |-> e.active, order |-> e.order, control |-> e.control,
            effective |-> e.effective, days |-> e.days, prev |-> e.prev]
    /\ e.plain = [k \in Plain |-> e.plain[k]]
    /\ e.pi \in BOOLEAN
    /\ OfControls(e.control)
    /\ OfControls(e.effective)
    /\ e.prev # <<>> => OfControls(e.prev[1])

\* The autonomous profile comes with its agent.
ProfileHasAgent(e) == e.profile = "autonomous" => e.pi

\* The effective keys follow the controls.
ControlsAreEffective(e) ==
    /\ e.control.llm_egress # Stored!Unset =>
          /\ e.effective.llm_egress = Stored!State(e, "llm_egress")
          /\ e.effective.web_research = Stored!State(e, "web_research")
    /\ e.effective.web_research = "on" <=> e.control.web_research = "on"

GoodFile(e) == IsFile(e) /\ ProfileHasAgent(e) /\ ControlsAreEffective(e)

SavesAreGood ==
    /\ s = [t \in Savers |-> s[t]]
    /\ \A t \in Savers :
          /\ s[t] = [at |-> s[t].at, snap |-> s[t].snap, field |-> s[t].field,
                     value |-> s[t].value, sync |-> s[t].sync]
          /\ s[t].at \in {"idle", "write", "flush", "sync"}
          /\ s[t].sync \in {"none", "provider", "web"}
          /\ GoodFile(s[t].snap)

\* One save at a time: ...
OneSave == \A t, u \in Savers : t # u => s[t].at = "idle" \/ s[u].at = "idle"

Writing(t) == s[t].at \in {"write", "flush"}

\* ... the file holds what was accepted, and a snapshot that and its change;
PlainIsKept ==
    /\ kept = [k \in Plain |-> kept[k]]
    /\ \A k \in Plain : kept[k] # Stored!Unset
    /\ (\A t \in Savers : s[t].at # "flush") => \A k \in Plain : env.plain[k] = kept[k]
    /\ \A t \in Savers : Writing(t) =>
          \A k \in Plain : /\ s[t].snap.plain[k] = IF k = s[t].field THEN s[t].value ELSE kept[k]
                           /\ k = s[t].field => s[t].value # Stored!Unset

\* ... the flag of the agent follows the control until a save changes it;
FlagIsFollowed ==
    /\ (\A t \in Savers : s[t].at # "flush" /\ ~(s[t].at = "sync" /\ s[t].sync = "web"))
         => (web <=> env.effective.web_research = "on")
    /\ \A t \in Savers : Writing(t) /\ s[t].sync # "web" =>
          (web <=> s[t].snap.effective.web_research = "on")

\* ... and the preset remembers the controls of before it.
PresetRemembers ==
    /\ env.prev # <<>> => env.prev[1] = before
    /\ \A t \in Savers : Writing(t) /\ s[t].snap.prev # <<>> => s[t].snap.prev[1] = before

StoredInv ==
    /\ GoodFile(env)
    /\ SavesAreGood
    /\ Serial => OneSave /\ PlainIsKept /\ FlagIsFollowed /\ PresetRemembers
\* The state of a control is its value, or its default while it has none.
LEMMA StateOfControl ==
    ASSUME NEW e, IsFile(e)
    PROVE  /\ OfControls([c \in Stored!Controls |-> Stored!State(e, c)])
           /\ Stored!State(e, "web_research") = "on" <=> e.control.web_research = "on"
<1>1. Stored!State(e, "web_research") = "on" <=> e.control.web_research = "on"
  BY DEF Stored!State, Stored!Options, Stored!Unset
<1>2. OfControls([c \in Stored!Controls |-> Stored!State(e, c)])
  BY DEF OfControls
<1> QED
  BY <1>1, <1>2

\* The baseline sets every control.
LEMMA BaselineIsWhole == OfControls(Stored!Baseline) /\ Stored!Baseline.web_research = "off"
  BY DEF OfControls, Stored!Baseline, Stored!Controls

\* Whatever the controls were set to, mirroring them makes good settings.
LEMMA MirrorIsGood ==
    ASSUME NEW e, IsFile(e), ProfileHasAgent(e)
    PROVE  LET m == Stored!MirrorToEffective(e) IN
           /\ GoodFile(m)
           /\ m.plain = e.plain /\ m.prev = e.prev
           /\ m.effective.web_research = "on" <=> e.control.web_research = "on"
<1> DEFINE m == Stored!MirrorToEffective(e)
           states == [c \in Stored!Controls |-> Stored!State(e, c)]
           days == IF e.days = 0 THEN Stored!Days[Stored!State(e, "retention")] ELSE e.days
<1>1. m = [e EXCEPT !.effective = states, !.days = days]
  BY DEF Stored!MirrorToEffective
<1>2. e = [plain |-> e.plain, profile |-> e.profile, pi |-> e.pi, providers |-> e.providers,
           active |-> e.active, order |-> e.order, control |-> e.control,
           effective |-> e.effective, days |-> e.days, prev |-> e.prev]
  BY DEF IsFile
<1>3. /\ OfControls(states)
      /\ states["web_research"] = Stored!State(e, "web_research")
      /\ states["llm_egress"] = Stored!State(e, "llm_egress")
  BY StateOfControl DEF Stored!Controls
<1> HIDE DEF m, states, days
<1>4. m = [plain |-> e.plain, profile |-> e.profile, pi |-> e.pi, providers |-> e.providers,
           active |-> e.active, order |-> e.order, control |-> e.control,
           effective |-> states, days |-> days, prev |-> e.prev]
  BY <1>1, <1>2
<1>5. IsFile(m)
  BY <1>3, <1>4 DEF IsFile
<1>6. \A c : Stored!State(m, c) = Stored!State(e, c)
  BY <1>4 DEF Stored!State
<1>7. ProfileHasAgent(m)
  BY <1>4 DEF ProfileHasAgent
<1>8. m.effective = states /\ m.control = e.control
  BY <1>4
<1>9. states["web_research"] = "on" <=> e.control.web_research = "on"
  BY <1>3, StateOfControl
<1>10. ControlsAreEffective(m)
  BY <1>3, <1>6, <1>8, <1>9 DEF ControlsAreEffective
<1> QED
  BY <1>4, <1>5, <1>7, <1>8, <1>9, <1>10 DEF GoodFile, m

\* The empty file and what stands in for it.
LEMMA EmptyIsGood ==
    /\ GoodFile(Stored!Empty) /\ GoodFile(Stored!Boot)
    /\ Stored!Boot.prev = <<>> /\ Stored!Empty.prev = <<>>
    /\ Stored!Boot.effective = Stored!Empty.effective
    /\ \A k \in Plain : Stored!Empty.plain[k] = Stored!Unset
<1> DEFINE boot == [k \in Plain |-> IF k \in Injected THEN "old" ELSE Stored!Unset]
           none == [c \in Stored!Controls |-> Stored!Unset]
           File(p) == [plain |-> p, profile |-> Stored!Unset, pi |-> FALSE, providers |-> {},
                       active |-> Stored!None, order |-> <<>>, control |-> none,
                       effective |-> none, days |-> 0, prev |-> <<>>]
<1>1. Stored!Empty = File([k \in Plain |-> Stored!Unset])
  BY DEF Stored!Empty
<1>2. Stored!Boot = File(boot)
  <2>1. Stored!Boot = [File([k \in Plain |-> Stored!Unset]) EXCEPT !.plain = boot]
    BY <1>1 DEF Stored!Boot
  <2> HIDE DEF boot, none
  <2> QED
    BY <2>1
<1>3. OfControls(none)
  BY DEF OfControls
<1>4. none["llm_egress"] = Stored!Unset /\ none["web_research"] # "on"
  BY DEF Stored!Unset, Stored!Controls
<1> HIDE DEF none
<1>5. ASSUME NEW p, p = [k \in Plain |-> p[k]] PROVE GoodFile(File(p))
  <2>1. IsFile(File(p))
    BY <1>3, <1>5 DEF IsFile
  <2>2. ProfileHasAgent(File(p))
    BY DEF ProfileHasAgent, Stored!Unset
  <2>3. ControlsAreEffective(File(p))
    BY <1>4 DEF ControlsAreEffective
  <2> QED
    BY <2>1, <2>2, <2>3 DEF GoodFile
<1>6. boot = [k \in Plain |-> boot[k]]
  OBVIOUS
<1>7. GoodFile(Stored!Boot)
  BY <1>2, <1>5, <1>6
<1>8. GoodFile(Stored!Empty)
  BY <1>1, <1>5
<1> QED
  BY <1>1, <1>2, <1>7, <1>8

\* A setting that is only stored.
Section(e, k, v) == [e EXCEPT !.plain[k] = v]

LEMMA SectionIsGood ==
    ASSUME NEW e, GoodFile(e), NEW k \in Plain, NEW v
    PROVE  LET m == Section(e, k, v) IN
           /\ GoodFile(m) /\ m.prev = e.prev /\ m.effective = e.effective
           /\ \A x \in Plain : m.plain[x] = IF x = k THEN v ELSE e.plain[x]
<1> DEFINE m == Section(e, k, v)
           plain == [e.plain EXCEPT ![k] = v]
<1>1. /\ e = [plain |-> e.plain, profile |-> e.profile, pi |-> e.pi, providers |-> e.providers,
              active |-> e.active, order |-> e.order, control |-> e.control,
              effective |-> e.effective, days |-> e.days, prev |-> e.prev]
      /\ e.plain = [x \in Plain |-> e.plain[x]]
  BY DEF GoodFile, IsFile
<1>2. /\ plain = [x \in Plain |-> plain[x]]
      /\ \A x \in Plain : plain[x] = IF x = k THEN v ELSE e.plain[x]
  BY <1>1
<1>3. m = [e EXCEPT !.plain = plain]
  BY DEF Section
<1> HIDE DEF m, plain
<1>4. m = [plain |-> plain, profile |-> e.profile, pi |-> e.pi, providers |-> e.providers,
           active |-> e.active, order |-> e.order, control |-> e.control,
           effective |-> e.effective, days |-> e.days, prev |-> e.prev]
  BY <1>1, <1>3
<1>5. IsFile(m)
  BY <1>2, <1>4 DEF GoodFile, IsFile
<1>6. ProfileHasAgent(m) /\ ControlsAreEffective(m)
  BY <1>4 DEF GoodFile, ProfileHasAgent, ControlsAreEffective, Stored!State
<1> QED
  BY <1>2, <1>4, <1>5, <1>6 DEF GoodFile, m

\* A profile comes with its agent.
LEMMA PolicyIsGood ==
    ASSUME NEW e, GoodFile(e), NEW profile
    PROVE  LET m == Stored!UpdatePolicy(e, profile) IN
           /\ GoodFile(m) /\ m.plain = e.plain /\ m.prev = e.prev
           /\ m.effective = e.effective /\ m.control = e.control
<1> DEFINE m == Stored!UpdatePolicy(e, profile)
           pi == e.pi \/ profile = "autonomous"
<1>1. /\ e = [plain |-> e.plain, profile |-> e.profile, pi |-> e.pi, providers |-> e.providers,
              active |-> e.active, order |-> e.order, control |-> e.control,
              effective |-> e.effective, days |-> e.days, prev |-> e.prev]
  BY DEF GoodFile, IsFile
<1>2. m = [e EXCEPT !.profile = profile, !.pi = pi]
  BY DEF Stored!UpdatePolicy
<1>3. pi \in BOOLEAN /\ (profile = "autonomous" => pi)
  BY Zenon
<1> HIDE DEF m, pi
<1>4. m = [plain |-> e.plain, profile |-> profile, pi |-> pi, providers |-> e.providers,
           active |-> e.active, order |-> e.order, control |-> e.control,
           effective |-> e.effective, days |-> e.days, prev |-> e.prev]
  BY <1>1, <1>2
<1>5. IsFile(m)
  BY <1>3, <1>4 DEF GoodFile, IsFile
<1>6. ProfileHasAgent(m)
  BY <1>3, <1>4 DEF ProfileHasAgent
<1>7. ControlsAreEffective(m)
  BY <1>4 DEF GoodFile, ControlsAreEffective, Stored!State
<1> QED
  BY <1>4, <1>5, <1>6, <1>7 DEF GoodFile, m

\* The registry is none of the other settings.
LEMMA ProvidersAreGood ==
    ASSUME NEW e, GoodFile(e), NEW providers, NEW order
    PROVE  LET m == Stored!UpdateLLM(e, providers, order) IN
           /\ GoodFile(m) /\ m.plain = e.plain /\ m.prev = e.prev
           /\ m.effective = e.effective
<1> DEFINE m == Stored!UpdateLLM(e, providers, order)
<1>1. /\ e = [plain |-> e.plain, profile |-> e.profile, pi |-> e.pi, providers |-> e.providers,
              active |-> e.active, order |-> e.order, control |-> e.control,
              effective |-> e.effective, days |-> e.days, prev |-> e.prev]
  BY DEF GoodFile, IsFile
<1>2. PICK ps, os, a : m = [e EXCEPT !.providers = ps, !.order = os, !.active = a]
  BY Zenon DEF Stored!UpdateLLM
<1> HIDE DEF m
<1>3. m = [plain |-> e.plain, profile |-> e.profile, pi |-> e.pi, providers |-> ps,
           active |-> a, order |-> os, control |-> e.control,
           effective |-> e.effective, days |-> e.days, prev |-> e.prev]
  BY <1>1, <1>2
<1>4. IsFile(m)
  BY <1>3 DEF GoodFile, IsFile
<1>5. ProfileHasAgent(m) /\ ControlsAreEffective(m)
  BY <1>3 DEF GoodFile, ProfileHasAgent, ControlsAreEffective, Stored!State
<1> QED
  BY <1>3, <1>4, <1>5 DEF GoodFile, m

\* What becomes of the controls, before they are mirrored.
WithControls(e, was, control) == [e EXCEPT !.prev = was, !.control = control]

LEMMA ControlsAreSet ==
    ASSUME NEW e, IsFile(e), ProfileHasAgent(e), NEW control, OfControls(control),
           NEW was, was # <<>> => OfControls(was[1])
    PROVE  LET m == Stored!MirrorToEffective(WithControls(e, was, control)) IN
           /\ GoodFile(m) /\ m.plain = e.plain /\ m.prev = was
           /\ m.effective.web_research = "on" <=> control["web_research"] = "on"
<1> DEFINE f == WithControls(e, was, control)
<1>1. /\ e = [plain |-> e.plain, profile |-> e.profile, pi |-> e.pi, providers |-> e.providers,
              active |-> e.active, order |-> e.order, control |-> e.control,
              effective |-> e.effective, days |-> e.days, prev |-> e.prev]
  BY DEF IsFile
<1>0. f = [e EXCEPT !.prev = was, !.control = control]
  BY DEF WithControls
<1> HIDE DEF f
<1>2. f = [plain |-> e.plain, profile |-> e.profile, pi |-> e.pi, providers |-> e.providers,
           active |-> e.active, order |-> e.order, control |-> control,
           effective |-> e.effective, days |-> e.days, prev |-> was]
  BY <1>0, <1>1
<1>3. IsFile(f)
  BY <1>2 DEF IsFile
<1>4. ProfileHasAgent(f)
  BY <1>2 DEF ProfileHasAgent
<1>5. f.plain = e.plain /\ f.prev = was /\ f.control = control
  BY <1>2
<1> DEFINE m == Stored!MirrorToEffective(f)
<1>6. /\ GoodFile(m) /\ m.plain = f.plain /\ m.prev = f.prev
      /\ m.effective.web_research = "on" <=> f.control.web_research = "on"
  BY <1>3, <1>4, MirrorIsGood
<1>7. /\ GoodFile(m) /\ m.plain = e.plain /\ m.prev = was
      /\ m.effective.web_research = "on" <=> control["web_research"] = "on"
  BY <1>5, <1>6
<1> QED
  BY <1>7 DEF f

\* What a process reads: the file, or what stands in for an empty one.
LEMMA ReadsTheFile ==
    ASSUME StoredInv
    PROVE  LET e == Stored!ReadEnvFile IN
           /\ GoodFile(e) /\ e.effective = env.effective /\ e.prev = env.prev
           /\ Serial /\ (\A t \in Savers : s[t].at # "flush")
                => \A k \in Plain : e.plain[k] = kept[k]
<1>1. CASE env # Stored!Empty
  <2>1. Stored!ReadEnvFile = env
    BY <1>1 DEF Stored!ReadEnvFile
  <2> QED
    BY <2>1 DEF StoredInv, PlainIsKept
<1>2. CASE env = Stored!Empty
  <2>1. Stored!ReadEnvFile = Stored!Boot
    BY <1>2 DEF Stored!ReadEnvFile
  <2>2. ASSUME Serial, \A t \in Savers : s[t].at # "flush", NEW k \in Plain PROVE FALSE
    BY <1>2, <2>2, EmptyIsGood DEF StoredInv, PlainIsKept
  <2> QED
    BY <1>2, <2>1, <2>2, EmptyIsGood
<1> QED
  BY <1>1, <1>2

\* A save that starts has a snapshot that is the file but for its change.
LEMMA StartKeepsInv ==
    ASSUME StoredInv, NEW t \in Savers, Stored!Free(t), NEW snap, NEW f, NEW v, NEW sync,
           Stored!Start(t, snap, f, v, sync), GoodFile(snap),
           sync \in {"none", "provider", "web"},
           Serial => /\ \A k \in Plain : /\ snap.plain[k] = IF k = f THEN v ELSE kept[k]
                                         /\ k = f => v # Stored!Unset
                     /\ sync # "web" => ( snap.effective.web_research = "on"
                                            <=> env.effective.web_research = "on" )
                     /\ snap.prev # <<>> => snap.prev[1] = before'
                     /\ env.prev # <<>> => before' = before
    PROVE  StoredInv'
<1> DEFINE start == [at |-> "write", snap |-> snap, field |-> f, value |-> v, sync |-> sync]
<1>1. /\ s' = [s EXCEPT ![t] = start]
      /\ env' = env /\ web' = web /\ kept' = kept
  BY DEF Stored!Start
<1>2. /\ s = [u \in Savers |-> s[u]] /\ SavesAreGood /\ GoodFile(env)
  BY DEF StoredInv, SavesAreGood
<1>3. /\ s' = [u \in Savers |-> IF u = t THEN start ELSE s[u]]
      /\ s'[t] = start /\ \A u \in Savers : u # t => s'[u] = s[u]
  BY <1>1, <1>2
<1>4. /\ start.at = "write" /\ start.snap = snap /\ start.field = f /\ start.value = v
      /\ start.sync = sync
      /\ start = [at |-> start.at, snap |-> start.snap, field |-> start.field,
                  value |-> start.value, sync |-> start.sync]
  OBVIOUS
<1> HIDE DEF start
<1>5. GoodFile(env')
  BY <1>1, <1>2
<1>6. SavesAreGood'
  <2>1. s' = [u \in Savers |-> s'[u]]
    BY <1>3
  <2>2. ASSUME NEW u \in Savers
        PROVE  /\ s'[u] = [at |-> s'[u].at, snap |-> s'[u].snap, field |-> s'[u].field,
                           value |-> s'[u].value, sync |-> s'[u].sync]
               /\ s'[u].at \in {"idle", "write", "flush", "sync"}
               /\ s'[u].sync \in {"none", "provider", "web"}
               /\ GoodFile(s'[u].snap)
    <3>1. CASE u = t
      BY <1>3, <1>4, <3>1
    <3>2. CASE u # t
      <4>1. s'[u] = s[u]
        BY <1>3, <3>2
      <4> QED
        BY <1>2, <4>1 DEF SavesAreGood
    <3> QED
      BY <3>1, <3>2
  <2> QED
    BY <2>1, <2>2 DEF SavesAreGood
<1>7. ASSUME Serial PROVE (OneSave /\ PlainIsKept /\ FlagIsFollowed /\ PresetRemembers)'
  <2>1. /\ \A u \in Savers : s[u].at = "idle"
        /\ \A u \in Savers : u # t => s'[u].at = "idle"
        /\ \A u \in Savers : s'[u].at # "flush" /\ s'[u].at # "sync"
    BY <1>3, <1>4, <1>7 DEF Stored!Free
  <2>2. /\ PlainIsKept /\ FlagIsFollowed /\ PresetRemembers
    BY <1>7 DEF StoredInv
  <2>3. OneSave'
    BY <2>1 DEF OneSave
  <2>4. PlainIsKept'
    <3>1. \A k \in Plain : env'.plain[k] = kept'[k]
      BY <1>1, <2>1, <2>2 DEF PlainIsKept
    <3>2. kept' = [k \in Plain |-> kept'[k]] /\ \A k \in Plain : kept'[k] # Stored!Unset
      BY <1>1, <2>2 DEF PlainIsKept
    <3>3. ASSUME NEW u \in Savers, Writing(u)', NEW k \in Plain
          PROVE  /\ s'[u].snap.plain[k] = IF k = s'[u].field THEN s'[u].value ELSE kept'[k]
                 /\ k = s'[u].field => s'[u].value # Stored!Unset
      <4>1. u = t
        BY <2>1, <3>3 DEF Writing
      <4> QED
        BY <1>1, <1>3, <1>4, <1>7, <4>1
    <3> QED
      BY <3>1, <3>2, <3>3 DEF PlainIsKept
  <2>5. FlagIsFollowed'
    <3>1. web' <=> env'.effective.web_research = "on"
      BY <1>1, <2>1, <2>2 DEF FlagIsFollowed
    <3>2. ASSUME NEW u \in Savers, Writing(u)', s'[u].sync # "web"
          PROVE  web' <=> s'[u].snap.effective.web_research = "on"
      <4>1. u = t
        BY <2>1, <3>2 DEF Writing
      <4> QED
        BY <1>1, <1>3, <1>4, <1>7, <3>1, <3>2, <4>1
    <3> QED
      BY <3>1, <3>2 DEF FlagIsFollowed
  <2>6. PresetRemembers'
    <3>1. env'.prev # <<>> => env'.prev[1] = before'
      BY <1>1, <1>7, <2>2 DEF PresetRemembers
    <3>2. ASSUME NEW u \in Savers, Writing(u)', s'[u].snap.prev # <<>>
          PROVE  s'[u].snap.prev[1] = before'
      <4>1. u = t
        BY <2>1, <3>2 DEF Writing
      <4> QED
        BY <1>3, <1>4, <1>7, <3>2, <4>1
    <3> QED
      BY <3>1, <3>2 DEF PresetRemembers
  <2> QED
    BY <2>3, <2>4, <2>5, <2>6
<1> QED
  BY <1>5, <1>6, <1>7 DEF StoredInv

\* A handler of a stored setting.
LEMMA SectionKeepsInv ==
    ASSUME StoredInv, NEW t \in Savers, Stored!UpdateSection(t) PROVE StoredInv'
<1>1. PICK k \in Plain, v \in Stored!Values :
        Stored!Start(t, [Stored!ReadEnvFile EXCEPT !.plain[k] = v], k, v, "none")
  BY DEF Stored!UpdateSection
<1> DEFINE e == Stored!ReadEnvFile
           snap == Section(e, k, v)
<1>2. /\ Stored!Free(t) /\ Stored!Start(t, snap, k, v, "none") /\ before' = before
  BY <1>1 DEF Stored!UpdateSection, Section
<1>3. /\ GoodFile(e) /\ e.effective = env.effective /\ e.prev = env.prev
      /\ Serial => \A x \in Plain : e.plain[x] = kept[x]
  BY <1>2, ReadsTheFile DEF Stored!Free
<1> HIDE DEF e
<1>4. /\ GoodFile(snap) /\ snap.prev = e.prev /\ snap.effective = e.effective
      /\ \A x \in Plain : snap.plain[x] = IF x = k THEN v ELSE e.plain[x]
  BY <1>3, SectionIsGood
<1>5. v # Stored!Unset
  BY DEF Stored!Values, Stored!Unset
<1> HIDE DEF snap
<1>6. ASSUME Serial
      PROVE  /\ \A x \in Plain : /\ snap.plain[x] = IF x = k THEN v ELSE kept[x]
                                 /\ x = k => v # Stored!Unset
             /\ snap.effective.web_research = "on" <=> env.effective.web_research = "on"
             /\ snap.prev # <<>> => snap.prev[1] = before'
             /\ env.prev # <<>> => before' = before
  BY <1>2, <1>3, <1>4, <1>5, <1>6 DEF StoredInv, PresetRemembers
<1> QED
  BY <1>2, <1>4, <1>6, StartKeepsInv

\* A handler that leaves the stored settings alone, and the controls or only their flag.
LEMMA OtherKeepsInv ==
    ASSUME StoredInv, NEW t \in Savers, Stored!Free(t), NEW snap, NEW sync,
           Stored!Start(t, snap, Stored!None, Stored!None, sync),
           GoodFile(snap), sync \in {"none", "provider", "web"},
           Serial => \A k \in Plain : snap.plain[k] = kept[k],
           sync # "web" => ( snap.effective.web_research = "on"
                               <=> env.effective.web_research = "on" ),
           Serial => /\ snap.prev # <<>> => snap.prev[1] = before'
                     /\ env.prev # <<>> => before' = before
    PROVE  StoredInv'
<1>1. \A k \in Plain : k # Stored!None
  BY ApplianceAssumption DEF Stored!None
<1> QED
  BY <1>1, StartKeepsInv

\* The other sections: the profile, the registry and what the wizard sets.
LEMMA PolicyKeepsInv ==
    ASSUME StoredInv, NEW t \in Savers, Stored!UpdatePolicySection(t) PROVE StoredInv'
<1> DEFINE e == Stored!ReadEnvFile
<1>1. PICK p \in {"balanced", "autonomous"} :
        Stored!Start(t, Stored!UpdatePolicy(e, p), Stored!None, Stored!None, "none")
  BY DEF Stored!UpdatePolicySection
<1> DEFINE snap == Stored!UpdatePolicy(e, p)
<1>2. Stored!Free(t) /\ before' = before
  BY DEF Stored!UpdatePolicySection
<1>3. /\ GoodFile(e) /\ e.effective = env.effective /\ e.prev = env.prev
      /\ Serial => \A x \in Plain : e.plain[x] = kept[x]
  BY <1>2, ReadsTheFile DEF Stored!Free
<1> HIDE DEF e
<1>4. GoodFile(snap) /\ snap.plain = e.plain /\ snap.prev = e.prev /\ snap.effective = e.effective
  BY <1>3, PolicyIsGood
<1> HIDE DEF snap
<1>5. Serial => /\ snap.prev # <<>> => snap.prev[1] = before'
                /\ env.prev # <<>> => before' = before
  BY <1>2, <1>3, <1>4 DEF StoredInv, PresetRemembers
<1>6. Stored!Start(t, snap, Stored!None, Stored!None, "none")
  BY <1>1 DEF snap
<1> QED
  BY <1>2, <1>3, <1>4, <1>5, <1>6, OtherKeepsInv

LEMMA ProvidersKeepInv ==
    ASSUME StoredInv, NEW t \in Savers, Stored!UpdateProviders(t) PROVE StoredInv'
<1> DEFINE e == Stored!ReadEnvFile
<1>1. PICK ps, order :
        Stored!Start(t, Stored!UpdateLLM(e, ps, order), Stored!None, Stored!None, "provider")
  BY DEF Stored!UpdateProviders
<1> DEFINE snap == Stored!UpdateLLM(e, ps, order)
<1>2. Stored!Free(t) /\ before' = before
  BY DEF Stored!UpdateProviders
<1>3. /\ GoodFile(e) /\ e.effective = env.effective /\ e.prev = env.prev
      /\ Serial => \A x \in Plain : e.plain[x] = kept[x]
  BY <1>2, ReadsTheFile DEF Stored!Free
<1> HIDE DEF e
<1>4. GoodFile(snap) /\ snap.plain = e.plain /\ snap.prev = e.prev /\ snap.effective = e.effective
  BY <1>3, ProvidersAreGood
<1> HIDE DEF snap
<1>5. Serial => /\ snap.prev # <<>> => snap.prev[1] = before'
                /\ env.prev # <<>> => before' = before
  BY <1>2, <1>3, <1>4 DEF StoredInv, PresetRemembers
<1>6. Stored!Start(t, snap, Stored!None, Stored!None, "provider")
  BY <1>1 DEF snap
<1> QED
  BY <1>2, <1>3, <1>4, <1>5, <1>6, OtherKeepsInv

\* A control that is set leaves what is stored and what the preset remembers.
LEMMA ControlIsSet ==
    ASSUME NEW e, GoodFile(e), NEW c \in Stored!Controls, NEW v
    PROVE  LET m == Stored!SetControl(e, c, v) IN
           /\ GoodFile(m) /\ m.plain = e.plain /\ m.prev = e.prev
           /\ c # "web_research" => ( m.effective.web_research = "on"
                                        <=> e.effective.web_research = "on" )
<1> DEFINE f == [e EXCEPT !.control[c] = v]
           control == [e.control EXCEPT ![c] = v]
           m == Stored!MirrorToEffective(f)
<1>1. /\ e = [plain |-> e.plain, profile |-> e.profile, pi |-> e.pi, providers |-> e.providers,
              active |-> e.active, order |-> e.order, control |-> e.control,
              effective |-> e.effective, days |-> e.days, prev |-> e.prev]
      /\ OfControls(e.control) /\ "web_research" \in Stored!Controls
  BY DEF GoodFile, IsFile, Stored!Controls
<1>2. /\ OfControls(control)
      /\ control["web_research"] = IF c = "web_research" THEN v ELSE e.control["web_research"]
  BY <1>1 DEF OfControls
<1>3. f = [e EXCEPT !.control = control]
  OBVIOUS
<1> HIDE DEF f, control
<1>4. f = [plain |-> e.plain, profile |-> e.profile, pi |-> e.pi, providers |-> e.providers,
           active |-> e.active, order |-> e.order, control |-> control,
           effective |-> e.effective, days |-> e.days, prev |-> e.prev]
  BY <1>1, <1>3
<1>5. IsFile(f)
  BY <1>2, <1>4 DEF GoodFile, IsFile
<1>6. ProfileHasAgent(f)
  BY <1>4 DEF GoodFile, ProfileHasAgent
<1>7. /\ GoodFile(m) /\ m.plain = f.plain /\ m.prev = f.prev
      /\ m.effective.web_research = "on" <=> f.control.web_research = "on"
  BY <1>5, <1>6, MirrorIsGood
<1>8. f.plain = e.plain /\ f.prev = e.prev /\ f.control = control
  BY <1>4
<1>9. c # "web_research" => ( m.effective.web_research = "on"
                                <=> e.effective.web_research = "on" )
  BY <1>2, <1>7, <1>8 DEF GoodFile, ControlsAreEffective
<1>10. m = Stored!SetControl(e, c, v)
  BY DEF f, Stored!SetControl
<1> QED
  BY <1>7, <1>8, <1>9, <1>10

\* What the handlers of the controls start from.
LEMMA FreeHasTheFile ==
    ASSUME StoredInv, NEW t \in Savers, Stored!Free(t)
    PROVE  /\ GoodFile(env) /\ IsFile(env) /\ ProfileHasAgent(env)
           /\ Serial => /\ \A k \in Plain : env.plain[k] = kept[k]
                        /\ env.prev # <<>> => env.prev[1] = before
  BY DEF StoredInv, GoodFile, Stored!Free, PlainIsKept, PresetRemembers

\* Compliance: one control, ...
LEMMA ComplianceKeepsInv ==
    ASSUME StoredInv, NEW t \in Savers, Stored!UpdateCompliance(t) PROVE StoredInv'
<1>0. PICK c \in Stored!Controls :
        \E v : Stored!Start(t, Stored!SetControl(env, c, v), Stored!None, Stored!None, "web")
  BY DEF Stored!UpdateCompliance
<1>1. PICK v : Stored!Start(t, Stored!SetControl(env, c, v), Stored!None, Stored!None, "web")
  BY <1>0
<1> DEFINE snap == Stored!SetControl(env, c, v)
<1>2. Stored!Free(t) /\ before' = before
  BY DEF Stored!UpdateCompliance
<1>3. GoodFile(snap) /\ snap.plain = env.plain /\ snap.prev = env.prev
  BY <1>2, ControlIsSet, FreeHasTheFile
<1> HIDE DEF snap
<1>4. Serial => /\ snap.prev # <<>> => snap.prev[1] = before'
                /\ env.prev # <<>> => before' = before
  BY <1>2, <1>3, FreeHasTheFile
<1>5. Serial => \A k \in Plain : snap.plain[k] = kept[k]
  BY <1>2, <1>3, FreeHasTheFile
<1>6. Stored!Start(t, snap, Stored!None, Stored!None, "web")
  BY <1>1 DEF snap
<1> QED
  BY <1>2, <1>3, <1>4, <1>5, <1>6, OtherKeepsInv

\* ... the preset, which remembers what it replaces the first time, ...
LEMMA PresetKeepsInv ==
    ASSUME StoredInv, NEW t \in Savers, Stored!Preset(t) PROVE StoredInv'
<1> DEFINE states == [c \in Stored!Controls |-> Stored!State(env, c)]
           prv == IF env.prev = <<>> THEN <<states>> ELSE env.prev
           snap == Stored!MirrorToEffective(WithControls(env, prv, Stored!Baseline))
<1>1. Stored!ApplyPreset(env) = snap
  BY DEF Stored!ApplyPreset, WithControls
<1>2. /\ Stored!Free(t) /\ Stored!Start(t, snap, Stored!None, Stored!None, "web")
      /\ before' = IF env.prev = <<>> THEN states ELSE before
  BY <1>1 DEF Stored!Preset
<1>3. OfControls(states)
  BY <1>2, StateOfControl, FreeHasTheFile
<1> HIDE DEF states
<1>4. prv # <<>> => OfControls(prv[1])
  <2>1. CASE env.prev = <<>>
    BY <1>3, <2>1
  <2>2. CASE env.prev # <<>>
    BY <1>2, <2>2, FreeHasTheFile DEF IsFile
  <2> QED
    BY <2>1, <2>2
<1>5. Serial => /\ prv # <<>> => prv[1] = before'
                /\ env.prev # <<>> => before' = before
  BY <1>2, FreeHasTheFile
<1> HIDE DEF prv
<1>6. GoodFile(snap) /\ snap.plain = env.plain /\ snap.prev = prv
  BY <1>2, <1>4, BaselineIsWhole, ControlsAreSet, FreeHasTheFile
<1> HIDE DEF snap
<1>7. Serial => \A k \in Plain : snap.plain[k] = kept[k]
  BY <1>2, <1>6, FreeHasTheFile
<1> QED
  BY <1>2, <1>5, <1>6, <1>7, OtherKeepsInv

\* ... and its revocation, which brings that back.
LEMMA RevertKeepsInv ==
    ASSUME StoredInv, NEW t \in Savers, Stored!Revert(t) PROVE StoredInv'
<1> DEFINE control == IF env.prev = <<>> THEN env.control ELSE env.prev[1]
           snap == Stored!MirrorToEffective(WithControls(env, <<>>, control))
<1>1. Stored!RevertPreset(env) = snap
  BY DEF Stored!RevertPreset, WithControls
<1>2. /\ Stored!Free(t) /\ Stored!Start(t, snap, Stored!None, Stored!None, "web")
      /\ before' = before
  BY <1>1 DEF Stored!Revert
<1>3. OfControls(control)
  BY <1>2, FreeHasTheFile DEF IsFile
<1> HIDE DEF control
<1>4. GoodFile(snap) /\ snap.plain = env.plain /\ snap.prev = <<>>
  BY <1>2, <1>3, ControlsAreSet, FreeHasTheFile
<1> HIDE DEF snap
<1>5. Serial => /\ \A k \in Plain : snap.plain[k] = kept[k]
                /\ snap.prev # <<>> => snap.prev[1] = before'
                /\ env.prev # <<>> => before' = before
  BY <1>2, <1>4, FreeHasTheFile
<1> QED
  BY <1>2, <1>4, <1>5, OtherKeepsInv

\* The wizard sets the profile where there is none, and the egress; never the flag.
LEMMA SetupKeepsInv ==
    ASSUME StoredInv, NEW t \in Savers, Stored!SetupComplete(t) PROVE StoredInv'
<1> DEFINE e == Stored!ReadEnvFile
           home == IF e.profile = Stored!Unset THEN Stored!UpdatePolicy(e, "autonomous") ELSE e
<1>1. PICK egress :
        Stored!Start(t, Stored!ApplyHomeDefaults(e, egress), Stored!None, Stored!None, "none")
  BY DEF Stored!SetupComplete
<1> DEFINE snap == Stored!ApplyHomeDefaults(e, egress)
<1>2. Stored!Free(t) /\ before' = before
  BY DEF Stored!SetupComplete
<1>3. /\ GoodFile(e) /\ e.effective = env.effective /\ e.prev = env.prev
      /\ Serial => \A x \in Plain : e.plain[x] = kept[x]
  BY <1>2, ReadsTheFile DEF Stored!Free
<1> HIDE DEF e
<1>4. GoodFile(home) /\ home.plain = e.plain /\ home.prev = e.prev /\ home.effective = e.effective
  BY <1>3, PolicyIsGood
<1>5. snap = home \/ snap = Stored!SetControl(home, "llm_egress", egress)
  BY Zenon DEF Stored!ApplyHomeDefaults
<1> HIDE DEF home, snap
<1>6. /\ GoodFile(snap) /\ snap.plain = e.plain /\ snap.prev = e.prev
      /\ snap.effective.web_research = "on" <=> e.effective.web_research = "on"
  <2>1. CASE snap = home
    BY <1>4, <2>1
  <2>2. CASE snap = Stored!SetControl(home, "llm_egress", egress)
    <3>1. "llm_egress" \in Stored!Controls
      BY DEF Stored!Controls
    <3> QED
      BY <1>4, <2>2, <3>1, ControlIsSet
  <2> QED
    BY <1>5, <2>1, <2>2
<1>7. Serial => /\ snap.prev # <<>> => snap.prev[1] = before'
                /\ env.prev # <<>> => before' = before
  BY <1>2, <1>3, <1>6 DEF StoredInv, PresetRemembers
<1>8. Stored!Start(t, snap, Stored!None, Stored!None, "none")
  BY <1>1 DEF snap
<1>9. snap.effective.web_research = "on" <=> env.effective.web_research = "on"
  BY <1>3, <1>6
<1>10. Serial => \A k \in Plain : snap.plain[k] = kept[k]
  BY <1>3, <1>6
<1> QED
  BY <1>2, <1>6, <1>7, <1>8, <1>9, <1>10, OtherKeepsInv

\* The save that changed goes on, and the others are as they were.
LEMMA SaveGoesOn ==
    ASSUME SavesAreGood, NEW t \in Savers, NEW r, s' = [s EXCEPT ![t] = r],
           r = [at |-> r.at, snap |-> r.snap, field |-> r.field, value |-> r.value,
                sync |-> r.sync],
           r.at \in {"idle", "write", "flush", "sync"},
           r.sync \in {"none", "provider", "web"}, GoodFile(r.snap)
    PROVE  /\ SavesAreGood' /\ s'[t] = r /\ \A u \in Savers : u # t => s'[u] = s[u]
<1>1. s = [u \in Savers |-> s[u]]
  BY DEF SavesAreGood
<1>2. /\ s' = [u \in Savers |-> s'[u]] /\ s'[t] = r
      /\ \A u \in Savers : u # t => s'[u] = s[u]
  BY <1>1
<1>3. ASSUME NEW u \in Savers
      PROVE  /\ s'[u] = [at |-> s'[u].at, snap |-> s'[u].snap, field |-> s'[u].field,
                         value |-> s'[u].value, sync |-> s'[u].sync]
             /\ s'[u].at \in {"idle", "write", "flush", "sync"}
             /\ s'[u].sync \in {"none", "provider", "web"}
             /\ GoodFile(s'[u].snap)
  <2>1. CASE u = t
    BY <1>2, <2>1
  <2>2. CASE u # t
    <3>1. s'[u] = s[u]
      BY <1>2, <2>2
    <3> QED
      BY <3>1 DEF SavesAreGood
  <2> QED
    BY <2>1, <2>2
<1>4. SavesAreGood'
  BY <1>2, <1>3 DEF SavesAreGood
<1> QED
  BY <1>2, <1>4

\* The rewrite: the file is empty, ...
LEMMA TruncateKeepsInv ==
    ASSUME StoredInv, NEW t \in Savers, Stored!Truncate(t) PROVE StoredInv'
<1> DEFINE r == [at |-> "flush", snap |-> s[t].snap, field |-> s[t].field,
                 value |-> s[t].value, sync |-> s[t].sync]
<1>1. /\ SavesAreGood
      /\ s[t] = [at |-> s[t].at, snap |-> s[t].snap, field |-> s[t].field,
                 value |-> s[t].value, sync |-> s[t].sync]
      /\ s[t].sync \in {"none", "provider", "web"} /\ GoodFile(s[t].snap)
  BY DEF StoredInv, SavesAreGood
<1>2. [s[t] EXCEPT !.at = "flush"] = r
  BY <1>1
<1>3. s' = [s EXCEPT ![t] = r]
  BY <1>2 DEF Stored!Truncate
<1>4. /\ s[t].at = "write" /\ env' = Stored!Empty
      /\ web' = web /\ kept' = kept /\ before' = before
  BY DEF Stored!Truncate
<1>5. /\ r.at = "flush" /\ r.snap = s[t].snap /\ r.field = s[t].field
      /\ r.value = s[t].value /\ r.sync = s[t].sync
      /\ r = [at |-> r.at, snap |-> r.snap, field |-> r.field, value |-> r.value,
              sync |-> r.sync]
  OBVIOUS
<1> HIDE DEF r
<1>6. /\ SavesAreGood' /\ s'[t] = r /\ \A u \in Savers : u # t => s'[u] = s[u]
  BY <1>1, <1>3, <1>5, SaveGoesOn
<1>7. GoodFile(env') /\ env'.prev = <<>>
  BY <1>4, EmptyIsGood
<1>8. ASSUME Serial PROVE (OneSave /\ PlainIsKept /\ FlagIsFollowed /\ PresetRemembers)'
  <2>1. OneSave /\ PlainIsKept /\ FlagIsFollowed /\ PresetRemembers
    BY <1>8 DEF StoredInv
  <2>2. \A u \in Savers : u # t => s'[u].at = "idle"
    BY <1>4, <1>6, <2>1 DEF OneSave
  <2>3. OneSave'
    BY <2>2 DEF OneSave
  <2>4. Writing(t) /\ \A u \in Savers : Writing(u)' => u = t
    BY <1>4, <2>2 DEF Writing
  <2>5. s'[t].at = "flush"
    BY <1>5, <1>6
  <2>6. PlainIsKept'
    <3>1. kept' = [k \in Plain |-> kept'[k]] /\ \A k \in Plain : kept'[k] # Stored!Unset
      BY <1>4, <2>1 DEF PlainIsKept
    <3>2. ASSUME NEW u \in Savers, Writing(u)', NEW k \in Plain
          PROVE  /\ s'[u].snap.plain[k] = IF k = s'[u].field THEN s'[u].value ELSE kept'[k]
                 /\ k = s'[u].field => s'[u].value # Stored!Unset
      <4>1. /\ u = t
            /\ s[t].snap.plain[k] = IF k = s[t].field THEN s[t].value ELSE kept[k]
            /\ k = s[t].field => s[t].value # Stored!Unset
        BY <2>1, <2>4, <3>2 DEF PlainIsKept
      <4> QED
        BY <1>4, <1>5, <1>6, <4>1
    <3> QED
      BY <2>5, <3>1, <3>2 DEF PlainIsKept
  <2>7. FlagIsFollowed'
    <3>1. ASSUME NEW u \in Savers, Writing(u)', s'[u].sync # "web"
          PROVE  web' <=> s'[u].snap.effective.web_research = "on"
      <4>1. u = t /\ s'[u].sync = s[t].sync /\ s'[u].snap = s[t].snap
        BY <1>5, <1>6, <2>4, <3>1
      <4> QED
        BY <1>4, <2>1, <2>4, <3>1, <4>1 DEF FlagIsFollowed
    <3> QED
      BY <2>5, <3>1 DEF FlagIsFollowed
  <2>8. PresetRemembers'
    <3>1. ASSUME NEW u \in Savers, Writing(u)', s'[u].snap.prev # <<>>
          PROVE  s'[u].snap.prev[1] = before'
      <4>1. u = t /\ s'[u].snap = s[t].snap
        BY <1>5, <1>6, <2>4, <3>1
      <4> QED
        BY <1>4, <2>1, <2>4, <3>1, <4>1 DEF PresetRemembers
    <3> QED
      BY <1>7, <3>1 DEF PresetRemembers
  <2> QED
    BY <2>3, <2>6, <2>7, <2>8
<1> QED
  BY <1>6, <1>7, <1>8 DEF StoredInv

\* ... and becomes the snapshot.
LEMMA FlushKeepsInv ==
    ASSUME StoredInv, NEW t \in Savers, Stored!Flush(t) PROVE StoredInv'
<1> DEFINE r == IF s[t].sync = "none" THEN Stored!IdleSave
                ELSE [Stored!IdleSave EXCEPT !.at = "sync", !.sync = s[t].sync]
           stage == IF s[t].sync = "none" THEN "idle" ELSE "sync"
<1>1. /\ SavesAreGood
      /\ s[t].sync \in {"none", "provider", "web"} /\ GoodFile(s[t].snap)
  BY DEF StoredInv, SavesAreGood
<1>2. r = [at |-> stage, snap |-> Stored!Empty, field |-> Stored!None, value |-> Stored!None,
           sync |-> s[t].sync]
  BY DEF Stored!IdleSave
<1>3. /\ s[t].at = "flush" /\ env' = s[t].snap /\ web' = web /\ before' = before
      /\ kept' = [k \in Plain |-> IF k = s[t].field THEN s[t].value ELSE kept[k]]
      /\ s' = [s EXCEPT ![t] = r]
  BY DEF Stored!Flush
<1> HIDE DEF r
<1>4. /\ r.at = stage /\ r.snap = Stored!Empty /\ r.sync = s[t].sync
      /\ r = [at |-> r.at, snap |-> r.snap, field |-> r.field, value |-> r.value,
              sync |-> r.sync]
  BY <1>2
<1>5. /\ SavesAreGood' /\ s'[t] = r /\ \A u \in Savers : u # t => s'[u] = s[u]
  BY <1>1, <1>3, <1>4, EmptyIsGood, SaveGoesOn
<1>6. ASSUME Serial PROVE (OneSave /\ PlainIsKept /\ FlagIsFollowed /\ PresetRemembers)'
  <2>1. OneSave /\ PlainIsKept /\ FlagIsFollowed /\ PresetRemembers
    BY <1>6 DEF StoredInv
  <2>2. \A u \in Savers : u # t => s'[u].at = "idle"
    BY <1>3, <1>5, <2>1 DEF OneSave
  <2>3. OneSave'
    BY <2>2 DEF OneSave
  <2>4. Writing(t) /\ \A u \in Savers : ~Writing(u)' /\ s'[u].at # "flush"
    BY <1>3, <1>4, <1>5, <2>2 DEF Writing
  <2>5. PlainIsKept'
    <3>1. ASSUME NEW k \in Plain PROVE kept'[k] # Stored!Unset /\ env'.plain[k] = kept'[k]
      <4>1. /\ kept[k] # Stored!Unset
            /\ s[t].snap.plain[k] = IF k = s[t].field THEN s[t].value ELSE kept[k]
            /\ k = s[t].field => s[t].value # Stored!Unset
        BY <2>1, <2>4 DEF PlainIsKept
      <4> QED
        BY <1>3, <4>1
    <3>2. kept' = [k \in Plain |-> kept'[k]]
      BY <1>3
    <3> QED
      BY <2>4, <3>1, <3>2 DEF PlainIsKept
  <2>6. FlagIsFollowed'
    <3>1. CASE s[t].sync = "web"
      BY <1>4, <1>5, <2>4, <3>1 DEF FlagIsFollowed
    <3>2. CASE s[t].sync # "web"
      <4>1. web <=> s[t].snap.effective.web_research = "on"
        BY <2>1, <2>4, <3>2 DEF FlagIsFollowed
      <4> QED
        BY <1>3, <2>4, <4>1 DEF FlagIsFollowed
    <3> QED
      BY <3>1, <3>2
  <2>7. PresetRemembers'
    BY <1>3, <2>1, <2>4 DEF PresetRemembers
  <2> QED
    BY <2>3, <2>5, <2>6, <2>7
<1> QED
  BY <1>1, <1>3, <1>5, <1>6 DEF StoredInv

\* The agent's copies are written.
LEMMA SyncKeepsInv ==
    ASSUME StoredInv, NEW t \in Savers, Stored!Sync(t) PROVE StoredInv'
<1>1. /\ s' = [s EXCEPT ![t] = Stored!IdleSave] /\ s[t].at = "sync"
      /\ env' = env /\ kept' = kept /\ before' = before
      /\ IF s[t].sync = "provider" THEN web' = web
         ELSE web' <=> Stored!ReadEnvFile.effective.web_research = "on"
  BY Zenon DEF Stored!Sync, Stored!WriteWebResearchSecret
<1>2. /\ Stored!IdleSave.at = "idle" /\ Stored!IdleSave.snap = Stored!Empty
      /\ Stored!IdleSave.sync = "none"
      /\ Stored!IdleSave = [at |-> Stored!IdleSave.at, snap |-> Stored!IdleSave.snap,
                            field |-> Stored!IdleSave.field, value |-> Stored!IdleSave.value,
                            sync |-> Stored!IdleSave.sync]
  BY DEF Stored!IdleSave
<1>3. GoodFile(env) /\ SavesAreGood
  BY DEF StoredInv
<1>4. /\ SavesAreGood' /\ s'[t] = Stored!IdleSave
      /\ \A u \in Savers : u # t => s'[u] = s[u]
  BY <1>1, <1>2, <1>3, EmptyIsGood, SaveGoesOn
<1>5. ASSUME Serial PROVE (OneSave /\ PlainIsKept /\ FlagIsFollowed /\ PresetRemembers)'
  <2>1. OneSave /\ PlainIsKept /\ FlagIsFollowed /\ PresetRemembers
    BY <1>5 DEF StoredInv
  <2>2. \A u \in Savers : s'[u].at = "idle" /\ (u # t => s[u].at = "idle")
    BY <1>1, <1>2, <1>4, <2>1 DEF OneSave
  <2>3. \A u \in Savers : ~Writing(u)' /\ s[u].at # "flush"
    BY <1>1, <2>2 DEF Writing
  <2>4. web' <=> env'.effective.web_research = "on"
    <3>1. CASE s[t].sync = "provider"
      BY <1>1, <2>1, <2>2, <2>3, <3>1 DEF FlagIsFollowed
    <3>2. CASE s[t].sync # "provider"
      BY <1>1, <3>2, ReadsTheFile
    <3> QED
      BY <3>1, <3>2
  <2> QED
    BY <1>1, <2>1, <2>2, <2>3, <2>4 DEF OneSave, PlainIsKept, FlagIsFollowed, PresetRemembers
<1> QED
  BY <1>1, <1>3, <1>4, <1>5 DEF StoredInv

\* The API starts again.
LEMMA RestartKeepsInv ==
    ASSUME StoredInv, Stored!Restart PROVE StoredInv'
<1>1. /\ s' = [t \in Savers |-> Stored!IdleSave] /\ env' = env /\ kept' = kept
      /\ \A t \in Savers : s[t].at # "flush"
      /\ before' = IF env.prev = <<>> THEN [c \in Stored!Controls |-> Stored!Unset] ELSE before
  BY DEF Stored!Restart
<1>2. web' <=> env.effective.web_research = "on"
  <2>1. web' <=> Stored!ReadEnvFile.effective.web_research = "on"
    BY Zenon DEF Stored!Restart, Stored!WriteWebResearchSecret
  <2> QED
    BY <2>1, ReadsTheFile
<1>3. /\ Stored!IdleSave.at = "idle" /\ Stored!IdleSave.snap = Stored!Empty
      /\ Stored!IdleSave.sync = "none"
      /\ Stored!IdleSave = [at |-> Stored!IdleSave.at, snap |-> Stored!IdleSave.snap,
                            field |-> Stored!IdleSave.field, value |-> Stored!IdleSave.value,
                            sync |-> Stored!IdleSave.sync]
  BY DEF Stored!IdleSave
<1>4. GoodFile(env') /\ SavesAreGood'
  BY <1>1, <1>3, EmptyIsGood DEF StoredInv, SavesAreGood
<1>5. \A t \in Savers : s'[t].at = "idle" /\ ~Writing(t)'
  BY <1>1, <1>3 DEF Writing
<1>6. ASSUME Serial PROVE (OneSave /\ PlainIsKept /\ FlagIsFollowed /\ PresetRemembers)'
  <2>1. OneSave /\ PlainIsKept /\ FlagIsFollowed /\ PresetRemembers
    BY <1>6 DEF StoredInv
  <2> QED
    BY <1>1, <1>2, <1>5, <2>1 DEF OneSave, PlainIsKept, FlagIsFollowed, PresetRemembers
<1> QED
  BY <1>4, <1>6 DEF StoredInv

-----------------------------------------------------------------------------
\* The settings as they are installed.
LEMMA StoredInit == ASSUME Stored!Init PROVE StoredInv
<1> DEFINE plain == [k \in Plain |-> "old"]
           hosted == Providers \ OnPrem
           active == CHOOSE p \in hosted : TRUE
           none == [c \in Stored!Controls |-> Stored!Unset]
<1>1. /\ env = Stored!Installed /\ web = FALSE /\ kept = Stored!Installed.plain
      /\ s = [t \in Savers |-> Stored!IdleSave] /\ before = none
  BY DEF Stored!Init
<1>2. Stored!Installed = [Stored!Empty EXCEPT !.plain = plain, !.providers = hosted,
                                               !.active = active]
  BY Zenon DEF Stored!Installed
<1>3. OfControls(none) /\ none["llm_egress"] = Stored!Unset /\ none["web_research"] = Stored!Unset
  BY DEF OfControls, Stored!Controls
<1> HIDE DEF hosted, active, none
<1>4. Stored!Empty = [plain |-> [k \in Plain |-> Stored!Unset], profile |-> Stored!Unset,
                      pi |-> FALSE, providers |-> {}, active |-> Stored!None, order |-> <<>>,
                      control |-> none, effective |-> none, days |-> 0, prev |-> <<>>]
  BY DEF Stored!Empty, none
<1>5. env = [plain |-> plain, profile |-> Stored!Unset, pi |-> FALSE, providers |-> hosted,
             active |-> active, order |-> <<>>, control |-> none, effective |-> none,
             days |-> 0, prev |-> <<>>]
  BY <1>1, <1>2, <1>4
<1>6. plain = [k \in Plain |-> plain[k]] /\ \A k \in Plain : plain[k] # Stored!Unset
  BY DEF Stored!Unset
<1> HIDE DEF plain
<1>7. IsFile(env)
  BY <1>3, <1>5, <1>6 DEF IsFile
<1>8. ProfileHasAgent(env) /\ ControlsAreEffective(env) /\ env.effective.web_research # "on"
  BY <1>3, <1>5 DEF ProfileHasAgent, ControlsAreEffective, Stored!Unset
<1>9. /\ Stored!IdleSave.at = "idle" /\ Stored!IdleSave.snap = Stored!Empty
      /\ Stored!IdleSave.sync = "none"
      /\ Stored!IdleSave = [at |-> Stored!IdleSave.at, snap |-> Stored!IdleSave.snap,
                            field |-> Stored!IdleSave.field, value |-> Stored!IdleSave.value,
                            sync |-> Stored!IdleSave.sync]
  BY DEF Stored!IdleSave
<1>10. SavesAreGood
  BY <1>1, <1>9, EmptyIsGood DEF SavesAreGood
<1>11. \A t \in Savers : s[t].at = "idle" /\ ~Writing(t)
  BY <1>1, <1>9 DEF Writing
<1>12. kept = plain /\ env.plain = plain /\ env.prev = <<>>
  BY <1>1, <1>5
<1>13. OneSave /\ PlainIsKept /\ FlagIsFollowed /\ PresetRemembers
  BY <1>1, <1>6, <1>8, <1>11, <1>12 DEF OneSave, PlainIsKept, FlagIsFollowed, PresetRemembers
<1> QED
  BY <1>7, <1>8, <1>10, <1>13 DEF StoredInv, GoodFile

\* Every step of the settings.
LEMMA StoredStep == ASSUME StoredInv, [Stored!Next]_(Stored!vars) PROVE StoredInv'
<1>1. ASSUME UNCHANGED (Stored!vars) PROVE StoredInv'
  <2>1. /\ env' = env /\ secret' = secret /\ web' = web /\ s' = s /\ kept' = kept
        /\ before' = before
    BY <1>1 DEF Stored!vars
  <2> QED
    BY <2>1 DEF StoredInv, SavesAreGood, OneSave, PlainIsKept, FlagIsFollowed, PresetRemembers,
                Writing
<1>2. ASSUME Stored!Next PROVE StoredInv'
  BY <1>2, SectionKeepsInv, PolicyKeepsInv, ProvidersKeepInv, ComplianceKeepsInv,
     PresetKeepsInv, RevertKeepsInv, SetupKeepsInv, TruncateKeepsInv, FlushKeepsInv,
     SyncKeepsInv, RestartKeepsInv, Zenon DEF Stored!Next
<1> QED
  BY <1>1, <1>2

\* What the invariant says of the settings.
LEMMA StoredInvImplies ==
    ASSUME StoredInv PROVE Stored!SettingsAgree /\ (Serial => SettingsHold)
<1>1. Stored!SettingsAgree
  BY DEF StoredInv, GoodFile, ProfileHasAgent, ControlsAreEffective, Stored!SettingsAgree
<1>2. ASSUME Serial PROVE SettingsHold
  <2>1. PlainIsKept /\ FlagIsFollowed /\ PresetRemembers
    BY <1>2 DEF StoredInv
  <2>2. Stored!WebFlagFollows /\ Stored!SavedIsKept
    BY <2>1 DEF PlainIsKept, FlagIsFollowed, Stored!WebFlagFollows, Stored!SavedIsKept,
                Stored!Quiet
  <2>3. Stored!PresetIsReversible
    BY <2>1 DEF PresetRemembers, Stored!PresetIsReversible
  <2> QED
    BY <1>1, <2>2, <2>3 DEF SettingsHold
<1> QED
  BY <1>1, <1>2

-----------------------------------------------------------------------------
(* The types of the scheduler, of the updates and of the copies.           *)

\* Scheduler: no job is written without its ticket, and the tickets are bounded.
JobsHaveTickets == \A p \in Timed!Periods : jobs[p] <= tickets[p]

TimedTyped == Timed!TypeOK /\ JobsHaveTickets

LEMMA TimedBounds ==
    MaxPeriod \in Nat /\ MaxWindowsRuns \in Nat /\ MaxSchedulerFaults \in Nat
BY ApplianceAssumption, BoundsAssumption

LEMMA TimedTypedInit == ASSUME Timed!Init PROVE TimedTyped
<1>1. 0 \in Timed!Periods /\ 0 \in 0..MaxWindowsRuns /\ 0 \in 0..MaxSchedulerFaults
  BY TimedBounds DEF Timed!Periods
<1>2. /\ jobs \in [Timed!Periods -> 0..MaxWindowsRuns]
      /\ tickets \in [Timed!Periods -> 0..MaxWindowsRuns]
      /\ \A p \in Timed!Periods : jobs[p] <= tickets[p]
  BY <1>1 DEF Timed!Init
<1> QED
  BY <1>1, <1>2 DEF Timed!Init, Timed!None, Timed!Logins, Timed!TypeOK, JobsHaveTickets, TimedTyped

LEMMA TimedFault ==
    ASSUME TimedTyped, \/ timedFaults' = timedFaults
                       \/ Timed!Fault
    PROVE  timedFaults' \in 0..MaxSchedulerFaults
BY BoundsAssumption DEF TimedTyped, Timed!TypeOK, Timed!Fault

\* The run of a period is queued: a ticket and, unless the call fails, a job.
LEMMA TimedQueues ==
    ASSUME TimedTyped, tickets[period] < MaxWindowsRuns,
           tickets' = [tickets EXCEPT ![period] = @ + 1],
           jobs' = jobs \/ jobs' = [jobs EXCEPT ![period] = @ + 1]
    PROVE  /\ jobs' \in [Timed!Periods -> 0..MaxWindowsRuns]
           /\ tickets' \in [Timed!Periods -> 0..MaxWindowsRuns]
           /\ JobsHaveTickets'
<1>1. /\ jobs \in [Timed!Periods -> 0..MaxWindowsRuns]
      /\ tickets \in [Timed!Periods -> 0..MaxWindowsRuns]
      /\ period \in Timed!Periods
      /\ \A p \in Timed!Periods : jobs[p] <= tickets[p]
      /\ MaxWindowsRuns \in Nat
  BY BoundsAssumption DEF TimedTyped, Timed!TypeOK, JobsHaveTickets
<1>2. /\ tickets[period] + 1 \in 0..MaxWindowsRuns
      /\ jobs[period] + 1 \in 0..MaxWindowsRuns
  BY <1>1
<1>3. /\ tickets' \in [Timed!Periods -> 0..MaxWindowsRuns]
      /\ jobs' \in [Timed!Periods -> 0..MaxWindowsRuns]
  BY <1>1, <1>2
<1>4. ASSUME NEW p \in Timed!Periods PROVE jobs'[p] <= tickets'[p]
  <2>1. jobs[p] \in 0..MaxWindowsRuns /\ tickets[p] \in 0..MaxWindowsRuns /\ jobs[p] <= tickets[p]
    BY <1>1
  <2>2. tickets'[p] = IF p = period THEN tickets[p] + 1 ELSE tickets[p]
    BY <1>1
  <2>3. jobs'[p] = jobs[p] \/ (p = period /\ jobs'[p] = jobs[p] + 1)
    BY <1>1
  <2> QED
    BY <2>1, <2>2, <2>3
<1> QED
  BY <1>3, <1>4 DEF JobsHaveTickets

LEMMA TimedTypedStep == ASSUME TimedTyped, [Timed!Next]_(Timed!vars) PROVE TimedTyped'
<1> USE DEF Timed!auth, Timed!windows, Timed!verify, Timed!clock
<1>1. /\ proc \in {"down", "starting", "loop"} /\ login \in Timed!Logins
      /\ failing \in {"no", "begun", "long"} /\ logged \in BOOLEAN /\ incident \in BOOLEAN
      /\ period \in Timed!Periods /\ due \in BOOLEAN
      /\ mark \in Timed!Periods \cup {Timed!None} /\ scanned \in Timed!Periods \cup {Timed!None}
      /\ guard \subseteq Timed!Periods /\ spoiled \subseteq Timed!Periods
      /\ jobs \in [Timed!Periods -> 0..MaxWindowsRuns]
      /\ tickets \in [Timed!Periods -> 0..MaxWindowsRuns]
      /\ device \in [status : {"online", "offline", "pending"}, job : BOOLEAN]
      /\ cool \in BOOLEAN /\ timedFaults \in 0..MaxSchedulerFaults
      /\ JobsHaveTickets
  BY Zenon DEF TimedTyped, Timed!TypeOK
<1>2. CASE Timed!Start
  <2>1. proc' \in {"down", "starting", "loop"}
    BY <1>2, Zenon DEF Timed!Start
  <2> QED
    BY <1>1, <1>2, <2>1 DEF Timed!Start, TimedTyped, Timed!TypeOK, JobsHaveTickets
<1>3. CASE Timed!Restart
  BY <1>1, <1>3 DEF Timed!Restart, Timed!Forget, TimedTyped, Timed!TypeOK, JobsHaveTickets
<1>4. CASE Timed!Dies
  BY <1>1, <1>4, TimedFault DEF Timed!Dies, TimedTyped, Timed!TypeOK, JobsHaveTickets
<1>5. CASE Timed!Login
  <2>1. failing' \in {"no", "begun", "long"}
    BY <1>1, <1>5, Zenon DEF Timed!Login
  <2>2. logged' \in BOOLEAN /\ incident' \in BOOLEAN
    BY <1>1, <1>5, Zenon DEF Timed!Login, Timed!Logs
  <2>3. timedFaults' = timedFaults \/ Timed!Fault
    BY <1>5, Zenon DEF Timed!Login, Timed!Logs
  <2>4. timedFaults' \in 0..MaxSchedulerFaults
    BY <2>3, TimedFault
  <2>5. UNCHANGED <<proc, login, Timed!clock, Timed!windows, scanned, Timed!verify>>
    BY <1>5 DEF Timed!Login
  <2> QED
    BY <1>1, <2>1, <2>2, <2>4, <2>5, Zenon DEF TimedTyped, Timed!TypeOK, JobsHaveTickets
<1>6. CASE Timed!QueueWindows
  <2>1. /\ jobs' \in [Timed!Periods -> 0..MaxWindowsRuns]
        /\ tickets' \in [Timed!Periods -> 0..MaxWindowsRuns]
        /\ JobsHaveTickets'
    BY <1>6, TimedQueues DEF Timed!QueueWindows
  <2>2. timedFaults' \in 0..MaxSchedulerFaults
    BY <1>6, TimedFault DEF Timed!QueueWindows
  <2> QED
    BY <1>1, <1>6, <2>1, <2>2 DEF Timed!QueueWindows, TimedTyped, Timed!TypeOK
<1>7. CASE Timed!DiesUnmarked
  <2>1. /\ jobs' \in [Timed!Periods -> 0..MaxWindowsRuns]
        /\ tickets' \in [Timed!Periods -> 0..MaxWindowsRuns]
        /\ JobsHaveTickets'
    BY <1>7, TimedQueues DEF Timed!DiesUnmarked
  <2>2. timedFaults' \in 0..MaxSchedulerFaults
    BY <1>7, TimedFault DEF Timed!DiesUnmarked
  <2> QED
    BY <1>1, <1>7, <2>1, <2>2 DEF Timed!DiesUnmarked, TimedTyped, Timed!TypeOK
<1>8. CASE Timed!QueueScan
  BY <1>1, <1>8 DEF Timed!QueueScan, TimedTyped, Timed!TypeOK, JobsHaveTickets
<1>9. CASE Timed!Verify
  <2>1. timedFaults' \in 0..MaxSchedulerFaults
    BY <1>9, TimedFault DEF Timed!Verify
  <2>2. cool' \in BOOLEAN
    BY <1>9, Zenon DEF Timed!Verify
  <2>3. device' = [status |-> "pending", job |-> TRUE] \/ device' = device
    BY <1>9 DEF Timed!Verify
  <2>4. device' \in [status : {"online", "offline", "pending"}, job : BOOLEAN]
    <3>1. [status |-> "pending", job |-> TRUE]
            \in [status : {"online", "offline", "pending"}, job : BOOLEAN]
      OBVIOUS
    <3> QED
      BY <1>1, <2>3, <3>1, Zenon
  <2>5. UNCHANGED <<proc, Timed!auth, Timed!clock, Timed!windows, scanned>>
    BY <1>9, Zenon DEF Timed!Verify
  <2> QED
    BY <1>1, <2>1, <2>2, <2>4, <2>5 DEF TimedTyped, Timed!TypeOK, JobsHaveTickets
<1>10. CASE Timed!Verified
  <2>1. timedFaults' \in 0..MaxSchedulerFaults
    BY <1>10, TimedFault DEF Timed!Verified
  <2>2. device' \in [status : {"online", "offline", "pending"}, job : BOOLEAN]
    BY <1>1, <1>10 DEF Timed!Verified
  <2>3. UNCHANGED <<proc, Timed!auth, Timed!clock, Timed!windows, scanned, cool>>
    BY <1>10, Zenon DEF Timed!Verified
  <2> QED
    BY <1>1, <2>1, <2>2, <2>3 DEF TimedTyped, Timed!TypeOK, JobsHaveTickets
<1>11. CASE Timed!ApiChanges \/ Timed!Cools \/ Timed!GoesOffline
  BY <1>1, <1>11 DEF Timed!ApiChanges, Timed!Cools, Timed!GoesOffline, TimedTyped, Timed!TypeOK,
     JobsHaveTickets
<1>12. CASE Timed!Time
  <2>1. period' \in Timed!Periods /\ due' \in BOOLEAN
    <3>1. period \in 0..MaxPeriod /\ MaxPeriod \in Nat
      BY <1>1, TimedBounds DEF Timed!Periods
    <3>2. \/ period' = period /\ due' = TRUE
          \/ period < MaxPeriod /\ period' = period + 1 /\ due' = FALSE
      BY <1>12 DEF Timed!Time
    <3>3. period' \in 0..MaxPeriod
      BY <3>1, <3>2
    <3>4. due' \in BOOLEAN
      BY <3>2
    <3> QED
      BY <3>3, <3>4, Zenon DEF Timed!Periods
  <2> QED
    BY <1>1, <1>12, <2>1 DEF Timed!Time, TimedTyped, Timed!TypeOK, JobsHaveTickets
<1>13. CASE UNCHANGED Timed!vars
  BY <1>1, <1>13 DEF Timed!vars, TimedTyped, Timed!TypeOK, JobsHaveTickets
<1> QED
  BY <1>2, <1>3, <1>4, <1>5, <1>6, <1>7, <1>8, <1>9, <1>10, <1>11, <1>12, <1>13, Zenon
     DEF Timed!Next

-----------------------------------------------------------------------------
(* SelfUpdate: the types, and what each phase has at hand.                   *)

\* A run is numbered once it has begun.
RunIsNumbered == host.at # "idle" \/ Update!Ended => progress.at \in Update!Runs

\* The phases before the tree is flipped want a release, the build finds one in the tree.
ReleaseAtHand ==
    /\ host.at \in {"download", "backup", "extract", "apply"} => host.want \in Update!Releases
    /\ host.at = "rebuild" => tree \in Update!Releases

\* From the backup on there is something to restore.
BackupAtHand ==
    host.at \in {"extract", "apply", "rebuild", "health", "restore"} => previous # Update!None

\* The scheduler's memory and its markers have their fields.
KeysAreKept ==
    /\ memory \in [Whiches -> Update!Keys]
    /\ marker \in [Whiches -> Update!Keys]

\* What the API and the scheduler write, and what they leave alone.
ApiTyped ==
    /\ latest \in Update!Releases
    /\ clock \in [day : 0..MaxDay, hour : BOOLEAN]
    /\ sched \in [mode : Update!Modes, enabled : BOOLEAN]
    /\ status \in [there : BOOLEAN, latest : Update!Releases \cup {Update!None},
                   available : BOOLEAN]
    /\ request \in Update!Releases \cup {Update!None}
    /\ rollback \in BOOLEAN /\ trigger \in BOOLEAN

DiskTyped ==
    /\ tree \in Update!Trees \ {Update!None} /\ previous \in Update!Trees
    /\ running \in Update!Releases
    /\ host \in [at : Update!Phases, want : Update!Trees]
    /\ progress.at \in 0..MaxUpdateRuns
    /\ progress \in [stage : {"none", "snapshot", "rollback", "done", "failed"}, at : Nat]
    /\ RunIsNumbered /\ ReleaseAtHand /\ BackupAtHand

UpdateTyped == ApiTyped /\ DiskTyped /\ KeysAreKept

LEMMA UpdateBounds ==
    /\ MaxUpdateRuns \in Nat /\ MaxDay \in Nat /\ MaxRelease \in Nat \ {0}
BY ApplianceAssumption, BoundsAssumption

LEMMA NoKeyIsOne == Update!NoMemory \in [Whiches -> Update!Keys]
BY DEF Update!NoMemory, Update!Keys, Whiches

LEMMA ReleasesAre ==
    /\ 1 \in Update!Releases /\ Update!None \notin Update!Releases
    /\ Update!Part \notin Update!Releases /\ Update!Part # Update!None
    /\ Update!Trees = Update!Releases \cup {Update!None, Update!Part}
BY UpdateBounds DEF Update!Releases, Update!None, Update!Part, Update!Trees

LEMMA UpdateTypedInit == ASSUME Update!Init PROVE UpdateTyped
<1> USE DEF Update!Init
<1>1. /\ 0 \in 0..MaxDay /\ 0 \in 0..MaxUpdateRuns /\ 1 \in Update!Releases
      /\ Update!NoRun.at = "idle" /\ Update!NoRun \in [at : Update!Phases, want : Update!Trees]
  BY UpdateBounds, ReleasesAre DEF Update!NoRun, Update!Phases
<1>2. KeysAreKept
  BY NoKeyIsOne DEF KeysAreKept
<1>3. ApiTyped
  BY <1>1, ReleasesAre DEF ApiTyped
<1>4. RunIsNumbered /\ ReleaseAtHand /\ BackupAtHand
  BY <1>1 DEF RunIsNumbered, ReleaseAtHand, BackupAtHand, Update!Ended
<1>5. DiskTyped
  BY <1>1, <1>4, ReleasesAre DEF DiskTyped
<1> QED
  BY <1>2, <1>3, <1>5 DEF UpdateTyped

LEMMA UpdateTypedImplies == UpdateTyped => Update!TypeOK
<1>1. KeysAreKept
      => {memory.update, memory.report, marker.update, marker.report} \subseteq Update!Keys
  BY DEF KeysAreKept, Whiches
<1> QED
  BY <1>1, Zenon DEF UpdateTyped, ApiTyped, DiskTyped, Update!TypeOK

LEMMA DiskStays ==
    ASSUME DiskTyped, UNCHANGED <<tree, previous, running, host, progress>>
    PROVE  DiskTyped'
BY DEF DiskTyped, RunIsNumbered, ReleaseAtHand, BackupAtHand, Update!Ended

\* What a check finds, and what a request writes.
LEMMA ChecksAreTyped ==
    ASSUME ApiTyped, running \in Update!Releases
    PROVE  /\ {Update!Checked, Update!Known} \subseteq
                [there : BOOLEAN, latest : Update!Releases \cup {Update!None}, available : BOOLEAN]
           /\ Update!UpdateNow => /\ request' \in Update!Releases \cup {Update!None}
                                 /\ trigger' \in BOOLEAN
<1>1. Update!Checked \in
        [there : BOOLEAN, latest : Update!Releases \cup {Update!None}, available : BOOLEAN]
  BY DEF ApiTyped, Update!Checked
<1>2. Update!Known \in
        [there : BOOLEAN, latest : Update!Releases \cup {Update!None}, available : BOOLEAN]
  BY <1>1 DEF ApiTyped, Update!Known
<1>3. Update!UpdateNow => /\ request' = Update!Known.latest
                          /\ trigger' = TRUE \/ trigger' = trigger
  BY Zenon DEF Update!UpdateNow, Update!Writes
<1> QED
  BY <1>1, <1>2, <1>3 DEF ApiTyped

LEMMA ApiStepTyped ==
    ASSUME ApiTyped, running \in Update!Releases,
           \/ Update!UpdateCheck \/ Update!ByHand \/ Update!UpdateRollback \/ Update!SetSchedule
           \/ Update!Publish \/ Update!Elapse
    PROVE  ApiTyped'
<1> USE DEF ApiTyped
<1>1. CASE Update!UpdateCheck
  BY <1>1, ChecksAreTyped DEF Update!UpdateCheck
<1>2. CASE Update!ByHand
  BY <1>2, ChecksAreTyped DEF Update!ByHand
<1>3. CASE Update!UpdateRollback
  BY <1>3 DEF Update!UpdateRollback, Update!Writes
<1>4. CASE Update!SetSchedule
  <2>1. "recurring" \in Update!Modes
    BY DEF Update!Modes
  <2>2. sched' \in [mode : Update!Modes, enabled : BOOLEAN]
    <3>1. /\ [mode |-> "recurring", enabled |-> TRUE] \in [mode : Update!Modes, enabled : BOOLEAN]
          /\ [sched EXCEPT !.enabled = FALSE] \in [mode : Update!Modes, enabled : BOOLEAN]
      BY <2>1
    <3>2. \/ sched' = [mode |-> "recurring", enabled |-> TRUE]
          \/ sched' = [sched EXCEPT !.enabled = FALSE]
      BY <1>4 DEF Update!SetSchedule
    <3> QED
      BY <3>1, <3>2, Zenon
  <2> QED
    BY <1>4, <2>2 DEF Update!SetSchedule
<1>5. CASE Update!Publish
  <2>1. latest' \in Update!Releases
    BY <1>5, UpdateBounds DEF Update!Publish, Update!Releases
  <2> QED
    BY <1>5, <2>1 DEF Update!Publish
<1>6. CASE Update!Elapse
  <2>1. clock' \in [day : 0..MaxDay, hour : BOOLEAN]
    <3>1. clock.day \in Nat /\ clock.hour \in BOOLEAN
      BY UpdateBounds
    <3>2. CASE clock.hour
      <4>1. clock' = [day |-> clock.day + 1, hour |-> FALSE] /\ clock'.day <= MaxDay
        BY <1>6, <3>2 DEF Update!Elapse
      <4>2. clock.day + 1 \in 0..MaxDay
        BY <3>1, <4>1, UpdateBounds
      <4> QED
        BY <4>1, <4>2
    <3>3. CASE ~clock.hour
      <4>1. clock' = [clock EXCEPT !.hour = TRUE]
        BY <1>6, <3>3 DEF Update!Elapse
      <4> QED
        BY <4>1
    <3> QED
      BY <3>2, <3>3
  <2> QED
    BY <1>6, <2>1 DEF Update!Elapse
<1> QED
  BY <1>1, <1>2, <1>3, <1>4, <1>5, <1>6

\* The keys of what is due and of how the last run ended.
LEMMA KeysAre ==
    /\ ApiTyped => Update!Key \in Update!Keys
    /\ DiskTyped /\ Update!Ended => Update!EndKey \in Update!Keys
<1>1. ASSUME ApiTyped PROVE Update!Key \in Update!Keys
  <2>1. clock.day \in 0..MaxDay
    BY <1>1 DEF ApiTyped
  <2>2. <<"day", clock.day>> \in {"day"} \X (0..MaxDay)
    BY <2>1
  <2> QED
    BY <2>2, Zenon DEF Update!Key, Update!Keys
<1>2. ASSUME DiskTyped, Update!Ended PROVE Update!EndKey \in Update!Keys
  <2>1. progress.at \in Update!Runs /\ progress.stage \in {"done", "failed"}
    BY <1>2 DEF DiskTyped, RunIsNumbered, Update!Ended
  <2>2. <<progress.stage, progress.at>> \in {"done", "failed"} \X Update!Runs
    BY <2>1
  <2> QED
    BY <2>2, Zenon DEF Update!EndKey, Update!Keys
<1> QED
  BY <1>1, <1>2

\* One key is set.
LEMMA KeyIsSet ==
    ASSUME KeysAreKept, NEW key \in Update!Keys, NEW which \in Whiches
    PROVE  /\ [memory EXCEPT ![which] = key] \in [Whiches -> Update!Keys]
           /\ [marker EXCEPT ![which] = key] \in [Whiches -> Update!Keys]
BY DEF KeysAreKept

LEMMA SchedulerTyped ==
    ASSUME UpdateTyped, Update!Scheduler \/ Update!RestartScheduler
    PROVE  UpdateTyped'
<1>1. ApiTyped /\ DiskTyped /\ KeysAreKept
  BY DEF UpdateTyped
<1>2. CASE Update!Queue
  <2>1. DiskTyped'
    BY <1>1, <1>2, DiskStays DEF Update!Queue, Update!disk
  <2>2. KeysAreKept'
    <3>1. \/ memory' = memory
          \/ memory' = [memory EXCEPT !["update"] = Update!Key]
      BY <1>2 DEF Update!Queue
    <3>2. marker' = marker /\ "update" \in Whiches
      BY <1>2 DEF Update!Queue, Whiches
    <3> QED
      BY <1>1, <3>1, <3>2, KeysAre, KeyIsSet, Zenon DEF KeysAreKept
  <2>3. ApiTyped'
    <3>1. /\ status' = Update!Known
          /\ sched' = sched \/ sched' = [sched EXCEPT !.enabled = sched.mode = "recurring"]
          /\ UNCHANGED <<latest, clock, rollback>>
          /\ UNCHANGED <<request, trigger>> \/ Update!UpdateNow
      BY <1>2, Zenon DEF Update!Queue
    <3>2. running \in Update!Releases
      BY <1>1 DEF DiskTyped
    <3>3. sched' \in [mode : Update!Modes, enabled : BOOLEAN]
      <4>1. sched \in [mode : Update!Modes, enabled : BOOLEAN]
        BY <1>1 DEF ApiTyped
      <4>2. (sched.mode = "recurring") \in BOOLEAN
        OBVIOUS
      <4> DEFINE on == sched.mode = "recurring"
      <4>3. [sched EXCEPT !.enabled = on] \in [mode : Update!Modes, enabled : BOOLEAN]
        BY <4>1, <4>2
      <4> QED
        BY <3>1, <4>1, <4>3, Zenon
    <3> QED
      BY <1>1, <3>1, <3>2, <3>3, ChecksAreTyped DEF ApiTyped
  <2> QED
    BY <2>1, <2>2, <2>3 DEF UpdateTyped
<1>3. ASSUME NEW which \in Whiches, Update!Notify(which) \/ Update!Remember(which)
      PROVE  UpdateTyped'
  <2>1. UNCHANGED <<Update!api, Update!disk>> /\ Update!Ended
    BY <1>3, Zenon DEF Update!Notify, Update!Remember
  <2>2. DiskTyped' /\ ApiTyped'
    BY <1>1, <2>1, DiskStays DEF Update!api, Update!disk, ApiTyped
  <2>3. /\ memory' = memory \/ memory' = [memory EXCEPT ![which] = Update!EndKey]
        /\ marker' = marker \/ marker' = [marker EXCEPT ![which] = Update!EndKey]
    BY <1>3, Zenon DEF Update!Notify, Update!Remember
  <2>4. KeysAreKept'
    BY <1>1, <2>1, <2>3, KeysAre, KeyIsSet, Zenon DEF KeysAreKept
  <2> QED
    BY <2>2, <2>4 DEF UpdateTyped
<1>4. CASE Update!RestartScheduler
  <2>1. UNCHANGED <<Update!api, Update!disk, marker>> /\ memory' = Update!NoMemory
    BY <1>4, Zenon DEF Update!RestartScheduler
  <2>2. DiskTyped' /\ ApiTyped'
    BY <1>1, <2>1, DiskStays DEF Update!api, Update!disk, ApiTyped
  <2>3. KeysAreKept'
    BY <1>1, <2>1, NoKeyIsOne DEF KeysAreKept
  <2> QED
    BY <2>2, <2>3 DEF UpdateTyped
<1> QED
  BY <1>2, <1>3, <1>4, Zenon DEF Update!Scheduler, Whiches

\* The service enters a phase, or ends.
LEMMA Enters ==
    ASSUME DiskTyped, NEW phase \in Update!Phases, Update!Enter(phase)
    PROVE  /\ host' \in [at : Update!Phases, want : Update!Trees]
           /\ host'.at = phase /\ host'.want = host.want
BY DEF DiskTyped, Update!Enter

LEMMA NoRunIs ==
    Update!NoRun \in [at : Update!Phases, want : Update!Trees] /\ Update!NoRun.at = "idle"
BY ReleasesAre DEF Update!NoRun, Update!Phases

LEMMA RunEnds ==
    ASSUME DiskTyped, host.at # "idle", NEW stage \in {"done", "failed"}, host' = Update!NoRun,
           progress' = [progress EXCEPT !.stage = stage]
    PROVE  /\ host' \in [at : Update!Phases, want : Update!Trees] /\ host'.at = "idle"
           /\ progress' \in [stage : {"none", "snapshot", "rollback", "done", "failed"}, at : Nat]
           /\ progress'.at \in Update!Runs /\ progress'.at \in 0..MaxUpdateRuns
<1>1. progress \in [stage : {"none", "snapshot", "rollback", "done", "failed"}, at : Nat]
      /\ progress.at \in Update!Runs /\ progress.at \in 0..MaxUpdateRuns
  BY DEF DiskTyped, RunIsNumbered
<1>2. progress' \in [stage : {"none", "snapshot", "rollback", "done", "failed"}, at : Nat]
      /\ progress'.at = progress.at
  BY <1>1
<1> QED
  BY <1>1, <1>2, NoRunIs

LEMMA HostTyped == ASSUME UpdateTyped, Update!Host PROVE UpdateTyped'
<1> DEFINE Stages == [stage : {"none", "snapshot", "rollback", "done", "failed"}, at : Nat]
           Hosts  == [at : Update!Phases, want : Update!Trees]
           Steps  == {"download", "backup", "extract", "apply", "rebuild", "health", "verify",
                      "restore", "rebuild back"}
<1>1. ApiTyped /\ DiskTyped /\ KeysAreKept
  BY DEF UpdateTyped
<1>2. ApiTyped'
  <2>1. UNCHANGED <<latest, clock, sched, status>>
    BY Zenon DEF Update!Host, Update!Start, Update!Download, Update!Backup, Update!Extract,
       Update!Apply, Update!Rebuild, Update!Health, Update!Verify, Update!Restore,
       Update!Rollback, Update!RebuildBack, Update!Unwatched
  <2>2. /\ request' = request \/ request' = Update!None
        /\ rollback' = rollback \/ rollback' = FALSE
        /\ trigger' = trigger \/ trigger' = FALSE
    BY Zenon DEF Update!Host, Update!Start, Update!Download, Update!Backup, Update!Extract,
       Update!Apply, Update!Rebuild, Update!Health, Update!Verify, Update!Restore,
       Update!Rollback, Update!RebuildBack, Update!End
  <2> QED
    BY <1>1, <2>1, <2>2 DEF ApiTyped
<1>3. KeysAreKept'
  <2>1. (UNCHANGED <<memory, marker>>) \/ (memory' = Update!NoMemory /\ marker' = marker)
    BY Zenon DEF Update!Host, Update!Start, Update!Download, Update!Backup, Update!Extract,
       Update!Apply, Update!Rebuild, Update!Health, Update!Verify, Update!Restore,
       Update!Rollback, Update!RebuildBack, Update!Unwatched, Update!watch
  <2> QED
    BY <1>1, <2>1, NoKeyIsOne DEF KeysAreKept
<1>4. /\ tree \in Update!Releases \cup {Update!Part} /\ previous \in Update!Trees
      /\ running \in Update!Releases /\ host \in Hosts
      /\ progress \in Stages /\ progress.at \in 0..MaxUpdateRuns
      /\ host.at # "idle" => progress.at \in Update!Runs
      /\ ReleaseAtHand /\ BackupAtHand
  BY <1>1, ReleasesAre DEF DiskTyped, RunIsNumbered
<1>5. Steps \subseteq Update!Phases
  BY DEF Update!Phases
<1>6. ASSUME NEW stage \in {"done", "failed"}, host.at # "idle", host' = Update!NoRun,
             progress' = [progress EXCEPT !.stage = stage],
             tree' \in Update!Releases \cup {Update!Part}, previous' \in Update!Trees,
             running' \in Update!Releases
      PROVE  DiskTyped'
  BY <1>1, <1>6, RunEnds, ReleasesAre
     DEF DiskTyped, RunIsNumbered, ReleaseAtHand, BackupAtHand
<1>7. ASSUME NEW phase \in Steps, host.at # "idle", Update!Enter(phase), progress' = progress,
             tree' \in Update!Releases \cup {Update!Part}, previous' \in Update!Trees,
             running' \in Update!Releases,
             phase \in {"backup", "extract", "apply"} => host.want \in Update!Releases,
             phase = "rebuild" => tree' \in Update!Releases,
             phase \in {"extract", "apply", "rebuild", "health", "restore"}
                => previous' # Update!None,
             phase # "download"
      PROVE  DiskTyped'
  BY <1>1, <1>4, <1>5, <1>7, Enters, ReleasesAre
     DEF DiskTyped, RunIsNumbered, ReleaseAtHand, BackupAtHand
<1>8. CASE Update!Start
  <2>1. UNCHANGED <<tree, previous, running>>
    BY <1>8 DEF Update!Start
  <2>2. CASE UNCHANGED <<progress, host>>
    BY <1>1, <1>2, <1>3, <2>1, <2>2, DiskStays DEF UpdateTyped
  <2>3. ASSUME NEW stage \in {"snapshot", "rollback"},
               NEW phase \in {"download", "rollback"}, NEW want \in Update!Trees,
               progress.at < MaxUpdateRuns,
               progress' = [stage |-> stage, at |-> progress.at + 1],
               host' = [at |-> phase, want |-> want],
               phase = "download" => want \in Update!Releases
        PROVE  DiskTyped'
    <3>1. progress' \in Stages /\ progress'.at \in 0..MaxUpdateRuns /\ progress'.at \in Update!Runs
      BY <1>4, <2>3, UpdateBounds DEF Update!Runs
    <3>2. host' \in Hosts /\ host'.at = phase /\ host'.want = want
      BY <2>3 DEF Update!Phases
    <3> QED
      BY <1>4, <2>1, <2>3, <3>1, <3>2, ReleasesAre
         DEF DiskTyped, RunIsNumbered, ReleaseAtHand, BackupAtHand
  <2>4. request # Update!None => request \in Update!Releases /\ request \in Update!Trees
    BY <1>1, ReleasesAre DEF ApiTyped
  <2>5. \/ UNCHANGED <<progress, host>>
        \/ /\ progress.at < MaxUpdateRuns
           /\ progress' = [stage |-> "rollback", at |-> progress.at + 1]
           /\ host' = [at |-> "rollback", want |-> previous]
        \/ /\ progress.at < MaxUpdateRuns /\ request # Update!None
           /\ progress' = [stage |-> "snapshot", at |-> progress.at + 1]
           /\ host' = [at |-> "download", want |-> request]
    BY <1>8 DEF Update!Start
  <2>6. CASE /\ progress.at < MaxUpdateRuns
             /\ progress' = [stage |-> "rollback", at |-> progress.at + 1]
             /\ host' = [at |-> "rollback", want |-> previous]
    <3>1. DiskTyped'
      BY <1>4, <2>3, <2>6
    <3> QED
      BY <1>2, <1>3, <3>1 DEF UpdateTyped
  <2>7. CASE /\ progress.at < MaxUpdateRuns /\ request # Update!None
             /\ progress' = [stage |-> "snapshot", at |-> progress.at + 1]
             /\ host' = [at |-> "download", want |-> request]
    <3>1. DiskTyped'
      BY <2>3, <2>4, <2>7
    <3> QED
      BY <1>2, <1>3, <3>1 DEF UpdateTyped
  <2> QED
    BY <2>2, <2>5, <2>6, <2>7, Zenon
<1>9. CASE Update!Download
  <2>9. DiskTyped'
    BY <1>4, <1>6, <1>7, <1>9, ReleasesAre DEF Update!Download, Update!End, ReleaseAtHand
  <2> QED
    BY <1>2, <1>3, <2>9 DEF UpdateTyped
<1>10. CASE Update!Backup
  <2>9. DiskTyped'
    BY <1>4, <1>7, <1>10, ReleasesAre DEF Update!Backup, Update!End, ReleaseAtHand, BackupAtHand
  <2> QED
    BY <1>2, <1>3, <2>9 DEF UpdateTyped
<1>11. CASE Update!Extract
  <2>9. DiskTyped'
    BY <1>4, <1>6, <1>7, <1>11, ReleasesAre
       DEF Update!Extract, Update!End, ReleaseAtHand, BackupAtHand
  <2> QED
    BY <1>2, <1>3, <2>9 DEF UpdateTyped
<1>12. CASE Update!Apply
  <2>9. DiskTyped'
    BY <1>4, <1>7, <1>12, ReleasesAre DEF Update!Apply, Update!End, ReleaseAtHand, BackupAtHand
  <2> QED
    BY <1>2, <1>3, <2>9 DEF UpdateTyped
<1>13. CASE Update!Rebuild
  <2>9. DiskTyped'
    BY <1>4, <1>7, <1>13, ReleasesAre DEF Update!Rebuild, Update!End, ReleaseAtHand, BackupAtHand
  <2> QED
    BY <1>2, <1>3, <2>9 DEF UpdateTyped
<1>14. CASE Update!Health
  <2>9. DiskTyped'
    BY <1>4, <1>7, <1>14, ReleasesAre DEF Update!Health, Update!End, ReleaseAtHand, BackupAtHand
  <2> QED
    BY <1>2, <1>3, <2>9 DEF UpdateTyped
<1>15. CASE Update!Verify
  <2>9. DiskTyped'
    BY <1>4, <1>6, <1>15, ReleasesAre DEF Update!Verify, Update!End
  <2> QED
    BY <1>2, <1>3, <2>9 DEF UpdateTyped
<1>16. CASE Update!Restore
  <2>9. DiskTyped'
    BY <1>4, <1>6, <1>16, ReleasesAre DEF Update!Restore, Update!End, Update!Rebuilt,
       BackupAtHand
  <2> QED
    BY <1>2, <1>3, <2>9 DEF UpdateTyped
<1>17. CASE Update!Rollback
  <2>9. DiskTyped'
    BY <1>4, <1>6, <1>7, <1>17, ReleasesAre DEF Update!Rollback, Update!End
  <2> QED
    BY <1>2, <1>3, <2>9 DEF UpdateTyped
<1>18. CASE Update!RebuildBack
  <2>9. DiskTyped'
    BY <1>4, <1>6, <1>18, ReleasesAre DEF Update!RebuildBack, Update!Rebuilt
  <2> QED
    BY <1>2, <1>3, <2>9 DEF UpdateTyped
<1> QED
  BY <1>8, <1>9, <1>10, <1>11, <1>12, <1>13, <1>14, <1>15, <1>16, <1>17, <1>18, Zenon
     DEF Update!Host

LEMMA PowerLossTyped == ASSUME UpdateTyped, Update!PowerLoss PROVE UpdateTyped'
<1>1. ApiTyped /\ DiskTyped /\ KeysAreKept
  BY DEF UpdateTyped
<1>2. /\ UNCHANGED <<latest, clock, sched, status, request, rollback, tree, previous, running,
                     progress, marker>>
      /\ host' = Update!NoRun /\ trigger' = FALSE /\ memory' = Update!NoMemory
  BY Zenon DEF Update!PowerLoss
<1>3. ApiTyped' /\ KeysAreKept'
  BY <1>1, <1>2, NoKeyIsOne DEF ApiTyped, KeysAreKept
<1>4. DiskTyped'
  BY <1>1, <1>2, NoRunIs
     DEF DiskTyped, RunIsNumbered, ReleaseAtHand, BackupAtHand, Update!Ended
<1> QED
  BY <1>3, <1>4 DEF UpdateTyped

LEMMA UpdateTypedStep == ASSUME UpdateTyped, [Update!Next]_(Update!vars) PROVE UpdateTyped'
<1>1. ApiTyped /\ DiskTyped /\ KeysAreKept /\ running \in Update!Releases
  BY DEF UpdateTyped, DiskTyped
<1>2. CASE \/ Update!UpdateCheck \/ Update!ByHand \/ Update!UpdateRollback \/ Update!SetSchedule
           \/ Update!Publish \/ Update!Elapse
  <2>1. ApiTyped'
    BY <1>1, <1>2, ApiStepTyped
  <2>2. UNCHANGED <<Update!disk, Update!watch>>
    BY <1>2, Zenon DEF Update!UpdateCheck, Update!ByHand, Update!UpdateRollback,
       Update!SetSchedule, Update!Publish, Update!Elapse
  <2>3. DiskTyped' /\ KeysAreKept'
    BY <1>1, <2>2, DiskStays DEF Update!disk, Update!watch, KeysAreKept
  <2> QED
    BY <2>1, <2>3 DEF UpdateTyped
<1>3. CASE UNCHANGED Update!vars
  <2>1. DiskTyped'
    BY <1>1, <1>3, DiskStays DEF Update!vars, Update!disk
  <2>2. ApiTyped' /\ KeysAreKept'
    BY <1>1, <1>3 DEF Update!vars, Update!api, Update!watch, ApiTyped, KeysAreKept
  <2> QED
    BY <2>1, <2>2 DEF UpdateTyped
<1> QED
  BY <1>2, <1>3, SchedulerTyped, HostTyped, PowerLossTyped, Zenon DEF Update!Next

-----------------------------------------------------------------------------
(* OffsiteBackup: numbers within the bounds, and a key where one is used.    *)

MaxKeys == MaxUploads + MaxChanges

\* Those that look for the key may make one.
RunWants(p) == IF job[p].at \in {"key", "make"} THEN 1 ELSE 0
SaveWants   == IF save["admin"].at = "make" THEN 1 ELSE 0

\* Every key that was made, or may yet be, was paid for with a run or a save.
KeysArePaid ==
    /\ used.runs <= MaxUploads /\ used.saves <= MaxChanges /\ dek <= used.keys
    /\ used.keys + RunWants("cron") + RunWants("button") + SaveWants <= used.runs + used.saves

\* A run has its number from its start, finds a key, and keeps what it encrypted with.
RunIsBounded(p) ==
    /\ job[p].id <= MaxUploads /\ job[p].ok <= MaxUploads /\ job[p].key <= MaxKeys
    /\ job[p].at # "idle" => job[p].id # 0
    /\ job[p].at = "encrypt" => dek # 0
    /\ HasCopy(p) => job[p].key # 0

OffsiteTyped ==
    /\ OffsiteTypes
    /\ {creds, provisioned, archive} \subseteq BOOLEAN
    /\ store \subseteq Offsite!Copies /\ remote \subseteq Offsite!Copies
    /\ record \in [mode : Offsite!Modes, ok : 0..MaxUploads, failed : BOOLEAN]
    /\ KeysArePaid
    /\ \A p \in Runners : RunIsBounded(p)

LEMMA OffsiteBounds == MaxUploads \in Nat /\ MaxChanges \in Nat /\ MaxKeys \in Nat
BY ApplianceAssumption DEF MaxKeys

LEMMA WantsAre ==
    /\ \A p \in Runners : RunWants(p) \in {0, 1} /\ RunWants(p)' \in {0, 1}
    /\ SaveWants \in {0, 1} /\ SaveWants' \in {0, 1}
BY DEF RunWants, SaveWants

\* The key on file is one that was paid for.
LEMMA KeyIsBounded ==
    ASSUME OffsiteTypes, KeysArePaid
    PROVE  dek \in 0..MaxKeys /\ used.keys <= MaxKeys
<1>1. /\ dek \in Nat /\ used.keys \in Nat /\ used.runs \in Nat /\ used.saves \in Nat
  BY DEF OffsiteTypes
<1>2. RunWants("cron") \in {0, 1} /\ RunWants("button") \in {0, 1} /\ SaveWants \in {0, 1}
  BY WantsAre DEF Runners
<1> QED
  BY <1>1, <1>2, OffsiteBounds DEF KeysArePaid, MaxKeys

LEMMA OffsiteTypedInit == ASSUME Offsite!Init PROVE OffsiteTyped
<1>1. OffsiteTypes
  BY OffsiteInit DEF OffsiteInv
<1>2. /\ creds = FALSE /\ provisioned \in BOOLEAN /\ archive = FALSE /\ dek = 0
      /\ store = {} /\ remote = {} /\ record = [mode |-> "off", ok |-> 0, failed |-> FALSE]
      /\ used.runs = 0 /\ used.saves = 0 /\ used.keys = 0
      /\ save["admin"].at = "idle"
      /\ \A p \in Runners :
            job[p].at = "idle" /\ job[p].id = 0 /\ job[p].ok = 0 /\ job[p].key = 0
  BY DEF Offsite!Init, Offsite!None, Offsite!NoJob, Offsite!NoSave, Runners
<1>3. record \in [mode : Offsite!Modes, ok : 0..MaxUploads, failed : BOOLEAN]
  BY <1>2, OffsiteBounds DEF Offsite!Modes
<1>4. KeysArePaid
  <2>1. RunWants("cron") = 0 /\ RunWants("button") = 0 /\ SaveWants = 0
    BY <1>2 DEF RunWants, SaveWants, Runners
  <2> QED
    BY <1>2, <2>1, OffsiteBounds DEF KeysArePaid
<1>5. \A p \in Runners : RunIsBounded(p)
  BY <1>2, OffsiteBounds DEF RunIsBounded, HasCopy
<1> QED
  BY <1>1, <1>2, <1>3, <1>4, <1>5 DEF OffsiteTyped

LEMMA OffsiteTypedImplies == ASSUME OffsiteTyped PROVE Offsite!TypeOK
<1>1. /\ conf \in Offsite!Confs /\ twoMade \in BOOLEAN
      /\ job \in [Runners -> [at : {"idle", "key", "make", "encrypt", "upload", "prune"},
                              id : Nat, mode : Offsite!Modes, ok : Nat, key : Nat]]
      /\ save \in [{"admin"} -> [at : {"idle", "open", "make", "show", "write", "reveal"},
                                 conf : Offsite!Confs]]
  BY DEF OffsiteTyped, OffsiteTypes
<1>2. dek \in 0..(MaxUploads + MaxChanges)
  BY KeyIsBounded DEF OffsiteTyped, MaxKeys
<1> DEFINE Jobs == [at : {"idle", "key", "make", "encrypt", "upload", "prune"}, id : 0..MaxUploads,
                    mode : Offsite!Modes, ok : 0..MaxUploads, key : 0..(MaxUploads + MaxChanges)]
<1>3. ASSUME NEW p \in Runners PROVE job[p] \in Jobs
  <2>1. /\ job[p].id <= MaxUploads /\ job[p].ok <= MaxUploads
        /\ job[p].key <= MaxUploads + MaxChanges
    BY DEF OffsiteTyped, RunIsBounded, MaxKeys
  <2>2. job[p] \in [at : {"idle", "key", "make", "encrypt", "upload", "prune"},
                    id : Nat, mode : Offsite!Modes, ok : Nat, key : Nat]
    BY <1>1
  <2>3. /\ job[p].id \in 0..MaxUploads /\ job[p].ok \in 0..MaxUploads
        /\ job[p].key \in 0..(MaxUploads + MaxChanges)
    BY <2>1, <2>2, OffsiteBounds
  <2> QED
    BY <2>2, <2>3
<1>4. job \in [Runners -> Jobs]
  BY <1>1, <1>3
<1> HIDE DEF Jobs
<1> QED
  BY <1>1, <1>2, <1>4 DEF OffsiteTyped, Offsite!TypeOK, Jobs, Runners

\* What a step of a run makes of the counters.
LEMMA RunPays ==
    ASSUME OffsiteTyped, NEW p \in Runners, Offsite!Run(p)
    PROVE  /\ used'.runs <= MaxUploads /\ used'.saves = used.saves /\ dek' <= used'.keys
           /\ used.keys <= used'.keys
           /\ used'.keys + RunWants(p)' + used.runs <= used.keys + RunWants(p) + used'.runs
           /\ dek # 0 => dek' # 0
           /\ job'[p].at = "encrypt" => dek' # 0
<1>1. /\ job \in [Runners -> [at : {"idle", "key", "make", "encrypt", "upload", "prune"},
                              id : Nat, mode : Offsite!Modes, ok : Nat, key : Nat]]
      /\ used \in [runs : Nat, saves : Nat, crashes : Nat, keys : Nat] /\ dek \in Nat
      /\ used.runs <= MaxUploads /\ dek <= used.keys
      /\ job[p].at = "encrypt" => dek # 0
  BY DEF OffsiteTyped, OffsiteTypes, KeysArePaid, RunIsBounded
<1>2. CASE Offsite!Start(p)
  <2>1. used' = [used EXCEPT !["runs"] = @ + 1] /\ used["runs"] < MaxUploads /\ dek' = dek
    BY <1>2 DEF Offsite!Start, Offsite!Spend
  <2>2. used'.runs = used.runs + 1 /\ used'.saves = used.saves /\ used'.keys = used.keys
    BY <1>1, <2>1
  <2>3. job[p].at = "idle" /\ RunWants(p) = 0 /\ RunWants(p)' \in {0, 1}
    BY <1>2, WantsAre DEF Offsite!Start, RunWants
  <2>4. job'[p].at \in {"idle", "key"}
    <3>1. \/ job' = job
          \/ job' = [job EXCEPT ![p] = [at |-> "key", id |-> used.runs + 1, mode |-> conf.mode,
                                        ok |-> record.ok, key |-> 0]]
      BY <1>2 DEF Offsite!Start, Offsite!None
    <3>2. job[p].at = "idle"
      BY <1>2 DEF Offsite!Start
    <3> QED
      BY <1>1, <3>1, <3>2
  <2> QED
    BY <1>1, <2>1, <2>2, <2>3, <2>4, OffsiteBounds
<1>3. CASE Offsite!Key(p)
  <2>1. used' = used /\ dek' = dek /\ job[p].at = "key"
        /\ job'[p].at = (IF dek # 0 THEN "encrypt" ELSE "make")
    BY <1>1, <1>3 DEF Offsite!Key, Offsite!HasKey, Offsite!None
  <2>2. RunWants(p) = 1 /\ RunWants(p)' \in {0, 1}
    BY <2>1, WantsAre DEF RunWants
  <2> QED
    BY <1>1, <2>1, <2>2
<1>4. CASE Offsite!Make(p)
  <2>1. used' = [used EXCEPT !.keys = @ + 1] /\ dek' = used.keys + 1 /\ job[p].at = "make"
        /\ job'[p].at = "encrypt"
    BY <1>1, <1>4 DEF Offsite!Make, Offsite!MakeKey
  <2>2. RunWants(p) = 1 /\ RunWants(p)' = 0
    BY <2>1 DEF RunWants
  <2>3. used'.runs = used.runs /\ used'.saves = used.saves /\ used'.keys = used.keys + 1
    BY <1>1, <2>1
  <2> QED
    BY <1>1, <2>1, <2>2, <2>3
<1>5. CASE Offsite!Encrypt(p) \/ Offsite!Upload(p) \/ Offsite!Finish(p)
  <2>1. used' = used /\ dek' = dek /\ job[p].at \in {"encrypt", "upload", "prune"}
    BY <1>5 DEF Offsite!Encrypt, Offsite!Upload, Offsite!Finish
  <2>2. job'[p].at \in {"idle", "upload", "prune"}
    <3>1. \/ job' = [job EXCEPT ![p].at = "upload", ![p].key = dek]
          \/ job' = [job EXCEPT ![p].at = "prune"]
          \/ job' = [job EXCEPT ![p] = Offsite!NoJob]
      BY <1>5 DEF Offsite!Encrypt, Offsite!Upload, Offsite!Finish, Offsite!Fails
    <3>2. Offsite!NoJob.at = "idle"
      BY DEF Offsite!NoJob
    <3> QED
      BY <1>1, <3>1, <3>2
  <2>3. RunWants(p) = 0 /\ RunWants(p)' = 0
    BY <2>1, <2>2 DEF RunWants
  <2> QED
    BY <1>1, <2>1, <2>2, <2>3
<1> QED
  BY <1>2, <1>3, <1>4, <1>5 DEF Offsite!Run

\* What a run writes is numbered within the bounds.
LEMMA RunWrites ==
    ASSUME OffsiteTyped, NEW p \in Runners, Offsite!Run(p)
    PROVE  /\ store' \subseteq Offsite!Copies /\ remote' \subseteq Offsite!Copies
           /\ record' \in [mode : Offsite!Modes, ok : 0..MaxUploads, failed : BOOLEAN]
           /\ UNCHANGED <<creds, provisioned, archive>>
           /\ job'[p].id <= MaxUploads /\ job'[p].ok <= MaxUploads /\ job'[p].key <= MaxKeys
           /\ job'[p].at # "idle" => job'[p].id # 0
           /\ job'[p].at \in {"upload", "prune"} => job'[p].key # 0
<1>1. /\ job \in [Runners -> [at : {"idle", "key", "make", "encrypt", "upload", "prune"},
                              id : Nat, mode : Offsite!Modes, ok : Nat, key : Nat]]
      /\ conf.mode \in Offsite!Modes /\ "off" \in Offsite!Modes
      /\ store \subseteq Offsite!Copies /\ remote \subseteq Offsite!Copies
      /\ record \in [mode : Offsite!Modes, ok : 0..MaxUploads, failed : BOOLEAN]
      /\ used.runs \in Nat
  BY DEF OffsiteTyped, OffsiteTypes, Offsite!Confs, Offsite!Modes
<1>2. /\ job[p].id <= MaxUploads /\ job[p].ok <= MaxUploads /\ job[p].key <= MaxKeys
      /\ job[p].at # "idle" => job[p].id # 0
      /\ job[p].at = "encrypt" => dek # 0
      /\ job[p].at \in {"upload", "prune"} => job[p].key # 0
  BY DEF OffsiteTyped, RunIsBounded, HasCopy
<1>3. dek \in 0..MaxKeys
  BY KeyIsBounded DEF OffsiteTyped
<1>4. /\ job[p].id \in 0..MaxUploads /\ job[p].ok \in 0..MaxUploads /\ job[p].key \in 0..MaxKeys
      /\ job[p].mode \in Offsite!Modes
  BY <1>1, <1>2, OffsiteBounds
<1>5. /\ job[p].at = "encrypt" => [id |-> job[p].id, key |-> dek] \in Offsite!Copies
      /\ job[p].at \in {"upload", "prune"} => Offsite!Mine(p) \in Offsite!Copies
  BY <1>2, <1>3, <1>4, OffsiteBounds DEF Offsite!Copies, Offsite!Mine, MaxKeys
<1>6. store' \subseteq Offsite!Copies /\ remote' \subseteq Offsite!Copies
  BY <1>1, <1>5 DEF Offsite!Run, Offsite!Start, Offsite!Key, Offsite!Make, Offsite!Encrypt,
     Offsite!Upload, Offsite!Finish, Offsite!Fails, Offsite!Pruned
<1>7. record' \in [mode : Offsite!Modes, ok : 0..MaxUploads, failed : BOOLEAN]
  <2>1. \/ record' = record
        \/ \E mode \in {"off", conf.mode, job[p].mode}, failed \in {record.failed, TRUE, FALSE},
              ok \in {record.ok, job[p].ok, job[p].id} :
              record' = [mode |-> mode, ok |-> ok, failed |-> failed]
    BY DEF Offsite!Run, Offsite!Start, Offsite!Key, Offsite!Make, Offsite!Encrypt,
       Offsite!Upload, Offsite!Finish, Offsite!Fails, Offsite!Record
  <2>2. CASE record' = record
    BY <1>1, <2>2
  <2>3. ASSUME NEW mode \in {"off", conf.mode, job[p].mode},
               NEW failed \in {record.failed, TRUE, FALSE},
               NEW ok \in {record.ok, job[p].ok, job[p].id},
               record' = [mode |-> mode, ok |-> ok, failed |-> failed]
        PROVE  record' \in [mode : Offsite!Modes, ok : 0..MaxUploads, failed : BOOLEAN]
    <3>1. mode \in Offsite!Modes
      BY <1>1, <1>4
    <3>2. failed \in BOOLEAN
      BY <1>1
    <3>3. ok \in 0..MaxUploads
      BY <1>1, <1>4
    <3> QED
      BY <2>3, <3>1, <3>2, <3>3
  <2> QED
    BY <2>1, <2>2, <2>3
<1>8. UNCHANGED <<creds, provisioned, archive>>
  BY DEF Offsite!Run, Offsite!Start, Offsite!Key, Offsite!Make, Offsite!Encrypt,
     Offsite!Upload, Offsite!Finish
<1>9. /\ job'[p].id <= MaxUploads /\ job'[p].ok <= MaxUploads /\ job'[p].key <= MaxKeys
      /\ job'[p].at # "idle" => job'[p].id # 0
      /\ job'[p].at \in {"upload", "prune"} => job'[p].key # 0
  <2>1. CASE Offsite!Start(p)
    <3>1. /\ used.runs < MaxUploads /\ job[p].at = "idle"
          /\ \/ job' = job
             \/ job' = [job EXCEPT ![p] = [at |-> "key", id |-> used.runs + 1,
                                           mode |-> conf.mode, ok |-> record.ok, key |-> 0]]
      BY <2>1 DEF Offsite!Start, Offsite!Spend, Offsite!None
    <3>2. record.ok \in 0..MaxUploads
      BY <1>1
    <3> QED
      BY <1>1, <1>2, <3>1, <3>2, OffsiteBounds
  <2>2. CASE Offsite!Key(p) \/ Offsite!Make(p)
    BY <1>1, <1>2, <2>2 DEF Offsite!Key, Offsite!Make
  <2>3. CASE Offsite!Encrypt(p)
    BY <1>1, <1>2, <1>3, <2>3 DEF Offsite!Encrypt
  <2>4. CASE Offsite!Upload(p) \/ Offsite!Finish(p)
    <3>1. /\ job[p].at \in {"upload", "prune"}
          /\ job' = [job EXCEPT ![p].at = "prune"] \/ job' = [job EXCEPT ![p] = Offsite!NoJob]
      BY <2>4 DEF Offsite!Upload, Offsite!Finish, Offsite!Fails
    <3>2. /\ Offsite!NoJob.at = "idle" /\ Offsite!NoJob.id = 0 /\ Offsite!NoJob.ok = 0
          /\ Offsite!NoJob.key = 0
      BY DEF Offsite!NoJob, Offsite!None
    <3> QED
      BY <1>1, <1>2, <3>1, <3>2, OffsiteBounds
  <2> QED
    BY <2>1, <2>2, <2>3, <2>4 DEF Offsite!Run
<1> QED
  BY <1>6, <1>7, <1>8, <1>9

LEMMA RunTyped ==
    ASSUME OffsiteTyped, NEW p \in Runners, Offsite!Run(p)
    PROVE  OffsiteTyped'
<1>1. OffsiteTypes'
  BY RunKeepsTypes DEF OffsiteTyped
<1>2. /\ job' = [job EXCEPT ![p] = job'[p]] /\ UNCHANGED save
  BY RunSteps DEF OffsiteTyped
<1>3. \A q \in Runners : q # p => job'[q] = job[q]
  <2>1. job \in [Runners -> [at : {"idle", "key", "make", "encrypt", "upload", "prune"},
                            id : Nat, mode : Offsite!Modes, ok : Nat, key : Nat]]
    BY DEF OffsiteTyped, OffsiteTypes
  <2> DEFINE entry == job'[p]
  <2>2. job' = [job EXCEPT ![p] = entry]
    BY <1>2
  <2> HIDE DEF entry
  <2> QED
    BY <2>1, <2>2
<1>4. KeysArePaid'
  <2>1. /\ used.keys \in Nat /\ used.runs \in Nat /\ used.saves \in Nat
        /\ used'.keys \in Nat /\ used'.runs \in Nat /\ used'.saves \in Nat
    BY <1>1 DEF OffsiteTyped, OffsiteTypes
  <2>2. SaveWants' = SaveWants
    BY <1>2 DEF SaveWants
  <2>3. /\ p = "cron" => RunWants("button")' = RunWants("button")
        /\ p = "button" => RunWants("cron")' = RunWants("cron")
        /\ p = "cron" \/ p = "button"
    BY <1>3 DEF RunWants, Runners
  <2>4. /\ RunWants("cron") \in {0, 1} /\ RunWants("cron")' \in {0, 1}
        /\ RunWants("button") \in {0, 1} /\ RunWants("button")' \in {0, 1}
        /\ SaveWants \in {0, 1}
    BY WantsAre DEF Runners
  <2>5. /\ used.saves <= MaxChanges
        /\ used.keys + RunWants("cron") + RunWants("button") + SaveWants <= used.runs + used.saves
    BY DEF OffsiteTyped, KeysArePaid
  <2>6. used'.keys + RunWants("cron")' + RunWants("button")' + SaveWants'
          <= used'.runs + used'.saves
    <3>1. CASE p = "cron"
      BY <2>1, <2>2, <2>3, <2>4, <2>5, <3>1, RunPays
    <3>2. CASE p = "button"
      BY <2>1, <2>2, <2>3, <2>4, <2>5, <3>2, RunPays
    <3> QED
      BY <2>3, <3>1, <3>2
  <2> QED
    BY <2>5, <2>6, RunPays DEF KeysArePaid
<1>5. ASSUME NEW q \in Runners PROVE RunIsBounded(q)'
  <2>1. CASE q = p
    BY <2>1, RunPays, RunWrites DEF RunIsBounded, HasCopy
  <2>2. CASE q # p
    BY <1>3, <2>2, RunPays DEF OffsiteTyped, RunIsBounded, HasCopy
  <2> QED
    BY <2>1, <2>2
<1>6. {creds', provisioned', archive'} \subseteq BOOLEAN
  BY RunWrites DEF OffsiteTyped
<1> QED
  BY <1>1, <1>4, <1>5, <1>6, RunWrites DEF OffsiteTyped

LEMMA SaveTyped ==
    ASSUME OffsiteTyped, Offsite!Handler("admin")
    PROVE  OffsiteTyped'
<1>1. /\ OffsiteTypes' /\ UNCHANGED <<store, remote, record, job>> /\ used'.runs = used.runs
  BY HandlerKeepsTypes DEF OffsiteTyped
<1>2. /\ used \in [runs : Nat, saves : Nat, crashes : Nat, keys : Nat] /\ dek \in Nat
      /\ save \in [{"admin"} -> [at : {"idle", "open", "make", "show", "write", "reveal"},
                                 conf : Offsite!Confs]]
      /\ used.saves <= MaxChanges /\ dek <= used.keys
      /\ used.keys + RunWants("cron") + RunWants("button") + SaveWants <= used.runs + used.saves
      /\ used.runs <= MaxUploads
  BY DEF OffsiteTyped, OffsiteTypes, KeysArePaid
<1>3. /\ used'.saves <= MaxChanges /\ dek' <= used'.keys
      /\ used'.keys + SaveWants' + used.saves <= used.keys + SaveWants + used'.saves
      /\ dek # 0 => dek' # 0
  <2>1. CASE Offsite!UpdateBackups("admin")
    <3>1. /\ save["admin"].at = "idle" /\ used["saves"] < MaxChanges
          /\ used' = [used EXCEPT !["saves"] = @ + 1] /\ dek' = dek
      BY <2>1 DEF Offsite!UpdateBackups, Offsite!Spend
    <3>2. used'.saves = used.saves + 1 /\ used'.keys = used.keys
      BY <1>2, <3>1
    <3>3. SaveWants = 0 /\ SaveWants' \in {0, 1}
      BY <3>1, WantsAre DEF SaveWants
    <3> QED
      BY <1>2, <3>1, <3>2, <3>3, OffsiteBounds
  <2>2. CASE Offsite!RecoveryKey("admin")
    <3>1. /\ save["admin"].at = "idle" /\ used["saves"] < MaxChanges
          /\ used' = [used EXCEPT !["saves"] = @ + 1] /\ dek' = dek
      BY <2>2 DEF Offsite!RecoveryKey, Offsite!Spend
    <3>2. used'.saves = used.saves + 1 /\ used'.keys = used.keys
      BY <1>2, <3>1
    <3>3. SaveWants = 0 /\ SaveWants' \in {0, 1}
      BY <3>1, WantsAre DEF SaveWants
    <3> QED
      BY <1>2, <3>1, <3>2, <3>3, OffsiteBounds
  <2>3. CASE Offsite!MakeShown("admin")
    <3>1. /\ save["admin"].at = "make" /\ save' = [save EXCEPT !["admin"].at = "show"]
          /\ used' = [used EXCEPT !.keys = @ + 1] /\ dek' = used.keys + 1
      BY <2>3 DEF Offsite!MakeShown, Offsite!MakeKey
    <3>2. used'.saves = used.saves /\ used'.keys = used.keys + 1
      BY <1>2, <3>1
    <3>3. save'["admin"].at = "show"
      BY <1>2, <3>1
    <3>4. SaveWants = 1 /\ SaveWants' = 0
      BY <3>1, <3>3 DEF SaveWants
    <3> QED
      BY <1>2, <3>1, <3>2, <3>4
  <2>4. CASE Offsite!Truncate("admin") \/ Offsite!Fill("admin")
    <3>1. used' = used /\ dek' = dek /\ save["admin"].at # "make"
      BY <2>4 DEF Offsite!Truncate, Offsite!Fill
    <3>2. save'["admin"].at # "make"
      <4>1. CASE Offsite!Truncate("admin")
        BY <1>2, <4>1 DEF Offsite!Truncate
      <4>2. CASE Offsite!Fill("admin")
        BY <1>2, <4>2 DEF Offsite!Fill, Offsite!NoSave
      <4> QED
        BY <2>4, <4>1, <4>2
    <3>3. SaveWants = 0 /\ SaveWants' = 0
      BY <3>1, <3>2 DEF SaveWants
    <3> QED
      BY <1>2, <3>1, <3>3
  <2> QED
    BY <2>1, <2>2, <2>3, <2>4 DEF Offsite!Handler
<1>4. KeysArePaid'
  <2>1. /\ used.keys \in Nat /\ used.runs \in Nat /\ used.saves \in Nat
        /\ used'.keys \in Nat /\ used'.saves \in Nat
    BY <1>1, <1>2 DEF OffsiteTypes
  <2>2. RunWants("cron")' = RunWants("cron") /\ RunWants("button")' = RunWants("button")
    BY <1>1 DEF RunWants
  <2>3. /\ RunWants("cron") \in {0, 1} /\ RunWants("button") \in {0, 1}
        /\ SaveWants \in {0, 1} /\ SaveWants' \in {0, 1}
    BY WantsAre DEF Runners
  <2> QED
    BY <1>1, <1>2, <1>3, <2>1, <2>2, <2>3 DEF KeysArePaid
<1>5. \A p \in Runners : RunIsBounded(p)'
  BY <1>1, <1>3 DEF OffsiteTyped, RunIsBounded, HasCopy
<1>6. {creds', provisioned', archive'} \subseteq BOOLEAN
  <2>1. creds' \in {creds, TRUE, FALSE} /\ UNCHANGED <<provisioned, archive>>
    BY DEF Offsite!Handler, Offsite!UpdateBackups, Offsite!RecoveryKey, Offsite!MakeShown,
       Offsite!Truncate, Offsite!Fill
  <2> QED
    BY <2>1 DEF OffsiteTyped
<1> QED
  BY <1>1, <1>4, <1>5, <1>6 DEF OffsiteTyped

LEMMA OffsiteTypedStep ==
    ASSUME OffsiteInv, OffsiteTyped, [Offsite!Next]_(Offsite!vars)
    PROVE  OffsiteTyped'
<1>1. OffsiteTypes'
  BY OffsiteStep DEF OffsiteInv
<1>2. ASSUME NEW p \in Runners, Offsite!Run(p) PROVE OffsiteTyped'
  BY <1>2, RunTyped
<1>3. CASE Offsite!Crash
  <2>1. /\ UNCHANGED <<creds, provisioned, archive, dek, store, remote, record>>
        /\ used' = [used EXCEPT !["crashes"] = @ + 1]
        /\ job' = [p \in Runners |-> Offsite!NoJob]
        /\ save' = [h \in {"admin"} |-> Offsite!NoSave]
    BY <1>3 DEF Offsite!Crash, Offsite!Spend, Runners
  <2>2. used \in [runs : Nat, saves : Nat, crashes : Nat, keys : Nat]
    BY DEF OffsiteTyped, OffsiteTypes
  <2>3. used'.runs = used.runs /\ used'.saves = used.saves /\ used'.keys = used.keys
    BY <2>1, <2>2
  <2>4. /\ \A p \in Runners : /\ job'[p].at = "idle" /\ job'[p].id = 0 /\ job'[p].ok = 0
                              /\ job'[p].key = 0
        /\ save'["admin"].at = "idle"
    BY <2>1 DEF Offsite!NoJob, Offsite!None, Offsite!NoSave
  <2>5. KeysArePaid'
    <3>1. RunWants("cron")' = 0 /\ RunWants("button")' = 0 /\ SaveWants' = 0
      BY <2>4 DEF RunWants, SaveWants, Runners
    <3>2. /\ RunWants("cron") \in {0, 1} /\ RunWants("button") \in {0, 1} /\ SaveWants \in {0, 1}
      BY WantsAre DEF Runners
    <3> QED
      BY <2>1, <2>2, <2>3, <3>1, <3>2 DEF OffsiteTyped, KeysArePaid
  <2>6. \A p \in Runners : RunIsBounded(p)'
    BY <2>4, OffsiteBounds DEF RunIsBounded, HasCopy
  <2> QED
    BY <1>1, <2>1, <2>5, <2>6 DEF OffsiteTyped
<1>4. CASE \/ Offsite!BackupApp
           \/ UNCHANGED Offsite!vars
  <2>1. /\ UNCHANGED <<creds, provisioned, dek, store, remote, record, job, save, used>>
        /\ archive' \in {archive, TRUE}
    BY <1>4 DEF Offsite!BackupApp, Offsite!vars
  <2>2. KeysArePaid' /\ \A p \in Runners : RunIsBounded(p)'
    BY <2>1 DEF OffsiteTyped, KeysArePaid, RunWants, SaveWants, RunIsBounded, HasCopy
  <2> QED
    BY <1>1, <2>1, <2>2 DEF OffsiteTyped
<1> QED
  BY <1>2, <1>3, <1>4, SaveTyped DEF Offsite!Next, Runners

-----------------------------------------------------------------------------
(* The appliance: one part runs, the others stay where they started.       *)

\* Initially every part is at one of its initial states.
LEMMA PartsInit ==
    ASSUME MCInit PROVE Timed!Init /\ Update!Init /\ Offsite!Init /\ Stored!Init
  BY Zenon DEF MCInit

\* A step of the appliance is a step of each of these parts, or leaves it as it is.
LEMMA PartsStep ==
    ASSUME [MCNext]_<<part, vars, timedVars, updateVars, settingsVars, offsiteVars, metricVars>>
    PROVE  /\ [Timed!Next]_(Timed!vars) /\ [Update!Next]_(Update!vars)
           /\ [Offsite!Next]_(Offsite!vars) /\ [Stored!Next]_(Stored!vars)
<1>1. /\ Timed!Next \/ UNCHANGED timedVars
      /\ Update!Next \/ UNCHANGED updateVars
      /\ Offsite!Next \/ UNCHANGED offsiteVars
      /\ Stored!Next \/ UNCHANGED settingsVars
  BY Zenon DEF MCNext
<1>2. UNCHANGED timedVars => UNCHANGED (Timed!vars)
  BY DEF timedVars, Timed!vars, Timed!auth, Timed!windows, Timed!verify, Timed!clock
<1>3. UNCHANGED updateVars => UNCHANGED (Update!vars)
  BY DEF updateVars, Update!vars, Update!disk, Update!watch, Update!api
<1>4. UNCHANGED offsiteVars => UNCHANGED (Offsite!vars)
  BY DEF offsiteVars, Offsite!vars
<1>5. UNCHANGED settingsVars => UNCHANGED (Stored!vars)
  BY DEF settingsVars, Stored!vars
<1> QED
  BY <1>1, <1>2, <1>3, <1>4, <1>5, Zenon

\* Scheduler: whatever the restarts, the rejected calls and the lost state files, a Windows run
\* is queued once in a period whose mark was not lost.
THEOREM OncePerPeriodAlways == MCSpec => []OncePerPeriod
<1>1. MCInit => TimedInv
  BY PartsInit, TimedInit, Zenon
<1>2. TimedInv /\ [MCNext]_<<part, vars, timedVars, updateVars, settingsVars, offsiteVars,
                             metricVars>> => TimedInv'
  BY PartsStep, TimedStep, Zenon
<1>3. TimedInv => OncePerPeriod
  BY TimedInvImplies
<1> QED
  BY <1>1, <1>2, <1>3, PTL DEF MCSpec

\* SelfUpdate: an update that ended in failure left the release that ran before it, and a run that
\* ended is mailed once, but for the replies that the mail service lost.
THEOREM UpdatesHoldAlways == MCSpec => []UpdatesHold
<1>1. MCInit => UpdateInv
  BY PartsInit, UpdateInit, Zenon
<1>2. UpdateInv /\ [MCNext]_<<part, vars, timedVars, updateVars, settingsVars, offsiteVars,
                              metricVars>> => UpdateInv'
  BY PartsStep, UpdateStep, Zenon
<1>3. UpdateInv => UpdatesHold
  BY UpdateInvImplies
<1> QED
  BY <1>1, <1>2, <1>3, PTL DEF MCSpec

\* OffsiteBackup: the two runs and the save of the administrator may interleave and stop anywhere:
\* the key that was displayed opens every copy, and the copy that a success names is there.
THEOREM BackupsHoldAlways == MCSpec => []BackupsHold
<1>1. MCInit => OffsiteInv
  BY PartsInit, OffsiteInit, Zenon
<1>2. OffsiteInv /\ [MCNext]_<<part, vars, timedVars, updateVars, settingsVars, offsiteVars,
                               metricVars>> => OffsiteInv'
  BY PartsStep, OffsiteStep, Zenon
<1>3. OffsiteInv => BackupsHold
  BY OffsiteInvImplies
<1> QED
  BY <1>1, <1>2, <1>3, PTL DEF MCSpec

\* Settings: saves that come one after the other lose nothing, the copies of the agent follow, and
\* a preset can be taken back, over every order of the handlers and restarts of the API.
THEOREM SettingsHoldAlways == ASSUME Serial PROVE MCSpec => []SettingsHold
<1>1. MCInit => StoredInv
  BY PartsInit, StoredInit, Zenon
<1>2. StoredInv /\ [MCNext]_<<part, vars, timedVars, updateVars, settingsVars, offsiteVars,
                              metricVars>> => StoredInv'
  BY PartsStep, StoredStep, Zenon
<1>3. StoredInv => SettingsHold
  BY StoredInvImplies
<1> QED
  BY <1>1, <1>2, <1>3, PTL DEF MCSpec

\* Settings: even while saves race, and whatever a handler read in the middle of a rewrite, the
\* settings that belong together are never seen apart.
THEOREM SettingsAgreeAlways == MCSpec => []Stored!SettingsAgree
<1>1. MCInit => StoredInv
  BY PartsInit, StoredInit, Zenon
<1>2. StoredInv /\ [MCNext]_<<part, vars, timedVars, updateVars, settingsVars, offsiteVars,
                              metricVars>> => StoredInv'
  BY PartsStep, StoredStep, Zenon
<1>3. StoredInv => Stored!SettingsAgree
  BY StoredInvImplies
<1> QED
  BY <1>1, <1>2, <1>3, PTL DEF MCSpec

LEMMA EngineInvTypes == ASSUME EngineInv PROVE Engine!TypeOK
<1>1. EngineTypes
  BY DEF EngineInv
<1>2. read = Engine!None \/ (read.of \subseteq Interfaces /\ read.at \in 0..MaxTicks)
  BY <1>1 DEF EngineTypes, Reads
<1> QED
  BY <1>1, <1>2 DEF EngineTypes, Engine!TypeOK, Octets, Counters

Typed ==
    /\ ChainInv /\ TimedTyped /\ UpdateTyped
    /\ OffsiteInv /\ OffsiteTyped

\* A step of the appliance is a step of the chain or leaves it as it is.
LEMMA ChainsStep ==
    ASSUME [MCNext]_<<part, vars, timedVars, updateVars, settingsVars, offsiteVars, metricVars>>
    PROVE  [Next]_vars
  BY Zenon DEF MCNext

\* Every variable of every part has its type: in particular a failed update has a tree to go back
\* to, a key that is used has been made, and no job of the scheduler is without its ticket.
THEOREM ApplianceTypeOKAlways == ASSUME NamesDiffer PROVE MCSpec => []ApplianceTypeOK
<1>1. MCInit => Typed
  <2> SUFFICES ASSUME MCInit PROVE Typed
    OBVIOUS
  <2>1. Init
    BY Zenon DEF MCInit
  <2> QED
    BY <2>1, PartsInit, InitChainInv, TimedTypedInit, UpdateTypedInit, OffsiteInit,
       OffsiteTypedInit, Zenon DEF Typed
<1>2. Typed /\ [MCNext]_<<part, vars, timedVars, updateVars, settingsVars, offsiteVars,
                          metricVars>> => Typed'
  BY PartsStep, ChainsStep, ChainStep, TimedTypedStep, UpdateTypedStep, OffsiteStep,
     OffsiteTypedStep, Zenon DEF Typed
<1>3. Typed /\ EngineInv /\ StoreInv => ApplianceTypeOK
  <2> SUFFICES ASSUME Typed, EngineInv, StoreInv PROVE ApplianceTypeOK
    OBVIOUS
  <2>1. TypeOK
    BY Zenon DEF Typed, ChainInv
  <2>2. Timed!TypeOK
    BY Zenon DEF Typed, TimedTyped
  <2> QED
    BY <2>1, <2>2, UpdateTypedImplies, OffsiteTypedImplies, EngineInvTypes, StoreInvTypes, Zenon
       DEF Typed, ApplianceTypeOK
<1> QED
  BY <1>1, <1>2, <1>3, EngineInvAlways, StoreInvAlways, PTL DEF MCSpec

=============================================================================
