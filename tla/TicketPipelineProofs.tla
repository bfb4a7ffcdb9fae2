------------------------ MODULE TicketPipelineProofs ------------------------
(***************************************************************************)
(* Theorems about the pipeline, for every set of tickets, every policy and *)
(* every bound.                                                            *)
(***************************************************************************)
EXTENDS TicketPipeline, FiniteSetTheorems, TLAPS

-----------------------------------------------------------------------------
(* The note list.                                                          *)

\* add_note returns a list of notes that ends in the new one: the eviction of
\* old notes never drops the one being added.
LEMMA AddNoteType ==
    ASSUME NEW n \in Seq(NoteKinds), NEW k \in NoteKinds
    PROVE  /\ AddNote(n, k) \in Seq(NoteKinds)
           /\ AddNote(n, k) # <<>>
           /\ AddNote(n, k)[Len(AddNote(n, k))] = k
<1> DEFINE longer == Append(n, k)
<1>1. /\ longer \in Seq(NoteKinds)
      /\ Len(longer) = Len(n) + 1
      /\ longer[Len(longer)] = k
      /\ longer # <<>>
  OBVIOUS
<1>2. CASE Len(longer) <= NoteCap
  BY <1>1, <1>2 DEF AddNote
<1>3. CASE ~(Len(longer) <= NoteCap)
  <2>1. Len(longer) >= 2
    BY <1>1, <1>3, NoteCapAssumption
  <2>2. /\ Tail(longer) \in Seq(NoteKinds)
        /\ Len(Tail(longer)) = Len(longer) - 1
        /\ \A i \in 1..Len(Tail(longer)) : Tail(longer)[i] = longer[i + 1]
    BY <1>1
  <2>3. AddNote(n, k) = Tail(longer)
    BY <1>3 DEF AddNote
  <2> QED
    BY <1>1, <2>1, <2>2, <2>3
<1> QED
  BY <1>2, <1>3

\* The positions of the notes of some kinds are a finite set.
LEMMA PositionsFinite ==
    ASSUME NEW n \in Seq(NoteKinds), NEW kinds
    PROVE  IsFiniteSet({i \in DOMAIN n : n[i] \in kinds})
<1>1. DOMAIN n = 1..Len(n) /\ Len(n) \in Nat
  OBVIOUS
<1>2. IsFiniteSet(DOMAIN n)
  BY <1>1, FS_Interval
<1> QED
  BY <1>2, FS_Subset

\* The counts are natural numbers.
LEMMA CountType ==
    ASSUME NEW n \in Seq(NoteKinds), NEW kinds
    PROVE  CountOf(n, kinds) \in Nat
BY PositionsFinite, FS_CardinalityType DEF CountOf

\* Appending a note raises a count by one if the note is of the kinds counted,
\* and leaves it alone otherwise.
LEMMA CountAppend ==
    ASSUME NEW n \in Seq(NoteKinds), NEW k \in NoteKinds, NEW kinds
    PROVE  CountOf(Append(n, k), kinds) =
               IF k \in kinds THEN CountOf(n, kinds) + 1 ELSE CountOf(n, kinds)
<1> DEFINE longer == Append(n, k)
           S == {i \in DOMAIN n : n[i] \in kinds}
           L == {i \in DOMAIN longer : longer[i] \in kinds}
           new == Len(n) + 1
<1>1. /\ DOMAIN n = 1..Len(n) /\ Len(n) \in Nat
      /\ DOMAIN longer = 1..new
      /\ longer[new] = k
      /\ \A i \in 1..Len(n) : longer[i] = n[i]
  OBVIOUS
<1>2. IsFiniteSet(S)
  BY PositionsFinite
<1>3. new \notin S
  BY <1>1
<1>4. CASE k \in kinds
  <2>1. L = S \cup {new}
    BY <1>1, <1>4
  <2>2. Cardinality(L) = Cardinality(S) + 1
    BY <1>2, <1>3, <2>1, FS_AddElement
  <2> QED
    BY <1>4, <2>2 DEF CountOf
<1>5. CASE k \notin kinds
  <2>1. L = S
    BY <1>1, <1>5
  <2> QED
    BY <1>5, <2>1 DEF CountOf
<1> QED
  BY <1>4, <1>5

\* Dropping the oldest note never raises a count.
LEMMA CountTail ==
    ASSUME NEW n \in Seq(NoteKinds), n # <<>>, NEW kinds
    PROVE  CountOf(Tail(n), kinds) <= CountOf(n, kinds)
<1> DEFINE S == {i \in DOMAIN n : n[i] \in kinds}
           T == {i \in DOMAIN Tail(n) : Tail(n)[i] \in kinds}
           shift == [i \in T |-> i + 1]
<1>1. /\ DOMAIN n = 1..Len(n) /\ Len(n) \in Nat /\ Len(n) >= 1
      /\ Tail(n) \in Seq(NoteKinds)
      /\ DOMAIN Tail(n) = 1..(Len(n) - 1)
      /\ \A i \in 1..(Len(n) - 1) : Tail(n)[i] = n[i + 1]
  OBVIOUS
<1>2. \A i \in T : i \in Int /\ i + 1 \in S
  BY <1>1
<1>3. shift \in Injection(T, S)
  BY <1>2 DEF Injection, IsInjective
<1>4. IsFiniteSet(S)
  BY PositionsFinite
<1>5. Cardinality(T) <= Cardinality(S)
  BY <1>3, <1>4, FS_Injection
<1> QED
  BY <1>5 DEF CountOf

\* Hence adding a note raises a count by at most one, and only if it is counted.
LEMMA CountAdd ==
    ASSUME NEW n \in Seq(NoteKinds), NEW k \in NoteKinds, NEW kinds
    PROVE  /\ CountOf(AddNote(n, k), kinds) <= CountOf(n, kinds) + 1
           /\ k \notin kinds => CountOf(AddNote(n, k), kinds) <= CountOf(n, kinds)
<1> DEFINE longer == Append(n, k)
<1>1. longer \in Seq(NoteKinds) /\ longer # <<>>
  OBVIOUS
<1>2. Tail(longer) \in Seq(NoteKinds)
  BY <1>1
<1>3. /\ CountOf(n, kinds) \in Nat
      /\ CountOf(longer, kinds) \in Nat
      /\ CountOf(Tail(longer), kinds) \in Nat
  BY <1>1, <1>2, CountType
<1>4. CountOf(Tail(longer), kinds) <= CountOf(longer, kinds)
  BY <1>1, CountTail
<1>5. CountOf(longer, kinds) =
          IF k \in kinds THEN CountOf(n, kinds) + 1 ELSE CountOf(n, kinds)
  BY CountAppend
<1>6. CountOf(AddNote(n, k), kinds) \in {CountOf(longer, kinds), CountOf(Tail(longer), kinds)}
  BY DEF AddNote
<1> HIDE DEF longer
<1> QED
  BY <1>3, <1>4, <1>5, <1>6

-----------------------------------------------------------------------------
(* Type correctness.                                                       *)

RowTypeOK ==
    /\ status \in [Tickets -> Statuses]
    /\ notes \in [Tickets -> Seq(NoteKinds)]
    /\ age \in [Tickets -> 0..2]

\* A commit of a status and a note list keeps the rows well-typed.
LEMMA SaveType ==
    ASSUME TypeOK, NEW t \in Tickets, NEW s \in Statuses,
           NEW n \in Seq(NoteKinds), Save(t, s, n)
    PROVE  RowTypeOK'
BY DEF TypeOK, RowTypeOK, Save

\* The last commit of a round keeps rows, desk and plan well-typed.
LEMMA SettleType ==
    ASSUME TypeOK, NEW t \in Tickets, NEW s \in Statuses,
           NEW k \in NoteKinds, Settle(t, s, k)
    PROVE  /\ RowTypeOK'
           /\ at' \in [Tickets -> {"out", "work", "commit"}]
           /\ view' \in [Tickets -> [notes : Seq(NoteKinds), status : Statuses]]
           /\ plan' \in [Tickets -> Jobs \cup {NoJob}]
<1>1. AddNote(view[t].notes, k) \in Seq(NoteKinds)
  BY AddNoteType DEF TypeOK
<1>2. Flushed(t, view[t].status, s) \in Statuses
  BY DEF Flushed, TypeOK
<1>3. RowTypeOK'
  BY <1>1, <1>2, SaveType DEF Settle
<1>4. NoView \in [notes : Seq(NoteKinds), status : Statuses]
  BY DEF NoView, Statuses
<1> QED
  BY <1>3, <1>4 DEF Settle, Leave, TypeOK

LEMMA InitType == Init => TypeOK
BY PipelineAssumption DEF Init, TypeOK, Statuses, NoView, NoGate, Gates, NoRun, Runs, NoJob

\* Adding a note of a known kind to a ticket's notes or to the loaded notes.
LEMMA NotesType ==
    ASSUME TypeOK, NEW t \in Tickets, NEW k \in NoteKinds
    PROVE  /\ AddNote(notes[t], k) \in Seq(NoteKinds)
           /\ AddNote(view[t].notes, k) \in Seq(NoteKinds)
BY AddNoteType DEF TypeOK

\* POST /jobs/result keeps the rows well-typed.
LEMMA ReportResultType ==
    ASSUME TypeOK, NEW t \in Tickets, NEW result, NEW recent,
           ReportResult(t, result, recent)
    PROVE  RowTypeOK'
<1> DEFINE n == notes[t]
<1>1. {"completed", "failed", "chatter"} \subseteq NoteKinds
      /\ {"customer_action", "escalated"} \subseteq Statuses
  BY DEF NoteKinds, TerminalWorkEvents, Statuses
<1>2. /\ AddNote(n, "completed") \in Seq(NoteKinds)
      /\ AddNote(n, "failed") \in Seq(NoteKinds)
  BY <1>1, NotesType
<1>3. /\ AddNote(AddNote(n, "completed"), "chatter") \in Seq(NoteKinds)
      /\ AddNote(AddNote(n, "failed"), "chatter") \in Seq(NoteKinds)
  BY <1>1, <1>2, AddNoteType
<1>4. CASE UNCHANGED row
  BY <1>4 DEF TypeOK, RowTypeOK, row
<1>5. CASE Save(t, "customer_action", AddNote(n, "completed"))
  BY <1>1, <1>2, <1>5, SaveType
<1>6. CASE Save(t, "customer_action", AddNote(AddNote(n, "completed"), "chatter"))
  BY <1>1, <1>3, <1>6, SaveType
<1>7. CASE Save(t, "escalated", AddNote(AddNote(n, "failed"), "chatter"))
  BY <1>1, <1>3, <1>7, SaveType
<1> QED
  BY <1>4, <1>5, <1>6, <1>7 DEF ReportResult

UsedTypeOK ==
    used \in [msgs : 0..MaxMessages, desk : 0..MaxDesk, crashes : 0..MaxCrashes]

\* A counter that is raised below its bound stays within it.
LEMMA SpendType ==
    ASSUME TypeOK
    PROVE  /\ Spend("msgs", MaxMessages) => UsedTypeOK'
           /\ Spend("desk", MaxDesk) => UsedTypeOK'
           /\ Spend("crashes", MaxCrashes) => UsedTypeOK'
<1>1. /\ used.msgs \in 0..MaxMessages /\ used.desk \in 0..MaxDesk
      /\ used.crashes \in 0..MaxCrashes
      /\ used = [msgs |-> used.msgs, desk |-> used.desk, crashes |-> used.crashes]
      /\ MaxMessages \in Nat /\ MaxDesk \in Nat /\ MaxCrashes \in Nat
  BY PipelineAssumption DEF TypeOK
<1>2. ASSUME Spend("msgs", MaxMessages)
      PROVE  used' = [msgs |-> used.msgs + 1, desk |-> used.desk, crashes |-> used.crashes]
             /\ used.msgs < MaxMessages
  BY <1>1, <1>2 DEF Spend
<1>3. ASSUME Spend("desk", MaxDesk)
      PROVE  used' = [msgs |-> used.msgs, desk |-> used.desk + 1, crashes |-> used.crashes]
             /\ used.desk < MaxDesk
  BY <1>1, <1>3 DEF Spend
<1>4. ASSUME Spend("crashes", MaxCrashes)
      PROVE  used' = [msgs |-> used.msgs, desk |-> used.desk, crashes |-> used.crashes + 1]
             /\ used.crashes < MaxCrashes
  BY <1>1, <1>4 DEF Spend
<1>5. ASSUME Spend("msgs", MaxMessages) PROVE UsedTypeOK'
  BY <1>1, <1>2, <1>5 DEF UsedTypeOK
<1>6. ASSUME Spend("desk", MaxDesk) PROVE UsedTypeOK'
  BY <1>1, <1>3, <1>6 DEF UsedTypeOK
<1>7. ASSUME Spend("crashes", MaxCrashes) PROVE UsedTypeOK'
  BY <1>1, <1>4, <1>7 DEF UsedTypeOK
<1> QED
  BY <1>5, <1>6, <1>7

\* The handlers of the API.
LEMMA ApiType ==
    ASSUME TypeOK, NEW t \in Tickets, Api(t)
    PROVE  TypeOK'
<1> USE DEF row, desk, worker, files, runner, threads, history
<1>1. /\ UserKinds \cup {"chatter"} \subseteq NoteKinds
      /\ {"open", "in_progress", "closed"} \subseteq Statuses
      /\ status[t] \in Statuses /\ notes[t] \in Seq(NoteKinds) /\ <<>> \in Seq(NoteKinds)
  BY DEF NoteKinds, Statuses, TypeOK
<1>3. CASE Create(t)
  <2>1. RowTypeOK'
    BY <1>1, <1>3, SaveType DEF Create
  <2> QED
    BY <1>3, <2>1 DEF Create, TypeOK, RowTypeOK
<1>4. ASSUME NEW m \in Messages, UserNote(t, m)
      PROVE  TypeOK'
  <2>1. AddNote(notes[t], m) \in Seq(NoteKinds)
    BY <1>1, NotesType, PipelineAssumption
  <2>2. RowTypeOK'
    BY <1>1, <1>4, <2>1, SaveType DEF UserNote
  <2>3. UsedTypeOK'
    BY SpendType, <1>4 DEF UserNote
  <2> QED
    BY <1>4, <2>2, <2>3 DEF UserNote, TypeOK, RowTypeOK, UsedTypeOK
<1>5. ASSUME NEW m \in Messages, Engage(t, m)
      PROVE  TypeOK'
  <2>1. AddNote(notes[t], m) \in Seq(NoteKinds)
    BY <1>1, NotesType, PipelineAssumption
  <2>2. RowTypeOK'
    BY <1>1, <1>5, <2>1, SaveType DEF Engage
  <2>3. UsedTypeOK'
    BY SpendType, <1>5 DEF Engage
  <2> QED
    BY <1>5, <2>2, <2>3 DEF Engage, TypeOK, RowTypeOK, UsedTypeOK
<1>6. CASE Approve(t)
  <2>1. RowTypeOK'
    BY <1>1, <1>6, SaveType DEF Approve
  <2>2. UsedTypeOK'
    BY SpendType, <1>6 DEF Approve
  <2> QED
    BY <1>6, <2>1, <2>2 DEF Approve, TypeOK, RowTypeOK, UsedTypeOK
<1>7. CASE Close(t) \/ Retry(t)
  <2>1. RowTypeOK'
    BY <1>1, <1>7, SaveType DEF Close, Retry
  <2>2. UsedTypeOK'
    BY SpendType, <1>7 DEF Close, Retry
  <2> QED
    BY <1>7, <2>1, <2>2 DEF Close, Retry, TypeOK, RowTypeOK, UsedTypeOK
<1>8. CASE Progress(t)
  <2>1. AddNote(notes[t], "chatter") \in Seq(NoteKinds)
    BY <1>1, NotesType
  <2>2. RowTypeOK'
    BY <1>1, <1>8, <2>1, SaveType DEF Progress
  <2> QED
    BY <1>8, <2>2 DEF Progress, TypeOK, RowTypeOK
<1> QED
  BY <1>3, <1>4, <1>5, <1>6, <1>7, <1>8 DEF Api

\* The poll and the clock.
LEMMA PollType ==
    ASSUME TypeOK, Poll
    PROVE  TypeOK'
<1> USE DEF row, desk, worker, files, runner, threads, history
<1>1. "escalated" \in NoteKinds /\ "escalated" \in Statuses
  BY DEF NoteKinds, TerminalWorkEvents, Statuses
<1>2. todo' \subseteq Tickets
  BY DEF Poll
<1>3. seen' \in [Tickets -> Nat \cup {-1}]
  <2>1. \A t \in Tickets : Replies(notes[t]) \in Nat
    BY CountType DEF Replies, TypeOK
  <2> QED
    BY <2>1 DEF Poll, TypeOK
<1>4. status' \in [Tickets -> Statuses]
  BY <1>1 DEF Poll, TypeOK
<1>5. notes' \in [Tickets -> Seq(NoteKinds)]
  <2>1. \A t \in Tickets : AddNote(notes[t], "escalated") \in Seq(NoteKinds)
    BY <1>1, NotesType
  <2> QED
    BY <2>1 DEF Poll, TypeOK
<1>6. age' \in [Tickets -> 0..2]
  BY DEF Poll, TypeOK
<1>7. fed' \in [Tickets -> 0..(FailBudget + 1)]
  BY PipelineAssumption DEF Poll, TypeOK
<1> QED
  BY <1>2, <1>3, <1>4, <1>5, <1>6, <1>7 DEF Poll, TypeOK

LEMMA TickType ==
    ASSUME TypeOK, NEW t \in Tickets, Tick(t)
    PROVE  TypeOK'
<1>1. age' \in [Tickets -> 0..2]
  <2>1. age \in [Tickets -> 0..2]
    BY DEF TypeOK
  <2>2. age[t] < 2 /\ age' = [age EXCEPT ![t] = age[t] + 1]
    BY DEF Tick
  <2> QED
    BY <2>1, <2>2
<1>2. UNCHANGED <<text, status, notes, worker, files, runner, used, history>>
  BY DEF Tick
<1> QED
  BY <1>1, <1>2 DEF TypeOK, worker, desk, files, runner, threads, history

\* process_ticket.
LEMMA ProcessType ==
    ASSUME TypeOK, NEW t \in Tickets, Process(t)
    PROVE  TypeOK'
<1> USE DEF row, desk, worker, files, runner, threads, history
<1>1. /\ {"escalated", "closed", "input", "chatter", "processing", "retry",
           "auto", "dispatch", "await"} \subseteq NoteKinds
      /\ {"escalated", "closed", "customer_action", "in_progress"} \subseteq Statuses
      /\ {PiJob, AutoJob, HeldJob} \subseteq Jobs
      /\ status[t] \in Statuses
  BY DEF NoteKinds, TerminalWorkEvents, Statuses, Jobs, TypeOK
<1>2. \A k \in NoteKinds : /\ AddNote(notes[t], k) \in Seq(NoteKinds)
                           /\ AddNote(view[t].notes, k) \in Seq(NoteKinds)
  BY NotesType
<1>3. \A j, k \in NoteKinds : /\ AddNote(AddNote(notes[t], j), k) \in Seq(NoteKinds)
                              /\ AddNote(AddNote(view[t].notes, j), k) \in Seq(NoteKinds)
  BY <1>2, AddNoteType
<1>4. NoView \in [notes : Seq(NoteKinds), status : Statuses]
  BY DEF NoView, Statuses
<1>5. CASE CloseIntent(t)
  <2>1. RowTypeOK'
    BY <1>1, <1>2, <1>3, <1>5, SaveType DEF CloseIntent
  <2> QED
    BY <1>5, <2>1 DEF CloseIntent, TypeOK, RowTypeOK
<1>6. CASE SanitizerReject(t)
  <2>1. RowTypeOK'
    BY <1>1, <1>2, <1>6, SaveType DEF SanitizerReject
  <2> QED
    BY <1>6, <2>1 DEF SanitizerReject, TypeOK, RowTypeOK
<1>7. CASE PickUp(t)
  <2>1. RowTypeOK'
    BY <1>1, <1>2, <1>7, SaveType DEF PickUp
  <2>2. notes'[t] \in Seq(NoteKinds) /\ Replies(notes'[t]) \in Nat
    BY <2>1, CountType DEF RowTypeOK, Replies
  <2>3. view' \in [Tickets -> [notes : Seq(NoteKinds), status : Statuses]]
    BY <1>1, <1>7, <2>2 DEF PickUp, TypeOK
  <2>4. seen' \in [Tickets -> Nat \cup {-1}]
    BY <1>7, <2>2 DEF PickUp, TypeOK
  <2> QED
    BY <1>7, <2>1, <2>3, <2>4 DEF PickUp, TypeOK, RowTypeOK
<1>8. ASSUME NEW s \in Statuses, NEW k \in NoteKinds, Settle(t, s, k), Quietly
      PROVE  TypeOK'
  BY <1>8, SettleType DEF Quietly, TypeOK, RowTypeOK
<1>9. CASE BlockRequest(t)
  BY <1>1, <1>8, <1>9 DEF BlockRequest
<1>10. CASE Greet(t)
  BY <1>1, <1>8, <1>10 DEF Greet
<1>11. CASE PiSkip(t)
  BY <1>1, <1>8, <1>11 DEF PiSkip
<1>12. CASE PiWrite(t)
  BY <1>1, <1>12 DEF PiWrite, TypeOK
<1>13. CASE Reload(t)
  BY <1>13 DEF Reload, TypeOK
<1>14. CASE ModelFails(t)
  BY <1>1, <1>8, <1>14 DEF ModelFails
<1>15. CASE WorkerError(t)
  <2>1. Flushed(t, view[t].status, "escalated") \in Statuses
    BY <1>1 DEF Flushed
  <2>2. RowTypeOK'
    BY <1>15, <2>1, SaveType DEF WorkerError, TypeOK
  <2> QED
    BY <1>4, <1>15, <2>2 DEF WorkerError, Leave, Quietly, TypeOK, RowTypeOK
<1>16. ASSUME NEW s \in Statuses, NEW k \in NoteKinds, Decide(t, s, k)
       PROVE  TypeOK'
  <2>1. AddNote(AddNote(view[t].notes, "chatter"), k) \in Seq(NoteKinds)
    BY <1>1, <1>3
  <2>2. RowTypeOK'
    BY <1>16, <2>1, SaveType DEF Decide
  <2> QED
    BY <1>4, <1>16, <2>2 DEF Decide, Leave, Quietly, TypeOK, RowTypeOK
<1>17. CASE Complete(t) \/ Escalate(t) \/ AskCustomer(t) \/ JobWriteFails(t)
  BY <1>1, <1>16, <1>17 DEF Complete, Escalate, AskCustomer, JobWriteFails
<1>18. ASSUME NEW job \in {AutoJob, HeldJob}, WriteJob(t, job)
       PROVE  TypeOK'
  <2>1. RowTypeOK'
    BY <1>1, <1>2, <1>18, SaveType DEF WriteJob
  <2>2. view' \in [Tickets -> [notes : Seq(NoteKinds), status : Statuses]]
    BY <1>1, <1>18, <2>1 DEF WriteJob, TypeOK, RowTypeOK
  <2> QED
    BY <1>1, <1>18, <2>1, <2>2 DEF WriteJob, TypeOK, RowTypeOK
<1>19. CASE CommitJob(t)
  BY <1>1, <1>8, <1>19 DEF CommitJob
<1> QED
  BY <1>5, <1>6, <1>7, <1>9, <1>10, <1>11, <1>12, <1>13, <1>14, <1>15, <1>17,
     <1>18, <1>19 DEF Process

\* The runner's loop.
LEMMA LoopType ==
    ASSUME TypeOK, NEW t \in Tickets, Loop(t)
    PROVE  TypeOK'
<1> USE DEF row, desk, worker, files, runner, threads, history
<1>1. NoGate \in Gates /\ NoJob \in Jobs \cup {NoJob}
  BY PipelineAssumption DEF NoGate, Gates
<1>2. gate[t] \in Gates /\ incoming[t] \in Jobs \cup {NoJob}
  BY DEF TypeOK
<1>3. CASE ReadJob(t)
  <2>1. \A place \in {"take", "drop"} :
            [pc |-> place, job |-> incoming[t], tries |-> 0] \in Gates
    BY <1>2, PipelineAssumption DEF Gates
  <2>2. gate' \in [Tickets -> Gates]
    BY <1>3, <2>1 DEF ReadJob, TypeOK
  <2> QED
    BY <1>3, <2>2 DEF ReadJob, TypeOK
<1>4. CASE MergeFile(t)
  BY <1>1, <1>4 DEF MergeFile, TypeOK
<1>5. CASE DropRemove(t)
  BY <1>1, <1>5 DEF DropRemove, TypeOK
<1>6. ASSUME NEW r \in RunIds, Take(t, r)
      PROVE  TypeOK'
  <2>1. [NoRun EXCEPT !.st = "queued", !.lane = gate[t].job.lane] \in Runs
    <3>1. gate[t].job.lane \in Lanes \cup {"none"}
      <4>1. gate[t].job \in {PiJob, AutoJob, HeldJob, NoJob}
        BY <1>2 DEF Gates, Jobs
      <4> QED
        BY <4>1 DEF PiJob, AutoJob, HeldJob, NoJob, Lanes
    <3>2. 0 \in 0..PostRetries
      BY PipelineAssumption
    <3> QED
      BY <3>1, <3>2 DEF NoRun, Runs
  <2>2. runs' \in [Tickets -> [RunIds -> Runs]]
    BY <1>6, <2>1 DEF Take, TypeOK
  <2>3. running' \in [Tickets -> Jobs \cup {NoJob}]
    BY <1>6, <1>2 DEF Take, TypeOK
  <2> QED
    BY <1>1, <1>6, <2>2, <2>3 DEF Take, TypeOK
<1>7. ASSUME NEW delivered \in BOOLEAN, NEW answered \in BOOLEAN,
             DropPost(t, delivered, answered)
      PROVE  TypeOK'
  <2>1. RowTypeOK'
    <3>1. CASE delivered
      BY <1>7, <3>1, ReportResultType DEF DropPost
    <3>2. CASE ~delivered
      BY <1>7, <3>2 DEF DropPost, TypeOK, RowTypeOK
    <3> QED
      BY <3>1, <3>2
  <2>2. gate' \in [Tickets -> Gates]
    <3>1. PICK o \in Outcomes(gate[t].tries, delivered, answered) :
              gate' = [gate EXCEPT ![t] =
                          IF o = "again" THEN [gate[t] EXCEPT !.tries = @ + 1]
                          ELSE [gate[t] EXCEPT !.pc = "remove", !.tries = 0]]
      BY <1>7 DEF DropPost
    <3>2. CASE o = "again"
      <4>1. gate[t].tries < PostRetries
        BY <3>1, <3>2 DEF Outcomes
      <4>2. gate[t].tries + 1 \in 0..PostRetries
        BY <1>2, <4>1, PipelineAssumption DEF Gates
      <4>3. [gate[t] EXCEPT !.tries = @ + 1] \in Gates
        BY <1>2, <4>2 DEF Gates
      <4>4. gate' = [gate EXCEPT ![t] = [gate[t] EXCEPT !.tries = @ + 1]]
        BY <3>1, <3>2
      <4>5. gate \in [Tickets -> Gates]
        BY DEF TypeOK
      <4> QED
        BY <4>3, <4>4, <4>5
    <3>3. CASE o # "again"
      <4>1. [gate[t] EXCEPT !.pc = "remove", !.tries = 0] \in Gates
        <5>1. 0 \in 0..PostRetries
          BY PipelineAssumption
        <5> QED
          BY <1>2, <5>1 DEF Gates
      <4> QED
        BY <3>1, <3>3, <4>1 DEF TypeOK
    <3> QED
      BY <3>2, <3>3
  <2> QED
    BY <1>7, <2>1, <2>2 DEF DropPost, TypeOK, RowTypeOK
<1> QED
  BY <1>3, <1>4, <1>5, <1>6, <1>7 DEF Loop

\* The runner's threads.
LEMMA ThreadType ==
    ASSUME TypeOK, NEW t \in Tickets, NEW r \in RunIds, Thread(t, r) \/ Reap(t, r)
    PROVE  TypeOK'
<1> USE DEF row, desk, worker, files, runner, threads, history
<1>1. runs[t][r] \in Runs
  BY DEF TypeOK
<1>2. ASSUME NEW run \in Runs, SetRun(t, r, run)
      PROVE  runs' \in [Tickets -> [RunIds -> Runs]]
  BY <1>2 DEF SetRun, TypeOK
<1>3. CASE StartRun(t, r)
  <2>1. [runs[t][r] EXCEPT
           !.st = IF runs[t][r].lane = "pi" /\ PiExecuting(t) THEN "done" ELSE "exec"]
        \in Runs
    BY <1>1 DEF Runs
  <2> QED
    BY <1>2, <1>3, <2>1 DEF StartRun, TypeOK
<1>4. CASE EndRun(t, r)
  <2>1. /\ [runs[t][r] EXCEPT !.st = "done"] \in Runs
        /\ \A result \in Results :
              [runs[t][r] EXCEPT !.st = "post", !.result = result] \in Runs
    BY <1>1 DEF Runs
  <2>2. runs' \in [Tickets -> [RunIds -> Runs]]
    BY <1>2, <1>4, <2>1 DEF EndRun
  <2> QED
    BY <1>4, <2>2 DEF EndRun, TypeOK
<1>5. ASSUME NEW delivered \in BOOLEAN, NEW answered \in BOOLEAN,
             PostResult(t, r, delivered, answered)
      PROVE  TypeOK'
  <2>1. RowTypeOK'
    <3>1. CASE delivered
      <4>1. PICK recent \in BOOLEAN : ReportResult(t, runs[t][r].result, recent)
        BY <1>5, <3>1 DEF PostResult
      <4> QED
        BY <4>1, ReportResultType
    <3>2. CASE ~delivered
      BY <1>5, <3>2 DEF PostResult, TypeOK, RowTypeOK
    <3> QED
      BY <3>1, <3>2
  <2>2. runs' \in [Tickets -> [RunIds -> Runs]]
    <3>1. PICK o \in Outcomes(runs[t][r].tries, delivered, answered) :
              SetRun(t, r, IF o = "again" THEN [runs[t][r] EXCEPT !.tries = @ + 1]
                           ELSE [runs[t][r] EXCEPT !.st = "done", !.tries = 0])
      BY <1>5 DEF PostResult
    <3>2. CASE o = "again"
      <4>1. runs[t][r].tries < PostRetries
        BY <3>1, <3>2 DEF Outcomes
      <4>2. runs[t][r].tries + 1 \in 0..PostRetries
        BY <1>1, <4>1, PipelineAssumption DEF Runs
      <4>3. [runs[t][r] EXCEPT !.tries = @ + 1] \in Runs
        BY <1>1, <4>2 DEF Runs
      <4> QED
        BY <1>2, <3>1, <3>2, <4>3
    <3>3. CASE o # "again"
      <4>1. [runs[t][r] EXCEPT !.st = "done", !.tries = 0] \in Runs
        <5>1. 0 \in 0..PostRetries
          BY PipelineAssumption
        <5> QED
          BY <1>1, <5>1 DEF Runs
      <4> QED
        BY <1>2, <3>1, <3>3, <4>1
    <3> QED
      BY <3>2, <3>3
  <2> QED
    BY <1>5, <2>1, <2>2 DEF PostResult, TypeOK, RowTypeOK
<1>6. CASE RemoveFile(t, r)
  <2>1. [runs[t][r] EXCEPT !.st = "gone"] \in Runs
    BY <1>1 DEF Runs
  <2> QED
    BY <1>2, <1>6, <2>1 DEF RemoveFile, TypeOK
<1>7. CASE Reap(t, r)
  <2>1. NoRun \in Runs
    BY PipelineAssumption DEF NoRun, Runs
  <2> QED
    BY <1>2, <1>7, <2>1 DEF Reap, TypeOK
<1> QED
  BY <1>3, <1>4, <1>5, <1>6, <1>7 DEF Thread

\* The restarts.
LEMMA RestartType ==
    ASSUME TypeOK, WorkerRestart \/ RunnerRestart
    PROVE  TypeOK'
<1> USE DEF row, desk, worker, files, runner, threads, history
<1>1. UsedTypeOK'
  BY SpendType DEF WorkerRestart, RunnerRestart
<1>2. /\ NoView \in [notes : Seq(NoteKinds), status : Statuses]
      /\ NoGate \in Gates /\ NoRun \in Runs
  BY PipelineAssumption DEF NoView, Statuses, NoGate, Gates, NoRun, Runs
<1>3. CASE WorkerRestart
  BY <1>1, <1>2, <1>3 DEF WorkerRestart, TypeOK, UsedTypeOK
<1>4. CASE RunnerRestart
  BY <1>1, <1>2, <1>4 DEF RunnerRestart, TypeOK, UsedTypeOK
<1> QED
  BY <1>3, <1>4

\* Every variable keeps its type: the statuses the API, the worker and the
\* runner write are the ones they expect of each other, every list of notes holds
\* known events, and every counter stays within its bound.
THEOREM TypeCorrect == Spec => []TypeOK
<1>1. Init => TypeOK
  BY InitType
<1>2. TypeOK /\ [Next]_vars => TypeOK'
  <2> SUFFICES ASSUME TypeOK, [Next]_vars
               PROVE  TypeOK'
    OBVIOUS
  <2>1. CASE UNCHANGED vars
    BY <2>1 DEF vars, row, desk, worker, files, runner, threads, history, TypeOK
  <2>2. CASE Poll
    BY <2>2, PollType
  <2>3. CASE WorkerRestart \/ RunnerRestart
    BY <2>3, RestartType
  <2>4. ASSUME NEW t \in Tickets, Tick(t) \/ Api(t) \/ Process(t) \/ Loop(t)
        PROVE  TypeOK'
    BY <2>4, TickType, ApiType, ProcessType, LoopType
  <2>5. ASSUME NEW t \in Tickets, NEW r \in RunIds, Thread(t, r) \/ Reap(t, r)
        PROVE  TypeOK'
    BY <2>5, ThreadType
  <2> QED
    BY <2>1, <2>2, <2>3, <2>4, <2>5 DEF Next
<1> QED
  BY <1>1, <1>2, PTL DEF Spec

-----------------------------------------------------------------------------
(* What leaves the runner's threads alone.                                 *)

\* Which actions leave the runner's threads alone: all of the API, of the worker
\* and of the clock, and those of the loop that do not take a file.
LEMMA ThreadsKept ==
    ASSUME NEW t \in Tickets,
           \/ Poll \/ WorkerRestart \/ Tick(t) \/ Api(t) \/ Process(t)
           \/ ReadJob(t) \/ MergeFile(t) \/ DropRemove(t)
           \/ \E delivered, answered \in BOOLEAN : DropPost(t, delivered, answered)
    PROVE  UNCHANGED runs
<1> USE DEF runner, threads
<1>1. CASE Poll \/ WorkerRestart \/ Tick(t)
  BY <1>1 DEF Poll, WorkerRestart, Tick
<1>2. CASE Api(t)
  BY <1>2 DEF Api, Create, UserNote, Engage, Approve, Close, Retry, Progress
<1>3. CASE Process(t)
  <2>1. CASE CloseIntent(t) \/ SanitizerReject(t) \/ PickUp(t)
    BY <2>1 DEF CloseIntent, SanitizerReject, PickUp
  <2>2. CASE BlockRequest(t) \/ Greet(t) \/ PiSkip(t) \/ PiWrite(t) \/ Reload(t)
    BY <2>2 DEF BlockRequest, Greet, PiSkip, PiWrite, Reload, Quietly
  <2>3. CASE ModelFails(t) \/ WorkerError(t) \/ Complete(t) \/ Escalate(t)
             \/ AskCustomer(t) \/ JobWriteFails(t) \/ CommitJob(t)
    BY <2>3 DEF ModelFails, WorkerError, Complete, Escalate, AskCustomer,
                JobWriteFails, CommitJob, Decide, Quietly
  <2>4. ASSUME NEW job \in {AutoJob, HeldJob}, WriteJob(t, job)
        PROVE  UNCHANGED runs
    BY <2>4 DEF WriteJob
  <2> QED
    BY <1>3, <2>1, <2>2, <2>3, <2>4 DEF Process
<1>4. CASE ReadJob(t) \/ MergeFile(t) \/ DropRemove(t)
  BY <1>4 DEF ReadJob, MergeFile, DropRemove
<1>5. ASSUME NEW delivered \in BOOLEAN, NEW answered \in BOOLEAN,
             DropPost(t, delivered, answered)
      PROVE  UNCHANGED runs
  BY <1>5 DEF DropPost
<1> QED
  BY <1>1, <1>2, <1>3, <1>4, <1>5

-----------------------------------------------------------------------------
(* One session per ticket.                                                 *)

InSession(t, r) == runs[t][r].st = "exec" /\ runs[t][r].lane = "pi"

\* A step after which only runs that were in session are in session keeps the
\* sessions apart.
LEMMA FewerSessions ==
    ASSUME OneSession,
           \A t \in Tickets : \A r \in RunIds : InSession(t, r)' => InSession(t, r)
    PROVE  OneSession'
BY DEF OneSession, InSession

\* A step of one run that leaves every other run alone and does not start a
\* session keeps the sessions apart.
LEMMA QuietRun ==
    ASSUME TypeOK, OneSession, NEW t \in Tickets, NEW r \in RunIds, NEW run,
           run.st # "exec", runs' = [runs EXCEPT ![t][r] = run]
    PROVE  OneSession'
<1>1. \A u \in Tickets : \A s \in RunIds :
          runs'[u][s] = IF u = t /\ s = r THEN run ELSE runs[u][s]
  BY DEF TypeOK
<1>2. \A u \in Tickets : \A s \in RunIds : InSession(u, s)' => InSession(u, s)
  BY <1>1 DEF InSession
<1> QED
  BY <1>2, FewerSessions

LEMMA OneSessionStep ==
    ASSUME TypeOK, OneSession, [Next]_vars
    PROVE  OneSession'
<1>1. ASSUME UNCHANGED runs PROVE OneSession'
  BY <1>1 DEF OneSession
<1>2. CASE UNCHANGED vars
  BY <1>1, <1>2 DEF vars, runner, threads
<1>3. CASE RunnerRestart
  <2>1. \A t \in Tickets : \A r \in RunIds : runs'[t][r].st = "none"
    BY <1>3 DEF RunnerRestart, NoRun
  <2> QED
    BY <2>1 DEF OneSession
<1>4. ASSUME NEW t \in Tickets, NEW r \in RunIds, Take(t, r)
      PROVE  OneSession'
  <2>1. [NoRun EXCEPT !.st = "queued", !.lane = gate[t].job.lane].st # "exec"
    BY DEF NoRun
  <2> QED
    BY <1>4, <2>1, QuietRun DEF Take
<1>5. ASSUME NEW t \in Tickets, NEW r \in RunIds, StartRun(t, r)
      PROVE  OneSession'
  <2>1. runs[t][r] \in Runs
    BY DEF TypeOK
  <2>2. CASE runs[t][r].lane = "pi" /\ PiExecuting(t)
    <3>1. [runs[t][r] EXCEPT !.st = "done"].st # "exec"
      BY <2>1 DEF Runs
    <3>2. runs' = [runs EXCEPT ![t][r] = [runs[t][r] EXCEPT !.st = "done"]]
      BY <1>5, <2>2 DEF StartRun, SetRun
    <3> QED
      BY <3>1, <3>2, QuietRun
  <2>3. CASE runs[t][r].lane # "pi"
    <3>1. runs' = [runs EXCEPT ![t][r] = [runs[t][r] EXCEPT !.st = "exec"]]
      BY <1>5, <2>3 DEF StartRun, SetRun
    <3>2. [runs[t][r] EXCEPT !.st = "exec"].lane # "pi"
      BY <2>1, <2>3 DEF Runs
    <3>3. \A u \in Tickets : \A s \in RunIds :
              runs'[u][s] = IF u = t /\ s = r THEN [runs[t][r] EXCEPT !.st = "exec"]
                                              ELSE runs[u][s]
      BY <3>1 DEF TypeOK
    <3>4. \A u \in Tickets : \A s \in RunIds : InSession(u, s)' => InSession(u, s)
      BY <3>2, <3>3 DEF InSession
    <3> QED
      BY <3>4, FewerSessions
  <2>4. CASE runs[t][r].lane = "pi" /\ ~PiExecuting(t)
    <3>1. \A s \in RunIds : ~InSession(t, s)
      BY <2>4 DEF PiExecuting, InSession
    <3>2. runs' = [runs EXCEPT ![t][r] = [runs[t][r] EXCEPT !.st = "exec"]]
      BY <1>5, <2>4 DEF StartRun, SetRun
    <3>3. \A u \in Tickets : \A s \in RunIds :
              ~(u = t /\ s = r) => runs'[u][s] = runs[u][s]
      BY <3>2 DEF TypeOK
    <3>4. \A u \in Tickets : \A s \in RunIds :
              InSession(u, s)' => InSession(u, s) \/ (u = t /\ s = r)
      BY <3>3 DEF InSession
    <3>5. \A s \in RunIds : InSession(t, s)' => s = r
      BY <3>1, <3>4
    <3> QED
      BY <3>4, <3>5 DEF OneSession, InSession
  <2> QED
    BY <2>2, <2>3, <2>4
<1>6. ASSUME NEW t \in Tickets, NEW r \in RunIds,
             EndRun(t, r) \/ RemoveFile(t, r) \/ Reap(t, r)
      PROVE  OneSession'
  <2>1. runs[t][r] \in Runs
    BY DEF TypeOK
  <2>2. /\ NoRun.st # "exec"
        /\ [runs[t][r] EXCEPT !.st = "done"].st # "exec"
        /\ [runs[t][r] EXCEPT !.st = "gone"].st # "exec"
        /\ \A result \in Results :
              [runs[t][r] EXCEPT !.st = "post", !.result = result].st # "exec"
    BY <2>1 DEF NoRun, Runs
  <2>3. PICK run : run.st # "exec" /\ runs' = [runs EXCEPT ![t][r] = run]
    BY <1>6, <2>2 DEF EndRun, RemoveFile, Reap, SetRun
  <2> QED
    BY <2>3, QuietRun
<1>7. ASSUME NEW t \in Tickets, NEW r \in RunIds,
             \E delivered, answered \in BOOLEAN : PostResult(t, r, delivered, answered)
      PROVE  OneSession'
  <2>1. runs[t][r] \in Runs /\ runs[t][r].st = "post"
    BY <1>7 DEF TypeOK, PostResult
  <2>2. /\ [runs[t][r] EXCEPT !.tries = @ + 1].st # "exec"
        /\ [runs[t][r] EXCEPT !.st = "done", !.tries = 0].st # "exec"
    BY <2>1 DEF Runs
  <2>3. PICK run : run.st # "exec" /\ runs' = [runs EXCEPT ![t][r] = run]
    BY <1>7, <2>2 DEF PostResult, SetRun
  <2> QED
    BY <2>3, QuietRun
<1>8. CASE Poll \/ WorkerRestart
  BY <1>1, <1>8 DEF Poll, WorkerRestart, runner, threads
<1>9. ASSUME NEW t \in Tickets, Tick(t) \/ Api(t) \/ Process(t) \/ Loop(t)
      PROVE  OneSession'
  BY <1>1, <1>4, <1>9, ThreadsKept DEF Loop
<1> QED
  BY <1>2, <1>3, <1>5, <1>6, <1>7, <1>8, <1>9 DEF Next, Thread

\* At most one pi session of a ticket executes at any time, whatever the policy
\* switches, the customer's messages, the restarts and the number of slots: the
\* lock of _run_pi_task is enough, no other guard is needed for it.
THEOREM OneSessionAlways == Spec => []OneSession
<1>1. Init => OneSession
  BY DEF Init, OneSession, NoRun
<1>2. TypeOK /\ OneSession /\ [Next]_vars => OneSession'
  BY OneSessionStep
<1> QED
  BY <1>1, <1>2, TypeCorrect, PTL DEF Spec

-----------------------------------------------------------------------------
(* The retry budget.  It is inductive only together with the same bound on *)
(* the notes the worker has loaded: they are written back whole.           *)

RetryIInv ==
    /\ RetryBudget
    /\ \A t \in Tickets : Retries(view[t].notes) < RetryMax

\* Notes that may be written: known events, and a retry to spare.
Affordable(n) == n \in Seq(NoteKinds) /\ Retries(n) < RetryMax

\* Adding any other note, or a retry note when two are to spare, keeps that.
LEMMA AffordableNote ==
    ASSUME NEW n, Affordable(n), NEW k \in NoteKinds,
           k # "retry" \/ Retries(n) + 1 < RetryMax
    PROVE  Affordable(AddNote(n, k))
<1>1. /\ AddNote(n, k) \in Seq(NoteKinds)
      /\ Retries(n) \in Nat /\ Retries(AddNote(n, k)) \in Nat
  BY AddNoteType, CountType DEF Affordable, Retries
<1>2. /\ Retries(AddNote(n, k)) <= Retries(n) + 1
      /\ k # "retry" => Retries(AddNote(n, k)) <= Retries(n)
  BY CountAdd DEF Affordable, Retries
<1> QED
  BY <1>1, <1>2, PipelineAssumption DEF Affordable

\* A commit of affordable notes, with the loaded rows unchanged or replaced by
\* affordable ones, keeps the invariant.
LEMMA RetryCommit ==
    ASSUME TypeOK, RetryIInv, NEW t \in Tickets, NEW s, NEW n, Affordable(n),
           Save(t, s, n),
           \A u \in Tickets : \/ view'[u] = view[u]
                              \/ Affordable(view'[u].notes)
    PROVE  RetryIInv'
BY DEF RetryIInv, RetryBudget, Save, Affordable, TypeOK

LEMMA EmptyAffordable == Affordable(<<>>) /\ Retries(<<>>) = 0
<1>1. {i \in DOMAIN <<>> : <<>>[i] \in {"retry"}} = {}
  OBVIOUS
<1>2. Retries(<<>>) = 0
  BY <1>1, FS_EmptySet DEF Retries, CountOf
<1> QED
  BY <1>2, PipelineAssumption DEF Affordable

LEMMA RetryApi ==
    ASSUME TypeOK, RetryIInv, NEW t \in Tickets, Api(t)
    PROVE  RetryIInv'
<1> USE DEF worker, desk
<1>1. Affordable(notes[t])
  BY DEF RetryIInv, RetryBudget, Affordable, TypeOK
<1>2. \A k \in NoteKinds \ {"retry"} : Affordable(AddNote(notes[t], k))
  BY <1>1, AffordableNote
<1>3. UserKinds \cup {"chatter"} \subseteq NoteKinds \ {"retry"}
  BY DEF NoteKinds, UserKinds
<1>4. ASSUME NEW s, NEW n, Affordable(n), Save(t, s, n), UNCHANGED view
      PROVE  RetryIInv'
  BY <1>4, RetryCommit
<1>5. CASE Create(t)
  BY <1>4, <1>5, EmptyAffordable DEF Create
<1>6. ASSUME NEW m \in Messages, UserNote(t, m) \/ Engage(t, m)
      PROVE  RetryIInv'
  BY <1>2, <1>3, <1>4, <1>6, PipelineAssumption DEF UserNote, Engage
<1>7. CASE Approve(t) \/ Close(t) \/ Retry(t)
  BY <1>1, <1>4, <1>7 DEF Approve, Close, Retry
<1>8. CASE Progress(t)
  BY <1>2, <1>3, <1>4, <1>8 DEF Progress
<1> QED
  BY <1>5, <1>6, <1>7, <1>8 DEF Api

LEMMA RetryProcess ==
    ASSUME TypeOK, RetryIInv, NEW t \in Tickets, Process(t)
    PROVE  RetryIInv'
<1> USE DEF worker, desk, row
<1> DEFINE Spare == NoteKinds \ {"retry"}
<1>1. /\ Affordable(notes[t]) /\ Affordable(view[t].notes)
      /\ {"escalated", "closed", "input", "chatter", "processing", "auto",
          "dispatch", "await"} \subseteq Spare
      /\ "retry" \in NoteKinds
  BY DEF RetryIInv, RetryBudget, Affordable, TypeOK, NoteKinds, TerminalWorkEvents, UserKinds
<1>2. \A k \in Spare : /\ Affordable(AddNote(notes[t], k))
                       /\ Affordable(AddNote(view[t].notes, k))
  BY <1>1, AffordableNote
<1>3. \A j, k \in Spare : /\ Affordable(AddNote(AddNote(notes[t], j), k))
                          /\ Affordable(AddNote(AddNote(view[t].notes, j), k))
  BY <1>2, AffordableNote
<1>4. Affordable(NoView.notes)
  BY EmptyAffordable DEF NoView
<1>5. ASSUME NEW s, NEW n, Affordable(n), Save(t, s, n), UNCHANGED view \/ Leave(t)
      PROVE  RetryIInv'
  <2>1. \A u \in Tickets : view'[u] = view[u] \/ Affordable(view'[u].notes)
    BY <1>4, <1>5 DEF Leave, TypeOK
  <2> QED
    BY <1>5, <2>1, RetryCommit
<1>6. ASSUME NEW s, NEW k \in Spare, Settle(t, s, k)
      PROVE  RetryIInv'
  BY <1>2, <1>5, <1>6 DEF Settle
<1>7. CASE CloseIntent(t)
  <2>1. PICK s : \E n : Affordable(n) /\ Save(t, s, n)
    BY <1>1, <1>2, <1>3, <1>7 DEF CloseIntent
  <2> QED
    BY <1>5, <1>7, <2>1 DEF CloseIntent
<1>8. CASE SanitizerReject(t)
  BY <1>1, <1>2, <1>5, <1>8 DEF SanitizerReject
<1>9. CASE PickUp(t)
  <2>1. notes'[t] = AddNote(notes[t], "processing")
    BY <1>9 DEF PickUp, Save, TypeOK
  <2>2. \A u \in Tickets : view'[u] = view[u] \/ Affordable(view'[u].notes)
    BY <1>1, <1>2, <1>9, <2>1 DEF PickUp, TypeOK
  <2> QED
    BY <1>1, <1>2, <1>9, <2>2, RetryCommit DEF PickUp
<1>10. CASE BlockRequest(t) \/ Greet(t) \/ PiSkip(t) \/ CommitJob(t)
  BY <1>1, <1>6, <1>10 DEF BlockRequest, Greet, PiSkip, CommitJob
<1>11. CASE PiWrite(t)
  BY <1>11 DEF PiWrite, RetryIInv, RetryBudget
<1>12. CASE Reload(t)
  BY <1>1, <1>12 DEF Reload, RetryIInv, RetryBudget, Affordable, TypeOK
<1>13. CASE ModelFails(t)
  <2>1. CASE Retries(view[t].notes) + 1 >= RetryMax
    BY <1>1, <1>6, <1>13, <2>1 DEF ModelFails
  <2>2. CASE ~(Retries(view[t].notes) + 1 >= RetryMax)
    <3>1. Retries(view[t].notes) \in Nat
      BY <1>1, CountType DEF Affordable, Retries
    <3>2. Affordable(AddNote(view[t].notes, "retry"))
      BY <1>1, <2>2, <3>1, AffordableNote, PipelineAssumption
    <3> QED
      BY <1>5, <1>13, <2>2, <3>2 DEF ModelFails, Settle
  <2> QED
    BY <2>1, <2>2
<1>14. CASE WorkerError(t)
  BY <1>1, <1>5, <1>14 DEF WorkerError
<1>15. CASE Complete(t) \/ Escalate(t) \/ AskCustomer(t) \/ JobWriteFails(t)
  BY <1>1, <1>3, <1>5, <1>15 DEF Complete, Escalate, AskCustomer, JobWriteFails, Decide
<1>16. ASSUME NEW job \in {AutoJob, HeldJob}, WriteJob(t, job)
       PROVE  RetryIInv'
  <2>1. notes'[t] = AddNote(view[t].notes, "chatter")
    BY <1>16 DEF WriteJob, Save, TypeOK
  <2>2. \A u \in Tickets : view'[u] = view[u] \/ Affordable(view'[u].notes)
    BY <1>1, <1>2, <1>16, <2>1 DEF WriteJob, TypeOK
  <2> QED
    BY <1>1, <1>2, <1>16, <2>2, RetryCommit DEF WriteJob
<1> QED
  BY <1>7, <1>8, <1>9, <1>10, <1>11, <1>12, <1>13, <1>14, <1>15, <1>16 DEF Process

LEMMA RetryResult ==
    ASSUME TypeOK, RetryIInv, NEW t \in Tickets, NEW result, NEW recent,
           ReportResult(t, result, recent), UNCHANGED view
    PROVE  RetryIInv'
<1>1. /\ Affordable(notes[t])
      /\ {"completed", "failed", "chatter"} \subseteq NoteKinds \ {"retry"}
  BY DEF RetryIInv, RetryBudget, Affordable, TypeOK, NoteKinds, TerminalWorkEvents
<1>2. \A j, k \in {"completed", "failed", "chatter"} :
          /\ Affordable(AddNote(notes[t], j))
          /\ Affordable(AddNote(AddNote(notes[t], j), k))
  BY <1>1, AffordableNote
<1>3. CASE UNCHANGED row
  BY <1>3 DEF row, RetryIInv, RetryBudget
<1>4. CASE \E s, n : Affordable(n) /\ Save(t, s, n)
  BY <1>4, RetryCommit
<1> QED
  BY <1>2, <1>3, <1>4 DEF ReportResult

LEMMA RetryStep ==
    ASSUME TypeOK, RetryIInv, [Next]_vars
    PROVE  RetryIInv'
<1> USE DEF row, desk, worker
<1>1. ASSUME UNCHANGED <<notes, view>> PROVE RetryIInv'
  BY <1>1 DEF RetryIInv, RetryBudget
<1>2. CASE UNCHANGED vars
  BY <1>1, <1>2 DEF vars
<1>3. CASE Poll
  <2>1. "escalated" \in NoteKinds
    BY DEF NoteKinds, TerminalWorkEvents
  <2>2. \A t \in Tickets : /\ Affordable(notes[t])
                          /\ Affordable(AddNote(notes[t], "escalated"))
    BY <2>1, AffordableNote DEF RetryIInv, RetryBudget, Affordable, TypeOK
  <2>3. \A t \in Tickets : Affordable(notes'[t])
    BY <1>3, <2>2 DEF Poll
  <2> QED
    BY <1>3, <2>3 DEF Poll, RetryIInv, RetryBudget, Affordable
<1>4. CASE WorkerRestart
  <2>1. \A t \in Tickets : Retries(view'[t].notes) < RetryMax
    BY <1>4, EmptyAffordable DEF WorkerRestart, NoView, Affordable
  <2> QED
    BY <1>4, <2>1 DEF WorkerRestart, RetryIInv, RetryBudget
<1>5. CASE RunnerRestart
  BY <1>1, <1>5 DEF RunnerRestart
<1>6. ASSUME NEW t \in Tickets, Tick(t) PROVE RetryIInv'
  BY <1>1, <1>6 DEF Tick
<1>7. ASSUME NEW t \in Tickets, Api(t) \/ Process(t) PROVE RetryIInv'
  BY <1>7, RetryApi, RetryProcess
<1>8. ASSUME NEW t \in Tickets, Loop(t) PROVE RetryIInv'
  <2>1. ASSUME NEW delivered \in BOOLEAN, NEW answered \in BOOLEAN,
               DropPost(t, delivered, answered)
        PROVE  RetryIInv'
    BY <1>1, <2>1, RetryResult DEF DropPost
  <2> QED
    BY <1>1, <1>8, <2>1 DEF Loop, ReadJob, MergeFile, DropRemove, Take
<1>9. ASSUME NEW t \in Tickets, NEW r \in RunIds, Thread(t, r) \/ Reap(t, r)
      PROVE  RetryIInv'
  <2>1. ASSUME NEW delivered \in BOOLEAN, NEW answered \in BOOLEAN,
               PostResult(t, r, delivered, answered)
        PROVE  RetryIInv'
    BY <1>1, <2>1, RetryResult DEF PostResult
  <2> QED
    BY <1>1, <1>9, <2>1 DEF Thread, StartRun, EndRun, RemoveFile, Reap
<1> QED
  BY <1>2, <1>3, <1>4, <1>5, <1>6, <1>7, <1>8, <1>9 DEF Next

\* A ticket never holds as many llm_retry notes as the budget allows attempts,
\* even when the worker's stale copy of its notes overwrites newer ones and when
\* old notes are evicted: a dead provider is always handed to a human in time.
THEOREM RetryBudgetAlways == Spec => []RetryBudget
<1>1. Init => RetryIInv
  BY EmptyAffordable DEF Init, RetryIInv, RetryBudget, NoView, Affordable
<1>2. TypeOK /\ RetryIInv /\ [Next]_vars => RetryIInv'
  BY RetryStep
<1>3. RetryIInv => RetryBudget
  BY DEF RetryIInv
<1> QED
  BY <1>1, <1>2, <1>3, TypeCorrect, PTL DEF Spec

-----------------------------------------------------------------------------
(* A closed ticket at rest stays so.                                       *)

\* What AtRest looks at is left alone.
Untouched(t) ==
    /\ status'[t] = status[t] /\ at'[t] = at[t] /\ todo' \subseteq todo
    /\ incoming'[t] = incoming[t] /\ running'[t] = running[t]
    /\ gate'[t] = gate[t] /\ runs'[t] = runs[t]

LEMMA UntouchedRests ==
    ASSUME NEW t \in Tickets, AtRest(t), Untouched(t)
    PROVE  AtRest(t)'
BY DEF AtRest, Untouched, Live

\* Writing the row of one ticket, or of none, leaves the status of the others.
LEMMA OtherRow ==
    ASSUME TypeOK, NEW t \in Tickets, NEW u \in Tickets, u # t, NEW s, NEW n, Save(u, s, n)
    PROVE  status'[t] = status[t]
BY DEF Save, TypeOK

\* An action of one ticket leaves the others alone.
LEMMA OtherTickets ==
    ASSUME TypeOK, NEW t \in Tickets, NEW u \in Tickets, u # t,
           \/ Tick(u) \/ Api(u) \/ Process(u) \/ Loop(u)
           \/ \E r \in RunIds : Thread(u, r) \/ Reap(u, r)
    PROVE  Untouched(t)
<1> USE DEF row, desk, worker, files, threads, runner, history, Untouched
<1>1. ASSUME NEW s, NEW n, Save(u, s, n) PROVE status'[t] = status[t]
  BY <1>1, OtherRow
<1>2. CASE Tick(u)
  BY <1>2 DEF Tick
<1>3. CASE Api(u)
  BY <1>1, <1>3 DEF Api, Create, UserNote, Engage, Approve, Close, Retry, Progress
<1>4. CASE Process(u)
  <2>1. CASE CloseIntent(u) \/ SanitizerReject(u) \/ PickUp(u)
    BY <1>1, <2>1 DEF CloseIntent, SanitizerReject, PickUp, TypeOK
  <2>2. CASE BlockRequest(u) \/ Greet(u) \/ PiSkip(u) \/ CommitJob(u) \/ ModelFails(u)
    BY <1>1, <2>2 DEF BlockRequest, Greet, PiSkip, CommitJob, ModelFails, Settle, Leave,
                      Quietly, TypeOK
  <2>3. CASE PiWrite(u) \/ Reload(u)
    BY <2>3 DEF PiWrite, Reload, TypeOK
  <2>4. CASE Complete(u) \/ Escalate(u) \/ AskCustomer(u) \/ JobWriteFails(u)
             \/ WorkerError(u)
    BY <1>1, <2>4 DEF Complete, Escalate, AskCustomer, JobWriteFails, WorkerError, Decide,
                      Leave, Quietly, TypeOK
  <2>5. ASSUME NEW job \in {AutoJob, HeldJob}, WriteJob(u, job) PROVE Untouched(t)
    BY <1>1, <2>5 DEF WriteJob, TypeOK
  <2> QED
    BY <1>4, <2>1, <2>2, <2>3, <2>4, <2>5 DEF Process
<1>5. ASSUME NEW result, NEW recent, ReportResult(u, result, recent)
      PROVE  status'[t] = status[t]
  BY <1>1, <1>5 DEF ReportResult
<1>6. CASE Loop(u)
  <2>1. CASE ReadJob(u) \/ MergeFile(u) \/ DropRemove(u)
    BY <2>1 DEF ReadJob, MergeFile, DropRemove, TypeOK
  <2>2. ASSUME NEW r \in RunIds, Take(u, r) PROVE Untouched(t)
    BY <2>2 DEF Take, TypeOK
  <2>3. ASSUME NEW delivered \in BOOLEAN, NEW answered \in BOOLEAN,
               DropPost(u, delivered, answered)
        PROVE  Untouched(t)
    BY <1>5, <2>3 DEF DropPost, TypeOK
  <2> QED
    BY <1>6, <2>1, <2>2, <2>3 DEF Loop
<1>7. ASSUME NEW r \in RunIds, Thread(u, r) \/ Reap(u, r) PROVE Untouched(t)
  <2>1. CASE StartRun(u, r) \/ EndRun(u, r) \/ RemoveFile(u, r) \/ Reap(u, r)
    BY <2>1 DEF StartRun, EndRun, RemoveFile, Reap, SetRun, TypeOK
  <2>2. ASSUME NEW delivered \in BOOLEAN, NEW answered \in BOOLEAN,
               PostResult(u, r, delivered, answered)
        PROVE  Untouched(t)
    BY <1>5, <2>2 DEF PostResult, SetRun, TypeOK
  <2> QED
    BY <1>7, <2>1, <2>2 DEF Thread
<1> QED
  BY <1>2, <1>3, <1>4, <1>6, <1>7

\* Its own actions are not possible at rest, or leave it at rest.
LEMMA OwnTicket ==
    ASSUME TypeOK, NEW t \in Tickets, AtRest(t),
           \/ Tick(t) \/ Api(t) \/ Process(t) \/ Loop(t)
           \/ \E r \in RunIds : Thread(t, r) \/ Reap(t, r)
    PROVE  AtRest(t)'
<1> USE DEF row, desk, worker, files, threads, runner, history
<1>1. /\ status[t] = "closed" /\ at[t] = "out" /\ t \notin todo
      /\ incoming[t] = NoJob /\ running[t] = NoJob /\ gate[t] = NoGate
      /\ \A r \in RunIds : runs[t][r].st \notin {"queued", "exec", "post", "done"}
  BY DEF AtRest, Live
<1>2. ~Tick(t)
  BY <1>1 DEF Tick
<1>3. CASE Api(t)
  <2>1. ~Create(t) /\ ~Approve(t) /\ ~Close(t) /\ ~Retry(t) /\ ~Progress(t)
        /\ \A m \in Messages : ~Engage(t, m)
    BY <1>1 DEF Create, Approve, Close, Retry, Progress, Engage
  <2>2. PICK m \in Messages : UserNote(t, m)
    BY <1>3, <2>1 DEF Api
  <2>3. Untouched(t)
    BY <2>2 DEF UserNote, Save, Untouched, TypeOK
  <2> QED
    BY <2>3, UntouchedRests
<1>4. ~Process(t)
  BY <1>1 DEF Process, CloseIntent, SanitizerReject, PickUp, BlockRequest, Greet, PiSkip,
              PiWrite, Reload, ModelFails, WorkerError, Complete, Escalate, AskCustomer,
              JobWriteFails, Decide, WriteJob, CommitJob, AsksModel, Workable
<1>5. ~Loop(t)
  BY <1>1 DEF Loop, ReadJob, MergeFile, DropRemove, Take, DropPost, NoGate
<1>6. \A r \in RunIds : ~Thread(t, r)
  BY <1>1 DEF Thread, StartRun, EndRun, RemoveFile, PostResult
<1>7. ASSUME NEW r \in RunIds, Reap(t, r) PROVE AtRest(t)'
  <2>1. \A s \in RunIds : runs'[t][s] = runs[t][s] \/ runs'[t][s] = NoRun
    BY <1>7 DEF Reap, SetRun, TypeOK
  <2>2. \A s \in RunIds : runs'[t][s].st \notin {"queued", "exec", "post", "done"}
    BY <1>1, <2>1 DEF NoRun
  <2> QED
    BY <1>1, <1>7, <2>2 DEF Reap, AtRest, Live
<1> QED
  BY <1>2, <1>3, <1>4, <1>5, <1>6, <1>7

LEMMA RestStep ==
    ASSUME TypeOK, [Next]_vars, NEW t \in Tickets, AtRest(t)
    PROVE  AtRest(t)'
<1> USE DEF row, desk, worker, files, threads, runner, history
<1>1. CASE UNCHANGED vars
  BY <1>1, UntouchedRests DEF vars, Untouched
<1>2. CASE Poll
  <2>1. status[t] = "closed"
    BY DEF AtRest
  <2>2. ~Selected(t) /\ ~Stuck(t)
    BY <2>1 DEF Selected, NewReply, Waiting, RetryDue, FeedbackDue, Stuck
  <2> QED
    BY <1>2, <2>2 DEF Poll, AtRest, Live, TypeOK
<1>3. CASE WorkerRestart
  BY <1>3 DEF WorkerRestart, AtRest, Live
<1>4. CASE RunnerRestart
  BY <1>4 DEF RunnerRestart, AtRest, Live, NoRun
<1>5. ASSUME NEW u \in Tickets,
             \/ Tick(u) \/ Api(u) \/ Process(u) \/ Loop(u)
             \/ \E r \in RunIds : Thread(u, r) \/ Reap(u, r)
      PROVE  AtRest(t)'
  <2>1. CASE u = t
    BY <1>5, <2>1, OwnTicket
  <2>2. CASE u # t
    BY <1>5, <2>2, OtherTickets, UntouchedRests
  <2> QED
    BY <2>1, <2>2
<1> QED
  BY <1>1, <1>2, <1>3, <1>4, <1>5 DEF Next

\* A ticket that is closed, with no round, job file or thread of it left, stays
\* closed for good: no message, poll, restart or job of another ticket starts
\* work on it or changes its status.
THEOREM ClosedIsFinalAlways == Spec => ClosedIsFinal
<1>1. TypeOK /\ [Next]_vars => [\A t \in Tickets : AtRest(t) => AtRest(t)']_vars
  BY RestStep
<1> QED
  BY <1>1, TypeCorrect, PTL DEF Spec, ClosedIsFinal

-----------------------------------------------------------------------------
(* The session lane: one profile, one file, one session.                   *)

\* The part of SessionOwnsFile that is about one ticket.
Owned(t) == /\ \A r, s \in Live(t) : r = s
            /\ Live(t) # {} <=> running[t] # NoJob
            /\ running[t] = NoJob \/ incoming[t] = NoJob

\* With the files of the lane, and what the loop has read is still there.
LaneInv(t) == /\ incoming[t] \in {NoJob, PiJob} /\ running[t] \in {NoJob, PiJob}
              /\ gate[t].pc \in {"out", "take"}
              /\ gate[t].pc = "take" => incoming[t] = PiJob
              /\ Owned(t)

LaneIInv == \A t \in Tickets : text[t] # "lookup" => LaneInv(t)

LEMMA JobsDiffer == NoJob # PiJob /\ NoJob.lane = "none" /\ PiJob.lane = "pi" /\ ~PiJob.held
                    /\ PiJob # AutoJob
BY DEF NoJob, PiJob, AutoJob

\* What does not touch the files, the gate and the live threads of any ticket.
LEMMA LaneKept ==
    ASSUME LaneIInv, UNCHANGED <<text, incoming, running, gate>>,
           \A t \in Tickets : Live(t)' = Live(t)
    PROVE  LaneIInv'
BY DEF LaneIInv, LaneInv, Owned

\* What touches those of one ticket only.
LEMMA LaneOf ==
    ASSUME LaneIInv, UNCHANGED text, NEW t \in Tickets,
           \A u \in Tickets : u # t =>
               /\ incoming'[u] = incoming[u] /\ running'[u] = running[u]
               /\ gate'[u] = gate[u] /\ Live(u)' = Live(u),
           text[t] # "lookup" => LaneInv(t)'
    PROVE  LaneIInv'
<1> SUFFICES ASSUME NEW u \in Tickets, text[u] # "lookup" PROVE LaneInv(u)'
  BY DEF LaneIInv
<1>1. CASE u = t
  BY <1>1
<1>2. CASE u # t
  BY <1>2 DEF LaneIInv, LaneInv, Owned
<1> QED
  BY <1>1, <1>2

\* A step of one thread: which of them are live changes by that thread only.
LEMMA LiveOf ==
    ASSUME TypeOK, NEW t \in Tickets, NEW r \in RunIds, NEW run,
           runs' = [runs EXCEPT ![t][r] = run]
    PROVE  /\ \A u \in Tickets : u # t => Live(u)' = Live(u)
           /\ Live(t)' = IF run.st \in {"queued", "exec", "post", "done"}
                         THEN Live(t) \cup {r} ELSE Live(t) \ {r}
<1>1. \A u \in Tickets : \A s \in RunIds :
          runs'[u][s] = IF u = t /\ s = r THEN run ELSE runs[u][s]
  BY DEF TypeOK
<1> QED
  BY <1>1 DEF Live

\* No thread is live after another than r, whose file is gone.
LEMMA LaneThread ==
    ASSUME TypeOK, LaneIInv, NEW t \in Tickets, NEW r \in RunIds, NEW run,
           runs' = [runs EXCEPT ![t][r] = run], r \in Live(t),
           run.st \in {"queued", "exec", "post", "done"},
           UNCHANGED <<text, incoming, running, gate>>
    PROVE  LaneIInv'
<1>1. /\ \A u \in Tickets : u # t => Live(u)' = Live(u)
      /\ Live(t)' = Live(t) \cup {r}
  BY LiveOf
<1>2. \A u \in Tickets : Live(u)' = Live(u)
  BY <1>1
<1> QED
  BY <1>2, LaneKept

\* The actions of the loop and of the threads.
LEMMA LaneRunner ==
    ASSUME Profiles = {"pi"}, TypeOK, LaneIInv, NEW t \in Tickets,
           \/ Loop(t)
           \/ \E r \in RunIds : Thread(t, r) \/ Reap(t, r)
    PROVE  LaneIInv'
<1> USE DEF files, threads
<1>1. text[t] # "lookup" => LaneInv(t)
  BY DEF LaneIInv
<1>2. CASE ReadJob(t)
  <2>1. /\ UNCHANGED <<text, incoming, running, runs>> /\ incoming[t] # NoJob
        /\ \E pc \in {"take", "drop"} :
              /\ gate' = [gate EXCEPT ![t] = [pc |-> pc, job |-> incoming[t], tries |-> 0]]
              /\ pc = "drop" => incoming[t].held \/ incoming[t] = AutoJob
    BY <1>2 DEF ReadJob
  <2>2. \A u \in Tickets : Live(u)' = Live(u)
    BY <2>1 DEF Live
  <2>3. \A u \in Tickets : u # t => gate'[u] = gate[u]
    BY <2>1 DEF TypeOK
  <2>4. ASSUME text[t] # "lookup" PROVE LaneInv(t)'
    <3>1. incoming[t] = PiJob /\ LaneInv(t)
      BY <1>1, <2>1, <2>4 DEF LaneInv
    <3>2. gate'[t].pc = "take"
      BY <2>1, <3>1, JobsDiffer DEF TypeOK
    <3> QED
      BY <2>1, <2>2, <3>1, <3>2 DEF LaneInv, Owned
  <2> QED
    BY <2>1, <2>2, <2>3, <2>4, LaneOf
<1>3. CASE MergeFile(t)
  <2>1. /\ UNCHANGED <<text, running, runs>> /\ gate[t].pc = "take" /\ PiExecuting(t)
        /\ gate' = [gate EXCEPT ![t] = NoGate]
        /\ incoming' = [incoming EXCEPT ![t] = NoJob]
    BY <1>3 DEF MergeFile
  <2>2. \A u \in Tickets : Live(u)' = Live(u)
    BY <2>1 DEF Live
  <2>3. Live(t) # {}
    BY <2>1 DEF PiExecuting, Live
  <2>4. text[t] = "lookup"
    BY <1>1, <2>1, <2>3, JobsDiffer DEF LaneInv, Owned
  <2> QED
    BY <2>1, <2>2, <2>4, LaneOf DEF TypeOK
<1>4. CASE DropRemove(t)
  <2>1. /\ UNCHANGED <<text, running, runs>> /\ gate[t].pc = "remove"
        /\ gate' = [gate EXCEPT ![t] = NoGate]
        /\ incoming' = [incoming EXCEPT ![t] = NoJob]
    BY <1>4 DEF DropRemove
  <2>2. \A u \in Tickets : Live(u)' = Live(u)
    BY <2>1 DEF Live
  <2>3. text[t] = "lookup"
    BY <1>1, <2>1 DEF LaneInv
  <2> QED
    BY <2>1, <2>2, <2>3, LaneOf DEF TypeOK
<1>5. ASSUME NEW delivered \in BOOLEAN, NEW answered \in BOOLEAN, DropPost(t, delivered, answered)
      PROVE  LaneIInv'
  <2>1. /\ UNCHANGED <<text, incoming, running, runs>> /\ gate[t].pc = "drop"
        /\ \E g : gate' = [gate EXCEPT ![t] = g]
    BY <1>5 DEF DropPost
  <2>2. \A u \in Tickets : Live(u)' = Live(u)
    BY <2>1 DEF Live
  <2>3. text[t] = "lookup"
    BY <1>1, <2>1 DEF LaneInv
  <2> QED
    BY <2>1, <2>2, <2>3, LaneOf DEF TypeOK
<1>6. ASSUME NEW r \in RunIds, Take(t, r) PROVE LaneIInv'
  <2> DEFINE run == [NoRun EXCEPT !.st = "queued", !.lane = gate[t].job.lane]
  <2>1. /\ UNCHANGED text /\ gate[t].pc = "take" /\ runs[t][r].st = "none"
        /\ running' = [running EXCEPT ![t] = incoming[t]]
        /\ incoming' = [incoming EXCEPT ![t] = NoJob]
        /\ gate' = [gate EXCEPT ![t] = NoGate]
        /\ runs' = [runs EXCEPT ![t][r] = run]
    BY <1>6 DEF Take
  <2>2. run.st = "queued"
    BY DEF NoRun
  <2> HIDE DEF run
  <2>3. /\ \A u \in Tickets : u # t => Live(u)' = Live(u)
        /\ Live(t)' = Live(t) \cup {r}
    BY <2>1, <2>2, LiveOf
  <2>4. /\ \A u \in Tickets : u # t => /\ incoming'[u] = incoming[u] /\ running'[u] = running[u]
                                       /\ gate'[u] = gate[u]
        /\ incoming'[t] = NoJob /\ running'[t] = incoming[t] /\ gate'[t] = NoGate
    BY <2>1 DEF TypeOK
  <2>5. ASSUME text[t] # "lookup" PROVE LaneInv(t)'
    <3>1. LaneInv(t) /\ incoming[t] = PiJob
      BY <1>1, <2>1, <2>5 DEF LaneInv
    <3>2. Live(t) = {}
      BY <3>1, JobsDiffer DEF LaneInv, Owned
    <3> QED
      BY <2>3, <2>4, <3>1, <3>2, JobsDiffer DEF LaneInv, Owned, NoGate
  <2> QED
    BY <2>1, <2>3, <2>4, <2>5, LaneOf
<1>7. ASSUME NEW r \in RunIds, StartRun(t, r) PROVE LaneIInv'
  <2>1. runs[t][r] \in Runs /\ r \in Live(t)
    BY <1>7 DEF StartRun, TypeOK, Live
  <2>2. PICK st \in {"done", "exec"} : runs' = [runs EXCEPT ![t][r] = [runs[t][r] EXCEPT !.st = st]]
    BY <1>7 DEF StartRun, SetRun
  <2>3. [runs[t][r] EXCEPT !.st = st].st = st
    BY <2>1 DEF Runs
  <2> QED
    BY <1>7, <2>1, <2>2, <2>3, LaneThread DEF StartRun
<1>8. ASSUME NEW r \in RunIds, EndRun(t, r) PROVE LaneIInv'
  <2>1. runs[t][r] \in Runs /\ r \in Live(t)
    <3>1. runs[t][r].st = "exec"
      BY <1>8 DEF EndRun
    <3> QED
      BY <3>1 DEF TypeOK, Live
  <2>2. UNCHANGED <<text, incoming, running, gate>>
    BY <1>8 DEF EndRun
  <2>3. ASSUME NEW result \in Results,
               SetRun(t, r, [runs[t][r] EXCEPT !.st = "post", !.result = result])
        PROVE  LaneIInv'
    <3>1. [runs[t][r] EXCEPT !.st = "post", !.result = result].st = "post"
      BY <2>1 DEF Runs
    <3> QED
      BY <2>1, <2>2, <2>3, <3>1, LaneThread DEF SetRun
  <2>4. CASE SetRun(t, r, [runs[t][r] EXCEPT !.st = "done"])
    <3>1. [runs[t][r] EXCEPT !.st = "done"].st = "done"
      BY <2>1 DEF Runs
    <3> QED
      BY <2>1, <2>2, <2>4, <3>1, LaneThread DEF SetRun
  <2> QED
    BY <1>8, <2>3, <2>4 DEF EndRun
<1>9. ASSUME NEW r \in RunIds, NEW delivered \in BOOLEAN, NEW answered \in BOOLEAN,
             PostResult(t, r, delivered, answered)
      PROVE  LaneIInv'
  <2>1. runs[t][r] \in Runs /\ r \in Live(t)
    <3>1. runs[t][r].st = "post"
      BY <1>9 DEF PostResult
    <3> QED
      BY <3>1 DEF TypeOK, Live
  <2>2. UNCHANGED <<text, incoming, running, gate>>
    BY <1>9 DEF PostResult
  <2>3. CASE SetRun(t, r, [runs[t][r] EXCEPT !.tries = @ + 1])
    <3>1. [runs[t][r] EXCEPT !.tries = @ + 1].st = "post"
      BY <1>9, <2>1 DEF PostResult, Runs
    <3> QED
      BY <2>1, <2>2, <2>3, <3>1, LaneThread DEF SetRun
  <2>4. CASE SetRun(t, r, [runs[t][r] EXCEPT !.st = "done", !.tries = 0])
    <3>1. [runs[t][r] EXCEPT !.st = "done", !.tries = 0].st = "done"
      BY <2>1 DEF Runs
    <3> QED
      BY <2>1, <2>2, <2>4, <3>1, LaneThread DEF SetRun
  <2> QED
    BY <1>9, <2>3, <2>4 DEF PostResult
<1>10. ASSUME NEW r \in RunIds, RemoveFile(t, r) PROVE LaneIInv'
  <2>1. runs[t][r] \in Runs /\ r \in Live(t)
    BY <1>10 DEF RemoveFile, TypeOK, Live
  <2> DEFINE run == [runs[t][r] EXCEPT !.st = "gone"]
  <2>2. run.st = "gone"
    BY <2>1 DEF Runs
  <2>3. /\ UNCHANGED <<text, incoming, gate>> /\ running' = [running EXCEPT ![t] = NoJob]
        /\ runs' = [runs EXCEPT ![t][r] = run]
    BY <1>10 DEF RemoveFile, SetRun
  <2> HIDE DEF run
  <2>4. /\ \A u \in Tickets : u # t => Live(u)' = Live(u)
        /\ Live(t)' = Live(t) \ {r}
    BY <2>2, <2>3, LiveOf
  <2>5. /\ \A u \in Tickets : u # t => running'[u] = running[u]
        /\ running'[t] = NoJob
    BY <2>3 DEF TypeOK
  <2>6. ASSUME text[t] # "lookup" PROVE LaneInv(t)'
    <3>1. Live(t)' = {}
      BY <1>1, <2>1, <2>4, <2>6 DEF LaneInv, Owned
    <3> QED
      BY <1>1, <2>3, <2>5, <2>6, <3>1 DEF LaneInv, Owned
  <2> QED
    BY <2>3, <2>4, <2>5, <2>6, LaneOf
<1>11. ASSUME NEW r \in RunIds, Reap(t, r) PROVE LaneIInv'
  <2>1. runs[t][r].st = "gone" /\ NoRun.st = "none"
    BY <1>11 DEF Reap, NoRun
  <2>2. \A u \in Tickets : Live(u)' = Live(u)
    <3>1. runs' = [runs EXCEPT ![t][r] = NoRun]
      BY <1>11 DEF Reap, SetRun
    <3>2. /\ \A u \in Tickets : u # t => Live(u)' = Live(u)
          /\ Live(t)' = Live(t) \ {r}
      BY <2>1, <3>1, LiveOf
    <3>3. r \notin Live(t)
      BY <2>1 DEF Live
    <3> QED
      BY <3>2, <3>3
  <2> QED
    BY <1>11, <2>2, LaneKept DEF Reap
<1> QED
  BY <1>2, <1>3, <1>4, <1>5, <1>6, <1>7, <1>8, <1>9, <1>10, <1>11 DEF Loop, Thread

\* A round of the worker writes a file only where there is none.
LEMMA LaneProcess ==
    ASSUME Profiles = {"pi"}, TypeOK, LaneIInv, NEW t \in Tickets, Process(t)
    PROVE  LaneIInv'
<1> USE DEF files, threads, runner
<1>1. UNCHANGED runs
  BY ThreadsKept
<1>2. \A u \in Tickets : Live(u)' = Live(u)
  BY <1>1 DEF Live
<1>3. ASSUME UNCHANGED <<text, incoming, running, gate>> PROVE LaneIInv'
  BY <1>2, <1>3, LaneKept
<1>4. CASE CloseIntent(t) \/ SanitizerReject(t) \/ PickUp(t)
  BY <1>3, <1>4 DEF CloseIntent, SanitizerReject, PickUp
<1>5. CASE BlockRequest(t) \/ Greet(t) \/ PiSkip(t) \/ Reload(t)
  BY <1>3, <1>5 DEF BlockRequest, Greet, PiSkip, Reload, Quietly
<1>6. CASE ModelFails(t) \/ WorkerError(t) \/ Complete(t) \/ Escalate(t)
           \/ AskCustomer(t) \/ JobWriteFails(t) \/ CommitJob(t)
  BY <1>3, <1>6 DEF ModelFails, WorkerError, Complete, Escalate, AskCustomer,
                    JobWriteFails, CommitJob, Decide, Quietly
<1>7. CASE PiWrite(t)
  <2>1. /\ UNCHANGED <<text, running, gate>> /\ incoming' = [incoming EXCEPT ![t] = PiJob]
        /\ incoming[t].lane # "pi" /\ running[t].lane # "pi" /\ text[t] # "lookup"
    BY <1>7 DEF PiWrite, PiRunActive
  <2>2. LaneInv(t) /\ incoming[t] = NoJob /\ running[t] = NoJob
    BY <2>1, JobsDiffer DEF LaneIInv, LaneInv
  <2>3. incoming'[t] = PiJob /\ \A u \in Tickets : u # t => incoming'[u] = incoming[u]
    BY <2>1 DEF TypeOK
  <2>4. LaneInv(t)'
    BY <1>2, <2>1, <2>2, <2>3 DEF LaneInv, Owned
  <2> QED
    BY <1>2, <2>1, <2>3, <2>4, LaneOf
<1>8. ASSUME NEW job \in {AutoJob, HeldJob}, WriteJob(t, job) PROVE LaneIInv'
  <2>1. text[t] = "lookup"
    BY <1>8 DEF WriteJob, AsksModel
  <2>2. UNCHANGED <<text, running, gate>> /\ incoming' = [incoming EXCEPT ![t] = job]
    BY <1>8 DEF WriteJob
  <2>3. \A u \in Tickets : u # t => incoming'[u] = incoming[u]
    BY <2>2 DEF TypeOK
  <2> QED
    BY <1>2, <2>1, <2>2, <2>3, LaneOf
<1> QED
  BY <1>4, <1>5, <1>6, <1>7, <1>8 DEF Process

LEMMA LaneStep ==
    ASSUME Profiles = {"pi"}, TypeOK, LaneIInv, [Next]_vars PROVE LaneIInv'
<1> USE DEF files, threads, runner
<1>1. ASSUME UNCHANGED <<text, incoming, running, gate, runs>> PROVE LaneIInv'
  BY <1>1, LaneKept DEF Live
<1>2. CASE UNCHANGED vars
  BY <1>1, <1>2 DEF vars
<1>3. CASE Poll \/ WorkerRestart
  BY <1>1, <1>3 DEF Poll, WorkerRestart
<1>4. ASSUME NEW t \in Tickets, Tick(t) \/ Api(t) PROVE LaneIInv'
  BY <1>1, <1>4 DEF Tick, Api, Create, UserNote, Engage, Approve, Close, Retry, Progress
<1>5. ASSUME NEW t \in Tickets, Process(t) PROVE LaneIInv'
  BY <1>5, LaneProcess
<1>6. ASSUME NEW t \in Tickets, Loop(t) \/ \E r \in RunIds : Thread(t, r) \/ Reap(t, r)
      PROVE  LaneIInv'
  BY <1>6, LaneRunner
<1>7. CASE RunnerRestart
  <2>1. /\ text' = text
        /\ \A t \in Tickets :
              /\ incoming'[t] = (IF running[t] # NoJob THEN running[t] ELSE incoming[t])
              /\ running'[t] = NoJob /\ gate'[t] = NoGate
              /\ \A r \in RunIds : runs'[t][r] = NoRun
    BY <1>7 DEF RunnerRestart
  <2>2. \A t \in Tickets : Live(t)' = {}
    BY <2>1 DEF Live, NoRun
  <2> QED
    BY <2>1, <2>2 DEF LaneIInv, LaneInv, Owned, NoGate
<1> QED
  BY <1>2, <1>3, <1>4, <1>5, <1>6, <1>7 DEF Next

\* While the autonomous profile stays on, a ticket has at most one session from the moment its
\* file is taken to the moment that file is removed, the file is in running/ exactly as long as
\* that session lives, and no second one waits behind it: for every set of tickets and texts,
\* any number of slots, and whatever is lost, repeated or restarted.
THEOREM SessionOwnsFileAlways ==
    ASSUME Profiles = {"pi"} PROVE Spec => []SessionOwnsFile
<1>1. Init => LaneIInv
  <2> SUFFICES ASSUME Init PROVE LaneIInv
    OBVIOUS
  <2>1. \A t \in Tickets : /\ incoming[t] = NoJob /\ running[t] = NoJob /\ gate[t] = NoGate
                           /\ Live(t) = {}
    BY DEF Init, Live, NoRun
  <2> QED
    BY <2>1 DEF LaneIInv, LaneInv, Owned, NoGate
<1>2. TypeOK /\ LaneIInv /\ [Next]_vars => LaneIInv'
  BY LaneStep
<1>3. LaneIInv => SessionOwnsFile
  BY DEF LaneIInv, LaneInv, Owned, SessionOwnsFile
<1> QED
  BY <1>1, <1>2, <1>3, TypeCorrect, PTL DEF Spec

-----------------------------------------------------------------------------
(* No reply is taken for handled.                                          *)

\* Every thread is shorter than what add_note keeps: nothing has been evicted.
BelowCap == \A t \in Tickets : Len(notes[t]) < NoteCap

\* The worker never remembers more replies than there are, in the row or in its
\* copy of it; and a reply that is the last word on a ticket the poll has no
\* business with is one it has not counted.
Heard(t) ==
    /\ seen[t] <= Replies(notes[t])
    /\ at[t] # "out" => seen[t] <= Replies(view[t].notes)
    /\ t \notin todo /\ LastIs(notes[t], UserKinds)
       => seen[t] = -1 \/ Replies(notes[t]) > seen[t]
    /\ status[t] = "none" => seen[t] <= 0

HeardIInv == \A t \in Tickets : Heard(t)

\* Below the cap add_note appends: no reply is lost, and only a reply counts.
LEMMA AddBelowCap ==
    ASSUME NEW n \in Seq(NoteKinds), NEW k \in NoteKinds, Len(AddNote(n, k)) < NoteCap
    PROVE  /\ AddNote(n, k) \in Seq(NoteKinds) /\ Len(n) < NoteCap
           /\ Replies(n) \in Nat
           /\ Replies(AddNote(n, k)) =
                  IF k \in UserKinds THEN Replies(n) + 1 ELSE Replies(n)
           /\ LastIs(AddNote(n, k), UserKinds) <=> k \in UserKinds
<1> DEFINE longer == Append(n, k)
<1>1. /\ longer \in Seq(NoteKinds) /\ Len(longer) = Len(n) + 1 /\ Len(n) \in Nat
      /\ Len(longer) > 0 => Len(Tail(longer)) = Len(longer) - 1
  OBVIOUS
<1>2. AddNote(n, k) = longer /\ Len(n) < NoteCap
  BY <1>1, NoteCapAssumption DEF AddNote
<1>3. Replies(longer) = IF k \in UserKinds THEN Replies(n) + 1 ELSE Replies(n)
  BY CountAppend DEF Replies
<1>4. LastIs(AddNote(n, k), UserKinds) <=> k \in UserKinds
  BY AddNoteType DEF LastIs
<1>5. Replies(n) \in Nat
  BY CountType DEF Replies
<1> QED
  BY <1>1, <1>2, <1>3, <1>4, <1>5

LEMMA RepliesType ==
    ASSUME TypeOK, NEW t \in Tickets
    PROVE  /\ notes[t] \in Seq(NoteKinds) /\ view[t].notes \in Seq(NoteKinds)
           /\ Replies(notes[t]) \in Nat /\ Replies(view[t].notes) \in Nat
           /\ seen[t] \in Int
<1>1. notes[t] \in Seq(NoteKinds) /\ view[t].notes \in Seq(NoteKinds) /\ seen[t] \in Int
  BY DEF TypeOK
<1> QED
  BY <1>1, CountType DEF Replies

LEMMA EmptyReplies == Replies(<<>>) = 0 /\ ~LastIs(<<>>, UserKinds)
<1>1. {i \in DOMAIN <<>> : <<>>[i] \in UserKinds} = {}
  OBVIOUS
<1> QED
  BY <1>1, FS_EmptySet DEF Replies, CountOf, LastIs

\* What touches neither the row, nor the worker's counts and copies.
LEMMA HeardKept ==
    ASSUME HeardIInv, UNCHANGED <<status, notes, seen, todo, at, view>>
    PROVE  HeardIInv'
BY DEF HeardIInv, Heard

\* A commit of one row, by whichever process; the worker may take the ticket off
\* its list or move on with it.
LEMMA HeardCommit ==
    ASSUME TypeOK, HeardIInv, NEW t \in Tickets, NEW s, NEW n, Save(t, s, n),
           s = "none" => status[t] = "none",
           UNCHANGED seen, seen[t] <= Replies(n),
           \A u \in Tickets : u # t => /\ at'[u] = at[u] /\ view'[u] = view[u]
                                       /\ u \in todo' <=> u \in todo,
           at'[t] # "out" => seen[t] <= Replies(view'[t].notes),
           t \notin todo' /\ LastIs(n, UserKinds) => seen[t] = -1 \/ Replies(n) > seen[t]
    PROVE  HeardIInv'
<1>1. \A u \in Tickets : /\ notes'[u] = IF u = t THEN n ELSE notes[u]
                         /\ status'[u] = IF u = t THEN s ELSE status[u]
  BY DEF Save, TypeOK
<1>2. Heard(t)'
  BY <1>1 DEF Heard, HeardIInv
<1>3. ASSUME NEW u \in Tickets, u # t PROVE Heard(u)'
  BY <1>1, <1>3 DEF Heard, HeardIInv
<1> QED
  BY <1>2, <1>3 DEF HeardIInv

\* A new note from outside the worker, or a commit that leaves the notes alone.
LEMMA HeardOutside ==
    ASSUME TypeOK, HeardIInv, NEW t \in Tickets, NEW s,
           s = "none" => status[t] = "none", UNCHANGED <<seen, todo, at, view>>,
           \/ Save(t, s, notes[t])
           \/ \E k \in NoteKinds : /\ Save(t, s, AddNote(notes[t], k))
                                   /\ Len(AddNote(notes[t], k)) < NoteCap
    PROVE  HeardIInv'
<1>1. /\ Heard(t) /\ notes[t] \in Seq(NoteKinds) /\ Replies(notes[t]) \in Nat
      /\ seen[t] \in Int
  BY RepliesType DEF HeardIInv
<1>2. CASE Save(t, s, notes[t])
  BY <1>1, <1>2, HeardCommit DEF Heard
<1>3. ASSUME NEW k \in NoteKinds, Save(t, s, AddNote(notes[t], k)),
             Len(AddNote(notes[t], k)) < NoteCap
      PROVE  HeardIInv'
  <2>1. Replies(AddNote(notes[t], k)) =
            IF k \in UserKinds THEN Replies(notes[t]) + 1 ELSE Replies(notes[t])
    BY <1>1, <1>3, AddBelowCap
  <2>2. LastIs(AddNote(notes[t], k), UserKinds) <=> k \in UserKinds
    BY <1>1, <1>3, AddBelowCap
  <2>3. seen[t] <= Replies(AddNote(notes[t], k))
    BY <1>1, <2>1 DEF Heard
  <2>4. LastIs(AddNote(notes[t], k), UserKinds) => Replies(AddNote(notes[t], k)) > seen[t]
    BY <1>1, <2>1, <2>2 DEF Heard
  <2>5. at'[t] # "out" => seen[t] <= Replies(view'[t].notes)
    BY <1>1 DEF Heard
  <2> QED
    BY <1>3, <2>3, <2>4, <2>5, HeardCommit
<1> QED
  BY <1>2, <1>3

\* What Save writes is what the thread is afterwards.
LEMMA SavedBelowCap ==
    ASSUME TypeOK, BelowCap', NEW t \in Tickets, NEW s, NEW n, Save(t, s, n)
    PROVE  Len(n) < NoteCap
BY DEF BelowCap, Save, TypeOK

LEMMA HeardApi ==
    ASSUME TypeOK, HeardIInv, BelowCap', NEW t \in Tickets, Api(t)
    PROVE  HeardIInv'
<1> USE DEF worker, desk
<1>1. UserKinds \cup {"chatter"} \subseteq NoteKinds
  BY DEF NoteKinds
<1>2. ASSUME NEW s, s = "none" => status[t] = "none", UNCHANGED <<seen, todo, at, view>>,
             \/ Save(t, s, notes[t])
             \/ \E k \in NoteKinds : Save(t, s, AddNote(notes[t], k))
      PROVE  HeardIInv'
  BY <1>2, SavedBelowCap, HeardOutside
<1>3. CASE Create(t)
  <2>1. seen[t] <= 0 /\ Heard(t)
    BY <1>3 DEF Create, HeardIInv, Heard
  <2> QED
    BY <1>3, <2>1, EmptyReplies, HeardCommit DEF Create, Heard
<1>4. ASSUME NEW m \in Messages, UserNote(t, m) \/ Engage(t, m)
      PROVE  HeardIInv'
  <2>1. m \in NoteKinds
    BY <1>1, PipelineAssumption
  <2>2. CASE UserNote(t, m)
    BY <1>2, <2>1, <2>2 DEF UserNote
  <2>3. CASE Engage(t, m)
    BY <1>2, <2>1, <2>3 DEF Engage
  <2> QED
    BY <1>4, <2>2, <2>3
<1>5. CASE Approve(t) \/ Close(t) \/ Retry(t)
  BY <1>2, <1>5 DEF Approve, Close, Retry
<1>6. CASE Progress(t)
  BY <1>1, <1>2, <1>6 DEF Progress
<1> QED
  BY <1>3, <1>4, <1>5, <1>6 DEF Api

LEMMA HeardResult ==
    ASSUME TypeOK, HeardIInv, BelowCap', NEW t \in Tickets, NEW result, NEW recent,
           ReportResult(t, result, recent), UNCHANGED <<seen, todo, at, view>>
    PROVE  HeardIInv'
<1> DEFINE n == notes[t]
<1>1. n \in Seq(NoteKinds) /\ {"completed", "failed", "chatter"} \subseteq NoteKinds
  BY RepliesType DEF NoteKinds, TerminalWorkEvents
<1>2. CASE UNCHANGED row
  BY <1>2, HeardKept DEF row
<1>3. CASE Save(t, "customer_action", AddNote(n, "completed"))
  BY <1>1, <1>3, SavedBelowCap, HeardOutside
<1>4. ASSUME NEW s, s # "none", NEW j \in NoteKinds \ UserKinds, NEW k \in NoteKinds \ UserKinds,
             Save(t, s, AddNote(AddNote(n, j), k))
      PROVE  HeardIInv'
  <2> DEFINE m == AddNote(n, j)
  <2>1. Len(AddNote(m, k)) < NoteCap
    BY <1>4, SavedBelowCap
  <2>2. m \in Seq(NoteKinds)
    BY <1>1, AddNoteType
  <2>3. Len(m) < NoteCap /\ Replies(AddNote(m, k)) = Replies(m)
        /\ ~LastIs(AddNote(m, k), UserKinds)
    BY <2>1, <2>2, AddBelowCap
  <2>4. Replies(m) = Replies(n)
    BY <1>1, <2>3, AddBelowCap
  <2>5. seen[t] <= Replies(AddNote(m, k)) /\ Heard(t)
    BY <2>3, <2>4 DEF HeardIInv, Heard
  <2> HIDE DEF m
  <2> QED
    BY <1>4, <2>3, <2>5, HeardCommit DEF Heard, m
<1>5. {"completed", "failed", "chatter"} \cap UserKinds = {}
  BY DEF UserKinds
<1> QED
  BY <1>1, <1>2, <1>3, <1>4, <1>5 DEF ReportResult

LEMMA HeardProcess ==
    ASSUME TypeOK, HeardIInv, BelowCap', NEW t \in Tickets, Process(t)
    PROVE  HeardIInv'
<1> USE DEF worker, desk, row
<1> DEFINE Own == NoteKinds \ UserKinds
<1>1. /\ {"escalated", "closed", "input", "chatter", "processing", "auto",
          "dispatch", "await", "retry"} \subseteq Own
      /\ \A k \in Own : k \in NoteKinds /\ k \notin UserKinds
  BY DEF NoteKinds, TerminalWorkEvents, UserKinds
<1>2. /\ Heard(t) /\ seen[t] \in Int
      /\ notes[t] \in Seq(NoteKinds) /\ Replies(notes[t]) \in Nat
      /\ view[t].notes \in Seq(NoteKinds) /\ Replies(view[t].notes) \in Nat
  BY RepliesType DEF HeardIInv
<1> HIDE DEF Own
\* One note, or two, of the worker's on a thread with as many replies as counted.
<1>3. ASSUME NEW n \in Seq(NoteKinds), NEW k \in Own, seen[t] <= Replies(n),
             Len(AddNote(n, k)) < NoteCap
      PROVE  /\ AddNote(n, k) \in Seq(NoteKinds) /\ Len(n) < NoteCap
             /\ Replies(AddNote(n, k)) = Replies(n) /\ seen[t] <= Replies(AddNote(n, k))
             /\ ~LastIs(AddNote(n, k), UserKinds)
  BY <1>1, <1>3, AddBelowCap
<1>4. ASSUME NEW n \in Seq(NoteKinds), NEW j \in Own, NEW k \in Own, seen[t] <= Replies(n),
             Len(AddNote(AddNote(n, j), k)) < NoteCap
      PROVE  /\ seen[t] <= Replies(AddNote(AddNote(n, j), k))
             /\ ~LastIs(AddNote(AddNote(n, j), k), UserKinds)
  <2> DEFINE m == AddNote(n, j)
  <2>1. m \in Seq(NoteKinds) /\ Replies(m) \in Nat
    BY <1>1, AddNoteType, CountType DEF Replies
  <2>2. Len(m) < NoteCap
    BY <1>1, <1>4, <2>1, AddBelowCap
  <2>3. seen[t] <= Replies(m)
    BY <1>3, <1>4, <2>2
  <2> HIDE DEF m
  <2> QED
    BY <1>3, <1>4, <2>1, <2>3 DEF m
\* A commit of such a thread.
<1>5. ASSUME NEW s, s = "none" => status[t] = "none", NEW n,
             seen[t] <= Replies(n), ~LastIs(n, UserKinds), Save(t, s, n),
             UNCHANGED seen, todo' \in {todo, todo \ {t}},
             UNCHANGED <<at, view>> \/ Leave(t)
      PROVE  HeardIInv'
  <2>1. /\ \A u \in Tickets : u # t => /\ at'[u] = at[u] /\ view'[u] = view[u]
                                       /\ u \in todo' <=> u \in todo
        /\ at'[t] # "out" => seen[t] <= Replies(view'[t].notes)
    BY <1>2, <1>5 DEF Leave, TypeOK, Heard
  <2> QED
    BY <1>5, <2>1, HeardCommit
<1>6. ASSUME NEW s, s # "none", NEW k \in Own, at[t] # "out", Settle(t, s, k), Quietly
      PROVE  HeardIInv'
  <2> DEFINE n == AddNote(view[t].notes, k)
  <2>1. Len(n) < NoteCap
    BY <1>6, SavedBelowCap DEF Settle
  <2>2. seen[t] <= Replies(n) /\ ~LastIs(n, UserKinds)
    BY <1>2, <1>3, <1>6, <2>1 DEF Heard
  <2> HIDE DEF n
  <2>3. Save(t, Flushed(t, view[t].status, s), n) /\ Leave(t)
    BY <1>6 DEF Settle, n
  <2>4. Flushed(t, view[t].status, s) = "none" => status[t] = "none"
    BY <1>6 DEF Flushed
  <2> QED
    BY <1>5, <1>6, <2>2, <2>3, <2>4 DEF Quietly
<1>7. CASE CloseIntent(t) \/ SanitizerReject(t)
  <2>1. PICK s : /\ s = "none" => status[t] = "none"
                 /\ \/ \E k \in Own : Save(t, s, AddNote(notes[t], k))
                    \/ \E j, k \in Own : Save(t, s, AddNote(AddNote(notes[t], j), k))
    BY <1>1, <1>7 DEF CloseIntent, SanitizerReject
  <2>2. PICK n : Save(t, s, n) /\ seen[t] <= Replies(n) /\ ~LastIs(n, UserKinds)
    BY <1>2, <1>3, <1>4, <2>1, SavedBelowCap DEF Heard
  <2> QED
    BY <1>5, <1>7, <2>1, <2>2 DEF CloseIntent, SanitizerReject
<1>8. CASE PickUp(t)
  <2> DEFINE n == AddNote(notes[t], "processing")
  <2>1. /\ Save(t, "in_progress", n) /\ Len(n) < NoteCap
        /\ \A u \in Tickets : notes'[u] = IF u = t THEN n ELSE notes[u]
        /\ \A u \in Tickets : status'[u] = IF u = t THEN "in_progress" ELSE status[u]
    BY <1>8, SavedBelowCap DEF PickUp, Save, TypeOK
  <2>2. ~LastIs(n, UserKinds) /\ Replies(n) \in Nat
    BY <1>1, <1>2, <1>3, <2>1, AddBelowCap DEF Heard
  <2> HIDE DEF n
  <2>3. /\ seen'[t] = Replies(n) /\ view'[t].notes = n /\ at'[t] = "work"
        /\ \A u \in Tickets : u # t => /\ at'[u] = at[u] /\ view'[u] = view[u]
                                       /\ seen'[u] = seen[u]
                                       /\ u \in todo' <=> u \in todo
    BY <1>8, <2>1 DEF PickUp, TypeOK
  <2>4. Heard(t)'
    BY <2>1, <2>2, <2>3 DEF Heard
  <2>5. ASSUME NEW u \in Tickets, u # t PROVE Heard(u)'
    BY <2>1, <2>3, <2>5 DEF Heard, HeardIInv
  <2> QED
    BY <2>4, <2>5 DEF HeardIInv
<1>9. CASE BlockRequest(t) \/ Greet(t) \/ PiSkip(t) \/ CommitJob(t)
  BY <1>1, <1>6, <1>9 DEF BlockRequest, Greet, PiSkip, CommitJob, Workable
<1>10. CASE PiWrite(t)
  <2>1. /\ \A u \in Tickets : at'[u] = at[u] \/ (u = t /\ at[u] = "work")
        /\ UNCHANGED <<status, notes, seen, todo, view>>
    BY <1>10 DEF PiWrite, Workable, TypeOK
  <2> QED
    BY <2>1 DEF HeardIInv, Heard
<1>11. CASE Reload(t)
  <2>1. /\ UNCHANGED <<status, notes, seen, todo, at>> /\ view'[t].notes = notes[t]
        /\ \A u \in Tickets : u # t => view'[u] = view[u]
    BY <1>11 DEF Reload, TypeOK
  <2> QED
    BY <2>1 DEF HeardIInv, Heard
<1>12. CASE ModelFails(t)
  <2>1. at[t] # "out" /\ Quietly
        /\ (Settle(t, "escalated", "escalated") \/ Settle(t, "in_progress", "retry"))
    BY <1>12 DEF ModelFails, AsksModel, Workable
  <2> QED
    BY <1>1, <1>6, <2>1
<1>13. CASE WorkerError(t)
  <2>1. /\ Save(t, Flushed(t, view[t].status, "escalated"), notes[t])
        /\ UNCHANGED <<seen, todo>> /\ at'[t] = "out"
        /\ Flushed(t, view[t].status, "escalated") = "none" => status[t] = "none"
        /\ \A u \in Tickets : u # t => at'[u] = at[u] /\ view'[u] = view[u]
    BY <1>13 DEF WorkerError, Quietly, Leave, Flushed, TypeOK
  <2> QED
    BY <1>2, <2>1, HeardCommit DEF Heard
<1>14. ASSUME NEW s, s # "none", NEW k \in Own, Decide(t, s, k)
       PROVE  HeardIInv'
  <2> DEFINE n == AddNote(AddNote(view[t].notes, "chatter"), k)
  <2>1. Save(t, s, n) /\ Leave(t) /\ Quietly /\ at[t] # "out"
    BY <1>14 DEF Decide, Workable
  <2>2. Len(n) < NoteCap
    BY <2>1, SavedBelowCap
  <2>3. seen[t] <= Replies(view[t].notes) /\ "chatter" \in Own
    BY <1>1, <1>2, <2>1 DEF Heard
  <2>4. seen[t] <= Replies(n) /\ ~LastIs(n, UserKinds)
    BY <1>2, <1>4, <1>14, <2>2, <2>3
  <2> HIDE DEF n
  <2> QED
    BY <1>5, <1>14, <2>1, <2>4 DEF Quietly
<1>15. CASE Complete(t) \/ Escalate(t) \/ AskCustomer(t) \/ JobWriteFails(t)
  BY <1>1, <1>14, <1>15 DEF Complete, Escalate, AskCustomer, JobWriteFails
<1>16. ASSUME NEW job \in {AutoJob, HeldJob}, WriteJob(t, job)
       PROVE  HeardIInv'
  <2> DEFINE n == AddNote(view[t].notes, "chatter")
  <2>1. Save(t, status[t], n) /\ UNCHANGED <<seen, todo>> /\ at[t] # "out"
    BY <1>16 DEF WriteJob, Workable
  <2>2. Len(n) < NoteCap /\ notes'[t] = n
    BY <2>1, SavedBelowCap DEF Save, TypeOK
  <2>3. seen[t] <= Replies(n) /\ ~LastIs(n, UserKinds)
    BY <1>1, <1>2, <1>3, <2>1, <2>2 DEF Heard
  <2> HIDE DEF n
  <2>4. /\ view'[t].notes = n
        /\ \A u \in Tickets : u # t => at'[u] = at[u] /\ view'[u] = view[u]
    BY <1>16, <2>2 DEF WriteJob, TypeOK
  <2> QED
    BY <2>1, <2>3, <2>4, HeardCommit
<1> QED
  BY <1>7, <1>8, <1>9, <1>10, <1>11, <1>12, <1>13, <1>14, <1>15, <1>16 DEF Process

LEMMA HeardStep ==
    ASSUME TypeOK, HeardIInv, BelowCap', [Next]_vars
    PROVE  HeardIInv'
<1> USE DEF row, desk, worker
<1>1. ASSUME UNCHANGED <<status, notes, seen, todo, at, view>> PROVE HeardIInv'
  BY <1>1, HeardKept
<1>2. CASE UNCHANGED vars
  BY <1>1, <1>2 DEF vars
<1>3. CASE Poll
  <2> SUFFICES ASSUME NEW t \in Tickets PROVE Heard(t)'
    BY DEF HeardIInv
  <2>1. /\ Heard(t) /\ notes[t] \in Seq(NoteKinds) /\ Replies(notes[t]) \in Nat
        /\ seen[t] \in Int /\ "escalated" \in NoteKinds \ UserKinds
    BY RepliesType DEF HeardIInv, NoteKinds, TerminalWorkEvents, UserKinds
  <2>2. /\ at'[t] = "out" /\ t \notin todo
        /\ t \in todo' <=> Room(t) /\ Selected(t)
        /\ seen'[t] = IF /\ Room(t) /\ Waiting(t)
                         /\ seen[t] = -1 \/ Replies(notes[t]) > seen[t]
                      THEN Replies(notes[t]) ELSE seen[t]
        /\ status'[t] = IF Stuck(t) THEN "escalated" ELSE status[t]
        /\ notes'[t] = IF Stuck(t) THEN AddNote(notes[t], "escalated") ELSE notes[t]
    BY <1>3 DEF Poll, Idle
  <2>3. /\ Replies(notes'[t]) = Replies(notes[t])
        /\ LastIs(notes'[t], UserKinds) => notes'[t] = notes[t]
    <3>1. CASE Stuck(t)
      <4>1. notes'[t] = AddNote(notes[t], "escalated") /\ Len(notes'[t]) < NoteCap
        BY <2>2, <3>1 DEF BelowCap
      <4> QED
        BY <2>1, <4>1, AddBelowCap
    <3>2. CASE ~Stuck(t)
      BY <2>2, <3>2
    <3> QED
      BY <3>1, <3>2
  <2>4. seen'[t] <= Replies(notes'[t])
    BY <2>1, <2>2, <2>3 DEF Heard
  <2>5. status'[t] = "none" => seen'[t] <= 0
    BY <2>1, <2>2 DEF Heard, Waiting
  <2>6. ASSUME t \notin todo', LastIs(notes'[t], UserKinds)
        PROVE  seen'[t] = -1 \/ Replies(notes'[t]) > seen'[t]
    <3>1. LastIs(notes[t], UserKinds) /\ (seen[t] = -1 \/ Replies(notes[t]) > seen[t])
      BY <2>1, <2>2, <2>3, <2>6 DEF Heard
    <3>2. ~(Room(t) /\ Waiting(t))
      BY <2>2, <2>6, <3>1 DEF Selected, NewReply
    <3> QED
      BY <2>2, <2>3, <3>1, <3>2
  <2> QED
    BY <2>2, <2>4, <2>5, <2>6 DEF Heard
<1>4. CASE WorkerRestart
  <2> SUFFICES ASSUME NEW t \in Tickets PROVE Heard(t)'
    BY DEF HeardIInv
  <2>1. Replies(notes[t]) \in Nat
    BY RepliesType
  <2>2. /\ notes'[t] = notes[t] /\ seen'[t] = -1 /\ at'[t] = "out"
    BY <1>4 DEF WorkerRestart
  <2> QED
    BY <2>1, <2>2 DEF Heard
<1>5. CASE RunnerRestart
  BY <1>1, <1>5 DEF RunnerRestart
<1>6. ASSUME NEW t \in Tickets, Tick(t) PROVE HeardIInv'
  BY <1>1, <1>6 DEF Tick
<1>7. ASSUME NEW t \in Tickets, Api(t) \/ Process(t) PROVE HeardIInv'
  BY <1>7, HeardApi, HeardProcess
<1>8. ASSUME NEW t \in Tickets, Loop(t) PROVE HeardIInv'
  <2>1. ASSUME NEW delivered \in BOOLEAN, NEW answered \in BOOLEAN,
               DropPost(t, delivered, answered)
        PROVE  HeardIInv'
    BY <1>1, <2>1, HeardResult DEF DropPost
  <2> QED
    BY <1>1, <1>8, <2>1 DEF Loop, ReadJob, MergeFile, DropRemove, Take
<1>9. ASSUME NEW t \in Tickets, NEW r \in RunIds, Thread(t, r) \/ Reap(t, r)
      PROVE  HeardIInv'
  <2>1. ASSUME NEW delivered \in BOOLEAN, NEW answered \in BOOLEAN,
               PostResult(t, r, delivered, answered)
        PROVE  HeardIInv'
    BY <1>1, <2>1, HeardResult DEF PostResult
  <2> QED
    BY <1>1, <1>9, <2>1 DEF Thread, StartRun, EndRun, RemoveFile, Reap
<1> QED
  BY <1>2, <1>3, <1>4, <1>5, <1>6, <1>7, <1>8, <1>9 DEF Next

\* As long as no thread of a ticket reaches add_note's cap, no reply is taken for
\* handled: not by a stale write-back of a round, which may wipe it out of the
\* thread but then is itself the last word, nor by a restart, the watchdog or a
\* failed round.  (Past the cap an evicted reply makes the count fall behind.)
THEOREM ReplyIsHeardBelowCap == Spec => ([]BelowCap => []ReplyIsHeard)
<1>1. Init => HeardIInv
  BY EmptyReplies DEF Init, HeardIInv, Heard
<1>2. TypeOK /\ HeardIInv /\ BelowCap' /\ [Next]_vars => HeardIInv'
  BY HeardStep
<1>3. HeardIInv => ReplyIsHeard
  BY DEF HeardIInv, Heard, ReplyIsHeard, NewReply
<1> QED
  BY <1>1, <1>2, <1>3, TypeCorrect, PTL DEF Spec

=============================================================================
