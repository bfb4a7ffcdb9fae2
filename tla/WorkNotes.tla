------------------------------ MODULE WorkNotes ------------------------------
(***************************************************************************)
(* A ticket's work_notes: the append-only list of events through which the *)
(* API, the worker and the agent runner talk to each other.  Nothing else  *)
(* tells the worker that a customer replied, that a session is running or  *)
(* that a job failed, so the helpers below are the guards of the pipeline. *)
(*                                                                         *)
(* A note is reduced to its event name, with two refinements the worker    *)
(* makes by looking at the text: a user_message is told apart by intent    *)
(* (a request, a close directive, a thanks), and an auto_execute note by   *)
(* its detail ("dispatch" for the pi session, "auto" for a catalog job).   *)
(* Events that no guard reads (agent_progress, ai_tech_feedback,           *)
(* agent_response, completed, ...) are one kind, "chatter".                *)
(***************************************************************************)
EXTENDS Naturals, Sequences, FiniteSets

CONSTANT NoteCap    \* notes kept by add_note (50 in the code)

ASSUME NoteCapAssumption == NoteCap \in Nat \ {0}

UserKinds == {"ask", "close", "ack"}

\* The events _work_state looks for: where the technician actually is.
TerminalWorkEvents ==
    {"processing", "auto", "dispatch", "completed", "failed",
     "escalated", "closed", "input", "await"}

NoteKinds == UserKinds \cup TerminalWorkEvents \cup {"retry", "chatter"}

\* add_note: append, then keep the last NoteCap notes.
AddNote(notes, kind) ==
    LET longer == Append(notes, kind)
    IN  IF Len(longer) <= NoteCap THEN longer ELSE Tail(longer)

CountOf(notes, kinds) == Cardinality({i \in DOMAIN notes : notes[i] \in kinds})

LastIs(notes, kinds) == notes # <<>> /\ notes[Len(notes)] \in kinds

Has(notes, kinds) == \E i \in DOMAIN notes : notes[i] \in kinds

\* Some note of `kinds` with no note of `later` after it.
Pending(notes, kinds, later) ==
    \E i \in DOMAIN notes :
        /\ notes[i] \in kinds
        /\ \A j \in DOMAIN notes : j > i => notes[j] \notin later

\* _count_user_notes, _count_retry_notes, _count_failed_notes
Replies(notes)  == CountOf(notes, UserKinds)
Retries(notes)  == CountOf(notes, {"retry"})
Failures(notes) == CountOf(notes, {"failed"})

\* _latest_user_message, classified by close_intent and ack_intent
LatestReplyIs(notes, kind) == Pending(notes, {kind}, UserKinds)

\* _work_state = the given event; _work_state = ""
WorkStateIs(notes, event) == Pending(notes, {event}, TerminalWorkEvents)
NeverWorked(notes) == ~Has(notes, TerminalWorkEvents)

\* The second signal of _pi_run_active: a dispatch note with no result after it.
DispatchPending(notes) ==
    Pending(notes, {"dispatch"}, {"completed", "failed", "escalated"})

\* The watchdog's test: a job was sent off and nothing ever came back.
NeverReportedBack(notes) ==
    /\ Has(notes, {"auto", "dispatch"})
    /\ ~Has(notes, {"completed", "failed", "escalated"})

=============================================================================
