-------------------------- MODULE MCPipelineSwitch --------------------------
(***************************************************************************)
(* The pipeline after the profile was switched while a session was queued. *)
(* The starting state is one TicketPipeline reaches with both profiles:    *)
(* Create, Poll, PickUp, PiWrite, CommitJob, ReadJob, Take of the session; *)
(* then, with the autonomous profile off, UserNote, Poll, PickUp, WriteJob *)
(* and CommitJob of a catalog job for the customer's reply.  From here on  *)
(* the autonomous profile is on again, so a further reply may write a      *)
(* second pi job while the first session still runs.                       *)
(***************************************************************************)
EXTENDS TicketPipeline

CONSTANT Session    \* the run of the queued session, one of RunIds

SwitchInit ==
    /\ text = [t \in Tickets |-> "plain"]
    /\ status = [t \in Tickets |-> "in_progress"]
    /\ notes = [t \in Tickets |->
           <<"processing", "dispatch", "ask", "processing", "chatter", "auto">>]
    /\ age = [t \in Tickets |-> 0]
    /\ seen = [t \in Tickets |-> 1]
    /\ todo = {}
    /\ at = [t \in Tickets |-> "out"]
    /\ view = [t \in Tickets |-> NoView]
    /\ plan = [t \in Tickets |-> NoJob]
    /\ incoming = [t \in Tickets |-> AutoJob]
    /\ running = [t \in Tickets |-> PiJob]
    /\ gate = [t \in Tickets |-> NoGate]
    /\ entry = [t \in Tickets |-> {Session}]
    /\ runs = [t \in Tickets |-> [r \in RunIds |->
           IF r = Session THEN [NoRun EXCEPT !.st = "queued", !.lane = "pi"]
                          ELSE NoRun]]
    /\ used = [msgs |-> 0, desk |-> 0, crashes |-> 0]
    /\ blessed = [t \in Tickets |-> FALSE]
    /\ fed = [t \in Tickets |-> 0]

SwitchSpec == SwitchInit /\ [][Next]_vars

=============================================================================
