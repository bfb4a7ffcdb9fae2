------------------------------ MODULE Incident ------------------------------
(***************************************************************************)
(* What every monitor of the appliance promises of each thing it watches:  *)
(* a P2 ticket when trouble starts, the SAME ticket raised to P1 when it   *)
(* lasts or comes back, and the end of the incident when it is over.  Only *)
(* then can the same thing get another ticket.  One cycle of a monitor may *)
(* take a step of each of the things it watches.                           *)
(***************************************************************************)
CONSTANTS
    Subjects,   \* what is watched
    Tickets,    \* tickets an incident can have
    NoTicket    \* the ticket of no incident

VARIABLES
    level,      \* per subject: "none", "P2" or "P1"
    ticket      \* per subject: the ticket that records its incident

vars == <<level, ticket>>

Init == /\ level = [s \in Subjects |-> "none"]
        /\ ticket = [s \in Subjects |-> NoTicket]

Raise(s) == /\ level[s] = "none"
            /\ level'[s] = "P2"
            /\ ticket'[s] \in Tickets

Escalate(s) == /\ level[s] = "P2"
               /\ level'[s] = "P1"
               /\ ticket'[s] = ticket[s]

End(s) == /\ level[s] # "none"
          /\ level'[s] = "none"
          /\ ticket'[s] = NoTicket

Stays(s) == level'[s] = level[s] /\ ticket'[s] = ticket[s]

Next == \A s \in Subjects : Raise(s) \/ Escalate(s) \/ End(s) \/ Stays(s)

Spec == Init /\ [][Next]_vars

=============================================================================
