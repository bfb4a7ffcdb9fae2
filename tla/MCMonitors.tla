----------------------------- MODULE MCMonitors -----------------------------
(***************************************************************************)
(* The monitors of the appliance for TLC: in each behaviour one of them    *)
(* runs and the others stay at their initial state.  They share no state,  *)
(* so that this shows what a run for each of them would.                   *)
(*                                                                         *)
(* Of the links one is there at a time: a link's row is written by its own *)
(* transitions only, so that two links show nothing that each of them does *)
(* not.  The internet is lost only when that link is the WAN, which alone  *)
(* has to do with the probe.                                               *)
(***************************************************************************)
EXTENDS InternetMonitor

CONSTANTS DegradeWindow, OutageWindow, RecoverWindow, PhantomWindow

ASSUME MonitorsAssumption ==
    {DegradeWindow, OutageWindow, RecoverWindow, PhantomWindow} \subseteq Nat \ {0}

VARIABLES
    part,                                       \* the monitor that runs
    dish, silent, dishEp, dishTicket

dishVars    == <<dish, silent, dishEp, dishTicket>>

Starlink == INSTANCE StarlinkHealth WITH ep <- dishEp, ticket <- dishTicket

-----------------------------------------------------------------------------

OneLink == \E k \in Links : \A j \in Links : report[j] = "absent" <=> j # k

Relevant == report[Wan] = "absent" =>
    state' \in {"none", "online"} /\ Range(counted') \subseteq {"online"}

MCInit ==
    /\ part \in {"links", "starlink"}
    /\ Init /\ OneLink /\ (part # "links" => report[Wan] = "up")
    /\ Starlink!Init /\ (part # "starlink" => dish = "gap")

MCNext ==
    \/ part = "links" /\ Next /\ Relevant /\ UNCHANGED <<part, dishVars>>
    \/ part = "starlink" /\ Starlink!Next /\ UNCHANGED <<part, vars>>

\* Each monitor under its own fairness.
MCSpec ==
    /\ MCInit /\ [][MCNext]_<<part, vars, dishVars>>
    /\ WF_vars(part = "links" /\ Elapse) /\ WF_vars(part = "links" /\ Cycle)
    /\ WF_dishVars(part = "starlink" /\ Starlink!Check)
    /\ WF_dishVars(part = "starlink" /\ Starlink!Elapse)

-----------------------------------------------------------------------------

\* Every variable of every monitor has its type, an episode has its ticket, and the internet's
\* recovery releases the WAN.
MonitorsHold == TypeOK /\ Starlink!TypeOK /\ EpisodeHasTicket /\ OnlineReleasesWan

\* StarlinkHealth: a dish that stays well ends its episode and closes the ticket.
RecoveryCloses == part = "starlink" => Starlink!RecoveryCloses

=============================================================================
