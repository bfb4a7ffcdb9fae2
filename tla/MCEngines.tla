----------------------------- MODULE MCEngines ------------------------------
(***************************************************************************)
(* The engines of the API's threads for TLC: firmware upgrades, scans of   *)
(* the network and service checks.  In each behaviour one of them runs and *)
(* the others stay at their initial state.                                 *)
(*                                                                         *)
(* The run's fleet is an access point and the gateway, upgraded last.      *)
(***************************************************************************)
EXTENDS Naturals, FiniteSets

CONSTANTS Tickers, Risk, Gateways, Profiles, MaxItems, MaxCrashes,
          MaxRuns, Hosts, Findings, PerItemCap, MaxTickets, MaxScanFaults,
          Pollers, FailThreshold, RecoveryOk, P1After, MaxLate, MaxPollFaults

\* Bounds are numbers, and a scan has finitely many rules.
ASSUME EnginesAssumption ==
    /\ {MaxItems, MaxCrashes, MaxRuns, Hosts, PerItemCap, MaxTickets, MaxScanFaults, FailThreshold,
        RecoveryOk, P1After, MaxLate, MaxPollFaults} \subseteq Nat
    /\ IsFiniteSet(Findings)

ApThenGateway == [ap |-> 0, gw |-> 2]

VARIABLES
    part,                                                       \* what runs
    fleet, inv, cached, upgrade, line, items, tick, failed, crashes,
    scan, stage, event, left, asked, found, fix, spawned, closed, resolved, old, scanFaults,
    up, mon, ep, ticket, poll, pollFaults

Fw == INSTANCE Firmware WITH row <- upgrade

Opt == INSTANCE NetworkOpt WITH MaxFaults <- MaxScanFaults, row <- scan, faults <- scanFaults

Service == INSTANCE ServiceChecks WITH MaxFaults <- MaxPollFaults, faults <- pollFaults

fwVars      == <<fleet, inv, cached, upgrade, line, items, tick, failed, crashes>>
optVars     == <<scan, stage, event, left, asked, found, fix, spawned, closed, resolved, old,
                 scanFaults>>
serviceVars == <<up, mon, ep, ticket, poll, pollFaults>>
vars        == <<part, fwVars, optVars, serviceVars>>

-----------------------------------------------------------------------------

Init ==
    /\ part \in {"firmware", "scan", "service"}
    /\ Fw!Init /\ Opt!Init /\ Service!Init

Next ==
    \/ part = "firmware" /\ Fw!Next /\ UNCHANGED <<part, optVars, serviceVars>>
    \/ part = "scan" /\ Opt!Next /\ UNCHANGED <<part, fwVars, serviceVars>>
    \/ part = "service" /\ Service!Next /\ UNCHANGED <<part, fwVars, optVars>>

\* Each under its own fairness.
Spec ==
    /\ Init /\ [][Next]_vars
    /\ \A s \in Tickers : WF_fwVars(part = "firmware" /\ Fw!Pass(s))
    /\ \A d \in DOMAIN Risk : WF_fwVars(part = "firmware" /\ Fw!DeadlinePasses(d))
    /\ \A r \in 1..MaxRuns : WF_optVars(part = "scan" /\ Opt!ThreadStep(r))

-----------------------------------------------------------------------------

\* Every variable of every engine has its type; upgrades take turns; scans that a restart lost
\* are reconciled; an open ticket of a service has an episode.
EnginesHold ==
    /\ Fw!TypeOK /\ Opt!TypeOK /\ Service!TypeOK
    /\ Fw!OneAtATime /\ Opt!OldRunsAreReconciled /\ Service!OpenIsWatched

\* Firmware: nothing is started while a failure waits for a person's review.
FailureHalts == Fw!FailureHalts

\* Firmware: an upgrade finishes or is rolled back, whatever window and autonomy become.
InFlightEnds == part = "firmware" => Fw!InFlightEnds

\* NetworkOpt: a scan whose thread is not lost ends for good.
RunsSettle == part = "scan" => Opt!RunsSettle

\* ServiceChecks: overlapping polls keep one incident for a monitor.
ServiceIncidents == Service!ServiceIncidents

=============================================================================
