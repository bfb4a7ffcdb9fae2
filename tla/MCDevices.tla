----------------------------- MODULE MCDevices ------------------------------
(***************************************************************************)
(* What the appliance keeps of the devices, for TLC: the jobs of their     *)
(* agents, the inventory, the channels they can be reached by, the ports   *)
(* of switches and the rules about them.  In each behaviour one of these   *)
(* runs and the others stay at one of their initial states.                *)
(***************************************************************************)
EXTENDS DeviceJobs

CONSTANTS Boxes, Gear, Randomized, Addresses, AutoAdopt, MaxRecords, MaxSteps,
          Actions, MaxWritten,
          Ports, Networks, Protected, Appliance, Uplinks, Busy, Table, Requests,
          Kinds, NativeGiven, OneAtATime, MaxBlind,
          MaxScored

\* Bounds are numbers; the tables of the switch are of its ports, and "none" is no network.
ASSUME DevicesAssumption ==
    /\ {MaxRecords, MaxSteps, MaxBlind} \subseteq Nat
    /\ Table \in [Ports -> [native : Networks, tagged : SUBSET Networks]]
    /\ "none" \notin Networks /\ Appliance \union Uplinks \subseteq Ports
    /\ AutoAdopt \in BOOLEAN

VARIABLES
    part,                                                       \* what runs
    row, sync, steps,
    dev, fp, known, written, job,
    override, req, blind,
    snapshot, findings, listed, penalty, overall

tableVars   == <<row, sync, steps>>
channelVars == <<dev, fp, known, written, job>>
portVars    == <<override, req, blind>>
ruleVars    == <<snapshot, findings, listed, penalty, overall>>

-----------------------------------------------------------------------------
(* The instances.                                                            *)

Records == INSTANCE Inventory WITH MaxRows <- MaxRecords

Switch == INSTANCE SwitchPorts WITH Serial <- OneAtATime

\* The first port has the local network, the second one is a trunk with the management network.
TwoPorts == <<[native |-> "lan", tagged |-> {}], [native |-> "lan", tagged |-> {"mgmt"}]>>

Channels == INSTANCE DeviceChannels WITH MaxJobs <- MaxWritten, jobs <- written

\* What a scan may report: of the first port everything that tells the archetypes apart, of the
\* second one a few kinds.
Plain == [up |-> TRUE, uplink |-> FALSE, named |-> TRUE, native |-> 20, default |-> FALSE,
          tagged |-> {}, mac |-> 1, rx |-> 11, tx |-> 11, mc |-> 0, speed |-> 1000,
          max |-> 1000, errors |-> 0, downs |-> 0, settled |-> TRUE]

FirstPorts ==
    {[Plain EXCEPT !.mac = m, !.rx = rates[1], !.tx = rates[2], !.mc = c, !.uplink = u,
                   !.native = v, !.speed = x, !.downs = d] :
        m \in {0, 1, 3}, rates \in {<<0, 0>>, <<11, 11>>, <<1000, 1000>>}, c \in {0, 200, 1000},
        u \in BOOLEAN, v \in {0, 1, 20}, x \in {100, 1000}, d \in {0, 3}}

SecondPorts ==
    {Plain, [Plain EXCEPT !.up = FALSE],
     [Plain EXCEPT !.native = 0, !.default = TRUE, !.tagged = {10}, !.errors = 1],
     [Plain EXCEPT !.downs = 3, !.settled = FALSE, !.speed = 10, !.native = 0],
     [Plain EXCEPT !.uplink = TRUE, !.named = FALSE]}

Network(vlan, purpose, enabled) == [vlan |-> vlan, purpose |-> purpose, enabled |-> enabled]

Rules == INSTANCE PortRules WITH
    DeviceTypes <- {"switch", "ap"}, Ports <- FirstPorts, OtherPorts <- SecondPorts,
    NetworkSets <- {{Network(0, "other", TRUE), Network(10, "management", TRUE),
                     Network(20, "production", e)} : e \in BOOLEAN}

-----------------------------------------------------------------------------

Still(what, fixed) == part = what \/ (part # what /\ fixed)

MCInit ==
    /\ part \in {"jobs", "inventory", "channels", "ports", "rules"}
    /\ Init /\ Records!Init /\ Channels!Init
    /\ Still("ports", override = [p \in Ports |-> Switch!NoOverride]) /\ Switch!Init
    /\ Still("rules", snapshot = Rules!Nothing) /\ Rules!Init

MCNext ==
    \/ /\ part = "jobs" /\ Next
       /\ UNCHANGED <<part, tableVars, channelVars, portVars, ruleVars>>
    \/ /\ part = "inventory" /\ Records!Next
       /\ UNCHANGED <<part, vars, channelVars, portVars, ruleVars>>
    \/ /\ part = "channels" /\ written < MaxWritten    \* the last job ends the behaviour
       /\ Channels!Next
       /\ UNCHANGED <<part, vars, tableVars, portVars, ruleVars>>
    \/ /\ part = "ports" /\ Switch!Next
       /\ UNCHANGED <<part, vars, tableVars, channelVars, ruleVars>>
    \/ /\ part = "rules" /\ Rules!Next
       /\ UNCHANGED <<part, vars, tableVars, channelVars, portVars>>

\* The agents' loops run.
MCSpec ==
    /\ MCInit /\ [][MCNext]_<<part, vars, tableVars, channelVars, portVars, ruleVars>>
    /\ \A d \in Devices : WF_vars(part = "jobs" /\ Agent(d))

-----------------------------------------------------------------------------

\* Every variable of the jobs, the inventory and the ports has its type.  DeviceJobs: what an agent
\* calls done was handled once, and what the appliance stored of it is what the agent reported.
LedgerHolds ==
    /\ TypeOK /\ Records!TypeOK /\ Switch!TypeOK
    /\ DoneWasHandled /\ ReportedIsStored

\* Inventory: no report, sync, enrollment or merge makes a revoked record trusted again.
RevokedStays == Records!RevokedStays

\* DeviceChannels: what the appliance says it can fix, one of its actions can change; and the
\* channel it recommends for a fingerprint is one the fingerprint shows.
ChannelsHold == Channels!FixIsPossible /\ Channels!RecommendationIsSound

\* SwitchPorts: no change takes a protected network from a port without a confirmation.
ProtectedIsKept == Switch!ProtectedIsKept

\* Nor does one disable a port the appliance or a managed device hangs on.
PortsHold == ProtectedIsKept /\ Switch!NobodyIsCutOff

\* PortRules: what is behind an edge port is never told to change its network, and the score
\* depends on the counts of findings only.
RulesHold == Rules!EdgeIsLeftAlone /\ Rules!ScoreIsPinned

=============================================================================
