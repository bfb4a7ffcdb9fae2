------------------------------ MODULE PortRules ------------------------------
(***************************************************************************)
(* The findings of a network scan about ports, VLANs and networks, and its *)
(* score (api/network_opt_rules.py).  The rules are pure functions of the  *)
(* snapshot: a behaviour takes one snapshot of a device and its networks,  *)
(* or one list of findings, and evaluates it.  Names, labels and texts are *)
(* left out; an advice is what it tells the reader to do.                  *)
(***************************************************************************)
EXTENDS Integers, Sequences, FiniteSets, SequencesExt

CONSTANTS
    DeviceTypes,    \* of the scanned device
    Ports,          \* records of the fields below: what unifi reports of a port
    OtherPorts,     \* what the second port of the device may be
    NetworkSets,    \* sets of networks: [vlan, purpose, enabled]
    MaxScored       \* bound: the findings of a list that is scored

NoVlan == 0         \* an untagged network, or a port without a native VLAN
NoPort == 0

\* The advice of a finding is a set of VLANs to assign, or one of these.
Trunk       == -1   \* assign the full VLAN trunk
VerifyFirst == -2   \* verify before any change

VARIABLES
    snapshot, findings,     \* what a scan saw, and what the rules made of it
    listed,                 \* the severities of the findings scored so far
    penalty,                \* what they cost, and how many infos of them were counted
    overall                 \* the score of them

vars == <<snapshot, findings, listed, penalty, overall>>

-----------------------------------------------------------------------------
(* What is on a port.                                                        *)

\* classify_port
Class(p) ==
    CASE ~p.up -> "down"
      [] p.up /\ p.mac = 0 /\ p.rx <= 10 /\ p.mc >= 1000
              /\ p.mc >= 50 * (IF p.rx > 1 THEN p.rx ELSE 1) -> "dead_end"
      [] p.up /\ p.mac = 0 /\ p.rx <= 10 /\ p.tx <= 10 /\ p.mc <= 10 -> "unused"
      [] OTHER -> "connected"

\* classify_archetype: heavy traffic both ways, or much multicast, from one address.
Heavy(p) == (p.rx >= 1000 /\ p.tx >= 1000) \/ p.mc >= 200

Archetype(p) ==
    IF Class(p) # "connected" THEN Class(p)
    ELSE CASE p.mac >= 3 -> "switch"
           [] p.mac = 1 /\ Heavy(p) -> "router_ap"
           [] p.mac = 1 /\ ~Heavy(p) -> "host"
           [] OTHER -> "unknown"

\* _is_trunk_port and port_has_profile
IsTrunk(p)    == p.uplink \/ p.tagged # {}
HasProfile(p) == p.native # NoVlan \/ p.default \/ p.tagged # {}

-----------------------------------------------------------------------------
(* The networks of a snapshot.                                               *)

PortSet(s) == {s.ports[i] : i \in DOMAIN s.ports}

\* _mgmt_vlans: VLAN 1, whether it exists or not, and those named for management.
MgmtVlans(s) == ({1} \cup {n.vlan : n \in {m \in s.networks : m.purpose = "management"}}) \ {NoVlan}

\* _used_vlans and _trunk_native_used
UsedVlans(s) == {p.native : p \in {q \in PortSet(s) : ~IsTrunk(q)}} \ {NoVlan}
NativeUsed(s, vlan) == vlan = NoVlan \/ vlan \in UsedVlans(s) \cup MgmtVlans(s)

\* _port_device_class and suggested_network: the first enabled VLAN named for the class.
DeviceClass(s, p) == IF Archetype(p) \in {"switch", "host"} THEN Archetype(p) ELSE s.type
PurposeOf(class) == CASE class = "ap" -> "wifi"
                      [] class \in {"gateway", "router", "switch"} -> "management"
                      [] class \in {"host", "server"} -> "production"
                      [] OTHER -> "nothing"
Suited(s, p) == {n \in s.networks : /\ n.enabled /\ n.vlan # NoVlan
                                    /\ n.purpose = PurposeOf(DeviceClass(s, p))}

\* port_profile_action: the conservative advice comes first.
AdviceUplinkFirst(s, p) ==
    CASE p.uplink -> {Trunk}
      [] ~p.uplink /\ Archetype(p) \in {"router_ap", "unknown"} -> {VerifyFirst}
      [] OTHER -> {n.vlan : n \in Suited(s, p)}
Advice(s, p) ==
    CASE Archetype(p) \in {"router_ap", "unknown"} -> {VerifyFirst}
      [] Archetype(p) \notin {"router_ap", "unknown"} /\ p.uplink -> {Trunk}
      [] OTHER -> {n.vlan : n \in Suited(s, p)}

-----------------------------------------------------------------------------
(* The rules.  A rule about ports reports the first port it holds of.        *)

Finding(key, severity, port, advice) ==
    [key |-> key, severity |-> severity, port |-> port, advice |-> advice]

FirstPort(s, key, severity, hits) ==
    LET i == SelectInSeq(s.ports, LAMBDA p : p \in hits)
    IN IF i = 0 THEN {} ELSE {Finding(key, severity, i, {})}

PerfLinkSpeed100(s) ==
    FirstPort(s, "perf.link_speed_100", "warning",
              {p \in ToSet(s.ports) : p.up /\ p.speed = 100 /\ p.max >= 1000})

PerfLinkSpeed10(s) ==
    FirstPort(s, "perf.link_speed_10", "warning",
              {p \in ToSet(s.ports) : p.up /\ p.speed <= 10})

PerfPortErrors(s) ==
    FirstPort(s, "perf.port_errors_unifi", "warning",
              {p \in ToSet(s.ports) : p.up /\ p.errors > 0})

PerfUplink(s) ==
    FirstPort(s, "perf.uplink_congestion", "info",
              {p \in ToSet(s.ports) : p.uplink /\ p.up /\ p.speed <= 100})

SecMgmtOnUplink(s) ==
    FirstPort(s, "sec.mgmt_vlan_on_uplink", "warning",
              {p \in ToSet(s.ports) :
                  p.uplink /\ ({p.native} \cup p.tagged) \cap MgmtVlans(s) # {}})

SecTrunkNative(s) ==
    FirstPort(s, "sec.trunk_native_used", "critical",
              {p \in ToSet(s.ports) : IsTrunk(p) /\ NativeUsed(s, p.native)})

HygUnnamedUplink(s) ==
    FirstPort(s, "hyg.unnamed_uplink_port", "info",
              {p \in ToSet(s.ports) : p.uplink /\ p.up /\ ~p.named})

HygDeadEnd(s) ==
    FirstPort(s, "hyg.dead_end_port", "warning",
              {p \in ToSet(s.ports) : Class(p) = "dead_end"})

HygUnused(s) ==
    FirstPort(s, "hyg.unused_port_up", "info",
              {p \in ToSet(s.ports) : Class(p) = "unused"})

\* rel.link_down_count: history when the link has been up for a day, and a fault otherwise.
RelLinkDown(s) ==
    LET Flapped(p) == p.downs >= 3
        i == SelectInSeq(s.ports, Flapped)
    IN IF i = 0 THEN {}
       ELSE {Finding("rel.link_down_count",
                     IF s.ports[i].settled /\ s.ports[i].up THEN "info" ELSE "warning", i, {})}

\* hyg.port_no_profile carries the advice for its port.
HygNoProfile(s) ==
    LET Bare(p) == p.up /\ ~HasProfile(p)
        i == SelectInSeq(s.ports, Bare)
    IN IF i = 0 THEN {}
       ELSE {Finding("hyg.port_no_profile", "info", i, Advice(s, s.ports[i]))}

\* The rules about the snapshot have a finding for each network.
PerNetwork(s, key, severity, N) == {Finding(key, severity, NoPort, {n.vlan}) : n \in N}

SecMgmtNotIsolated(s) ==
    PerNetwork(s, "sec.mgmt_vlan_not_isolated", "critical",
               {[vlan |-> v] : v \in MgmtVlans(s) \cap {p.native : p \in PortSet(s)}})
HygVlan1(s)    == PerNetwork(s, "hyg.default_vlan1", "info",
                             {n \in s.networks : n.vlan = 1 /\ n.enabled})
HygUnusedVlan(s) ==
    PerNetwork(s, "hyg.unused_vlan", "info",
               {n \in s.networks : n.vlan \notin UNION {{p.native} \cup p.tagged : p \in PortSet(s)}
                                                 \cup {NoVlan}})
HygDisabled(s) == PerNetwork(s, "hyg.disabled_network", "info",
                             {n \in s.networks : ~n.enabled})

Rules(s) ==
    UNION {PerfLinkSpeed100(s), PerfLinkSpeed10(s), PerfPortErrors(s), PerfUplink(s),
           SecMgmtOnUplink(s), SecTrunkNative(s), RelLinkDown(s), HygUnnamedUplink(s),
           HygNoProfile(s), HygDeadEnd(s), HygUnused(s), SecMgmtNotIsolated(s),
           HygVlan1(s), HygUnusedVlan(s), HygDisabled(s)}

-----------------------------------------------------------------------------
(* The score.                                                                *)

Weight(severity) == CASE severity = "critical" -> 20
                      [] severity = "warning"  -> 5
                      [] severity = "info"     -> 2

NoPenalty == [total |-> 0, infos |-> 0]

\* One pass of the loop of score: only the first five infos count.
Counted(sum, severity) ==
    IF severity = "info" /\ sum.infos >= 5 THEN sum
    ELSE [total |-> sum.total + Weight(severity),
          infos |-> sum.infos + IF severity = "info" THEN 1 ELSE 0]

Score(sum) == IF sum.total > 100 THEN 0 ELSE 100 - sum.total

-----------------------------------------------------------------------------
Nothing == <<>>

\* evaluate
Evaluate ==
    /\ snapshot # Nothing /\ findings = Nothing
    /\ findings' = <<Rules(snapshot)>>
    /\ UNCHANGED <<snapshot, listed, penalty, overall>>

\* The findings of a run are scored in the order they come: the next one, and the score if it
\* were the last.
Add == /\ snapshot = Nothing /\ Len(listed) < MaxScored
       /\ \E severity \in {"critical", "warning", "info"} :
            /\ listed' = Append(listed, severity)
            /\ penalty' = Counted(penalty, severity)
            /\ overall' = Score(penalty')
       /\ UNCHANGED <<snapshot, findings>>

Snapshots == [type : DeviceTypes, networks : NetworkSets,
              ports : {<<p, q>> : p \in Ports, q \in OtherPorts}]

Init == /\ snapshot \in Snapshots \cup {Nothing}
        /\ findings = Nothing /\ listed = <<>> /\ penalty = NoPenalty /\ overall = 100
Next == Evaluate \/ Add
Spec == Init /\ [][Next]_vars

-----------------------------------------------------------------------------
(* Properties.                                                               *)

\* A port behind which there is a router, an access point or something unknown is never told to
\* change its network (docstring of port_profile_action), not even when it is an uplink.
EdgeIsLeftAlone ==
    findings # Nothing =>
        \A f \in findings[1] :
            f.port # NoPort /\ Archetype(snapshot.ports[f.port]) \in {"router_ap", "unknown"}
                => f.advice \subseteq {VerifyFirst}

Count(severity) == Cardinality({i \in DOMAIN listed : listed[i] = severity})

\* The overall score is a function of the counts alone, whatever the order the findings come in,
\* and no number of infos takes it below 90 (docstring of score).
ScoreIsPinned ==
    LET infos == IF Count("info") < 5 THEN Count("info") ELSE 5
        left  == 100 - 20 * Count("critical") - 5 * Count("warning") - 2 * infos
    IN overall = IF left < 0 THEN 0 ELSE left

\* Only a port that is confidently a host or a switch gets a network (same docstring).  Not so:
\* a dead end or an unused port gets the network of the device it is a port of.
OnlyConfidentMoves ==
    findings # Nothing =>
        \A f \in findings[1] :
            f.key = "hyg.port_no_profile" /\ f.advice \cap Nat # {}
                => Archetype(snapshot.ports[f.port]) \in {"host", "switch"}

\* A port that flaps now is reported as a warning.  Not so: an earlier port with old
\* transitions is the one the rule reports, as an info.
ActiveFaultWarns ==
    findings # Nothing =>
        \A i \in DOMAIN snapshot.ports :
            snapshot.ports[i].downs >= 3 /\ ~snapshot.ports[i].settled
                => \E f \in findings[1] : f.key = "rel.link_down_count" /\ f.severity = "warning"
=============================================================================
