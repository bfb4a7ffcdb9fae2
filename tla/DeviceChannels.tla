--------------------------- MODULE DeviceChannels ---------------------------
(***************************************************************************)
(* What the appliance may do with a device: the control channels of its    *)
(* record, the channel a fingerprint recommends (action_validator.py), the *)
(* capabilities and the action channel of the knowledge layer              *)
(* (environment_state.py), and the gate of the worker between an action    *)
(* proposed for a device and the job file.                                 *)
(*                                                                         *)
(* One device, from its discovery on; a suggestion is looked at when it is *)
(* stored.                                                                 *)
(***************************************************************************)
EXTENDS Naturals, FiniteSets

CONSTANTS Actions,     \* proposed actions, a subset of the catalog's
          MaxJobs      \* bound: job files written

VARIABLES
  dev,      \* the device's row
  fp,       \* the suggestion stored with its fingerprint
  known,    \* the worker's cache of managed devices has the device
  jobs,     \* how many jobs the worker wrote
  job       \* the last of them

vars == <<dev, fp, known, jobs, job>>

None == "none"

(* The channels in their order of security, and those that let the         *)
(* appliance act on a device itself.                                       *)
Channels == {"agent", "vendor_api", "ssh", "unifi", "snmp", "monitor"}
Rank == [agent |-> 0, vendor_api |-> 1, ssh |-> 2, unifi |-> 3, snmp |-> 4, monitor |-> 5]
ControlChannelsWithMonitor == {"agent", "vendor_api", "ssh", "unifi", "monitor"}  \* mutant
ControlChannels == {"agent", "vendor_api", "ssh", "unifi"}

(* The channels an action needs one of; the other actions need none.       *)
RequiredChannels(a) ==
  CASE a = "reboot_device" -> {"ssh", "agent", "snmp", "vendor_api"}
    [] a \in {"collect_logs", "apply_patch", "install_chat_client"} -> {"ssh", "agent"}
    [] a \in {"enroll_device", "windows_diag", "windows_cleanup", "windows_netdiag"} -> {"ssh"}
    [] a = "snmp_poll" -> {"snmp"}
    [] a \in {"check_updates", "apply_updates"} -> {"agent"}
    [] OTHER -> {}

(* Actions whose parameters have a rule of their own.                      *)
WithParameters == {"apply_updates", "windows_cleanup", "windows_netdiag", "ticket_status",
                   "apply_patch", "unifi_port_config", "unifi_devices", "unifi_clients",
                   "unifi_port_bounce", "unifi_port_rename", "unifi_set_ssid_password",
                   "unifi_network_create", "pi_task", "enroll_device"}

Logical == {"escalate_human", "complete_ticket", "request_customer_input"}

Catalog == WithParameters \union Logical \union
  {"reboot_device", "collect_logs", "install_chat_client", "snmp_poll", "check_updates",
   "windows_diag", "ping_test", "device_status", "network_discovery", "batch"}

-----------------------------------------------------------------------------
(* The device's record and its effective channels: those its credentials   *)
(* and its adoption imply, those an operator declared, and monitor.        *)

Classes == {None, "unifi-gear", "linux-endpoint"}   \* what vendor and model match
Discovered == [claimed |-> FALSE, key |-> FALSE, snmp |-> FALSE, unifi |-> FALSE,
               agent |-> FALSE, reports |-> {}, declared |-> {}, type |-> "unknown",
               class |-> None]

EffectiveChannels(d) ==
  {"monitor"} \union d.declared
  \union (IF d.key THEN {"ssh"} ELSE {}) \union (IF d.snmp THEN {"snmp"} ELSE {})
  \union (IF d.unifi THEN {"unifi"} ELSE {}) \union (IF d.agent THEN {"agent"} ELSE {})

ValidateChannels(a, channels) ==
  RequiredChannels(a) # {} => RequiredChannels(a) \intersect channels # {}

ValidateParams(a, good) == a \in WithParameters => good

(* A batch checks its parts, but not their channels.                       *)
ValidateJob(j, channels) ==
  /\ j.action \in Catalog
  /\ ValidateParams(j.action, j.good)
  /\ ValidateChannels(j.action, channels)

-----------------------------------------------------------------------------
(* The suggestion made from a fingerprint: a type, candidate channels, and *)
(* the most secure one that is not known to be weak on this device.        *)

Fingerprints == [ssh : BOOLEAN, snmp : BOOLEAN, v3 : BOOLEAN, http : {None, "plain", "tls"},
                 rtsp : BOOLEAN, smb : BOOLEAN, printer : BOOLEAN,
                 gear : {None, "vendor", "switch", "router"}]

IsGear(f) == f.gear \in {"switch", "router"} \/ (f.gear = "vendor" /\ f.snmp)
Snmp(f) == IF f.snmp THEN {"snmp"} ELSE {}

SuggestedType(f) ==
  CASE IsGear(f) -> IF f.gear = "router" THEN "router" ELSE "switch"
    [] ~IsGear(f) /\ f.rtsp -> "camera"
    [] ~IsGear(f) /\ ~f.rtsp /\ (f.ssh \/ f.smb) -> "server"
    [] ~IsGear(f) /\ ~f.rtsp /\ ~f.ssh /\ ~f.smb /\ (f.printer \/ f.http # None) -> "iot"
    [] OTHER -> "other"

CandidateChannels(f) == {"monitor"} \union
  CASE IsGear(f) -> {"snmp", "vendor_api"} \union (IF f.ssh THEN {"ssh"} ELSE {})
    [] ~IsGear(f) /\ f.rtsp -> {"vendor_api"} \union Snmp(f)
    [] ~IsGear(f) /\ ~f.rtsp /\ f.ssh -> {"agent", "ssh"} \union Snmp(f)
    [] ~IsGear(f) /\ ~f.rtsp /\ ~f.ssh /\ ~f.smb /\ f.printer -> {"snmp"}
    [] ~IsGear(f) /\ ~f.rtsp /\ ~f.ssh /\ ~f.smb /\ ~f.printer /\ f.http # None ->
         {"vendor_api"}
    [] OTHER -> {}

Insecure(f) ==
  LET plainApi == CASE IsGear(f) -> ~f.ssh /\ f.http # None /\ ~f.snmp
                    [] ~IsGear(f) /\ f.rtsp -> f.http # None
                    [] OTHER -> f.http = "plain"
  IN  (IF plainApi THEN {"vendor_api"} ELSE {}) \union (IF f.v3 THEN {} ELSE {"snmp"})

Best(cs) == IF cs = {} THEN "monitor"
            ELSE CHOOSE c \in cs : \A e \in cs : Rank[c] <= Rank[e]

Recommendation(f) == Best(CandidateChannels(f) \ ({"monitor"} \union Insecure(f)))

-----------------------------------------------------------------------------
(* The knowledge layer: capabilities from the catalog of known classes,    *)
(* else from live signals, else the floor; and who may act.                *)

CatalogCapabilities(class) ==
  CASE class = "unifi-gear" -> {"vlan_8021q", "unifi_controller_api", "firmware_feed"}
    [] class = "linux-endpoint" -> {"ssh_control", "collect_logs"}
    [] OTHER -> {}

ProbeCapabilities(d) ==
  (IF d.agent \/ d.reports # {} THEN {"agent_control"} ELSE {})
  \union {IF r = "reboot" THEN "reboot_control" ELSE r : r \in d.reports}
  \union (IF d.key THEN {"ssh_control", "collect_logs"} ELSE {})
  \union (IF d.unifi THEN {"unifi_controller_api", "firmware_feed"} ELSE {})
  \union (IF d.unifi /\ d.type \in {"switch", "router"} THEN {"vlan_8021q"} ELSE {})

Confidence(d) == IF d.class # None THEN "catalog-verified"
                 ELSE IF ProbeCapabilities(d) # {} THEN "probed" ELSE "unknown-floor"

Capabilities(d) == CASE Confidence(d) = "catalog-verified" -> CatalogCapabilities(d.class)
                     [] Confidence(d) = "probed" -> ProbeCapabilities(d)
                     [] OTHER -> {"reachability"}

HasCapability(d, c) == c \in Capabilities(d)

ActionChannel(d) ==
  IF ~d.claimed THEN "manual_review"
  ELSE IF EffectiveChannels(d) \intersect ControlChannels # {} THEN "bareNOC_fix"
       ELSE "tech_action"

-----------------------------------------------------------------------------
(* The device is fingerprinted, claimed and configured, enrols its agent   *)
(* and is found by the controller's sync.                                  *)

Change(d) == /\ dev' = d /\ d # dev
             /\ UNCHANGED <<known, jobs, job>>

(* The type is only filled in where it is unknown.                         *)
ApplyFingerprint(f) ==
  /\ Change([dev EXCEPT !.type = IF @ = "unknown" THEN SuggestedType(f) ELSE @])
  /\ fp' = <<f>>

Claim(key, snmp, declared, type, class) ==
  /\ Change([dev EXCEPT !.claimed = TRUE, !.type = type, !.class = class,
                        !.key = @ \/ key, !.snmp = @ \/ snmp,
                        !.declared = IF declared = {} THEN @ ELSE declared])
  /\ fp' = <<>>

(* An edit may clear the community and the declared channels, not the key. *)
Update(d) == /\ dev.claimed
             /\ d \in {[dev EXCEPT !.snmp = ~@], [dev EXCEPT !.key = TRUE],
                       [dev EXCEPT !.declared = {}], [dev EXCEPT !.declared = {"vendor_api"}]}
             /\ Change(d) /\ fp' = <<>>

AgentReports(reports) == /\ Change([dev EXCEPT !.agent = TRUE, !.reports = reports,
                                               !.claimed = TRUE])
                         /\ fp' = <<>>

UnifiAdopts == /\ Change([dev EXCEPT !.unifi = TRUE, !.claimed = TRUE])
               /\ fp' = <<>>

(* The worker.  Its cache of devices holds their declared channels, which   *)
(* nothing reads: between a proposal and the job it checks the name of the *)
(* action and that the target is known.                                    *)
LoadManagedDevices == /\ ~known /\ known' = TRUE
                      /\ fp' = <<>>
                      /\ UNCHANGED <<dev, jobs, job>>

Dispatch(a, good) == /\ known /\ jobs < MaxJobs
                     /\ a \in Catalog \ Logical
                     /\ jobs' = jobs + 1
                     /\ job' = [action |-> a, good |-> good, fits |->
                                  ValidateJob([action |-> a, good |-> good],
                                              EffectiveChannels(dev))]
                     /\ fp' = <<>>
                     /\ UNCHANGED <<dev, known>>

Init == /\ dev = Discovered
        /\ fp = <<>> /\ known = FALSE
        /\ jobs = 0 /\ job = [action |-> None, good |-> TRUE, fits |-> TRUE]

Next == \/ \E f \in Fingerprints : ApplyFingerprint(f)
        \/ \E key, snmp \in BOOLEAN, declared \in {{}, {"vendor_api"}},
              type \in {"server", "switch"}, class \in Classes :
             ~dev.claimed /\ Claim(key, snmp, declared, type, class)
        \/ \E d \in {[dev EXCEPT !.snmp = ~@], [dev EXCEPT !.key = TRUE],
                     [dev EXCEPT !.declared = {}], [dev EXCEPT !.declared = {"vendor_api"}]} :
             Update(d)
        \/ \E reports \in {{}, {"reboot", "collect_logs"}} : AgentReports(reports)
        \/ UnifiAdopts
        \/ LoadManagedDevices
        \/ \E a \in Actions, good \in BOOLEAN : Dispatch(a, good)

Spec == Init /\ [][Next]_vars

-----------------------------------------------------------------------------
(* A device the knowledge layer says the appliance can fix has a channel   *)
(* that some changing action really accepts: the two tables agree.         *)
FixIsPossible ==
  ActionChannel(dev) = "bareNOC_fix" =>
    \/ dev.unifi    \* the controller's own actions
    \/ \E a \in {"reboot_device", "apply_patch", "apply_updates"} :
         ValidateChannels(a, EffectiveChannels(dev))

(* A fingerprint never recommends SNMP that is not version 3 or a channel  *)
(* that is not open, and monitoring only never where SSH is open, cameras  *)
(* aside.                                                                  *)
RecommendationIsSound ==
  fp # <<>> =>
    LET best == Recommendation(fp[1])
    IN  /\ best = "snmp" => fp[1].v3
        /\ best \in {"ssh", "agent"} => fp[1].ssh
        /\ best = "monitor" /\ fp[1].ssh => fp[1].rtsp /\ ~IsGear(fp[1])

(* "SNMPv2c / plaintext HTTP: never auto-selected" (device adoption model, *)
(* section 4).                                                             *)
PlaintextIsNotRecommended ==
  fp # <<>> /\ Recommendation(fp[1]) = "vendor_api" => fp[1].http # "plain"

(* "A job targeting a known device with a channel-mismatched action is     *)
(* rejected before the job file is written" (section 5).                   *)
JobsFitTheDevice == job.fits

(* "snmp is read-only polling, so it is not a control channel": what needs *)
(* a technician, no changing action may do.                                *)
TechnicianActs ==
  ActionChannel(dev) = "tech_action" =>
    ~\E a \in {"reboot_device", "apply_patch", "apply_updates"} :
        ValidateChannels(a, EffectiveChannels(dev))
=============================================================================
