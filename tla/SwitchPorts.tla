----------------------------- MODULE SwitchPorts -----------------------------
(***************************************************************************)
(* Changing a switch port through the UniFi controller: the blast-radius   *)
(* gate of port_blast_radius.py, the routes that ask it and the client     *)
(* calls that write the switch's port_overrides.                           *)
(*                                                                         *)
(* The controller replaces the whole array of overrides with the one a PUT *)
(* carries, and the client reads it before it writes it, so two requests   *)
(* may interleave between the gate, the read and the write.  A port        *)
(* without an override has the configuration of the port table.            *)
(***************************************************************************)
EXTENDS Naturals, FiniteSets

CONSTANTS Ports, Networks,
          Protected,      \* the networks of the appliance and of management
          Appliance,      \* ports the appliance is attached to
          Uplinks,        \* ports that are the uplink of a managed device
          Busy,           \* ports with other clients
          Table,          \* Ports -> the native and tagged networks of the table
          Requests,       \* the requests made, each once
          Kinds,          \* the kinds of request: vlans, disabled, name, bounce
          NativeGiven,    \* TRUE: every VLAN request names its native network
          Serial,         \* TRUE: no request starts before the last one ended
          MaxBlind        \* reads of the controller that fail while a gate asks

None == "none"

VARIABLES
  override,   \* the controller's port_overrides: Ports -> override
  req,        \* the requests in progress
  blind       \* reads that failed so far

vars == <<override, req, blind>>

(* custom: the override sets the VLANs itself, otherwise the table does.   *)
Override == [given : BOOLEAN, custom : BOOLEAN, native : Networks \union {None},
             tagged : SUBSET Networks, disabled : BOOLEAN]
NoOverride == [given |-> FALSE, custom |-> FALSE, native |-> None, tagged |-> {},
               disabled |-> FALSE]

NoRequest == [phase |-> "new", kind |-> None, port |-> None, native |-> None,
              tagged |-> {}, confirm |-> FALSE, read |-> {}]

InitialOverrides ==
  {NoOverride} \union {[NoOverride EXCEPT !.given = TRUE, !.custom = TRUE,
                                          !.native = n, !.tagged = Networks \ {n}] :
                         n \in Networks}

Init == /\ override \in [Ports -> InitialOverrides]
        /\ req = [r \in Requests |-> NoRequest]
        /\ blind = 0

-----------------------------------------------------------------------------
(* What a port really carries, and what the gate takes it to carry: an     *)
(* override wins over the table where it is not empty.                     *)

Carried(o, p) ==
  IF o.custom THEN ({o.native} \ {None}) \union o.tagged
  ELSE {Table[p].native} \union Table[p].tagged

EffectivePortTable(o, p) ==   \* mutant: the overrides are not looked at
  [native |-> Table[p].native, tagged |-> Table[p].tagged]

EffectivePort(o, p) ==
  [native |-> IF o.given /\ o.native # None THEN o.native ELSE Table[p].native,
   tagged |-> IF o.given /\ o.tagged # {} THEN o.tagged ELSE Table[p].tagged]

(* The gate of a VLAN change: it may remove no protected network from the  *)
(* port and change nothing where the appliance is attached.                *)
CheckPortChange(port, native, tagged, appliance) ==
  LET effNative == IF native = None THEN port.native ELSE native
      current == {port.native} \union port.tagged
      proposed == {effNative} \union tagged
  IN  \/ (current \ proposed) \intersect Protected # {}
      \/ appliance /\ (effNative # port.native \/ tagged # port.tagged)

(* The gate of a disable: the appliance, a device's uplink, or a protected *)
(* network with somebody or a trunk behind the port.                       *)
CheckPortDisable(port, appliance, downstream, clients) ==
  \/ appliance
  \/ downstream
  \/ /\ ({port.native} \union port.tagged) \intersect Protected # {}
     /\ clients \/ port.tagged # {}

Blocked(q, sees) ==
  LET p == q.port
      port == EffectivePort(IF sees THEN override[p] ELSE NoOverride, p)
  IN  CASE q.kind = "vlans" ->
             CheckPortChange(port, q.native, q.tagged, sees /\ p \in Appliance)
        [] q.kind = "disabled" ->
             CheckPortDisable(port, sees /\ p \in Appliance, sees /\ p \in Uplinks,
                              sees /\ p \in Busy)
        [] OTHER -> FALSE     \* rename and bounce ask no gate

-----------------------------------------------------------------------------
(* A request: the route asks the gate, the client reads the overrides, and *)
(* writes them back with the port's own one replaced.                      *)

Ask(r) ==
  \E kind \in Kinds, p \in Ports, t \in SUBSET Networks, confirm \in BOOLEAN,
     n \in Networks \union (IF NativeGiven THEN {} ELSE {None}), sees \in BOOLEAN :
    LET q == [req[r] EXCEPT !.kind = kind, !.port = p, !.confirm = confirm,
                !.native = IF kind = "vlans" THEN n ELSE None,
                !.tagged = IF kind = "vlans" THEN t ELSE {}]
    IN  /\ req[r].phase = "new"
        /\ Serial => \A x \in Requests : req[x].phase \notin {"allowed", "writing"}
        /\ ~sees => blind < MaxBlind
        /\ blind' = IF sees THEN blind ELSE blind + 1
        /\ req' = [req EXCEPT ![r] =
                     [q EXCEPT !.phase = IF Blocked(q, sees) /\ ~confirm
                                         THEN "refused" ELSE "allowed"]]
        /\ UNCHANGED override

ReadOverrides(r) ==
  /\ req[r].phase = "allowed"
  /\ req' = [req EXCEPT ![r].phase = "writing", ![r].read = {override}]
  /\ UNCHANGED <<override, blind>>

(* A VLAN change without a native network takes the port table's.          *)
VlanOverride(q) ==
  [given |-> TRUE, custom |-> TRUE, disabled |-> FALSE, tagged |-> q.tagged,
   native |-> IF q.native = None THEN Table[q.port].native ELSE q.native]

DisabledOverride(o, p) ==
  IF o.given THEN [o EXCEPT !.disabled = TRUE]
  ELSE [given |-> TRUE, custom |-> FALSE, disabled |-> TRUE,
        native |-> Table[p].native, tagged |-> Table[p].tagged]

Alone(p, o) == [x \in Ports |-> IF x = p THEN o ELSE NoOverride]

(* What the PUT carries.  A rename and a bounce send their port alone.     *)
Written(q, base) ==
  CASE q.kind = "vlans" -> [base EXCEPT ![q.port] = VlanOverride(q)]
    [] q.kind = "disabled" -> [base EXCEPT ![q.port] = DisabledOverride(@, q.port)]
    [] OTHER -> Alone(q.port, [NoOverride EXCEPT !.given = TRUE])

Put(r) ==
  /\ req[r].phase = "writing"
  /\ \E base \in req[r].read : override' = Written(req[r], base)
  /\ req' = [req EXCEPT ![r].phase = "done", ![r].read = {}]
  /\ UNCHANGED blind

PutFails(r) ==
  /\ req[r].phase = "writing"
  /\ req' = [req EXCEPT ![r].phase = "failed", ![r].read = {}]
  /\ UNCHANGED <<override, blind>>

Next == \E r \in Requests : Ask(r) \/ ReadOverrides(r) \/ Put(r) \/ PutFails(r)

Spec == Init /\ [][Next]_vars

-----------------------------------------------------------------------------
TypeOK == /\ override \in [Ports -> Override]
          /\ \A r \in Requests : req[r].phase \in
               {"new", "refused", "allowed", "writing", "done", "failed"}
          /\ blind \in 0 .. MaxBlind

Unconfirmed == \E r \in Requests : /\ req[r].phase = "writing" /\ req'[r].phase = "done"
                                   /\ ~req[r].confirm

(* port_blast_radius.py:12-17: without an administrator's confirmation no  *)
(* write takes a protected network off a port that carries it, of the port *)
(* asked for or of another.                                                *)
ProtectedIsKept ==
  [][Unconfirmed => \A p \in Ports :
       (Carried(override[p], p) \intersect Protected)
         \subseteq Carried(override'[p], p)]_vars

(* port_blast_radius.py:300-307: a port on which the appliance or a managed *)
(* device hangs is never disabled by a write nobody confirmed, whatever    *)
(* its overrides have become by then.                                      *)
NobodyIsCutOff ==
  [][Unconfirmed => \A p \in Appliance \union Uplinks :
       override'[p].disabled => override[p].disabled]_vars
=============================================================================
