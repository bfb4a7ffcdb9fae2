------------------------------ MODULE Firmware ------------------------------
(***************************************************************************)
(* The firmware engine of the API (firmware.py) and its queue of pending   *)
(* actions (routes/firmware.py): passes of the engine's thread and of POST *)
(* /tick, each of which either advances an upgrade in flight or starts the *)
(* next one inside a maintenance window, people who approve, defer,        *)
(* escalate and resolve, and devices that come back or do not.  A device   *)
(* has one newer release.                                                  *)
(***************************************************************************)
EXTENDS Integers, Sequences, FiniteSets

CONSTANTS
    Tickers,        \* sessions that run engine_tick: the thread, and POST /tick
    Risk,           \* Risk[d]: the place of a device in the risk order
    Gateways,       \* the devices that are gateways
    Profiles,       \* the autonomy profiles that passes find set
    MaxItems,       \* bound: pending actions
    MaxCrashes      \* bound: restarts of the API inside a pass

Devices == DOMAIN Risk

NoRow == [st |-> "none", begun |-> FALSE, due |-> FALSE, tried |-> FALSE]
Rows  == [st : {"none", "staging", "verifying", "rolling_back"},
          begun : BOOLEAN, due : BOOLEAN, tried : BOOLEAN]
Items == [kind : {"approval", "escalation"}, dev : Devices,
          status : {"pending", "deferred", "approved", "resolved"},
          by : {"nobody", "system", "person"}]
Away  == [pc |-> "away"]

VARIABLES
    fleet,      \* the devices: the release they run, and whether they inform
    inv,        \* DeviceFirmware: the release last seen
    cached,     \* DeviceFirmware: the newer release is staged
    row,        \* FirmwareUpgrade: the row in flight of each device
    line,       \* the devices in flight, the newest row first
    items,      \* PendingAction
    tick,       \* the passes under way
    failed,     \* history: devices with a failed upgrade that no person has reviewed
    crashes

gear  == <<fleet, inv, cached>>
vars  == <<gear, row, line, items, tick, failed, crashes>>

-----------------------------------------------------------------------------
Halted == \E i \in DOMAIN items : items[i].kind = "escalation" /\ items[i].status = "pending"

Item(kind, d, status, by) == [kind |-> kind, dev |-> d, status |-> status, by |-> by]

Approval(d, statuses) ==
    \E i \in DOMAIN items : /\ items[i].kind = "approval" /\ items[i].dev = d
                            /\ items[i].status \in statuses

\* _next_candidate, of an inventory v: by risk, among those that no approval blocks and that
\* are not in flight; a pending escalation halts the run.
Candidates(v) == {d \in Devices : /\ v[d] = "old"
                                  /\ ~Approval(d, {"pending", "deferred"})
                                  /\ row[d] = NoRow}

\* Mutant: an escalation stops only its own device.
IsNextOfOthers(d, v) ==
    /\ Item("escalation", d, "pending", "nobody") \notin {items[i] : i \in DOMAIN items}
    /\ d \in Candidates(v)
    /\ \A e \in Candidates(v) : Risk[d] <= Risk[e]

IsNext(d, v) == /\ ~Halted
                /\ d \in Candidates(v)
                /\ \A e \in Candidates(v) : Risk[d] <= Risk[e]

\* approval_decision
NeedsApproval(profile, d) == \/ profile = "strict"
                             \/ profile = "balanced" /\ d \in Gateways

-----------------------------------------------------------------------------
(* engine_tick                                                               *)

\* An upgrade in flight is read, the newest one first.
ReadInflight(t) ==
    /\ line # <<>>
    /\ tick' = [tick EXCEPT ![t] = [pc |-> "advance", dev |-> Head(line), row |-> row[Head(line)]]]

\* An upgrade in flight goes on whatever the autonomy and the hour.  Only to start one takes
\* both, as the pass finds them: the profile is read once, and a window is active or not.
Begin(t) ==
    /\ tick[t] = Away
    /\ \/ ReadInflight(t)
       \/ /\ line = <<>>
          /\ \E p \in Profiles \ {"off"} :
                tick' = [tick EXCEPT ![t] = [pc |-> "choose", profile |-> p]]
    /\ UNCHANGED <<gear, row, line, items, failed, crashes>>

\* _prestage_due, with autonomy on and a window to come: any of the devices.
Prestage(t) ==
    /\ tick[t] = Away /\ line = <<>>
    /\ \E d \in Devices : inv[d] = "old" /\ ~cached[d] /\ cached' = [cached EXCEPT ![d] = TRUE]
    /\ UNCHANGED <<fleet, inv, row, line, items, tick, failed, crashes>>

\* refresh_inventory: a device that the controller does not report keeps its row.
Seen == [d \in Devices |-> IF fleet[d].up THEN fleet[d].version ELSE inv[d]]

Refresh ==
    /\ inv' = Seen
    /\ UNCHANGED <<fleet, cached, row, line, items, tick, failed, crashes>>

\* The controller has answered with its inventory: one device is started, with its notice,
\* or its approval is asked for.
Choose(t) ==
    /\ tick[t].pc = "choose"
    /\ inv' = Seen
    /\ tick' = [tick EXCEPT ![t] = Away]
    /\ \/ \E d \in Devices :
            /\ IsNext(d, Seen)
            /\ Len(items) + 2 <= MaxItems
            /\ \/ /\ NeedsApproval(tick[t].profile, d) => Approval(d, {"approved"})
                  /\ items' = Append(items, Item("approval", d, "approved", "system"))
                  /\ row' = [row EXCEPT ![d] = [NoRow EXCEPT !.st = "staging"]]
                  /\ line' = <<d>> \o line
               \/ /\ NeedsApproval(tick[t].profile, d) /\ ~Approval(d, {"approved"})
                  /\ items' = Append(items, Item("approval", d, "pending", "nobody"))
                  /\ UNCHANGED <<row, line>>
       \/ /\ \A d \in Devices : ~IsNext(d, Seen)
          /\ UNCHANGED <<items, row, line>>
    /\ UNCHANGED <<fleet, cached, failed, crashes>>

\* What advance_inflight does with the row r of device d, in one transaction each.
Stays(t, d, r) ==
    /\ row' = [row EXCEPT ![d] = r]
    /\ line' = IF d \in {line[i] : i \in DOMAIN line} THEN line ELSE Append(line, d)
    /\ tick' = [tick EXCEPT ![t] = Away]
    /\ UNCHANGED <<inv, failed>>
Leaves(d) ==
    /\ row' = [row EXCEPT ![d] = NoRow]
    /\ \/ \E k \in DOMAIN line :
            line[k] = d /\ line' = SubSeq(line, 1, k - 1) \o SubSeq(line, k + 1, Len(line))
       \/ (\A k \in DOMAIN line : line[k] # d) /\ UNCHANGED line
Ends(t, d, version) ==
    /\ Leaves(d)
    /\ inv' = [inv EXCEPT ![d] = version]
    /\ cached' = [cached EXCEPT ![d] = FALSE]
    /\ tick' = [tick EXCEPT ![t] = Away]
    /\ UNCHANGED <<fleet, failed>>
Fails(t, d) ==
    /\ Leaves(d)
    /\ failed' = failed \cup {d}
    /\ tick' = [tick EXCEPT ![t] = [pc |-> "escalate", dev |-> d]]
    /\ UNCHANGED gear
Commanded(t, d, r) ==
    /\ fleet' = [fleet EXCEPT ![d].up = FALSE]
    /\ Stays(t, d, r)
    /\ UNCHANGED cached
Verified(d, version) == fleet[d] = [version |-> version, up |-> TRUE]

Staging(t, d, r) ==
    \/ /\ ~r.begun
       /\ Stays(t, d, [r EXCEPT !.begun = TRUE])
       /\ cached' = [cached EXCEPT ![d] = TRUE]
       /\ UNCHANGED fleet
    \/ /\ ~r.begun /\ ~cached[d]
       /\ Fails(t, d)
    \/ /\ r.begun /\ r.due
       /\ \/ Commanded(t, d, [r EXCEPT !.st = "verifying", !.due = FALSE])
          \/ Fails(t, d)

\* Mutant: a verification that times out waits for the next pass.
VerifyingForEver(t, d, r) == Verified(d, "new") /\ Ends(t, d, "new")

Verifying(t, d, r) ==
    \/ Verified(d, "new") /\ Ends(t, d, "new")
    \/ /\ ~Verified(d, "new") /\ r.due
       /\ \/ ~r.tried /\ Commanded(t, d, [r EXCEPT !.st = "rolling_back", !.due = FALSE,
                                                   !.tried = TRUE])
          \/ Fails(t, d)

RollingBack(t, d, r) ==
    \/ Verified(d, "old") /\ Ends(t, d, inv[d])
    \/ ~Verified(d, "old") /\ r.due /\ Fails(t, d)

\* Before the deadline, and when the device does not verify, the pass changes nothing.
Waits(t, d, r) ==
    /\ ~r.due
    /\ \/ r.st = "staging" /\ r.begun
       \/ r.st = "verifying" /\ ~Verified(d, "new")
       \/ r.st = "rolling_back" /\ ~Verified(d, "old")
    /\ tick' = [tick EXCEPT ![t] = Away]
    /\ UNCHANGED <<gear, row, line, failed>>

\* advance_inflight, on the row as the pass has read it.
Advance(t) ==
    /\ tick[t].pc = "advance"
    /\ LET d == tick[t].dev
           r == tick[t].row
       IN \/ r.st = "staging" /\ Staging(t, d, r)
          \/ r.st = "verifying" /\ Verifying(t, d, r)
          \/ r.st = "rolling_back" /\ RollingBack(t, d, r)
          \/ Waits(t, d, r)
    /\ UNCHANGED <<items, crashes>>

\* _escalate, a transaction of its own after the one that has ended the row; a pending
\* escalation of the device is used again.
Escalate(t) ==
    /\ tick[t].pc = "escalate"
    /\ LET d == tick[t].dev
           open == \E i \in DOMAIN items : /\ items[i].kind = "escalation" /\ items[i].dev = d
                                           /\ items[i].status = "pending"
       IN items' = IF open THEN items ELSE Append(items, Item("escalation", d, "pending", "nobody"))
    /\ tick' = [tick EXCEPT ![t] = Away]
    /\ UNCHANGED <<gear, row, line, failed, crashes>>

-----------------------------------------------------------------------------
(* routes/firmware.py                                                        *)

Acts(i, f) ==
    /\ items' = [items EXCEPT ![i] = f]
    /\ UNCHANGED <<gear, row, line, tick, crashes>>

Approve(i) ==
    /\ items[i].kind = "approval" /\ items[i].status \in {"pending", "deferred"}
    /\ Acts(i, [items[i] EXCEPT !.status = "approved", !.by = "person"])
    /\ UNCHANGED failed

\* An approval of any status can be deferred.
Defer(i) ==
    /\ items[i].kind = "approval"
    /\ Acts(i, [items[i] EXCEPT !.status = "deferred"])
    /\ UNCHANGED failed

EscalateItem(i) ==
    /\ Acts(i, [items[i] EXCEPT !.kind = "escalation", !.status = "pending", !.by = "nobody"])
    /\ UNCHANGED failed

\* An escalation that is resolved has been reviewed; an approval that is resolved is refused.
Resolve(i) ==
    /\ items[i].status # "resolved"
    /\ Acts(i, [items[i] EXCEPT !.status = "resolved", !.by = "person"])
    /\ failed' = IF items[i].kind = "escalation" THEN failed \ {items[i].dev} ELSE failed

-----------------------------------------------------------------------------
(* The devices, the clock, the API's restarts.                               *)

\* A device comes back, with either release.
Device(d) ==
    /\ ~fleet[d].up
    /\ \E v \in {"old", "new"} : fleet' = [fleet EXCEPT ![d] = [version |-> v, up |-> TRUE]]
    /\ UNCHANGED <<inv, cached, row, line, items, tick, failed, crashes>>

DeadlinePasses(d) ==
    /\ row[d] # NoRow /\ (row[d].st = "staging" => row[d].begun) /\ ~row[d].due
    /\ row' = [row EXCEPT ![d].due = TRUE]
    /\ UNCHANGED <<gear, line, items, tick, failed, crashes>>

Crash ==
    /\ crashes < MaxCrashes
    /\ crashes' = crashes + 1
    /\ tick' = [t \in Tickers |-> Away]
    /\ UNCHANGED <<gear, row, line, items, failed>>

Init ==
    /\ fleet = [d \in Devices |-> [version |-> "old", up |-> TRUE]]
    /\ inv = [d \in Devices |-> "old"] /\ cached = [d \in Devices |-> FALSE]
    /\ row = [d \in Devices |-> NoRow] /\ line = <<>> /\ items = <<>>
    /\ tick = [t \in Tickers |-> Away]
    /\ failed = {} /\ crashes = 0

Pass(t) == Begin(t) \/ Prestage(t) \/ Choose(t) \/ Advance(t) \/ Escalate(t)

People == \E i \in DOMAIN items : Approve(i) \/ Defer(i) \/ EscalateItem(i) \/ Resolve(i)

Next ==
    \/ \E t \in Tickers : Pass(t)
    \/ \E d \in Devices : Device(d) \/ DeadlinePasses(d)
    \/ People \/ Refresh \/ Crash

\* The thread runs for as long as the API does, and time passes.
Spec == /\ Init /\ [][Next]_vars
        /\ \A t \in Tickers : WF_vars(Pass(t))
        /\ \A d \in Devices : WF_vars(DeadlinePasses(d))

-----------------------------------------------------------------------------
(* Properties                                                                *)

TypeOK ==
    /\ fleet \in [Devices -> [version : {"old", "new"}, up : BOOLEAN]]
    /\ inv \in [Devices -> {"old", "new"}] /\ cached \in [Devices -> BOOLEAN]
    /\ row \in [Devices -> Rows] /\ line \in Seq(Devices) /\ items \in Seq(Items)
    /\ \A d \in Devices : row[d] # NoRow <=> \E i \in DOMAIN line : line[i] = d
    /\ failed \subseteq Devices /\ crashes \in 0..MaxCrashes

\* One device at a time: no two upgrades are in flight.
OneAtATime == Len(line) <= 1

Starts(d) == row[d] = NoRow /\ row'[d] # NoRow

\* Any failure halts the run: nothing is started while a failed upgrade has not been reviewed
\* by a person who resolved its escalation, unless the API was restarted after it recorded the
\* failure and before it escalated.
FailureHalts == [][\A d \in Devices : Starts(d) /\ crashes = 0 => failed = {}]_vars

\* Where the profile asks for an approval, an upgrade is started only on one that a person
\* has given and that still stands.
ApprovedByHuman == [][\A d \in Devices :
        (Starts(d) /\ \E t \in Tickers : tick[t].pc = "choose" /\ NeedsApproval(tick[t].profile, d))
            => Item("approval", d, "approved", "person") \in {items[i] : i \in DOMAIN items}]_vars

\* A half-finished upgrade finishes or rolls back, whatever the window and the autonomy become.
InFlightEnds == \A d \in Devices : row[d] # NoRow ~> row[d] = NoRow
=============================================================================
