--------------------------- MODULE MonitorsProofs ---------------------------
(***************************************************************************)
(* What is proved of the monitors: of the link monitor and the internet    *)
(* probe in the alert engine's thread, and of the Starlink monitor.        *)
(*                                                                         *)
(* A link's episode and its tickets are one row, which every transition    *)
(* takes from one row of RowInv to another: the episode's ticket has the   *)
(* priority of its reason, every other ticket is nobody's, and a ticket    *)
(* that nobody has is there to open.  The same lemmas say of each          *)
(* transition which step of an incident it is, so that the refinement of   *)
(* Incident needs nothing of its own.                                      *)
(***************************************************************************)
EXTENDS MCMonitors, WellFoundedInduction, SequenceTheorems, TLAPS

-----------------------------------------------------------------------------
(* The rows of the link monitor: a link's episode with its tickets.        *)

\* A set of numbers that is not empty has a smallest one.
LEMMA SmallestNumber ==
    ASSUME NEW S \in SUBSET Nat, S # {}
    PROVE  \E k \in S : \A j \in S : k <= j
<1> DEFINE R == {p \in Nat \X Nat : p[1] < p[2]}
<1>1. IsWellFoundedOn(R, Nat)
  BY NatLessThanWellFounded, Zenon DEF OpToRel
<1>2. \A p \in Nat, q \in Nat : <<p, q>> \in R <=> p < q
  OBVIOUS
<1> HIDE DEF R
<1>3. PICK x \in S : \A y \in S : ~ (<<y, x>> \in R)
  BY <1>1, WFMin, Zenon
<1>4. ASSUME NEW y \in S PROVE ~(y < x)
  BY <1>2, <1>3, Zenon
<1> QED
  BY <1>4

\* Bounds are numbers.
LEMMA Bounds ==
    /\ FlapWindow \in Nat \ {0} /\ PersistDown \in Nat \ {0} /\ StableClose \in Nat \ {0}
    /\ EscalateCount \in Nat \ {0, 1} /\ MaxTickets \in Nat \ {0, 1}
    /\ Confirm \in Nat \ {0} /\ MaxFaults \in Nat
  BY LinkMonitorAssumption, InternetMonitorAssumption

\* Flaps are as many as count, the newest first.
FlapTypes(s) ==
    /\ s \in Seq(0..FlapWindow) /\ Len(s) <= EscalateCount
    /\ \A i, j \in 1..Len(s) : i <= j => s[i] <= s[j]

Reasons == {"none", "recurrence", "outage", "wan_probe"}

EpisodeTypes(ep) ==
    /\ ep = [state |-> ep.state, down |-> ep.down, quiet |-> ep.quiet, flaps |-> ep.flaps,
             reason |-> ep.reason, ticket |-> ep.ticket]
    /\ ep.state \in {"flapping", "outage"} /\ ep.down \in Clock(PersistDown)
    /\ ep.quiet \in 0..StableClose /\ FlapTypes(ep.flaps)
    /\ ep.reason \in Reasons /\ ep.ticket \in TicketIds

\* The episode's ticket has the priority of its reason, and no other ticket is anybody's.
TicketsFollow(ep, tk) ==
    \A t \in TicketIds :
        /\ ep.ticket = t => tk[t].priority = (IF ep.reason = "none" THEN "P2" ELSE "P1")
        /\ ep.ticket # t => tk[t] \in {Closed, Left}

RowInv(row) ==
    /\ row = [ep |-> row.ep, tk |-> row.tk]
    /\ row.tk \in [TicketIds -> TicketRows]
    /\ row.ep = NoEpisode \/ EpisodeTypes(row.ep)
    /\ TicketsFollow(row.ep, row.tk)

\* What an incident may do in one step.
LevelOf(ep) == IF ep = NoEpisode THEN "none" ELSE IF ep.reason = "none" THEN "P2" ELSE "P1"

IncidentStep(e, f) ==
    \/ LevelOf(e) = "none" /\ LevelOf(f) = "P2" /\ f.ticket \in TicketIds
    \/ LevelOf(e) = "P2" /\ LevelOf(f) = "P1" /\ f.ticket = e.ticket
    \/ LevelOf(e) # "none" /\ LevelOf(f) = "none" /\ f.ticket = NoTicket
    \/ LevelOf(f) = LevelOf(e) /\ f.ticket = e.ticket

\* A step of a row by the link monitor, which never makes an episode the probe's.
RowStep(r, s) == /\ RowInv(s) /\ IncidentStep(r.ep, s.ep)
                 /\ s.ep.reason = "wan_probe" => r.ep.reason = "wan_probe"

\* The fields of no episode.
LEMMA NoEpisodeParts ==
    /\ NoEpisode.reason = "none" /\ NoEpisode.ticket = 0 /\ NoEpisode.state = "none"
    /\ NoEpisode.down = -1 /\ NoEpisode.quiet = -1 /\ NoEpisode.flaps = <<>>
    /\ NoEpisode = [state |-> "none", down |-> -1, quiet |-> -1, flaps |-> <<>>,
                    reason |-> "none", ticket |-> 0]
    /\ \A ep : EpisodeTypes(ep) => ep # NoEpisode
<1>1. NoEpisode = [state |-> "none", down |-> -1, quiet |-> -1, flaps |-> <<>>,
                   reason |-> "none", ticket |-> 0]
  BY DEF NoEpisode, Unset, NoTicket
<1>2. \A ep : EpisodeTypes(ep) => ep.state # "none"
  BY DEF EpisodeTypes
<1>3. NoEpisode.state = "none"
  BY <1>1
<1>4. \A ep : EpisodeTypes(ep) => ep # NoEpisode
  BY <1>2, <1>3
<1> QED
  BY <1>1, <1>4

LEMMA RowStays == ASSUME NEW row, RowInv(row) PROVE RowStep(row, row)
  BY DEF RowStep, IncidentStep

\* There is a ticket that no episode has.
LEMMA FreshIsFree ==
    ASSUME NEW row, RowInv(row)
    PROVE  /\ Fresh(row) \in TicketIds /\ Fresh(row) # row.ep.ticket
           /\ row.tk[Fresh(row)] \in {Closed, Left}
<1>1. 1 \in TicketIds /\ 2 \in TicketIds
  BY Bounds DEF TicketIds
<1>2. \E t \in TicketIds : t # row.ep.ticket /\ row.tk[t] \in {Closed, Left}
  BY <1>1 DEF RowInv, TicketsFollow
<1> QED
  BY <1>2 DEF Fresh

\* A row of an episode and of tickets, of which the episode's was written.
LEMMA RowOf ==
    ASSUME NEW row, RowInv(row), NEW ep, EpisodeTypes(ep), NEW x \in TicketRows,
           x.priority = (IF ep.reason = "none" THEN "P2" ELSE "P1"),
           row.ep = NoEpisode \/ row.ep.ticket = ep.ticket
    PROVE  RowInv([ep |-> ep, tk |-> [row.tk EXCEPT ![ep.ticket] = x]])
<1> DEFINE tk == [row.tk EXCEPT ![ep.ticket] = x]
           s  == [ep |-> ep, tk |-> tk]
<1>1. row.tk \in [TicketIds -> TicketRows] /\ ep.ticket \in TicketIds
  BY DEF RowInv, EpisodeTypes
<1>2. /\ tk \in [TicketIds -> TicketRows] /\ tk[ep.ticket] = x
      /\ \A t \in TicketIds : t # ep.ticket => tk[t] = row.tk[t]
  BY <1>1
<1>3. \A t \in TicketIds : t # ep.ticket => row.tk[t] \in {Closed, Left}
  BY NoEpisodeParts DEF RowInv, TicketsFollow, TicketIds
<1>4. TicketsFollow(ep, tk)
  BY <1>2, <1>3 DEF TicketsFollow
<1>5. s = [ep |-> s.ep, tk |-> s.tk] /\ s.ep = ep /\ s.tk = tk
  OBVIOUS
<1> HIDE DEF s, tk
<1>6. RowInv(s)
  BY <1>2, <1>4, <1>5 DEF RowInv
<1> QED
  BY <1>6 DEF s, tk

\* A row whose episode goes on as it was: level, ticket and owner are the same.
LEMMA RowGoesOn ==
    ASSUME NEW row, RowInv(row), row.ep # NoEpisode,
           NEW ep, EpisodeTypes(ep), ep.reason = row.ep.reason, ep.ticket = row.ep.ticket
    PROVE  RowStep(row, [ep |-> ep, tk |-> row.tk])
<1> DEFINE s == [ep |-> ep, tk |-> row.tk]
<1>1. s = [ep |-> s.ep, tk |-> s.tk] /\ s.ep = ep /\ s.tk = row.tk
  OBVIOUS
<1> HIDE DEF s
<1>2. TicketsFollow(ep, row.tk)
  BY DEF RowInv, TicketsFollow
<1>3. RowInv(s)
  BY <1>1, <1>2 DEF RowInv
<1>4. IncidentStep(row.ep, ep)
  BY NoEpisodeParts DEF IncidentStep, LevelOf
<1>5. RowStep(row, s)
  BY <1>1, <1>3, <1>4 DEF RowStep
<1> QED
  BY <1>5 DEF s

-----------------------------------------------------------------------------
(* The transitions of a row.                                                *)

\* _open_episode
LEMMA OpenedKeeps ==
    ASSUME NEW row, RowInv(row), row.ep = NoEpisode, NEW s \in {"up", "down"}
    PROVE  RowStep(row, Opened(row, s))
<1> DEFINE t  == Fresh(row)
           dn == IF s = "down" THEN 0 ELSE Unset
           fl == IF s = "up" THEN <<0>> ELSE <<>>
           ep == [NoEpisode EXCEPT !.state = "flapping", !.quiet = 0, !.ticket = t,
                                   !.down = dn, !.flaps = fl]
           x  == [status |-> "open", priority |-> "P2"]
<1>1. t \in TicketIds
  BY FreshIsFree
<1>3. Opened(row, s) = [ep |-> ep, tk |-> [row.tk EXCEPT ![t] = x]]
  BY DEF Opened
<1>4. x \in TicketRows /\ x.priority = "P2"
  BY DEF TicketRows
<1>5. FlapTypes(<<>>) /\ FlapTypes(<<0>>)
  BY Bounds DEF FlapTypes
<1>6. 0 \in Clock(PersistDown) /\ Unset \in Clock(PersistDown) /\ 0 \in 0..StableClose
  BY Bounds DEF Clock
<1>12. dn \in Clock(PersistDown) /\ FlapTypes(fl)
  BY <1>5, <1>6
<1> HIDE DEF t, x, dn, fl
<1>13. ep = [NoEpisode EXCEPT !.state = "flapping", !.quiet = 0, !.ticket = t,
                              !.down = dn, !.flaps = fl]
  OBVIOUS
<1> HIDE DEF ep
<1>2. ep = [state |-> "flapping", down |-> dn, quiet |-> 0, flaps |-> fl,
            reason |-> "none", ticket |-> t]
  BY <1>13, NoEpisodeParts
<1>7. /\ ep = [state |-> ep.state, down |-> ep.down, quiet |-> ep.quiet, flaps |-> ep.flaps,
               reason |-> ep.reason, ticket |-> ep.ticket]
      /\ ep.state = "flapping" /\ ep.reason = "none" /\ ep.ticket = t /\ ep.quiet = 0
      /\ ep.down \in Clock(PersistDown) /\ FlapTypes(ep.flaps)
  BY <1>2, <1>12
<1>8. EpisodeTypes(ep)
  BY <1>1, <1>6, <1>7 DEF EpisodeTypes, Reasons
<1>9. RowInv([ep |-> ep, tk |-> [row.tk EXCEPT ![t] = x]])
  BY <1>4, <1>7, <1>8, RowOf
<1>10. IncidentStep(row.ep, ep)
  BY <1>1, <1>7, <1>8, NoEpisodeParts DEF IncidentStep, LevelOf
<1>11. Opened(row, s).ep = ep
  BY <1>3
<1> QED
  BY <1>3, <1>7, <1>9, <1>10, <1>11 DEF RowStep

\* A change of the priority only.
LEMMA PriorityRaised ==
    ASSUME NEW x \in TicketRows
    PROVE  /\ [x EXCEPT !.priority = "P1"] \in TicketRows
           /\ [x EXCEPT !.priority = "P1"].priority = "P1"
  BY DEF TicketRows

\* An escalation, for whatever reason, with a state that the episode may have.
LEMMA RaisedRow ==
    ASSUME NEW row, RowInv(row), row.ep # NoEpisode, NEW ep, EpisodeTypes(ep),
           ep.ticket = row.ep.ticket, ep.reason # "none",
           NEW tk, tk = [row.tk EXCEPT ![row.ep.ticket].priority = "P1"]
    PROVE  RowInv([ep |-> ep, tk |-> tk]) /\ IncidentStep(row.ep, ep)
<1> DEFINE x == [row.tk[ep.ticket] EXCEPT !.priority = "P1"]
<1>1. row.tk \in [TicketIds -> TicketRows] /\ ep.ticket \in TicketIds
  BY DEF RowInv, EpisodeTypes
<1>2. x \in TicketRows /\ x.priority = "P1"
  BY <1>1, PriorityRaised
<1>3. tk = [row.tk EXCEPT ![ep.ticket] = x]
  BY <1>1
<1> HIDE DEF x
<1>4. RowInv([ep |-> ep, tk |-> tk])
  BY <1>2, <1>3, RowOf
<1>5. IncidentStep(row.ep, ep)
  BY NoEpisodeParts DEF IncidentStep, LevelOf
<1> QED
  BY <1>4, <1>5

\* What _escalate_recurrence and _escalate_outage make of a row.
LEMMA RaisedKeeps ==
    ASSUME NEW row, RowInv(row), row.ep # NoEpisode
    PROVE  /\ RowStep(row, EscalatedRecurrence(row))
           /\ RowStep(row, EscalatedOutage(row))
<1>1. EpisodeTypes(row.ep)
  BY DEF RowInv
<1>2. row.ep = [state |-> row.ep.state, down |-> row.ep.down, quiet |-> row.ep.quiet,
                flaps |-> row.ep.flaps, reason |-> row.ep.reason, ticket |-> row.ep.ticket]
  BY <1>1 DEF EpisodeTypes
<1> DEFINE a == [row.ep EXCEPT !.reason = "recurrence"]
           c == [row.ep EXCEPT !.reason = "outage"]
           b == [c EXCEPT !.state = "outage"]
           tk == [row.tk EXCEPT ![row.ep.ticket].priority = "P1"]
<1>3. a = [state |-> row.ep.state, down |-> row.ep.down, quiet |-> row.ep.quiet,
           flaps |-> row.ep.flaps, reason |-> "recurrence", ticket |-> row.ep.ticket]
  BY <1>2
<1>11. c = [state |-> row.ep.state, down |-> row.ep.down, quiet |-> row.ep.quiet,
            flaps |-> row.ep.flaps, reason |-> "outage", ticket |-> row.ep.ticket]
  BY <1>2
<1>4. b = [state |-> "outage", down |-> row.ep.down, quiet |-> row.ep.quiet,
           flaps |-> row.ep.flaps, reason |-> "outage", ticket |-> row.ep.ticket]
  <2> HIDE DEF c
  <2> QED
    BY <1>11
<1>5. EscalatedRecurrence(row) = [ep |-> a, tk |-> tk]
  BY DEF EscalatedRecurrence, Raised
<1>6. EscalatedOutage(row) = [ep |-> b, tk |-> tk]
  BY DEF EscalatedOutage, Raised
<1>7. tk = [row.tk EXCEPT ![row.ep.ticket].priority = "P1"]
  OBVIOUS
<1> HIDE DEF a, b, c, tk
<1>8. /\ EpisodeTypes(a) /\ a.ticket = row.ep.ticket /\ a.reason = "recurrence"
      /\ EpisodeTypes(b) /\ b.ticket = row.ep.ticket /\ b.reason = "outage"
  BY <1>1, <1>3, <1>4 DEF EpisodeTypes, Reasons
<1>9. /\ RowInv([ep |-> a, tk |-> tk]) /\ IncidentStep(row.ep, a)
      /\ RowInv([ep |-> b, tk |-> tk]) /\ IncidentStep(row.ep, b)
  BY <1>7, <1>8, RaisedRow
<1>10. EscalatedRecurrence(row).ep = a /\ EscalatedOutage(row).ep = b
  BY <1>5, <1>6
<1> QED
  BY <1>5, <1>6, <1>8, <1>9, <1>10 DEF RowStep

\* _close_episode and _close_unwatched.
LEMMA ClosedKeeps ==
    ASSUME NEW row, RowInv(row), row.ep # NoEpisode
    PROVE  RowStep(row, ClosedStable(row)) /\ RowStep(row, ClosedUnwatched(row))
<1>1. EpisodeTypes(row.ep) /\ row.tk \in [TicketIds -> TicketRows]
  BY DEF RowInv
<1>2. Closed \in TicketRows /\ Left \in TicketRows /\ row.ep.ticket \in TicketIds
  BY <1>1 DEF Closed, Left, TicketRows, EpisodeTypes
<1>3. ASSUME NEW x \in {Closed, Left}
      PROVE  RowStep(row, [ep |-> NoEpisode, tk |-> [row.tk EXCEPT ![row.ep.ticket] = x]])
  <2> DEFINE tk == [row.tk EXCEPT ![row.ep.ticket] = x]
             s  == [ep |-> NoEpisode, tk |-> tk]
  <2>1. /\ tk \in [TicketIds -> TicketRows] /\ tk[row.ep.ticket] = x
        /\ \A t \in TicketIds : t # row.ep.ticket => tk[t] = row.tk[t]
    BY <1>1, <1>2
  <2>2. \A t \in TicketIds : tk[t] \in {Closed, Left}
    BY <2>1 DEF RowInv, TicketsFollow
  <2>3. 0 \notin TicketIds
    BY Bounds DEF TicketIds
  <2>4. TicketsFollow(NoEpisode, tk)
    BY <2>2, <2>3, NoEpisodeParts DEF TicketsFollow
  <2>5. s = [ep |-> s.ep, tk |-> s.tk] /\ s.ep = NoEpisode /\ s.tk = tk
    OBVIOUS
  <2> HIDE DEF s, tk
  <2>6. RowInv(s)
    BY <2>1, <2>4, <2>5 DEF RowInv
  <2>7. IncidentStep(row.ep, NoEpisode)
    BY NoEpisodeParts DEF IncidentStep, LevelOf, NoTicket
  <2>8. RowStep(row, s)
    BY <2>5, <2>6, <2>7, NoEpisodeParts DEF RowStep
  <2> QED
    BY <2>8 DEF s, tk
<1>4. ClosedStable(row) = [ep |-> NoEpisode, tk |-> [row.tk EXCEPT ![row.ep.ticket] = Closed]]
  BY DEF ClosedStable
<1>5. \E x \in {Closed, Left} :
        ClosedUnwatched(row) = [ep |-> NoEpisode, tk |-> [row.tk EXCEPT ![row.ep.ticket] = x]]
  BY DEF ClosedUnwatched
<1> QED
  BY <1>3, <1>4, <1>5

\* One more flap, of those that count.
LEMMA MoreFlaps ==
    ASSUME NEW s, FlapTypes(s)
    PROVE  LET f == <<0>> \o s
           IN  FlapTypes(SubSeq(f, 1, IF Len(f) < EscalateCount THEN Len(f) ELSE EscalateCount))
<1> DEFINE f == <<0>> \o s
           n == IF Len(f) < EscalateCount THEN Len(f) ELSE EscalateCount
           g == SubSeq(f, 1, n)
<1>1. s \in Seq(0..FlapWindow) /\ Len(s) \in Nat /\ \A i, j \in 1..Len(s) : i <= j => s[i] <= s[j]
  BY DEF FlapTypes
<1>2. <<0>> \in Seq(0..FlapWindow) /\ Len(<<0>>) = 1 /\ <<0>>[1] = 0
  BY Bounds
<1>3. /\ f \in Seq(0..FlapWindow) /\ Len(f) = 1 + Len(s)
      /\ f[1] = 0 /\ \A i \in 1..Len(s) : f[i + 1] = s[i]
  <2>1. /\ f \in Seq(0..FlapWindow) /\ Len(f) = Len(<<0>>) + Len(s)
        /\ \A i \in 1..(Len(<<0>>) + Len(s)) :
             f[i] = IF i <= Len(<<0>>) THEN <<0>>[i] ELSE s[i - Len(<<0>>)]
    BY <1>1, <1>2, ConcatProperties
  <2>2. Len(f) = 1 + Len(s) /\ f[1] = 0
    BY <1>1, <1>2, <2>1
  <2>3. ASSUME NEW i \in 1..Len(s) PROVE f[i + 1] = s[i]
    <3>1. i + 1 \in 1..(Len(<<0>>) + Len(s)) /\ ~(i + 1 <= Len(<<0>>)) /\ i + 1 - Len(<<0>>) = i
      BY <1>1, <1>2
    <3> HIDE DEF f
    <3> QED
      BY <2>1, <3>1
  <2> QED
    BY <2>1, <2>2, <2>3
<1> HIDE DEF f
<1>4. n \in Nat /\ n <= Len(f) /\ n <= EscalateCount
  BY <1>1, <1>3, Bounds
<1>5. /\ g \in Seq(0..FlapWindow) /\ Len(g) = n /\ \A i \in 1..n : g[i] = f[i]
  <2>1. \A i \in 1..n : f[i] \in 0..FlapWindow
    <3>1. \A i \in 1..Len(f) : f[i] \in 0..FlapWindow
      BY <1>3, ElementOfSeq
    <3>2. 1..n \subseteq 1..Len(f)
      BY <1>1, <1>3, <1>4
    <3> HIDE DEF n
    <3> QED
      BY <3>1, <3>2
  <2> HIDE DEF n
  <2>2. /\ g \in Seq(0..FlapWindow) /\ Len(g) = IF 1 <= n THEN n - 1 + 1 ELSE 0
        /\ \A i \in 1..(n - 1 + 1) : g[i] = f[1 + i - 1]
    BY <1>4, <2>1, SubSeqProperties
  <2>3. n - 1 + 1 = n /\ \A i \in 1..n : 1 + i - 1 = i
    BY <1>4
  <2> HIDE DEF g
  <2>4. Len(g) = n
    BY <1>4, <2>2
  <2> QED
    BY <2>2, <2>3, <2>4
<1> HIDE DEF g, n
<1>6. ASSUME NEW i \in 1..n, NEW j \in 1..n, i <= j PROVE g[i] <= g[j]
  <2>1. g[i] = f[i] /\ g[j] = f[j] /\ g[j] \in 0..FlapWindow
    BY <1>5, ElementOfSeq
  <2>2. CASE i = 1
    BY <1>3, <2>1, <2>2
  <2>3. CASE i # 1
    <3>1. i - 1 \in 1..Len(s) /\ j - 1 \in 1..Len(s) /\ i - 1 <= j - 1
      BY <1>1, <1>3, <1>4, <1>6, <2>3
    <3>2. f[i] = s[i - 1] /\ f[j] = s[j - 1]
      <4>1. f[(i - 1) + 1] = s[i - 1] /\ f[(j - 1) + 1] = s[j - 1]
        BY <1>3, <3>1
      <4>2. (i - 1) + 1 = i /\ (j - 1) + 1 = j
        BY <1>4
      <4> QED
        BY <4>1, <4>2
    <3> QED
      BY <1>1, <2>1, <3>1, <3>2
  <2> QED
    BY <2>2, <2>3
<1>7. FlapTypes(g)
  BY <1>4, <1>5, <1>6 DEF FlapTypes
<1> QED
  BY <1>7 DEF g, n, f

\* A link that came up again.
LEMMA FlappedKeeps ==
    ASSUME NEW ep, EpisodeTypes(ep)
    PROVE  /\ EpisodeTypes(Flapped(ep))
           /\ Flapped(ep).reason = ep.reason /\ Flapped(ep).ticket = ep.ticket
<1> DEFINE g == LET f == <<0>> \o ep.flaps
                IN  SubSeq(f, 1, IF Len(f) < EscalateCount THEN Len(f) ELSE EscalateCount)
           e == Flapped(ep)
<1>1. FlapTypes(g)
  BY MoreFlaps DEF EpisodeTypes
<1>2. e = [ep EXCEPT !.state = "flapping", !.down = Unset, !.quiet = 0, !.flaps = g]
  BY Zenon DEF Flapped
<1>3. ep = [state |-> ep.state, down |-> ep.down, quiet |-> ep.quiet, flaps |-> ep.flaps,
            reason |-> ep.reason, ticket |-> ep.ticket]
  BY DEF EpisodeTypes
<1> HIDE DEF g, e
<1>4. e = [state |-> "flapping", down |-> Unset, quiet |-> 0, flaps |-> g,
           reason |-> ep.reason, ticket |-> ep.ticket]
  BY <1>2, <1>3
<1>5. 0 \in 0..StableClose /\ Unset \in Clock(PersistDown)
  BY Bounds DEF Clock
<1>6. EpisodeTypes(e) /\ e.reason = ep.reason /\ e.ticket = ep.ticket
  BY <1>1, <1>4, <1>5 DEF EpisodeTypes
<1> QED
  BY <1>6 DEF e

\* _advance while the link is down.
LEMMA DownKeeps ==
    ASSUME NEW row, RowInv(row), row.ep # NoEpisode PROVE RowStep(row, AdvancedDown(row))
<1>1. EpisodeTypes(row.ep) /\ row = [ep |-> row.ep, tk |-> row.tk]
  BY DEF RowInv
<1>2. CASE row.ep.down = Unset
  <2> DEFINE e == [[[row.ep EXCEPT !.down = 0] EXCEPT !.quiet = 0] EXCEPT !.state = "flapping"]
  <2>1. row.ep = [state |-> row.ep.state, down |-> row.ep.down, quiet |-> row.ep.quiet,
                  flaps |-> row.ep.flaps, reason |-> row.ep.reason, ticket |-> row.ep.ticket]
    BY <1>1 DEF EpisodeTypes
  <2>2. AdvancedDown(row) = [row EXCEPT !.ep.down = 0, !.ep.quiet = 0, !.ep.state = "flapping"]
    BY <1>2 DEF AdvancedDown
  <2>3. AdvancedDown(row) = [ep |-> e, tk |-> row.tk]
    BY <1>1, <2>2
  <2>4. e = [row.ep EXCEPT !.down = 0, !.quiet = 0, !.state = "flapping"]
    OBVIOUS
  <2> HIDE DEF e
  <2>5. e = [state |-> "flapping", down |-> 0, quiet |-> 0,
             flaps |-> row.ep.flaps, reason |-> row.ep.reason, ticket |-> row.ep.ticket]
    BY <2>1, <2>4
  <2>6. 0 \in Clock(PersistDown) /\ 0 \in 0..StableClose
    BY Bounds DEF Clock
  <2>7. EpisodeTypes(e) /\ e.reason = row.ep.reason /\ e.ticket = row.ep.ticket
    BY <1>1, <2>5, <2>6 DEF EpisodeTypes
  <2> QED
    BY <2>3, <2>7, RowGoesOn
<1>3. CASE row.ep.down # Unset /\ row.ep.state # "outage" /\ row.ep.down >= PersistDown
  BY <1>3, RaisedKeeps DEF AdvancedDown
<1>4. CASE row.ep.down # Unset /\ ~(row.ep.state # "outage" /\ row.ep.down >= PersistDown)
  BY <1>4, RowStays DEF AdvancedDown
<1> QED
  BY <1>2, <1>3, <1>4

\* _advance while it is up.
LEMMA UpKeeps ==
    ASSUME NEW row, RowInv(row), row.ep # NoEpisode PROVE RowStep(row, AdvancedUp(row))
<1>1. EpisodeTypes(row.ep) /\ row = [ep |-> row.ep, tk |-> row.tk]
  BY DEF RowInv
<1> DEFINE f == [row EXCEPT !.ep = Flapped(row.ep)]
<1>2. f = [ep |-> Flapped(row.ep), tk |-> row.tk]
  BY <1>1
<1> HIDE DEF f
<1>3. /\ EpisodeTypes(Flapped(row.ep)) /\ Flapped(row.ep).reason = row.ep.reason
      /\ Flapped(row.ep).ticket = row.ep.ticket
  BY <1>1, FlappedKeeps
<1>4. RowStep(row, f)
  BY <1>2, <1>3, RowGoesOn
<1>5. /\ RowInv(f) /\ f.ep # NoEpisode /\ f.ep.reason = row.ep.reason
      /\ f.ep.ticket = row.ep.ticket
  BY <1>2, <1>3, <1>4, NoEpisodeParts DEF RowStep
<1>6. RowStep(row, EscalatedRecurrence(f))
  <2>1. RowStep(f, EscalatedRecurrence(f))
    BY <1>5, RaisedKeeps
  <2>2. LevelOf(f.ep) = LevelOf(row.ep)
    BY <1>5 DEF LevelOf
  <2> QED
    BY <1>5, <2>1, <2>2 DEF RowStep, IncidentStep
<1>7. CASE row.ep.down # Unset
  <2>1. AdvancedUp(row) \in {f, EscalatedRecurrence(f)}
    BY <1>7 DEF AdvancedUp, f
  <2> QED
    BY <1>4, <1>6, <2>1
<1>8. CASE row.ep.down = Unset /\ row.ep.quiet >= StableClose
  BY <1>8, ClosedKeeps DEF AdvancedUp
<1>9. CASE row.ep.down = Unset /\ ~(row.ep.quiet >= StableClose)
  BY <1>9, RowStays DEF AdvancedUp
<1> QED
  BY <1>7, <1>8, <1>9

\* One link in one cycle of check.
LEMMA ProcessedKeeps ==
    ASSUME NEW k \in Links, RowInv(Row(k)) PROVE RowStep(Row(k), Processed(k))
<1> DEFINE s == Collected(k)
           r == Row(k)
<1>1. ASSUME s \in {"up", "down"} PROVE RowStep(r, Advanced(r, seen[k], s))
  <2>1. CASE r.ep.reason = "wan_probe"
    BY <2>1, RowStays, NoEpisodeParts DEF Advanced
  <2>2. CASE r.ep = NoEpisode
    <3>1. Advanced(r, seen[k], s) \in {r, Opened(r, s)}
      BY <2>2, NoEpisodeParts DEF Advanced
    <3> QED
      BY <1>1, <2>2, <3>1, RowStays, OpenedKeeps
  <2>3. CASE r.ep # NoEpisode /\ r.ep.reason # "wan_probe"
    <3>1. Advanced(r, seen[k], s) \in {AdvancedDown(r), AdvancedUp(r)}
      BY <2>3 DEF Advanced
    <3> QED
      BY <2>3, <3>1, DownKeeps, UpKeeps
  <2> QED
    BY <2>1, <2>2, <2>3
<1> DEFINE row == IF s \in {"up", "down"} THEN Advanced(r, seen[k], s) ELSE r
<1>2. Processed(k) = IF k \notin watched /\ row.ep # NoEpisode THEN ClosedUnwatched(row) ELSE row
  BY Zenon DEF Processed
<1>3. CASE k \notin watched
  <2>1. s = "none"
    BY <1>3 DEF Collected
  <2>2. row = r
    BY <2>1
  <2> QED
    BY <1>2, <1>3, <2>2, RowStays, ClosedKeeps
<1>4. CASE k \in watched
  <2>1. RowStep(r, row)
    BY <1>1, RowStays
  <2> QED
    BY <1>2, <1>4, <2>1
<1> QED
  BY <1>3, <1>4

-----------------------------------------------------------------------------
(* Time, and what others do to the tickets.                                 *)

LEMMA OlderTypes ==
    ASSUME NEW max \in Nat, NEW age \in Clock(max)
    PROVE  /\ Older(age, max) \in Clock(max)
           /\ age \in 0..max => Older(age, max) \in 0..max
           /\ Older(Unset, max) = Unset
  BY DEF Older, Clock, Unset

LEMMA FlapParts ==
    ASSUME NEW s, FlapTypes(s)
    PROVE  /\ DOMAIN s = 1..Len(s) /\ Len(s) \in Nat /\ Len(s) <= EscalateCount
           /\ \A i \in 1..Len(s) : s[i] \in 0..FlapWindow
           /\ \A i, j \in 1..Len(s) : i <= j => s[i] <= s[j]
<1>1. s \in Seq(0..FlapWindow) /\ Len(s) <= EscalateCount
      /\ \A i, j \in 1..Len(s) : i <= j => s[i] <= s[j]
  BY DEF FlapTypes
<1>2. \A i \in 1..Len(s) : s[i] \in 0..FlapWindow
  BY <1>1, ElementOfSeq
<1> QED
  BY <1>1, <1>2

\* The flaps that can still count are the first ones.
LEMMA YoungIsPrefix ==
    ASSUME NEW ep, FlapTypes(ep.flaps)
    PROVE  \E n \in 0..Len(ep.flaps) : Young(ep) = 1..n
<1> DEFINE s == ep.flaps
           O == {i \in 1..Len(s) : ~(s[i] < FlapWindow)}
<1>1. /\ DOMAIN s = 1..Len(s) /\ Len(s) \in Nat /\ \A i \in 1..Len(s) : s[i] \in 0..FlapWindow
      /\ \A i, j \in 1..Len(s) : i <= j => s[i] <= s[j]
  BY FlapParts
<1>2. Young(ep) = {i \in 1..Len(s) : s[i] < FlapWindow}
  BY <1>1 DEF Young
<1> HIDE DEF s
<1>3. CASE O = {}
  <2>1. Young(ep) = 1..Len(s)
    BY <1>2, <1>3
  <2> QED
    BY <1>1, <2>1 DEF s
<1>4. CASE O # {}
  <2>1. PICK m \in O : \A i \in O : m <= i
    <3>1. O \in SUBSET Nat
      BY <1>1
    <3> QED
      BY <1>4, <3>1, SmallestNumber
  <2>2. m \in 1..Len(s) /\ ~(s[m] < FlapWindow)
    OBVIOUS
  <2>3. ASSUME NEW i \in 1..Len(s) PROVE s[i] < FlapWindow <=> i < m
    <3>1. CASE i < m
      <4>1. i \notin O
        BY <1>1, <2>1, <2>2, <3>1
      <4> QED
        BY <3>1, <4>1
    <3>2. CASE ~(i < m)
      <4>1. m <= i
        BY <1>1, <2>2, <3>2
      <4>2. s[m] <= s[i] /\ s[m] \in 0..FlapWindow /\ s[i] \in 0..FlapWindow
        BY <1>1, <2>2, <4>1
      <4> QED
        BY <2>2, <3>2, <4>2, Bounds
    <3> QED
      BY <3>1, <3>2
  <2>4. Young(ep) = 1..(m - 1)
    BY <1>1, <1>2, <2>2, <2>3
  <2>5. m - 1 \in 0..Len(s)
    BY <1>1, <2>2
  <2> QED
    BY <2>4, <2>5 DEF s
<1> QED
  BY <1>3, <1>4

\* A tick of time leaves the episode its reason and its ticket.
LEMMA AgedKeeps ==
    ASSUME NEW ep, ep = NoEpisode \/ EpisodeTypes(ep)
    PROVE  /\ Aged(ep) = NoEpisode <=> ep = NoEpisode
           /\ ep # NoEpisode => EpisodeTypes(Aged(ep))
           /\ Aged(ep).reason = ep.reason /\ Aged(ep).ticket = ep.ticket
<1> DEFINE g == [i \in Young(ep) |-> ep.flaps[i] + 1]
           d == Older(ep.down, PersistDown)
           q == Older(ep.quiet, StableClose)
           e == Aged(ep)
<1>1. ep = [state |-> ep.state, down |-> ep.down, quiet |-> ep.quiet, flaps |-> ep.flaps,
            reason |-> ep.reason, ticket |-> ep.ticket]
  BY NoEpisodeParts DEF EpisodeTypes
<1>2. e = [ep EXCEPT !.down = d, !.quiet = q, !.flaps = g]
  BY Zenon DEF Aged
<1> HIDE DEF g, d, q, e
<1>3. e = [state |-> ep.state, down |-> d, quiet |-> q, flaps |-> g,
           reason |-> ep.reason, ticket |-> ep.ticket]
  BY <1>1, <1>2
<1>4. CASE ep = NoEpisode
  <2>1. ep.down = Unset /\ ep.quiet = Unset /\ ep.flaps = <<>>
    BY <1>4, NoEpisodeParts DEF Unset
  <2>2. d = Unset /\ q = Unset
    BY <2>1 DEF d, q, Older
  <2>3. g = <<>>
    <3>1. Young(ep) = {}
      BY <2>1 DEF Young
    <3> QED
      BY <3>1 DEF g
  <2>4. e = NoEpisode
    BY <1>3, <1>4, <2>2, <2>3, NoEpisodeParts DEF Unset
  <2> QED
    BY <1>4, <2>4 DEF e
<1>5. CASE ep # NoEpisode
  <2>1. EpisodeTypes(ep)
    BY <1>5
  <2>2. d \in Clock(PersistDown) /\ q \in 0..StableClose
    <3>1. ep.down \in Clock(PersistDown) /\ ep.quiet \in 0..StableClose
          /\ ep.quiet \in Clock(StableClose)
      BY <2>1 DEF EpisodeTypes, Clock
    <3> QED
      BY <3>1, OlderTypes, Bounds DEF d, q
  <2>3. PICK n \in 0..Len(ep.flaps) : Young(ep) = 1..n
    BY <2>1, YoungIsPrefix DEF EpisodeTypes
  <2>4. /\ Len(ep.flaps) \in Nat /\ Len(ep.flaps) <= EscalateCount
        /\ \A i \in 1..Len(ep.flaps) : ep.flaps[i] \in 0..FlapWindow
        /\ \A i, j \in 1..Len(ep.flaps) : i <= j => ep.flaps[i] <= ep.flaps[j]
        /\ DOMAIN ep.flaps = 1..Len(ep.flaps)
    BY <2>1, FlapParts DEF EpisodeTypes
  <2>5. \A i \in 1..n : i \in 1..Len(ep.flaps) /\ ep.flaps[i] < FlapWindow
    BY <2>3, <2>4 DEF Young
  <2>6. g = [i \in 1..n |-> ep.flaps[i] + 1]
    BY <2>3 DEF g
  <2>7. n \in Nat /\ \A i \in 1..n : ep.flaps[i] + 1 \in 0..FlapWindow
    <3>1. n \in Nat
      BY <2>4
    <3>2. ASSUME NEW i \in 1..n PROVE ep.flaps[i] + 1 \in 0..FlapWindow
      <4>1. ep.flaps[i] \in 0..FlapWindow /\ ep.flaps[i] < FlapWindow
        BY <2>4, <2>5
      <4> QED
        BY <4>1, Bounds
    <3> QED
      BY <3>1, <3>2
  <2>8. g \in Seq(0..FlapWindow) /\ Len(g) = n /\ \A i \in 1..n : g[i] = ep.flaps[i] + 1
    BY <2>6, <2>7
  <2>9. \A i, j \in 1..n : i <= j => g[i] <= g[j]
    BY <2>4, <2>5, <2>8
  <2>10. FlapTypes(g)
    BY <2>4, <2>7, <2>8, <2>9, Bounds DEF FlapTypes
  <2>11. EpisodeTypes(e) /\ e.reason = ep.reason /\ e.ticket = ep.ticket
    BY <1>3, <2>1, <2>2, <2>10 DEF EpisodeTypes
  <2> QED
    BY <1>5, <2>11, NoEpisodeParts DEF e
<1> QED
  BY <1>4, <1>5

LEMMA AgedRow ==
    ASSUME NEW row, RowInv(row) PROVE RowStep(row, [ep |-> Aged(row.ep), tk |-> row.tk])
<1>1. row.ep = NoEpisode \/ EpisodeTypes(row.ep)
  BY DEF RowInv
<1>2. CASE row.ep = NoEpisode
  <2>1. Aged(row.ep) = row.ep /\ row = [ep |-> row.ep, tk |-> row.tk]
    BY <1>1, <1>2, AgedKeeps DEF RowInv
  <2> QED
    BY <2>1, RowStays
<1>3. CASE row.ep # NoEpisode
  <2>1. /\ EpisodeTypes(Aged(row.ep)) /\ Aged(row.ep).reason = row.ep.reason
        /\ Aged(row.ep).ticket = row.ep.ticket
    BY <1>1, <1>3, AgedKeeps
  <2> QED
    BY <1>3, <2>1, RowGoesOn
<1> QED
  BY <1>2, <1>3

\* Somebody moves the ticket of an episode; no other ticket is open.
LEMMA MovedRow ==
    ASSUME NEW row, RowInv(row), NEW t \in TicketIds, NEW s \in {"open", "handed_over", "closed"},
           row.tk[t].status \in {"open", "handed_over"}
    PROVE  RowStep(row, [ep |-> row.ep, tk |-> [row.tk EXCEPT ![t].status = s]])
<1> DEFINE x == [row.tk[t] EXCEPT !.status = s]
<1>1. row.tk \in [TicketIds -> TicketRows] /\ row.tk[t] \in TicketRows
  BY DEF RowInv
<1>2. x \in TicketRows /\ x.priority = row.tk[t].priority
  BY <1>1 DEF TicketRows
<1>3. row.tk[t] \notin {Closed, Left}
  BY DEF Closed, Left
<1>4. row.ep.ticket = t /\ x.priority = (IF row.ep.reason = "none" THEN "P2" ELSE "P1")
  BY <1>2, <1>3 DEF RowInv, TicketsFollow
<1>5. row.ep # NoEpisode /\ EpisodeTypes(row.ep)
  BY <1>4, NoEpisodeParts, Bounds DEF RowInv, TicketIds
<1>6. [row.tk EXCEPT ![t].status = s] = [row.tk EXCEPT ![row.ep.ticket] = x]
  BY <1>1, <1>4
<1> HIDE DEF x
<1>7. RowInv([ep |-> row.ep, tk |-> [row.tk EXCEPT ![row.ep.ticket] = x]])
  BY <1>2, <1>4, <1>5, RowOf
<1> QED
  BY <1>6, <1>7 DEF RowStep, IncidentStep

-----------------------------------------------------------------------------
(* The steps of the thread and of those around it.                          *)

RowsInv ==
    /\ episode = [k \in Links |-> episode[k]] /\ tickets = [k \in Links |-> tickets[k]]
    /\ \A k \in Links : RowInv(Row(k))

\* What a step may do with the rows.
RowsStep == /\ RowsInv' /\ \A k \in Links : IncidentStep(episode[k], episode'[k])

LinksTypes ==
    /\ report = [k \in Links |-> report[k]]
    /\ \A k \in Links : report[k] \in Says(k) \cup {"absent"}
    /\ watched \in SUBSET Links
    /\ seen \in [Links -> {"none", "up", "down"}]

ProbeTypes ==
    /\ state \in States \cup {"none"}
    /\ counted \in Seq(States) /\ Len(counted) <= Confirm - 1
    /\ outage \in SUBSET OutageStatus
    /\ turn \in {"probe", "links"}
    /\ faults \in 0..MaxFaults

LinksInv == RowsInv /\ LinksTypes /\ ProbeTypes /\ OnlineReleasesWan

\* The kinds of link do not overlap, and the WAN is one of them.
LEMMA Kinds == /\ Wan \in Links /\ UniFi \subseteq Links /\ Snmp \subseteq Links
  BY LinkMonitorAssumption

\* Every link's row takes a step of its own, or stays.
LEMMA EachRow ==
    ASSUME RowsInv, NEW e, NEW t,
           episode' = [k \in Links |-> e[k]], tickets' = [k \in Links |-> t[k]],
           \A k \in Links : RowStep(Row(k), [ep |-> e[k], tk |-> t[k]])
    PROVE  /\ RowsStep
           /\ \A k \in Links : episode'[k].reason = "wan_probe" => episode[k].reason = "wan_probe"
<1>1. \A k \in Links : episode'[k] = e[k] /\ tickets'[k] = t[k]
  OBVIOUS
<1>2. ASSUME NEW k \in Links
      PROVE  /\ RowInv([ep |-> e[k], tk |-> t[k]]) /\ IncidentStep(episode[k], e[k])
             /\ e[k].reason = "wan_probe" => episode[k].reason = "wan_probe"
  BY DEF RowStep, Row
<1>3. \A k \in Links : Row(k)' = [ep |-> e[k], tk |-> t[k]]
  BY <1>1 DEF Row
<1>4. RowsInv'
  BY <1>1, <1>2, <1>3 DEF RowsInv
<1> QED
  BY <1>1, <1>2, <1>4 DEF RowsStep

LEMMA RowsStay ==
    ASSUME RowsInv, episode' = episode, tickets' = tickets
    PROVE  RowsStep
  BY DEF RowsInv, RowsStep, Row, IncidentStep

\* One link's row takes a step.
LEMMA OneRow ==
    ASSUME RowsInv, NEW k \in Links, NEW e, NEW t, RowInv([ep |-> e, tk |-> t]),
           IncidentStep(episode[k], e),
           episode' = [episode EXCEPT ![k] = e], tickets' = [tickets EXCEPT ![k] = t]
    PROVE  RowsStep
<1>1. /\ episode = [j \in Links |-> episode[j]] /\ tickets = [j \in Links |-> tickets[j]]
      /\ \A j \in Links : RowInv(Row(j))
  BY DEF RowsInv
<1>2. /\ episode' = [j \in Links |-> IF j = k THEN e ELSE episode[j]]
      /\ tickets' = [j \in Links |-> IF j = k THEN t ELSE tickets[j]]
  BY <1>1
<1>3. /\ episode'[k] = e /\ tickets'[k] = t
      /\ \A j \in Links : j # k => episode'[j] = episode[j] /\ tickets'[j] = tickets[j]
  BY <1>2
<1>4. /\ Row(k)' = [ep |-> e, tk |-> t]
      /\ \A j \in Links : j # k => Row(j)' = Row(j)
  BY <1>3 DEF Row
<1>5. RowsInv'
  BY <1>1, <1>2, <1>4 DEF RowsInv
<1>6. \A j \in Links : IncidentStep(episode[j], episode'[j])
  BY <1>3 DEF IncidentStep
<1> QED
  BY <1>5, <1>6 DEF RowsStep

\* What a link would say is something it can say.
LEMMA CollectedTypes ==
    ASSUME LinksTypes, NEW k \in Links PROVE Collected(k) \in {"none", "up", "down"}
<1>1. report[k] \in {"up", "down", "missing", "silent", "unavailable", "absent"}
  BY DEF LinksTypes, Says, UniFiSays, SnmpSays, StatusSays
<1>2. seen[k] \in {"none", "up", "down"}
  BY DEF LinksTypes
<1> QED
  BY <1>1, <1>2 DEF Collected

\* check, whether its transaction is committed or not.
LEMMA CheckKeeps ==
    ASSUME LinksInv, NEW c \in BOOLEAN, Check(c)
    PROVE  /\ RowsStep /\ LinksTypes'
           /\ \A k \in Links : episode'[k].reason = "wan_probe" => episode[k].reason = "wan_probe"
<1>1. RowsInv /\ LinksTypes
  BY DEF LinksInv
<1>2. seen' = [k \in Links |-> Collected(k)] /\ report' = report /\ watched' = watched
  BY DEF Check
<1>3. LinksTypes'
  BY <1>1, <1>2, CollectedTypes DEF LinksTypes
<1>4. CASE c
  <2> DEFINE e == [k \in Links |-> Processed(k).ep]
             t == [k \in Links |-> Processed(k).tk]
  <2>1. episode' = [k \in Links |-> e[k]] /\ tickets' = [k \in Links |-> t[k]]
    BY <1>4 DEF Check
  <2>2. ASSUME NEW k \in Links PROVE RowStep(Row(k), [ep |-> e[k], tk |-> t[k]])
    <3>1. RowStep(Row(k), Processed(k))
      BY <1>1, ProcessedKeeps DEF RowsInv
    <3>2. Processed(k) = [ep |-> e[k], tk |-> t[k]]
      BY <3>1 DEF RowStep, RowInv
    <3> QED
      BY <3>1, <3>2
  <2> HIDE DEF e, t
  <2>3. /\ RowsStep
        /\ \A k \in Links : episode'[k].reason = "wan_probe" => episode[k].reason = "wan_probe"
    BY <1>1, <2>1, <2>2, EachRow
  <2> QED
    BY <1>3, <2>3
<1>5. CASE ~c
  <2>1. episode' = episode /\ tickets' = tickets
    BY <1>5 DEF Check
  <2> QED
    BY <1>1, <1>3, <2>1, RowsStay
<1> QED
  BY <1>4, <1>5

LEMMA LinkCheckKeeps ==
    ASSUME LinksInv, NEW c \in BOOLEAN, c \/ faults < MaxFaults, LinkCheck(c)
    PROVE  RowsStep /\ LinksInv'
<1>1. /\ RowsStep /\ LinksTypes'
      /\ \A k \in Links : episode'[k].reason = "wan_probe" => episode[k].reason = "wan_probe"
  BY CheckKeeps DEF LinkCheck
<1>2. /\ state' = state /\ counted' = counted /\ outage' = outage /\ turn' = "probe"
      /\ faults' = IF c THEN faults ELSE faults + 1
  BY DEF LinkCheck, Fault
<1>3. ProbeTypes /\ OnlineReleasesWan /\ faults \in Nat
  BY Bounds DEF LinksInv, ProbeTypes
<1>4. ProbeTypes'
  BY <1>2, <1>3, Bounds DEF ProbeTypes
<1>5. OnlineReleasesWan'
  BY <1>1, <1>2, <1>3, Kinds DEF OnlineReleasesWan
<1> QED
  BY <1>1, <1>4, <1>5 DEF LinksInv, RowsStep

-----------------------------------------------------------------------------
(* The internet probe.                                                       *)

\* The probe raises the WAN's episode and makes it its own.
LEMMA PromoteKeeps ==
    ASSUME RowsInv, episode[Wan] # NoEpisode, PromoteWan PROVE RowsStep
<1> DEFINE ep == episode[Wan]
           a  == [ep EXCEPT !.reason = "wan_probe"]
           b  == [a EXCEPT !.state = "outage"]
           tk == [tickets[Wan] EXCEPT ![ep.ticket].priority = "P1"]
<1>1. RowInv(Row(Wan)) /\ Row(Wan).ep = ep /\ Row(Wan).tk = tickets[Wan]
  BY Kinds DEF RowsInv, Row
<1>2. EpisodeTypes(ep) /\ Wan \in Links
  BY <1>1, Kinds DEF RowInv
<1>3. ep = [state |-> ep.state, down |-> ep.down, quiet |-> ep.quiet, flaps |-> ep.flaps,
            reason |-> ep.reason, ticket |-> ep.ticket]
  BY <1>2 DEF EpisodeTypes
<1>4. /\ episode = [k \in Links |-> episode[k]] /\ tickets = [k \in Links |-> tickets[k]]
  BY DEF RowsInv
<1>5. episode' = [episode EXCEPT ![Wan].reason = "wan_probe", ![Wan].state = "outage"]
  BY DEF PromoteWan
<1>6. episode' = [episode EXCEPT ![Wan] = b]
  BY <1>2, <1>4, <1>5
<1>7. tickets' = [tickets EXCEPT ![Wan] = tk]
  BY <1>2, <1>4 DEF PromoteWan
<1>8. tk = [tickets[Wan] EXCEPT ![ep.ticket].priority = "P1"]
  OBVIOUS
<1> HIDE DEF ep, tk
<1>9. a = [ep EXCEPT !.reason = "wan_probe"] /\ b = [a EXCEPT !.state = "outage"]
  OBVIOUS
<1> HIDE DEF a, b
<1>10. a = [state |-> ep.state, down |-> ep.down, quiet |-> ep.quiet, flaps |-> ep.flaps,
            reason |-> "wan_probe", ticket |-> ep.ticket]
  BY <1>3, <1>9
<1>11. b = [state |-> "outage", down |-> ep.down, quiet |-> ep.quiet, flaps |-> ep.flaps,
            reason |-> "wan_probe", ticket |-> ep.ticket]
  BY <1>9, <1>10
<1>12. EpisodeTypes(b) /\ b.ticket = ep.ticket /\ b.reason = "wan_probe"
  BY <1>2, <1>11 DEF EpisodeTypes, Reasons
<1>13. RowInv([ep |-> b, tk |-> tk]) /\ IncidentStep(ep, b)
  <2>1. Row(Wan).ep # NoEpisode
    BY <1>1 DEF ep
  <2>2. /\ b.ticket = Row(Wan).ep.ticket
        /\ tk = [Row(Wan).tk EXCEPT ![Row(Wan).ep.ticket].priority = "P1"]
    BY <1>1, <1>8, <1>12
  <2>3. RowInv([ep |-> b, tk |-> tk]) /\ IncidentStep(Row(Wan).ep, b)
    BY <1>1, <1>12, <2>1, <2>2, RaisedRow
  <2> QED
    BY <1>1, <2>3
<1> QED
  BY <1>2, <1>6, <1>7, <1>13, OneRow DEF ep

\* It ends an episode that is its own.
LEMMA RecoveredKeeps ==
    ASSUME RowsInv, Recovered PROVE RowsStep /\ episode'[Wan].reason # "wan_probe"
<1>1. RowInv(Row(Wan)) /\ Row(Wan).ep = episode[Wan] /\ Wan \in Links
  BY Kinds DEF RowsInv, Row
<1>2. CASE episode[Wan].reason = "wan_probe"
  <2> DEFINE s == ClosedUnwatched(Row(Wan))
  <2>1. episode[Wan] # NoEpisode
    BY <1>2, NoEpisodeParts
  <2>2. RowStep(Row(Wan), s) /\ s.ep = NoEpisode
    <3>1. s.ep = NoEpisode
      BY DEF ClosedUnwatched
    <3> QED
      BY <1>1, <2>1, <3>1, ClosedKeeps
  <2>3. RowInv([ep |-> NoEpisode, tk |-> s.tk]) /\ IncidentStep(episode[Wan], NoEpisode)
    BY <1>1, <2>2 DEF RowStep, RowInv
  <2>4. /\ episode' = [episode EXCEPT ![Wan] = NoEpisode]
        /\ tickets' = [tickets EXCEPT ![Wan] = s.tk]
    BY <1>2 DEF Recovered
  <2> HIDE DEF s
  <2>5. RowsStep
    BY <1>1, <2>3, <2>4, OneRow
  <2>6. episode'[Wan] = NoEpisode
    BY <1>1, <2>4 DEF RowsInv
  <2> QED
    BY <2>5, <2>6, NoEpisodeParts
<1>3. CASE episode[Wan].reason # "wan_probe"
  <2>1. episode' = episode /\ tickets' = tickets
    BY <1>3 DEF Recovered
  <2> QED
    BY <1>3, <2>1, RowsStay
<1> QED
  BY <1>2, <1>3

LEMMA ProbeKeeps ==
    ASSUME LinksInv, NEW net \in States, NEW c \in BOOLEAN, c \/ faults < MaxFaults,
           Probe(net, c)
    PROVE  RowsStep /\ LinksInv'
<1>1. RowsInv /\ LinksTypes /\ ProbeTypes /\ OnlineReleasesWan
  BY DEF LinksInv
<1>2. /\ report' = report /\ watched' = watched /\ seen' = seen
      /\ turn' \in {"probe", "links"}
      /\ faults' = IF c THEN faults ELSE faults + 1
  BY DEF Probe, Fault
<1>3. LinksTypes'
  BY <1>1, <1>2 DEF LinksTypes, Says, UniFiSays
<1>4. faults' \in 0..MaxFaults
  BY <1>1, <1>2, Bounds DEF ProbeTypes
<1>5. CASE /\ UNCHANGED <<state, outage, episode, tickets>>
           /\ \/ counted' = <<>>
              \/ counted' = Append(counted, net) /\ Len(counted) + 1 < Confirm
  <2>1. RowsStep
    BY <1>1, <1>5, RowsStay
  <2>2. counted' \in Seq(States) /\ Len(counted') <= Confirm - 1
    <3>1. counted \in Seq(States) /\ Len(counted) \in Nat
      BY <1>1 DEF ProbeTypes
    <3>2. CASE counted' = <<>>
      BY <3>2, Bounds
    <3>3. CASE counted' = Append(counted, net) /\ Len(counted) + 1 < Confirm
      <4>1. counted' \in Seq(States) /\ Len(counted') = Len(counted) + 1
        BY <3>1, <3>3
      <4> QED
        BY <3>1, <3>3, <4>1, Bounds
    <3> QED
      BY <1>5, <3>2, <3>3
  <2>3. ProbeTypes'
    BY <1>1, <1>2, <1>4, <1>5, <2>2 DEF ProbeTypes
  <2>4. OnlineReleasesWan'
    BY <1>1, <1>2, <1>5, Bounds DEF OnlineReleasesWan, ProbeTypes
  <2> QED
    BY <1>3, <2>1, <2>3, <2>4 DEF LinksInv, RowsStep
<1>6. CASE counted' = <<>> /\ state' = net /\ Handle(net, c)
  <2>1. ASSUME outage' \subseteq OutageStatus PROVE ProbeTypes'
    BY <1>1, <1>2, <1>4, <1>6, <2>1, Bounds DEF ProbeTypes
  <2>2. outage \subseteq OutageStatus
    BY <1>1 DEF ProbeTypes
  <2>3. CASE ~c
    <3>1. outage' = outage /\ episode' = episode /\ tickets' = tickets
      BY <1>6, <2>3 DEF Handle
    <3>2. RowsStep
      BY <1>1, <3>1, RowsStay
    <3>3. faults' # 0
      BY <1>1, <1>2, <2>3, Bounds DEF ProbeTypes
    <3> QED
      BY <1>3, <2>1, <2>2, <3>1, <3>2, <3>3 DEF LinksInv, RowsStep, OnlineReleasesWan
  <2>4. CASE c /\ net = "online"
    <3>1. Recovered
      BY <1>6, <2>4 DEF Handle
    <3>2. RowsStep /\ episode'[Wan].reason # "wan_probe"
      BY <1>1, <3>1, RecoveredKeeps
    <3>3. outage' \subseteq OutageStatus
      BY <2>2, <3>1 DEF Recovered
    <3> QED
      BY <1>3, <2>1, <3>2, <3>3 DEF LinksInv, RowsStep, OnlineReleasesWan
  <2>5. CASE c /\ net # "online"
    <3>1. Outage
      BY <1>6, <2>5 DEF Handle
    <3>2. outage' \subseteq OutageStatus
      BY <2>2, <3>1 DEF Outage, OutageStatus
    <3>3. RowsStep
      <4>1. CASE Promotable /\ PromoteWan
        BY <1>1, <4>1, PromoteKeeps DEF Promotable
      <4>2. CASE episode' = episode /\ tickets' = tickets
        BY <1>1, <4>2, RowsStay
      <4> QED
        BY <3>1, <4>1, <4>2 DEF Outage
    <3>4. state' # "online"
      BY <1>6, <2>5
    <3> QED
      BY <1>3, <2>1, <3>2, <3>3, <3>4 DEF LinksInv, RowsStep, OnlineReleasesWan
  <2> QED
    BY <2>3, <2>4, <2>5
<1>7. \/ counted' = <<>> /\ UNCHANGED <<state, outage, episode, tickets>>
      \/ /\ Len(counted) + 1 < Confirm /\ counted' = Append(counted, net)
         /\ UNCHANGED <<state, outage, episode, tickets>>
      \/ counted' = <<>> /\ state' = net /\ Handle(net, c)
  BY DEF Probe
<1> QED
  BY <1>5, <1>6, <1>7

-----------------------------------------------------------------------------
(* Time, the world around the thread, and the whole of a step.               *)

LEMMA ElapseKeeps ==
    ASSUME LinksInv, Elapse PROVE RowsStep /\ LinksInv'
<1>1. RowsInv /\ LinksTypes /\ ProbeTypes /\ OnlineReleasesWan
  BY DEF LinksInv
<1>2. /\ UNCHANGED <<report, watched, seen, state, counted, outage, turn, faults>>
      /\ tickets' = tickets
  BY DEF Elapse, LinkElapse, probeVars
<1> DEFINE e == [k \in Links |-> Aged(episode[k])]
           t == [k \in Links |-> tickets[k]]
<1>3. episode' = [k \in Links |-> e[k]] /\ tickets' = [k \in Links |-> t[k]]
  BY <1>1, <1>2 DEF Elapse, LinkElapse, RowsInv
<1>4. ASSUME NEW k \in Links PROVE RowStep(Row(k), [ep |-> e[k], tk |-> t[k]])
  <2>1. RowInv(Row(k)) /\ Row(k).ep = episode[k] /\ Row(k).tk = tickets[k]
    BY <1>1 DEF RowsInv, Row
  <2>2. e[k] = Aged(Row(k).ep) /\ t[k] = Row(k).tk
    BY <2>1
  <2> HIDE DEF e, t
  <2> QED
    BY <2>1, <2>2, AgedRow
<1> HIDE DEF e, t
<1>5. /\ RowsStep
      /\ \A k \in Links : episode'[k].reason = "wan_probe" => episode[k].reason = "wan_probe"
  BY <1>1, <1>3, <1>4, EachRow
<1>6. LinksTypes' /\ ProbeTypes'
  BY <1>1, <1>2 DEF LinksTypes, ProbeTypes, Says, UniFiSays
<1>7. OnlineReleasesWan'
  BY <1>1, <1>2, <1>5, Kinds DEF OnlineReleasesWan
<1> QED
  BY <1>5, <1>6, <1>7 DEF LinksInv, RowsStep

\* A ticket that is moved is its episode's.
LEMMA MoveKeeps ==
    ASSUME RowsInv, NEW k \in Links, NEW t \in TicketIds,
           NEW s \in {"open", "handed_over", "closed"}, MoveTicket(k, t, s)
    PROVE  RowsStep /\ episode' = episode
<1>1. /\ tickets' = [tickets EXCEPT ![k][t].status = s] /\ episode' = episode
      /\ tickets[k][t].status \in {"open", "handed_over"}
  BY DEF MoveTicket
<1>2. /\ RowInv(Row(k)) /\ Row(k).ep = episode[k] /\ Row(k).tk = tickets[k]
      /\ episode = [j \in Links |-> episode[j]] /\ tickets = [j \in Links |-> tickets[j]]
  BY DEF RowsInv, Row
<1> DEFINE tk == [tickets[k] EXCEPT ![t].status = s]
<1>3. RowStep(Row(k), [ep |-> episode[k], tk |-> tk])
  BY <1>1, <1>2, MovedRow
<1>4. episode' = [episode EXCEPT ![k] = episode[k]] /\ tickets' = [tickets EXCEPT ![k] = tk]
  BY <1>1, <1>2
<1> HIDE DEF tk
<1>5. RowInv([ep |-> episode[k], tk |-> tk]) /\ IncidentStep(episode[k], episode[k])
  BY <1>2, <1>3 DEF RowStep
<1> QED
  BY <1>1, <1>2, <1>4, <1>5, OneRow

LEMMA EnvironmentKeeps ==
    ASSUME LinksInv, Environment PROVE RowsStep /\ LinksInv'
<1>1. RowsInv /\ LinksTypes /\ ProbeTypes /\ OnlineReleasesWan
  BY DEF LinksInv
<1>2. ASSUME NEW from \in OutageStatus, NEW to \in {{}, {"open"}, {"handed_over"}},
             MoveOutage(from, to)
      PROVE  RowsStep /\ LinksInv'
  <2>1. /\ UNCHANGED <<report, watched, seen, episode, tickets, state, counted, turn, faults>>
        /\ outage' = (outage \ {from}) \cup to
    BY <1>2 DEF MoveOutage, linkVars
  <2>2. RowsStep
    BY <1>1, <2>1, RowsStay
  <2>3. LinksTypes' /\ ProbeTypes'
    BY <1>1, <1>2, <2>1 DEF LinksTypes, ProbeTypes, Says, UniFiSays, OutageStatus
  <2>4. OnlineReleasesWan'
    BY <1>1, <2>1 DEF OnlineReleasesWan
  <2> QED
    BY <2>2, <2>3, <2>4 DEF LinksInv, RowsStep
<1>3. ASSUME UNCHANGED probeVars, RowsStep, LinksTypes', episode' = episode
      PROVE  RowsStep /\ LinksInv'
  <2>1. ProbeTypes' /\ OnlineReleasesWan'
    BY <1>1, <1>3 DEF probeVars, ProbeTypes, OnlineReleasesWan
  <2> QED
    BY <1>3, <2>1 DEF LinksInv, RowsStep
<1>4. ASSUME NEW k \in Links, Toggle(k), UNCHANGED probeVars PROVE RowsStep /\ LinksInv'
  <2>1. RowsStep
    BY <1>1, <1>4, RowsStay DEF Toggle
  <2>2. LinksTypes' /\ episode' = episode
    BY <1>1, <1>4 DEF Toggle, LinksTypes, Says, UniFiSays
  <2> QED
    BY <1>3, <1>4, <2>1, <2>2
<1>5. ASSUME NEW k \in Links, NEW r \in Says(k), LinkReports(k, r), UNCHANGED probeVars
      PROVE  RowsStep /\ LinksInv'
  <2>1. RowsStep
    BY <1>1, <1>5, RowsStay DEF LinkReports
  <2>2. /\ report' = [report EXCEPT ![k] = r] /\ watched' = watched /\ seen' = seen
        /\ episode' = episode
    BY <1>5 DEF LinkReports
  <2>3. LinksTypes'
    BY <1>1, <2>2 DEF LinksTypes, Says, UniFiSays
  <2> QED
    BY <1>3, <1>5, <2>1, <2>2, <2>3
<1>6. ASSUME NEW k \in Links, NEW t \in TicketIds, NEW s \in {"open", "handed_over", "closed"},
             MoveTicket(k, t, s), UNCHANGED probeVars
      PROVE  RowsStep /\ LinksInv'
  <2>1. RowsStep /\ episode' = episode
    BY <1>1, <1>6, MoveKeeps
  <2>2. LinksTypes'
    BY <1>1, <1>6 DEF MoveTicket, LinksTypes, Says, UniFiSays
  <2> QED
    BY <1>3, <1>6, <2>1, <2>2
<1> QED
  BY <1>2, <1>4, <1>5, <1>6, Zenon DEF Environment

LEMMA RestartKeeps ==
    ASSUME LinksInv, Restart PROVE RowsStep /\ LinksInv'
<1>1. RowsInv /\ LinksTypes /\ ProbeTypes
  BY DEF LinksInv
<1>2. /\ faults < MaxFaults /\ faults' = faults + 1 /\ state' = "none" /\ counted' = <<>>
      /\ turn' = "probe" /\ UNCHANGED <<report, watched, episode, tickets, outage>>
      /\ seen' = [k \in Links |-> "none"]
  BY DEF Restart, LinkRestart
<1>3. RowsStep
  BY <1>1, <1>2, RowsStay
<1>4. LinksTypes' /\ ProbeTypes' /\ OnlineReleasesWan'
  BY <1>1, <1>2, Bounds DEF LinksTypes, ProbeTypes, Says, UniFiSays, OnlineReleasesWan
<1> QED
  BY <1>3, <1>4 DEF LinksInv, RowsStep

\* Every step keeps the invariant, and is a step of an incident for every link.
LEMMA NextKeeps ==
    ASSUME LinksInv, [Next]_vars PROVE RowsStep /\ LinksInv'
<1>1. CASE Environment
  BY <1>1, EnvironmentKeeps
<1>2. CASE Elapse
  BY <1>2, ElapseKeeps
<1>3. ASSUME NEW c \in BOOLEAN, c \/ faults < MaxFaults, Turn(c) PROVE RowsStep /\ LinksInv'
  BY <1>3, ProbeKeeps, LinkCheckKeeps DEF Turn
<1>4. CASE Cycle
  BY <1>3, <1>4 DEF Cycle
<1>5. CASE Fails
  BY <1>3, <1>5 DEF Fails
<1>6. CASE Restart
  BY <1>6, RestartKeeps
<1>7. CASE UNCHANGED vars
  <2>1. UNCHANGED <<report, watched, seen, episode, tickets, state, counted, outage, turn, faults>>
    BY <1>7 DEF vars, linkVars, probeVars
  <2>2. RowsStep
    BY <2>1, RowsStay DEF LinksInv
  <2>3. LinksTypes' /\ ProbeTypes' /\ OnlineReleasesWan'
    BY <2>1 DEF LinksInv, LinksTypes, ProbeTypes, Says, UniFiSays, OnlineReleasesWan
  <2> QED
    BY <2>2, <2>3 DEF LinksInv, RowsStep
<1> QED
  BY <1>1, <1>2, <1>4, <1>5, <1>6, <1>7, Zenon DEF Next

LEMMA LinksInit == Init => LinksInv
<1> SUFFICES ASSUME Init PROVE LinksInv
  OBVIOUS
<1>1. /\ report \in [Links -> {"up", "absent"}] /\ watched = {Wan}
      /\ seen = [k \in Links |-> "none"] /\ episode = [k \in Links |-> NoEpisode]
      /\ tickets = [k \in Links |-> [t \in TicketIds |-> Closed]]
      /\ state = "none" /\ counted = <<>> /\ outage = {} /\ turn = "probe" /\ faults = 0
  BY DEF Init, LinkInit
<1>2. LinksTypes
  BY <1>1, Kinds DEF LinksTypes, Says, UniFiSays, SnmpSays, StatusSays
<1>3. ProbeTypes /\ OnlineReleasesWan
  BY <1>1, Bounds DEF ProbeTypes, OnlineReleasesWan
<1>4. ASSUME NEW k \in Links PROVE RowInv(Row(k))
  <2> DEFINE r == Row(k)
  <2>1. r = [ep |-> NoEpisode, tk |-> [t \in TicketIds |-> Closed]]
    BY <1>1 DEF Row
  <2> HIDE DEF r
  <2>2. Closed \in TicketRows /\ 0 \notin TicketIds
    BY DEF Closed, TicketRows, TicketIds
  <2>3. RowInv(r)
    BY <2>1, <2>2, NoEpisodeParts DEF RowInv, TicketsFollow
  <2> QED
    BY <2>3 DEF r
<1>5. RowsInv
  BY <1>1, <1>4 DEF RowsInv
<1> QED
  BY <1>2, <1>3, <1>5 DEF LinksInv

-----------------------------------------------------------------------------
(* What follows from the invariant.                                          *)

LEMMA ShortSequences ==
    ASSUME NEW S, NEW n \in Nat, NEW s \in Seq(S), Len(s) <= n PROVE s \in BoundedSeq(S, n)
<1>1. Len(s) \in 0..n /\ s \in [1..Len(s) -> S]
  BY LenProperties
<1> QED
  BY <1>1 DEF BoundedSeq, SeqOf

\* What the invariant says of a link's episode is its type.
LEMMA TypesFollow == ASSUME LinksInv PROVE TypeOK
<1>1. RowsInv /\ LinksTypes /\ ProbeTypes
  BY DEF LinksInv
<1>2. ASSUME NEW k \in Links PROVE episode[k] \in Episodes \cup {NoEpisode}
  <2>1. episode[k] = NoEpisode \/ EpisodeTypes(episode[k])
    BY <1>1 DEF RowsInv, RowInv, Row
  <2>2. ASSUME EpisodeTypes(episode[k]) PROVE episode[k] \in Episodes
    <3>1. episode[k].flaps \in BoundedSeq(0..FlapWindow, EscalateCount)
      <4>1. episode[k].flaps \in Seq(0..FlapWindow) /\ Len(episode[k].flaps) <= EscalateCount
        BY <2>2 DEF EpisodeTypes, FlapTypes
      <4> QED
        BY <4>1, ShortSequences, Bounds
    <3> QED
      BY <2>2, <3>1 DEF EpisodeTypes, Episodes, Reasons
  <2> QED
    BY <2>1, <2>2
<1>3. tickets \in [Links -> [TicketIds -> TicketRows]]
  <2>1. \A k \in Links : tickets[k] \in [TicketIds -> TicketRows]
    BY <1>1 DEF RowsInv, RowInv, Row
  <2> QED
    BY <1>1, <2>1 DEF RowsInv
<1>4. LinkTypeOK
  BY <1>1, <1>2, <1>3 DEF LinkTypeOK, LinksTypes
<1>5. counted \in BoundedSeq(States, Confirm - 1)
  BY <1>1, Bounds DEF ProbeTypes, BoundedSeq, SeqOf
<1> QED
  BY <1>1, <1>4, <1>5 DEF TypeOK, ProbeTypes

LEMMA TicketsOfEpisodes == ASSUME LinksInv PROVE EpisodeHasTicket
<1>1. ASSUME NEW k \in Links, NEW t \in TicketIds
      PROVE  /\ episode[k].ticket = t =>
                   tickets[k][t].priority = (IF episode[k].reason = "none" THEN "P2" ELSE "P1")
             /\ episode[k].ticket # t => tickets[k][t] \in {Closed, Left}
  BY DEF LinksInv, RowsInv, RowInv, Row, TicketsFollow
<1> QED
  BY <1>1 DEF EpisodeHasTicket

-----------------------------------------------------------------------------
(* The Starlink monitor, whose types are an inductive invariant.             *)

LEMMA DishParts ==
    /\ \A e \in Starlink!Episodes : e # Starlink!NoEpisode
    /\ Starlink!Seeded("healthy") \in Starlink!Episodes
    /\ Starlink!Seeded("degraded") \in Starlink!Episodes
    /\ Starlink!Seeded("outage") \in Starlink!Episodes
<1>1. \A e \in Starlink!Episodes : e.state # "none"
  BY DEF Starlink!Episodes
<1>2. Starlink!NoEpisode.state = "none"
  BY DEF Starlink!NoEpisode
<1>3. /\ {0, Starlink!Unset} \subseteq Starlink!Clock(DegradeWindow)
      /\ {0, Starlink!Unset} \subseteq Starlink!Clock(OutageWindow)
      /\ Starlink!Unset \in Starlink!Clock(RecoverWindow)
  BY MonitorsAssumption DEF Starlink!Clock
<1>4. ASSUME NEW s \in {"healthy", "degraded", "outage"}
      PROVE  Starlink!Seeded(s) \in Starlink!Episodes
  <2> DEFINE d == IF s \in {"degraded", "outage"} THEN 0 ELSE Starlink!Unset
             o == IF s = "outage" THEN 0 ELSE Starlink!Unset
  <2>1. d \in Starlink!Clock(DegradeWindow) /\ o \in Starlink!Clock(OutageWindow)
    BY <1>3
  <2>2. Starlink!Seeded(s)
            = [Starlink!NoEpisode EXCEPT !.state = s, !.degraded = d, !.outage = o]
    BY DEF Starlink!Seeded
  <2> HIDE DEF d, o
  <2>3. Starlink!Seeded(s) = [state |-> s, degraded |-> d, outage |-> o,
                              recovered |-> Starlink!Unset, escalated |-> "none"]
    BY <2>2 DEF Starlink!NoEpisode
  <2> QED
    BY <1>3, <2>1, <2>3 DEF Starlink!Episodes
<1> QED
  BY <1>1, <1>2, <1>4

LEMMA DishAges ==
    ASSUME NEW max \in Nat, NEW age \in Starlink!Clock(max)
    PROVE  /\ Starlink!Older(age, max) \in Starlink!Clock(max)
           /\ Starlink!Older(Starlink!Unset, max) = Starlink!Unset
           /\ Starlink!Started(age) \in Starlink!Clock(max)
           /\ Starlink!Unset \in Starlink!Clock(max) /\ 0 \in Starlink!Clock(max)
  BY DEF Starlink!Older, Starlink!Clock, Starlink!Unset, Starlink!Started

LEMMA DishInit == Starlink!Init => Starlink!TypeOK
  BY MonitorsAssumption
     DEF Starlink!Init, Starlink!TypeOK, Starlink!NoTicket, Starlink!TicketRows, Starlink!Clock

\* The four reactions to a snapshot.
LEMMA AdvanceKeeps ==
    ASSUME Starlink!TypeOK, dish # "gap", Starlink!Advance
    PROVE  dishEp' \in Starlink!Episodes \cup {Starlink!NoEpisode}
           /\ dishTicket' \in Starlink!TicketRows
<1>1. /\ dishTicket \in Starlink!TicketRows /\ dish \in {"healthy", "degraded", "outage"}
      /\ dishEp \in Starlink!Episodes \cup {Starlink!NoEpisode}
  BY DEF Starlink!TypeOK
<1>2. /\ DegradeWindow \in Nat /\ OutageWindow \in Nat /\ RecoverWindow \in Nat
  BY MonitorsAssumption
<1>3. CASE /\ dishEp = Starlink!NoEpisode /\ dishEp' = Starlink!Seeded(dish)
           /\ dishTicket' = dishTicket
  BY <1>1, <1>3, DishParts
<1>4. ASSUME dishEp # Starlink!NoEpisode
      PROVE  /\ dishEp = [state |-> dishEp.state, degraded |-> dishEp.degraded,
                          outage |-> dishEp.outage, recovered |-> dishEp.recovered,
                          escalated |-> dishEp.escalated]
             /\ dishEp.state \in {"healthy", "degraded", "outage"}
             /\ dishEp.degraded \in Starlink!Clock(DegradeWindow)
             /\ dishEp.outage \in Starlink!Clock(OutageWindow)
             /\ dishEp.recovered \in Starlink!Clock(RecoverWindow)
             /\ dishEp.escalated \in {"none", "P2", "P1"}
  BY <1>1, <1>4 DEF Starlink!Episodes
<1>5. ASSUME dishEp # Starlink!NoEpisode
      PROVE  /\ Starlink!Started(dishEp.degraded) \in Starlink!Clock(DegradeWindow)
             /\ Starlink!Started(dishEp.outage) \in Starlink!Clock(OutageWindow)
             /\ Starlink!Started(dishEp.recovered) \in Starlink!Clock(RecoverWindow)
  BY <1>2, <1>4, <1>5, DishAges
<1>6. /\ Starlink!Unset \in Starlink!Clock(DegradeWindow)
      /\ Starlink!Unset \in Starlink!Clock(OutageWindow)
      /\ Starlink!Unset \in Starlink!Clock(RecoverWindow)
  BY DEF Starlink!Unset, Starlink!Clock
<1>7. CASE dishEp # Starlink!NoEpisode /\ Starlink!OnHealthy
  BY <1>1, <1>4, <1>5, <1>6, <1>7
     DEF Starlink!OnHealthy, Starlink!Close, Starlink!Episodes, Starlink!TicketRows
<1>8. CASE dishEp # Starlink!NoEpisode /\ Starlink!OnDegraded
  <2> DEFINE e == [dishEp EXCEPT !.recovered = Starlink!Unset, !.outage = Starlink!Unset,
                                 !.degraded = Starlink!Started(@)]
  <2>1. e \in Starlink!Episodes
    BY <1>4, <1>5, <1>6, <1>8 DEF Starlink!Episodes
  <2>2. \/ /\ dishEp' = [e EXCEPT !.state = "degraded", !.escalated = "P2"]
           /\ dishTicket' = [status |-> "open", priority |-> "P2"]
        \/ /\ dishEp' = [e EXCEPT !.state = IF @ = "outage" THEN "degraded" ELSE @]
           /\ dishTicket' = dishTicket
    BY <1>8 DEF Starlink!OnDegraded, Starlink!OpenDegraded
  <2> HIDE DEF e
  <2>3. dishEp' \in Starlink!Episodes
    <3>1. CASE dishEp' = [e EXCEPT !.state = "degraded", !.escalated = "P2"]
      BY <2>1, <3>1 DEF Starlink!Episodes
    <3>2. CASE dishEp' = [e EXCEPT !.state = IF @ = "outage" THEN "degraded" ELSE @]
      BY <2>1, <3>2 DEF Starlink!Episodes
    <3> QED
      BY <2>2, <3>1, <3>2
  <2> QED
    BY <1>1, <2>2, <2>3 DEF Starlink!TicketRows
<1>9. CASE dishEp # Starlink!NoEpisode /\ Starlink!OnOutage
  BY <1>1, <1>4, <1>5, <1>6, <1>9
     DEF Starlink!OnOutage, Starlink!EscalateOutage, Starlink!Episodes, Starlink!TicketRows
<1> QED
  BY <1>3, <1>7, <1>8, <1>9, Zenon DEF Starlink!Advance

LEMMA DishKeeps ==
    ASSUME Starlink!TypeOK, [Starlink!Next]_dishVars PROVE Starlink!TypeOK'
<1>1. /\ dishTicket \in Starlink!TicketRows /\ dish \in {"healthy", "degraded", "outage", "gap"}
      /\ dishEp \in Starlink!Episodes \cup {Starlink!NoEpisode}
      /\ silent \in Starlink!Clock(PhantomWindow)
  BY DEF Starlink!TypeOK
<1>2. /\ DegradeWindow \in Nat /\ OutageWindow \in Nat /\ RecoverWindow \in Nat
      /\ PhantomWindow \in Nat
  BY MonitorsAssumption
<1>3. /\ Starlink!Unset \in Starlink!Clock(PhantomWindow) /\ 0 \in Starlink!Clock(PhantomWindow)
      /\ Starlink!Older(silent, PhantomWindow) \in Starlink!Clock(PhantomWindow)
  BY <1>1, <1>2, DishAges
<1>4. CASE Starlink!CheckAnswered /\ dish' = dish
  <2>1. silent' = 0 /\ dish # "gap"
    BY <1>4 DEF Starlink!CheckAnswered
  <2>2. CASE Starlink!Advance
    BY <1>1, <1>3, <1>4, <2>1, <2>2, AdvanceKeeps DEF Starlink!TypeOK
  <2>3. CASE /\ dishEp' = Starlink!Seeded(dish)
             /\ dishTicket' = IF dishTicket.status \in {"open", "handed_over"}
                              THEN [dishTicket EXCEPT !.status = "left"] ELSE dishTicket
    <3>1. dishTicket' \in Starlink!TicketRows
      BY <1>1, <2>3 DEF Starlink!TicketRows
    <3>2. dishEp' \in Starlink!Episodes
      BY <1>1, <2>1, <2>3, DishParts
    <3> QED
      BY <1>1, <1>3, <1>4, <2>1, <3>1, <3>2 DEF Starlink!TypeOK
  <2> QED
    BY <1>4, <2>2, <2>3, Zenon DEF Starlink!CheckAnswered
<1>5. CASE Starlink!CheckGap /\ dish' = dish
  BY <1>1, <1>3, <1>5 DEF Starlink!CheckGap, Starlink!TypeOK
<1>6. CASE Starlink!DishChanges
  BY <1>1, <1>6 DEF Starlink!DishChanges, Starlink!TypeOK
<1>7. CASE Starlink!MoveTicket
  <2>1. dishTicket' \in Starlink!TicketRows
    BY <1>1, <1>7 DEF Starlink!MoveTicket, Starlink!TicketRows
  <2> QED
    BY <1>1, <1>7, <2>1 DEF Starlink!MoveTicket, Starlink!TypeOK
<1>8. CASE Starlink!Elapse
  <2>1. dishEp' \in Starlink!Episodes \cup {Starlink!NoEpisode}
    <3>1. dishEp' = [dishEp EXCEPT !.degraded = Starlink!Older(dishEp.degraded, DegradeWindow),
                                   !.outage = Starlink!Older(dishEp.outage, OutageWindow),
                                   !.recovered = Starlink!Older(dishEp.recovered, RecoverWindow)]
      BY <1>8 DEF Starlink!Elapse
    <3>2. CASE dishEp = Starlink!NoEpisode
      BY <3>1, <3>2 DEF Starlink!NoEpisode, Starlink!Older
    <3>3. CASE dishEp \in Starlink!Episodes
      <4>1. /\ Starlink!Older(dishEp.degraded, DegradeWindow) \in Starlink!Clock(DegradeWindow)
            /\ Starlink!Older(dishEp.outage, OutageWindow) \in Starlink!Clock(OutageWindow)
            /\ Starlink!Older(dishEp.recovered, RecoverWindow) \in Starlink!Clock(RecoverWindow)
        BY <1>2, <3>3, DishAges DEF Starlink!Episodes
      <4> QED
        BY <3>1, <3>3, <4>1 DEF Starlink!Episodes
    <3> QED
      BY <1>1, <3>2, <3>3
  <2> QED
    BY <1>1, <1>3, <1>8, <2>1 DEF Starlink!Elapse, Starlink!TypeOK
<1>9. CASE UNCHANGED dishVars
  BY <1>1, <1>9 DEF dishVars, Starlink!TypeOK
<1> QED
  BY <1>4, <1>5, <1>6, <1>7, <1>8, <1>9, Zenon DEF Starlink!Next, Starlink!Check

-----------------------------------------------------------------------------
(* The monitors together.                                                    *)

Inv == LinksInv /\ Starlink!TypeOK

LEMMA InvStarts == MCInit => Inv
  BY LinksInit, DishInit DEF MCInit, Inv

\* The monitor that does not run stays as it is.
LEMMA InvKeeps ==
    ASSUME Inv, [MCNext]_<<part, vars, dishVars>> PROVE RowsStep /\ Inv'
<1>1. LinksInv /\ Starlink!TypeOK
  BY DEF Inv
<1>2. [Next]_vars /\ [Starlink!Next]_dishVars
  BY Zenon DEF MCNext
<1> QED
  BY <1>1, <1>2, NextKeeps, DishKeeps DEF Inv

LEMMA InvHolds == MCSpec => []Inv
<1>1. Inv /\ [MCNext]_<<part, vars, dishVars>> => Inv'
  BY InvKeeps
<1> QED
  BY <1>1, InvStarts, PTL DEF MCSpec

\* Every variable of the link monitor, of the internet probe and of the Starlink monitor has its
\* type; a link's episode has one ticket, of the priority that its reason has, and every other
\* ticket of the link is nobody's; and no episode stays the probe's once the internet is back,
\* unless a transaction failed.
THEOREM MonitorsHoldAlways == MCSpec => []MonitorsHold
<1>1. Inv => MonitorsHold
  BY TypesFollow, TicketsOfEpisodes DEF Inv, LinksInv, MonitorsHold
<1> QED
  BY <1>1, InvHolds, PTL

LEMMA IncidentsStart == Init => Incidents!Init
<1> SUFFICES ASSUME Init PROVE Incidents!Init
  OBVIOUS
<1>1. episode = [k \in Links |-> NoEpisode]
  BY DEF Init, LinkInit
<1>2. \A k \in Links : Level(k) = "none" /\ episode[k].ticket = NoTicket
  BY <1>1, NoEpisodeParts DEF Level, NoTicket
<1> QED
  BY <1>2 DEF Incidents!Init

LEMMA IncidentsGoOn == ASSUME RowsStep PROVE Incidents!Next
<1>1. ASSUME NEW k \in Links
      PROVE  Incidents!Raise(k) \/ Incidents!Escalate(k) \/ Incidents!End(k) \/ Incidents!Stays(k)
  <2>1. IncidentStep(episode[k], episode'[k])
    BY DEF RowsStep
  <2>2. Level(k) = LevelOf(episode[k]) /\ Level(k)' = LevelOf(episode'[k])
    BY DEF Level, LevelOf
  <2> QED
    BY <2>1, <2>2 DEF IncidentStep, Incidents!Raise, Incidents!Escalate, Incidents!End,
                      Incidents!Stays
<1> QED
  BY <1>1 DEF Incidents!Next

\* Every link's episode is an incident of the abstract specification: a P2 ticket when trouble
\* starts, the same one raised to P1 at most once, its end, and only then another one.
THEOREM LinkIncidentsAlways == MCSpec => LinkIncidents
<1>1. Inv /\ [MCNext]_<<part, vars, dishVars>> => [Incidents!Next]_(Incidents!vars)
  BY InvKeeps, IncidentsGoOn
<1>2. MCInit => Incidents!Init
  BY IncidentsStart DEF MCInit
<1> QED
  BY <1>1, <1>2, InvHolds, PTL DEF MCSpec, LinkIncidents, Incidents!Spec

\* The same holds of the link monitor and the probe with all links at once: that one link is
\* there at a time, as in the run, does not hide anything.
THEOREM EveryLinkIsAnIncident ==
    Spec => LinkIncidents /\ [](TypeOK /\ EpisodeHasTicket /\ OnlineReleasesWan)
<1>1. LinksInv /\ [Next]_vars => LinksInv' /\ [Incidents!Next]_(Incidents!vars)
  BY NextKeeps, IncidentsGoOn
<1>2. Init => Incidents!Init
  BY IncidentsStart
<1>3. LinksInv => TypeOK /\ EpisodeHasTicket /\ OnlineReleasesWan
  BY TypesFollow, TicketsOfEpisodes DEF LinksInv
<1> QED
  BY <1>1, <1>2, <1>3, LinksInit, PTL DEF Spec, LinkIncidents, Incidents!Spec

=============================================================================
