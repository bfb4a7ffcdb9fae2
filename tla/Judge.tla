------------------------------- MODULE Judge -------------------------------
(***************************************************************************)
(* The gates between a ticket's text and a job: restrictions, the judge     *)
(* with its rules and its cache of verdicts, the executor, and the autonomy *)
(* policy (judge.py, executor.py, restrictions.py, policy.py, and steps 4   *)
(* to 10 of process_ticket in worker/main.py).                              *)
(*                                                                         *)
(* The worker handles one ticket at a time; the settings, the clock and the *)
(* customers move between its steps.  TicketPipeline has what becomes of a  *)
(* ticket; here a round ends with an outcome.  The lane of autonomous        *)
(* sessions, which passes the judge by, is left out.                         *)
(***************************************************************************)
EXTENDS Integers

CONSTANTS
    Tickets,
    Priorities,     \* "P1" and another
    Categories,     \* RISK_CATEGORIES
    Texts,          \* records: what a text hits (risks), what it is known to be (good), phrase
    ReadOnly, Writing,      \* actions that run a script
    Restrictable,           \* those RESTRICT_ACTIONS may name
    None,
    Ttl,            \* LLM_VERDICT_CACHE_TTL_H
    Overrides,      \* values of LLM_POLICY_RISK_FILTERS; None: not set
    MaxTime, MaxChanges, MaxReplies     \* bounds

VARIABLES
    now, settings,  \* the hour; .env: profile, filters, LLM_JUDGE_ENABLED, restrictions, key
    cache,          \* the verdict file
    about,          \* a ticket's text and priority
    outcome,        \* how its last round ended
    job,            \* the action of the job file written for it
    round,          \* the ticket under way, the step, the policy read, the verdict
    ruled,          \* when each verdict was last reached on a key, by a rule, the mock or a model
    said,           \* the customer's last message is a go-ahead
    changes, replies

world == <<now, settings, about, changes, said, replies>>     \* what the worker does not change
vars  == <<world, cache, outcome, job, round, ruled>>

Scripts == ReadOnly \cup Writing
Logical == {"escalate_human", "request_customer_input", "complete_ticket"}
Answers == Scripts \cup Logical
Lawful == {"yes", "no", "ambiguous"}
Devices == {"managed", "spared", "unknown"}     \* spared: on RESTRICT_DEVICES, or the appliance
Percent == {50, 60, 80, 90, 95}     \* confidences, one for each interval of the thresholds

Keys == Texts \X Priorities
_cache_key(t) == <<about[t].text, about[t].priority>>

Idle == [ticket |-> None, step |-> "idle", policy |-> None, verdict |-> None]

TypeOK ==
    /\ now \in 0..MaxTime /\ changes \in 0..MaxChanges /\ replies \in 0..MaxReplies
    /\ \A k \in Keys : cache[k] = None \/ (cache[k].lawful \in Lawful /\ cache[k].at \in 0..MaxTime)
    /\ outcome \in [Tickets -> {"open", "escalated", "held", "running", "asked", "closed"}]
    /\ job \in [Tickets -> Scripts \cup {None}]
    /\ round.ticket \in Tickets \cup {None}
    /\ round.step \in {"idle", "judge", "asking", "execute"}
    /\ ruled \in [Keys \X Lawful -> -1..MaxTime]

-----------------------------------------------------------------------------
(* The policy.                                                               *)

\* PROFILES, and what holds without one.
PROFILES == [
    none       |-> [filters |-> Categories, judge |-> FALSE, write |-> FALSE,
                    auto |-> 80, read |-> 80, approve |-> {"P1", "P2"}],
    autonomous |-> [filters |-> {}, judge |-> TRUE, write |-> TRUE,
                    auto |-> 80, read |-> 60, approve |-> {}],
    balanced   |-> [filters |-> Categories, judge |-> TRUE, write |-> TRUE,
                    auto |-> 90, read |-> 80, approve |-> {"P1"}],
    strict     |-> [filters |-> Categories, judge |-> TRUE, write |-> FALSE,
                    auto |-> 80, read |-> 80, approve |-> {"P1", "P2"}]]

load_policy ==
    LET base == PROFILES[settings.profile]
    IN  [profile |-> settings.profile,
         gates   |-> IF settings.filters = None THEN base
                     ELSE [base EXCEPT !.filters = settings.filters]]

autoexec_decision(policy, action, priority, conf) ==
    IF action \in ReadOnly THEN conf >= policy.gates.read
    ELSE policy.gates.write /\ priority \notin policy.gates.approve /\ conf >= policy.gates.auto

\* The gates without a profile.
LegacyAuto(action, priority, conf) ==
    (action \in ReadOnly /\ conf >= 80) \/ (conf >= 95 /\ priority \in {"P1", "P2"})

-----------------------------------------------------------------------------
(* The restrictions.                                                         *)

blocks_request(text) == text.phrase /\ settings.forbids.phrase

check(action, device) == action \in settings.forbids.actions \/ device = "spared"

-----------------------------------------------------------------------------
(* The judge.                                                                *)

\* Mutant: a verdict does not expire.
_cache_get_Forever(k) == cache[k]

_cache_get(k) ==
    IF cache[k] = None \/ now - cache[k].at > Ttl THEN None ELSE cache[k]

short_circuit_verdict(text, filters) ==
    IF text.risks \cap filters # {} \/ text.good = None THEN None
    ELSE [lawful |-> "yes", action |-> text.good, short |-> TRUE, at |-> now]

Verdicts(actions) ==
    [lawful : {"yes"}, action : actions, short : {FALSE}, at : {now}]
        \cup [lawful : {"no", "ambiguous"}, action : {None}, short : {FALSE}, at : {now}]

_mock_judge == Verdicts(ReadOnly)

\* What the model says, checked: a "yes" names an action of the catalog, and what cannot be read
\* or does not fit is "ambiguous".
_coerce_verdict == Verdicts(Answers)

_cache_set(k, v) ==
    /\ cache' = [cache EXCEPT ![k] = v]
    /\ ruled' = [ruled EXCEPT ![<<k, v.lawful>>] = now]

End(how) ==
    /\ outcome' = [outcome EXCEPT ![round.ticket] = how]
    /\ round' = Idle

\* What process_ticket does with a verdict.
Follow(v) ==
    \/ v.lawful = "yes" /\ round' = [round EXCEPT !.step = "execute", !.verdict = v]
                        /\ UNCHANGED outcome
    \/ v.lawful = "no" /\ End("escalated")
    \/ v.lawful = "ambiguous"
          /\ End(IF round.policy.profile = "autonomous" THEN "asked" ELSE "escalated")

-----------------------------------------------------------------------------

Init ==
    /\ now = 0 /\ changes = 0 /\ replies = 0
    /\ settings \in [profile : DOMAIN PROFILES, filters : {None}, judge : BOOLEAN, key : {TRUE},
                     forbids : {[phrase |-> FALSE, actions |-> {}]}]
    /\ cache = [k \in Keys |-> None]
    /\ about \in [Tickets -> [text : Texts, priority : Priorities]]
    /\ outcome = [t \in Tickets |-> "open"] /\ job = [t \in Tickets |-> None]
    /\ round = Idle
    /\ ruled = [r \in Keys \X Lawful |-> -1]
    /\ said = [t \in Tickets |-> FALSE]

\* The phrases are looked at before anything else; then the policy is read.
Begin(t) ==
    /\ round = Idle /\ outcome[t] = "open"
    /\ \/ /\ blocks_request(about[t].text)
          /\ outcome' = [outcome EXCEPT ![t] = "escalated"] /\ UNCHANGED round
       \/ /\ ~blocks_request(about[t].text)
          /\ LET policy == load_policy
                 judge_enabled == policy.gates.judge \/ settings.judge
             IN  round' = [Idle EXCEPT !.ticket = t, !.policy = policy,
                              !.step = IF judge_enabled THEN "judge" ELSE "execute"]
          /\ UNCHANGED outcome
    /\ UNCHANGED <<world, cache, job, ruled>>

\* judge_request up to the call: cache, rules, and without a key the mock.
JudgeRequest ==
    LET k     == _cache_key(round.ticket)
        short == short_circuit_verdict(about[round.ticket].text, round.policy.gates.filters)
    IN  /\ round.step = "judge"
        /\ \/ /\ _cache_get(k) # None
              /\ Follow(_cache_get(k)) /\ UNCHANGED <<cache, ruled>>
           \/ /\ _cache_get(k) = None /\ short # None
              /\ Follow(short) /\ _cache_set(k, short)
           \/ /\ _cache_get(k) = None /\ short = None /\ ~settings.key
              /\ \E v \in _mock_judge : Follow(v) /\ _cache_set(k, v)
           \/ /\ _cache_get(k) = None /\ short = None /\ settings.key
              /\ round' = [round EXCEPT !.step = "asking"] /\ UNCHANGED <<outcome, cache, ruled>>
        /\ UNCHANGED <<world, job>>

\* The model answers and the verdict is cached.
JudgeAnswers ==
    /\ round.step = "asking"
    /\ \E v \in _coerce_verdict : Follow(v) /\ _cache_set(_cache_key(round.ticket), v)
    /\ UNCHANGED <<world, job>>

\* No answer, of the judge or of the executor: nothing is cached, the ticket waits for a retry.
CallFails ==
    /\ round.step = "asking" \/ (round.step = "execute" /\ settings.key)
    /\ End("open")
    /\ UNCHANGED <<world, cache, job, ruled>>

\* From the answer of the executor to the outcome: the target, logical actions, the restrictions as
\* they are now, the policy read at the start.
Gate(a, device, conf) ==
    LET policy   == round.policy
        priority == about[round.ticket].priority
        auto(c)  == IF policy.profile = "none" THEN LegacyAuto(a, priority, c)
                    ELSE autoexec_decision(policy, a, priority, c)
        told     == policy.profile = "autonomous" /\ said[round.ticket]
        runs     == auto(IF told /\ conf < policy.gates.auto THEN policy.gates.auto ELSE conf)
        unsure   == IF policy.profile = "autonomous" THEN "asked" ELSE "escalated"
        script   == a \in Scripts /\ device # "unknown"
        write(how) == End(how) /\ job' = [job EXCEPT ![round.ticket] = a]
    IN  \/ /\ UNCHANGED job
           /\ \/ a = "escalate_human" /\ End(unsure)
              \/ a # "escalate_human" /\ device = "unknown" /\ End("escalated")
              \/ a = "complete_ticket" /\ device # "unknown" /\ End("closed")
              \/ a = "request_customer_input" /\ device # "unknown" /\ End("asked")
              \/ script /\ check(a, device) /\ End("escalated")
              \/ /\ script /\ ~check(a, device)
                 /\ ~runs /\ (conf < 80 \/ policy.profile = "autonomous") /\ End(unsure)
        \/ /\ script /\ ~check(a, device)
           /\ \/ runs /\ write("running")
              \/ ~runs /\ conf >= 80 /\ policy.profile # "autonomous" /\ write("held")

\* The executor answers: the mock, without a key, with the judge's action; a model with any.
Execute ==
    LET mock == ~settings.key /\ round.verdict # None
        sure == IF about[round.ticket].priority \in {"P1", "P2"} THEN 95 ELSE 90
    IN  /\ round.step = "execute"
        /\ \E a \in Answers, device \in Devices, conf \in Percent :
              /\ mock => a = round.verdict.action /\ conf = sure
              /\ Gate(a, device, conf)
        /\ UNCHANGED <<world, cache, ruled>>

Worker == (\E t \in Tickets : Begin(t)) \/ JudgeRequest \/ JudgeAnswers \/ CallFails \/ Execute

-----------------------------------------------------------------------------
(* The settings, the customers, the clock.                                   *)

Hour ==
    /\ now < MaxTime /\ now' = now + 1
    /\ UNCHANGED <<settings, about, changes, said, replies, cache, outcome, job, round, ruled>>

ChangeSettings ==
    /\ changes < MaxChanges /\ changes' = changes + 1
    /\ \/ \E p \in DOMAIN PROFILES, f \in Overrides :
             settings' = [settings EXCEPT !.profile = p, !.filters = f]
       \/ settings' = [settings EXCEPT !.key = ~@]
       \/ settings' = [settings EXCEPT !.judge = ~@]
       \/ \E b \in BOOLEAN, a \in SUBSET Restrictable :
             settings' = [settings EXCEPT !.forbids = [phrase |-> b, actions |-> a]]
    /\ UNCHANGED <<now, about, said, replies, cache, outcome, job, round, ruled>>

\* An operator changes the priority.  (During a round it counts from the next one.)
Reprioritize(t) ==
    /\ changes < MaxChanges /\ changes' = changes + 1
    /\ round.ticket # t
    /\ \E p \in Priorities \ {about[t].priority} : about' = [about EXCEPT ![t].priority = p]
    /\ UNCHANGED <<now, settings, said, replies, cache, outcome, job, round, ruled>>

\* A customer answers on a ticket that waits for one; the answer may be a go-ahead.
Reply(t) ==
    /\ replies < MaxReplies /\ replies' = replies + 1
    /\ outcome[t] \in {"asked", "escalated"} /\ round.ticket # t
    /\ outcome' = [outcome EXCEPT ![t] = "open"]
    /\ \E yes \in BOOLEAN : said' = [said EXCEPT ![t] = yes]
    /\ UNCHANGED <<now, settings, about, changes, cache, job, round, ruled>>

Next == Worker \/ Hour \/ ChangeSettings \/ \E t \in Tickets : Reply(t) \/ Reprioritize(t)

Spec == Init /\ [][Next]_vars

-----------------------------------------------------------------------------

Judged == round.step \in {"judge", "asking"} /\ round' # round /\ round'.step # "asking"

Recent(t, lawful) ==
    LET when == ruled'[<<<<about[t].text, about[t].priority>>, lawful>>]
    IN  0 <= when /\ now - when <= Ttl

\* Whatever the judge phase leads to rests on a verdict that was really reached, on this text at
\* this priority, no longer ago than a verdict is kept: a call that failed is no verdict, and
\* neither is one on another ticket.  (The fail-closed policy of judge_request and its cache.)
VerdictIsReal ==
    [][\A t \in Tickets : Judged /\ round.ticket = t =>
          \/ round'.step = "execute" /\ Recent(t, "yes")
          \/ outcome'[t] = "open"
          \/ /\ outcome'[t] \in {"escalated", "asked"}
             /\ Recent(t, "no") \/ Recent(t, "ambiguous")]_vars

\* "You may ONLY output the approved action" (executor.py:37).  Refuted: nothing compares them.
ExecutorObeys ==
    [][\A t \in Tickets : round.verdict # None /\ job'[t] # job[t]
          => job'[t] = round.verdict.action]_vars

\* A text with a risk word of a category in force is not decided by a rule (judge.py:100).  Refuted:
\* the rule's verdict, reached while the category was off, is kept.
RiskIsJudged ==
    [][\A t \in Tickets : Judged /\ round.ticket = t /\ round'.step = "execute"
          => ~round'.verdict.short \/ about[t].text.risks \cap round.policy.gates.filters = {}]_vars

\* Under "strict" the urgent always waits for an approval (policy.py:12-13).  Refuted: what only
\* reads runs at once.
UrgentAsks ==
    [][\A t \in Tickets : round.policy # None /\ round.policy.profile = "strict"
                          /\ outcome'[t] = "running" /\ outcome[t] = "open"
          => about[t].priority \notin {"P1", "P2"}]_vars

\* After a customer has answered a question of the judge's, the judge rules again.  Refuted: the
\* text that is judged and looked up leaves the thread out, so the same verdict returns until it
\* expires.
ReplyIsWeighed ==
    [][\A t \in Tickets : Judged /\ round.ticket = t /\ said[t] /\ outcome'[t] = "asked"
          => ruled' # ruled]_vars

=============================================================================
