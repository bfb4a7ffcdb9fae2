------------------------------ MODULE Settings ------------------------------
(***************************************************************************)
(* The appliance's settings: the .env file every process reads, the API's  *)
(* handlers that rewrite it (Settings, the LLM registry, Compliance and    *)
(* the set-up wizard) and the two small files the API mirrors for the      *)
(* coding agent, which may not read .env.                                  *)
(*                                                                         *)
(* A handler reads the whole file, changes its own keys in memory and      *)
(* writes the whole file back in place, first truncating it.  Handlers run *)
(* in threads of the API, so a handler may read what another one is about  *)
(* to replace, or the empty file in the middle of its rewrite.             *)
(***************************************************************************)
EXTENDS Naturals, Sequences, SequencesExt

CONSTANTS Savers,       \* the threads that handle saves
          Plain,        \* settings that are only stored
          Injected,     \* those of them that the container's environment holds
          Providers,    \* names of LLM providers
          OnPrem,       \* those of them that are on the customer's network
          Serial,       \* TRUE: no save starts before the last one ended
          MaxSaves, MaxRestarts      \* bounds of the model

None == "none"
Unset == "unset"
Values == {"old", "new"}
Controls == {"llm_egress", "web_research", "retention"}

VARIABLES
  env,       \* .env: what its keys hold
  secret,    \* llm_provider.json: the provider the agent is given
  web,       \* web_research.json
  s,         \* Savers -> the save in progress
  kept,      \* Plain -> the value of the last save that was accepted
  before,    \* the controls when the preset was first applied
  saves, restarts

vars == <<env, secret, web, s, kept, before, saves, restarts>>

(***************************************************************************)
(* The options of a control; the first is its default, the second the      *)
(* value of the compliance baseline (web research stays off).              *)
(***************************************************************************)
Options == [llm_egress |-> <<"cloud", "local">>, web_research |-> <<"off", "on">>,
            retention |-> <<"sane", "strict">>]
Baseline == [llm_egress |-> "local", web_research |-> "off", retention |-> "strict"]
Days == [sane |-> 30, strict |-> 14]

Empty == [plain |-> [k \in Plain |-> Unset], profile |-> Unset, pi |-> FALSE,
          providers |-> {}, active |-> None, order |-> <<>>,
          control |-> [c \in Controls |-> Unset],
          effective |-> [c \in Controls |-> Unset], days |-> 0,
          prev |-> <<>>]

(* Keys of the process environment stand in for a file that reads empty.   *)
Boot == [Empty EXCEPT !.plain = [k \in Plain |-> IF k \in Injected THEN "old" ELSE Unset]]

Installed == [Empty EXCEPT !.plain = [k \in Plain |-> "old"],
                           !.providers = Providers \ OnPrem,
                           !.active = CHOOSE p \in Providers \ OnPrem : TRUE]

IdleSave == [at |-> "idle", snap |-> Empty, field |-> None, value |-> None,
             sync |-> "none"]

State(e, c) == IF e.control[c] = Unset THEN Options[c][1] ELSE e.control[c]

-----------------------------------------------------------------------------
(* The failover chain of the registry, local-only egress applied, and what *)
(* the API gives the agent: the chain's first on-premises provider under   *)
(* local-only egress, else the active one.                                 *)

EgressMode(e) == IF e.effective.llm_egress = "local" THEN "local" ELSE "cloud"
EffectiveProviders(e) ==
  IF EgressMode(e) = "local" THEN e.providers \intersect OnPrem ELSE e.providers

ProviderOrder(e) ==
  LET listed == SelectSeq(e.order, LAMBDA p : p \in EffectiveProviders(e))
  IN  IF listed # <<>> THEN listed
      ELSE IF e.active \in EffectiveProviders(e) THEN <<e.active>>
           ELSE SetToSeq(EffectiveProviders(e))

ProviderSecret(e) ==
  IF EgressMode(e) = "local"
  THEN IF ProviderOrder(e) = <<>> THEN secret ELSE Head(ProviderOrder(e))
  ELSE IF e.active # None THEN e.active
       ELSE IF e.providers # {} THEN Head(SetToSeq(e.providers)) ELSE None

(* With no provider of that name in the file the secret has no key.        *)
WriteProviderSecret(e) ==
  secret' = IF ProviderSecret(e) \in e.providers THEN ProviderSecret(e)
            ELSE IF EgressMode(e) = "local" THEN secret ELSE None

WriteWebResearchSecret(e) == web' = (e.effective.web_research = "on")

(* _read_env_file falls back to the process environment.                   *)
ReadEnvFile == IF env = Empty THEN Boot ELSE env

-----------------------------------------------------------------------------
(* What the handlers do to the settings they read.                         *)

(* The states of the controls become the keys that the processes read; the *)
(* days of a category are only set where there are none.                   *)
MirrorToEffective(e) ==
  [e EXCEPT !.effective = [c \in Controls |-> State(e, c)],
            !.days = IF @ = 0 THEN Days[State(e, "retention")] ELSE @]

SetControl(e, c, v) == MirrorToEffective([e EXCEPT !.control[c] = v])

ApplyPresetAgain(e) ==   \* mutant: a second preset captures the first one's values
  MirrorToEffective([e EXCEPT
    !.prev = <<[c \in Controls |-> State(e, c)]>>, !.control = Baseline])

ApplyPreset(e) == MirrorToEffective([e EXCEPT
  !.prev = IF @ = <<>> THEN <<[c \in Controls |-> State(e, c)]>> ELSE @,
  !.control = Baseline])

RevertPreset(e) == MirrorToEffective([e EXCEPT
  !.prev = <<>>, !.control = IF e.prev = <<>> THEN @ ELSE e.prev[1]])

(* Saving the autonomous profile enables the coding agent too.             *)
UpdatePolicy(e, profile) == [e EXCEPT !.profile = profile,
                                      !.pi = @ \/ profile = "autonomous"]

(* The registry: the active provider, the order (its head is the active    *)
(* one), the providers submitted; one that is not submitted is removed,    *)
(* from the order too, and an active one that went away is replaced.       *)
UpdateLLM(e, ps, order) ==
  LET removed == e.providers \ ps
      kept0 == SelectSeq(IF order = <<>> THEN e.order ELSE order,
                         LAMBDA p : p \notin removed)
      active0 == IF order = <<>> THEN e.active ELSE Head(order)
      remaining == IF kept0 # <<>> THEN kept0 ELSE SetToSeq(ps)
  IN  [e EXCEPT !.providers = ps, !.order = kept0,
                !.active = IF removed # {} /\ remaining # <<>>
                              /\ active0 \notin ToSet(remaining)
                           THEN Head(remaining) ELSE active0]

(* Hosted providers are refused, with their keys, under local-only egress. *)
RefusedLLM(e, ps) == EgressMode(e) = "local" /\ ~(ps \subseteq OnPrem)

(* The wizard's defaults fill what is not set.                             *)
ApplyHomeDefaults(e, egress) ==
  LET home == IF e.profile = Unset THEN UpdatePolicy(e, "autonomous") ELSE e
  IN  IF egress = None THEN home ELSE SetControl(home, "llm_egress", egress)

-----------------------------------------------------------------------------
(* One save: read the file and work out the change; truncate; write.       *)

Free(t) == /\ s[t].at = "idle" /\ saves < MaxSaves
           /\ Serial => \A u \in Savers : s[u].at = "idle"

Start(t, snap, f, v, sync) ==
  /\ s' = [s EXCEPT ![t] = [at |-> "write", snap |-> snap, field |-> f, value |-> v,
                            sync |-> sync]]
  /\ saves' = saves + 1
  /\ UNCHANGED <<env, secret, web, kept, restarts>>

(* A settings section: validation comes first, so a refused one ends here. *)
UpdateSection(t) == /\ Free(t)
                    /\ \E k \in Plain, v \in Values :
                         Start(t, [ReadEnvFile EXCEPT !.plain[k] = v], k, v, "none")
                    /\ UNCHANGED before

UpdatePolicySection(t) ==
  /\ Free(t)
  /\ \E p \in {"balanced", "autonomous"} :
       Start(t, UpdatePolicy(ReadEnvFile, p), None, None, "none")
  /\ UNCHANGED before

UpdateProviders(t) ==
  /\ Free(t)
  /\ \E ps \in SUBSET Providers, order \in {<<>>} \union {<<p>> : p \in Providers} :
       /\ ps # {} \/ order # <<>>
       /\ ~RefusedLLM(ReadEnvFile, ps)
       /\ Start(t, UpdateLLM(ReadEnvFile, ps, order), None, None, "provider")
  /\ UNCHANGED before

UpdateCompliance(t) ==
  /\ Free(t)
  /\ \E c \in Controls : \E v \in ToSet(Options[c]) :
       Start(t, SetControl(env, c, v), None, None, "web")
  /\ UNCHANGED before

Preset(t) ==
  /\ Free(t)
  /\ Start(t, ApplyPreset(env), None, None, "web")
  /\ before' = IF env.prev = <<>> THEN [c \in Controls |-> State(env, c)] ELSE before

Revert(t) == /\ Free(t)
             /\ Start(t, RevertPreset(env), None, None, "web")
             /\ UNCHANGED before

SetupComplete(t) ==
  /\ Free(t)
  /\ \E egress \in {None, "cloud", "local"} :
       Start(t, ApplyHomeDefaults(ReadEnvFile, egress), None, None, "none")
  /\ UNCHANGED before

Truncate(t) == /\ s[t].at = "write"
               /\ env' = Empty
               /\ s' = [s EXCEPT ![t].at = "flush"]
               /\ UNCHANGED <<secret, web, kept, before, saves, restarts>>

(* The lines of the file that the snapshot lacks are dropped, the others   *)
(* take its values: the file becomes the snapshot.                         *)
Flush(t) ==
  /\ s[t].at = "flush"
  /\ env' = s[t].snap
  /\ kept' = [k \in Plain |-> IF k = s[t].field THEN s[t].value ELSE kept[k]]
  /\ s' = [s EXCEPT ![t] = IF s[t].sync = "none" THEN IdleSave
                           ELSE [IdleSave EXCEPT !.at = "sync", !.sync = s[t].sync]]
  /\ UNCHANGED <<secret, web, before, saves, restarts>>

(* After the registry the agent's provider is written again, after the     *)
(* controls its web research flag, each from the file as it reads then.    *)
Sync(t) ==
  /\ s[t].at = "sync"
  /\ IF s[t].sync = "provider" THEN WriteProviderSecret(ReadEnvFile) /\ UNCHANGED web
     ELSE WriteWebResearchSecret(ReadEnvFile) /\ UNCHANGED secret
  /\ s' = [s EXCEPT ![t] = IdleSave]
  /\ UNCHANGED <<env, kept, before, saves, restarts>>

(* The API dies between two steps of a save, never within the rewrite, and *)
(* starts again: both mirrors are written.                                 *)
Restart ==
  /\ restarts < MaxRestarts
  /\ \A t \in Savers : s[t].at # "flush"
  /\ s' = [t \in Savers |-> IdleSave]
  /\ WriteProviderSecret(ReadEnvFile) /\ WriteWebResearchSecret(ReadEnvFile)
  /\ before' = IF env.prev = <<>> THEN [c \in Controls |-> Unset] ELSE before
  /\ restarts' = restarts + 1
  /\ UNCHANGED <<env, kept, saves>>

Init == /\ env = Installed
        /\ secret = Installed.active
        /\ web = FALSE
        /\ s = [t \in Savers |-> IdleSave]
        /\ kept = Installed.plain
        /\ before = [c \in Controls |-> Unset]
        /\ saves = 0 /\ restarts = 0

Next == \/ \E t \in Savers : \/ UpdateSection(t) \/ UpdatePolicySection(t)
                             \/ UpdateProviders(t) \/ UpdateCompliance(t)
                             \/ Preset(t) \/ Revert(t) \/ SetupComplete(t)
                             \/ Truncate(t) \/ Flush(t) \/ Sync(t)
        \/ Restart

Spec == Init /\ [][Next]_vars

-----------------------------------------------------------------------------
Quiet == \A t \in Savers : s[t].at = "idle"

(* No save undoes what another save was told it had stored: "so the two    *)
(* writers never fight" (compliance.py).                                   *)
SavedIsKept == Quiet => \A k \in Plain : env.plain[k] = kept[k]

(* Whatever is read in the middle of a rewrite, no process ever sees       *)
(* settings that belong together apart: the effective keys follow the      *)
(* controls and the autonomous profile comes with its agent.               *)
SettingsAgree ==
  /\ env.control.llm_egress # Unset =>
       /\ env.effective.llm_egress = State(env, "llm_egress")
       /\ env.effective.web_research = State(env, "web_research")
  /\ env.profile = "autonomous" => env.pi

(* The agent's copy of the web research flag follows the control, whenever *)
(* a save ended or the API started.                                        *)
WebFlagFollows == Quiet => (web <=> env.effective.web_research = "on")

(* Reverting the preset brings back the controls of before the first one,  *)
(* however often it was applied.                                           *)
PresetIsReversible == env.prev # <<>> => env.prev[1] = before

(* Local-only egress pins the coding agent to the on-premises endpoint.    *)
AgentIsPinned == Quiet /\ EgressMode(env) = "local" => secret \in OnPrem \union {None}

(* The retention profile decides the age at which rows are pruned.         *)
RetentionFollows ==
  Quiet /\ env.control.retention # Unset => env.days = Days[env.control.retention]
=============================================================================
