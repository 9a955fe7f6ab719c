------------------------------- MODULE Policy -------------------------------
(***************************************************************************)
(* The pure policy evaluator (src/internal/policy/evaluate.go): one        *)
(* snapshot of facts in, one decision out.                                 *)
(*                                                                         *)
(* Numbers the evaluator compares with thresholds stay numbers; evidence,  *)
(* reasons and severities, which nothing but a display reads, are left     *)
(* out.  Absolute times become ages and remaining times relative to        *)
(* Snapshot.Now: LastCompetingAt and SuppressedAt are ages, RecoveryUntil  *)
(* and Mode.Until are times left.  A time that was never set is an age     *)
(* past every configured span, which the evaluator cannot tell apart.      *)
(***************************************************************************)
EXTENDS Integers, Sequences, FiniteSets

CONSTANTS
    Profiles,   \* [ProfileName -> profile]: the thresholds and waits of each profile
    Cfg,        \* the rest of the configuration the evaluator reads
    Forever     \* Mode.Until = nil; longer than any configured time

ProfileName == {"default", "scheduled", "ai"}

ProfileType ==
    [drainOnGameProcess : BOOLEAN, drainOnAmbiguous : BOOLEAN,
     drainOnSoftContention : BOOLEAN, softUtil : Nat, softVRAM : Nat,
     cooldown : Nat, grace : Nat, graceUnderPressure : Nat]

CfgType ==
    [vramFreeCritical : Nat, extVRAMCritical : Nat, requiredFreeVRAM : Nat,
     degradedMarginPct : 0..90, maxPreemptions : Nat \ {0}, window : Nat,
     suppressFor : Nat]

(* What config.Validate guarantees of the values the evaluator reads.      *)
ASSUME PolicyConfig ==
    /\ Profiles \in [ProfileName -> ProfileType]
    /\ Cfg \in CfgType
    /\ Forever \in Nat
    /\ \A p \in ProfileName :
          /\ Profiles[p].graceUnderPressure <= Profiles[p].grace
          /\ Profiles[p].softVRAM < Cfg.extVRAMCritical

Mode == {"auto", "pause", "ai_priority"}
Idle == {"STOPPED", "COOLDOWN", "SUPPRESSED", "DISABLED", "ERROR"}
Action == {"run", "hold", "drain", "preempt"}

(* Action.Yields: the action stops admission.                              *)
Yields(a) == a \in {"drain", "preempt"}

-----------------------------------------------------------------------------
(* Snapshots: mode, profile, running flag, power facts, timers and GPU,    *)
(* process and session facts.                                              *)

(* The facts a snapshot may hold, whichever of them occur together.        *)
Evidence == {"none", "running", "onGPU"}

GPUType ==
    [confidence : {"high", "degraded", "none"}, noneForGrace : BOOLEAN,
     temp : {"normal", "warm", "critical"}, totalKnown : BOOLEAN, vramFree : Nat, extVRAMGrowing : BOOLEAN,
     extVRAM : Nat, utilTrusted : BOOLEAN, util : Nat, aboveSoftWindow : BOOLEAN,
     aboveCriticalWindow : BOOLEAN, belowSoftForClear : BOOLEAN]

SnapshotTimers ==
    [sinceCompeting : Nat, lastCompetingRule : STRING, sinceSuppressed : Nat,
     recoveryLeft : Nat, recoveryFault : BOOLEAN, preemptions : Seq(Nat)]

SnapshotType ==
    [mode : Mode, modeLeft : Nat, scheduled : BOOLEAN, running : BOOLEAN,
     setupProblem : BOOLEAN, gpu : GPUType, totalTooSmall : BOOLEAN,
     apps : [games : Evidence, launcherChild : Evidence, processListOK : BOOLEAN],
     session : {"other", "fullscreen"},
     power : [shuttingDown : BOOLEAN, suspending : BOOLEAN, deviceLost : BOOLEAN],
     timers : SnapshotTimers]

(* newEval: AI Priority selects its own profile; otherwise the schedule    *)
(* does, falling back to the default profile.                              *)
ProfileOf(s) ==
    IF s.mode = "ai_priority" THEN "ai"
    ELSE IF s.scheduled THEN "scheduled" ELSE "default"

ProfileTier(s) ==
    CASE ProfileOf(s) = "ai" -> 5
      [] ProfileOf(s) = "scheduled" -> 6
      [] OTHER -> 7

(* Without attribution the soft thresholds shrink by the degraded margin.  *)
SoftLimit(s, limit) ==
    IF s.gpu.confidence = "degraded"
    THEN (limit * (100 - Cfg.degradedMarginPct)) \div 100
    ELSE limit

SoftUtil(s) == SoftLimit(s, Profiles[ProfileOf(s)].softUtil)
SoftVRAM(s) == SoftLimit(s, Profiles[ProfileOf(s)].softVRAM)

telemetryUsable(s) == s.gpu.confidence # "none"

(* A game counts as confirmed when it is in the foreground, fullscreen or  *)
(* measurably on the GPU, or when nothing can measure it.                  *)
gameConfirmation(s) ==
    \/ s.apps.games = "onGPU"
    \/ s.apps.games = "running" /\ s.gpu.confidence # "high"

UtilRules == {"profile.soft_contention", "contention.critical_external_util",
              "interactive.fullscreen_gpu"}

utilWasCompeting(s) == s.timers.lastCompetingRule \in UtilRules

softContention_NoHysteresis(s) ==
    \/ s.gpu.utilTrusted /\ s.gpu.aboveSoftWindow
    \/ s.gpu.extVRAM >= SoftVRAM(s)

(* Above the soft threshold for the window, or (idle, after utilization    *)
(* contention) not yet below it for the clear window, or soft VRAM in use. *)
softContention(s) ==
    \/ s.gpu.utilTrusted /\ s.gpu.aboveSoftWindow
    \/ /\ ~s.running
       /\ s.gpu.utilTrusted
       /\ ~s.gpu.aboveSoftWindow
       /\ ~s.gpu.belowSoftForClear
       /\ utilWasCompeting(s)
    \/ s.gpu.extVRAM >= SoftVRAM(s)

-----------------------------------------------------------------------------
(* yieldRules: every rule that makes the worker yield or hold for a reason *)
(* other than eligibility, in the order the code appends its matches.      *)

RuleOrder ==
    << "safety.shutdown", "safety.suspend", "safety.device_lost",
       "safety.temperature", "safety.telemetry_lost", "manual.pause",
       "contention.critical_vram_free", "contention.critical_external_vram",
       "contention.critical_external_util", "gaming.confirmed",
       "gaming.launcher_child", "interactive.fullscreen_gpu",
       "profile.game_process", "profile.ambiguous_interactive",
       "profile.soft_contention" >>

SafetyRules == {"safety.shutdown", "safety.suspend", "safety.device_lost",
                "safety.temperature", "safety.telemetry_lost"}
CriticalRules == {"contention.critical_vram_free",
                  "contention.critical_external_vram",
                  "contention.critical_external_util"}
GamingRules == {"gaming.confirmed", "gaming.launcher_child",
                "interactive.fullscreen_gpu"}
ProfileRules == {"profile.game_process", "profile.ambiguous_interactive",
                 "profile.soft_contention"}

(* The rules whose matches are competing workloads and count as            *)
(* preemptions: all of the contention, gaming and profile rules.           *)
CompetingRules == CriticalRules \cup GamingRules \cup ProfileRules

UnclassifiedFullscreen(s) == s.session = "fullscreen"

Applies(r, s) ==
    LET p == Profiles[ProfileOf(s)] IN
    CASE r = "safety.shutdown" -> s.power.shuttingDown
      [] r = "safety.suspend" -> s.power.suspending
      [] r = "safety.device_lost" -> s.power.deviceLost
      [] r = "safety.temperature" ->
            \/ s.gpu.temp = "critical"
            \/ ~s.running /\ s.gpu.temp = "warm"
      [] r = "safety.telemetry_lost" ->
            /\ s.gpu.confidence = "none"
            /\ s.gpu.noneForGrace
            /\ s.running \/ ~s.setupProblem
      [] r = "manual.pause" -> s.mode = "pause"
      [] r = "contention.critical_vram_free" ->
            /\ telemetryUsable(s)
            /\ s.running
            /\ s.gpu.totalKnown
            /\ s.gpu.vramFree < Cfg.vramFreeCritical
            /\ s.gpu.extVRAMGrowing
      [] r = "contention.critical_external_vram" ->
            telemetryUsable(s) /\ s.gpu.extVRAM >= Cfg.extVRAMCritical
      [] r = "contention.critical_external_util" ->
            telemetryUsable(s) /\ s.gpu.utilTrusted /\ s.gpu.aboveCriticalWindow
      [] r = "gaming.confirmed" -> gameConfirmation(s)
      [] r = "gaming.launcher_child" -> s.apps.launcherChild = "onGPU"
      [] r = "interactive.fullscreen_gpu" ->
            /\ UnclassifiedFullscreen(s)
            /\ s.gpu.utilTrusted
            /\ s.gpu.util >= SoftUtil(s)
      [] r = "profile.game_process" ->
            p.drainOnGameProcess /\ s.apps.games # "none"
      [] r = "profile.ambiguous_interactive" ->
            /\ p.drainOnAmbiguous
            /\ UnclassifiedFullscreen(s) \/ s.apps.launcherChild # "none"
      [] r = "profile.soft_contention" ->
            p.drainOnSoftContention /\ telemetryUsable(s) /\ softContention(s)

Tier(r, s) ==
    CASE r \in SafetyRules -> 1
      [] r = "manual.pause" -> 2
      [] r \in CriticalRules -> 3
      [] r \in GamingRules -> 4
      [] r \in ProfileRules -> ProfileTier(s)

RuleAction(r, s) ==
    CASE r = "safety.temperature" ->
            IF s.gpu.temp = "critical" THEN "preempt" ELSE "hold"
      [] r \in SafetyRules \ {"safety.temperature"} -> "preempt"
      [] r \in CriticalRules -> "preempt"
      [] OTHER -> "drain"

RuleIdle(r) ==
    CASE r \in {"safety.shutdown", "safety.suspend"} -> "STOPPED"
      [] r \in {"safety.device_lost", "safety.telemetry_lost"} -> "ERROR"
      [] r = "manual.pause" -> "DISABLED"
      [] OTHER -> "COOLDOWN"

Matches(s) == {i \in 1..Len(RuleOrder) : Applies(RuleOrder[i], s)}

(* matches[0]: the first rule in the order that matches.                   *)
yieldRules(s) ==
    LET matches == Matches(s) IN
    RuleOrder[CHOOSE i \in matches : \A j \in matches : i <= j]

-----------------------------------------------------------------------------
(* Eligibility: the first failing gate when nothing yields and the runtime *)
(* is idle.                                                                *)

SuppressLeft(s) == Cfg.suppressFor - s.timers.sinceSuppressed
CooldownLeft(s) == Profiles[ProfileOf(s)].cooldown - s.timers.sinceCompeting

GateOrder ==
    << "eligibility.setup_required", "eligibility.recovery",
       "eligibility.suppressed", "eligibility.cooldown",
       "eligibility.telemetry_unavailable",
       "eligibility.process_list_unavailable",
       "eligibility.vram_insufficient" >>

Blocks(g, s) ==
    CASE g = "eligibility.setup_required" -> s.setupProblem
      [] g = "eligibility.recovery" -> s.timers.recoveryLeft > 0
      [] g = "eligibility.suppressed" -> SuppressLeft(s) > 0
      [] g = "eligibility.cooldown" -> CooldownLeft(s) > 0
      [] g = "eligibility.telemetry_unavailable" -> ~telemetryUsable(s)
      [] g = "eligibility.process_list_unavailable" -> ~s.apps.processListOK
      [] g = "eligibility.vram_insufficient" ->
            /\ Cfg.requiredFreeVRAM > 0
            /\ s.gpu.vramFree < Cfg.requiredFreeVRAM

GateIdle(g, s) ==
    CASE g = "eligibility.recovery" ->
            IF s.timers.recoveryFault THEN "ERROR" ELSE "COOLDOWN"
      [] g = "eligibility.suppressed" -> "SUPPRESSED"
      [] g = "eligibility.cooldown" -> "COOLDOWN"
      [] OTHER -> "STOPPED"

BlockingGates(s) == {i \in 1..Len(GateOrder) : Blocks(GateOrder[i], s)}

eligibility(s) ==
    LET gates == BlockingGates(s) IN
    GateOrder[CHOOSE i \in gates : \A j \in gates : i <= j]

RunRule(s) == IF s.mode = "ai_priority" THEN "mode.ai_priority" ELSE "profile.run"

-----------------------------------------------------------------------------
(* The winning match, then the decision Evaluate builds from it.           *)

Win(s) ==
    IF Matches(s) # {}
    THEN LET r == yieldRules(s) IN
         [action |-> RuleAction(r, s), rule |-> r, tier |-> Tier(r, s),
          competing |-> r \in CompetingRules, idle |-> RuleIdle(r)]
    ELSE IF ~s.running /\ BlockingGates(s) # {}
    THEN LET g == eligibility(s) IN
         [action |-> "hold", rule |-> g, tier |-> 8,
          competing |-> FALSE, idle |-> GateIdle(g, s)]
    ELSE [action |-> "run", rule |-> RunRule(s), tier |-> ProfileTier(s),
          competing |-> FALSE, idle |-> "STOPPED"]

(* Soft pressure shortens the drain allowance.                             *)
grace(s) ==
    LET p == Profiles[ProfileOf(s)]
        pressure == /\ telemetryUsable(s)
                    /\ \/ s.gpu.utilTrusted /\ s.gpu.util >= SoftUtil(s)
                       \/ s.gpu.extVRAM >= SoftVRAM(s)
    IN  IF pressure THEN p.graceUnderPressure ELSE p.grace

InWindow(preemptions) ==
    {i \in DOMAIN preemptions : preemptions[i] <= Cfg.window}

wouldSuppress_OneLate(s) ==
    Cardinality(InWindow(s.timers.preemptions)) >= Cfg.maxPreemptions

(* One more preemption now would reach the anti-thrash limit.              *)
wouldSuppress(s) ==
    1 + Cardinality(InWindow(s.timers.preemptions)) >= Cfg.maxPreemptions

TimerMax(S) == CHOOSE x \in S : \A y \in S : y <= x

(* No time can be promised while a competing workload is present (its      *)
(* cooldown has not started) or under an indefinite pause.                 *)
NoPromise(s, win) ==
    \/ win.competing
    \/ win.rule = "manual.pause" /\ s.modeLeft = Forever

(* How long until the latest active timer ends, 0 when no time can be      *)
(* promised.  A pause adds its own end.                                    *)
nextLoadAt(s, win) ==
    IF NoPromise(s, win)
    THEN 0
    ELSE TimerMax({0, s.timers.recoveryLeft, SuppressLeft(s), CooldownLeft(s)}
                  \cup IF win.rule = "manual.pause" THEN {s.modeLeft} ELSE {})

IdleState(s, win) ==
    IF win.idle = "COOLDOWN" /\ SuppressLeft(s) > 0 THEN "SUPPRESSED" ELSE win.idle

(* The decision for a winning rule and the action it leads to: only a      *)
(* competing yield of a running worker counts, and only a drain has grace. *)
DecisionOf(s, win, action) ==
    LET counted == s.running /\ Yields(action) /\ win.competing
    IN  [action |-> action,
         rule |-> win.rule,
         tier |-> win.tier,
         competing |-> win.competing,
         grace |-> IF action = "drain" THEN grace(s) ELSE 0,
         counts |-> counted,
         suppress |-> counted /\ wouldSuppress(s),
         idle |-> IdleState(s, win),
         nextLoad |-> nextLoadAt(s, win)]

(* An idle worker holds where a running one would yield.                   *)
ActionOf(s, win) == IF ~s.running /\ Yields(win.action) THEN "hold" ELSE win.action

Evaluate(s) == LET win == Win(s) IN DecisionOf(s, win, ActionOf(s, win))

(* The reasons a decision may give: a rule, a gate or a mode.              *)
RuleName ==
    {RuleOrder[i] : i \in 1..Len(RuleOrder)} \cup {GateOrder[i] : i \in 1..Len(GateOrder)}
    \cup {"profile.run", "mode.ai_priority"}

DecisionType ==
    [action : Action, rule : RuleName, tier : 1..8, competing : BOOLEAN,
     grace : Nat, counts : BOOLEAN, suppress : BOOLEAN, idle : Idle,
     nextLoad : Nat]
=============================================================================
