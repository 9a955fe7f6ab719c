--------------------------- MODULE Policy_proofs ---------------------------
(***************************************************************************)
(* What the evaluator promises of any snapshot under any configuration:    *)
(* lemmas that the proofs about the controller and about the decisions     *)
(* themselves rest on.                                                     *)
(***************************************************************************)
EXTENDS Policy, WellFoundedInduction, TLAPS

-----------------------------------------------------------------------------
(* The shape of a decision.                                                *)

(* The fields of an evaluator decision that the controller acts on; the    *)
(* others may hold anything.                                               *)
Shape(R, T, C, N) ==
    [action : Action, rule : R, tier : T, competing : C, grace : Nat, counts : BOOLEAN,
     suppress : BOOLEAN, idle : Idle, nextLoad : N]

(* The active profile is one of the configured ones.                       *)
LEMMA ProfileType_ ==
    ASSUME NEW s
    PROVE  /\ ProfileOf(s) \in ProfileName
           /\ Profiles[ProfileOf(s)] \in ProfileType
  BY PolicyConfig DEF ProfileOf, ProfileName

(* Whatever matches, the winner has a proper action and idle state.        *)
LEMMA WinType ==
    ASSUME NEW s
    PROVE  Win(s).action \in Action /\ Win(s).idle \in Idle
<1>1. \A r : RuleAction(r, s) \in Action /\ RuleIdle(r) \in Idle
  BY DEF RuleAction, RuleIdle, Action, Idle
<1>2. \A g : GateIdle(g, s) \in Idle
  BY DEF GateIdle, Idle
<1>3. "hold" \in Action /\ "run" \in Action /\ "STOPPED" \in Idle
  BY DEF Action, Idle
<1> QED BY <1>1, <1>2, <1>3 DEF Win

(* The evaluator's decision on any snapshot.                               *)
LEMMA EvaluateType ==
    ASSUME NEW s
    PROVE  Evaluate(s) \in Shape({Win(s).rule}, {Win(s).tier}, {Win(s).competing},
                                 {nextLoadAt(s, Win(s))})
<1>1. grace(s) \in Nat
  BY ProfileType_ DEF grace, ProfileType
<1>2. IdleState(s, Win(s)) \in Idle
  BY WinType DEF IdleState, Idle
<1>3. ActionOf(s, Win(s)) \in Action
  BY WinType DEF ActionOf, Action
<1> QED BY <1>1, <1>2, <1>3 DEF Evaluate, DecisionOf, Shape

-----------------------------------------------------------------------------
(* The first match wins.                                                   *)

(* A nonempty set of positions in a list of rules or gates has a first     *)
(* one.                                                                    *)
LEMMA FirstExists ==
    ASSUME NEW S \in SUBSET Nat, S # {}
    PROVE  \E i \in S : \A j \in S : i <= j
<1> DEFINE less == OpToRel(<, Nat)
<1>1. IsWellFoundedOn(less, Nat)
  BY NatLessThanWellFounded
<1>2. PICK i \in S : \A j \in S : ~ (<<j, i>> \in less)
  <2> HIDE DEF less
  <2> QED BY <1>1, WFMin
<1>3. \A j \in S : <<j, i>> \in Nat \X Nat
  OBVIOUS
<1>4. \A j \in S : ~ (j < i)
  BY <1>2, <1>3 DEF OpToRel
<1> QED BY <1>4

(* What yieldRules returns is the rule of the first match.                 *)
LEMMA FirstMatch ==
    ASSUME NEW s, Matches(s) # {}
    PROVE  \E i \in Matches(s) :
              /\ yieldRules(s) = RuleOrder[i]
              /\ \A j \in Matches(s) : i <= j
<1>1. Matches(s) \in SUBSET Nat
  BY DEF Matches, RuleOrder
<1>2. \E i \in Matches(s) : \A j \in Matches(s) : i <= j
  BY <1>1, FirstExists
<1> QED BY <1>2 DEF yieldRules

(* Every position in the order holds one of the rules.                     *)
LEMMA RuleAt ==
    ASSUME NEW i \in 1..Len(RuleOrder)
    PROVE  /\ i \in 1..15
           /\ i \in 1..5 => RuleOrder[i] \in SafetyRules
           /\ i = 6 => RuleOrder[i] = "manual.pause"
           /\ i \in 7..9 => RuleOrder[i] \in CriticalRules
           /\ i \in 10..12 => RuleOrder[i] \in GamingRules
           /\ i \in 13..15 => RuleOrder[i] \in ProfileRules
  BY DEF RuleOrder, SafetyRules, CriticalRules, GamingRules, ProfileRules

(* What makes a running worker yield is never a mere hold.                 *)
LEMMA MatchYields ==
    ASSUME NEW s, NEW i \in Matches(s)
    PROVE  /\ RuleAction(RuleOrder[i], s) # "run"
           /\ s.running => Yields(RuleAction(RuleOrder[i], s))
<1> DEFINE r == RuleOrder[i]
<1>1. Applies(r, s)
  BY DEF Matches
<1>2. CASE r = "safety.temperature"
  <2>1. s.running => s.gpu.temp = "critical"
    BY <1>1, <1>2 DEF Applies
  <2> QED BY <1>2, <2>1 DEF RuleAction, Yields
<1>3. CASE r # "safety.temperature"
  <2>1. RuleAction(r, s) \in {"preempt", "drain"}
    <3> HIDE DEF r
    <3> QED BY <1>3 DEF RuleAction
  <2> QED BY <2>1 DEF Yields
<1> QED BY <1>2, <1>3

(* The tiers follow the order of the rules: an earlier match is never of   *)
(* a lower tier.                                                           *)
LEMMA TierOrder ==
    ASSUME NEW s, NEW i \in 1..Len(RuleOrder), NEW j \in 1..Len(RuleOrder), i <= j
    PROVE  /\ Tier(RuleOrder[i], s) \in 1..7
           /\ Tier(RuleOrder[i], s) <= Tier(RuleOrder[j], s)
<1>1. ProfileTier(s) \in 5..7
  BY DEF ProfileTier
<1>2. \A k \in 1..Len(RuleOrder) :
         /\ k \in 1..5 => Tier(RuleOrder[k], s) = 1
         /\ k = 6 => Tier(RuleOrder[k], s) = 2
         /\ k \in 7..9 => Tier(RuleOrder[k], s) = 3
         /\ k \in 10..12 => Tier(RuleOrder[k], s) = 4
         /\ k \in 13..15 => Tier(RuleOrder[k], s) = ProfileTier(s)
  <2> TAKE k \in 1..Len(RuleOrder)
  <2> QED BY RuleAt DEF Tier, SafetyRules, CriticalRules, GamingRules, ProfileRules
<1>3. i \in 1..15 /\ j \in 1..15
  BY RuleAt
<1> QED BY <1>1, <1>2, <1>3

-----------------------------------------------------------------------------
(* What a decision says of the facts it was made from.                     *)

(* The rule a match wins with is one that matches, and the action is its.  *)
LEMMA MatchWins ==
    ASSUME NEW s, Matches(s) # {}
    PROVE  \E i \in Matches(s) :
              /\ Win(s).action = RuleAction(RuleOrder[i], s)
              /\ Win(s).rule = RuleOrder[i]
              /\ Win(s).tier = Tier(RuleOrder[i], s)
              /\ \A j \in Matches(s) : i <= j
  BY FirstMatch DEF Win

(* A running worker told to yield, or an idle one told anything but to     *)
(* hold: the three ways to a decision.                                     *)
LEMMA Outcome ==
    ASSUME NEW s
    PROVE  /\ Matches(s) # {} =>
                /\ Win(s).action # "run"
                /\ s.running => Yields(Evaluate(s).action)
                /\ ~s.running => Evaluate(s).action = "hold"
           /\ Matches(s) = {} =>
                Evaluate(s).action = IF ~s.running /\ BlockingGates(s) # {} THEN "hold" ELSE "run"
<1> DEFINE w == Win(s)
<1>1. Evaluate(s).action = ActionOf(s, w)
  BY DEF Evaluate, DecisionOf
<1>2. ASSUME Matches(s) # {}
      PROVE  w.action # "run" /\ (s.running => Yields(w.action))
  BY <1>2, MatchWins, MatchYields
<1>3. w.action \in Action
  BY WinType
<1>4. ASSUME Matches(s) = {}
      PROVE  w.action = IF ~s.running /\ BlockingGates(s) # {} THEN "hold" ELSE "run"
  BY <1>4 DEF Win
<1> HIDE DEF w
<1>5. ASSUME Matches(s) # {}, ~s.running PROVE ActionOf(s, w) = "hold"
  BY <1>2, <1>3, <1>5 DEF ActionOf, Action, Yields
<1>6. ASSUME Matches(s) # {}, s.running PROVE Yields(ActionOf(s, w))
  BY <1>2, <1>6 DEF ActionOf
<1>7. ASSUME Matches(s) = {} PROVE ActionOf(s, w) = w.action
  BY <1>4, <1>7 DEF ActionOf, Yields
<1> QED BY <1>1, <1>2, <1>4, <1>5, <1>6, <1>7 DEF w

(* An idle worker is told to run only when no rule matches and no gate     *)
(* blocks.                                                                 *)
LEMMA RunMeansClear ==
    ASSUME NEW s, ~s.running, Evaluate(s).action = "run"
    PROVE  Matches(s) = {} /\ BlockingGates(s) = {}
<1>1. "run" # "hold"
  OBVIOUS
<1> QED BY <1>1, Outcome

(* A fact that forbids any runtime makes a running worker stop at once and *)
(* an idle one hold, whatever else matches.                                *)
LEMMA UnsafePreempts ==
    ASSUME NEW s, s.power.shuttingDown \/ s.power.suspending \/ s.power.deviceLost
    PROVE  Evaluate(s).action = IF s.running THEN "preempt" ELSE "hold"
<1> DEFINE w == Win(s)
<1>1. /\ RuleOrder[1] = "safety.shutdown" /\ RuleOrder[2] = "safety.suspend"
      /\ RuleOrder[3] = "safety.device_lost" /\ 1..3 \subseteq 1..Len(RuleOrder)
  BY DEF RuleOrder
<1>2. \E k \in 1..3 : Applies(RuleOrder[k], s)
  <2>1. /\ Applies("safety.shutdown", s) <=> s.power.shuttingDown
        /\ Applies("safety.suspend", s) <=> s.power.suspending
        /\ Applies("safety.device_lost", s) <=> s.power.deviceLost
    BY DEF Applies
  <2> QED BY <1>1, <2>1
<1>3. PICK k \in 1..3 : k \in Matches(s)
  BY <1>1, <1>2 DEF Matches
<1>4. PICK i \in Matches(s) : w.action = RuleAction(RuleOrder[i], s) /\ i <= k
  BY <1>3, MatchWins
<1>5. i \in 1..3
  BY <1>3, <1>4 DEF Matches
<1>6. \A n \in 1..3 : RuleAction(RuleOrder[n], s) = "preempt"
  BY <1>1 DEF RuleAction, SafetyRules
<1>7. w.action = "preempt"
  BY <1>4, <1>5, <1>6
<1>8. Evaluate(s).action = ActionOf(s, w)
  BY DEF Evaluate, DecisionOf
<1> QED BY <1>7, <1>8 DEF ActionOf, Yields

(* No gate blocks: every timer has run out and the readings are good.      *)
LEMMA GatesOpen ==
    ASSUME NEW s, BlockingGates(s) = {}
    PROVE  /\ ~s.setupProblem
           /\ ~ (s.timers.recoveryLeft > 0)
           /\ ~ (SuppressLeft(s) > 0)
           /\ ~ (CooldownLeft(s) > 0)
           /\ telemetryUsable(s)
           /\ s.apps.processListOK
           /\ ~ (Cfg.requiredFreeVRAM > 0 /\ s.gpu.vramFree < Cfg.requiredFreeVRAM)
<1>1. \A i \in 1..7 : ~ Blocks(GateOrder[i], s)
  BY DEF BlockingGates, GateOrder
<1>2. /\ GateOrder[1] = "eligibility.setup_required" /\ GateOrder[2] = "eligibility.recovery"
      /\ GateOrder[3] = "eligibility.suppressed" /\ GateOrder[4] = "eligibility.cooldown"
      /\ GateOrder[5] = "eligibility.telemetry_unavailable"
      /\ GateOrder[6] = "eligibility.process_list_unavailable"
      /\ GateOrder[7] = "eligibility.vram_insufficient"
  BY DEF GateOrder
<1>3. /\ ~ Blocks("eligibility.setup_required", s) /\ ~ Blocks("eligibility.recovery", s)
      /\ ~ Blocks("eligibility.suppressed", s) /\ ~ Blocks("eligibility.cooldown", s)
      /\ ~ Blocks("eligibility.telemetry_unavailable", s)
      /\ ~ Blocks("eligibility.process_list_unavailable", s)
      /\ ~ Blocks("eligibility.vram_insufficient", s)
  BY <1>1, <1>2
<1> QED BY <1>3 DEF Blocks

(* No rule matches: none of the facts the rules look for holds.            *)
LEMMA NothingMatches ==
    ASSUME NEW s, Matches(s) = {}
    PROVE  \A r \in SafetyRules \cup {"manual.pause"} \cup CompetingRules : ~ Applies(r, s)
<1>1. \A i \in 1..15 : ~ Applies(RuleOrder[i], s)
  BY DEF Matches, RuleOrder
<1>2. \A r \in SafetyRules \cup {"manual.pause"} \cup CompetingRules :
         \E i \in 1..15 : RuleOrder[i] = r
  <2> TAKE r \in SafetyRules \cup {"manual.pause"} \cup CompetingRules
  <2> QED BY DEF RuleOrder, SafetyRules, CompetingRules, CriticalRules, GamingRules, ProfileRules
<1> QED BY <1>1, <1>2

=============================================================================
