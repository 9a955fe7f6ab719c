-------------------------- MODULE Decisions_proofs --------------------------
(***************************************************************************)
(* Proofs about what the controller decides from, for every configuration  *)
(* and all inputs: the evaluator over every snapshot there is, how the     *)
(* observer shares out a sample and what its windows count, the schedules  *)
(* over any days and zones, and the watch for driver resets over every     *)
(* history of dumps and crashes.                                           *)
(***************************************************************************)
EXTENDS MCDecisions, Policy_proofs, WellFoundedInduction, SequenceTheorems, FiniteSetTheorems

-----------------------------------------------------------------------------
(* The evaluator's decisions.                                              *)

(* The rule that is reported is of the highest tier that matches.          *)
LEMMA HighestTier ==
    ASSUME NEW s, NEW i \in Matches(s)
    PROVE  Evaluate(s).tier <= Tier(RuleOrder[i], s)
<1>1. PICK k \in Matches(s) :
         Win(s).tier = Tier(RuleOrder[k], s) /\ \A j \in Matches(s) : k <= j
  BY MatchWins
<1>2. k \in 1..Len(RuleOrder) /\ i \in 1..Len(RuleOrder) /\ k <= i
  BY <1>1 DEF Matches
<1>3. Evaluate(s).tier = Win(s).tier
  BY DEF Evaluate, DecisionOf
<1> QED BY <1>1, <1>2, <1>3, TierOrder

(* A running worker is never merely told to hold.                          *)
LEMMA RunningYields ==
    ASSUME NEW s, s.running
    PROVE  /\ Evaluate(s).action # "hold"
           /\ Matches(s) # {} => Yields(Evaluate(s).action)
<1>1. \A a : Yields(a) => a # "hold"
  BY DEF Yields
<1> QED BY <1>1, Outcome

(* A set of times with a latest one keeps having one when a time is added. *)
LEMMA LatestOfMore ==
    ASSUME NEW T \in SUBSET Int, NEW m \in T, \A y \in T : y <= m, NEW t \in Int
    PROVE  \E x \in T \cup {t} : \A y \in T \cup {t} : y <= x
<1>1. CASE t <= m
  BY <1>1
<1>2. CASE m < t
  <2>1. \A y \in T \cup {t} : y <= t
    BY <1>2
  <2> QED BY <2>1
<1> QED BY <1>1, <1>2

(* The promised time is that of the latest timer that runs, or none.       *)
LEMMA PromisedTime ==
    ASSUME NEW s \in SnapshotType, NEW w
    PROVE  LET n == nextLoadAt(s, w) IN
           /\ n \in Nat
           /\ s.timers.recoveryLeft \in Nat /\ SuppressLeft(s) \in Int /\ CooldownLeft(s) \in Int /\ s.modeLeft \in Nat
           /\ n # 0 =>
                /\ ~NoPromise(s, w)
                /\ s.timers.recoveryLeft <= n /\ SuppressLeft(s) <= n /\ CooldownLeft(s) <= n
                /\ w.rule = "manual.pause" => s.modeLeft <= n
                /\ \/ n = s.timers.recoveryLeft \/ n = SuppressLeft(s) \/ n = CooldownLeft(s)
                   \/ (w.rule = "manual.pause" /\ n = s.modeLeft)
<1> DEFINE a == s.timers.recoveryLeft
           b == SuppressLeft(s)
           c == CooldownLeft(s)
           U == {0, a, b, c} \cup IF w.rule = "manual.pause" THEN {s.modeLeft} ELSE {}
<1>1. a \in Nat /\ b \in Int /\ c \in Int /\ s.modeLeft \in Nat
  <2>1. /\ s.timers.recoveryLeft \in Nat /\ s.timers.sinceSuppressed \in Nat
        /\ s.timers.sinceCompeting \in Nat /\ s.modeLeft \in Nat
    BY DEF SnapshotType, SnapshotTimers
  <2>2. Cfg.suppressFor \in Nat /\ Profiles[ProfileOf(s)].cooldown \in Nat
    BY PolicyConfig, ProfileType_ DEF CfgType, ProfileType
  <2> QED BY <2>1, <2>2 DEF SuppressLeft, CooldownLeft
<1> HIDE DEF a, b, c
<1>2. \E x \in {0, a, b, c} : \A y \in {0, a, b, c} : y <= x
  <2>1. \E x \in {0, a} : \A y \in {0, a} : y <= x
    BY <1>1
  <2>2. \E x \in {0, a} \cup {b} : \A y \in {0, a} \cup {b} : y <= x
    BY <1>1, <2>1, LatestOfMore
  <2>3. \E x \in ({0, a} \cup {b}) \cup {c} : \A y \in ({0, a} \cup {b}) \cup {c} : y <= x
    BY <1>1, <2>2, LatestOfMore
  <2>4. ({0, a} \cup {b}) \cup {c} = {0, a, b, c}
    OBVIOUS
  <2> QED BY <2>3, <2>4
<1>3. \E x \in U : \A y \in U : y <= x
  <2>1. CASE w.rule = "manual.pause"
    <3>1. \E x \in {0, a, b, c} \cup {s.modeLeft} : \A y \in {0, a, b, c} \cup {s.modeLeft} : y <= x
      BY <1>1, <1>2, LatestOfMore
    <3> QED BY <2>1, <3>1
  <2>2. CASE w.rule # "manual.pause"
    BY <1>2, <2>2
  <2> QED BY <2>1, <2>2
<1>4. /\ U \subseteq Int /\ {0, a, b, c} \subseteq U
      /\ w.rule = "manual.pause" => s.modeLeft \in U
      /\ \A x \in U : x \in {0, a, b, c} \/ (w.rule = "manual.pause" /\ x = s.modeLeft)
  BY <1>1
<1> HIDE DEF U
<1>5. TimerMax(U) \in U /\ \A y \in U : y <= TimerMax(U)
  BY <1>3, Zenon DEF TimerMax
<1>6. TimerMax(U) \in Int /\ 0 <= TimerMax(U)
  BY <1>4, <1>5, Zenon
<1>7. TimerMax(U) \in Nat
  BY <1>6
<1>8. nextLoadAt(s, w) = IF NoPromise(s, w) THEN 0 ELSE TimerMax(U)
  BY DEF nextLoadAt, U, a, b, c
<1>9. nextLoadAt(s, w) \in Nat
  BY <1>7, <1>8
<1>10. ASSUME nextLoadAt(s, w) # 0
       PROVE  /\ ~NoPromise(s, w) /\ nextLoadAt(s, w) = TimerMax(U)
  BY <1>8, <1>10
<1>11. ASSUME nextLoadAt(s, w) # 0
       PROVE  /\ a <= TimerMax(U) /\ b <= TimerMax(U) /\ c <= TimerMax(U)
              /\ w.rule = "manual.pause" => s.modeLeft <= TimerMax(U)
              /\ \/ TimerMax(U) = a \/ TimerMax(U) = b \/ TimerMax(U) = c
                 \/ (w.rule = "manual.pause" /\ TimerMax(U) = s.modeLeft)
  <2>1. TimerMax(U) # 0
    BY <1>10, <1>11
  <2>2. TimerMax(U) \in {0, a, b, c} \/ (w.rule = "manual.pause" /\ TimerMax(U) = s.modeLeft)
    BY <1>4, <1>5
  <2>3. a \in U /\ b \in U /\ c \in U
    BY <1>4
  <2> QED BY <1>4, <1>5, <2>1, <2>2, <2>3
<1> QED BY <1>1, <1>9, <1>10, <1>11 DEF a, b, c

(* Every decision is well formed.                                          *)
LEMMA DecisionIsWellFormed ==
    ASSUME NEW s \in SnapshotType
    PROVE  Evaluate(s) \in DecisionType
<1>1. Win(s).tier \in 1..8 /\ Win(s).rule \in RuleName /\ Win(s).competing \in BOOLEAN
  <2>1. CASE Matches(s) # {}
    <3>1. PICK i \in Matches(s) :
             Win(s).rule = RuleOrder[i] /\ Win(s).tier = Tier(RuleOrder[i], s)
      BY <2>1, MatchWins
    <3>2. i \in 1..Len(RuleOrder)
      BY DEF Matches
    <3>3. Tier(RuleOrder[i], s) \in 1..7
      <4>1. i \in 1..15 /\ i <= i
        BY <3>2, RuleAt
      <4>2. Tier(RuleOrder[i], s) \in 1..7
        BY <3>2, <4>1, TierOrder
      <4> QED BY <4>2
    <3>4. Win(s).competing \in BOOLEAN
      BY <2>1 DEF Win
    <3> QED BY <3>1, <3>2, <3>3, <3>4 DEF RuleName
  <2>2. CASE Matches(s) = {} /\ ~s.running /\ BlockingGates(s) # {}
    <3>1. BlockingGates(s) \in SUBSET Nat
      BY DEF BlockingGates, GateOrder
    <3>2. PICK i \in BlockingGates(s) : \A j \in BlockingGates(s) : i <= j
      BY <2>2, <3>1, FirstExists
    <3>3. eligibility(s) \in {GateOrder[k] : k \in BlockingGates(s)}
      BY <3>2, Zenon DEF eligibility
    <3>4. eligibility(s) \in RuleName
      BY <3>3 DEF RuleName, BlockingGates
    <3>5. Win(s) = [action |-> "hold", rule |-> eligibility(s), tier |-> 8, competing |-> FALSE,
                    idle |-> GateIdle(eligibility(s), s)]
      BY <2>2 DEF Win
    <3> QED BY <3>4, <3>5
  <2>3. CASE Matches(s) = {} /\ ~ (~s.running /\ BlockingGates(s) # {})
    <3>1. ProfileTier(s) \in 1..8
      BY DEF ProfileTier
    <3>2. RunRule(s) \in RuleName
      BY DEF RunRule, RuleName
    <3>3. Win(s) = [action |-> "run", rule |-> RunRule(s), tier |-> ProfileTier(s),
                    competing |-> FALSE, idle |-> "STOPPED"]
      BY <2>3 DEF Win
    <3> QED BY <3>1, <3>2, <3>3
  <2> QED BY <2>1, <2>2, <2>3
<1>2. nextLoadAt(s, Win(s)) \in Nat
  BY PromisedTime
<1> QED BY <1>1, <1>2, EvaluateType DEF Shape, DecisionType

(* Losing attribution only shrinks the soft thresholds.                    *)
LEMMA SoftLimitShrinks ==
    ASSUME NEW s, NEW limit \in Nat
    PROVE  SoftLimit(s, limit) \in Nat /\ SoftLimit(s, limit) <= limit
<1>1. PICK m \in 0..90 : m = Cfg.degradedMarginPct
  BY PolicyConfig DEF CfgType
<1>2. limit * (100 - m) \in Nat /\ limit * (100 - m) <= 100 * limit
  <2>1. limit * (100 - m) = 100 * limit - limit * m
    OBVIOUS
  <2>2. limit * m \in Nat
    OBVIOUS
  <2>3. limit * (100 - m) >= 0
    <3>1. 100 - m \in Nat
      OBVIOUS
    <3> QED BY <3>1
  <2> QED BY <2>1, <2>2, <2>3
<1>3. (limit * (100 - m)) \div 100 \in Nat /\ (limit * (100 - m)) \div 100 <= limit
  <2> DEFINE n == limit * (100 - m)
  <2>1. n \in Nat /\ n <= 100 * limit
    BY <1>2
  <2> HIDE DEF n
  <2>2. n \div 100 \in Nat /\ n \div 100 <= limit
    BY <2>1
  <2> QED BY <2>2 DEF n
<1> QED BY <1>1, <1>3 DEF SoftLimit

(* An idle worker is told to run only when everything is clear.            *)
LEMMA LoadWhenClear ==
    ASSUME NEW s \in SnapshotType, ~s.running, Evaluate(s).action = "run"
    PROVE  LET g == s.gpu
               p == Profiles[ProfileOf(s)]
           IN  /\ s.power = NoPower
               /\ s.mode # "pause"
               /\ ~s.setupProblem
               /\ g.confidence # "none"
               /\ g.temp = "normal"
               /\ g.vramFree >= Cfg.requiredFreeVRAM
               /\ g.extVRAM < Cfg.extVRAMCritical
               /\ s.apps.processListOK
               /\ \/ s.apps.games = "none"
                  \/ ~p.drainOnGameProcess /\ g.confidence = "high"
               /\ s.apps.games # "onGPU"
               /\ /\ p.drainOnSoftContention
                  /\ s.timers.lastCompetingRule \in UtilRules
                  /\ g.utilTrusted
                  => g.belowSoftForClear
               /\ s.timers.recoveryLeft = 0
               /\ s.timers.sinceSuppressed >= Cfg.suppressFor
               /\ s.timers.sinceCompeting >= p.cooldown
<1> DEFINE g == s.gpu
           p == Profiles[ProfileOf(s)]
<1>1. Matches(s) = {} /\ BlockingGates(s) = {}
  BY RunMeansClear
<1>2. \A r \in SafetyRules \cup {"manual.pause"} \cup CompetingRules : ~ Applies(r, s)
  BY <1>1, NothingMatches
<1>3. /\ ~ Applies("safety.shutdown", s) /\ ~ Applies("safety.suspend", s)
      /\ ~ Applies("safety.device_lost", s) /\ ~ Applies("safety.temperature", s)
      /\ ~ Applies("manual.pause", s)
      /\ ~ Applies("contention.critical_external_vram", s)
      /\ ~ Applies("gaming.confirmed", s) /\ ~ Applies("profile.game_process", s)
      /\ ~ Applies("profile.soft_contention", s)
  BY <1>2 DEF SafetyRules, CompetingRules, CriticalRules, GamingRules, ProfileRules
<1>4. /\ ~s.setupProblem /\ ~ (s.timers.recoveryLeft > 0)
      /\ ~ (SuppressLeft(s) > 0) /\ ~ (CooldownLeft(s) > 0)
      /\ telemetryUsable(s) /\ s.apps.processListOK
      /\ ~ (Cfg.requiredFreeVRAM > 0 /\ g.vramFree < Cfg.requiredFreeVRAM)
  BY <1>1, GatesOpen
<1>5. s.power = NoPower
  <2>1. s.power \in [shuttingDown : BOOLEAN, suspending : BOOLEAN, deviceLost : BOOLEAN]
    BY DEF SnapshotType
  <2>2. ~s.power.shuttingDown /\ ~s.power.suspending /\ ~s.power.deviceLost
    BY <1>3 DEF Applies
  <2> QED BY <2>1, <2>2 DEF NoPower
<1>6. s.mode # "pause"
  BY <1>3 DEF Applies
<1>7. g.temp = "normal"
  <2>1. g.temp \in {"normal", "warm", "critical"}
    BY DEF SnapshotType, GPUType
  <2>2. g.temp # "critical" /\ g.temp # "warm"
    BY <1>3 DEF Applies
  <2> QED BY <2>1, <2>2
<1>8. g.vramFree >= Cfg.requiredFreeVRAM
  <2>1. g.vramFree \in Nat /\ Cfg.requiredFreeVRAM \in Nat
    BY PolicyConfig DEF SnapshotType, GPUType, CfgType
  <2> QED BY <1>4, <2>1
<1>9. g.extVRAM < Cfg.extVRAMCritical
  <2>1. g.extVRAM \in Nat /\ Cfg.extVRAMCritical \in Nat
    BY PolicyConfig DEF SnapshotType, GPUType, CfgType
  <2>2. ~ (g.extVRAM >= Cfg.extVRAMCritical)
    BY <1>3, <1>4 DEF Applies
  <2> QED BY <2>1, <2>2
<1>10. /\ \/ s.apps.games = "none"
          \/ ~p.drainOnGameProcess /\ g.confidence = "high"
       /\ s.apps.games # "onGPU"
  <2>1. s.apps.games \in {"none", "running", "onGPU"}
    BY DEF SnapshotType, Evidence
  <2>2. ~ gameConfirmation(s)
    BY <1>3 DEF Applies
  <2>3. ~ (p.drainOnGameProcess /\ s.apps.games # "none")
    BY <1>3 DEF Applies
  <2> QED BY <2>1, <2>2, <2>3 DEF gameConfirmation
<1>11. /\ p.drainOnSoftContention
       /\ s.timers.lastCompetingRule \in UtilRules
       /\ g.utilTrusted
       => g.belowSoftForClear
  <2>1. ~ (p.drainOnSoftContention /\ telemetryUsable(s) /\ softContention(s))
    BY <1>3 DEF Applies
  <2> QED BY <1>4, <2>1 DEF softContention, utilWasCompeting
<1>12. /\ s.timers.recoveryLeft = 0
       /\ s.timers.sinceSuppressed >= Cfg.suppressFor
       /\ s.timers.sinceCompeting >= p.cooldown
  <2>1. /\ s.timers.recoveryLeft \in Nat /\ s.timers.sinceSuppressed \in Nat
        /\ s.timers.sinceCompeting \in Nat
    BY DEF SnapshotType, SnapshotTimers
  <2>2. Cfg.suppressFor \in Nat /\ p.cooldown \in Nat
    BY PolicyConfig, ProfileType_ DEF CfgType, ProfileType
  <2>3. /\ ~ (Cfg.suppressFor - s.timers.sinceSuppressed > 0)
        /\ ~ (p.cooldown - s.timers.sinceCompeting > 0)
    BY <1>4 DEF SuppressLeft, CooldownLeft
  <2> HIDE DEF p
  <2> QED BY <1>4, <2>1, <2>2, <2>3
<1> QED BY <1>4, <1>5, <1>6, <1>7, <1>8, <1>9, <1>10, <1>11, <1>12 DEF telemetryUsable

(* The same readings, surely attributed.                                   *)
Sure(s) == [s EXCEPT !.gpu.confidence = "high"]

(* Being sure of the attribution changes nothing but the confidence.       *)
LEMMA SureFacts ==
    ASSUME NEW s \in SnapshotType
    PROVE  /\ Sure(s) \in SnapshotType
           /\ Sure(s).mode = s.mode /\ Sure(s).scheduled = s.scheduled
           /\ Sure(s).running = s.running /\ Sure(s).setupProblem = s.setupProblem
           /\ Sure(s).apps = s.apps /\ Sure(s).session = s.session
           /\ Sure(s).power = s.power /\ Sure(s).timers = s.timers
           /\ Sure(s).gpu = [s.gpu EXCEPT !.confidence = "high"]
           /\ s.gpu \in GPUType /\ Sure(s).gpu.confidence = "high"
           /\ ProfileOf(Sure(s)) = ProfileOf(s)
<1>1. s.gpu \in GPUType
  BY DEF SnapshotType
<1>2. [s.gpu EXCEPT !.confidence = "high"] \in GPUType
  BY <1>1 DEF GPUType
<1>3. Sure(s) = [s EXCEPT !.gpu = [s.gpu EXCEPT !.confidence = "high"]]
  BY DEF Sure
<1>4. Sure(s) \in SnapshotType
  BY <1>2, <1>3 DEF SnapshotType
<1>5. /\ Sure(s).mode = s.mode /\ Sure(s).scheduled = s.scheduled
      /\ Sure(s).running = s.running /\ Sure(s).setupProblem = s.setupProblem
      /\ Sure(s).apps = s.apps /\ Sure(s).session = s.session
      /\ Sure(s).power = s.power /\ Sure(s).timers = s.timers
      /\ Sure(s).gpu = [s.gpu EXCEPT !.confidence = "high"]
  BY <1>3 DEF SnapshotType
<1>6. [s.gpu EXCEPT !.confidence = "high"].confidence = "high"
  BY <1>1 DEF GPUType
<1> QED BY <1>1, <1>4, <1>5, <1>6 DEF ProfileOf

(* The soft thresholds are no higher for the less sure readings.           *)
LEMMA SureSoftLimits ==
    ASSUME NEW s \in SnapshotType
    PROVE  /\ SoftUtil(s) \in Nat /\ SoftUtil(Sure(s)) \in Nat
           /\ SoftUtil(s) <= SoftUtil(Sure(s))
           /\ SoftVRAM(s) \in Nat /\ SoftVRAM(Sure(s)) \in Nat
           /\ SoftVRAM(s) <= SoftVRAM(Sure(s))
<1> DEFINE h == Sure(s)
           p == Profiles[ProfileOf(s)]
<1>1. p.softUtil \in Nat /\ p.softVRAM \in Nat
  BY ProfileType_ DEF ProfileType
<1>2. h.gpu.confidence = "high" /\ ProfileOf(h) = ProfileOf(s)
  BY SureFacts
<1>3. SoftLimit(h, p.softUtil) = p.softUtil /\ SoftLimit(h, p.softVRAM) = p.softVRAM
  BY <1>2 DEF SoftLimit
<1>4. SoftUtil(h) = p.softUtil /\ SoftVRAM(h) = p.softVRAM
  BY <1>2, <1>3 DEF SoftUtil, SoftVRAM
<1>5. SoftUtil(s) = SoftLimit(s, p.softUtil) /\ SoftVRAM(s) = SoftLimit(s, p.softVRAM)
  BY DEF SoftUtil, SoftVRAM
<1> HIDE DEF p, h
<1>6. /\ SoftUtil(s) \in Nat /\ SoftUtil(h) \in Nat /\ SoftUtil(s) <= SoftUtil(h)
      /\ SoftVRAM(s) \in Nat /\ SoftVRAM(h) \in Nat /\ SoftVRAM(s) <= SoftVRAM(h)
  BY <1>1, <1>4, <1>5, SoftLimitShrinks
<1> QED BY <1>6 DEF h

(* Whatever rule matches when the attribution is sure matches when it is   *)
(* not, and the gates are the same.                                        *)
LEMMA SureMatches ==
    ASSUME NEW s \in SnapshotType, s.gpu.confidence = "degraded"
    PROVE  /\ Matches(Sure(s)) \subseteq Matches(s)
           /\ BlockingGates(Sure(s)) = BlockingGates(s)
<1> DEFINE h == Sure(s)
           p == Profiles[ProfileOf(s)]
<1>1. /\ h.mode = s.mode /\ h.running = s.running /\ h.setupProblem = s.setupProblem
      /\ h.apps = s.apps /\ h.session = s.session /\ h.power = s.power /\ h.timers = s.timers
      /\ h.gpu.confidence = "high" /\ ProfileOf(h) = ProfileOf(s)
  BY SureFacts
<1>2. /\ h.gpu.noneForGrace = s.gpu.noneForGrace /\ h.gpu.temp = s.gpu.temp
      /\ h.gpu.totalKnown = s.gpu.totalKnown /\ h.gpu.vramFree = s.gpu.vramFree /\ h.gpu.extVRAMGrowing = s.gpu.extVRAMGrowing
      /\ h.gpu.extVRAM = s.gpu.extVRAM /\ h.gpu.utilTrusted = s.gpu.utilTrusted
      /\ h.gpu.util = s.gpu.util /\ h.gpu.aboveSoftWindow = s.gpu.aboveSoftWindow
      /\ h.gpu.aboveCriticalWindow = s.gpu.aboveCriticalWindow
      /\ h.gpu.belowSoftForClear = s.gpu.belowSoftForClear
  <2>1. s.gpu \in GPUType /\ h.gpu = [s.gpu EXCEPT !.confidence = "high"]
    BY SureFacts
  <2> HIDE DEF h
  <2> QED BY <2>1 DEF GPUType
<1>3. telemetryUsable(h) /\ telemetryUsable(s)
  BY <1>1 DEF telemetryUsable
<1>4. /\ SoftUtil(s) \in Nat /\ SoftUtil(h) \in Nat /\ SoftUtil(s) <= SoftUtil(h)
      /\ SoftVRAM(s) \in Nat /\ SoftVRAM(h) \in Nat /\ SoftVRAM(s) <= SoftVRAM(h)
  BY SureSoftLimits
<1>5. /\ s.gpu.util \in Nat /\ s.gpu.extVRAM \in Nat
  BY DEF SnapshotType, GPUType
<1>6. gameConfirmation(h) => gameConfirmation(s)
  BY <1>1 DEF gameConfirmation
<1>7. softContention(h) => softContention(s)
  <2>1. h.gpu.extVRAM >= SoftVRAM(h) => s.gpu.extVRAM >= SoftVRAM(s)
    <3> HIDE DEF h
    <3> QED BY <1>2, <1>4, <1>5
  <2>2. utilWasCompeting(h) <=> utilWasCompeting(s)
    BY <1>1 DEF utilWasCompeting
  <2> HIDE DEF h
  <2> QED BY <1>1, <1>2, <2>1, <2>2 DEF softContention
<1>8. h.gpu.util >= SoftUtil(h) => s.gpu.util >= SoftUtil(s)
  <2> HIDE DEF h
  <2> QED BY <1>2, <1>4, <1>5
<1>9. UnclassifiedFullscreen(h) <=> UnclassifiedFullscreen(s)
  BY <1>1 DEF UnclassifiedFullscreen
<1> HIDE DEF h
<1>10. \A i \in 1..Len(RuleOrder) : Applies(RuleOrder[i], h) => Applies(RuleOrder[i], s)
  <2>1. \A r \in SafetyRules \cup {"manual.pause"} : Applies(r, h) => Applies(r, s)
    <3>1. Applies("safety.temperature", h) => Applies("safety.temperature", s)
      BY <1>1, <1>2 DEF Applies
    <3>2. ~ Applies("safety.telemetry_lost", h)
      BY <1>1 DEF Applies
    <3>3. \A r \in {"safety.shutdown", "safety.suspend", "safety.device_lost", "manual.pause"} :
             Applies(r, h) => Applies(r, s)
      BY <1>1 DEF Applies
    <3> QED BY <3>1, <3>2, <3>3 DEF SafetyRules
  <2>2. \A r \in CriticalRules : Applies(r, h) => Applies(r, s)
    BY <1>1, <1>2, <1>3 DEF Applies, CriticalRules
  <2>3. \A r \in GamingRules : Applies(r, h) => Applies(r, s)
    BY <1>1, <1>2, <1>6, <1>8, <1>9 DEF Applies, GamingRules
  <2>4. \A r \in ProfileRules : Applies(r, h) => Applies(r, s)
    BY <1>1, <1>3, <1>7, <1>9 DEF Applies, ProfileRules
  <2> QED BY <2>1, <2>2, <2>3, <2>4, RuleAt
<1>11. \A i \in 1..Len(GateOrder) : Blocks(GateOrder[i], h) <=> Blocks(GateOrder[i], s)
  <2>1. SuppressLeft(h) = SuppressLeft(s) /\ CooldownLeft(h) = CooldownLeft(s)
    BY <1>1 DEF SuppressLeft, CooldownLeft
  <2> DEFINE Gates == {"eligibility.setup_required", "eligibility.recovery",
                       "eligibility.suppressed", "eligibility.cooldown",
                       "eligibility.telemetry_unavailable",
                       "eligibility.process_list_unavailable", "eligibility.vram_insufficient"}
  <2>2. \A g \in Gates : Blocks(g, h) <=> Blocks(g, s)
    BY <1>1, <1>2, <1>3, <2>1 DEF Blocks
  <2>3. \A i \in 1..Len(GateOrder) : GateOrder[i] \in Gates
    BY DEF GateOrder
  <2> QED BY <2>2, <2>3
<1>12. Matches(h) \subseteq Matches(s)
  BY <1>10 DEF Matches
<1>13. BlockingGates(h) = BlockingGates(s)
  BY <1>11 DEF BlockingGates
<1> QED BY <1>12, <1>13 DEF h

(* Where the readings are the same but less sure, the worker yields or     *)
(* holds at least as readily and is granted no more time.                  *)
LEMMA NoBolder ==
    ASSUME NEW s \in SnapshotType, s.gpu.confidence = "degraded"
    PROVE  LET sure == Evaluate(Sure(s)) IN
           /\ Yields(sure.action) => Yields(Evaluate(s).action)
           /\ sure.action = "hold" => Evaluate(s).action # "run"
           /\ sure.action = Evaluate(s).action => Evaluate(s).grace <= sure.grace
<1> DEFINE h == Sure(s)
           p == Profiles[ProfileOf(s)]
<1>1. /\ Matches(h) \subseteq Matches(s) /\ BlockingGates(h) = BlockingGates(s)
      /\ h.running = s.running /\ ProfileOf(h) = ProfileOf(s)
  BY SureMatches, SureFacts
<1>2. \A a : Yields(a) => a # "hold" /\ a # "run"
  BY DEF Yields
<1>3. ASSUME Yields(Evaluate(h).action) PROVE Yields(Evaluate(s).action)
  <2>1. Matches(h) # {} /\ h.running
    BY <1>2, <1>3, Outcome
  <2> QED BY <1>1, <2>1, Outcome
<1>4. ASSUME Evaluate(h).action = "hold" PROVE Evaluate(s).action # "run"
  <2>1. ~h.running
    BY <1>4, RunningYields
  <2>2. Matches(h) # {} \/ BlockingGates(h) # {}
    BY <1>4, Outcome
  <2> QED BY <1>1, <2>1, <2>2, RunMeansClear
<1>5. grace(s) \in Nat /\ grace(h) \in Nat /\ grace(s) <= grace(h)
  <2>1. p.graceUnderPressure \in Nat /\ p.grace \in Nat /\ p.graceUnderPressure <= p.grace
    BY PolicyConfig, ProfileType_ DEF ProfileType
  <2> DEFINE Pressure(x) == /\ telemetryUsable(x)
                            /\ \/ x.gpu.utilTrusted /\ x.gpu.util >= SoftUtil(x)
                               \/ x.gpu.extVRAM >= SoftVRAM(x)
  <2>2. Pressure(h) => Pressure(s)
    <3>1. /\ h.gpu.extVRAM = s.gpu.extVRAM /\ h.gpu.utilTrusted = s.gpu.utilTrusted
          /\ h.gpu.util = s.gpu.util
          /\ s.gpu.util \in Nat /\ s.gpu.extVRAM \in Nat
      <4>1. s.gpu \in GPUType /\ h.gpu = [s.gpu EXCEPT !.confidence = "high"]
        BY SureFacts
      <4> HIDE DEF h
      <4> QED BY <4>1 DEF GPUType
    <3>2. telemetryUsable(s)
      BY DEF telemetryUsable
    <3>3. /\ SoftUtil(s) \in Nat /\ SoftUtil(h) \in Nat /\ SoftUtil(s) <= SoftUtil(h)
          /\ SoftVRAM(s) \in Nat /\ SoftVRAM(h) \in Nat /\ SoftVRAM(s) <= SoftVRAM(h)
      BY SureSoftLimits
    <3> HIDE DEF h
    <3> QED BY <3>1, <3>2, <3>3
  <2>3. /\ grace(s) = IF Pressure(s) THEN p.graceUnderPressure ELSE p.grace
        /\ grace(h) = IF Pressure(h) THEN p.graceUnderPressure ELSE p.grace
    BY <1>1, Zenon DEF grace
  <2> HIDE DEF Pressure, p, h
  <2> QED BY <2>1, <2>2, <2>3
<1>6. \A x : Evaluate(x).grace = IF Evaluate(x).action = "drain" THEN grace(x) ELSE 0
  BY DEF Evaluate, DecisionOf
<1>7. ASSUME Evaluate(h).action = Evaluate(s).action PROVE Evaluate(s).grace <= Evaluate(h).grace
  <2> HIDE DEF h
  <2> QED BY <1>5, <1>6, <1>7
<1> QED BY <1>3, <1>4, <1>7

-----------------------------------------------------------------------------
(* Every behaviour of the evaluator.                                       *)

(* The snapshot stays what it was, and a decision is the evaluator's.      *)
PolicyInv == snap \in SnapshotType /\ (Decided => dec = Evaluate(snap))

(* The evaluation of any snapshot keeps to the snapshot it was given.      *)
LEMMA PolicyInvariant == PolicySpec => []PolicyInv
<1>1. AnySnapshot => PolicyInv
  BY DEF AnySnapshot, PolicyInv, Decided
<1>2. PolicyInv /\ [PolicyNext]_policyVars => PolicyInv'
  BY DEF PolicyInv, PolicyNext, Decide, Read, policyVars, Decided
<1> QED BY <1>1, <1>2, PTL DEF PolicySpec

(* Decision precedence for every snapshot under every configuration: the   *)
(* rule yieldRules reports is of the highest tier among all that match.    *)
THEOREM PrecedenceHolds == PolicySpec => []HighestTierWins
<1>1. PolicyInv => HighestTierWins
  BY HighestTier DEF PolicyInv, HighestTierWins
<1> QED BY <1>1, PolicyInvariant, PTL

(* For every snapshot under every configuration Evaluate returns a well-   *)
(* formed decision, never holds a running worker, loads only when no rule  *)
(* matches and no gate blocks, and is no bolder without attribution.       *)
THEOREM DecisionsSafe == PolicySpec => []DecisionsAreSafe
<1>1. ASSUME PolicyInv PROVE DecisionsAreSafe
  <2> USE <1>1 DEF PolicyInv
  <2>1. WellFormed
    BY DecisionIsWellFormed DEF WellFormed
  <2>2. RunningNeverHeld
    BY RunningYields DEF RunningNeverHeld
  <2>3. LoadOnlyWhenClear
    BY LoadWhenClear DEF LoadOnlyWhenClear
  <2>4. DegradedIsNoBolder
    BY NoBolder DEF DegradedIsNoBolder, Sure
  <2>5. HighestTierWins
    BY HighestTier DEF HighestTierWins
  <2> QED BY <2>1, <2>2, <2>3, <2>4, <2>5 DEF DecisionsAreSafe
<1> QED BY <1>1, PolicyInvariant, PTL

-----------------------------------------------------------------------------
(* The times the owner is told.                                            *)

\* The same facts, but for the mode, its end and how long the timers have run.
SameFacts(s, t) ==
    /\ t.running = s.running /\ t.setupProblem = s.setupProblem /\ t.gpu = s.gpu /\ t.apps = s.apps
    /\ t.session = s.session /\ t.power = s.power
    /\ t.timers.lastCompetingRule = s.timers.lastCompetingRule
    /\ ProfileOf(t) = ProfileOf(s)

\* The gates that wait for no timer.
FactGates ==
    {"eligibility.setup_required", "eligibility.telemetry_unavailable",
     "eligibility.process_list_unavailable", "eligibility.vram_insufficient"}

(* On the same facts the same rules match, but for a pause, and the same    *)
(* gates block, but for the timers (yieldRules, eligibility).               *)
LEMMA FactsDecide ==
    ASSUME NEW s, NEW t, SameFacts(s, t)
    PROVE  /\ \A i \in 1..Len(RuleOrder) : RuleOrder[i] # "manual.pause" =>
                (Applies(RuleOrder[i], t) <=> Applies(RuleOrder[i], s))
           /\ \A g \in FactGates : Blocks(g, t) <=> Blocks(g, s)
<1>1. /\ t.running = s.running /\ t.setupProblem = s.setupProblem /\ t.gpu = s.gpu /\ t.apps = s.apps
      /\ t.session = s.session /\ t.power = s.power
      /\ t.timers.lastCompetingRule = s.timers.lastCompetingRule
      /\ ProfileOf(t) = ProfileOf(s)
  BY DEF SameFacts
<1>2. /\ SoftUtil(t) = SoftUtil(s) /\ SoftVRAM(t) = SoftVRAM(s)
      /\ telemetryUsable(t) <=> telemetryUsable(s)
      /\ gameConfirmation(t) <=> gameConfirmation(s)
      /\ UnclassifiedFullscreen(t) <=> UnclassifiedFullscreen(s)
      /\ utilWasCompeting(t) <=> utilWasCompeting(s)
  BY <1>1 DEF SoftUtil, SoftVRAM, SoftLimit, telemetryUsable, gameConfirmation, UnclassifiedFullscreen, utilWasCompeting
<1>3. softContention(t) <=> softContention(s)
  BY <1>1, <1>2 DEF softContention
<1>4. \A r \in SafetyRules : Applies(r, t) <=> Applies(r, s)
  BY <1>1 DEF Applies, SafetyRules
<1>5. \A r \in CriticalRules : Applies(r, t) <=> Applies(r, s)
  BY <1>1, <1>2 DEF Applies, CriticalRules
<1>6. \A r \in GamingRules : Applies(r, t) <=> Applies(r, s)
  BY <1>1, <1>2 DEF Applies, GamingRules
<1>7. \A r \in ProfileRules : Applies(r, t) <=> Applies(r, s)
  BY <1>1, <1>2, <1>3 DEF Applies, ProfileRules
<1>8. \A g \in FactGates : Blocks(g, t) <=> Blocks(g, s)
  BY <1>1, <1>2 DEF Blocks, FactGates
<1> QED BY <1>4, <1>5, <1>6, <1>7, <1>8, RuleAt

(* Time that passes runs the timers down and ends a mode, and changes       *)
(* nothing else (expireMode).                                               *)
LEMMA TimePasses ==
    ASSUME NEW s \in SnapshotType, NEW k \in Nat, NEW t, t = Later(s, k)
    PROVE  /\ t.running = s.running
           /\ SameProfile(s, k) => SameFacts(s, t)
           /\ t.timers.recoveryLeft = IF s.timers.recoveryLeft > k THEN s.timers.recoveryLeft - k ELSE 0
           /\ SuppressLeft(t) = SuppressLeft(s) - k
           /\ SameProfile(s, k) => CooldownLeft(t) = CooldownLeft(s) - k
           /\ t.mode = IF s.modeLeft # Forever /\ s.modeLeft <= k THEN "auto" ELSE s.mode
<1>1. s.timers \in SnapshotTimers /\ s.modeLeft \in Nat
  BY DEF SnapshotType
<1> DEFINE over == s.modeLeft # Forever /\ s.modeLeft <= k
           u == [s.timers EXCEPT !.sinceCompeting = @ + k, !.sinceSuppressed = @ + k,
                                 !.recoveryLeft = IF @ > k THEN @ - k ELSE 0]
<1>2. t = [s EXCEPT !.mode = IF over THEN "auto" ELSE @,
                    !.modeLeft = IF over \/ @ = Forever THEN Forever ELSE @ - k,
                    !.timers = u]
  BY <1>1 DEF Later, SnapshotType, SnapshotTimers
<1>3. /\ u.sinceCompeting = s.timers.sinceCompeting + k /\ u.sinceSuppressed = s.timers.sinceSuppressed + k
      /\ u.recoveryLeft = IF s.timers.recoveryLeft > k THEN s.timers.recoveryLeft - k ELSE 0
      /\ u.lastCompetingRule = s.timers.lastCompetingRule
  BY <1>1 DEF SnapshotTimers
<1> HIDE DEF u, over
<1>4. /\ t.running = s.running /\ t.setupProblem = s.setupProblem /\ t.gpu = s.gpu /\ t.apps = s.apps
      /\ t.session = s.session /\ t.power = s.power /\ t.timers = u
      /\ t.mode = IF over THEN "auto" ELSE s.mode
  BY <1>2 DEF SnapshotType
<1>5. SameProfile(s, k) => ProfileOf(t) = ProfileOf(s)
  BY DEF SameProfile
<1>6. SameProfile(s, k) => SameFacts(s, t)
  BY <1>3, <1>4, <1>5 DEF SameFacts
<1>7. s.timers.sinceSuppressed \in Nat /\ s.timers.sinceCompeting \in Nat
  BY <1>1 DEF SnapshotTimers
<1>8. Cfg.suppressFor \in Nat /\ Profiles[ProfileOf(s)].cooldown \in Nat
  BY PolicyConfig, ProfileType_ DEF CfgType, ProfileType
<1>9. SuppressLeft(t) = SuppressLeft(s) - k
  <2>1. t.timers.sinceSuppressed = s.timers.sinceSuppressed + k
    BY <1>3, <1>4
  <2> QED BY <1>7, <1>8, <2>1 DEF SuppressLeft
<1>10. SameProfile(s, k) => CooldownLeft(t) = CooldownLeft(s) - k
  <2>1. t.timers.sinceCompeting = s.timers.sinceCompeting + k
    BY <1>3, <1>4
  <2> QED BY <1>5, <1>7, <1>8, <2>1 DEF CooldownLeft
<1> QED BY <1>3, <1>4, <1>6, <1>9, <1>10 DEF over

(* With no pause and every timer run out the facts alone decide.            *)
LEMMA RestedFacts ==
    ASSUME NEW s \in SnapshotType, NEW t, t = Rested(s)
    PROVE  SameFacts(s, t)
<1>1. s.timers \in SnapshotTimers
  BY DEF SnapshotType
<1> DEFINE u == [s.timers EXCEPT !.sinceCompeting = @ + Profiles[ProfileOf(s)].cooldown,
                                 !.sinceSuppressed = @ + Cfg.suppressFor, !.recoveryLeft = 0]
<1>2. t = [s EXCEPT !.mode = IF @ = "pause" THEN "auto" ELSE @, !.timers = u]
  BY <1>1 DEF Rested, SnapshotType, SnapshotTimers
<1>3. u.lastCompetingRule = s.timers.lastCompetingRule
  BY <1>1 DEF SnapshotTimers
<1> HIDE DEF u
<1>4. /\ t.running = s.running /\ t.setupProblem = s.setupProblem /\ t.gpu = s.gpu /\ t.apps = s.apps
      /\ t.session = s.session /\ t.power = s.power /\ t.timers = u /\ t.scheduled = s.scheduled
      /\ t.mode = IF s.mode = "pause" THEN "auto" ELSE s.mode
  BY <1>2 DEF SnapshotType
<1>5. ProfileOf(t) = ProfileOf(s)
  BY <1>4 DEF ProfileOf
<1> QED BY <1>3, <1>4, <1>5 DEF SameFacts

(* Who is paused has a matching rule, so no gate is asked.                  *)
LEMMA PauseMatches ==
    ASSUME NEW s
    PROVE  /\ s.mode = "pause" <=> 6 \in Matches(s)
           /\ \A i \in 1..Len(RuleOrder) : RuleOrder[i] = "manual.pause" <=> i = 6
<1>1. 6 \in 1..Len(RuleOrder) /\ RuleOrder[6] = "manual.pause"
  BY DEF RuleOrder
<1>2. \A i \in 1..Len(RuleOrder) : RuleOrder[i] = "manual.pause" <=> i = 6
  BY DEF RuleOrder
<1>3. Applies("manual.pause", s) <=> s.mode = "pause"
  BY DEF Applies
<1> QED BY <1>1, <1>2, <1>3 DEF Matches

(* An idle worker that a gate blocks is not told to run.                    *)
LEMMA BlockedHolds ==
    ASSUME NEW s, ~s.running
    PROVE  /\ s.timers.recoveryLeft > 0 \/ SuppressLeft(s) > 0 \/ CooldownLeft(s) > 0 => Evaluate(s).action # "run"
           /\ s.mode = "pause" => Evaluate(s).action # "run"
<1>1. Evaluate(s).action = "run" => Matches(s) = {} /\ BlockingGates(s) = {}
  BY RunMeansClear
<1>2. BlockingGates(s) = {} => ~ (s.timers.recoveryLeft > 0) /\ ~ (SuppressLeft(s) > 0) /\ ~ (CooldownLeft(s) > 0)
  BY GatesOpen
<1> QED BY <1>1, <1>2, PauseMatches

(* Where the rule of a decision comes from (Evaluate).                      *)
LEMMA WinnerOf ==
    ASSUME NEW s
    PROVE  /\ Matches(s) # {} => \E i \in Matches(s) : Win(s).rule = RuleOrder[i] /\ Win(s).idle = RuleIdle(RuleOrder[i])
           /\ Matches(s) = {} /\ ~s.running /\ BlockingGates(s) # {} =>
                \E i \in BlockingGates(s) : Win(s).rule = GateOrder[i] /\ Win(s).idle = GateIdle(GateOrder[i], s)
           /\ Matches(s) = {} /\ ~ (~s.running /\ BlockingGates(s) # {}) =>
                Win(s).rule \in {"profile.run", "mode.ai_priority"} /\ Win(s).idle = "STOPPED"
<1>1. ASSUME Matches(s) # {}
      PROVE  \E i \in Matches(s) : Win(s).rule = RuleOrder[i] /\ Win(s).idle = RuleIdle(RuleOrder[i])
  <2>1. PICK i \in Matches(s) : yieldRules(s) = RuleOrder[i]
    BY <1>1, FirstMatch
  <2>2. Win(s).rule = yieldRules(s) /\ Win(s).idle = RuleIdle(yieldRules(s))
    BY <1>1 DEF Win
  <2> QED BY <2>1, <2>2
<1>2. ASSUME Matches(s) = {}, ~s.running, BlockingGates(s) # {}
      PROVE  \E i \in BlockingGates(s) : Win(s).rule = GateOrder[i] /\ Win(s).idle = GateIdle(GateOrder[i], s)
  <2>1. BlockingGates(s) \in SUBSET Nat
    BY DEF BlockingGates, GateOrder
  <2>2. PICK i \in BlockingGates(s) : \A j \in BlockingGates(s) : i <= j
    BY <1>2, <2>1, FirstExists
  <2>3. eligibility(s) \in {GateOrder[k] : k \in BlockingGates(s)}
    BY <2>2, Zenon DEF eligibility
  <2>4. Win(s).rule = eligibility(s) /\ Win(s).idle = GateIdle(eligibility(s), s)
    BY <1>2 DEF Win
  <2> QED BY <2>3, <2>4
<1>3. ASSUME Matches(s) = {}, ~ (~s.running /\ BlockingGates(s) # {})
      PROVE  Win(s).rule \in {"profile.run", "mode.ai_priority"} /\ Win(s).idle = "STOPPED"
  BY <1>3 DEF Win, RunRule
<1> QED BY <1>1, <1>2, <1>3

(* Where no fact and no timer blocks, no gate does.                         *)
LEMMA OpenGates ==
    ASSUME NEW s, \A g \in FactGates : ~Blocks(g, s),
           ~ (s.timers.recoveryLeft > 0), ~ (SuppressLeft(s) > 0), ~ (CooldownLeft(s) > 0)
    PROVE  BlockingGates(s) = {}
<1>1. /\ ~Blocks("eligibility.recovery", s) /\ ~Blocks("eligibility.suppressed", s) /\ ~Blocks("eligibility.cooldown", s)
  BY DEF Blocks
<1>2. \A i \in 1..Len(GateOrder) :
         GateOrder[i] \in FactGates \cup {"eligibility.recovery", "eligibility.suppressed", "eligibility.cooldown"}
  BY DEF GateOrder, FactGates
<1> QED BY <1>1, <1>2 DEF BlockingGates

(* When the promised time has come, every timer has run out, and so has a   *)
(* pause that won (nextLoadAt).                                             *)
LEMMA TimersOver ==
    ASSUME NEW s \in SnapshotType, NEW n, n = Evaluate(s).nextLoad, n # 0, SameProfile(s, n),
           NEW t, t = Later(s, n)
    PROVE  /\ n \in Nat /\ SameFacts(s, t)
           /\ ~ (t.timers.recoveryLeft > 0) /\ ~ (SuppressLeft(t) > 0) /\ ~ (CooldownLeft(t) > 0)
           /\ Win(s).rule = "manual.pause" => t.mode = "auto"
<1> DEFINE w == Win(s)
<1>1. n = nextLoadAt(s, w)
  BY DEF Evaluate, DecisionOf
<1> HIDE DEF w
<1>2. /\ n \in Nat /\ s.timers.recoveryLeft \in Nat /\ SuppressLeft(s) \in Int /\ CooldownLeft(s) \in Int
      /\ ~NoPromise(s, w)
      /\ s.timers.recoveryLeft <= n /\ SuppressLeft(s) <= n /\ CooldownLeft(s) <= n
      /\ w.rule = "manual.pause" => s.modeLeft <= n
  BY <1>1, PromisedTime
<1>3. /\ SameFacts(s, t)
      /\ t.timers.recoveryLeft = IF s.timers.recoveryLeft > n THEN s.timers.recoveryLeft - n ELSE 0
      /\ SuppressLeft(t) = SuppressLeft(s) - n /\ CooldownLeft(t) = CooldownLeft(s) - n
      /\ t.mode = IF s.modeLeft # Forever /\ s.modeLeft <= n THEN "auto" ELSE s.mode
  BY <1>2, TimePasses
<1>4. w.rule = "manual.pause" => t.mode = "auto"
  BY <1>2, <1>3 DEF NoPromise
<1> QED BY <1>2, <1>3, <1>4 DEF w

(* An idle worker does not load before the promised time, and loads at it   *)
(* when nothing but the timers and a pause held it (nextLoadAt).            *)
LEMMA NextLoadHolds ==
    ASSUME NEW s \in SnapshotType, ~s.running, NEW n, n = Evaluate(s).nextLoad, n > 0
    PROVE  /\ \A k \in 0..(n - 1) : SameProfile(s, k) => Evaluate(Later(s, k)).action # "run"
           /\ SameProfile(s, n) /\ Evaluate(Rested(s)).action = "run" => Evaluate(Later(s, n)).action = "run"
<1> DEFINE w == Win(s)
<1>1. n = nextLoadAt(s, w) /\ n # 0
  BY DEF Evaluate, DecisionOf
<1>2. w.rule = "manual.pause" => s.mode = "pause"
  <2>1. \A i \in BlockingGates(s) : GateOrder[i] # "manual.pause"
    BY DEF BlockingGates, GateOrder
  <2>2. "manual.pause" \notin {"profile.run", "mode.ai_priority"}
    OBVIOUS
  <2>3. \A i \in Matches(s) : i \in 1..Len(RuleOrder)
    BY DEF Matches
  <2>4. ASSUME w.rule = "manual.pause" PROVE 6 \in Matches(s)
    <3>1. Matches(s) # {}
      BY <2>1, <2>2, <2>4, WinnerOf
    <3>2. PICK i \in Matches(s) : w.rule = RuleOrder[i]
      BY <3>1, WinnerOf
    <3> QED BY <2>3, <2>4, <3>2, PauseMatches
  <2> QED BY <2>4, PauseMatches
<1> HIDE DEF w
<1>3. /\ n \in Nat /\ s.timers.recoveryLeft \in Nat /\ SuppressLeft(s) \in Int /\ CooldownLeft(s) \in Int /\ s.modeLeft \in Nat
      /\ ~NoPromise(s, w)
      /\ \/ n = s.timers.recoveryLeft \/ n = SuppressLeft(s) \/ n = CooldownLeft(s)
         \/ (w.rule = "manual.pause" /\ n = s.modeLeft)
  BY <1>1, PromisedTime
<1>4. ASSUME NEW k \in 0..(n - 1), SameProfile(s, k) PROVE Evaluate(Later(s, k)).action # "run"
  <2> DEFINE t == Later(s, k)
  <2>1. k \in Nat /\ k < n
    BY <1>3
  <2>2. /\ t.running = s.running
        /\ t.timers.recoveryLeft = IF s.timers.recoveryLeft > k THEN s.timers.recoveryLeft - k ELSE 0
        /\ SuppressLeft(t) = SuppressLeft(s) - k /\ CooldownLeft(t) = CooldownLeft(s) - k
        /\ t.mode = IF s.modeLeft # Forever /\ s.modeLeft <= k THEN "auto" ELSE s.mode
    BY <1>4, <2>1, TimePasses
  <2> HIDE DEF t
  <2>3. CASE n = s.timers.recoveryLeft
    <3>1. t.timers.recoveryLeft > 0
      BY <1>3, <2>1, <2>2, <2>3
    <3> QED BY <2>2, <3>1, BlockedHolds DEF t
  <2>4. CASE n = SuppressLeft(s)
    <3>1. SuppressLeft(t) > 0
      BY <1>3, <2>1, <2>2, <2>4
    <3> QED BY <2>2, <3>1, BlockedHolds DEF t
  <2>5. CASE n = CooldownLeft(s)
    <3>1. CooldownLeft(t) > 0
      BY <1>3, <2>1, <2>2, <2>5
    <3> QED BY <2>2, <3>1, BlockedHolds DEF t
  <2>6. CASE w.rule = "manual.pause" /\ n = s.modeLeft
    <3>1. ~ (s.modeLeft <= k)
      BY <1>3, <2>1, <2>6
    <3>2. t.mode = "pause"
      BY <1>2, <2>2, <2>6, <3>1
    <3> QED BY <2>2, <3>2, BlockedHolds DEF t
  <2> QED BY <1>3, <2>3, <2>4, <2>5, <2>6
<1>5. ASSUME SameProfile(s, n), Evaluate(Rested(s)).action = "run" PROVE Evaluate(Later(s, n)).action = "run"
  <2> DEFINE t == Later(s, n)
             r == Rested(s)
  <2>1. /\ SameFacts(s, t)
        /\ ~ (t.timers.recoveryLeft > 0) /\ ~ (SuppressLeft(t) > 0) /\ ~ (CooldownLeft(t) > 0)
        /\ w.rule = "manual.pause" => t.mode = "auto"
    BY <1>1, <1>5, TimersOver DEF w
  <2>2. SameFacts(s, r)
    BY RestedFacts
  <2>3. t.mode \in {"auto", s.mode}
    BY <1>3, TimePasses
  <2> HIDE DEF t, r
  <2>4. ~r.running /\ ~t.running
    BY <2>1, <2>2 DEF SameFacts
  <2>5. Matches(r) = {} /\ BlockingGates(r) = {}
    BY <1>5, <2>4, RunMeansClear DEF r
  <2>6. \A i \in 1..Len(RuleOrder) : ~Applies(RuleOrder[i], r)
    BY <2>5 DEF Matches
  <2>7. \A i \in 1..Len(RuleOrder) : RuleOrder[i] # "manual.pause" => ~Applies(RuleOrder[i], s) /\ ~Applies(RuleOrder[i], t)
    BY <2>1, <2>2, <2>6, FactsDecide
  <2>8. 6 \notin Matches(t)
    <3>1. CASE s.mode = "pause"
      <4>1. 6 \in Matches(s)
        BY <3>1, PauseMatches
      <4>2. PICK i \in Matches(s) : w.rule = RuleOrder[i]
        BY <4>1, WinnerOf DEF w
      <4>3. i \in 1..Len(RuleOrder) /\ Applies(RuleOrder[i], s)
        BY DEF Matches
      <4>4. w.rule = "manual.pause"
        BY <2>7, <4>2, <4>3
      <4>5. t.mode # "pause"
        BY <2>1, <4>4
      <4> QED BY <4>5, PauseMatches
    <3>2. CASE s.mode # "pause"
      BY <2>3, <3>2, PauseMatches
    <3> QED BY <3>1, <3>2
  <2>9. Matches(t) = {}
    <3> SUFFICES ASSUME NEW i \in Matches(t) PROVE FALSE
      OBVIOUS
    <3>1. i \in 1..Len(RuleOrder) /\ Applies(RuleOrder[i], t) /\ i # 6
      BY <2>8 DEF Matches
    <3> QED BY <2>7, <3>1, PauseMatches
  <2>10. \A g \in FactGates : ~Blocks(g, t)
    <3>1. \A g \in FactGates : \E i \in 1..Len(GateOrder) : GateOrder[i] = g
      BY DEF FactGates, GateOrder
    <3>2. \A g \in FactGates : ~Blocks(g, r)
      BY <2>5, <3>1 DEF BlockingGates
    <3> QED BY <2>1, <2>2, <3>2, FactsDecide
  <2>11. BlockingGates(t) = {}
    BY <2>1, <2>10, OpenGates
  <2>12. Evaluate(t).action = "run"
    BY <2>9, <2>11, Outcome
  <2> QED BY <2>12 DEF t
<1> QED BY <1>4, <1>5

\* What only time ends.
TimedRules == {"eligibility.recovery", "eligibility.suppressed", "eligibility.cooldown", "manual.pause"}

(* When the promised time of a wait that only time ends has come, no other  *)
(* such wait decides (classify, timed).                                     *)
LEMMA ReturnHolds ==
    ASSUME NEW s \in SnapshotType, NEW n, n = Evaluate(s).nextLoad, n > 0, Evaluate(s).rule \in TimedRules, SameProfile(s, n)
    PROVE  Evaluate(Later(s, n)).rule \notin TimedRules
<1> DEFINE t == Later(s, n)
<1>1. n # 0 /\ \A x : Evaluate(x).rule = Win(x).rule
  BY DEF Evaluate, DecisionOf
<1>2. /\ n \in Nat /\ SameFacts(s, t)
      /\ ~ (t.timers.recoveryLeft > 0) /\ ~ (SuppressLeft(t) > 0) /\ ~ (CooldownLeft(t) > 0)
      /\ Win(s).rule = "manual.pause" => t.mode = "auto"
  BY <1>1, TimersOver
<1>3. t.mode \in {"auto", s.mode}
  BY <1>2, TimePasses
<1> HIDE DEF t
<1>4. \A i \in 1..Len(RuleOrder) : RuleOrder[i] \in TimedRules <=> i = 6
  BY DEF RuleOrder, TimedRules
<1>5. \A x : \A i \in Matches(x) : i \in 1..Len(RuleOrder)
  BY DEF Matches
<1>6. 6 \notin Matches(t)
  <2> SUFFICES ASSUME t.mode = "pause" PROVE FALSE
    BY PauseMatches
  <2>1. 6 \in Matches(s)
    BY <1>3, PauseMatches
  <2>2. PICK i \in Matches(s) : Win(s).rule = RuleOrder[i]
    BY <2>1, WinnerOf
  <2>3. Win(s).rule = "manual.pause"
    BY <1>1, <1>4, <1>5, <2>2, PauseMatches
  <2> QED BY <1>2, <2>3
<1>7. CASE Matches(t) # {}
  <2>1. PICK i \in Matches(t) : Win(t).rule = RuleOrder[i]
    BY <1>7, WinnerOf
  <2> QED BY <1>1, <1>4, <1>5, <1>6, <2>1 DEF t
<1>8. CASE Matches(t) = {} /\ ~t.running /\ BlockingGates(t) # {}
  <2>1. PICK i \in BlockingGates(t) : Win(t).rule = GateOrder[i]
    BY <1>8, WinnerOf
  <2>2. i \in 1..Len(GateOrder) /\ Blocks(GateOrder[i], t)
    BY DEF BlockingGates
  <2>3. \A g \in {"eligibility.recovery", "eligibility.suppressed", "eligibility.cooldown"} : ~Blocks(g, t)
    BY <1>2 DEF Blocks
  <2>4. GateOrder[i] # "manual.pause"
    BY <2>2 DEF GateOrder
  <2> QED BY <1>1, <2>1, <2>2, <2>3, <2>4 DEF TimedRules, t
<1>9. CASE Matches(t) = {} /\ ~ (~t.running /\ BlockingGates(t) # {})
  BY <1>1, <1>9, WinnerOf DEF TimedRules, t
<1> QED BY <1>7, <1>8, <1>9

\* What the owner can be told.
OwnerCause ==
    {"ready", "busy", "loading", "stopping", "sleeping", "gpu_fault", "too_hot", "no_gpu_readings", "no_process_list",
     "setup", "paused", "gpu_busy", "game", "suppressed", "cooldown", "vram_too_small", "low_vram", "crash", "starting",
     "startup", "resume", "drained", "telemetry_recovered", "recovering", "unknown"}

OwnerReading ==
    [kind : {"available", "starting", "waiting", "problem", "paused", "unknown"},
     severity : {"ok", "attention", "wait", "problem", "paused", "unknown"},
     cause : OwnerCause, returnAt : Nat, delay : Nat, after : {"none", "game", "gpu_busy", "heat", "other"}]

(* What is read off the reason of a recovery wait (recovery).               *)
LEMMA RecoveryRead ==
    ASSUME NEW why \in Reasons
    PROVE  /\ recoveryWait(why) \in OwnerReading /\ recoveryWait(why).kind # "unknown" /\ recoveryWait(why).returnAt = 0
           /\ why \in FaultReasons => recoveryWait(why).kind = "problem" \/ recoveryWait(why).cause = "telemetry_recovered"
  BY DEF recoveryWait, OwnerReading, OwnerCause, Reasons, FaultReasons, Wait, Problem, Status

(* The owner's reading of each rule: it is never unknown, a problem for the *)
(* rules of an error state, and a time only for what time ends (classify).  *)
LEMMA RuleRead ==
    ASSUME NEW s \in SnapshotType, NEW why \in Reasons, NEW x, NEW d, d.rule \in RuleName, d.nextLoad \in Nat,
           NEW o, o = byRule(d, s, x, why)
    PROVE  /\ o \in OwnerReading /\ o.kind # "unknown"
           /\ o.returnAt # 0 => d.rule \in TimedRules /\ o.returnAt = d.nextLoad
           /\ d.rule \in {"safety.device_lost", "safety.telemetry_lost"} => o.kind = "problem"
           /\ d.rule = "eligibility.recovery" /\ why \in FaultReasons => o.kind = "problem" \/ o.cause = "telemetry_recovered"
           /\ d.rule \in {"profile.run", "mode.ai_priority"} /\ x = "ERROR" => o.kind = "problem"
<1> DEFINE rule == d.rule
           cool == Profiles[ProfileOf(s)].cooldown
           after == cooldownAfter(s.timers.lastCompetingRule)
           present(c) == [Wait(c) EXCEPT !.delay = cool]
           timed(p) == IF x \in RuntimeRunning THEN p ELSE [p EXCEPT !.returnAt = d.nextLoad]
<1>1. cool \in Nat
  BY ProfileType_ DEF ProfileType
<1>2. after \in {"none", "game", "gpu_busy", "heat", "other"}
  BY DEF cooldownAfter
<1>3. \A c \in OwnerCause : /\ Wait(c) \in OwnerReading /\ Wait(c).kind = "waiting" /\ Wait(c).returnAt = 0
                        /\ Problem(c) \in OwnerReading /\ Problem(c).kind = "problem" /\ Problem(c).returnAt = 0
                        /\ Status("paused", "paused", c) \in OwnerReading /\ Status("paused", "paused", c).kind = "paused"
                        /\ Status("paused", "paused", c).returnAt = 0
  BY DEF Wait, Problem, Status, OwnerReading
<1>4. \A c \in OwnerCause : present(c) \in OwnerReading /\ present(c).kind = "waiting" /\ present(c).returnAt = 0
  BY <1>1 DEF Wait, Status, OwnerReading
<1>5. \A p \in OwnerReading : /\ timed(p) \in OwnerReading /\ timed(p).kind = p.kind /\ timed(p).cause = p.cause
                      /\ timed(p).returnAt \in {p.returnAt, d.nextLoad}
  BY DEF OwnerReading
<1>6. /\ recoveryWait(why) \in OwnerReading /\ recoveryWait(why).kind # "unknown" /\ recoveryWait(why).returnAt = 0
      /\ why \in FaultReasons => recoveryWait(why).kind = "problem" \/ recoveryWait(why).cause = "telemetry_recovered"
  BY RecoveryRead
<1>7. \A p \in OwnerReading : [p EXCEPT !.after = after] \in OwnerReading /\ [p EXCEPT !.after = after].kind = p.kind
                      /\ [p EXCEPT !.after = after].returnAt = p.returnAt
  BY <1>2 DEF OwnerReading
<1>8. o = CASE rule = "safety.shutdown" -> Wait("stopping")
            [] rule = "safety.suspend" -> Wait("sleeping")
            [] rule = "safety.device_lost" -> Problem("gpu_fault")
            [] rule = "safety.temperature" -> Problem("too_hot")
            [] rule \in {"safety.telemetry_lost", "eligibility.telemetry_unavailable"} -> Problem("no_gpu_readings")
            [] rule = "eligibility.process_list_unavailable" -> Problem("no_process_list")
            [] rule = "eligibility.setup_required" -> Problem("setup")
            [] rule = "manual.pause" -> timed(Status("paused", "paused", "paused"))
            [] rule \in BusyRules -> present("gpu_busy")
            [] rule \in GameRules -> present("game")
            [] rule = "eligibility.suppressed" -> timed(Wait("suppressed"))
            [] rule = "eligibility.cooldown" -> [timed(Wait("cooldown")) EXCEPT !.after = after]
            [] rule = "eligibility.vram_insufficient" ->
                  IF s.totalTooSmall THEN Problem("vram_too_small") ELSE Wait("low_vram")
            [] rule = "eligibility.recovery" -> timed(recoveryWait(why))
            [] rule \in {"profile.run", "mode.ai_priority"} ->
                  IF x = "ERROR" THEN Problem("crash") ELSE Wait("starting")
            [] OTHER -> Unknown
  BY DEF byRule
<1> HIDE DEF cool, after, present, timed
<1>9. rule \in {"safety.shutdown", "safety.suspend", "safety.device_lost", "safety.temperature", "safety.telemetry_lost",
                "manual.pause", "eligibility.setup_required", "eligibility.recovery", "eligibility.suppressed",
                "eligibility.cooldown", "eligibility.telemetry_unavailable", "eligibility.process_list_unavailable",
                "eligibility.vram_insufficient", "profile.run", "mode.ai_priority"} \cup BusyRules \cup GameRules
  <2>1. \A i \in 1..Len(RuleOrder) :
           RuleOrder[i] \in {"safety.shutdown", "safety.suspend", "safety.device_lost", "safety.temperature",
                             "safety.telemetry_lost", "manual.pause"} \cup BusyRules \cup GameRules
    BY DEF RuleOrder, BusyRules, GameRules, CriticalRules
  <2>2. \A i \in 1..Len(GateOrder) :
           GateOrder[i] \in {"eligibility.setup_required", "eligibility.recovery", "eligibility.suppressed",
                             "eligibility.cooldown", "eligibility.telemetry_unavailable",
                             "eligibility.process_list_unavailable", "eligibility.vram_insufficient"}
    BY DEF GateOrder
  <2> QED BY <2>1, <2>2 DEF RuleName
<1> HIDE DEF rule
<1>10. CASE rule \in BusyRules
  <2>1. o = present("gpu_busy") /\ rule \notin {"safety.device_lost", "safety.telemetry_lost", "eligibility.recovery", "profile.run", "mode.ai_priority"}
    BY <1>8, <1>10 DEF BusyRules, GameRules, CriticalRules
  <2> QED BY <1>4, <2>1 DEF rule, OwnerCause
<1>11. CASE rule \in GameRules
  <2>1. o = present("game") /\ rule \notin {"safety.device_lost", "safety.telemetry_lost", "eligibility.recovery", "profile.run", "mode.ai_priority"}
    BY <1>8, <1>11 DEF GameRules, BusyRules, CriticalRules
  <2> QED BY <1>4, <2>1 DEF rule, OwnerCause
<1>12. CASE rule \in {"safety.shutdown", "safety.suspend"}
  <2>1. o \in {Wait("stopping"), Wait("sleeping")}
    BY <1>8, <1>12 DEF BusyRules, GameRules, CriticalRules
  <2> QED BY <1>3, <1>12, <2>1 DEF rule, OwnerCause
<1>13. CASE rule \in {"safety.device_lost", "safety.temperature", "safety.telemetry_lost", "eligibility.telemetry_unavailable",
                      "eligibility.process_list_unavailable", "eligibility.setup_required"}
  <2>1. o \in {Problem("gpu_fault"), Problem("too_hot"), Problem("no_gpu_readings"), Problem("no_process_list"), Problem("setup")}
    BY <1>8, <1>13 DEF BusyRules, GameRules, CriticalRules
  <2> QED BY <1>3, <1>13, <2>1 DEF rule, OwnerCause
<1>14. CASE rule = "manual.pause"
  <2>1. o = timed(Status("paused", "paused", "paused"))
    BY <1>8, <1>14 DEF BusyRules, GameRules, CriticalRules
  <2> QED BY <1>3, <1>5, <1>14, <2>1 DEF rule, OwnerCause, TimedRules
<1>15. CASE rule = "eligibility.suppressed"
  <2>1. o = timed(Wait("suppressed"))
    BY <1>8, <1>15 DEF BusyRules, GameRules, CriticalRules
  <2> QED BY <1>3, <1>5, <1>15, <2>1 DEF rule, OwnerCause, TimedRules
<1>16. CASE rule = "eligibility.cooldown"
  <2>1. o = [timed(Wait("cooldown")) EXCEPT !.after = after]
    BY <1>8, <1>16 DEF BusyRules, GameRules, CriticalRules
  <2>2. Wait("cooldown") \in OwnerReading /\ Wait("cooldown").kind = "waiting" /\ Wait("cooldown").returnAt = 0
    BY <1>3 DEF OwnerCause
  <2>3. timed(Wait("cooldown")) \in OwnerReading /\ timed(Wait("cooldown")).kind = "waiting"
        /\ timed(Wait("cooldown")).returnAt \in {0, d.nextLoad}
    BY <1>5, <2>2
  <2>4. o \in OwnerReading /\ o.kind = "waiting" /\ o.returnAt \in {0, d.nextLoad}
    BY <1>7, <2>1, <2>3
  <2> QED BY <1>16, <2>4 DEF rule, TimedRules
<1>17. CASE rule = "eligibility.vram_insufficient"
  <2>1. o \in {Problem("vram_too_small"), Wait("low_vram")}
    BY <1>8, <1>17 DEF BusyRules, GameRules, CriticalRules
  <2> QED BY <1>3, <1>17, <2>1 DEF rule, OwnerCause
<1>18. CASE rule = "eligibility.recovery"
  <2>1. o = timed(recoveryWait(why))
    BY <1>8, <1>18 DEF BusyRules, GameRules, CriticalRules
  <2> QED BY <1>5, <1>6, <1>18, <2>1 DEF rule, TimedRules
<1>19. CASE rule \in {"profile.run", "mode.ai_priority"}
  <2>1. o = IF x = "ERROR" THEN Problem("crash") ELSE Wait("starting")
    BY <1>8, <1>19 DEF BusyRules, GameRules, CriticalRules
  <2> QED BY <1>3, <1>19, <2>1 DEF rule, OwnerCause
<1> QED BY <1>9, <1>10, <1>11, <1>12, <1>13, <1>14, <1>15, <1>16, <1>17, <1>18, <1>19

(* What the owner is told of a decision and of the state it led to          *)
(* (DeriveOwner).                                                           *)
LEMMA OwnerTold ==
    ASSUME NEW s \in SnapshotType, NEW why \in Reasons, s.timers.recoveryFault <=> why \in FaultReasons,
           NEW d, d = Evaluate(s), NEW x,
           s.running => x \in RuntimeRunning,
           ~s.running => x = d.idle \/ (d.action = "run" /\ x \in {"LOADING", "ERROR"}),
           NEW primary \in BOOLEAN, NEW o, o = DeriveOwner(d, s, x, why, primary)
    PROVE  /\ o.kind # "unknown"
           /\ x = "ERROR" => o.kind = "problem" \/ o.cause = "telemetry_recovered"
           /\ o.returnAt \in Nat
           /\ o.returnAt # 0 => d.rule \in TimedRules /\ o.returnAt = d.nextLoad
<1> DEFINE c == classify(d, s, x, why)
           b == byRule(d, s, x, why)
<1>1. d.rule \in RuleName /\ d.nextLoad \in Nat
  BY DecisionIsWellFormed DEF DecisionType
<1>2. /\ b \in OwnerReading /\ b.kind # "unknown"
      /\ b.returnAt # 0 => d.rule \in TimedRules /\ b.returnAt = d.nextLoad
      /\ d.rule \in {"safety.device_lost", "safety.telemetry_lost"} => b.kind = "problem"
      /\ d.rule = "eligibility.recovery" /\ why \in FaultReasons => b.kind = "problem" \/ b.cause = "telemetry_recovered"
      /\ d.rule \in {"profile.run", "mode.ai_priority"} /\ x = "ERROR" => b.kind = "problem"
  BY <1>1, RuleRead
<1> HIDE DEF b
<1>3. /\ c \in OwnerReading /\ c.kind # "unknown"
      /\ c = b \/ (x \in {"READY", "BUSY", "LOADING"} /\ c.returnAt = 0)
  <2>1. CASE x \in {"READY", "BUSY"}
    <3>1. c = Status("available", "ok", IF x = "READY" THEN "ready" ELSE "busy")
      BY <2>1 DEF classify
    <3> QED BY <2>1, <3>1 DEF Status, OwnerReading, OwnerCause
  <2>2. CASE x = "LOADING"
    <3>1. c = Status("starting", "ok", "loading")
      BY <2>2 DEF classify
    <3> QED BY <2>2, <3>1 DEF Status, OwnerReading, OwnerCause
  <2>3. CASE x \notin {"READY", "BUSY", "LOADING"}
    <3>1. c = b
      BY <2>3 DEF classify, b
    <3> QED BY <1>2, <3>1
  <2> QED BY <2>1, <2>2, <2>3
<1>4. o.kind = c.kind /\ o.cause = c.cause /\ o.returnAt = c.returnAt
  <2> HIDE DEF c
  <2>1. o = c \/ o = [c EXCEPT !.severity = "attention"]
    BY DEF DeriveOwner, c
  <2> QED BY <1>3, <2>1 DEF OwnerReading
<1> HIDE DEF c
<1>5. c.returnAt \in Nat
  BY <1>3 DEF OwnerReading
<1>6. ASSUME x = "ERROR" PROVE b.kind = "problem" \/ b.cause = "telemetry_recovered"
  <2>1. ~s.running
    BY <1>6 DEF RuntimeRunning
  <2>2. d.rule = Win(s).rule /\ d.idle = IdleState(s, Win(s)) /\ d.action = ActionOf(s, Win(s))
    BY DEF Evaluate, DecisionOf
  <2>3. CASE d.action = "run"
    <3>1. Matches(s) = {} /\ BlockingGates(s) = {}
      BY <2>1, <2>3, RunMeansClear
    <3>2. d.rule \in {"profile.run", "mode.ai_priority"}
      BY <2>2, <3>1, WinnerOf
    <3> QED BY <1>2, <1>6, <3>2
  <2>4. CASE d.idle = "ERROR"
    <3>1. Win(s).idle = "ERROR"
      BY <2>2, <2>4 DEF IdleState
    <3>2. CASE Matches(s) # {}
      <4>1. PICK i \in Matches(s) : Win(s).rule = RuleOrder[i] /\ Win(s).idle = RuleIdle(RuleOrder[i])
        BY <3>2, WinnerOf
      <4>2. Win(s).rule \in {"safety.device_lost", "safety.telemetry_lost"}
        BY <3>1, <4>1 DEF RuleIdle
      <4> QED BY <1>2, <2>2, <4>2
    <3>3. CASE Matches(s) = {} /\ BlockingGates(s) # {}
      <4>1. PICK i \in BlockingGates(s) : Win(s).rule = GateOrder[i] /\ Win(s).idle = GateIdle(GateOrder[i], s)
        BY <2>1, <3>3, WinnerOf
      <4>2. Win(s).rule = "eligibility.recovery" /\ s.timers.recoveryFault
        BY <3>1, <4>1 DEF GateIdle
      <4> QED BY <1>2, <2>2, <4>2
    <3>4. CASE Matches(s) = {} /\ BlockingGates(s) = {}
      BY <3>1, <3>4, WinnerOf
    <3> QED BY <3>2, <3>3, <3>4
  <2> QED BY <1>6, <2>1, <2>3, <2>4
<1>7. x = "ERROR" => c = b
  BY <1>3
<1> QED BY <1>2, <1>3, <1>4, <1>5, <1>6, <1>7

(* Suppression is not shown as a cooldown (Evaluate's idle state).          *)
LEMMA SuppressionShows ==
    ASSUME NEW s \in SnapshotType, s.timers.sinceSuppressed < Cfg.suppressFor
    PROVE  Evaluate(s).idle # "COOLDOWN"
<1>1. s.timers.sinceSuppressed \in Nat /\ Cfg.suppressFor \in Nat
  BY PolicyConfig DEF SnapshotType, SnapshotTimers, CfgType
<1>2. SuppressLeft(s) > 0
  BY <1>1 DEF SuppressLeft
<1>3. Evaluate(s).idle = IdleState(s, Win(s))
  BY DEF Evaluate, DecisionOf
<1> QED BY <1>2, <1>3 DEF IdleState

\* A reading is of the decision, in a state it led to and for the reason of the
\* wait that the decision was made with.
ReadingInv ==
    /\ PolicyInv
    /\ reason \in Reasons \cup {"unread"}
    /\ reason # "unread" => (snap.timers.recoveryFault <=> reason \in FaultReasons)
    /\ reason = "unread" => owner = Unknown
    /\ Decided /\ reason # "unread" =>
         st \in StatesAfter(dec) /\ \E primary \in BOOLEAN : owner = DeriveOwner(dec, snap, st, reason, primary)

(* Nothing happens to a decision or its reading afterwards.                 *)
LEMMA ReadingInvariant == PolicySpec => []ReadingInv
<1>1. AnySnapshot => ReadingInv
  BY DEF AnySnapshot, ReadingInv, PolicyInv, Decided
<1>2. ReadingInv /\ [PolicyNext]_policyVars => ReadingInv'
  <2> SUFFICES ASSUME ReadingInv, [PolicyNext]_policyVars PROVE ReadingInv'
    OBVIOUS
  <2>1. PolicyInv'
    BY DEF ReadingInv, PolicyInv, PolicyNext, Decide, Read, policyVars, Decided
  <2>2. CASE Decide
    <3>1. reason = "unread" /\ reason' = reason /\ snap' = snap /\ owner' = owner
      BY <2>2 DEF Decide
    <3> QED BY <2>1, <3>1 DEF ReadingInv
  <2>3. CASE Read
    <3>1. reason # "unread" /\ reason' = reason /\ snap' = snap
          /\ \E primary \in BOOLEAN : st' \in StatesAfter(dec') /\ owner' = DeriveOwner(dec', snap, st', reason, primary)
      BY <2>3 DEF Read
    <3>2. StatesAfter(dec)' = StatesAfter(dec')
      BY <3>1 DEF StatesAfter
    <3> QED BY <2>1, <3>1, <3>2 DEF ReadingInv
  <2>4. CASE UNCHANGED policyVars
    BY <2>1, <2>4 DEF ReadingInv, policyVars, Decided, StatesAfter
  <2> QED BY <2>2, <2>3, <2>4 DEF PolicyNext
<1> QED BY <1>1, <1>2, PTL DEF PolicySpec

(* For every snapshot under every configuration, the owner is always told   *)
(* something, errors are told as problems, a suppression is not hidden, and *)
(* while the profile stays the worker loads at the promised time and not    *)
(* before, and no timer outlasts the time of return (Evaluate, DeriveOwner).*)
THEOREM OwnerToldTruly == PolicySpec => []OwnerIsToldTheTruth
<1>1. ASSUME ReadingInv PROVE OwnerIsToldTheTruth
  <2>1. snap \in SnapshotType /\ (Decided => dec = Evaluate(snap))
    BY <1>1 DEF ReadingInv, PolicyInv
  <2>2. ASSUME Decided, reason # "unread"
        PROVE  /\ owner.kind # "unknown"
               /\ st = "ERROR" => owner.kind = "problem" \/ owner.cause = "telemetry_recovered"
               /\ owner.returnAt \in Nat
               /\ owner.returnAt # 0 => dec.rule \in TimedRules /\ owner.returnAt = dec.nextLoad
    <3>1. /\ reason \in Reasons /\ (snap.timers.recoveryFault <=> reason \in FaultReasons)
          /\ st \in StatesAfter(dec)
      BY <1>1, <2>2 DEF ReadingInv
    <3>2. PICK primary \in BOOLEAN : owner = DeriveOwner(dec, snap, st, reason, primary)
      BY <1>1, <2>2 DEF ReadingInv
    <3>3. snap.running => st \in RuntimeRunning
      BY <3>1 DEF StatesAfter, RuntimeRunning
    <3>4. ~snap.running => st = dec.idle \/ (dec.action = "run" /\ st \in {"LOADING", "ERROR"})
      BY <3>1 DEF StatesAfter
    <3> QED BY <2>1, <2>2, <3>1, <3>2, <3>3, <3>4, OwnerTold
  <2>3. OwnerAlwaysKnows /\ ErrorsAreProblems
    BY <2>2 DEF OwnerAlwaysKnows, ErrorsAreProblems
  <2>4. SuppressionStaysVisible
    BY <2>1, SuppressionShows DEF SuppressionStaysVisible
  <2>5. NextLoadIsExact
    BY <2>1, NextLoadHolds DEF NextLoadIsExact
  <2>6. ReturnTimeIsABound
    <3> SUFFICES ASSUME Decided, owner.returnAt > 0, SameProfile(snap, owner.returnAt)
                 PROVE  Evaluate(Later(snap, owner.returnAt)).rule \notin TimedRules
      BY DEF ReturnTimeIsABound, TimedRules
    <3>1. reason # "unread"
      <4>1. Unknown.returnAt = 0
        BY DEF Unknown, Status
      <4> QED BY <1>1, <4>1 DEF ReadingInv
    <3>2. dec.rule \in TimedRules /\ owner.returnAt = dec.nextLoad
      BY <2>2, <3>1
    <3> QED BY <2>1, <3>2, ReturnHolds
  <2> QED BY <2>3, <2>4, <2>5, <2>6 DEF OwnerIsToldTheTruth
<1> QED BY <1>1, ReadingInvariant, PTL

-----------------------------------------------------------------------------
(* Sets of times.                                                          *)

(* A bounded set of times has a latest.                                    *)
LEMMA LatestOf ==
    ASSUME NEW T \in SUBSET Nat, T # {}, NEW b \in Nat, \A t \in T : t <= b
    PROVE  \E x \in T : \A y \in T : y <= x
<1> DEFINE D == {b - t : t \in T}
<1>1. \A t \in T : t \in Nat /\ b - t \in Nat
  OBVIOUS
<1>2. D \in SUBSET Nat /\ D # {}
  BY <1>1
<1>3. PICK d \in D : \A e \in D : d <= e
  BY <1>2, FirstExists
<1>4. PICK x \in T : d = b - x
  BY <1>3
<1>5. \A y \in T : y <= x
  <2> SUFFICES ASSUME NEW y \in T PROVE y <= x
    OBVIOUS
  <2>1. b - x <= b - y
    BY <1>3, <1>4
  <2> QED BY <1>1, <2>1
<1> QED BY <1>5

-----------------------------------------------------------------------------
(* How a sample is shared out.                                             *)

\* What a tick is given: natural numbers, whatever they are.
Observation(in) ==
    /\ in.sample.used \in Nat /\ in.sample.own \in Nat /\ in.sample.ext \in Nat /\ in.footprint \in Nat
    /\ \A e \in Oa!Engines : in.sample.ownUtil[e] \in Nat /\ in.sample.extUtil[e] \in Nat

(* The busiest of the two engines is one of them.                          *)
LEMMA BusiestOf ==
    ASSUME NEW f, \A e \in Oa!Engines : f[e] \in Nat
    PROVE  /\ Oa!Busiest(f) \in Nat
           /\ \A e \in Oa!Engines : f[e] <= Oa!Busiest(f)
           /\ \E e \in Oa!Engines : Oa!Busiest(f) = f[e]
<1>1. \E m \in {f[e] : e \in Oa!Engines} : \A e \in Oa!Engines : f[e] <= m
  <2>1. "3D" \in Oa!Engines /\ "Compute" \in Oa!Engines /\ \A e \in Oa!Engines : e = "3D" \/ e = "Compute"
    BY DEF Oa!Engines
  <2>2. f["3D"] \in Nat /\ f["Compute"] \in Nat
    BY <2>1
  <2>3. CASE f["3D"] <= f["Compute"]
    BY <2>1, <2>2, <2>3
  <2>4. CASE f["Compute"] <= f["3D"]
    BY <2>1, <2>2, <2>4
  <2> QED BY <2>2, <2>3, <2>4
<1>2. /\ Oa!Busiest(f) \in {f[e] : e \in Oa!Engines}
      /\ \A e \in Oa!Engines : f[e] <= Oa!Busiest(f)
  BY <1>1 DEF Oa!Busiest
<1> QED BY <1>2

(* Clamped percentages are natural and grow with what is clamped, and the   *)
(* clamped sum is no more than the sum of the clamped.                      *)
LEMMA Clamped ==
    ASSUME FullPct \in Nat, NEW a \in Nat, NEW b \in Nat
    PROVE  /\ Oa!clampPct(a) \in Nat
           /\ a <= b => Oa!clampPct(a) <= Oa!clampPct(b)
           /\ Oa!clampPct(a + b) <= Oa!clampPct(a) + Oa!clampPct(b)
  BY DEF Oa!clampPct, Oa!Smaller, Oa!Larger

\* The engines' use by the runtime, by the others and by both.
Owned(in) == IF in.running THEN in.sample.ownUtil ELSE [e \in Oa!Engines |-> 0]
OwnUse(in) == [e \in Oa!Engines |-> Oa!clampPct(Owned(in)[e])]
AllUse(in) == [e \in Oa!Engines |-> Oa!clampPct(in.sample.ownUtil[e] + in.sample.extUtil[e])]
ExtUse(in) == [e \in Oa!Engines |-> Oa!clampPct(in.sample.ownUtil[e] + in.sample.extUtil[e] - Owned(in)[e])]

(* The three shares add up.                                                *)
LEMMA SharesAddUp ==
    ASSUME NEW in, Observation(in), FullPct \in Nat
    PROVE  /\ Oa!Busiest(OwnUse(in)) \in Nat /\ Oa!Busiest(AllUse(in)) \in Nat /\ Oa!Busiest(ExtUse(in)) \in Nat
           /\ Oa!Busiest(ExtUse(in)) <= Oa!Busiest(AllUse(in))
           /\ Oa!Busiest(AllUse(in)) <= Oa!Busiest(ExtUse(in)) + Oa!Busiest(OwnUse(in))
<1> DEFINE own(e) == Owned(in)[e]
           all(e) == in.sample.ownUtil[e] + in.sample.extUtil[e]
<1>1. ASSUME NEW e \in Oa!Engines
      PROVE  own(e) \in Nat /\ all(e) \in Nat /\ all(e) - own(e) \in Nat
  <2>1. in.sample.ownUtil[e] \in Nat /\ in.sample.extUtil[e] \in Nat
    BY DEF Observation
  <2> QED BY <2>1 DEF Owned
<1>2. ASSUME NEW e \in Oa!Engines
      PROVE  /\ OwnUse(in)[e] \in Nat /\ AllUse(in)[e] \in Nat /\ ExtUse(in)[e] \in Nat
             /\ ExtUse(in)[e] <= AllUse(in)[e]
             /\ AllUse(in)[e] <= ExtUse(in)[e] + OwnUse(in)[e]
  <2>1. OwnUse(in)[e] = Oa!clampPct(own(e))
    BY DEF OwnUse
  <2>11. AllUse(in)[e] = Oa!clampPct(all(e))
    BY DEF AllUse
  <2>12. ExtUse(in)[e] = Oa!clampPct(all(e) - own(e))
    <3>1. in.sample.ownUtil[e] \in Nat /\ in.sample.extUtil[e] \in Nat /\ own(e) \in Nat
      BY <1>1 DEF Observation
    <3>2. in.sample.ownUtil[e] + in.sample.extUtil[e] - Owned(in)[e] = all(e) - own(e)
      BY <3>1
    <3> QED BY <3>2 DEF ExtUse
  <2> HIDE DEF own, all
  <2>2. all(e) - own(e) <= all(e) /\ (all(e) - own(e)) + own(e) = all(e)
    BY <1>1
  <2>3. /\ Oa!clampPct(own(e)) \in Nat /\ Oa!clampPct(all(e)) \in Nat /\ Oa!clampPct(all(e) - own(e)) \in Nat
        /\ Oa!clampPct(all(e) - own(e)) <= Oa!clampPct(all(e))
        /\ Oa!clampPct((all(e) - own(e)) + own(e)) <= Oa!clampPct(all(e) - own(e)) + Oa!clampPct(own(e))
    BY <1>1, <2>2, Clamped
  <2> QED BY <2>1, <2>11, <2>12, <2>2, <2>3
<1>3. /\ Oa!Busiest(OwnUse(in)) \in Nat /\ \A e \in Oa!Engines : OwnUse(in)[e] <= Oa!Busiest(OwnUse(in))
  BY <1>2, BusiestOf
<1>4. /\ Oa!Busiest(AllUse(in)) \in Nat /\ \A e \in Oa!Engines : AllUse(in)[e] <= Oa!Busiest(AllUse(in))
  BY <1>2, BusiestOf
<1>5. /\ Oa!Busiest(ExtUse(in)) \in Nat /\ \A e \in Oa!Engines : ExtUse(in)[e] <= Oa!Busiest(ExtUse(in))
  BY <1>2, BusiestOf
<1>6. PICK e \in Oa!Engines : Oa!Busiest(AllUse(in)) = AllUse(in)[e]
  BY <1>2, BusiestOf
<1>7. PICK g \in Oa!Engines : Oa!Busiest(ExtUse(in)) = ExtUse(in)[g]
  BY <1>2, BusiestOf
<1>8. ExtUse(in)[g] <= AllUse(in)[g] /\ AllUse(in)[g] <= Oa!Busiest(AllUse(in)) /\ AllUse(in)[g] \in Nat
  BY <1>2, <1>4
<1>9. /\ AllUse(in)[e] <= ExtUse(in)[e] + OwnUse(in)[e]
      /\ ExtUse(in)[e] <= Oa!Busiest(ExtUse(in)) /\ OwnUse(in)[e] <= Oa!Busiest(OwnUse(in))
      /\ ExtUse(in)[e] \in Nat /\ OwnUse(in)[e] \in Nat
  BY <1>2, <1>3, <1>5
<1> QED BY <1>3, <1>4, <1>5, <1>6, <1>7, <1>8, <1>9

(* Whatever a tick is given: own and external memory cover what is used,    *)
(* own and external use cover the busiest engine, what a sample gives to    *)
(* another process stays external, and a worker alone is not its own        *)
(* contention (Split, ownVRAM, gpu).                                        *)
LEMMA SharedOut ==
    ASSUME NEW in, Observation(in), NEW conf \in {"degraded", "high"}, FullPct \in Nat, Required \in Nat,
           ~in.sample.listed => conf = "degraded"
    PROVE  LET m == Oa!gpu(in, conf)
           IN /\ m.own + m.ext >= in.sample.used
              /\ m.util + m.ownUtil >= m.totalUtil
              /\ m.util <= m.totalUtil
              /\ ~in.running => m.own = 0
              /\ in.sample.listed => m.ext >= in.sample.ext
              /\ conf = "degraded" /\ in.running /\ in.sample.own = 0 /\ in.sample.ext = 0
                   /\ in.sample.used <= (IF in.footprint > 0 THEN in.footprint ELSE Required)
                   => m.ext = 0
<1> DEFINE m == Oa!gpu(in, conf)
<1>1. /\ in.sample.used \in Nat /\ in.sample.own \in Nat /\ in.sample.ext \in Nat /\ in.footprint \in Nat
  BY DEF Observation
<1>2. /\ m.util = IF conf = "high" THEN Oa!Split(in).external ELSE Oa!Split(in).total
      /\ m.totalUtil = Oa!Split(in).total /\ m.ownUtil = Oa!Split(in).own
      /\ m.own = IF conf = "high" THEN Oa!Split(in).ownBytes ELSE Oa!ownVRAM(in)
      /\ m.ext = IF conf = "high" THEN Oa!Split(in).externalBytes
                 ELSE Oa!Larger(in.sample.used - m.own, Oa!externalMeasured(in))
  BY DEF Oa!gpu
<1>3. CASE in.sample.listed
  <2>1. /\ Oa!Split(in).total = Oa!Busiest(AllUse(in)) /\ Oa!Split(in).own = Oa!Busiest(OwnUse(in))
        /\ Oa!Split(in).external = Oa!Busiest(ExtUse(in))
        /\ Oa!Split(in).ownBytes = IF in.running THEN in.sample.own ELSE 0
        /\ Oa!Split(in).externalBytes =
             Oa!Larger(in.sample.ext + in.sample.own - Oa!Split(in).ownBytes, in.sample.used - Oa!Split(in).ownBytes)
    BY <1>3 DEF Oa!Split, AllUse, OwnUse, ExtUse, Owned
  <2>2. m.util + m.ownUtil >= m.totalUtil /\ m.util <= m.totalUtil
    BY <1>2, <2>1, SharesAddUp
  <2> HIDE DEF m
  <2>3. CASE conf = "high"
    <3>1. /\ m.own = IF in.running THEN in.sample.own ELSE 0
          /\ m.ext = Oa!Larger(in.sample.ext + in.sample.own - m.own, in.sample.used - m.own)
      BY <1>2, <2>1, <2>3
    <3>2. /\ m.own + m.ext >= in.sample.used /\ (~in.running => m.own = 0) /\ m.ext >= in.sample.ext
      <4>1. m.own \in Nat /\ m.own <= in.sample.own
        BY <1>1, <3>1
      <4> QED BY <1>1, <3>1, <4>1 DEF Oa!Larger
    <3> QED BY <2>2, <2>3, <3>2 DEF m
  <2>4. CASE conf = "degraded"
    <3>1. Oa!externalMeasured(in) = in.sample.ext + (IF in.running THEN 0 ELSE in.sample.own)
      BY <1>3 DEF Oa!externalMeasured
    <3>2. /\ m.own = Oa!ownVRAM(in)
          /\ m.ext = Oa!Larger(in.sample.used - m.own, Oa!externalMeasured(in))
      BY <1>2, <2>4
    <3>3. Oa!ownVRAM(in) \in Nat /\ (~in.running => Oa!ownVRAM(in) = 0)
      <4>1. CASE ~in.running
        BY <4>1 DEF Oa!ownVRAM
      <4>2. CASE in.running
        BY <1>1, <1>3, <3>1, <4>2 DEF Oa!ownVRAM, Oa!Smaller, Oa!Larger
      <4> QED BY <4>1, <4>2
    <3>4. m.own + m.ext >= in.sample.used /\ (~in.running => m.own = 0) /\ m.ext >= in.sample.ext
      BY <1>1, <3>1, <3>2, <3>3 DEF Oa!Larger
    <3>5. in.running /\ in.sample.own = 0 /\ in.sample.ext = 0
            /\ in.sample.used <= (IF in.footprint > 0 THEN in.footprint ELSE Required) => m.ext = 0
      BY <1>1, <1>3, <3>1, <3>2 DEF Oa!ownVRAM, Oa!Smaller, Oa!Larger
    <3> QED BY <2>2, <3>4, <3>5 DEF m
  <2> QED BY <2>3, <2>4
<1>4. CASE ~in.sample.listed
  <2>1. /\ Oa!Split(in).total = Oa!Busiest(AllUse(in)) /\ Oa!Split(in).own = 0
        /\ Oa!Split(in).external = Oa!Split(in).total
    BY <1>4 DEF Oa!Split, AllUse
  <2>2. m.util + m.ownUtil >= m.totalUtil /\ m.util <= m.totalUtil
    BY <1>2, <2>1, SharesAddUp
  <2> HIDE DEF m
  <2>3. Oa!externalMeasured(in) = 0
    BY <1>4 DEF Oa!externalMeasured
  <2>4. /\ m.own = Oa!ownVRAM(in)
        /\ m.ext = Oa!Larger(in.sample.used - m.own, Oa!externalMeasured(in))
    BY <1>2, <1>4
  <2>5. Oa!ownVRAM(in) \in Nat /\ (~in.running => Oa!ownVRAM(in) = 0)
    BY <1>1, <1>4, <2>3 DEF Oa!ownVRAM, Oa!Smaller, Oa!Larger
  <2>6. m.own + m.ext >= in.sample.used /\ (~in.running => m.own = 0)
    BY <1>1, <2>3, <2>4, <2>5 DEF Oa!Larger
  <2>7. in.running /\ in.sample.own = 0 /\ in.sample.ext = 0
          /\ in.sample.used <= (IF in.footprint > 0 THEN in.footprint ELSE Required) => m.ext = 0
    BY <1>1, <1>4, <2>3, <2>4 DEF Oa!ownVRAM, Oa!Smaller, Oa!Larger
  <2> QED BY <1>4, <2>2, <2>6, <2>7 DEF m
<1> QED BY <1>3, <1>4

(* The samples of this module are observations; without the processes'      *)
(* counters they are never fully trusted.                                   *)
LEMMA InputsAreObservations ==
    ASSUME NEW in \in AccountInputs
    PROVE  Observation(in) /\ (~in.sample.listed => Oa!confidence(in) # "high")
<1>1. PICK used \in 0 .. 4, own \in 0 .. 3, ext \in 0 .. 3, a \in {0, 3}, b \in {0, 2}, c \in {0, 4},
           l \in BOOLEAN, o \in BOOLEAN, r \in BOOLEAN, fp \in {0, 2} :
         in = AccountInput(used, own, ext, a, b, c, l, o, r, fp)
  BY SMTT(60) DEF AccountInputs
<1>2. ASSUME NEW x \in Nat, NEW y \in Nat
      PROVE  \A e \in Oa!Engines : Util(x, y)[e] \in Nat
  <2>1. /\ Util(x, y)["3D"] = x /\ Util(x, y)["Compute"] = y
    BY DEF Util
  <2> QED BY <2>1 DEF Oa!Engines
<1>3. /\ in.sample.used = used /\ in.sample.own = (IF l /\ r /\ o THEN own ELSE 0)
      /\ in.sample.ext = (IF l THEN ext ELSE 0) /\ in.footprint = fp
      /\ in.sample.ownUtil = (IF r /\ (o \/ ~l) THEN Util(a, 1) ELSE Util(0, 0))
      /\ in.sample.extUtil = Util(b, c)
  BY <1>1 DEF AccountInput, Input, Sample
<1>4. \A e \in Oa!Engines : in.sample.ownUtil[e] \in Nat /\ in.sample.extUtil[e] \in Nat
  BY <1>2, <1>3
<1>5. Observation(in)
  BY <1>3, <1>4 DEF Observation
<1>6. ~in.sample.listed => Oa!confidence(in) # "high"
  BY DEF Oa!confidence
<1> QED BY <1>5, <1>6

\* The facts of the last tick are those of what it was given.
FactsAreOf ==
    part = "account" =>
        \/ facts.conf = "none"
        \/ /\ facts.in \in AccountInputs
           /\ facts.conf \in {"degraded", "high"}
           /\ ~facts.in.sample.listed => facts.conf = "degraded"
           /\ LET m == Oa!gpu(facts.in, facts.conf)
              IN /\ facts.own = m.own /\ facts.ext = m.ext /\ facts.util = m.util
                 /\ facts.ownUtil = m.ownUtil /\ facts.totalUtil = m.totalUtil

(* A tick reports what it makes of its sample.                              *)
LEMMA TickTells ==
    ASSUME part = "account", part' = part, Oa!Next
    PROVE  FactsAreOf'
<1>1. PICK in \in AccountInputs : \E t : Oa!Observe(t, in)
  BY DEF Oa!Next, Oa!Tick
<1>2. PICK t : Oa!Observe(t, in)
  BY <1>1
<1> DEFINE conf == Oa!confidence(in)
           m == Oa!gpu(in, conf)
<1>3. conf \in {"none", "degraded", "high"}
  BY DEF Oa!confidence
<1> HIDE DEF conf
<1>4. CASE conf = "none"
  <2>1. facts' = [Oa!NoFacts EXCEPT !.noneFor = t - noneSince']
    BY <1>2, <1>4 DEF Oa!Observe, conf
  <2>2. facts'.conf = "none"
    BY <2>1 DEF Oa!NoFacts
  <2> QED BY <2>2 DEF FactsAreOf
<1>5. CASE conf # "none"
  <2>1. /\ facts'.conf = conf /\ facts'.in = in
        /\ facts'.own = m.own /\ facts'.ext = m.ext /\ facts'.util = m.util
        /\ facts'.ownUtil = m.ownUtil /\ facts'.totalUtil = m.totalUtil
    BY <1>2, <1>5 DEF Oa!Observe, conf
  <2>9. ~in.sample.listed => conf = "degraded"
    BY <1>3, <1>5, InputsAreObservations DEF conf
  <2> QED BY <1>3, <1>5, <2>1, <2>9 DEF FactsAreOf, m
<1> QED BY <1>4, <1>5

(* For any capacities, tolerances and footprints: the GPU's memory and use   *)
(* are shared out between the worker and everything else without a rest,     *)
(* another process's memory is never hidden behind the worker's footprint,   *)
(* and the worker alone is not its own contention (Split, ownVRAM, gpu).     *)
THEOREM MemoryIsShared == Spec => []MemoryIsAttributed
<1>1. Init => FactsAreOf
  BY DEF Init, Oa!Init, Oa!NoFacts, FactsAreOf
<1>2. FactsAreOf /\ [Next]_vars => FactsAreOf'
  <2> SUFFICES ASSUME FactsAreOf, [Next]_vars PROVE FactsAreOf'
    OBVIOUS
  <2>1. \/ UNCHANGED <<part, facts>>
        \/ part = "account" /\ part' = part /\ Oa!Next
        \/ part # "account" /\ part' = part
    BY DEF Next, vars, windowsVars, PolicyMoves, ObMoves, ApMoves, GlMoves, ScMoves, GrMoves, OaMoves, ArMoves
  <2>2. CASE UNCHANGED <<part, facts>>
    BY <2>2 DEF FactsAreOf
  <2>3. CASE part # "account" /\ part' = part
    BY <2>3 DEF FactsAreOf
  <2> QED BY <2>1, <2>2, <2>3, TickTells
<1>3. FactsAreOf => MemoryIsAttributed
  <2> SUFFICES ASSUME FactsAreOf, part = "account", facts.conf # "none"
               PROVE  Oa!DemandIsCovered /\ Oa!OthersNeverHidden /\ Oa!LoadIsNotContention
    <3>1. CASE facts.conf = "none"
      BY <3>1 DEF MemoryIsAttributed, Oa!DemandIsCovered, Oa!OthersNeverHidden, Oa!LoadIsNotContention
    <3> QED BY <3>1 DEF MemoryIsAttributed
  <2>1. FullPct \in Nat /\ Required \in Nat
    BY ConstantsAssumption DEF Ob!BoundsAssumption
  <2>2. facts.in \in AccountInputs /\ facts.conf \in {"degraded", "high"}
    BY DEF FactsAreOf
  <2>3. Observation(facts.in)
    BY <2>2, InputsAreObservations
  <2> QED BY <2>1, <2>2, <2>3, SharedOut
        DEF FactsAreOf, Oa!DemandIsCovered, Oa!OthersNeverHidden, Oa!LoadIsNotContention
<1> QED BY <1>1, <1>2, <1>3, PTL DEF Spec

-----------------------------------------------------------------------------
(* The observer's windows.                                                 *)

\* What a tick showed: nothing, or what it made of an input.
Shown ==
    {[t |-> t, conf |-> "none"] : t \in Nat \ {0}} \cup
    {[t |-> t, conf |-> c, trusted |-> Ob!gpu(in, c).trusted, util |-> Ob!gpu(in, c).util, ext |-> Ob!gpu(in, c).ext] :
        t \in Nat \ {0}, c \in {"degraded", "high"}, in \in Inputs}

\* Of any history h of ticks: the observation from i on has no gap, the ticks
\* from which on all are in K, and when the first of these was.
UnbrokenIn(h, i) == \A j \in i + 1 .. Len(h) : h[j].t >= h[j - 1].t /\ h[j].t - h[j - 1].t <= Gap
From(h, K) == {i \in 1 .. Len(h) : UnbrokenIn(h, i) /\ i .. Len(h) \subseteq K}
Begin(h, K) == IF From(h, K) = {} THEN 0 ELSE h[CHOOSE i \in From(h, K) : \A j \in From(h, K) : i <= j].t

\* The observation is broken before time t.
BreaksAt(h, t) == Len(h) > 0 /\ (t < h[Len(h)].t \/ t - h[Len(h)].t > Gap)

(* Every tick has a time.                                                  *)
LEMMA ShownTime ==
    ASSUME NEW e \in Shown
    PROVE  e.t \in Nat /\ e.t >= 1 /\ e.conf \in {"none", "degraded", "high"}
  BY DEF Shown

(* One more tick.                                                          *)
LEMMA OneMore ==
    ASSUME NEW h \in Seq(Shown), NEW e \in Shown
    PROVE  /\ Append(h, e) \in Seq(Shown) /\ Len(h) \in Nat /\ Len(Append(h, e)) = Len(h) + 1
           /\ Append(h, e)[Len(h) + 1] = e
           /\ \A i \in 1 .. Len(h) : Append(h, e)[i] = h[i] /\ h[i] \in Shown
  OBVIOUS

(* What was unbroken stays so unless the observation breaks.               *)
LEMMA UnbrokenNext ==
    ASSUME NEW h \in Seq(Shown), NEW e \in Shown, NEW i \in 1 .. Len(h) + 1
    PROVE  UnbrokenIn(Append(h, e), i) <=>
              i = Len(h) + 1 \/ (UnbrokenIn(h, i) /\ ~BreaksAt(h, e.t))
<1> DEFINE g == Append(h, e)
           n == Len(h)
           Step(f, j) == f[j].t >= f[j - 1].t /\ f[j].t - f[j - 1].t <= Gap
<1>1. /\ n \in Nat /\ Len(g) = n + 1 /\ g[n + 1] = e
      /\ \A j \in 1 .. n : g[j] = h[j] /\ h[j] \in Shown
  BY OneMore
<1>2. UnbrokenIn(g, i) <=> \A j \in i + 1 .. n + 1 : Step(g, j)
  BY <1>1 DEF UnbrokenIn
<1>3. UnbrokenIn(h, i) <=> \A j \in i + 1 .. n : Step(h, j)
  BY DEF UnbrokenIn
<1>4. \A j \in i + 1 .. n : Step(g, j) <=> Step(h, j)
  <2> SUFFICES ASSUME NEW j \in i + 1 .. n PROVE Step(g, j) <=> Step(h, j)
    OBVIOUS
  <2>1. j \in 1 .. n /\ j - 1 \in 1 .. n
    BY <1>1
  <2>2. g[j] = h[j] /\ g[j - 1] = h[j - 1]
    BY <1>1, <2>1
  <2> QED BY <2>2
<1>5. CASE i = n + 1
  BY <1>1, <1>2, <1>5
<1>6. CASE i # n + 1
  <2>1. i \in 1 .. n /\ n \in 1 .. n /\ n > 0
    BY <1>1, <1>6
  <2>2. h[n].t \in Nat /\ e.t \in Nat /\ g[n] = h[n] /\ Gap \in Nat
    BY <1>1, <2>1, ShownTime, ConstantsAssumption DEF Ob!BoundsAssumption
  <2>3. Step(g, n + 1) <=> ~BreaksAt(h, e.t)
    BY <1>1, <2>1, <2>2 DEF BreaksAt
  <2>4. \A j : j \in i + 1 .. n + 1 <=> j \in i + 1 .. n \/ j = n + 1
    BY <1>1, <2>1
  <2> HIDE DEF Step, g, n
  <2> QED BY <1>2, <1>3, <1>4, <1>6, <2>3, <2>4 DEF n, g
<1> QED BY <1>5, <1>6

(* A condition's run begins with the tick at which it begins to hold, and   *)
(* goes on while it holds at every tick of an unbroken observation.         *)
LEMMA BeginNext ==
    ASSUME NEW h \in Seq(Shown), NEW e \in Shown, NEW K, NEW L,
           \A i \in 1 .. Len(h) : i \in K <=> i \in L
    PROVE  Begin(Append(h, e), L) =
              IF Len(h) + 1 \notin L THEN 0
              ELSE IF BreaksAt(h, e.t) \/ Begin(h, K) = 0 THEN e.t ELSE Begin(h, K)
<1> DEFINE g == Append(h, e)
           n == Len(h)
           F == From(h, K)
           G == From(g, L)
<1>1. /\ n \in Nat /\ Len(g) = n + 1 /\ g[n + 1] = e
      /\ \A j \in 1 .. n : g[j] = h[j] /\ h[j] \in Shown
  BY OneMore
<1>2. F \subseteq 1 .. n /\ G \subseteq 1 .. n + 1
  BY <1>1 DEF From
<1>3. \A i \in 1 .. n + 1 : UnbrokenIn(g, i) <=> i = n + 1 \/ (UnbrokenIn(h, i) /\ ~BreaksAt(h, e.t))
  BY UnbrokenNext
<1>4. \A i \in 1 .. n : i .. n + 1 \subseteq L <=> i .. n \subseteq K /\ n + 1 \in L
  <2> SUFFICES ASSUME NEW i \in 1 .. n PROVE i .. n + 1 \subseteq L <=> i .. n \subseteq K /\ n + 1 \in L
    OBVIOUS
  <2>1. \A j : /\ j \in i .. n + 1 <=> j \in i .. n \/ j = n + 1
               /\ j \in i .. n => j \in 1 .. n
    BY <1>1
  <2>2. \A j \in i .. n : j \in K <=> j \in L
    BY <2>1
  <2> QED BY <2>1, <2>2
<1>5. /\ n + 1 \in G <=> n + 1 \in L
      /\ \A i \in 1 .. n : i \in G <=> i \in F /\ n + 1 \in L /\ ~BreaksAt(h, e.t)
  <2>1. n + 1 .. n + 1 = {n + 1}
    BY <1>1
  <2>2. n + 1 \in G <=> n + 1 \in L
    BY <1>1, <1>3, <2>1 DEF From
  <2>3. ASSUME NEW i \in 1 .. n PROVE i \in G <=> i \in F /\ n + 1 \in L /\ ~BreaksAt(h, e.t)
    <3>1. i \in 1 .. n + 1 /\ i # n + 1
      BY <1>1
    <3>2. i \in G <=> UnbrokenIn(g, i) /\ i .. n + 1 \subseteq L
      BY <1>1, <3>1 DEF From
    <3>3. i \in F <=> UnbrokenIn(h, i) /\ i .. n \subseteq K
      BY DEF From
    <3>4. /\ UnbrokenIn(g, i) <=> UnbrokenIn(h, i) /\ ~BreaksAt(h, e.t)
          /\ i .. n + 1 \subseteq L <=> i .. n \subseteq K /\ n + 1 \in L
      BY <1>3, <1>4, <3>1
    <3> QED BY <3>2, <3>3, <3>4, Zenon
  <2> QED BY <2>2, <2>3
<1>6. /\ Begin(h, K) = IF F = {} THEN 0 ELSE h[CHOOSE i \in F : \A j \in F : i <= j].t
      /\ Begin(g, L) = IF G = {} THEN 0 ELSE g[CHOOSE i \in G : \A j \in G : i <= j].t
  BY DEF Begin
<1> HIDE DEF g, n, F, G
<1>7. CASE n + 1 \notin L
  <2>1. G = {}
    <3>1. \A i \in 1 .. n + 1 : i = n + 1 \/ i \in 1 .. n
      BY <1>1
    <3> QED BY <1>2, <1>5, <1>7, <3>1
  <2> QED BY <1>6, <1>7, <2>1 DEF g, n
<1>8. F # {} => /\ \E i \in F : \A j \in F : i <= j
                /\ Begin(h, K) \in Nat /\ Begin(h, K) >= 1
  <2> SUFFICES ASSUME F # {} PROVE /\ \E i \in F : \A j \in F : i <= j
                                   /\ Begin(h, K) \in Nat /\ Begin(h, K) >= 1
    OBVIOUS
  <2>1. F \in SUBSET Nat
    BY <1>2
  <2>2. \E i \in F : \A j \in F : i <= j
    BY <2>1, FirstExists
  <2>3. (CHOOSE i \in F : \A j \in F : i <= j) \in F
    BY <2>2
  <2>4. h[CHOOSE i \in F : \A j \in F : i <= j] \in Shown
    BY <1>1, <1>2, <2>3
  <2> QED BY <1>6, <2>2, <2>4, ShownTime
<1>9. CASE n + 1 \in L /\ (BreaksAt(h, e.t) \/ F = {})
  <2>1. G = {n + 1}
    <3>1. \A i \in 1 .. n + 1 : i = n + 1 \/ i \in 1 .. n
      BY <1>1
    <3> QED BY <1>2, <1>5, <1>9, <3>1
  <2>2. (CHOOSE i \in G : \A j \in G : i <= j) = n + 1
    BY <1>1, <2>1
  <2>3. Begin(g, L) = e.t
    BY <1>1, <1>6, <2>1, <2>2
  <2>4. BreaksAt(h, e.t) \/ Begin(h, K) = 0
    BY <1>6, <1>9
  <2> QED BY <1>9, <2>3, <2>4 DEF g, n
<1>10. CASE n + 1 \in L /\ ~BreaksAt(h, e.t) /\ F # {}
  <2>1. G = F \cup {n + 1}
    <3>1. \A i \in 1 .. n + 1 : i = n + 1 \/ i \in 1 .. n
      BY <1>1
    <3>2. \A i : i \in G <=> i \in F \/ i = n + 1
      BY <1>1, <1>2, <1>5, <1>10, <3>1
    <3> QED BY <3>2
  <2>2. PICK m \in F : \A j \in F : m <= j
    BY <1>8, <1>10
  <2>3. m \in 1 .. n /\ F \subseteq 1 .. n
    BY <1>2
  <2>4. (CHOOSE i \in F : \A j \in F : i <= j) = m
    <3>1. \A i \in F : (\A j \in F : i <= j) => i = m
      BY <2>2, <2>3
    <3> QED BY <2>2, <3>1
  <2>5. (CHOOSE i \in G : \A j \in G : i <= j) = m
    <3>1. m \in G /\ \A j \in G : m <= j
      BY <1>1, <2>1, <2>2, <2>3
    <3>2. \A i \in G : (\A j \in G : i <= j) => i = m
      BY <1>1, <2>1, <2>3, <3>1
    <3> QED BY <3>1, <3>2
  <2>6. G # {}
    BY <2>1
  <2>7. Begin(g, L) = g[m].t /\ Begin(h, K) = h[m].t
    BY <1>6, <1>10, <2>4, <2>5, <2>6
  <2>8. Begin(g, L) = Begin(h, K)
    BY <1>1, <2>3, <2>7
  <2>9. Begin(h, K) # 0
    BY <1>8, <1>10
  <2> QED BY <1>10, <2>8, <2>9 DEF g, n
<1> QED BY <1>7, <1>9, <1>10

\* The points kept, and of any history those of the last method, the one that
\* growth is measured against, and what the window holds.
Points == [t : Nat, ext : {Ob!gpu(in, c).ext : in \in Inputs, c \in {"degraded", "high"}}]
PointOf(e) == [t |-> e.t, ext |-> e.ext]
Same(h) == {i \in 1 .. Len(h) : UnbrokenIn(h, i) /\ \A j \in i .. Len(h) : h[j].conf = h[Len(h)].conf}
IsAnchor(h, f) ==
    /\ f \in Same(h)
    /\ \/ h[f].t <= h[Len(h)].t - Window /\ \A i \in Same(h) : h[i].t <= h[Len(h)].t - Window => i <= f
       \/ \A i \in Same(h) : f <= i /\ ~(h[i].t <= h[Len(h)].t - Window)
PointsOf(h, v) ==
    /\ v \in Seq(Points) /\ Len(v) <= Len(h)
    /\ \A k \in 1 .. Len(v) : v[k] = PointOf(h[Len(h) - Len(v) + k])
    /\ Len(v) = 0 <=> Len(h) = 0 \/ h[Len(h)].conf = "none"
    /\ Len(v) > 0 => IsAnchor(h, Len(h) - Len(v) + 1)

(* A tick that was read has a point.                                        *)
LEMMA ShownPoint ==
    ASSUME NEW e \in Shown, e.conf # "none"
    PROVE  PointOf(e) \in Points
<1>1. PICK t \in Nat \ {0}, c \in {"degraded", "high"}, in \in Inputs :
         e = [t |-> t, conf |-> c, trusted |-> Ob!gpu(in, c).trusted, util |-> Ob!gpu(in, c).util, ext |-> Ob!gpu(in, c).ext]
  BY DEF Shown
<1>2. e.t = t /\ e.ext = Ob!gpu(in, c).ext
  BY <1>1
<1> QED BY <1>2 DEF PointOf, Points

(* Which ticks are of the last method after one more.                       *)
LEMMA SameNext ==
    ASSUME NEW h \in Seq(Shown), NEW e \in Shown
    PROVE  \A i \in 1 .. Len(h) + 1 :
              i \in Same(Append(h, e)) <=>
                 \/ i = Len(h) + 1
                 \/ i \in Same(h) /\ ~BreaksAt(h, e.t) /\ h[Len(h)].conf = e.conf
<1> DEFINE g == Append(h, e)
           n == Len(h)
<1>1. /\ n \in Nat /\ Len(g) = n + 1 /\ g[n + 1] = e
      /\ \A j \in 1 .. n : g[j] = h[j] /\ h[j] \in Shown
  BY OneMore
<1> SUFFICES ASSUME NEW i \in 1 .. n + 1
             PROVE  i \in Same(g) <=> i = n + 1 \/ (i \in Same(h) /\ ~BreaksAt(h, e.t) /\ h[n].conf = e.conf)
  OBVIOUS
<1>2. UnbrokenIn(g, i) <=> i = n + 1 \/ (UnbrokenIn(h, i) /\ ~BreaksAt(h, e.t))
  BY UnbrokenNext
<1>3. i \in Same(g) <=> UnbrokenIn(g, i) /\ \A j \in i .. n + 1 : g[j].conf = e.conf
  BY <1>1 DEF Same
<1>4. CASE i = n + 1
  <2>1. \A j \in i .. n + 1 : j = n + 1
    BY <1>1, <1>4
  <2> QED BY <1>1, <1>2, <1>3, <1>4, <2>1
<1>5. CASE i # n + 1
  <2>1. i \in 1 .. n /\ n \in i .. n
    BY <1>1, <1>5
  <2>2. i \in Same(h) <=> UnbrokenIn(h, i) /\ \A j \in i .. n : h[j].conf = h[n].conf
    BY <2>1 DEF Same
  <2>3. (\A j \in i .. n + 1 : g[j].conf = e.conf) <=> \A j \in i .. n : h[j].conf = e.conf
    <3>1. \A j : /\ j \in i .. n + 1 <=> j \in i .. n \/ j = n + 1
                 /\ j \in i .. n => j \in 1 .. n
      BY <1>1, <2>1
    <3> QED BY <1>1, <3>1
  <2>4. (\A j \in i .. n : h[j].conf = e.conf) <=> (\A j \in i .. n : h[j].conf = h[n].conf) /\ h[n].conf = e.conf
    BY <2>1
  <2> HIDE DEF g, n
  <2> QED BY <1>2, <1>3, <1>5, <2>2, <2>3, <2>4
<1> QED BY <1>4, <1>5

(* The window keeps what growth is measured against.                        *)
LEMMA GrowthNext ==
    ASSUME NEW h \in Seq(Shown), NEW e \in Shown, e.conf # "none", NEW v, PointsOf(h, v), NEW last,
           Len(h) > 0 /\ h[Len(h)].conf # "none" => last = h[Len(h)].conf
    PROVE  PointsOf(Append(h, e), Ob!growth(IF BreaksAt(h, e.t) \/ last # e.conf THEN <<>> ELSE v, e.t, e.ext))
<1> DEFINE g == Append(h, e)
           n == Len(h)
           points == IF BreaksAt(h, e.t) \/ last # e.conf THEN <<>> ELSE v
           m == Len(points)
           all == Append(points, PointOf(e))
           old == {i \in 1 .. Len(all) : all[i].t <= e.t - Window}
           first == IF old = {} THEN 1 ELSE CHOOSE i \in old : \A j \in old : j <= i
           w == SubSeq(all, first, Len(all))
           a == n - m + 1
<1>1. /\ n \in Nat /\ g \in Seq(Shown) /\ Len(g) = n + 1 /\ g[n + 1] = e
      /\ \A j \in 1 .. n : g[j] = h[j] /\ h[j] \in Shown
  BY OneMore
<1>2. Ob!growth(points, e.t, e.ext) = w
  BY DEF Ob!growth, PointOf
<1>3. PointOf(e) \in Points /\ v \in Seq(Points) /\ <<>> \in Seq(Points)
  BY ShownPoint DEF PointsOf
<1>4. /\ points \in Seq(Points) /\ m \in Nat /\ m <= n
      /\ \A k \in 1 .. m : points[k] = PointOf(h[n - m + k])
  <2>1. points = <<>> \/ points = v
    OBVIOUS
  <2>2. /\ Len(v) \in Nat /\ Len(v) <= n
        /\ \A k \in 1 .. Len(v) : v[k] = PointOf(h[n - Len(v) + k])
    BY <1>3 DEF PointsOf
  <2> HIDE DEF points
  <2>3. CASE points = <<>>
    BY <1>1, <1>3, <2>3
  <2>4. CASE points = v
    BY <1>3, <2>2, <2>4
  <2> QED BY <2>1, <2>3, <2>4
<1>5. m > 0 => ~BreaksAt(h, e.t) /\ h[n].conf = e.conf /\ IsAnchor(h, a)
  <2> SUFFICES ASSUME m > 0 PROVE ~BreaksAt(h, e.t) /\ h[n].conf = e.conf /\ IsAnchor(h, a)
    OBVIOUS
  <2>1. points = v /\ ~BreaksAt(h, e.t) /\ last = e.conf
    OBVIOUS
  <2>2. Len(v) > 0 /\ IsAnchor(h, a)
    BY <2>1 DEF PointsOf
  <2>3. n > 0 /\ h[n].conf # "none"
    BY <1>1, <2>2 DEF PointsOf
  <2> QED BY <2>1, <2>2, <2>3
<1>6. m = 0 => BreaksAt(h, e.t) \/ n = 0 \/ h[n].conf # e.conf
  <2> SUFFICES ASSUME m = 0, ~BreaksAt(h, e.t), n # 0, h[n].conf = e.conf PROVE FALSE
    OBVIOUS
  <2>1. last = e.conf
    BY <1>1
  <2>2. Len(v) = 0
    BY <2>1
  <2> QED BY <2>2 DEF PointsOf
<1>7. /\ all \in Seq(Points) /\ Len(all) = m + 1
      /\ \A k \in 1 .. m + 1 : all[k] = PointOf(g[a + k - 1]) /\ a + k - 1 \in 1 .. n + 1
  <2>1. /\ all \in Seq(Points) /\ Len(all) = m + 1 /\ all[m + 1] = PointOf(e)
        /\ \A k \in 1 .. m : all[k] = points[k]
    <3> HIDE DEF points
    <3> QED BY <1>3, <1>4
  <2>2. ASSUME NEW k \in 1 .. m + 1 PROVE all[k] = PointOf(g[a + k - 1]) /\ a + k - 1 \in 1 .. n + 1
    <3> HIDE DEF points, all
    <3>1. CASE k = m + 1
      BY <1>1, <1>4, <2>1, <3>1
    <3>2. CASE k # m + 1
      <4>1. k \in 1 .. m /\ a + k - 1 = n - m + k /\ n - m + k \in 1 .. n
        BY <1>1, <1>4, <3>2
      <4> QED BY <1>1, <1>4, <2>1, <4>1
    <3> QED BY <3>1, <3>2
  <2> QED BY <2>1, <2>2
<1>8. \A i \in 1 .. n + 1 : i \in Same(g) <=> i = n + 1 \/ (i \in Same(h) /\ m > 0)
  <2>1. \A i \in 1 .. n + 1 :
           i \in Same(g) <=> i = n + 1 \/ (i \in Same(h) /\ ~BreaksAt(h, e.t) /\ h[n].conf = e.conf)
    BY SameNext
  <2>2. \A i \in Same(h) : i \in 1 .. n
    BY DEF Same
  <2>3. m > 0 \/ m = 0
    BY <1>4
  <2> HIDE DEF m, g, n
  <2>4. CASE m > 0
    BY <1>5, <2>1, <2>4
  <2>5. CASE m = 0
    <3>1. \A i \in Same(h) : n # 0
      BY <1>1, <2>2
    <3> QED BY <1>6, <2>1, <2>5, <3>1
  <2> QED BY <2>3, <2>4, <2>5
<1>9. Same(g) \subseteq 1 .. n + 1 /\ (m > 0 => a \in 1 .. n /\ IsAnchor(h, a))
  BY <1>1, <1>4, <1>5 DEF Same
<1>10. \A i \in 1 .. n + 1 : g[i].t \in Nat
  <2> SUFFICES ASSUME NEW i \in 1 .. n + 1 PROVE g[i] \in Shown
    BY ShownTime
  <2> QED BY <1>1
<1>11. Window \in Nat /\ e.t \in Nat
  BY ShownTime, ConstantsAssumption DEF Ob!BoundsAssumption
<1>12. \A k \in 1 .. m + 1 : k \in old <=> g[a + k - 1].t <= e.t - Window
  <2> SUFFICES ASSUME NEW k \in 1 .. m + 1 PROVE k \in old <=> g[a + k - 1].t <= e.t - Window
    OBVIOUS
  <2>1. all[k].t = g[a + k - 1].t
    <3> HIDE DEF all, a, g, m, n, points
    <3> QED BY <1>7 DEF PointOf
  <2> HIDE DEF all, a, g
  <2> QED BY <1>7, <2>1
<1>13. old \subseteq 1 .. m + 1
  BY <1>7
<1> HIDE DEF g, n, m, all, old, points, w
<1>d. n \in Nat /\ m \in Nat /\ m <= n /\ a = (n + 1) - m /\ a \in Nat
  <2>1. n \in Nat /\ m \in Nat /\ m <= n
    BY <1>1, <1>4
  <2> QED BY <2>1
<1>s. \A i \in Same(g) : i \in Nat /\ i <= n + 1
  BY <1>9, <1>d
<1> HIDE DEF a
<1>14. \A i \in Same(g) : i < a => m > 0 /\ i \in Same(h)
  BY <1>d, <1>8, <1>9
<1>15. first \in 1 .. m + 1
       /\ IF old = {} THEN first = 1 ELSE first \in old /\ \A k \in old : k <= first
  <2>1. CASE old = {}
    BY <1>4, <2>1
  <2>2. CASE old # {}
    <3>1. old \in SUBSET Nat /\ m + 1 \in Nat /\ \A k \in old : k <= m + 1
      BY <1>d, <1>13
    <3>2. \E k \in old : \A j \in old : j <= k
      BY <2>2, <3>1, LatestOf
    <3> QED BY <1>13, <2>2, <3>2
  <2> QED BY <2>1, <2>2
<1> DEFINE f == a + first - 1
<1> HIDE DEF first
<1>16. f \in 1 .. n + 1 /\ f \in Same(g)
  <2>1. f \in 1 .. n + 1 /\ a <= f
    BY <1>d, <1>15
  <2>2. CASE f = n + 1
    BY <1>8, <2>1, <2>2
  <2>3. CASE f # n + 1
    <3>1. m > 0 /\ f \in 1 .. n
      BY <1>d, <1>15, <2>1, <2>3
    <3>2. a \in Same(h)
      BY <1>9, <3>1 DEF IsAnchor
    <3>3. f \in Same(h)
      <4>1. UnbrokenIn(h, a) /\ \A j \in a .. n : h[j].conf = h[n].conf
        BY <3>2 DEF Same, n
      <4>2. \A j : (j \in f + 1 .. n => j \in a + 1 .. n) /\ (j \in f .. n => j \in a .. n)
        BY <1>d, <2>1
      <4>3. UnbrokenIn(h, f)
        BY <4>1, <4>2 DEF UnbrokenIn, n
      <4> QED BY <3>1, <4>1, <4>2, <4>3 DEF Same, n
    <3> QED BY <1>8, <2>1, <3>1, <3>3
  <2> QED BY <2>2, <2>3
<1>17. ASSUME NEW i \in Same(g), i >= a
       PROVE  i - a + 1 \in 1 .. m + 1 /\ (i - a + 1 \in old <=> g[i].t <= e.t - Window)
  <2>1. i - a + 1 \in 1 .. m + 1 /\ a + (i - a + 1) - 1 = i
    <3>1. i \in Nat /\ i <= n + 1 /\ i >= a
      BY <1>s, <1>17
    <3>2. i - a + 1 >= 1 /\ i - a + 1 <= m + 1 /\ i - a + 1 \in Int
      BY <1>d, <3>1
    <3>3. a + (i - a + 1) - 1 = i
      BY <1>d, <3>1
    <3> QED BY <1>d, <3>2, <3>3
  <2> QED BY <1>12, <2>1
<1>18. IsAnchor(g, f)
  <2>1. g[Len(g)].t = e.t
    BY <1>1
  <2>2. CASE old # {}
    <3>1. g[f].t <= e.t - Window
      <4>1. first \in old
        BY <1>15, <2>2
      <4> QED BY <1>12, <1>15, <4>1
    <3>2. ASSUME NEW i \in Same(g), g[i].t <= e.t - Window PROVE i <= f
      <4>1. CASE i < a
        BY <1>d, <1>s, <1>15, <4>1
      <4>2. CASE i >= a
        <5>1. i - a + 1 <= first
          BY <1>15, <1>17, <2>2, <3>2, <4>2
        <5> QED BY <1>d, <1>s, <1>15, <5>1
      <4> QED BY <1>d, <1>s, <4>1, <4>2
    <3> QED BY <1>16, <2>1, <3>1, <3>2 DEF IsAnchor
  <2>3. CASE old = {}
    <3>1. first = 1 /\ f = a
      BY <1>d, <1>15, <2>3
    <3>2. ASSUME NEW i \in Same(g) PROVE f <= i
      <4> SUFFICES ASSUME i < a PROVE FALSE
        BY <1>d, <1>s, <3>1
      <4>1. m > 0 /\ i \in Same(h) /\ a \in 1 .. n /\ i \in 1 .. n
        BY <1>1, <1>9, <1>14 DEF Same, n
      <4>2. h[a].t <= h[n].t - Window
        BY <1>1, <1>9, <4>1 DEF IsAnchor, n
      <4>3. h[n].t <= e.t /\ h[n].t \in Nat /\ h[a].t \in Nat
        <5>1. ~BreaksAt(h, e.t) /\ n \in 1 .. n
          BY <1>1, <1>5, <4>1
        <5>2. h[n] \in Shown /\ h[a] \in Shown
          BY <1>1, <4>1, <5>1
        <5>3. h[n].t \in Nat /\ h[a].t \in Nat
          BY <5>2, ShownTime
        <5> QED BY <1>11, <4>1, <5>1, <5>3 DEF BreaksAt, n
      <4>4. g[a].t <= e.t - Window
        <5>1. g[a] = h[a]
          BY <1>1, <4>1
        <5> QED BY <1>11, <4>2, <4>3, <5>1
      <4>5. 1 \in old
        <5>1. 1 \in 1 .. m + 1 /\ a + 1 - 1 = a
          BY <1>d
        <5> QED BY <1>12, <4>4, <5>1
      <4> QED BY <2>3, <4>5
    <3>3. ASSUME NEW i \in Same(g) PROVE ~(g[i].t <= e.t - Window)
      BY <1>d, <1>s, <1>17, <2>3, <3>1, <3>2, <3>3
    <3> QED BY <1>16, <2>1, <3>2, <3>3 DEF IsAnchor
  <2> QED BY <2>2, <2>3
<1>19. /\ w \in Seq(Points) /\ Len(w) = m + 2 - first
       /\ \A k \in 1 .. m + 2 - first : w[k] = all[first + k - 1]
  <2>1. first \in Int /\ m + 1 \in Int /\ first <= m + 1
    BY <1>d, <1>15
  <2>2. \A i \in first .. m + 1 : all[i] \in Points
    BY <1>4, <1>7, <1>15
  <2>3. w = SubSeq(all, first, m + 1)
    BY <1>7 DEF w
  <2>4. /\ SubSeq(all, first, m + 1) \in Seq(Points)
        /\ Len(SubSeq(all, first, m + 1)) = (m + 1) - first + 1
        /\ \A i \in 1 .. (m + 1) - first + 1 : SubSeq(all, first, m + 1)[i] = all[first + i - 1]
    BY <2>1, <2>2, SubSeqProperties
  <2>5. (m + 1) - first + 1 = m + 2 - first
    BY <1>d, <1>15
  <2> QED BY <2>3, <2>4, <2>5
<1>20. \A k \in 1 .. Len(w) : w[k] = PointOf(g[n + 1 - Len(w) + k])
  <2> SUFFICES ASSUME NEW k \in 1 .. Len(w) PROVE w[k] = PointOf(g[n + 1 - Len(w) + k])
    OBVIOUS
  <2>1. first + k - 1 \in 1 .. m + 1 /\ a + (first + k - 1) - 1 = n + 1 - Len(w) + k
    BY <1>1, <1>d, <1>15, <1>19
  <2>2. all[first + k - 1] = PointOf(g[a + (first + k - 1) - 1])
    BY <1>7, <2>1
  <2> QED BY <1>19, <2>1, <2>2
<1>21. Len(g) - Len(w) + 1 = f /\ Len(w) <= Len(g) /\ Len(w) > 0 /\ Len(g) > 0
  BY <1>1, <1>d, <1>15, <1>19
<1>22. PointsOf(g, w)
  <2>1. \A k \in 1 .. Len(w) : w[k] = PointOf(g[Len(g) - Len(w) + k])
    BY <1>1, <1>20
  <2>2. IsAnchor(g, Len(g) - Len(w) + 1)
    BY <1>18, <1>21
  <2>3. ~(Len(w) = 0) /\ ~(Len(g) = 0) /\ g[Len(g)].conf # "none"
    BY <1>1, <1>19, <1>21, <1>d
  <2> QED BY <1>19, <1>21, <2>1, <2>2, <2>3 DEF PointsOf
<1> QED BY <1>2, <1>22 DEF g, points, n

\* The ticks of a history that were read, trusted, and above a threshold.
ReadOf(h) == {j \in 1 .. Len(h) : h[j].conf # "none"}
TrustedOf(h) == {j \in ReadOf(h) : h[j].trusted}
SoftOf(h) == {j \in TrustedOf(h) : h[j].util >= Ob!soft(h[j].conf)}
CritOf(h) == {j \in TrustedOf(h) : h[j].util >= CritPct}

\* The timers are those of the history, the window holds its points, and the
\* facts are what they say at the last tick.
Timed(h, healthy, runs) ==
    /\ healthy = Begin(h, ReadOf(h))
    /\ runs = [crit |-> Begin(h, CritOf(h)), soft |-> Begin(h, SoftOf(h)), below |-> Begin(h, TrustedOf(h) \ SoftOf(h))]
SaysSo(h, healthy, runs, v, fs) ==
    Len(h) > 0 =>
        LET e == h[Len(h)]
        IN /\ fs.healthyFor = Ob!Lasted(healthy, e.t)
           /\ e.conf # "none" =>
                 /\ fs.aboveCritFor = Ob!Lasted(runs.crit, e.t) /\ fs.aboveSoftFor = Ob!Lasted(runs.soft, e.t)
                 /\ fs.belowSoftFor = Ob!Lasted(runs.below, e.t) /\ fs.growth = e.ext - v[1].ext
WindowsInv ==
    part = "windows" =>
        /\ tickNow \in Nat /\ hist \in Seq(Shown)
        /\ lastTick = IF Len(hist) = 0 THEN 0 ELSE hist[Len(hist)].t
        /\ Len(hist) > 0 /\ hist[Len(hist)].conf # "none" => lastConf = hist[Len(hist)].conf
        /\ Timed(hist, healthySince, above) /\ PointsOf(hist, vram)
        /\ SaysSo(hist, healthySince, above, vram, facts)

(* What earlier ticks were does not change.                                 *)
LEMMA EarlierTicks ==
    ASSUME NEW h \in Seq(Shown), NEW e \in Shown, NEW i \in 1 .. Len(h)
    PROVE  /\ i \in ReadOf(h) <=> i \in ReadOf(Append(h, e))
           /\ i \in TrustedOf(h) <=> i \in TrustedOf(Append(h, e))
           /\ i \in SoftOf(h) <=> i \in SoftOf(Append(h, e))
           /\ i \in CritOf(h) <=> i \in CritOf(Append(h, e))
           /\ i \in TrustedOf(h) \ SoftOf(h) <=> i \in TrustedOf(Append(h, e)) \ SoftOf(Append(h, e))
<1> DEFINE g == Append(h, e)
<1>1. g[i] = h[i] /\ i \in 1 .. Len(g)
  BY OneMore
<1> HIDE DEF g
<1>2. i \in ReadOf(h) <=> i \in ReadOf(g)
  BY <1>1 DEF ReadOf
<1>3. i \in TrustedOf(h) <=> i \in TrustedOf(g)
  BY <1>1, <1>2, Zenon DEF TrustedOf
<1>4. i \in SoftOf(h) <=> i \in SoftOf(g)
  BY <1>1, <1>3, Zenon DEF SoftOf
<1>5. i \in CritOf(h) <=> i \in CritOf(g)
  BY <1>1, <1>3, Zenon DEF CritOf
<1> QED BY <1>2, <1>3, <1>4, <1>5 DEF g

(* The last one is what it shows.                                           *)
LEMMA LatestTick ==
    ASSUME NEW h \in Seq(Shown), NEW e \in Shown
    PROVE  LET n == Len(h) + 1
               g == Append(h, e)
           IN /\ n \in ReadOf(g) <=> e.conf # "none"
              /\ n \in TrustedOf(g) <=> e.conf # "none" /\ e.trusted
              /\ n \in SoftOf(g) <=> e.conf # "none" /\ e.trusted /\ e.util >= Ob!soft(e.conf)
              /\ n \in CritOf(g) <=> e.conf # "none" /\ e.trusted /\ e.util >= CritPct
<1> DEFINE n == Len(h) + 1
           g == Append(h, e)
<1>1. g[n] = e /\ n \in 1 .. Len(g)
  BY OneMore
<1> HIDE DEF n, g
<1>2. n \in ReadOf(g) <=> e.conf # "none"
  BY <1>1 DEF ReadOf
<1>3. n \in TrustedOf(g) <=> e.conf # "none" /\ e.trusted
  BY <1>1, <1>2, Zenon DEF TrustedOf
<1>4. n \in SoftOf(g) <=> e.conf # "none" /\ e.trusted /\ e.util >= Ob!soft(e.conf)
  BY <1>1, <1>3, Zenon DEF SoftOf
<1>5. n \in CritOf(g) <=> e.conf # "none" /\ e.trusted /\ e.util >= CritPct
  BY <1>1, <1>3, Zenon DEF CritOf
<1> QED BY <1>2, <1>3, <1>4, <1>5 DEF n, g

(* A timer after one more tick.                                             *)
LEMMA TimerNext ==
    ASSUME NEW h \in Seq(Shown), NEW e \in Shown, NEW K, NEW L, \A i \in 1 .. Len(h) : i \in K <=> i \in L
    PROVE  /\ Len(h) + 1 \in L => Begin(Append(h, e), L) =
                 Ob!run(IF BreaksAt(h, e.t) THEN 0 ELSE Begin(h, K), TRUE, e.t)
           /\ Len(h) + 1 \notin L => Begin(Append(h, e), L) = 0
<1>1. Begin(Append(h, e), L) =
              IF Len(h) + 1 \notin L THEN 0
              ELSE IF BreaksAt(h, e.t) \/ Begin(h, K) = 0 THEN e.t ELSE Begin(h, K)
  BY BeginNext
<1> QED BY <1>1 DEF Ob!run, Ob!Never

(* The timers follow the ticks.                                             *)
LEMMA TimersNext ==
    ASSUME NEW h \in Seq(Shown), NEW healthy, NEW runs, Timed(h, healthy, runs), NEW e \in Shown
    PROVE  /\ e.conf = "none" => Timed(Append(h, e), 0, Ob!NoRuns)
           /\ e.conf # "none" =>
                 LET was == IF BreaksAt(h, e.t) THEN 0 ELSE healthy
                 IN Timed(Append(h, e), IF was = 0 THEN e.t ELSE was,
                          Ob!hysteresis(IF BreaksAt(h, e.t) THEN Ob!NoRuns ELSE runs, e.t, e, e.conf))
<1> DEFINE g == Append(h, e)
           n == Len(h) + 1
           was == IF BreaksAt(h, e.t) THEN 0 ELSE healthy
           old == IF BreaksAt(h, e.t) THEN Ob!NoRuns ELSE runs
           new == Ob!hysteresis(old, e.t, e, e.conf)
<1>1. /\ n \in ReadOf(g) => Begin(g, ReadOf(g)) = Ob!run(IF BreaksAt(h, e.t) THEN 0 ELSE Begin(h, ReadOf(h)), TRUE, e.t)
      /\ n \notin ReadOf(g) => Begin(g, ReadOf(g)) = 0
  <2>1. \A i \in 1 .. Len(h) : i \in ReadOf(h) <=> i \in ReadOf(g)
    BY EarlierTicks
  <2> QED BY <2>1, TimerNext
<1>2. /\ n \in CritOf(g) => Begin(g, CritOf(g)) = Ob!run(IF BreaksAt(h, e.t) THEN 0 ELSE Begin(h, CritOf(h)), TRUE, e.t)
      /\ n \notin CritOf(g) => Begin(g, CritOf(g)) = 0
  <2>1. \A i \in 1 .. Len(h) : i \in CritOf(h) <=> i \in CritOf(g)
    BY EarlierTicks
  <2> QED BY <2>1, TimerNext
<1>3. /\ n \in SoftOf(g) => Begin(g, SoftOf(g)) = Ob!run(IF BreaksAt(h, e.t) THEN 0 ELSE Begin(h, SoftOf(h)), TRUE, e.t)
      /\ n \notin SoftOf(g) => Begin(g, SoftOf(g)) = 0
  <2>1. \A i \in 1 .. Len(h) : i \in SoftOf(h) <=> i \in SoftOf(g)
    BY EarlierTicks
  <2> QED BY <2>1, TimerNext
<1>4. /\ n \in TrustedOf(g) \ SoftOf(g) =>
            Begin(g, TrustedOf(g) \ SoftOf(g)) =
               Ob!run(IF BreaksAt(h, e.t) THEN 0 ELSE Begin(h, TrustedOf(h) \ SoftOf(h)), TRUE, e.t)
      /\ n \notin TrustedOf(g) \ SoftOf(g) => Begin(g, TrustedOf(g) \ SoftOf(g)) = 0
  <2>1. \A i \in 1 .. Len(h) : i \in TrustedOf(h) \ SoftOf(h) <=> i \in TrustedOf(g) \ SoftOf(g)
    BY EarlierTicks
  <2> QED BY <2>1, TimerNext
<1>5. /\ n \in ReadOf(g) <=> e.conf # "none"
      /\ n \in TrustedOf(g) <=> e.conf # "none" /\ e.trusted
      /\ n \in SoftOf(g) <=> e.conf # "none" /\ e.trusted /\ e.util >= Ob!soft(e.conf)
      /\ n \in CritOf(g) <=> e.conf # "none" /\ e.trusted /\ e.util >= CritPct
  BY LatestTick
<1>6. /\ healthy = Begin(h, ReadOf(h))
      /\ runs = [crit |-> Begin(h, CritOf(h)), soft |-> Begin(h, SoftOf(h)), below |-> Begin(h, TrustedOf(h) \ SoftOf(h))]
  BY DEF Timed
<1>7. /\ old.crit = IF BreaksAt(h, e.t) THEN 0 ELSE Begin(h, CritOf(h))
      /\ old.soft = IF BreaksAt(h, e.t) THEN 0 ELSE Begin(h, SoftOf(h))
      /\ old.below = IF BreaksAt(h, e.t) THEN 0 ELSE Begin(h, TrustedOf(h) \ SoftOf(h))
  BY <1>6 DEF Ob!NoRuns, Ob!Never
<1> HIDE DEF g, n, old
<1>8. CASE e.conf = "none"
  <2>1. Timed(g, 0, Ob!NoRuns)
    BY <1>1, <1>2, <1>3, <1>4, <1>5, <1>8 DEF Timed, Ob!NoRuns, Ob!Never
  <2> QED BY <1>8, <2>1 DEF g
<1>9. CASE e.conf # "none"
  <2>1. Begin(g, ReadOf(g)) = IF was = 0 THEN e.t ELSE was
    BY <1>1, <1>5, <1>6, <1>9 DEF Ob!run, Ob!Never
  <2>2. CASE ~e.trusted
    <3>1. new = Ob!NoRuns
      BY <2>2 DEF Ob!hysteresis
    <3>2. n \notin CritOf(g) /\ n \notin SoftOf(g) /\ n \notin TrustedOf(g)
      BY <1>5, <2>2, Zenon
    <3>3. new = [crit |-> Begin(g, CritOf(g)), soft |-> Begin(g, SoftOf(g)), below |-> Begin(g, TrustedOf(g) \ SoftOf(g))]
      BY <1>2, <1>3, <1>4, <3>1, <3>2 DEF Ob!NoRuns, Ob!Never
    <3> QED BY <1>9, <2>1, <3>3 DEF Timed, g, old
  <2>3. CASE e.trusted
    <3>1. Ob!soft(e.conf) > 0 /\ CritPct > 0
      BY ConstantsAssumption DEF Ob!BoundsAssumption, Ob!soft
    <3>2. new = [crit |-> Ob!run(old.crit, CritPct > 0 /\ e.util >= CritPct, e.t),
                 soft |-> Ob!run(old.soft, Ob!soft(e.conf) > 0 /\ e.util >= Ob!soft(e.conf), e.t),
                 below |-> Ob!run(old.below, ~(Ob!soft(e.conf) > 0 /\ e.util >= Ob!soft(e.conf)), e.t)]
      BY <2>3 DEF Ob!hysteresis
    <3>3. new.crit = Begin(g, CritOf(g))
      <4>1. CASE e.util >= CritPct
        BY <1>2, <1>5, <1>7, <1>9, <2>3, <3>1, <3>2, <4>1 DEF Ob!run
      <4>2. CASE ~(e.util >= CritPct)
        BY <1>2, <1>5, <3>2, <4>2 DEF Ob!run, Ob!Never
      <4> QED BY <4>1, <4>2
    <3>4. new.soft = Begin(g, SoftOf(g)) /\ new.below = Begin(g, TrustedOf(g) \ SoftOf(g))
      <4>1. CASE e.util >= Ob!soft(e.conf)
        <5>1. n \in SoftOf(g) /\ n \notin TrustedOf(g) \ SoftOf(g)
          BY <1>5, <1>9, <2>3, <4>1, Zenon
        <5> QED BY <1>3, <1>4, <1>7, <3>1, <3>2, <4>1, <5>1 DEF Ob!run, Ob!Never
      <4>2. CASE ~(e.util >= Ob!soft(e.conf))
        <5>1. n \notin SoftOf(g) /\ n \in TrustedOf(g) \ SoftOf(g)
          BY <1>5, <1>9, <2>3, <4>2, Zenon
        <5> QED BY <1>3, <1>4, <1>7, <3>2, <4>2, <5>1 DEF Ob!run, Ob!Never
      <4> QED BY <4>1, <4>2
    <3>5. new = [crit |-> new.crit, soft |-> new.soft, below |-> new.below]
      BY <3>2
    <3> QED BY <1>9, <2>1, <3>3, <3>4, <3>5 DEF Timed, g, old
  <2> QED BY <2>2, <2>3
<1> QED BY <1>8, <1>9

(* A run has begun or it has not.                                           *)
LEMMA BegunOrNot ==
    ASSUME NEW h \in Seq(Shown), NEW K
    PROVE  /\ Begin(h, K) = 0 <=> From(h, K) = {}
           /\ From(h, K) # {} => Begin(h, K) = h[CHOOSE i \in From(h, K) : \A j \in From(h, K) : i <= j].t
<1> DEFINE F == From(h, K)
<1>1. /\ F \in SUBSET Nat /\ F \subseteq 1 .. Len(h)
      /\ \A i \in 1 .. Len(h) : h[i] \in Shown
  BY DEF From
<1>2. Begin(h, K) = IF F = {} THEN 0 ELSE h[CHOOSE i \in F : \A j \in F : i <= j].t
  BY DEF Begin
<1> HIDE DEF F
<1>3. F # {} => h[CHOOSE i \in F : \A j \in F : i <= j].t >= 1
  <2> SUFFICES ASSUME F # {} PROVE h[CHOOSE i \in F : \A j \in F : i <= j] \in Shown
    BY ShownTime
  <2>1. \E i \in F : \A j \in F : i <= j
    BY <1>1, FirstExists
  <2> QED BY <1>1, <2>1
<1> QED BY <1>2, <1>3 DEF F

(* A tick follows the history.                                              *)
LEMMA TickFollows ==
    ASSUME WindowsInv, part = "windows", part' = part, Ob!Next
    PROVE  WindowsInv'
<1>1. /\ tickNow \in Nat /\ hist \in Seq(Shown)
      /\ lastTick = IF Len(hist) = 0 THEN 0 ELSE hist[Len(hist)].t
      /\ Len(hist) > 0 /\ hist[Len(hist)].conf # "none" => lastConf = hist[Len(hist)].conf
      /\ Timed(hist, healthySince, above) /\ PointsOf(hist, vram)
  BY DEF WindowsInv
<1>2. PICK step \in TickSteps, in \in Inputs :
         tickNow + step > 0 /\ tickNow' = tickNow + step /\ Ob!Observe(tickNow', in)
  BY DEF Ob!Next, Ob!Tick
<1> DEFINE t == tickNow'
           conf == Ob!confidence(in)
           m == Ob!gpu(in, conf)
           n == Len(hist)
<1>3. t \in Nat \ {0}
  <2>1. step \in Int
    BY ConstantsAssumption DEF Ob!BoundsAssumption
  <2> QED BY <1>1, <1>2, <2>1
<1>4. conf \in {"none", "degraded", "high"}
  BY DEF Ob!confidence
<1>5. lastTick' = t
  BY <1>2 DEF Ob!Observe
<1>6. Ob!Broken(t) <=> BreaksAt(hist, t)
  <2>1. CASE n = 0
    BY <1>1, <2>1 DEF Ob!Broken, BreaksAt, Ob!Never
  <2>2. CASE n # 0
    <3>1. n > 0 /\ n \in 1 .. n /\ hist[n] \in Shown
      BY <1>1, <2>2
    <3>2. lastTick # 0 /\ lastTick = hist[n].t
      BY <1>1, <2>2, <3>1, ShownTime
    <3> QED BY <3>1, <3>2 DEF Ob!Broken, BreaksAt, Ob!Never
  <2> QED BY <2>1, <2>2
<1> HIDE DEF conf
<1>7. CASE conf = "none"
  <2> DEFINE e == [t |-> t, conf |-> "none"]
  <2>1. /\ healthySince' = 0 /\ above' = Ob!NoRuns /\ vram' = <<>>
        /\ hist' = Append(hist, e) /\ facts' = [Ob!NoFacts EXCEPT !.noneFor = t - noneSince']
    BY <1>2, <1>7 DEF Ob!Observe, conf, Ob!Never
  <2>2. e \in Shown /\ e.t = t /\ e.conf = "none"
    BY <1>3 DEF Shown
  <2> HIDE DEF e
  <2>3. /\ hist' \in Seq(Shown) /\ n \in Nat /\ Len(hist') = n + 1 /\ hist'[n + 1] = e
    BY <1>1, <2>1, <2>2, OneMore
  <2>4. Timed(hist', 0, Ob!NoRuns)
    BY <1>1, <2>1, <2>2, TimersNext
  <2>5. PointsOf(hist', <<>>)
    <3>1. <<>> \in Seq(Points) /\ Len(<<>>) = 0
      OBVIOUS
    <3> QED BY <2>2, <2>3, <3>1 DEF PointsOf
  <2>6. SaysSo(hist', 0, above', vram', facts')
    <3>1. facts'.healthyFor = 0
      BY <2>1 DEF Ob!NoFacts
    <3> QED BY <2>2, <2>3, <3>1 DEF SaysSo, Ob!Lasted, Ob!Never
  <2>7. lastTick' = hist'[Len(hist')].t /\ Len(hist') # 0 /\ hist'[Len(hist')].conf = "none"
    BY <1>5, <2>2, <2>3
  <2> QED BY <1>3, <2>1, <2>3, <2>4, <2>5, <2>6, <2>7 DEF WindowsInv
<1>8. CASE conf # "none"
  <2> DEFINE e == [t |-> t, conf |-> conf, trusted |-> m.trusted, util |-> m.util, ext |-> m.ext]
             was == IF BreaksAt(hist, t) THEN 0 ELSE healthySince
             old == IF BreaksAt(hist, t) THEN Ob!NoRuns ELSE above
             points == IF BreaksAt(hist, t) \/ lastConf # conf THEN <<>> ELSE vram
  <2>1. /\ healthySince' = IF was = 0 THEN t ELSE was
        /\ above' = Ob!hysteresis(old, t, m, conf)
        /\ vram' = Ob!growth(points, t, m.ext)
        /\ lastConf' = conf /\ hist' = Append(hist, e)
    BY <1>2, <1>6, <1>8 DEF Ob!Observe, conf, Ob!Never
  <2>2. /\ facts'.healthyFor = t - healthySince' /\ facts'.growth = m.ext - vram'[1].ext
        /\ facts'.aboveCritFor = Ob!Lasted(above'.crit, t) /\ facts'.aboveSoftFor = Ob!Lasted(above'.soft, t)
        /\ facts'.belowSoftFor = Ob!Lasted(above'.below, t)
    BY <1>2, <1>8 DEF Ob!Observe, conf
  <2>3. e \in Shown /\ e.t = t /\ e.conf = conf
    BY <1>3, <1>4, <1>8 DEF Shown
  <2>4. Ob!hysteresis(old, t, m, conf) = Ob!hysteresis(old, e.t, e, e.conf)
    BY DEF Ob!hysteresis
  <2>5. e.ext = m.ext
    OBVIOUS
  <2> HIDE DEF e, was, old, points, m
  <2>6. /\ hist' \in Seq(Shown) /\ n \in Nat /\ Len(hist') = n + 1 /\ hist'[n + 1] = e
    BY <1>1, <2>1, <2>3, OneMore
  <2>7. Timed(hist', healthySince', above')
    BY <1>1, <1>8, <2>1, <2>3, <2>4, TimersNext DEF was, old
  <2>8. PointsOf(hist', vram')
    <3>1. PointsOf(Append(hist, e), Ob!growth(points, e.t, e.ext))
      BY <1>1, <1>8, <2>3, GrowthNext DEF points
    <3> QED BY <2>1, <2>3, <2>5, <3>1
  <2>9. SaysSo(hist', healthySince', above', vram', facts')
    <3>1. healthySince' # 0
      BY <1>3, <2>1
    <3>2. facts'.healthyFor = Ob!Lasted(healthySince', t)
      BY <2>2, <3>1 DEF Ob!Lasted, Ob!Never
    <3> QED BY <2>2, <2>3, <2>5, <2>6, <3>2 DEF SaysSo
  <2>10. lastTick' = hist'[Len(hist')].t /\ Len(hist') # 0 /\ lastConf' = hist'[Len(hist')].conf
    BY <1>5, <2>1, <2>3, <2>6
  <2> QED BY <1>3, <2>6, <2>7, <2>8, <2>9, <2>10 DEF WindowsInv
<1> QED BY <1>7, <1>8

(* The invariant says what is promised.                                     *)
LEMMA WindowsAreReal ==
    ASSUME WindowsInv, part = "windows"
    PROVE  Ob!RunsAreContinuous /\ Ob!HealthyIsContinuous /\ Ob!GrowthIsOverTheWindow
<1> DEFINE n == Len(hist)
<1>1. /\ hist \in Seq(Shown) /\ Timed(hist, healthySince, above) /\ PointsOf(hist, vram)
      /\ SaysSo(hist, healthySince, above, vram, facts)
  BY DEF WindowsInv
<1>2. \A i : Ob!Unbroken(i) <=> UnbrokenIn(hist, i)
  BY DEF Ob!Unbroken, UnbrokenIn
<1>3. ASSUME n > 0, NEW K PROVE Ob!HeldFor(K) = Ob!Lasted(Begin(hist, K), hist[n].t)
  <2> DEFINE from == {i \in 1 .. Len(hist) : Ob!Unbroken(i) /\ i .. Len(hist) \subseteq K}
  <2>1. from = From(hist, K)
    BY <1>2 DEF From
  <2>2. Ob!HeldFor(K) = IF from = {} THEN 0
                        ELSE hist[n].t - hist[CHOOSE i \in from : \A j \in from : i <= j].t
    BY DEF Ob!HeldFor, Ob!Last
  <2> HIDE DEF from
  <2> QED BY <1>1, <2>1, <2>2, BegunOrNot DEF Ob!Lasted, Ob!Never
<1>4. /\ Ob!ReadTicks = ReadOf(hist) /\ Ob!TrustedTicks = TrustedOf(hist)
      /\ Ob!SoftTicks = SoftOf(hist) /\ Ob!CritTicks = CritOf(hist)
  BY DEF Ob!ReadTicks, ReadOf, Ob!TrustedTicks, TrustedOf, Ob!SoftTicks, SoftOf, Ob!CritTicks, CritOf
<1>5. /\ healthySince = Begin(hist, ReadOf(hist)) /\ above.crit = Begin(hist, CritOf(hist))
      /\ above.soft = Begin(hist, SoftOf(hist)) /\ above.below = Begin(hist, TrustedOf(hist) \ SoftOf(hist))
  BY <1>1 DEF Timed
<1>6. Ob!RunsAreContinuous
  BY <1>1, <1>3, <1>4, <1>5 DEF Ob!RunsAreContinuous, Ob!Last, SaysSo
<1>7. Ob!HealthyIsContinuous
  BY <1>1, <1>3, <1>4, <1>5 DEF Ob!HealthyIsContinuous, SaysSo
<1>8. Ob!GrowthIsOverTheWindow
  <2> SUFFICES ASSUME n > 0, hist[n].conf # "none"
               PROVE  LET old == {i \in Same(hist) : hist[i].t <= hist[n].t - Window}
                          anchor == IF old # {} THEN CHOOSE i \in old : \A j \in old : j <= i
                                    ELSE CHOOSE i \in Same(hist) : \A j \in Same(hist) : i <= j
                      IN facts.growth = hist[n].ext - hist[anchor].ext
    BY <1>2 DEF Ob!GrowthIsOverTheWindow, Ob!Last, Same
  <2> DEFINE f == n - Len(vram) + 1
             old == {i \in Same(hist) : hist[i].t <= hist[n].t - Window}
             anchor == IF old # {} THEN CHOOSE i \in old : \A j \in old : j <= i
                       ELSE CHOOSE i \in Same(hist) : \A j \in Same(hist) : i <= j
  <2>1. Len(vram) \in Nat /\ Len(vram) > 0 /\ n \in Nat
    BY <1>1 DEF PointsOf
  <2>2. IsAnchor(hist, f)
    BY <1>1, <2>1 DEF PointsOf
  <2>3. vram[1].ext = hist[f].ext
    <3>1. vram[1] = PointOf(hist[n - Len(vram) + 1])
      BY <1>1, <2>1 DEF PointsOf
    <3> QED BY <3>1 DEF PointOf
  <2>4. Same(hist) \subseteq Nat
    BY DEF Same
  <2>5. anchor = f
    <3>1. CASE hist[f].t <= hist[n].t - Window
      <4>1. f \in old /\ \A i \in old : i <= f
        BY <2>2, <3>1 DEF IsAnchor
      <4>2. \A i \in old : (\A j \in old : j <= i) => i = f
        BY <2>4, <4>1
      <4> HIDE DEF old, f
      <4> QED BY <4>1, <4>2
    <3>2. CASE ~(hist[f].t <= hist[n].t - Window)
      <4>1. f \in Same(hist) /\ old = {} /\ \A i \in Same(hist) : f <= i
        BY <2>2, <3>2 DEF IsAnchor
      <4>2. \A i \in Same(hist) : (\A j \in Same(hist) : i <= j) => i = f
        BY <2>4, <4>1
      <4> HIDE DEF old, f
      <4> QED BY <4>1, <4>2
    <3> QED BY <3>1, <3>2
  <2>6. facts.growth = hist[n].ext - vram[1].ext
    BY <1>1 DEF SaysSo
  <2> QED BY <2>3, <2>5, <2>6
<1> QED BY <1>6, <1>7, <1>8

(* For any thresholds, window and gap, any inputs and steps of the clock,    *)
(* back ones too: no timer of the observer counts time across a gap, a lost  *)
(* sample or an untrusted one, and memory growth is measured over the window *)
(* it claims (Observe, hysteresis, run, growth).                             *)
THEOREM ContinuityHolds == Spec => []ContinuityIsReal
<1>1. Init => WindowsInv
  <2> SUFFICES ASSUME Init, part = "windows" PROVE WindowsInv
    BY DEF WindowsInv
  <2>1. /\ tickNow = 2 /\ lastTick = 0 /\ healthySince = 0 /\ above = Ob!NoRuns /\ vram = <<>> /\ hist = <<>>
    BY DEF Init, Ob!Init, Ob!Never
  <2>2. hist \in Seq(Shown) /\ vram \in Seq(Points) /\ Len(hist) = 0 /\ Len(vram) = 0
    BY <2>1
  <2>3. \A K : Begin(hist, K) = 0
    BY <2>2 DEF Begin, From
  <2>4. Timed(hist, healthySince, above)
    BY <2>1, <2>3 DEF Timed, Ob!NoRuns, Ob!Never
  <2>5. PointsOf(hist, vram) /\ SaysSo(hist, healthySince, above, vram, facts)
    BY <2>2 DEF PointsOf, SaysSo
  <2> QED BY <2>1, <2>2, <2>4, <2>5 DEF WindowsInv
<1>2. WindowsInv /\ [Next]_vars => WindowsInv'
  <2> SUFFICES ASSUME WindowsInv, [Next]_vars PROVE WindowsInv'
    OBVIOUS
  <2>1. \/ UNCHANGED <<part, windowsVars>>
        \/ part = "windows" /\ part' = part /\ Ob!Next
        \/ part # "windows" /\ part' = part
    BY DEF Next, vars, PolicyMoves, ObMoves, ApMoves, GlMoves, ScMoves, GrMoves, OaMoves, ArMoves
  <2>2. CASE UNCHANGED <<part, windowsVars>>
    BY <2>2 DEF WindowsInv, windowsVars
  <2>3. CASE part # "windows" /\ part' = part
    BY <2>3 DEF WindowsInv
  <2> QED BY <2>1, <2>2, <2>3, TickFollows
<1>3. WindowsInv => ContinuityIsReal
  BY WindowsAreReal DEF ContinuityIsReal
<1> QED BY <1>1, <1>2, <1>3, PTL DEF Spec

-----------------------------------------------------------------------------
(* The schedules.                                                          *)

(* Division with a remainder.                                              *)
LEMMA Divided ==
    ASSUME NEW l \in Int, NEW n \in Nat \ {0}
    PROVE  l \div n \in Int /\ l % n \in 0 .. n - 1 /\ l = (l \div n) * n + (l % n)
  OBVIOUS

(* One day less.                                                           *)
LEMMA DayBefore ==
    ASSUME NEW d \in Int, NEW n \in Nat
    PROVE  d * n \in Int /\ (d - 1) * n = d * n - n
  OBVIOUS

(* A local minute is in a schedule's window just when the window that       *)
(* starts on its day, or the one that starts the day before, covers it.     *)
LEMMA WindowCovers ==
    ASSUME NEW s, Sc!ValidSchedule(s), NEW l \in Int, DayLen \in Nat \ {0}
    PROVE  Sc!inWindow(s, l) <=> \E d \in l \div DayLen - 1 .. l \div DayLen : Sc!Covers(s, d, l)
<1> DEFINE q == l \div DayLen
           m == l % DayLen
           p == q * DayLen
<1>1. /\ q \in Int /\ m \in Int /\ p \in Int /\ 0 <= m /\ m < DayLen /\ l = p + m
      /\ (q - 1) * DayLen = p - DayLen
  BY Divided, DayBefore
<1>2. Sc!Weekday(l) = q % 7 /\ (Sc!Weekday(l) + 6) % 7 = (q - 1) % 7
  <2>1. Sc!Weekday(l) = q % 7
    BY DEF Sc!Weekday
  <2> HIDE DEF q
  <2>2. ((q % 7) + 6) % 7 = (q - 1) % 7
    BY <1>1
  <2> QED BY <2>1, <2>2
<1>3. /\ s.start \in Nat /\ s.end \in Nat /\ s.start < DayLen /\ s.end < DayLen /\ s.start # s.end
  BY DEF Sc!ValidSchedule
<1>4. Sc!Covers(s, q, l) <=> /\ q % 7 \in s.days
                             /\ p + s.start <= l
                             /\ l < p + s.end + (IF s.end < s.start THEN DayLen ELSE 0)
  BY DEF Sc!Covers
<1>5. Sc!Covers(s, q - 1, l) <=> /\ (q - 1) % 7 \in s.days
                                 /\ (q - 1) * DayLen + s.start <= l
                                 /\ l < (q - 1) * DayLen + s.end + (IF s.end < s.start THEN DayLen ELSE 0)
  BY DEF Sc!Covers
<1>6. Sc!inWindow(s, l) <=>
         IF s.start < s.end THEN Sc!Weekday(l) \in s.days /\ m >= s.start /\ m < s.end
         ELSE (m >= s.start /\ Sc!Weekday(l) \in s.days) \/ (m < s.end /\ (Sc!Weekday(l) + 6) % 7 \in s.days)
  BY DEF Sc!inWindow
<1> HIDE DEF q, m, p
<1>7. Sc!Covers(s, q, l) <=> /\ q % 7 \in s.days
                             /\ s.start <= m
                             /\ m < s.end \/ s.end < s.start
  BY <1>1, <1>3, <1>4
<1>8. Sc!Covers(s, q - 1, l) <=> (q - 1) % 7 \in s.days /\ s.end < s.start /\ m < s.end
  BY <1>1, <1>3, <1>5
<1>9. Sc!inWindow(s, l) <=> Sc!Covers(s, q, l) \/ Sc!Covers(s, q - 1, l)
  BY <1>1, <1>2, <1>3, <1>6, <1>7, <1>8
<1>10. \A d : d \in q - 1 .. q <=> d = q \/ d = q - 1
  BY <1>1
<1> QED BY <1>9, <1>10 DEF q

(* The profile the schedules put in force is that of the first enabled one  *)
(* whose window it is.                                                      *)
LEMMA FirstWindowWins ==
    ASSUME NEW cfg \in Configs, NEW t \in Int, zone \in Int, Sc!TimeAssumption
    PROVE  LET l == Sc!local(t)
               on == {i \in 1 .. Len(cfg) : cfg[i].enabled
                        /\ \E d \in l \div DayLen - 1 .. l \div DayLen : Sc!Covers(cfg[i], d, l)}
           IN IF on = {} THEN Sc!Active(cfg, t) = 0
              ELSE Sc!Active(cfg, t) \in on /\ \A j \in on : Sc!Active(cfg, t) <= j
<1> DEFINE l == Sc!local(t)
           on == {i \in 1 .. Len(cfg) : cfg[i].enabled
                    /\ \E d \in l \div DayLen - 1 .. l \div DayLen : Sc!Covers(cfg[i], d, l)}
           open == {i \in 1 .. Len(cfg) : cfg[i].enabled /\ Sc!inWindow(cfg[i], Sc!local(t))}
<1>1. l \in Int /\ DayLen \in Nat \ {0}
  <2>1. DayLen \in Nat \ {0} /\ MinuteLen \in Nat \ {0}
    BY DEF Sc!TimeAssumption
  <2>2. t \div MinuteLen \in Int
    BY <2>1, Divided
  <2> QED BY <2>1, <2>2 DEF Sc!local
<1>2. \A i \in 1 .. Len(cfg) : Sc!ValidSchedule(cfg[i])
  BY DEF Sc!TimeAssumption
<1> HIDE DEF l
<1>3. \A i \in 1 .. Len(cfg) :
         Sc!inWindow(cfg[i], l) <=> \E d \in l \div DayLen - 1 .. l \div DayLen : Sc!Covers(cfg[i], d, l)
  BY <1>1, <1>2, WindowCovers
<1>4. on = open
  BY <1>3 DEF l
<1>5. Sc!Active(cfg, t) = IF open = {} THEN 0 ELSE CHOOSE i \in open : \A j \in open : i <= j
  BY DEF Sc!Active
<1>6. open \in SUBSET Nat
  OBVIOUS
<1> HIDE DEF on, open
<1>7. open # {} => \E i \in open : \A j \in open : i <= j
  BY <1>6, FirstExists
<1>8. IF on = {} THEN Sc!Active(cfg, t) = 0
      ELSE Sc!Active(cfg, t) \in on /\ \A j \in on : Sc!Active(cfg, t) <= j
  BY <1>4, <1>5, <1>7
<1> QED BY <1>8 DEF on, l

(* Within one minute nothing changes.                                       *)
LEMMA SameMinute ==
    ASSUME NEW cfg, NEW t, NEW u, t \div MinuteLen = u \div MinuteLen
    PROVE  Sc!Active(cfg, t) = Sc!Active(cfg, u)
<1>1. Sc!local(t) = Sc!local(u)
  BY DEF Sc!local
<1> QED BY <1>1 DEF Sc!Active

(* When every schedule is disabled nothing ever changes.                    *)
LEMMA NothingEnabled ==
    ASSUME NEW cfg, \A i \in 1 .. Len(cfg) : ~cfg[i].enabled, NEW t
    PROVE  Sc!Active(cfg, t) = 0
  BY DEF Sc!Active

(* An answer for time t: the profile stays until then and is another one    *)
(* from then on; without one it stays for eight days. And one that is shown *)
(* at time n: without one it stays for seven.                               *)
Horizon == 8 * DayLen * MinuteLen
Until(n, u) == IF u = 0 THEN n + 7 * DayLen * MinuteLen ELSE u
AnswersFor(cfg, t, u) ==
    IF u = 0 THEN \A v \in t .. t + Horizon - 1 : Sc!Active(cfg, v) = Sc!Active(cfg, t)
    ELSE /\ u \in Nat /\ u > t
         /\ \A v \in t .. u - 1 : Sc!Active(cfg, v) = Sc!Active(cfg, t)
         /\ Sc!Active(cfg, u) # Sc!Active(cfg, t)
TellsRight(cfg, n, u) ==
    /\ \A v \in n .. Until(n, u) - 1 : Sc!Active(cfg, v) = Sc!Active(cfg, n)
    /\ u # 0 => u > n /\ Sc!Active(cfg, u) # Sc!Active(cfg, n)

\* The same of a given zone.
ActiveIn(z, cfg, t) ==
    LET minute == 7 * DayLen + t \div MinuteLen + (IF t \div MinuteLen >= Shift THEN z ELSE 0)
        on == {i \in 1 .. Len(cfg) : cfg[i].enabled /\ Sc!inWindow(cfg[i], minute)}
    IN IF on = {} THEN 0 ELSE CHOOSE i \in on : \A j \in on : i <= j
AnswersIn(z, cfg, t, u) ==
    IF u = 0 THEN \A v \in t .. t + Horizon - 1 : ActiveIn(z, cfg, v) = ActiveIn(z, cfg, t)
    ELSE /\ u \in Nat /\ u > t
         /\ \A v \in t .. u - 1 : ActiveIn(z, cfg, v) = ActiveIn(z, cfg, t)
         /\ ActiveIn(z, cfg, u) # ActiveIn(z, cfg, t)
RightIn(z, cfg, n, u) ==
    /\ \A v \in n .. Until(n, u) - 1 : ActiveIn(z, cfg, v) = ActiveIn(z, cfg, n)
    /\ u # 0 => u > n /\ ActiveIn(z, cfg, u) # ActiveIn(z, cfg, n)

(* Of the present zone they say the same.                                   *)
LEMMA OfThisZone ==
    ASSUME NEW cfg, NEW t, NEW u
    PROVE  /\ AnswersFor(cfg, t, u) <=> AnswersIn(zone, cfg, t, u)
           /\ TellsRight(cfg, t, u) <=> RightIn(zone, cfg, t, u)
<1>1. \A v : Sc!Active(cfg, v) = ActiveIn(zone, cfg, v)
  BY DEF Sc!Active, ActiveIn, Sc!local
<1> QED BY <1>1 DEF AnswersFor, AnswersIn, TellsRight, RightIn

\* The minutes the search looks at, and those of them at which it stops.
Looked(t) == {(t \div MinuteLen + 1) * MinuteLen + k * MinuteLen : k \in 0 .. 8 * DayLen}
Changes(cfg, t) ==
    {u \in Looked(t) : u < t + 8 * DayLen * MinuteLen /\ Sc!Active(cfg, u) # Sc!Active(cfg, t)}

(* The minute of a later time begins at a time that is looked at, unless it *)
(* is the present minute.                                                   *)
LEMMA MinuteIsLookedAt ==
    ASSUME NEW t \in Nat, NEW v \in Nat, t <= v, v < t + Horizon,
           MinuteLen \in Nat \ {0}, DayLen \in Nat \ {0}
    PROVE  \/ v \div MinuteLen = t \div MinuteLen
           \/ \E w \in Looked(t) : w <= v /\ w \div MinuteLen = v \div MinuteLen
<1> DEFINE a == t \div MinuteLen
           b == v \div MinuteLen
           w == b * MinuteLen
           k == b - a - 1
<1>1. /\ a \in Int /\ b \in Int /\ t = a * MinuteLen + (t % MinuteLen) /\ v = b * MinuteLen + (v % MinuteLen)
      /\ t % MinuteLen \in 0 .. MinuteLen - 1 /\ v % MinuteLen \in 0 .. MinuteLen - 1
  BY Divided
<1>2. a <= b
  <2>1. (b - a) * MinuteLen > 0 - MinuteLen
    BY <1>1
  <2>2. b - a < 0 => (b - a) * MinuteLen <= 0 - MinuteLen
    BY <1>1
  <2> QED BY <1>1, <2>1, <2>2
<1>3. b - a <= 8 * DayLen
  <2>1. (b - a) * MinuteLen < (8 * DayLen + 1) * MinuteLen
    BY <1>1 DEF Horizon
  <2>2. b - a > 8 * DayLen => (b - a) * MinuteLen >= (8 * DayLen + 1) * MinuteLen
    BY <1>1
  <2> QED BY <1>1, <2>1, <2>2
<1>4. CASE a < b
  <2>1. k \in 0 .. 8 * DayLen
    BY <1>1, <1>3, <1>4
  <2>2. (a + 1) * MinuteLen + k * MinuteLen = w
    BY <1>1
  <2>3. w \in Looked(t)
    BY <2>1, <2>2 DEF Looked
  <2>4. w <= v
    BY <1>1
  <2>5. w \div MinuteLen = b
    BY <1>1
  <2> QED BY <2>3, <2>4, <2>5
<1> QED BY <1>1, <1>2, <1>4

(* The search answers the question.                                         *)
LEMMA SearchAnswers ==
    ASSUME NEW cfg \in Configs, NEW t \in Nat, Sc!TimeAssumption
    PROVE  AnswersFor(cfg, t, Sc!NextChange(cfg, t))
<1> DEFINE C == Changes(cfg, t)
           first == (t \div MinuteLen + 1) * MinuteLen
           none == \A i \in 1 .. Len(cfg) : ~cfg[i].enabled
<1>1. MinuteLen \in Nat \ {0} /\ DayLen \in Nat \ {0} /\ Horizon \in Nat
  BY DEF Sc!TimeAssumption, Horizon
<1>2. Sc!NextChange(cfg, t) = IF none \/ C = {} THEN Sc!Zero ELSE CHOOSE u \in C : \A v \in C : u <= v
  BY DEF Sc!NextChange, Changes, Looked
<1>3. t \div MinuteLen \in Int /\ first \in Int /\ first > t
  <2>1. /\ t \div MinuteLen \in Int /\ t % MinuteLen \in 0 .. MinuteLen - 1
        /\ t = (t \div MinuteLen) * MinuteLen + (t % MinuteLen)
    BY <1>1, Divided
  <2> QED BY <1>1, <2>1
<1>4. ASSUME NEW u \in Looked(t) PROVE u \in Nat /\ u > t
  <2>1. PICK k \in 0 .. 8 * DayLen : u = first + k * MinuteLen
    BY DEF Looked
  <2>2. k * MinuteLen \in Nat
    BY <1>1, <2>1
  <2> HIDE DEF first
  <2> QED BY <1>3, <2>1, <2>2
<1>5. C \in SUBSET Nat
  BY <1>4 DEF Changes
<1>6. ASSUME NEW v \in Nat, t <= v, v < t + Horizon, Sc!Active(cfg, v) # Sc!Active(cfg, t)
      PROVE  \E w \in C : w <= v
  <2>1. v \div MinuteLen # t \div MinuteLen
    BY <1>6, SameMinute
  <2>2. PICK w \in Looked(t) : w <= v /\ w \div MinuteLen = v \div MinuteLen
    BY <1>1, <1>6, <2>1, MinuteIsLookedAt
  <2>3. Sc!Active(cfg, w) # Sc!Active(cfg, t)
    BY <1>6, <2>2, SameMinute
  <2>4. w < t + Horizon
    BY <1>1, <1>4, <1>6, <2>2
  <2> QED BY <2>2, <2>3, <2>4 DEF Changes, Horizon
<1> HIDE DEF C, none
<1>7. CASE none
  <2>1. Sc!NextChange(cfg, t) = Sc!Zero
    BY <1>2, <1>7
  <2>2. \A u : Sc!Active(cfg, u) = 0
    BY <1>7, NothingEnabled DEF none
  <2> QED BY <2>1, <2>2 DEF AnswersFor, Sc!Zero
<1>8. CASE C = {}
  <2>1. Sc!NextChange(cfg, t) = Sc!Zero
    BY <1>2, <1>8
  <2>2. ASSUME NEW v \in t .. t + Horizon - 1 PROVE Sc!Active(cfg, v) = Sc!Active(cfg, t)
    <3>1. v \in Nat /\ t <= v /\ v < t + Horizon
      BY <1>1
    <3> QED BY <1>6, <1>8, <3>1
  <2> QED BY <2>1, <2>2 DEF AnswersFor, Sc!Zero
<1>9. CASE ~none /\ C # {}
  <2> DEFINE u == Sc!NextChange(cfg, t)
  <2>1. u \in C /\ \A v \in C : u <= v
    <3>1. \E x \in C : \A y \in C : x <= y
      BY <1>5, <1>9, FirstExists
    <3>2. u = CHOOSE x \in C : \A y \in C : x <= y
      BY <1>2, <1>9
    <3> HIDE DEF u
    <3> QED BY <3>1, <3>2
  <2> HIDE DEF u
  <2>2. u \in Nat /\ u > t /\ u < t + Horizon /\ Sc!Active(cfg, u) # Sc!Active(cfg, t)
    BY <1>4, <2>1 DEF C, Changes, Horizon
  <2>3. ASSUME NEW v \in t .. u - 1 PROVE Sc!Active(cfg, v) = Sc!Active(cfg, t)
    <3>1. v \in Nat /\ t <= v /\ v < t + Horizon /\ v < u
      BY <1>1, <2>2
    <3>2. \A w \in C : ~(w <= v)
      BY <1>5, <2>1, <2>2, <3>1
    <3> QED BY <1>6, <3>1, <3>2
  <2>4. u # 0
    BY <2>2
  <2>5. AnswersFor(cfg, t, u)
    BY <2>2, <2>3, <2>4 DEF AnswersFor
  <2> QED BY <2>5 DEF u
<1> QED BY <1>7, <1>8, <1>9

(* An answer given earlier is the answer now, while it is kept: for no      *)
(* longer than a day, and only up to the change it names.                   *)
LEMMA AnswerStays ==
    ASSUME NEW cfg, NEW t \in Nat, NEW n \in Nat, NEW u, AnswersFor(cfg, t, u), Sc!TimeAssumption,
           t <= n, u = 0 \/ n < u, n - t < CacheFor
    PROVE  TellsRight(cfg, n, u)
<1>1. /\ MinuteLen \in Nat \ {0} /\ DayLen \in Nat \ {0} /\ CacheFor \in Nat \ {0}
      /\ CacheFor <= DayLen * MinuteLen
  BY DEF Sc!TimeAssumption
<1>2. DayLen * MinuteLen \in Nat /\ 7 * DayLen * MinuteLen = 7 * (DayLen * MinuteLen) /\ Horizon = 8 * (DayLen * MinuteLen)
      /\ DayLen * MinuteLen > 0
  BY <1>1 DEF Horizon
<1>3. CASE u = 0
  <2>1. \A v \in t .. t + Horizon - 1 : Sc!Active(cfg, v) = Sc!Active(cfg, t)
    BY <1>3 DEF AnswersFor
  <2>2. n \in t .. t + Horizon - 1
    BY <1>1, <1>2
  <2>3. ASSUME NEW v \in n .. (n + 7 * DayLen * MinuteLen) - 1 PROVE v \in t .. t + Horizon - 1
    BY <1>1, <1>2
  <2>4. \A v \in n .. (n + 7 * DayLen * MinuteLen) - 1 : Sc!Active(cfg, v) = Sc!Active(cfg, n)
    <3>1. Sc!Active(cfg, n) = Sc!Active(cfg, t)
      BY <2>1, <2>2
    <3> QED BY <2>1, <2>3, <3>1
  <2> QED BY <1>3, <2>4 DEF TellsRight, Until
<1>4. CASE u # 0
  <2>1. /\ u \in Nat /\ u > t
        /\ \A v \in t .. u - 1 : Sc!Active(cfg, v) = Sc!Active(cfg, t)
        /\ Sc!Active(cfg, u) # Sc!Active(cfg, t)
    BY <1>4 DEF AnswersFor
  <2>2. n < u /\ n \in t .. u - 1
    BY <1>4, <2>1
  <2>3. \A v \in n .. u - 1 : v \in t .. u - 1
    BY <2>1
  <2> QED BY <1>4, <2>1, <2>2, <2>3 DEF TellsRight, Until
<1> QED BY <1>3, <1>4

\* What is cached answers for the time it was asked, and what is shown is
\* right now.
ScheduleInv ==
    part = "schedule" =>
        /\ wallNow \in Nat /\ zone \in ShiftBy /\ schedules \in Configs
        /\ cacheValid \in BOOLEAN
        /\ cacheValid => cacheAt \in Nat /\ cacheAt <= wallNow /\ AnswersIn(zone, schedules, cacheAt, cache)
        /\ shown # Sc!NotShown => RightIn(zone, schedules, wallNow, shown)

(* Each step keeps the cache and what is shown right.                       *)
LEMMA ScheduleKept ==
    ASSUME ScheduleInv, part = "schedule", part' = part, Sc!Next
    PROVE  ScheduleInv'
<1>1. /\ wallNow \in Nat /\ zone \in ShiftBy /\ schedules \in Configs /\ cacheValid \in BOOLEAN
      /\ cacheValid => cacheAt \in Nat /\ cacheAt <= wallNow /\ AnswersFor(schedules, cacheAt, cache)
  BY OfThisZone DEF ScheduleInv
<1>2. Sc!TimeAssumption /\ CacheFor \in Nat \ {0}
  BY ConstantsAssumption DEF Sc!TimeAssumption
<1>3. CASE Sc!nextScheduleChange
  <2>1. UNCHANGED <<wallNow, zone, schedules>> /\ shown' = cache' /\ cacheValid' = TRUE
    BY <1>3 DEF Sc!nextScheduleChange
  <2>2. /\ cacheAt' \in Nat /\ cacheAt' <= wallNow /\ wallNow - cacheAt' < CacheFor
        /\ AnswersFor(schedules, cacheAt', cache')
        /\ cache' = 0 \/ wallNow < cache'
    <3>1. CASE Sc!Kept
      <4>1. cacheAt' = cacheAt /\ cache' = cache
        BY <1>3, <3>1 DEF Sc!nextScheduleChange
      <4>2. cacheValid /\ (cache = 0 \/ wallNow < cache) /\ wallNow - cacheAt < CacheFor
        BY <3>1 DEF Sc!Kept, Sc!Zero
      <4> QED BY <1>1, <4>1, <4>2
    <3>2. CASE ~Sc!Kept
      <4>1. cacheAt' = wallNow /\ cache' = Sc!NextChange(schedules, wallNow)
        BY <1>3, <3>2 DEF Sc!nextScheduleChange
      <4>2. AnswersFor(schedules, wallNow, Sc!NextChange(schedules, wallNow))
        BY <1>1, <1>2, SearchAnswers
      <4>3. wallNow <= wallNow /\ wallNow - wallNow < CacheFor
        BY <1>1, <1>2
      <4>4. cache' = 0 \/ wallNow < cache'
        BY <1>1, <4>1, <4>2 DEF AnswersFor
      <4> QED BY <1>1, <4>1, <4>2, <4>3, <4>4
    <3> QED BY <3>1, <3>2
  <2>3. TellsRight(schedules, wallNow, cache')
    BY <1>1, <1>2, <2>2, AnswerStays
  <2>4. AnswersIn(zone, schedules, cacheAt', cache') /\ RightIn(zone, schedules, wallNow, cache')
    BY <2>2, <2>3, OfThisZone
  <2> QED BY <1>1, <2>1, <2>2, <2>4 DEF ScheduleInv
<1>4. CASE Sc!updateConfig
  <2>1. /\ schedules' \in Configs /\ cacheValid' = FALSE /\ shown' = Sc!NotShown /\ UNCHANGED <<wallNow, zone>>
    BY <1>4 DEF Sc!updateConfig
  <2> QED BY <1>1, <2>1 DEF ScheduleInv
<1>5. CASE Sc!Pass
  <2>1. PICK k \in Steps : wallNow' = wallNow + k
    BY <1>5 DEF Sc!Pass
  <2>2. wallNow' \in Nat /\ wallNow <= wallNow'
    BY <1>1, <1>2, <2>1 DEF Sc!TimeAssumption
  <2>3. shown' = Sc!NotShown /\ UNCHANGED <<zone, schedules, cache, cacheAt, cacheValid>>
    BY <1>5 DEF Sc!Pass
  <2>4. /\ zone' \in ShiftBy /\ schedules' \in Configs /\ cacheValid' \in BOOLEAN
        /\ cacheValid' => /\ cacheAt' \in Nat /\ cacheAt' <= wallNow'
                          /\ AnswersIn(zone', schedules', cacheAt', cache')
    <3>1. cacheValid => AnswersIn(zone, schedules, cacheAt, cache)
      BY DEF ScheduleInv
    <3> QED BY <1>1, <2>2, <2>3, <3>1
  <2> QED BY <2>2, <2>3, <2>4 DEF ScheduleInv
<1> QED BY <1>3, <1>4, <1>5 DEF Sc!Next

(* For any lists of schedules that validation accepts, any length of day,    *)
(* any change of the zone and any steps of the clock: a schedule is in force *)
(* exactly in its windows, overnight windows belonging to the day they begin,*)
(* and the next change that is shown, cached or not, is the next one there   *)
(* is (inWindow, NextChange, nextScheduleChange).                            *)
THEOREM SchedulesExact == Spec => []SchedulesAreExact
<1>1. Init => ScheduleInv
  <2> SUFFICES ASSUME Init, part = "schedule" PROVE ScheduleInv
    BY DEF ScheduleInv
  <2> QED BY DEF Init, Sc!Init, ScheduleInv
<1>2. ScheduleInv /\ [Next]_vars => ScheduleInv'
  <2> SUFFICES ASSUME ScheduleInv, [Next]_vars PROVE ScheduleInv'
    OBVIOUS
  <2>1. \/ UNCHANGED <<part, scheduleVars>>
        \/ part = "schedule" /\ part' = part /\ Sc!Next
        \/ part # "schedule" /\ part' = part
    BY DEF Next, vars, PolicyMoves, ObMoves, ApMoves, GlMoves, ScMoves, GrMoves, OaMoves, ArMoves
  <2>2. CASE UNCHANGED <<part, scheduleVars>>
    BY <2>2 DEF ScheduleInv, scheduleVars
  <2>3. CASE part # "schedule" /\ part' = part
    BY <2>3 DEF ScheduleInv
  <2> QED BY <2>1, <2>2, <2>3, ScheduleKept
<1>3. ScheduleInv => SchedulesAreExact
  <2> SUFFICES ASSUME ScheduleInv, part = "schedule" PROVE Sc!WindowsBelongToTheirDay /\ Sc!ShownChangeIsNext
    BY DEF SchedulesAreExact
  <2>1. wallNow \in Int /\ zone \in Int /\ schedules \in Configs /\ Sc!TimeAssumption
    <3>1. Sc!TimeAssumption
      BY ConstantsAssumption
    <3>2. ShiftBy \subseteq Int
      BY <3>1 DEF Sc!TimeAssumption
    <3>3. wallNow \in Nat /\ zone \in ShiftBy /\ schedules \in Configs
      BY DEF ScheduleInv
    <3> QED BY <3>1, <3>2, <3>3
  <2>2. Sc!WindowsBelongToTheirDay
    BY <2>1, FirstWindowWins DEF Sc!WindowsBelongToTheirDay
  <2>3. ASSUME shown # Sc!NotShown PROVE TellsRight(schedules, wallNow, shown)
    BY <2>3, OfThisZone DEF ScheduleInv
  <2>4. Sc!ShownChangeIsNext
    BY <2>3 DEF Sc!ShownChangeIsNext, TellsRight, Until, Sc!Zero
  <2> QED BY <2>2, <2>4
<1> QED BY <1>1, <1>2, <1>3, PTL DEF Spec

-----------------------------------------------------------------------------
(* The watch for driver resets.                                            *)

Dumps == [file : Files, at : Nat]
Polled == {"scan", "check"}
Stepping == Polled \cup {"save"}
Current(f) == [file |-> f, at |-> dumps[f]]

ResetType ==
    /\ clock \in Nat /\ clock >= 1 /\ now \in Nat /\ check \in Nat /\ stored \in Nat /\ firstSave \in Nat
    /\ dumps \in [Files -> Nat] /\ seen \in [Files -> Nat]
    /\ pc \in {"down", "idle"} \cup Stepping /\ repeated \in BOOLEAN
    /\ fresh \subseteq Dumps /\ reported \subseteq Dumps /\ settled \subseteq reported

\* Everything the watcher knows of has happened, and a dump is only replaced
\* by a later one; two dumps written by the worker's time are not of one time.
InThePast ==
    /\ now <= clock /\ check <= clock /\ stored <= clock
    /\ \A f \in Files : seen[f] <= dumps[f] /\ dumps[f] <= clock
    /\ \A r \in reported \cup fresh : r.at <= dumps[r.file]
    /\ \A f, g \in Files : f # g /\ dumps[f] = dumps[g] => dumps[f] <= 1

\* The watermark in use is the stored one until the step has handled its Poll.
WatermarkInUse ==
    /\ pc \in {"idle"} \cup Polled => check = stored
    /\ pc \in Stepping => now >= 1 /\ stored <= now
    /\ pc = "save" => check >= 1 /\ stored <= check

\* What the Poll reads it reads within the merge window; it is what the dump
\* was then, and nothing else was written at that time.
ReadInTime ==
    /\ pc = "scan" => clock = now \/ clock < now + MergeWindow
    /\ pc \in Polled => \A r \in fresh :
          /\ r.at >= 1 /\ r.at <= seen[r.file] /\ r \notin settled
          /\ r.at <= now \/ r.at < now + MergeWindow
          /\ \A f \in Files : f # r.file /\ dumps[f] = r.at => r.at <= 1
    /\ \A f \in Files : pc = "check" \/ (pc = "scan" /\ f \notin Late) => seen[f] = dumps[f] \/ dumps[f] > now

\* What was seen lies before the watermark, or the step under way handles it.
SeenIsHandled ==
    pc \in {"idle"} \cup Stepping =>
        \A f \in Files :
            \/ seen[f] <= check
            \/ pc = "idle" /\ check = 0
            \/ pc \in Polled /\ check = 0 /\ seen[f] <= now
            \/ pc \in Polled /\ [file |-> f, at |-> seen[f]] \in fresh

\* What is reported of a dump that is still there is seen, or is to be seen
\* again because it was not stored; and it is stored under the watermark.
SaidIsSeen ==
    /\ \A r \in settled : r.at = dumps[r.file] => r.at <= stored
    /\ pc # "down" => \A r \in settled : r.at = dumps[r.file] => seen[r.file] = r.at
    /\ \A r \in reported :
          pc \in {"check", "save"} \/ (pc = "scan" /\ r.file \notin Late) =>
             (r.at = dumps[r.file] => seen[r.file] = r.at)

Told(f) ==
    \/ Current(f) \in reported
    \/ \E r \in reported : r.at > dumps[f] /\ r.at < dumps[f] + MergeWindow

\* What lies between the first watermark and the stored one was reported; once
\* a step has handled its Poll, so is what lies before the step.
AllIsTold ==
    \A f \in Files : stored # 0 /\ dumps[f] > firstSave =>
        /\ dumps[f] <= stored => Told(f)
        /\ pc = "save" /\ (dumps[f] <= now \/ dumps[f] <= check) => Told(f)

ResetInv ==
    /\ ResetType /\ InThePast /\ WatermarkInUse /\ ReadInTime /\ SeenIsHandled /\ SaidIsSeen
    /\ AllIsTold /\ ~repeated

(* The watermark never goes back, passes what was handled, and is the time  *)
(* of something that was.                                                   *)
LEMMA WatermarkMoves ==
    ASSUME ResetType, InThePast, WatermarkInUse, pc = "check"
    PROVE  LET w == Gr!Watermark IN
           /\ w \in Nat /\ check <= w /\ w <= clock /\ w >= 1
           /\ \A r \in fresh : r.at <= w
           /\ check = 0 => now <= w
           /\ w = check \/ w = now \/ \E r \in fresh : w = r.at
<1> DEFINE w == Gr!Watermark
           T == {now} \cup {r.at : r \in fresh}
<1>1. /\ clock \in Nat /\ now \in Nat /\ check \in Nat /\ now <= clock /\ check <= now /\ now >= 1
      /\ \A r \in fresh : r.at \in Nat /\ r.at <= clock
  <2>1. \A r \in fresh : r.file \in Files /\ r.at \in Nat /\ r.at <= dumps[r.file]
    BY DEF ResetType, InThePast, Dumps
  <2>2. \A f \in Files : dumps[f] \in Nat /\ dumps[f] <= clock
    BY DEF ResetType, InThePast
  <2>3. \A r \in fresh : r.at <= clock
    BY <2>1, <2>2 DEF ResetType
  <2> QED BY <2>1, <2>3 DEF ResetType, InThePast, WatermarkInUse, Polled, Stepping
<1>2. PICK t \in T : \A u \in T : u <= t
  <2>1. T \in SUBSET Nat /\ T # {} /\ \A u \in T : u <= clock
    BY <1>1
  <2> QED BY <1>1, <2>1, LatestOf
<1>3. CASE fresh # {}
  <2>1. w = CHOOSE x \in T : \A u \in T : u <= x
    BY <1>3 DEF Gr!Watermark
  <2>2. w \in T /\ \A u \in T : u <= w
    BY <1>2, <2>1
  <2>3. now <= w /\ \A r \in fresh : r.at <= w
    BY <2>2
  <2>4. w = now \/ \E r \in fresh : w = r.at
    BY <2>2
  <2> HIDE DEF T
  <2> QED BY <1>1, <2>3, <2>4
<1>4. CASE fresh = {}
  <2>1. w = IF check = 0 \/ now - check >= SaveEvery THEN now ELSE check
    BY <1>4 DEF Gr!Watermark
  <2> HIDE DEF T
  <2> QED BY <1>1, <1>4, <2>1
<1> QED BY <1>3, <1>4

(* The watch starts with nothing said and nothing handled.                  *)
LEMMA WatchStarts == Gr!Init => ResetInv
<1> SUFFICES ASSUME Gr!Init PROVE ResetInv
  OBVIOUS
<1>1. \A f \in Files : dumps[f] \in {0, 1} /\ seen[f] = 0
  BY DEF Gr!Init
<1>2. ResetType
  <2>1. dumps \in [Files -> Nat] /\ seen \in [Files -> Nat]
    BY DEF Gr!Init
  <2>2. pc = "down" /\ fresh = {} /\ reported = {} /\ settled = {} /\ repeated \in BOOLEAN
    BY DEF Gr!Init
  <2> QED BY <2>1, <2>2 DEF Gr!Init, ResetType
<1>3. InThePast
  BY <1>1 DEF Gr!Init, InThePast
<1>4. WatermarkInUse /\ ReadInTime /\ SeenIsHandled /\ SaidIsSeen /\ AllIsTold
  BY DEF Gr!Init, WatermarkInUse, ReadInTime, SeenIsHandled, SaidIsSeen, AllIsTold, Polled, Stepping
<1> QED BY <1>2, <1>3, <1>4 DEF ResetInv, Gr!Init

(* Time passes, and dumps are written, only after everything known of; while *)
(* a scan is under way, for less than the merge window.                      *)
LEMMA TimeKeepsResets ==
    ASSUME ResetInv, Gr!Pass \/ Gr!Write
    PROVE  ResetInv'
<1>1. /\ clock' = clock + 1 /\ clock \in Nat /\ MergeWindow \in Nat
      /\ UNCHANGED <<pc, seen, now, fresh, check, stored, firstSave, reported, settled, repeated>>
  BY ConstantsAssumption DEF Gr!Pass, Gr!Write, ResetInv, ResetType, Gr!BoundsAssumption
<1>2. /\ dumps' \in [Files -> Nat]
      /\ \A f \in Files : dumps[f] \in Nat /\ (dumps'[f] = dumps[f] \/ dumps'[f] = clock + 1)
      /\ \A f, g \in Files : f # g /\ dumps'[f] = clock + 1 => dumps'[g] = dumps[g]
  <2>1. CASE Gr!Pass
    BY <1>1, <2>1 DEF Gr!Pass, ResetInv, ResetType, InThePast
  <2>2. CASE Gr!Write
    BY <1>1, <2>2 DEF Gr!Write, ResetInv, ResetType, InThePast
  <2> QED BY <2>1, <2>2
<1>3. /\ now \in Nat /\ check \in Nat /\ stored \in Nat /\ firstSave \in Nat
      /\ now <= clock /\ check <= clock /\ stored <= clock
      /\ \A f \in Files : seen[f] \in Nat /\ dumps[f] \in Nat /\ seen[f] <= dumps[f] /\ dumps[f] <= clock
      /\ \A r \in reported \cup fresh : r.file \in Files /\ r.at \in Nat /\ r.at <= dumps[r.file] /\ r.at <= clock
  <2>1. \A r \in reported \cup fresh : r.file \in Files /\ r.at \in Nat /\ r.at <= dumps[r.file]
    BY DEF ResetInv, ResetType, InThePast, Dumps
  <2>2. \A f \in Files : seen[f] \in Nat /\ dumps[f] \in Nat /\ seen[f] <= dumps[f] /\ dumps[f] <= clock
    BY DEF ResetInv, ResetType, InThePast
  <2>3. \A r \in reported \cup fresh : r.at <= clock
    BY <1>1, <2>1, <2>2
  <2> QED BY <2>1, <2>2, <2>3 DEF ResetInv, ResetType, InThePast
<1>4. ResetType'
  BY <1>1, <1>2 DEF ResetInv, ResetType
<1>5. InThePast'
  <2>1. \A f \in Files : seen'[f] <= dumps'[f] /\ dumps'[f] <= clock'
    BY <1>1, <1>2, <1>3
  <2>2. \A r \in reported' \cup fresh' : r.at <= dumps'[r.file]
    BY <1>1, <1>2, <1>3
  <2>3. \A f, g \in Files : f # g /\ dumps'[f] = dumps'[g] => dumps'[f] <= 1
    <3> SUFFICES ASSUME NEW f \in Files, NEW g \in Files, f # g, dumps'[f] = dumps'[g] PROVE dumps'[f] <= 1
      OBVIOUS
    <3>1. dumps'[f] # clock + 1 /\ dumps'[g] # clock + 1
      BY <1>1, <1>2, <1>3
    <3> QED BY <1>2, <3>1 DEF ResetInv, InThePast
  <2>4. now' <= clock' /\ check' <= clock' /\ stored' <= clock'
    BY <1>1, <1>3
  <2> QED BY <2>1, <2>2, <2>3, <2>4 DEF InThePast
<1>6. WatermarkInUse'
  BY <1>1 DEF ResetInv, WatermarkInUse
<1>7. ReadInTime'
  <2>1. pc' = "scan" => clock' < now' + MergeWindow
    <3>1. pc = "scan" => clock + 1 - now < MergeWindow
      BY DEF Gr!Pass, Gr!Write, Gr!TimeMayPass
    <3> QED BY <1>1, <1>3, <3>1
  <2>2. ASSUME pc \in Polled, NEW r \in fresh
        PROVE  /\ r.at >= 1 /\ r.at <= seen[r.file] /\ r \notin settled
               /\ r.at <= now \/ r.at < now + MergeWindow
               /\ \A f \in Files : f # r.file /\ dumps'[f] = r.at => r.at <= 1
    <3>1. \A f \in Files : f # r.file /\ dumps'[f] = r.at => r.at <= 1
      BY <1>1, <1>2, <1>3, <2>2 DEF ResetInv, ReadInTime
    <3> QED BY <2>2, <3>1 DEF ResetInv, ReadInTime
  <2>3. \A f \in Files : pc = "check" \/ (pc = "scan" /\ f \notin Late) => seen[f] = dumps'[f] \/ dumps'[f] > now
    BY <1>1, <1>2, <1>3 DEF ResetInv, ReadInTime
  <2> QED BY <1>1, <2>1, <2>2, <2>3 DEF ReadInTime
<1>8. SeenIsHandled'
  BY <1>1 DEF ResetInv, SeenIsHandled
<1>9. SaidIsSeen'
  <2>1. \A r \in reported : r.at = dumps'[r.file] => r.at = dumps[r.file]
    BY <1>1, <1>2, <1>3
  <2>2. settled \subseteq reported
    BY DEF ResetInv, ResetType
  <2> QED BY <1>1, <2>1, <2>2 DEF ResetInv, SaidIsSeen
<1>10. AllIsTold'
  <2> SUFFICES ASSUME NEW f \in Files, stored # 0, dumps'[f] > firstSave,
                      \/ dumps'[f] <= stored
                      \/ pc = "save" /\ (dumps'[f] <= now \/ dumps'[f] <= check)
               PROVE  Told(f)'
    BY <1>1 DEF AllIsTold
  <2>1. dumps'[f] = dumps[f]
    BY <1>1, <1>2, <1>3
  <2>2. Told(f)
    BY <2>1 DEF ResetInv, AllIsTold
  <2> QED BY <1>1, <2>1, <2>2 DEF Told, Current
<1> QED BY <1>1, <1>4, <1>5, <1>6, <1>7, <1>8, <1>9, <1>10 DEF ResetInv

(* A start takes what is there as handled, but what is newer than the       *)
(* stored watermark, and so finds everything that was stored as said.       *)
LEMMA StartKeepsResets ==
    ASSUME ResetInv, Gr!Start
    PROVE  ResetInv'
<1>1. /\ pc = "down" /\ pc' = "idle" /\ check' = stored
      /\ UNCHANGED <<clock, dumps, now, fresh, stored, firstSave, reported, settled, repeated>>
  BY DEF Gr!Start
<1>2. /\ \A f \in Files : seen'[f] = IF stored # 0 /\ dumps[f] > stored THEN 0 ELSE dumps[f]
      /\ seen' = [f \in Files |-> seen'[f]]
  BY DEF Gr!Start
<1>3. \A f \in Files : dumps[f] \in Nat /\ stored \in Nat
  BY DEF ResetInv, ResetType
<1>4. \A f \in Files : seen'[f] \in Nat /\ seen'[f] <= dumps[f] /\ (seen'[f] <= stored \/ stored = 0)
  BY <1>2, <1>3
<1>5. ResetType'
  BY <1>1, <1>2, <1>4 DEF ResetInv, ResetType
<1>6. InThePast'
  BY <1>1, <1>4 DEF ResetInv, InThePast
<1>7. WatermarkInUse' /\ ReadInTime' /\ AllIsTold'
  BY <1>1 DEF ResetInv, WatermarkInUse, ReadInTime, AllIsTold, Told, Current, Polled, Stepping
<1>8. SeenIsHandled'
  BY <1>1, <1>4 DEF SeenIsHandled
<1>9. SaidIsSeen'
  <2>1. ASSUME NEW r \in settled, r.at = dumps[r.file] PROVE r.at <= stored /\ seen'[r.file] = r.at
    <3>1. r.at <= stored
      BY <2>1 DEF ResetInv, SaidIsSeen
    <3>2. r.file \in Files
      BY DEF ResetInv, ResetType, Dumps
    <3>3. ~(dumps[r.file] > stored)
      BY <1>3, <2>1, <3>1, <3>2
    <3> QED BY <1>2, <2>1, <3>1, <3>2, <3>3
  <2> QED BY <1>1, <2>1 DEF SaidIsSeen
<1> QED BY <1>1, <1>5, <1>6, <1>7, <1>8, <1>9 DEF ResetInv

(* With the worker goes what it saw; what is reported and stored stays.     *)
LEMMA CrashKeepsResets ==
    ASSUME ResetInv, Gr!Crash
    PROVE  ResetInv'
<1>1. /\ pc' = "down" /\ fresh' = {} /\ now' = 0 /\ check' = 0
      /\ seen' = [f \in Files |-> 0]
      /\ UNCHANGED <<clock, dumps, stored, firstSave, reported, settled, repeated>>
  BY DEF Gr!Crash
<1>2. ResetType'
  BY <1>1 DEF ResetInv, ResetType
<1>3. InThePast'
  BY <1>1 DEF ResetInv, ResetType, InThePast
<1>4. WatermarkInUse' /\ ReadInTime' /\ SeenIsHandled' /\ AllIsTold'
  BY <1>1 DEF ResetInv, WatermarkInUse, ReadInTime, SeenIsHandled, AllIsTold, Told, Current, Polled, Stepping
<1>5. SaidIsSeen'
  BY <1>1 DEF ResetInv, SaidIsSeen
<1> QED BY <1>1, <1>2, <1>3, <1>4, <1>5 DEF ResetInv

Found(fs) == {[file |-> f, at |-> dumps[f]] : f \in {g \in fs : Gr!IsFresh(g)}}
Watched(fs) == [f \in Files |-> IF f \in fs /\ Gr!IsFresh(f) THEN dumps[f] ELSE seen[f]]

(* What a scan of a directory reads is the dumps as they are, and none that *)
(* is stored as said.                                                       *)
LEMMA ADirectoryIsRead ==
    ASSUME ResetInv, pc # "down", NEW fs \in SUBSET Files, NEW new,
           new = Found(fs), seen' = Watched(fs)
    PROVE  /\ seen' \in [Files -> Nat]
           /\ \A f \in Files : /\ seen[f] <= seen'[f] /\ seen'[f] <= dumps[f]
                               /\ f \in fs => seen'[f] = dumps[f]
                               /\ seen'[f] = seen[f] \/ (seen'[f] = dumps[f] /\ Current(f) \in new)
           /\ new \subseteq Dumps
           /\ \A r \in new : /\ r.file \in fs /\ r.at = dumps[r.file] /\ r.at >= 1 /\ r.at <= seen'[r.file]
                             /\ r \notin settled
                             /\ \A f \in Files : f # r.file /\ dumps[f] = r.at => r.at <= 1
<1>1. \A f \in Files : dumps[f] \in Nat /\ seen[f] \in Nat /\ seen[f] <= dumps[f]
  BY DEF ResetInv, ResetType, InThePast
<1>2. \A f \in Files : Gr!IsFresh(f) <=> dumps[f] # 0 /\ dumps[f] > seen[f]
  BY DEF Gr!IsFresh
<1>3. \A f \in Files : seen'[f] = IF f \in fs /\ Gr!IsFresh(f) THEN dumps[f] ELSE seen[f]
  BY DEF Watched
<1>4. \A f \in Files : f \in fs /\ Gr!IsFresh(f) => Current(f) \in new
  BY DEF Current, Found
<1>5. \A f \in Files : /\ seen[f] <= seen'[f] /\ seen'[f] <= dumps[f]
                       /\ f \in fs => seen'[f] = dumps[f]
                       /\ seen'[f] = seen[f] \/ (seen'[f] = dumps[f] /\ Current(f) \in new)
  BY <1>1, <1>2, <1>3, <1>4
<1>6. seen' \in [Files -> Nat]
  BY <1>1, <1>3 DEF Watched
<1>7. ASSUME NEW r \in new
      PROVE  /\ r \in Dumps /\ r.file \in fs /\ r.at = dumps[r.file] /\ r.at >= 1 /\ r.at <= seen'[r.file]
             /\ r \notin settled
             /\ \A f \in Files : f # r.file /\ dumps[f] = r.at => r.at <= 1
  <2>1. PICK g \in fs : Gr!IsFresh(g) /\ r = [file |-> g, at |-> dumps[g]]
    BY <1>7 DEF Found
  <2>2. g \in Files /\ r.file = g /\ r.at = dumps[g] /\ r \in Dumps
    BY <1>1, <2>1 DEF Dumps
  <2>3. r.at >= 1 /\ r.at <= seen'[g] /\ r.at > seen[g]
    BY <1>1, <1>2, <1>3, <2>1, <2>2
  <2>4. r \notin settled
    BY <1>1, <2>2, <2>3 DEF ResetInv, SaidIsSeen
  <2>5. \A f \in Files : f # r.file /\ dumps[f] = r.at => r.at <= 1
    BY <2>2 DEF ResetInv, InThePast
  <2> QED BY <2>1, <2>2, <2>3, <2>4, <2>5
<1> QED BY <1>5, <1>6, <1>7

(* The first directory is read at the time of the step.                     *)
LEMMA FirstScanKeepsResets ==
    ASSUME ResetInv, Gr!ScanFirst
    PROVE  ResetInv'
<1>1. /\ pc = "idle" /\ pc' = "scan" /\ now' = clock
      /\ UNCHANGED <<clock, dumps, check, stored, firstSave, reported, settled, repeated>>
  BY DEF Gr!ScanFirst
<1> DEFINE fs == Files \ Late
<1>2. fresh' = Found(fs) /\ seen' = Watched(fs)
  BY DEF Gr!ScanFirst, Gr!Read, Found, Watched
<1>3. /\ seen' \in [Files -> Nat]
      /\ \A f \in Files : /\ seen[f] <= seen'[f] /\ seen'[f] <= dumps[f]
                          /\ f \in fs => seen'[f] = dumps[f]
                          /\ seen'[f] = seen[f] \/ (seen'[f] = dumps[f] /\ Current(f) \in fresh')
      /\ fresh' \subseteq Dumps
      /\ \A r \in fresh' : /\ r.file \in fs /\ r.at = dumps[r.file] /\ r.at >= 1 /\ r.at <= seen'[r.file]
                           /\ r \notin settled
                           /\ \A f \in Files : f # r.file /\ dumps[f] = r.at => r.at <= 1
  <2> HIDE DEF fs
  <2>1. fs \in SUBSET Files /\ pc # "down"
    BY <1>1 DEF fs
  <2> QED BY <1>2, <2>1, ADirectoryIsRead
<1>4. \A f \in fs : f \in Files /\ f \notin Late
  OBVIOUS
<1>5. \A f \in Files : f \notin Late => f \in fs
  OBVIOUS
<1> HIDE DEF fs
<1>6. /\ clock \in Nat /\ clock >= 1 /\ stored \in Nat /\ stored <= clock /\ check = stored
      /\ \A f \in Files : dumps[f] \in Nat /\ dumps[f] <= clock /\ seen[f] \in Nat /\ seen[f] <= dumps[f]
  BY <1>1 DEF ResetInv, ResetType, InThePast, WatermarkInUse
<1>7. ResetType'
  BY <1>1, <1>3 DEF ResetInv, ResetType, Polled, Stepping
<1>8. InThePast'
  <2>1. \A r \in reported \cup fresh' : r.at <= dumps[r.file]
    BY <1>3, <1>4, <1>6 DEF ResetInv, InThePast
  <2> QED BY <1>1, <1>3, <1>6, <2>1 DEF ResetInv, InThePast
<1>9. WatermarkInUse'
  BY <1>1, <1>6 DEF WatermarkInUse
<1>10. ReadInTime'
  <2>1. \A r \in fresh' : r.at <= now'
    BY <1>1, <1>3, <1>4, <1>6
  <2> QED BY <1>1, <1>3, <1>5, <2>1 DEF ReadInTime
<1>11. SeenIsHandled'
  <2> SUFFICES ASSUME NEW f \in Files
               PROVE  \/ seen'[f] <= check
                      \/ check = 0 /\ seen'[f] <= now'
                      \/ [file |-> f, at |-> seen'[f]] \in fresh'
    BY <1>1 DEF SeenIsHandled, Polled
  <2>1. CASE seen'[f] = seen[f]
    BY <1>1, <1>6, <2>1 DEF ResetInv, SeenIsHandled, Polled
  <2>2. CASE seen'[f] = dumps[f] /\ Current(f) \in fresh'
    BY <2>2 DEF Current
  <2> QED BY <1>3, <2>1, <2>2
<1>12. SaidIsSeen'
  <2>1. ASSUME NEW r \in reported, r.at = dumps[r.file], r.file \notin Late
        PROVE  seen'[r.file] = r.at
    BY <1>3, <1>5, <2>1 DEF ResetInv, ResetType, Dumps
  <2>2. ASSUME NEW r \in settled, r.at = dumps[r.file]
        PROVE  seen'[r.file] = r.at
    <3>1. seen[r.file] = r.at /\ r.file \in Files
      BY <1>1, <2>2 DEF ResetInv, ResetType, Dumps, SaidIsSeen
    <3> QED BY <1>3, <2>2, <3>1
  <2> QED BY <1>1, <2>1, <2>2 DEF ResetInv, SaidIsSeen
<1>13. AllIsTold'
  BY <1>1 DEF ResetInv, AllIsTold, Told, Current
<1> QED BY <1>1, <1>7, <1>8, <1>9, <1>10, <1>11, <1>12, <1>13 DEF ResetInv

(* The last is read within the merge window, and then all have been.        *)
LEMMA LastScanKeepsResets ==
    ASSUME ResetInv, Gr!ScanLast
    PROVE  ResetInv'
<1> DEFINE new == Found(Late)
<1>1. /\ pc = "scan" /\ pc' = "check" /\ fresh' = fresh \cup new
      /\ UNCHANGED <<clock, dumps, now, check, stored, firstSave, reported, settled, repeated>>
  BY DEF Gr!ScanLast, Found
<1>2. /\ seen' \in [Files -> Nat]
      /\ \A f \in Files : /\ seen[f] <= seen'[f] /\ seen'[f] <= dumps[f]
                          /\ f \in Late => seen'[f] = dumps[f]
                          /\ seen'[f] = seen[f] \/ (seen'[f] = dumps[f] /\ Current(f) \in new)
      /\ new \subseteq Dumps
      /\ \A r \in new : /\ r.file \in Late /\ r.at = dumps[r.file] /\ r.at >= 1 /\ r.at <= seen'[r.file]
                        /\ r \notin settled
                        /\ \A f \in Files : f # r.file /\ dumps[f] = r.at => r.at <= 1
  <2>1. Late \in SUBSET Files
    BY ConstantsAssumption DEF Gr!BoundsAssumption
  <2>2. seen' = Watched(Late)
    BY DEF Gr!ScanLast, Watched
  <2>3. pc # "down" /\ new = Found(Late)
    BY <1>1
  <2> HIDE DEF new
  <2> QED BY <2>1, <2>2, <2>3, ADirectoryIsRead
<1> HIDE DEF new
<1>3. /\ clock \in Nat /\ now \in Nat /\ MergeWindow \in Nat /\ Late \subseteq Files
      /\ \A f \in Files : dumps[f] \in Nat /\ dumps[f] <= clock /\ seen[f] \in Nat /\ seen[f] <= dumps[f]
      /\ \A r \in fresh : r \in Dumps /\ r.file \in Files
  BY ConstantsAssumption DEF ResetInv, ResetType, InThePast, Gr!BoundsAssumption, Dumps
<1>4. \A f \in Files : f \notin Late => seen'[f] = seen[f] \/ seen'[f] = dumps[f]
  BY <1>2
<1>5. ResetType'
  BY <1>1, <1>2 DEF ResetInv, ResetType, Polled, Stepping
<1>6. InThePast'
  <2>1. \A r \in reported \cup fresh' : r.at <= dumps[r.file]
    BY <1>1, <1>2, <1>3 DEF ResetInv, InThePast
  <2> QED BY <1>1, <1>2, <1>3, <2>1 DEF ResetInv, InThePast
<1>7. WatermarkInUse'
  BY <1>1 DEF ResetInv, WatermarkInUse, Polled, Stepping
<1>8. ReadInTime'
  <2>1. ASSUME NEW r \in fresh
        PROVE  /\ r.at >= 1 /\ r.at <= seen'[r.file] /\ r \notin settled
               /\ r.at <= now \/ r.at < now + MergeWindow
               /\ \A f \in Files : f # r.file /\ dumps[f] = r.at => r.at <= 1
    <3>1. /\ r.at >= 1 /\ r.at <= seen[r.file] /\ r \notin settled
          /\ r.at <= now \/ r.at < now + MergeWindow
          /\ \A f \in Files : f # r.file /\ dumps[f] = r.at => r.at <= 1
      BY <1>1 DEF ResetInv, ReadInTime, Polled
    <3>2. r.at \in Nat /\ seen[r.file] \in Nat /\ seen'[r.file] \in Nat /\ seen[r.file] <= seen'[r.file]
      BY <1>2, <1>3 DEF Dumps
    <3>3. r.at <= seen'[r.file]
      BY <3>1, <3>2
    <3> QED BY <3>1, <3>3
  <2>2. ASSUME NEW r \in new
        PROVE  r.at <= now \/ r.at < now + MergeWindow
    <3>1. r.file \in Files /\ r.at = dumps[r.file]
      BY <1>2, <1>3
    <3>2. r.at \in Nat /\ r.at <= clock
      BY <1>3, <3>1
    <3>3. clock = now \/ clock < now + MergeWindow
      BY <1>1 DEF ResetInv, ReadInTime
    <3> QED BY <1>3, <3>2, <3>3
  <2>3. \A f \in Files : seen'[f] = dumps[f] \/ dumps[f] > now
    <3> SUFFICES ASSUME NEW f \in Files, f \notin Late PROVE seen'[f] = dumps[f] \/ dumps[f] > now
      BY <1>2
    <3>1. seen[f] = dumps[f] \/ dumps[f] > now
      BY <1>1 DEF ResetInv, ReadInTime
    <3> QED BY <1>4, <3>1
  <2> QED BY <1>1, <1>2, <2>1, <2>2, <2>3 DEF ReadInTime
<1>9. SeenIsHandled'
  <2> SUFFICES ASSUME NEW f \in Files
               PROVE  \/ seen'[f] <= check
                      \/ check = 0 /\ seen'[f] <= now
                      \/ [file |-> f, at |-> seen'[f]] \in fresh'
    BY <1>1 DEF SeenIsHandled, Polled
  <2>1. CASE seen'[f] = seen[f]
    BY <1>1, <2>1 DEF ResetInv, SeenIsHandled, Polled, Stepping
  <2>2. CASE seen'[f] = dumps[f] /\ Current(f) \in new
    BY <1>1, <2>2 DEF Current
  <2> QED BY <1>2, <2>1, <2>2
<1>10. SaidIsSeen'
  <2>1. ASSUME NEW r \in reported, r.at = dumps[r.file]
        PROVE  seen'[r.file] = r.at
    <3>1. r.file \in Files
      BY DEF ResetInv, ResetType, Dumps
    <3>2. r.file \notin Late => seen[r.file] = r.at
      BY <1>1, <2>1 DEF ResetInv, SaidIsSeen
    <3> QED BY <1>2, <1>4, <2>1, <3>1, <3>2
  <2>2. settled \subseteq reported
    BY DEF ResetInv, ResetType
  <2> QED BY <1>1, <2>1, <2>2 DEF ResetInv, SaidIsSeen
<1>11. AllIsTold'
  BY <1>1 DEF ResetInv, AllIsTold, Told, Current
<1> QED BY <1>1, <1>5, <1>6, <1>7, <1>8, <1>9, <1>10, <1>11 DEF ResetInv

(* What the Poll found is reported, is new, and is below the watermark; what *)
(* it did not see is of the same incident as something it did.               *)
LEMMA CheckKeepsResets ==
    ASSUME ResetInv, Gr!checkGPUResets
    PROVE  ResetInv'
<1>1. /\ pc = "check" /\ pc' = "save" /\ check' = Gr!Watermark /\ reported' = reported \cup fresh
      /\ UNCHANGED <<clock, dumps, seen, now, fresh, stored, firstSave, settled>>
  BY DEF Gr!checkGPUResets
<1>2. /\ check' \in Nat /\ check <= check' /\ check' <= clock /\ check' >= 1
      /\ \A r \in fresh : r.at <= check'
      /\ check = 0 => now <= check'
      /\ check' = check \/ check' = now \/ \E r \in fresh : check' = r.at
  BY <1>1, WatermarkMoves DEF ResetInv
<1>3. /\ clock \in Nat /\ now \in Nat /\ check \in Nat /\ stored \in Nat /\ MergeWindow \in Nat /\ check = stored
      /\ stored <= now /\ now >= 1
      /\ \A f \in Files : dumps[f] \in Nat /\ seen[f] \in Nat /\ seen[f] <= dumps[f]
      /\ \A r \in fresh : r.file \in Files /\ r.at \in Nat /\ r = [file |-> r.file, at |-> r.at]
  BY <1>1, ConstantsAssumption DEF ResetInv, ResetType, InThePast, WatermarkInUse, Polled, Stepping, Dumps,
     Gr!BoundsAssumption
<1>4. \A r \in fresh : /\ r.at >= 1 /\ r.at <= seen[r.file] /\ r \notin settled
                       /\ r.at <= now \/ r.at < now + MergeWindow
                       /\ \A f \in Files : f # r.file /\ dumps[f] = r.at => r.at <= 1
  BY <1>1 DEF ResetInv, ReadInTime, Polled
<1>5. \A f \in Files : seen[f] = dumps[f] \/ dumps[f] > now
  BY <1>1 DEF ResetInv, ReadInTime
<1>6. ~repeated' /\ repeated' \in BOOLEAN
  <2>1. fresh \cap settled = {}
    BY <1>4
  <2>2. ~repeated /\ repeated' = (repeated \/ fresh \cap settled # {})
    BY DEF Gr!checkGPUResets, ResetInv
  <2>3. ~repeated'
    BY <2>1, <2>2, Zenon
  <2>4. repeated' \in BOOLEAN
    BY <2>2, Zenon
  <2> QED BY <2>3, <2>4
<1>7. ResetType'
  <2>1. fresh' \subseteq Dumps /\ reported' \subseteq Dumps /\ settled' \subseteq reported'
    BY <1>1 DEF ResetInv, ResetType
  <2>2. /\ clock' \in Nat /\ clock' >= 1 /\ now' \in Nat /\ check' \in Nat /\ stored' \in Nat /\ firstSave' \in Nat
        /\ dumps' \in [Files -> Nat] /\ seen' \in [Files -> Nat]
    BY <1>1, <1>2 DEF ResetInv, ResetType
  <2>3. pc' \in {"down", "idle"} \cup Stepping
    BY <1>1 DEF Stepping
  <2> QED BY <1>6, <2>1, <2>2, <2>3, Zenon DEF ResetType, Dumps
<1>8. InThePast'
  BY <1>1, <1>2 DEF ResetInv, InThePast
<1>9. WatermarkInUse'
  BY <1>1, <1>2, <1>3 DEF WatermarkInUse, Polled
<1>10. ReadInTime'
  BY <1>1 DEF ReadInTime, Polled
<1>11. SeenIsHandled'
  <2> SUFFICES ASSUME NEW f \in Files PROVE seen[f] <= check'
    BY <1>1 DEF SeenIsHandled
  <2>1. \/ seen[f] <= check
        \/ check = 0 /\ seen[f] <= now
        \/ [file |-> f, at |-> seen[f]] \in fresh
    BY <1>1 DEF ResetInv, SeenIsHandled, Polled, Stepping
  <2>2. [file |-> f, at |-> seen[f]] \in fresh => seen[f] <= check'
    BY <1>2
  <2> QED BY <1>2, <1>3, <2>1, <2>2
<1>12. SaidIsSeen'
  <2>1. \A r \in reported' : r.at = dumps[r.file] => seen[r.file] = r.at
    <3>1. \A r \in reported : r.at = dumps[r.file] => seen[r.file] = r.at
      BY <1>1 DEF ResetInv, SaidIsSeen
    <3>2. \A r \in fresh : r.at = dumps[r.file] => seen[r.file] = r.at
      BY <1>3, <1>4
    <3> QED BY <1>1, <3>1, <3>2
  <2> QED BY <1>1, <2>1 DEF ResetInv, SaidIsSeen
<1>13. ASSUME NEW f \in Files, stored # 0, dumps[f] > firstSave, dumps[f] <= now \/ dumps[f] <= check'
       PROVE  Told(f)'
  <2>1. CASE dumps[f] <= stored
    <3>1. Told(f)
      BY <1>13, <2>1 DEF ResetInv, AllIsTold
    <3> QED BY <1>1, <3>1 DEF Told, Current
  <2>2. CASE seen[f] = dumps[f] /\ ~(dumps[f] <= stored)
    <3>1. [file |-> f, at |-> seen[f]] \in fresh
      BY <1>1, <1>3, <1>13, <2>2 DEF ResetInv, SeenIsHandled, Polled, Stepping
    <3> QED BY <1>1, <2>2, <3>1 DEF Told, Current
  <2>3. CASE dumps[f] > now
    <3>1. PICK r \in fresh : check' = r.at
      <4>1. check' # check /\ check' # now
        BY <1>2, <1>3, <1>13, <2>3
      <4> QED BY <1>2, <4>1
    <3>2. r.at >= dumps[f] /\ r.at < dumps[f] + MergeWindow
      BY <1>3, <1>4, <1>13, <2>3, <3>1
    <3>3. CASE r.at = dumps[f]
      <4>1. r.file = f
        BY <1>3, <1>4, <2>3, <3>3
      <4>2. r = Current(f)
        BY <1>3, <3>3, <4>1 DEF Current
      <4> QED BY <1>1, <4>2 DEF Told, Current
    <3>4. CASE r.at > dumps[f]
      BY <1>1, <3>2, <3>4 DEF Told
    <3> QED BY <1>3, <3>2, <3>3, <3>4
  <2> QED BY <1>5, <2>1, <2>2, <2>3
<1>14. AllIsTold'
  <2> SUFFICES ASSUME NEW f \in Files, stored # 0, dumps[f] > firstSave,
                      dumps[f] <= stored \/ dumps[f] <= now \/ dumps[f] <= check'
               PROVE  Told(f)'
    BY <1>1 DEF AllIsTold
  <2>1. dumps[f] <= now \/ dumps[f] <= check'
    BY <1>2, <1>3
  <2> QED BY <1>13, <2>1
<1> QED BY <1>6, <1>7, <1>8, <1>9, <1>10, <1>11, <1>12, <1>14 DEF ResetInv

(* What the end of the step stores is what it handled, and no more.         *)
LEMMA PersistKeepsResets ==
    ASSUME ResetInv, Gr!Persist
    PROVE  ResetInv'
<1>1. /\ pc = "save" /\ pc' = "idle" /\ stored' = check /\ settled' = reported /\ fresh' = {}
      /\ firstSave' = IF stored = 0 THEN check ELSE firstSave
      /\ UNCHANGED <<clock, dumps, seen, now, check, reported, repeated>>
  BY DEF Gr!Persist
<1>2. /\ check \in Nat /\ check >= 1 /\ stored <= check /\ stored \in Nat /\ firstSave \in Nat
      /\ \A f \in Files : dumps[f] \in Nat
  BY <1>1 DEF ResetInv, ResetType, WatermarkInUse
<1>3. ResetType'
  BY <1>1, <1>2 DEF ResetInv, ResetType
<1>4. InThePast'
  BY <1>1 DEF ResetInv, InThePast
<1>5. WatermarkInUse' /\ ReadInTime'
  BY <1>1 DEF WatermarkInUse, ReadInTime, Polled, Stepping
<1>6. \A f \in Files : seen[f] <= check
  BY <1>1, <1>2 DEF ResetInv, SeenIsHandled, Polled, Stepping
<1>7. SeenIsHandled'
  BY <1>1, <1>6 DEF SeenIsHandled
<1>8. SaidIsSeen'
  <2>1. ASSUME NEW r \in reported, r.at = dumps[r.file] PROVE seen[r.file] = r.at /\ r.at <= check
    <3>1. r.file \in Files /\ seen[r.file] = r.at
      BY <1>1, <2>1 DEF ResetInv, ResetType, Dumps, SaidIsSeen
    <3> QED BY <1>6, <3>1
  <2> QED BY <1>1, <2>1 DEF SaidIsSeen
<1>9. AllIsTold'
  <2> SUFFICES ASSUME NEW f \in Files, dumps[f] > firstSave', dumps[f] <= check PROVE Told(f)'
    BY <1>1 DEF AllIsTold
  <2>1. stored # 0 /\ firstSave' = firstSave
    BY <1>1, <1>2
  <2>2. Told(f)
    BY <1>1, <2>1 DEF ResetInv, AllIsTold
  <2> QED BY <1>1, <2>2 DEF Told, Current
<1> QED BY <1>1, <1>3, <1>4, <1>5, <1>7, <1>8, <1>9 DEF ResetInv

(* The invariant says what is promised.                                     *)
LEMMA ResetsCount == ResetInv => Gr!NoIncidentMissed /\ Gr!NoIncidentRepeated
<1> SUFFICES ASSUME ResetInv PROVE Gr!NoIncidentMissed /\ Gr!NoIncidentRepeated
  OBVIOUS
<1>1. ASSUME pc = "save", stored # 0, NEW f \in Files, dumps[f] > firstSave, dumps[f] <= now
      PROVE  \/ [file |-> f, at |-> dumps[f]] \in reported
             \/ \E r \in reported : r.at > dumps[f] /\ r.at - dumps[f] < MergeWindow
  <2>1. Told(f)
    BY <1>1 DEF ResetInv, AllIsTold
  <2>2. CASE Current(f) \in reported
    BY <2>2 DEF Current
  <2>3. ASSUME NEW r \in reported, r.at > dumps[f], r.at < dumps[f] + MergeWindow
        PROVE  r.at - dumps[f] < MergeWindow
    <3>1. r.at \in Nat /\ dumps[f] \in Nat /\ MergeWindow \in Nat
      BY ConstantsAssumption DEF ResetInv, ResetType, Dumps, Gr!BoundsAssumption
    <3> QED BY <2>3, <3>1
  <2> QED BY <2>1, <2>2, <2>3 DEF Told
<1> QED BY <1>1 DEF ResetInv, Gr!NoIncidentMissed, Gr!NoIncidentRepeated

(* For any number of dumps, written whenever and in either directory, any   *)
(* merge window and however often the worker dies: a driver reset that is   *)
(* newer than the first watermark is reported or merged with one that is,   *)
(* and none is reported again after it was stored (checkGPUResets,          *)
(* SetSince).                                                               *)
THEOREM ResetsCountOnce == Spec => []IncidentsCountOnce
<1>1. Init => ResetInv
  BY WatchStarts DEF Init
<1>2. ResetInv /\ [Next]_vars => ResetInv'
  <2> SUFFICES ASSUME ResetInv, [Next]_vars PROVE ResetInv'
    OBVIOUS
  <2>1. Gr!Next \/ UNCHANGED resetsVars
    BY DEF Next, vars, PolicyMoves, ObMoves, ApMoves, GlMoves, ScMoves, GrMoves, OaMoves, ArMoves
  <2>2. CASE UNCHANGED resetsVars
    BY <2>2 DEF resetsVars, ResetInv, ResetType, InThePast, WatermarkInUse, ReadInTime, SeenIsHandled,
       SaidIsSeen, AllIsTold, Told, Current
  <2> QED BY <2>1, <2>2, TimeKeepsResets, StartKeepsResets, CrashKeepsResets, FirstScanKeepsResets,
        LastScanKeepsResets, CheckKeepsResets, PersistKeepsResets DEF Gr!Next
<1>3. ResetInv => IncidentsCountOnce
  BY ResetsCount DEF IncidentsCountOnce
<1> QED BY <1>1, <1>2, <1>3, PTL DEF Spec

-----------------------------------------------------------------------------
(* The pattern matcher.                                                    *)

\* The rest of the pattern from p on matches the rest of the text from s on.
RestFits(p, s) == \E c \in [p..Len(pattern) + 1 -> 1..Len(text) + 1] : c[p] = s /\ Gl!Aligns(c, p)

\* The symbols since the last star match the text from the mark on, one by one.
SinceStar ==
    /\ pi - star = si - mark + 1
    /\ \A q \in star + 1..pi - 1 : pattern[q] # "*" /\ pattern[q] \in {"?", text[mark + (q - star - 1)]}

MatcherType ==
    /\ pattern \in Seq(Symbols \cup {"*", "?"}) /\ text \in Seq(Symbols) /\ {"*", "?"} \cap Symbols = {}
    /\ pi \in 1..Len(pattern) + 1 /\ si \in 1..Len(text) + 1
    /\ star \in 0..Len(pattern) /\ star < pi /\ mark \in 1..si
    /\ result \in {"running", "yes", "no"} /\ steps \in Nat

\* What is still to be found decides: the rest from here or, after a star, the
\* rest behind the star at the mark or later.
RestDecides ==
    result = "running" =>
        /\ star = 0 => (Gl!Means <=> RestFits(pi, si))
        /\ star # 0 => /\ pattern[star] = "*" /\ SinceStar
                       /\ Gl!Means <=> \E k \in mark..Len(text) + 1 : RestFits(star + 1, k)

\* Each symbol the mark moves over costs no more steps than the pattern is long.
StepsPaid == steps <= (mark - 1) * (Len(pattern) + 1) + (pi - 1) + (IF result = "running" THEN 0 ELSE 1)

MatcherInv == MatcherType /\ RestDecides /\ StepsPaid /\ Gl!GlobIsExact

(* The whole pattern is the rest from its first symbol on.                  *)
LEMMA FromTheStart ==
    Gl!Means <=> RestFits(1, 1)
  BY DEF Gl!Means, RestFits

(* The rest of the pattern matches when its first symbol takes a piece of   *)
(* the text and what follows matches behind that piece.                     *)
LEMMA FromStep ==
    ASSUME MatcherType, NEW p \in 1..Len(pattern), NEW s \in 1..Len(text) + 1
    PROVE  RestFits(p, s) <=> \E b \in 1..Len(text) + 1 : Gl!Takes(p, s, b) /\ RestFits(p + 1, b)
<1>1. Len(pattern) \in Nat /\ Len(text) \in Nat
  BY DEF MatcherType
<1> DEFINE m == Len(pattern)
           n == Len(text)
<1>2. ASSUME RestFits(p, s) PROVE \E b \in 1..n + 1 : Gl!Takes(p, s, b) /\ RestFits(p + 1, b)
  <2>1. PICK c \in [p..m + 1 -> 1..n + 1] : c[p] = s /\ c[m + 1] = n + 1 /\ \A q \in p..m : Gl!Takes(q, c[q], c[q + 1])
    BY <1>2 DEF RestFits, Gl!Aligns
  <2> DEFINE d == [q \in p + 1..m + 1 |-> c[q]]
  <2>2. p \in p..m /\ p + 1 \in p..m + 1 /\ p + 1 \in p + 1..m + 1 /\ m + 1 \in p + 1..m + 1
    BY <1>1
  <2>3. c[p + 1] \in 1..n + 1 /\ Gl!Takes(p, s, c[p + 1])
    BY <2>1, <2>2
  <2>4. d \in [p + 1..m + 1 -> 1..n + 1] /\ d[p + 1] = c[p + 1] /\ d[m + 1] = n + 1
    BY <1>1, <2>1, <2>2
  <2>5. ASSUME NEW q \in p + 1..m PROVE Gl!Takes(q, d[q], d[q + 1])
    <3>1. q \in p..m /\ q \in p + 1..m + 1 /\ q + 1 \in p + 1..m + 1
      BY <1>1
    <3> QED BY <2>1, <3>1
  <2> HIDE DEF d
  <2>6. RestFits(p + 1, c[p + 1])
    BY <2>4, <2>5 DEF RestFits, Gl!Aligns
  <2> QED BY <2>3, <2>6
<1>3. ASSUME NEW b \in 1..n + 1, Gl!Takes(p, s, b), RestFits(p + 1, b) PROVE RestFits(p, s)
  <2>1. PICK d \in [p + 1..m + 1 -> 1..n + 1] : d[p + 1] = b /\ d[m + 1] = n + 1 /\ \A q \in p + 1..m : Gl!Takes(q, d[q], d[q + 1])
    BY <1>3 DEF RestFits, Gl!Aligns
  <2> DEFINE c == [q \in p..m + 1 |-> IF q = p THEN s ELSE d[q]]
  <2>2. c \in [p..m + 1 -> 1..n + 1] /\ c[p] = s /\ c[m + 1] = n + 1
    BY <1>1, <2>1
  <2>3. ASSUME NEW q \in p..m PROVE Gl!Takes(q, c[q], c[q + 1])
    <3>1. q + 1 \in p..m + 1 /\ q + 1 # p /\ q \in p..m + 1
      BY <1>1
    <3>2. c[q + 1] = d[q + 1] /\ c[q] = IF q = p THEN s ELSE d[q]
      BY <3>1
    <3>3. CASE q = p
      BY <1>3, <2>1, <3>2, <3>3
    <3>4. CASE q # p
      <4>1. q \in p + 1..m
        BY <1>1, <3>4
      <4> QED BY <2>1, <3>2, <3>4, <4>1
    <3> QED BY <3>3, <3>4
  <2> HIDE DEF c
  <2> QED BY <2>2, <2>3 DEF RestFits, Gl!Aligns
<1> QED BY <1>2, <1>3

(* The empty rest matches the empty rest.                                   *)
LEMMA FromTheEnd ==
    ASSUME MatcherType, NEW s \in 1..Len(text) + 1
    PROVE  RestFits(Len(pattern) + 1, s) <=> s = Len(text) + 1
<1> DEFINE m == Len(pattern)
           n == Len(text)
<1>1. m \in Nat /\ n \in Nat /\ m + 1 \in m + 1..m + 1 /\ n + 1 \in 1..n + 1 /\ m + 1..m = {}
  BY DEF MatcherType
<1>2. ASSUME RestFits(m + 1, s) PROVE s = n + 1
  BY <1>2 DEF RestFits, Gl!Aligns
<1>3. ASSUME s = n + 1 PROVE RestFits(m + 1, s)
  <2> DEFINE c == [q \in m + 1..m + 1 |-> n + 1]
  <2>1. c \in [m + 1..m + 1 -> 1..n + 1] /\ c[m + 1] = n + 1
    BY <1>1
  <2> HIDE DEF c
  <2> QED BY <1>1, <1>3, <2>1 DEF RestFits, Gl!Aligns
<1> QED BY <1>2, <1>3

(* Behind a star the text is followed symbol by symbol: if the rest behind  *)
(* the star matches from k on, the rest from here matches as far behind k.  *)
LEMMA FromStarOn ==
    ASSUME MatcherType, star # 0, SinceStar, NEW k \in 1..Len(text) + 1, RestFits(star + 1, k)
    PROVE  k + (si - mark) \in 1..Len(text) + 1 /\ RestFits(pi, k + (si - mark))
<1> DEFINE m == Len(pattern)
           n == Len(text)
<1>1. m \in Nat /\ n \in Nat /\ star \in 1..m /\ pi \in star + 1..m + 1 /\ mark \in Nat /\ si \in Nat /\ pi - star = si - mark + 1
  BY DEF MatcherType, SinceStar
<1>2. PICK c \in [star + 1..m + 1 -> 1..n + 1] :
         c[star + 1] = k /\ c[m + 1] = n + 1 /\ \A q \in star + 1..m : Gl!Takes(q, c[q], c[q + 1])
  BY DEF RestFits, Gl!Aligns
<1> DEFINE Off == {q \in star + 1..pi : c[q] # k + (q - star - 1)}
<1>3. Off = {}
  <2> SUFFICES ASSUME Off # {} PROVE FALSE
    OBVIOUS
  <2>1. Off \in SUBSET Nat
    BY <1>1
  <2>2. PICK q \in Off : \A r \in Off : q <= r
    BY <2>1, FirstExists
  <2>3. q # star + 1 /\ q - 1 \in star + 1..pi - 1 /\ q - 1 \in star + 1..pi /\ q - 1 \in star + 1..m
    <3>1. q \in star + 1..pi /\ c[q] # k + (q - star - 1)
      BY <2>2
    <3>2. q = star + 1 => k + (q - star - 1) = k
      BY <1>1
    <3>3. q # star + 1
      BY <1>2, <3>1, <3>2
    <3> HIDE DEF Off
    <3> QED BY <1>1, <3>1, <3>3
  <2>4. c[q - 1] = k + (q - 1 - star - 1)
    BY <1>1, <2>2, <2>3
  <2>5. pattern[q - 1] # "*" /\ Gl!Takes(q - 1, c[q - 1], c[(q - 1) + 1])
    BY <1>2, <2>3 DEF SinceStar
  <2>6. c[(q - 1) + 1] = c[q - 1] + 1 /\ (q - 1) + 1 = q
    BY <1>1, <2>3, <2>5 DEF Gl!Takes
  <2> QED BY <1>1, <2>2, <2>4, <2>6
<1>4. c[pi] = k + (pi - star - 1) /\ c[pi] \in 1..n + 1 /\ k + (pi - star - 1) = k + (si - mark)
  <2>1. pi \in star + 1..pi /\ pi \in star + 1..m + 1 /\ k + (pi - star - 1) = k + (si - mark)
    BY <1>1
  <2>2. c[pi] = k + (pi - star - 1)
    BY <1>3, <2>1
  <2>3. c[pi] \in 1..n + 1
    BY <1>2, <2>1
  <2> QED BY <2>1, <2>2, <2>3
<1> DEFINE d == [q \in pi..m + 1 |-> c[q]]
<1>5. d \in [pi..m + 1 -> 1..n + 1] /\ d[pi] = c[pi] /\ d[m + 1] = n + 1
  BY <1>1, <1>2
<1>6. ASSUME NEW q \in pi..m PROVE Gl!Takes(q, d[q], d[q + 1])
  <2>1. q \in star + 1..m /\ q \in pi..m + 1 /\ q + 1 \in pi..m + 1
    BY <1>1
  <2> QED BY <1>2, <2>1
<1> HIDE DEF d
<1>7. RestFits(pi, c[pi])
  BY <1>5, <1>6 DEF RestFits, Gl!Aligns
<1> QED BY <1>4, <1>7

(* And back: if the rest from here matches, the rest behind the star        *)
(* matches from the mark on.                                                *)
LEMMA BackToTheStar ==
    ASSUME MatcherType, star # 0, SinceStar, RestFits(pi, si)
    PROVE  RestFits(star + 1, mark)
<1> DEFINE m == Len(pattern)
           n == Len(text)
<1>1. m \in Nat /\ n \in Nat /\ star \in 1..m /\ pi \in star + 1..m + 1 /\ si \in 1..n + 1 /\ mark \in 1..si /\ pi - star = si - mark + 1
  BY DEF MatcherType, SinceStar
<1>2. PICK d \in [pi..m + 1 -> 1..n + 1] : d[pi] = si /\ d[m + 1] = n + 1 /\ \A q \in pi..m : Gl!Takes(q, d[q], d[q + 1])
  BY DEF RestFits, Gl!Aligns
<1> DEFINE c == [q \in star + 1..m + 1 |-> IF q < pi THEN mark + (q - star - 1) ELSE d[q]]
<1>3. ASSUME NEW q \in star + 1..m + 1 PROVE c[q] \in 1..n + 1
  <2>1. CASE q < pi
    BY <1>1, <2>1
  <2>2. CASE ~(q < pi)
    <3>1. q \in pi..m + 1
      BY <1>1, <2>2
    <3> QED BY <1>2, <2>2, <3>1
  <2> QED BY <2>1, <2>2
<1>4. c \in [star + 1..m + 1 -> 1..n + 1]
  BY <1>3
<1>5. c[star + 1] = mark
  <2>1. star + 1 \in star + 1..m + 1 /\ (star + 1 = pi => si = mark)
    BY <1>1
  <2> QED BY <1>1, <1>2, <2>1
<1>6. c[m + 1] = n + 1
  BY <1>1, <1>2
<1>7. ASSUME NEW q \in star + 1..m PROVE Gl!Takes(q, c[q], c[q + 1])
  <2>1. q \in star + 1..m + 1 /\ q + 1 \in star + 1..m + 1
    BY <1>1
  <2>2. CASE q < pi
    <3>1. c[q] = mark + (q - star - 1)
      BY <2>1, <2>2
    <3>2. c[q + 1] = c[q] + 1
      <4>1. CASE q + 1 < pi
        <5>1. c[q + 1] = mark + ((q + 1) - star - 1)
          BY <2>1, <4>1
        <5> QED BY <1>1, <3>1, <5>1
      <4>2. CASE q + 1 = pi
        <5>1. c[q + 1] = si
          BY <1>1, <1>2, <2>1, <4>2
        <5>2. si = mark + (q - star - 1) + 1
          BY <1>1, <4>2
        <5> QED BY <3>1, <5>1, <5>2
      <4> QED BY <1>1, <2>2, <4>1, <4>2
    <3>3. q \in star + 1..pi - 1
      BY <1>1, <2>2
    <3>4. pattern[q] # "*" /\ pattern[q] \in {"?", text[c[q]]}
      BY <3>1, <3>3 DEF SinceStar
    <3> QED BY <3>2, <3>4 DEF Gl!Takes
  <2>3. CASE ~(q < pi)
    <3>1. q \in pi..m /\ c[q] = d[q] /\ c[q + 1] = d[q + 1]
      BY <1>1, <2>1, <2>3
    <3> QED BY <1>2, <3>1
  <2> QED BY <2>2, <2>3
<1> HIDE DEF c
<1> QED BY <1>4, <1>5, <1>6, <1>7 DEF RestFits, Gl!Aligns

(* At the end of the text only stars match.                                 *)
LEMMA OnlyStars ==
    ASSUME MatcherType
    PROVE  RestFits(pi, Len(text) + 1) <=> \A q \in pi..Len(pattern) : pattern[q] = "*"
<1> DEFINE m == Len(pattern)
           n == Len(text)
<1>1. m \in Nat /\ n \in Nat /\ pi \in 1..m + 1 /\ n + 1 \in 1..n + 1
  BY DEF MatcherType
<1>2. ASSUME RestFits(pi, n + 1), NEW q \in pi..m PROVE pattern[q] = "*"
  <2>1. PICK c \in [pi..m + 1 -> 1..n + 1] : c[pi] = n + 1 /\ \A r \in pi..m : Gl!Takes(r, c[r], c[r + 1])
    BY <1>2 DEF RestFits, Gl!Aligns
  <2> DEFINE Off == {r \in pi..m + 1 : c[r] # n + 1}
  <2>2. Off = {}
    <3> SUFFICES ASSUME Off # {} PROVE FALSE
      OBVIOUS
    <3>1. Off \in SUBSET Nat
      BY <1>1
    <3>2. PICK r \in Off : \A t \in Off : r <= t
      BY <3>1, FirstExists
    <3>3. r # pi /\ r - 1 \in pi..m /\ r - 1 \in pi..m + 1 /\ (r - 1) + 1 = r /\ r \in pi..m + 1
      BY <1>1, <2>1
    <3>4. c[r - 1] = n + 1
      BY <1>1, <3>2, <3>3
    <3>5. Gl!Takes(r - 1, n + 1, c[r]) /\ c[r] \in 1..n + 1
      BY <2>1, <3>3, <3>4
    <3>6. c[r] >= n + 1
      BY <1>1, <3>5 DEF Gl!Takes
    <3> QED BY <1>1, <3>2, <3>5, <3>6
  <2>3. c[q] = n + 1 /\ c[q + 1] = n + 1 /\ Gl!Takes(q, c[q], c[q + 1])
    <3>1. q \in pi..m + 1 /\ q + 1 \in pi..m + 1
      BY <1>1
    <3> QED BY <2>1, <2>2, <3>1
  <2> QED BY <1>1, <2>3 DEF Gl!Takes
<1>3. ASSUME \A q \in pi..m : pattern[q] = "*" PROVE RestFits(pi, n + 1)
  <2> DEFINE c == [q \in pi..m + 1 |-> n + 1]
  <2>1. c \in [pi..m + 1 -> 1..n + 1] /\ c[pi] = n + 1 /\ c[m + 1] = n + 1
    BY <1>1
  <2>2. ASSUME NEW q \in pi..m PROVE Gl!Takes(q, c[q], c[q + 1])
    <3>1. c[q] = n + 1 /\ c[q + 1] = n + 1 /\ pattern[q] = "*"
      BY <1>1, <1>3
    <3> QED BY <1>1, <3>1 DEF Gl!Takes
  <2> HIDE DEF c
  <2> QED BY <2>1, <2>2 DEF RestFits, Gl!Aligns
<1> QED BY <1>2, <1>3

(* The rest does not match where its first symbol takes nothing.            *)
LEMMA StuckRest ==
    ASSUME MatcherType, si <= Len(text), ~Gl!Literal, ~Gl!AtStar
    PROVE  ~RestFits(pi, si)
<1>1. Len(pattern) \in Nat /\ Len(text) \in Nat /\ pi \in 1..Len(pattern) + 1 /\ si \in 1..Len(text) + 1
  BY DEF MatcherType
<1>2. CASE pi = Len(pattern) + 1
  BY <1>1, <1>2, FromTheEnd
<1>3. CASE pi # Len(pattern) + 1
  <2>1. pi \in 1..Len(pattern)
    BY <1>1, <1>3
  <2>2. pattern[pi] # "*" /\ pattern[pi] \notin {"?", text[si]}
    BY <1>1, <2>1 DEF Gl!Literal, Gl!AtStar
  <2>3. \A b : ~Gl!Takes(pi, si, b)
    BY <2>2 DEF Gl!Takes
  <2> QED BY <1>1, <2>1, <2>3, FromStep
<1> QED BY <1>2, <1>3

(* A symbol that fits is passed: the rest matches here when what follows    *)
(* matches one symbol further.                                              *)
LEMMA LiteralRest ==
    ASSUME MatcherType, si <= Len(text), Gl!Literal
    PROVE  /\ pi \in 1..Len(pattern) /\ pattern[pi] # "*"
           /\ RestFits(pi, si) <=> RestFits(pi + 1, si + 1)
<1>1. /\ Len(pattern) \in Nat /\ Len(text) \in Nat /\ pi \in 1..Len(pattern) /\ si \in 1..Len(text)
      /\ pattern[pi] \in {"?", text[si]}
  BY DEF MatcherType, Gl!Literal
<1>2. text[si] \in Symbols /\ "*" \notin Symbols
  BY <1>1 DEF MatcherType
<1>3. pattern[pi] # "*"
  BY <1>1, <1>2
<1>4. \A b : Gl!Takes(pi, si, b) <=> b = si + 1
  BY <1>1, <1>3 DEF Gl!Takes
<1>5. si \in 1..Len(text) + 1 /\ si + 1 \in 1..Len(text) + 1
  BY <1>1
<1>6. RestFits(pi, si) <=> \E b \in 1..Len(text) + 1 : Gl!Takes(pi, si, b) /\ RestFits(pi + 1, b)
  BY <1>1, <1>5, FromStep
<1> QED BY <1>1, <1>3, <1>4, <1>5, <1>6

(* A star takes any run: what follows may match from here or further on.    *)
LEMMA StarRest ==
    ASSUME MatcherType, Gl!AtStar, NEW s \in 1..Len(text) + 1
    PROVE  /\ pi \in 1..Len(pattern) /\ pattern[pi] = "*"
           /\ RestFits(pi, s) <=> \E b \in s..Len(text) + 1 : RestFits(pi + 1, b)
<1>1. /\ Len(pattern) \in Nat /\ Len(text) \in Nat /\ pi \in 1..Len(pattern) /\ pattern[pi] = "*"
  BY DEF MatcherType, Gl!AtStar
<1>2. \A b : Gl!Takes(pi, s, b) <=> s <= b
  BY <1>1 DEF Gl!Takes
<1>3. RestFits(pi, s) <=> \E b \in 1..Len(text) + 1 : Gl!Takes(pi, s, b) /\ RestFits(pi + 1, b)
  BY <1>1, FromStep
<1>4. \A b : b \in s..Len(text) + 1 <=> b \in 1..Len(text) + 1 /\ s <= b
  BY <1>1
<1> QED BY <1>1, <1>2, <1>3, <1>4

(* Pattern and text stay, and with them what matches.                       *)
LEMMA SameMatch ==
    ASSUME pattern' = pattern, text' = text
    PROVE  (Gl!Means)' = Gl!Means /\ \A p, s : RestFits(p, s)' = RestFits(p, s)
  BY DEF Gl!Means, RestFits, Gl!Aligns, Gl!Takes

(* globMatch: a symbol that fits moves both positions on.                   *)
LEMMA AdvanceKeepsTheMatch ==
    ASSUME MatcherType, RestDecides, Gl!Advance, pattern' = pattern, text' = text
    PROVE  RestDecides'
<1>1. /\ result = "running" /\ si <= Len(text) /\ Gl!Literal
      /\ pi' = pi + 1 /\ si' = si + 1 /\ star' = star /\ mark' = mark
  BY DEF Gl!Advance, Gl!More
<1>2. /\ pi \in 1..Len(pattern) /\ pattern[pi] # "*"
      /\ RestFits(pi, si) <=> RestFits(pi + 1, si + 1)
  BY <1>1, LiteralRest
<1>3. (Gl!Means)' = Gl!Means /\ \A p, s : RestFits(p, s)' = RestFits(p, s)
  BY SameMatch
<1>4. ASSUME star = 0 PROVE (Gl!Means)' <=> RestFits(pi, si)'
  BY <1>1, <1>2, <1>3, <1>4 DEF RestDecides
<1>5. ASSUME star # 0 PROVE SinceStar'
  <2>1. /\ pi \in Nat /\ si \in Nat /\ star \in Nat /\ mark \in Nat /\ SinceStar
    BY <1>1, <1>5 DEF MatcherType, RestDecides
  <2>2. pi' - star' = si' - mark' + 1
    BY <1>1, <2>1 DEF SinceStar
  <2>3. ASSUME NEW q \in star + 1..pi PROVE pattern[q] # "*" /\ pattern[q] \in {"?", text[mark + (q - star - 1)]}
    <3>1. CASE q = pi
      <4>1. mark + (q - star - 1) = si
        BY <2>1, <3>1 DEF SinceStar
      <4> QED BY <1>1, <1>2, <3>1, <4>1 DEF Gl!Literal
    <3>2. CASE q # pi
      <4>1. q \in star + 1..pi - 1
        BY <2>1, <3>2
      <4> QED BY <2>1, <4>1 DEF SinceStar
    <3> QED BY <3>1, <3>2
  <2>4. pi' - 1 = pi
    BY <1>1, <2>1
  <2> QED BY <1>1, <2>2, <2>3, <2>4 DEF SinceStar
<1>6. ASSUME star # 0 PROVE pattern'[star'] = "*" /\ ((Gl!Means)' <=> \E k \in mark'..Len(text') + 1 : RestFits(star + 1, k)')
  BY <1>1, <1>3, <1>6 DEF RestDecides
<1> QED BY <1>1, <1>3, <1>4, <1>5, <1>6 DEF RestDecides

(* globMatch: a star is remembered with the place where it began to match.  *)
LEMMA RememberKeepsTheMatch ==
    ASSUME MatcherType, RestDecides, Gl!Remember, pattern' = pattern, text' = text
    PROVE  RestDecides'
<1>1. /\ result = "running" /\ si <= Len(text) /\ Gl!AtStar
      /\ star' = pi /\ mark' = si /\ pi' = pi + 1 /\ si' = si
  BY DEF Gl!Remember, Gl!More
<1>2. pi \in Nat /\ pi # 0 /\ si \in Nat /\ mark \in Nat /\ mark <= si /\ Len(text) \in Nat /\ si \in 1..Len(text) + 1
  BY DEF MatcherType
<1>3. /\ pi \in 1..Len(pattern) /\ pattern[pi] = "*"
      /\ \A s \in 1..Len(text) + 1 : RestFits(pi, s) <=> \E b \in s..Len(text) + 1 : RestFits(pi + 1, b)
  BY <1>1, StarRest
<1>4. (Gl!Means)' = Gl!Means /\ \A p, s : RestFits(p, s)' = RestFits(p, s)
  BY SameMatch
<1>5. SinceStar'
  <2>1. pi' - star' = si' - mark' + 1 /\ star' + 1..pi' - 1 = {}
    BY <1>1, <1>2
  <2> QED BY <2>1 DEF SinceStar
<1>6. Gl!Means <=> RestFits(pi, si)
  <2>1. CASE star = 0
    BY <1>1, <2>1 DEF RestDecides
  <2>2. CASE star # 0
    <3>1. SinceStar /\ (Gl!Means <=> \E k \in mark..Len(text) + 1 : RestFits(star + 1, k))
      BY <1>1, <2>2 DEF RestDecides
    <3>2. ASSUME Gl!Means PROVE RestFits(pi, si)
      <4>1. PICK k \in mark..Len(text) + 1 : RestFits(star + 1, k)
        BY <3>1, <3>2
      <4>2. k \in 1..Len(text) + 1
        BY <1>2, <4>1 DEF MatcherType
      <4>3. k + (si - mark) \in 1..Len(text) + 1 /\ RestFits(pi, k + (si - mark))
        BY <2>2, <3>1, <4>1, <4>2, FromStarOn
      <4>4. PICK b \in k + (si - mark)..Len(text) + 1 : RestFits(pi + 1, b)
        BY <1>3, <4>3
      <4>5. b \in si..Len(text) + 1
        BY <1>2, <4>1, <4>4
      <4> QED BY <1>2, <1>3, <4>4, <4>5
    <3>3. ASSUME RestFits(pi, si) PROVE Gl!Means
      <4>1. RestFits(star + 1, mark)
        BY <2>2, <3>1, <3>3, BackToTheStar
      <4>2. mark \in mark..Len(text) + 1
        BY <1>2
      <4> QED BY <3>1, <4>1, <4>2
    <3> QED BY <3>2, <3>3
  <2> QED BY <2>1, <2>2
<1>7. (Gl!Means)' <=> (\E k \in mark..Len(text) + 1 : RestFits(star + 1, k))'
  BY <1>1, <1>2, <1>3, <1>4, <1>6
<1>8. star' # 0 /\ pattern'[star'] = "*"
  BY <1>1, <1>2, <1>3
<1> QED BY <1>4, <1>5, <1>7, <1>8 DEF RestDecides

(* globMatch: where the last star cannot go on, it takes one symbol more.   *)
LEMMA BacktrackKeepsTheMatch ==
    ASSUME MatcherType, RestDecides, Gl!Backtrack, pattern' = pattern, text' = text
    PROVE  RestDecides'
<1>1. /\ result = "running" /\ si <= Len(text) /\ ~Gl!Literal /\ ~Gl!AtStar /\ star # 0
      /\ pi' = star + 1 /\ mark' = mark + 1 /\ si' = mark + 1 /\ star' = star
  BY DEF Gl!Backtrack, Gl!More, Gl!None
<1>2. /\ star \in Nat /\ si \in Nat /\ mark \in Nat /\ mark >= 1 /\ mark <= si /\ Len(text) \in Nat
      /\ mark \in 1..Len(text) + 1
  BY DEF MatcherType
<1>3. pattern[star] = "*" /\ SinceStar /\ (Gl!Means <=> \E k \in mark..Len(text) + 1 : RestFits(star + 1, k))
  BY <1>1 DEF RestDecides
<1>4. (Gl!Means)' = Gl!Means /\ \A p, s : RestFits(p, s)' = RestFits(p, s)
  BY SameMatch
<1>5. ~RestFits(star + 1, mark)
  <2>1. ~RestFits(pi, si)
    BY <1>1, StuckRest
  <2>2. mark + (si - mark) = si
    BY <1>2
  <2> QED BY <1>1, <1>2, <1>3, <2>1, <2>2, FromStarOn
<1>6. (\E k \in mark..Len(text) + 1 : RestFits(star + 1, k)) <=> \E k \in mark + 1..Len(text) + 1 : RestFits(star + 1, k)
  <2>1. \A k : k \in mark..Len(text) + 1 <=> k = mark \/ k \in mark + 1..Len(text) + 1
    BY <1>2
  <2> QED BY <1>5, <2>1
<1>7. SinceStar'
  <2>1. pi' - star' = si' - mark' + 1 /\ star' + 1..pi' - 1 = {}
    BY <1>1, <1>2
  <2> QED BY <2>1 DEF SinceStar
<1>8. (Gl!Means)' <=> (\E k \in mark..Len(text) + 1 : RestFits(star + 1, k))'
  BY <1>1, <1>3, <1>4, <1>6
<1> QED BY <1>1, <1>3, <1>4, <1>7, <1>8 DEF RestDecides

(* globMatch: without a star to go back to, a symbol that does not fit ends *)
(* the pass, and rightly.                                                   *)
LEMMA FailIsRight ==
    ASSUME MatcherType, RestDecides, Gl!Fail, pattern' = pattern, text' = text
    PROVE  RestDecides' /\ (Gl!GlobIsExact)'
<1>1. /\ result = "running" /\ si <= Len(text) /\ ~Gl!Literal /\ ~Gl!AtStar /\ star = 0 /\ result' = "no"
  BY DEF Gl!Fail, Gl!More, Gl!None
<1>2. ~RestFits(pi, si)
  BY <1>1, StuckRest
<1>3. (Gl!Means)' = Gl!Means
  BY SameMatch
<1>4. ~Gl!Means
  BY <1>1, <1>2 DEF RestDecides
<1>5. (Gl!Means)' \in BOOLEAN
  BY DEF Gl!Means
<1>6. result' = "no" /\ (result' = "yes") = (Gl!Means)'
  BY <1>1, <1>3, <1>4, <1>5
<1> QED BY <1>6 DEF RestDecides, Gl!GlobIsExact

(* globMatch: at the end of the text the answer is whether only stars are   *)
(* left, and rightly.                                                       *)
LEMMA FinishIsRight ==
    ASSUME MatcherType, RestDecides, Gl!Finish, pattern' = pattern, text' = text
    PROVE  RestDecides' /\ (Gl!GlobIsExact)'
<1>1. /\ result = "running" /\ si > Len(text)
      /\ result' = IF \A i \in pi..Len(pattern) : pattern[i] = "*" THEN "yes" ELSE "no"
  BY DEF Gl!Finish
<1>2. si = Len(text) + 1 /\ mark \in Nat /\ mark >= 1 /\ mark <= si /\ Len(text) \in Nat /\ mark \in 1..Len(text) + 1
  BY <1>1 DEF MatcherType
<1>3. RestFits(pi, si) <=> result' = "yes"
  BY <1>1, <1>2, OnlyStars
<1>4. Gl!Means <=> RestFits(pi, si)
  <2>1. CASE star = 0
    BY <1>1, <2>1 DEF RestDecides
  <2>2. CASE star # 0
    <3>1. SinceStar /\ (Gl!Means <=> \E k \in mark..Len(text) + 1 : RestFits(star + 1, k))
      BY <1>1, <2>2 DEF RestDecides
    <3>2. ASSUME Gl!Means PROVE RestFits(pi, si)
      <4>1. PICK k \in mark..Len(text) + 1 : RestFits(star + 1, k)
        BY <3>1, <3>2
      <4>2. k \in 1..Len(text) + 1
        BY <1>2, <4>1
      <4>3. k + (si - mark) \in 1..Len(text) + 1 /\ RestFits(pi, k + (si - mark))
        BY <2>2, <3>1, <4>1, <4>2, FromStarOn
      <4>4. k + (si - mark) = si
        BY <1>2, <4>1, <4>3
      <4> QED BY <4>3, <4>4
    <3>3. ASSUME RestFits(pi, si) PROVE Gl!Means
      <4>1. RestFits(star + 1, mark)
        BY <2>2, <3>1, <3>3, BackToTheStar
      <4>2. mark \in mark..Len(text) + 1
        BY <1>2
      <4> QED BY <3>1, <4>1, <4>2
    <3> QED BY <3>2, <3>3
  <2> QED BY <2>1, <2>2
<1>5. (Gl!Means)' = Gl!Means
  BY SameMatch
<1>6. result' # "running"
  BY <1>1
<1>7. (Gl!Means)' \in BOOLEAN
  BY DEF Gl!Means
<1>8. (result' = "yes") = (Gl!Means)'
  BY <1>3, <1>4, <1>5, <1>7
<1> QED BY <1>6, <1>8 DEF RestDecides, Gl!GlobIsExact

(* Positions stay within pattern and text (globMatch).                      *)
LEMMA MatcherTypeKept ==
    ASSUME MatcherType, Gl!Next
    PROVE  MatcherType'
<1>1. pattern' = pattern /\ text' = text /\ steps' \in Nat /\ Len(pattern) \in Nat /\ Len(text) \in Nat
  BY DEF Gl!Next, MatcherType
<1>2. ASSUME Gl!Advance PROVE MatcherType'
  <2>1. /\ si <= Len(text) /\ pi <= Len(pattern) /\ pi' = pi + 1 /\ si' = si + 1
        /\ star' = star /\ mark' = mark /\ result' = result
    BY <1>2 DEF Gl!Advance, Gl!More, Gl!Literal
  <2>2. pi' \in 1..Len(pattern) + 1 /\ si' \in 1..Len(text) + 1 /\ star' < pi' /\ mark' \in 1..si'
    BY <1>1, <2>1 DEF MatcherType
  <2> QED BY <1>1, <2>1, <2>2 DEF MatcherType
<1>3. ASSUME Gl!Remember PROVE MatcherType'
  <2>1. /\ pi <= Len(pattern) /\ star' = pi /\ mark' = si /\ pi' = pi + 1 /\ si' = si /\ result' = result
    BY <1>3 DEF Gl!Remember, Gl!AtStar
  <2>2. /\ pi' \in 1..Len(pattern) + 1 /\ si' \in 1..Len(text) + 1 /\ star' \in 0..Len(pattern)
        /\ star' < pi' /\ mark' \in 1..si'
    BY <1>1, <2>1 DEF MatcherType
  <2> QED BY <1>1, <2>1, <2>2 DEF MatcherType
<1>4. ASSUME Gl!Backtrack PROVE MatcherType'
  <2>1. /\ si <= Len(text) /\ pi' = star + 1 /\ mark' = mark + 1 /\ si' = mark + 1 /\ star' = star /\ result' = result
    BY <1>4 DEF Gl!Backtrack, Gl!More
  <2>2. pi' \in 1..Len(pattern) + 1 /\ si' \in 1..Len(text) + 1 /\ star' < pi' /\ mark' \in 1..si'
    BY <1>1, <2>1 DEF MatcherType
  <2> QED BY <1>1, <2>1, <2>2 DEF MatcherType
<1>5. ASSUME Gl!Fail \/ Gl!Finish PROVE MatcherType'
  BY <1>1, <1>5 DEF Gl!Fail, Gl!Finish, MatcherType
<1> QED BY <1>2, <1>3, <1>4, <1>5 DEF Gl!Next

(* The longer way is paid for by the symbols the mark moves over.           *)
LEMMA Products ==
    ASSUME NEW a \in Nat, NEW b \in Nat, a <= b, NEW w \in Nat
    PROVE  a * w \in Nat /\ a * w <= b * w /\ (a + 1) * w = a * w + w
<1>1. b = a + (b - a) /\ b - a \in Nat
  OBVIOUS
<1>2. \A d \in Nat : (a + d) * w = a * w + d * w /\ d * w \in Nat
  OBVIOUS
<1>3. b * w = a * w + (b - a) * w /\ (b - a) * w \in Nat
  BY <1>1, <1>2
<1>4. a * w \in Nat /\ (a + 1) * w = a * w + w
  BY <1>2
<1> QED BY <1>3, <1>4

(* Every step moves the place in the pattern on or the mark in the text,    *)
(* and going back costs no more than the pattern is long (globMatch).       *)
LEMMA StepsPaidKept ==
    ASSUME MatcherType, StepsPaid, Gl!Next
    PROVE  StepsPaid'
<1> DEFINE w == Len(pattern) + 1
           sum == (mark - 1) * w
<1>1. /\ w \in Nat /\ Len(text) \in Nat /\ steps' = steps + 1 /\ steps \in Nat /\ pattern' = pattern /\ text' = text
      /\ mark \in Nat /\ mark >= 1 /\ mark - 1 \in Nat /\ mark <= si /\ si \in Nat /\ si - 1 \in Nat
      /\ pi \in Nat /\ pi >= 1 /\ pi <= w /\ star \in Nat
  BY DEF Gl!Next, MatcherType
<1>2. steps <= sum + (pi - 1) + (IF result = "running" THEN 0 ELSE 1)
  BY DEF StepsPaid
<1>3. sum \in Nat
  BY <1>1, Products
<1>4. SUFFICES steps + 1 <= (mark' - 1) * w + (pi' - 1) + (IF result' = "running" THEN 0 ELSE 1)
  BY <1>1 DEF StepsPaid
<1>5. CASE Gl!Advance
  <2>1. result = "running" /\ result' = "running" /\ pi' = pi + 1 /\ mark' = mark
    BY <1>5 DEF Gl!Advance, Gl!More
  <2>2. (mark' - 1) * w = sum
    BY <2>1
  <2> HIDE DEF sum, w
  <2> QED BY <1>1, <1>2, <1>3, <2>1, <2>2
<1>6. CASE Gl!Remember
  <2>1. result = "running" /\ result' = "running" /\ pi' = pi + 1 /\ mark' = si
    BY <1>6 DEF Gl!Remember, Gl!More
  <2>2. (mark' - 1) * w \in Nat /\ sum <= (mark' - 1) * w
    <3>1. mark - 1 <= si - 1 /\ mark' - 1 = si - 1
      BY <1>1, <2>1
    <3> HIDE DEF w
    <3>2. (mark - 1) * w <= (si - 1) * w /\ (si - 1) * w \in Nat
      BY <1>1, <3>1, Products
    <3> QED BY <3>1, <3>2
  <2> HIDE DEF sum, w
  <2> DEFINE more == (mark' - 1) * w
  <2>3. more \in Nat /\ sum <= more
    BY <2>2
  <2>4. steps + 1 <= more + (pi' - 1) + 0
    <3> HIDE DEF more
    <3> QED BY <1>1, <1>2, <1>3, <2>1, <2>3
  <2> QED BY <2>1, <2>4
<1>7. CASE Gl!Backtrack
  <2>1. result = "running" /\ result' = "running" /\ pi' = star + 1 /\ mark' = mark + 1
    BY <1>7 DEF Gl!Backtrack, Gl!More
  <2>2. (mark' - 1) * w = sum + w
    <3>1. mark' - 1 = (mark - 1) + 1
      BY <1>1, <2>1
    <3> HIDE DEF w
    <3>2. ((mark - 1) + 1) * w = (mark - 1) * w + w
      BY <1>1, Products
    <3> QED BY <3>1, <3>2
  <2> HIDE DEF sum, w
  <2>3. steps + 1 <= (sum + w) + (pi' - 1) + 0
    BY <1>1, <1>2, <1>3, <2>1
  <2> QED BY <2>1, <2>2, <2>3
<1>8. CASE Gl!Fail \/ Gl!Finish
  <2>1. result = "running" /\ result' # "running" /\ pi' = pi /\ mark' = mark
    BY <1>8 DEF Gl!Fail, Gl!Finish, Gl!More
  <2>2. (mark' - 1) * w = sum
    BY <2>1
  <2> HIDE DEF sum, w
  <2>3. steps + 1 <= sum + (pi' - 1) + 1
    BY <1>1, <1>2, <1>3, <2>1
  <2> QED BY <2>1, <2>2, <2>3
<1> QED BY <1>5, <1>6, <1>7, <1>8 DEF Gl!Next

(* So the whole pass takes no more steps than the product of the lengths.   *)
LEMMA StepsStayBounded ==
    ASSUME MatcherType, StepsPaid
    PROVE  Gl!StepsAreBounded
<1> DEFINE w == Len(pattern) + 1
<1>1. /\ w \in Nat /\ Len(text) \in Nat /\ steps \in Nat /\ pi \in Nat /\ pi - 1 <= w - 1
      /\ mark - 1 \in Nat /\ mark - 1 <= Len(text)
  BY DEF MatcherType
<1>2. (mark - 1) * w \in Nat /\ (mark - 1) * w <= Len(text) * w /\ (Len(text) + 1) * w = Len(text) * w + w /\ Len(text) * w \in Nat
  <2> HIDE DEF w
  <2>1. (mark - 1) * w \in Nat /\ (mark - 1) * w <= Len(text) * w
    BY <1>1, Products
  <2> QED BY <1>1, <2>1, Products
<1> DEFINE a == (mark - 1) * w
           b == Len(text) * w
           c == (Len(text) + 1) * w
<1>3. a \in Nat /\ b \in Nat /\ a <= b /\ c = b + w
  BY <1>2
<1>4. steps <= a + (pi - 1) + 1
  <2>1. steps <= a + (pi - 1) + (IF result = "running" THEN 0 ELSE 1)
    BY DEF StepsPaid
  <2> HIDE DEF a, w
  <2> QED BY <1>1, <1>3, <2>1
<1>5. steps <= c + 1
  <2> HIDE DEF a, b, c, w
  <2> QED BY <1>1, <1>3, <1>4
<1> QED BY <1>5 DEF Gl!StepsAreBounded

(* The pass starts with everything still to be found.                       *)
LEMMA MatcherStarts ==
    ASSUME ConstantsAssumption, Gl!Init
    PROVE  MatcherInv
<1>1. /\ pi = 1 /\ si = 1 /\ star = 0 /\ mark = 1 /\ result = "running" /\ steps = 0
  BY DEF Gl!Init, Gl!None
<1>2. pattern \in Seq(Symbols \cup {"*", "?"}) /\ text \in Seq(Symbols)
  BY DEF Gl!Init, Gl!SeqsUpTo
<1>3. {"*", "?"} \cap Symbols = {}
  BY DEF ConstantsAssumption, Gl!SymbolsAssumption
<1>4. MatcherType
  BY <1>1, <1>2, <1>3 DEF MatcherType
<1>5. RestDecides
  BY <1>1, FromTheStart DEF RestDecides
<1>6. StepsPaid
  <2>1. Len(pattern) + 1 \in Nat
    BY <1>2
  <2>2. (mark - 1) * (Len(pattern) + 1) = 0
    BY <1>1, <2>1
  <2> QED BY <1>1, <2>2 DEF StepsPaid
<1> QED BY <1>1, <1>4, <1>5, <1>6 DEF MatcherInv, Gl!GlobIsExact

(* One remembered star loses no match, whatever the pattern and the text    *)
(* (globMatch).                                                             *)
LEMMA MatcherInvKept ==
    ASSUME MatcherInv, Gl!Next
    PROVE  MatcherInv'
<1>1. MatcherType /\ RestDecides /\ StepsPaid /\ pattern' = pattern /\ text' = text
  BY DEF MatcherInv, Gl!Next
<1>2. MatcherType' /\ StepsPaid'
  BY <1>1, MatcherTypeKept, StepsPaidKept
<1>3. RestDecides' /\ (Gl!GlobIsExact)'
  <2>1. ASSUME Gl!Advance \/ Gl!Remember \/ Gl!Backtrack PROVE result' = "running"
    BY <2>1 DEF Gl!Advance, Gl!Remember, Gl!Backtrack, Gl!More
  <2>2. ASSUME Gl!Advance \/ Gl!Remember \/ Gl!Backtrack PROVE RestDecides'
    BY <1>1, <2>2, AdvanceKeepsTheMatch, RememberKeepsTheMatch, BacktrackKeepsTheMatch
  <2>3. ASSUME result' = "running" PROVE (Gl!GlobIsExact)'
    BY <2>3 DEF Gl!GlobIsExact
  <2>4. ASSUME Gl!Fail \/ Gl!Finish PROVE RestDecides' /\ (Gl!GlobIsExact)'
    BY <1>1, <2>4, FailIsRight, FinishIsRight
  <2> QED BY <2>1, <2>2, <2>3, <2>4 DEF Gl!Next
<1> QED BY <1>2, <1>3 DEF MatcherInv

-----------------------------------------------------------------------------
(* The applications of a tick.                                             *)

\* What a list is made of: one line per process, with its GPU use.
LinesOf(lines, P) ==
    /\ \A m \in lines : m.pid \in P /\ m.gpu \in {"none", "some", "much"}
    /\ \A m, n \in lines : m.pid = n.pid => m = n

(* Two different lines are always in one order and never in both            *)
(* (byDemand).                                                              *)
LEMMA DemandOrders ==
    ASSUME NEW P \in SUBSET Nat, NEW lines, LinesOf(lines, P)
    PROVE  /\ \A m, n \in lines : m # n => (Ap!byDemand(m, n) <=> ~Ap!byDemand(n, m))
           /\ \A m \in lines : ~Ap!byDemand(m, m)
           /\ \A m, n, o \in lines : Ap!byDemand(m, n) /\ Ap!byDemand(n, o) => Ap!byDemand(m, o)
<1>1. /\ Ap!Demand["none"] = 0 /\ Ap!Demand["some"] = 1 /\ Ap!Demand["much"] = 2
  BY DEF Ap!Demand
<1>2. ASSUME NEW m \in lines
      PROVE  m.pid \in Nat /\ m.gpu \in {"none", "some", "much"} /\ Ap!Demand[m.gpu] \in 0..2
  <2>1. m.pid \in Nat /\ (m.gpu = "none" \/ m.gpu = "some" \/ m.gpu = "much")
    BY DEF LinesOf
  <2> QED BY <1>1, <2>1
<1>3. ASSUME NEW m \in lines, NEW n \in lines, Ap!Demand[m.gpu] = Ap!Demand[n.gpu] PROVE m.gpu = n.gpu
  BY <1>1, <1>2, <1>3
<1>4. ASSUME NEW m \in lines, NEW n \in lines, m # n PROVE Ap!byDemand(m, n) <=> ~Ap!byDemand(n, m)
  <2>1. m.pid # n.pid
    BY <1>4 DEF LinesOf
  <2> QED BY <1>2, <1>3, <2>1 DEF Ap!byDemand
<1>5. ASSUME NEW m \in lines PROVE ~Ap!byDemand(m, m)
  BY <1>2 DEF Ap!byDemand
<1>6. ASSUME NEW m \in lines, NEW n \in lines, NEW o \in lines, Ap!byDemand(m, n), Ap!byDemand(n, o)
      PROVE  Ap!byDemand(m, o)
  BY <1>2, <1>3, <1>6 DEF Ap!byDemand
<1> QED BY <1>4, <1>5, <1>6

(* Lines of different processes can be put in order, so a sorted list has   *)
(* the lines it was made of and no others (apps, sort.Slice).               *)
LEMMA SortedIsAList ==
    ASSUME NEW P \in SUBSET Nat, IsFiniteSet(P), NEW lines, LinesOf(lines, P)
    PROVE  Ap!Sorted(lines) \in [1..Cardinality(lines) -> lines]
<1> DEFINE n == Cardinality(lines)
           Before(m) == {o \in lines : Ap!byDemand(o, m)}
<1>1. IsFiniteSet(lines) /\ n \in Nat
  <2> DEFINE pidOf == [m \in lines |-> m.pid]
  <2>1. pidOf \in Injection(lines, P)
    BY DEF LinesOf, Injection, IsInjective
  <2> HIDE DEF pidOf
  <2> QED BY <2>1, FS_Injection, FS_CardinalityType
<1>2. ASSUME NEW m \in lines PROVE Before(m) \in SUBSET lines /\ IsFiniteSet(Before(m)) /\ Cardinality(Before(m)) \in 0..n - 1
  <2>1. Before(m) \in SUBSET lines /\ m \notin Before(m)
    BY DemandOrders
  <2> HIDE DEF Before
  <2>2. IsFiniteSet(Before(m)) /\ Cardinality(Before(m)) <= n /\ Cardinality(Before(m)) \in Nat /\ Cardinality(Before(m)) # n
    BY <1>1, <2>1, FS_Subset, FS_CardinalityType
  <2> QED BY <1>1, <2>1, <2>2
<1>3. ASSUME NEW m \in lines, NEW o \in lines, Ap!byDemand(m, o)
      PROVE  Cardinality(Before(m)) < Cardinality(Before(o))
  <2>1. Before(m) \in SUBSET Before(o) /\ m \in Before(o) /\ m \notin Before(m)
    BY <1>3, DemandOrders
  <2> HIDE DEF Before
  <2>2. IsFiniteSet(Before(o)) /\ Cardinality(Before(o)) \in Nat /\ Cardinality(Before(m)) \in Nat
    BY <1>2
  <2>3. Cardinality(Before(m)) <= Cardinality(Before(o)) /\ (Cardinality(Before(o)) = Cardinality(Before(m)) => Before(o) = Before(m))
    BY <2>1, <2>2, FS_Subset
  <2> QED BY <2>1, <2>2, <2>3
<1> DEFINE rank == [m \in lines |-> Cardinality(Before(m)) + 1]
<1>4. rank \in [lines -> 1..n]
  <2>1. ASSUME NEW m \in lines PROVE Cardinality(Before(m)) + 1 \in 1..n
    <3> HIDE DEF Before, n
    <3> QED BY <1>1, <1>2
  <2> HIDE DEF Before
  <2> QED BY <2>1
<1>5. ASSUME NEW m \in lines, NEW o \in lines, m # o PROVE rank[m] # rank[o] /\ (rank[m] < rank[o] => Ap!byDemand(m, o))
  <2>1. Cardinality(Before(m)) \in Nat /\ Cardinality(Before(o)) \in Nat
    <3> HIDE DEF Before
    <3> QED BY <1>2
  <2>2. rank[m] = Cardinality(Before(m)) + 1 /\ rank[o] = Cardinality(Before(o)) + 1
    OBVIOUS
  <2>3. Ap!byDemand(m, o) <=> ~Ap!byDemand(o, m)
    BY <1>5, DemandOrders
  <2> HIDE DEF rank, Before
  <2> QED BY <1>3, <2>1, <2>2, <2>3
<1> HIDE DEF rank
<1>6. IsFiniteSet(1..n) /\ Cardinality(1..n) = n
  <2>1. 1 \in Int /\ n \in Int /\ (IF 1 > n THEN 0 ELSE n - 1 + 1) = n
    BY <1>1
  <2> HIDE DEF n
  <2> QED BY <2>1, FS_Interval
<1>7. rank \in Surjection(lines, 1..n)
  <2>1. rank \in Injection(lines, 1..n)
    BY <1>4, <1>5 DEF Injection, IsInjective
  <2> QED BY <1>6, <2>1, FS_Injection
<1>8. \A i \in 1..n : \E m \in lines : rank[m] = i
  BY <1>7 DEF Surjection
<1> DEFINE s == [i \in 1..n |-> CHOOSE m \in lines : rank[m] = i]
<1>9. \A i \in 1..n : s[i] \in lines /\ rank[s[i]] = i
  BY <1>8
<1>10. s \in [1..n -> lines]
  BY <1>9
<1>11. ASSUME NEW i \in 1..n, NEW j \in 1..n, i < j PROVE Ap!byDemand(s[i], s[j])
  <2> HIDE DEF s
  <2>1. s[i] # s[j]
    BY <1>1, <1>9, <1>11
  <2> QED BY <1>5, <1>9, <1>11, <2>1
<1>12. Ap!Cardinality(lines) = n
  BY DEF Ap!Cardinality, Cardinality
<1> HIDE DEF s, n
<1>13. \E t \in [1..Ap!Cardinality(lines) -> lines] :
          \A i, j \in 1..Ap!Cardinality(lines) : i < j => Ap!byDemand(t[i], t[j])
  BY <1>10, <1>11, <1>12
<1>14. Ap!Sorted(lines) \in [1..Ap!Cardinality(lines) -> lines]
  BY <1>13 DEF Ap!Sorted
<1> QED BY <1>12, <1>14 DEF n

\* The entry of the process table for one identifier is free, or the process
\* that holds the identifier, started at a known time not after this one.
Entry(p, i, last, at) ==
    p.alive => /\ p.pid = i /\ p.gpu \in {"none", "much"} /\ p.id \in 1..last
               /\ p.created \in Nat /\ p.created <= at

\* Whoever holds a parent's identifier now is that parent, or younger than the child.
ParentOrYounger(P) ==
    \A i, j \in P :
        procs[i].alive /\ procs[j].alive /\ i # j /\ procs[i].ppid = j /\ procs[i].created # 0 /\ procs[j].created # 0
            => procs[j].id = procs[i].parentId \/ procs[j].created > procs[i].created

TableInv(P) ==
    /\ appClock \in Nat /\ born \in Nat /\ runtimePid \in Nat
    /\ procs = [i \in P |-> procs[i]]
    /\ \A i \in P : Entry(procs[i], i, born, appClock)
    /\ ParentOrYounger(P)

(* Nothing is listed between two ticks.                                     *)
LEMMA NothingListed ==
    /\ Ap!ToSet(Ap!NoApps.children) = {} /\ Ap!ToSet(Ap!NoApps.games) = {} /\ Ap!ToSet(Ap!NoApps.launchers) = {}
    /\ Ap!ToSet(Ap!NoApps.ordinary) = {} /\ Ap!ToSet(Ap!NoApps.users) = {}
<1>1. /\ Ap!NoApps.children = <<>> /\ Ap!NoApps.games = <<>> /\ Ap!NoApps.launchers = <<>>
      /\ Ap!NoApps.ordinary = <<>> /\ Ap!NoApps.users = <<>>
  BY DEF Ap!NoApps
<1>2. Ap!ToSet(<<>>) = {}
  BY DEF Ap!ToSet
<1> QED BY <1>1, <1>2

(* A sorted list has nothing but the lines it was made of.                  *)
LEMMA SortedHasLines ==
    ASSUME NEW P \in SUBSET Nat, IsFiniteSet(P), NEW lines, LinesOf(lines, P)
    PROVE  Ap!ToSet(Ap!Sorted(lines)) \subseteq lines
<1>1. Ap!Sorted(lines) \in [1..Cardinality(lines) -> lines]
  BY SortedIsAList
<1> DEFINE s == Ap!Sorted(lines)
<1>2. DOMAIN s = 1..Cardinality(lines) /\ \A i \in DOMAIN s : s[i] \in lines
  BY <1>1
<1> HIDE DEF s
<1>3. Ap!ToSet(s) \subseteq lines
  BY <1>2 DEF Ap!ToSet
<1> QED BY <1>3 DEF s

\* The processes a tick tells about: alive, and not of the runtime.
OthersOf(P, members) == {p \in {procs[i] : i \in P} : p.alive /\ ~Ap!Mine(p.pid, members)}

LineOf(p, t, rs, visible) ==
    [pid |-> p.pid, class |-> Ap!Match(rs, p.exe, p.dir), gpu |-> IF visible THEN p.gpu ELSE "none", id |-> p.id,
     front |-> Ap!Fresh(t) /\ report.pid = p.pid]

(* The lines of some processes are lines of different processes.            *)
LEMMA LinesAreOfProcesses ==
    ASSUME NEW P, TableInv(P), NEW t, NEW rs, NEW visible, NEW members, NEW some \in SUBSET OthersOf(P, members)
    PROVE  LinesOf({LineOf(p, t, rs, visible) : p \in some}, P)
<1>1. ASSUME NEW p \in some PROVE p.pid \in P /\ p.gpu \in {"none", "much"} /\ p = procs[p.pid]
  BY DEF OthersOf, TableInv, Entry
<1>2. ASSUME NEW p \in some
      PROVE  /\ LineOf(p, t, rs, visible).pid = p.pid
             /\ LineOf(p, t, rs, visible).gpu \in {"none", "some", "much"}
  BY <1>1 DEF LineOf
<1>3. ASSUME NEW p \in some, NEW q \in some, LineOf(p, t, rs, visible).pid = LineOf(q, t, rs, visible).pid
      PROVE  LineOf(p, t, rs, visible) = LineOf(q, t, rs, visible)
  <2>1. p = q
    BY <1>1, <1>2, <1>3
  <2> QED BY <2>1
<1> QED BY <1>1, <1>2, <1>3 DEF LinesOf

\* The sorted list of some processes' lines, as a set.
ListOf(some, t, rs, visible) == Ap!ToSet(Ap!Sorted({LineOf(p, t, rs, visible) : p \in some}))

(* A list made of some of the others has only lines of them.                *)
LEMMA ListIsOfOthers ==
    ASSUME NEW P \in SUBSET Nat, IsFiniteSet(P), TableInv(P), NEW t, NEW rs, NEW visible, NEW members,
           NEW some \in SUBSET OthersOf(P, members)
    PROVE  \A m \in ListOf(some, t, rs, visible) :
               \E p \in some : m = LineOf(p, t, rs, visible)
<1> DEFINE lines == {LineOf(p, t, rs, visible) : p \in some}
<1>1. LinesOf(lines, P)
  BY LinesAreOfProcesses
<1>2. Ap!ToSet(Ap!Sorted(lines)) \subseteq lines
  <2> HIDE DEF lines
  <2> QED BY <1>1, SortedHasLines
<1> QED BY <1>2 DEF ListOf

(* Every line of a tick's lists is one of a process that is alive and not   *)
(* the runtime's, and an inferred child has a parent that passes (apps).    *)
LEMMA ListsTell ==
    ASSUME TableInv(Pids), Ap!BoundsAssumption, NEW t, NEW rs, NEW listed, NEW visible, NEW members,
           NEW a, a = Ap!AppFacts(t, rs, listed, visible, members)
    PROVE  /\ \A m \in UNION {Ap!ToSet(a.games), Ap!ToSet(a.launchers), Ap!ToSet(a.ordinary), Ap!ToSet(a.children), Ap!ToSet(a.users)} :
                  \E p \in OthersOf(Pids, members) : m = LineOf(p, t, rs, visible)
           /\ \A m \in Ap!ToSet(a.children) :
                  \E p \in OthersOf(Pids, members) : m = LineOf(p, t, rs, visible) /\ Ap!Parent(p, rs)
<1> DEFINE others == OthersOf(Pids, members)
           line(p) == LineOf(p, t, rs, visible)
           list(some) == ListOf(some, t, rs, visible)
           use(p) == IF visible THEN p.gpu ELSE "none"
           games == {p \in others : Ap!Match(rs, p.exe, p.dir) = "game"}
           launchers == {p \in others : Ap!Match(rs, p.exe, p.dir) = "launcher"}
           ordinary == {p \in others : Ap!Match(rs, p.exe, p.dir) = "ordinary" /\ use(p) # "none"}
           children == {p \in others : Ap!Match(rs, p.exe, p.dir) = "" /\ Ap!Parent(p, rs) /\ use(p) = "much"}
           users == {p \in others : use(p) # "none"}
<1>1. CASE ~listed
  <2>1. a = Ap!NoApps
    BY <1>1 DEF Ap!AppFacts
  <2> QED BY <2>1, NothingListed
<1>2. CASE listed
  <2>1. /\ Ap!ToSet(a.games) = list(games) /\ Ap!ToSet(a.launchers) = list(launchers)
        /\ Ap!ToSet(a.ordinary) = list(ordinary) /\ Ap!ToSet(a.children) = list(children)
        /\ Ap!ToSet(a.users) = list(users)
    BY <1>2 DEF Ap!AppFacts, OthersOf, LineOf, ListOf
  <2>2. Pids \in SUBSET Nat /\ IsFiniteSet(Pids)
    BY DEF Ap!BoundsAssumption, Ap!IsFiniteSet, IsFiniteSet
  <2>3. ASSUME NEW some \in SUBSET others, NEW m \in list(some) PROVE \E p \in some : m = line(p)
    <3>1. some \in SUBSET OthersOf(Pids, members) /\ m \in ListOf(some, t, rs, visible)
      BY <2>3
    <3> QED BY <2>2, <3>1, ListIsOfOthers
  <2>4. games \in SUBSET others /\ launchers \in SUBSET others /\ ordinary \in SUBSET others
        /\ children \in SUBSET others /\ users \in SUBSET others
    OBVIOUS
  <2>5. \A p \in children : Ap!Parent(p, rs)
    OBVIOUS
  <2> HIDE DEF list, games, launchers, ordinary, children, users
  <2> QED BY <2>1, <2>3, <2>4, <2>5
<1> QED BY <1>1, <1>2

(* A process that starts under a free identifier keeps the table right: its *)
(* own parent is alive, and it is younger than every child its identifier   *)
(* had before.                                                              *)
LEMMA SpawnKeepsTable ==
    ASSUME NEW P, P \subseteq Nat \ {0}, TableInv(P),
           NEW i \in P, NEW by \in P \cup {0}, NEW p,
           ~procs[i].alive, by # 0 => procs[by].alive,
           appClock' = appClock + 1, born' = born + 1, runtimePid' \in Nat,
           procs' = [procs EXCEPT ![i] = p],
           p.alive, p.pid = i, p.ppid = by, p.gpu \in {"none", "much"},
           p.created = 0 \/ p.created = appClock + 1, p.id = born + 1,
           p.parentId = IF by = 0 THEN 0 ELSE procs[by].id
    PROVE  TableInv(P)'
<1>1. /\ appClock \in Nat /\ born \in Nat
      /\ procs'[i] = p /\ \A j \in P : j # i => procs'[j] = procs[j]
  BY DEF TableInv
<1>2. procs' = [j \in P |-> procs'[j]]
  BY DEF TableInv
<1>3. ASSUME NEW j \in P PROVE Entry(procs'[j], j, born', appClock')
  <2>1. CASE j = i
    BY <1>1, <2>1 DEF Entry
  <2>2. CASE j # i
    <3>1. Entry(procs[j], j, born, appClock)
      BY DEF TableInv
    <3> QED BY <1>1, <2>2, <3>1 DEF Entry
  <2> QED BY <2>1, <2>2
<1>4. ASSUME NEW c \in P, NEW j \in P, procs'[c].alive, procs'[j].alive, c # j, procs'[c].ppid = j,
             procs'[c].created # 0, procs'[j].created # 0
      PROVE  procs'[j].id = procs'[c].parentId \/ procs'[j].created > procs'[c].created
  <2>1. CASE c = i
    BY <1>1, <1>4, <2>1
  <2>2. CASE j = i
    <3>1. Entry(procs[c], c, born, appClock) /\ procs'[c] = procs[c] /\ procs[c].alive
      BY <1>1, <1>4, <2>2 DEF TableInv
    <3>2. procs[c].created \in Nat /\ procs[c].created <= appClock
      BY <3>1 DEF Entry
    <3> QED BY <1>1, <1>4, <2>2, <3>1, <3>2
  <2>3. CASE c # i /\ j # i
    BY <1>1, <1>4, <2>3 DEF TableInv, ParentOrYounger
  <2> QED BY <2>1, <2>2, <2>3
<1> QED BY <1>1, <1>2, <1>3, <1>4 DEF TableInv, ParentOrYounger

(* A process that exits leaves the others as they are.                      *)
LEMMA ExitKeepsTable ==
    ASSUME NEW P, TableInv(P), NEW i \in P, NEW p, ~p.alive, appClock' = appClock, born' = born,
           runtimePid' \in Nat, procs' = [procs EXCEPT ![i] = p]
    PROVE  TableInv(P)'
<1>1. /\ appClock \in Nat /\ born \in Nat
      /\ procs'[i] = p /\ \A j \in P : j # i => procs'[j] = procs[j]
  BY DEF TableInv
<1>2. procs' = [j \in P |-> procs'[j]]
  BY DEF TableInv
<1>3. ASSUME NEW j \in P, procs'[j].alive PROVE j # i /\ procs'[j] = procs[j]
  BY <1>1, <1>3
<1>4. ASSUME NEW j \in P PROVE Entry(procs'[j], j, born', appClock')
  BY <1>3 DEF TableInv, Entry
<1>5. ParentOrYounger(P)'
  BY <1>3 DEF TableInv, ParentOrYounger
<1> QED BY <1>1, <1>2, <1>4, <1>5 DEF TableInv

(* Nothing else touches the table; time only goes on.                       *)
LEMMA OthersKeepTable ==
    ASSUME NEW P, TableInv(P), appClock' \in Nat, appClock' >= appClock, procs' = procs, born' = born, runtimePid' = runtimePid
    PROVE  TableInv(P)'
<1>1. ASSUME NEW j \in P PROVE Entry(procs[j], j, born, appClock')
  BY DEF TableInv, Entry
<1>2. ParentOrYounger(P)'
  BY DEF TableInv, ParentOrYounger
<1> QED BY <1>1, <1>2 DEF TableInv

(* Processes start, exit and reuse identifiers, and the table stays right.  *)
LEMMA TableKept ==
    ASSUME TableInv(Pids), Ap!BoundsAssumption, Ap!Next
    PROVE  TableInv(Pids)'
<1>0. Pids \subseteq Nat \ {0} /\ appClock \in Nat /\ runtimePid \in Nat
  BY DEF Ap!BoundsAssumption, TableInv
<1>1. ASSUME Ap!Spawn PROVE TableInv(Pids)'
  <2>1. PICK pid \in Pids, prog \in Programs, by \in Pids \cup {0}, known \in BOOLEAN, gpu \in {"none", "much"}, mine \in BOOLEAN :
          /\ ~procs[pid].alive /\ (by # 0 => procs[by].alive)
          /\ mine => runtimePid = 0 /\ by = 0
          /\ appClock' = appClock + 1 /\ born' = born + 1
          /\ runtimePid' = IF mine THEN pid ELSE runtimePid
          /\ procs' = [procs EXCEPT ![pid] = [alive |-> TRUE, pid |-> pid, exe |-> prog.exe, dir |-> prog.dir,
                         ppid |-> by, gpu |-> gpu, created |-> IF known THEN appClock' ELSE 0,
                         id |-> born', parentId |-> IF by = 0 THEN 0 ELSE procs[by].id]]
    BY <1>1, Zenon DEF Ap!Spawn
  <2> DEFINE p == [alive |-> TRUE, pid |-> pid, exe |-> prog.exe, dir |-> prog.dir,
                         ppid |-> by, gpu |-> gpu, created |-> IF known THEN appClock' ELSE 0,
                         id |-> born', parentId |-> IF by = 0 THEN 0 ELSE procs[by].id]
  <2>2. /\ p.alive /\ p.pid = pid /\ p.ppid = by /\ p.gpu \in {"none", "much"}
        /\ (p.created = 0 \/ p.created = appClock + 1) /\ p.id = born + 1
        /\ p.parentId = IF by = 0 THEN 0 ELSE procs[by].id
    BY <2>1
  <2>3. runtimePid' \in Nat
    BY <1>0, <2>1
  <2>4. procs' = [procs EXCEPT ![pid] = p]
    BY <2>1
  <2> HIDE DEF p
  <2> QED BY <1>0, <2>1, <2>2, <2>3, <2>4, SpawnKeepsTable
<1>2. ASSUME Ap!Exit PROVE TableInv(Pids)'
  <2>1. PICK pid \in Pids : procs' = [procs EXCEPT ![pid] = Ap!Free] /\ runtimePid' = IF runtimePid = pid THEN 0 ELSE runtimePid
    BY <1>2 DEF Ap!Exit
  <2>2. ~Ap!Free.alive
    BY DEF Ap!Free
  <2>3. appClock' = appClock /\ born' = born /\ runtimePid' \in Nat
    BY <1>0, <1>2, <2>1 DEF Ap!Exit
  <2> QED BY <2>1, <2>2, <2>3, ExitKeepsTable
<1>3. ASSUME Ap!SetRules \/ Ap!AgentReport \/ Ap!Observe PROVE TableInv(Pids)'
  <2>1. appClock' \in Nat /\ appClock' >= appClock /\ procs' = procs /\ born' = born /\ runtimePid' = runtimePid
    BY <1>0, <1>3 DEF Ap!SetRules, Ap!AgentReport, Ap!Observe
  <2> QED BY <2>1, OthersKeepTable
<1> QED BY <1>1, <1>2, <1>3 DEF Ap!Next

\* What a reader of the applications and the session relies on.
SeenRight == Ap!LauncherChildIsGenuine /\ Ap!RuntimeIsNoCompetitor /\ Ap!ClassesFollowConfig

(* Between two ticks nothing is listed and no session is known.             *)
LEMMA BetweenTellsNothing ==
    ASSUME apps' = Ap!NoApps, session' = Ap!NoSession
    PROVE  SeenRight'
<1>1. /\ Ap!ToSet(apps'.children) = {} /\ Ap!ToSet(apps'.games) = {} /\ Ap!ToSet(apps'.launchers) = {}
      /\ Ap!ToSet(apps'.ordinary) = {} /\ Ap!ToSet(apps'.users) = {}
  BY NothingListed
<1>2. session'.known = FALSE
  BY DEF Ap!NoSession
<1>3. (Ap!ToSet(apps.children))' = {} /\ (Ap!Listed)' = {}
  BY <1>1 DEF Ap!Listed
<1> QED BY <1>2, <1>3 DEF SeenRight, Ap!LauncherChildIsGenuine, Ap!RuntimeIsNoCompetitor, Ap!ClassesFollowConfig

(* A tick tells of processes as they are: by the configured rules, without  *)
(* the runtime, and of a launcher's child only when whoever holds its       *)
(* parent's identifier is its parent, both times being known (Observe).     *)
LEMMA ObserveTellsRight ==
    ASSUME TableInv(Pids), Ap!BoundsAssumption, Ap!Observe
    PROVE  SeenRight'
<1>1. cls' = rules /\ rules' = rules /\ procs' = procs /\ runtimePid' = runtimePid /\ report' = report
  BY DEF Ap!Observe, Ap!Classifier
<1>2. PICK listed \in BOOLEAN, visible \in BOOLEAN, members \in {{}, {runtimePid} \ {0}} :
          apps' = Ap!AppFacts(appClock', rules, listed, visible, members)
  BY <1>1 DEF Ap!Observe
<1>3. session' = Ap!SessionFacts(appClock', rules)
  BY <1>1 DEF Ap!Observe
<1>4. /\ \A m \in (Ap!Listed)' : \E p \in OthersOf(Pids, members) : m = LineOf(p, appClock', rules, visible)
      /\ \A m \in Ap!ToSet(apps'.children) :
             \E p \in OthersOf(Pids, members) : m = LineOf(p, appClock', rules, visible) /\ Ap!Parent(p, rules)
  BY <1>2, ListsTell DEF Ap!Listed
<1>5. ASSUME NEW p \in OthersOf(Pids, members)
      PROVE  /\ p.pid \in Pids /\ p = procs[p.pid] /\ p.alive /\ p.pid # runtimePid
             /\ LineOf(p, appClock', rules, visible).pid = p.pid
             /\ LineOf(p, appClock', rules, visible).class = Ap!Match(rules, p.exe, p.dir)
  BY DEF OthersOf, TableInv, Entry, LineOf, Ap!Mine
<1>6. ASSUME NEW m \in Ap!ToSet(apps'.children), procs[m.pid].created # 0, procs[procs[m.pid].ppid].created # 0
      PROVE  procs[m.pid].parentId = procs[procs[m.pid].ppid].id
  <2>1. PICK p \in OthersOf(Pids, members) : m = LineOf(p, appClock', rules, visible) /\ Ap!Parent(p, rules)
    BY <1>4
  <2>2. p = procs[m.pid] /\ m.pid \in Pids /\ p.alive /\ p.pid = m.pid
    BY <1>5, <2>1
  <2>3. /\ p.ppid \in Pids /\ p.ppid # m.pid /\ procs[p.ppid].alive
        /\ ~(procs[p.ppid].created > p.created)
    BY <1>6, <2>1, <2>2 DEF Ap!Parent
  <2>4. procs[p.ppid].id = p.parentId \/ procs[p.ppid].created > p.created
    BY <1>6, <2>2, <2>3 DEF TableInv, ParentOrYounger
  <2> QED BY <2>2, <2>3, <2>4
<1>7. (Ap!LauncherChildIsGenuine)'
  BY <1>1, <1>6 DEF Ap!LauncherChildIsGenuine
<1>8. (Ap!RuntimeIsNoCompetitor)'
  BY <1>1, <1>4, <1>5 DEF Ap!RuntimeIsNoCompetitor
<1>9. ASSUME NEW m \in (Ap!Listed)' PROVE m.class = Ap!Match(rules, procs[m.pid].exe, procs[m.pid].dir)
  BY <1>4, <1>5
<1>10. session'.known => session'.class = Ap!Match(rules, report.prog.exe, report.prog.dir)
  BY <1>3 DEF Ap!SessionFacts, Ap!NoSession
<1>11. (Ap!ClassesFollowConfig)'
  BY <1>1, <1>9, <1>10 DEF Ap!ClassesFollowConfig
<1> QED BY <1>7, <1>8, <1>11 DEF SeenRight

(* Whatever happens between two ticks, what the next one tells is right.    *)
LEMMA SeenRightKept ==
    ASSUME TableInv(Pids), Ap!BoundsAssumption, Ap!Next
    PROVE  TableInv(Pids)' /\ SeenRight'
<1>1. ASSUME Ap!Spawn \/ Ap!Exit \/ Ap!SetRules \/ Ap!AgentReport PROVE apps' = Ap!NoApps /\ session' = Ap!NoSession
  BY <1>1 DEF Ap!Spawn, Ap!Exit, Ap!SetRules, Ap!AgentReport, Ap!Between
<1> QED BY <1>1, TableKept, BetweenTellsNothing, ObserveTellsRight DEF Ap!Next

(* Where the rules change only one identifier is in use; the operators are  *)
(* the same.                                                                *)
LEMMA SameOperators ==
    /\ \A some : Ar!Sorted(some) = Ap!Sorted(some)
    /\ \A list : Ar!ToSet(list) = Ap!ToSet(list)
    /\ \A rs, exe, dir : Ar!Match(rs, exe, dir) = Ap!Match(rs, exe, dir)
    /\ \A t : Ar!Fresh(t) = Ap!Fresh(t)
    /\ Ar!NoApps = Ap!NoApps
<1>1. \A some : Ar!Sorted(some) = Ap!Sorted(some)
  BY DEF Ar!Sorted, Ap!Sorted, Ar!byDemand, Ap!byDemand, Ar!Demand, Ap!Demand, Ar!Cardinality, Ap!Cardinality
<1>2. \A list : Ar!ToSet(list) = Ap!ToSet(list)
  BY DEF Ar!ToSet, Ap!ToSet
<1>3. \A rs, exe, dir : Ar!Match(rs, exe, dir) = Ap!Match(rs, exe, dir)
  BY DEF Ar!Match, Ap!Match, Ar!Hits, Ap!Hits
<1>4. \A t : Ar!Fresh(t) = Ap!Fresh(t)
  BY DEF Ar!Fresh, Ap!Fresh
<1>5. Ar!NoApps = Ap!NoApps
  BY DEF Ar!NoApps, Ap!NoApps
<1> QED BY <1>1, <1>2, <1>3, <1>4, <1>5

(* The lines of a tick are of processes of the table and carry the class of *)
(* the rules the classifier has (apps).                                     *)
LEMMA RuleListsTell ==
    ASSUME TableInv({1}), NEW t, NEW rs, NEW listed, NEW visible, NEW members,
           NEW a, a = Ar!AppFacts(t, rs, listed, visible, members)
    PROVE  \A m \in UNION {Ap!ToSet(a.games), Ap!ToSet(a.launchers), Ap!ToSet(a.ordinary), Ap!ToSet(a.children), Ap!ToSet(a.users)} :
               \E p \in OthersOf({1}, members) : m = LineOf(p, t, rs, visible)
<1> DEFINE others == OthersOf({1}, members)
           line(p) == LineOf(p, t, rs, visible)
           list(some) == ListOf(some, t, rs, visible)
           use(p) == IF visible THEN p.gpu ELSE "none"
           games == {p \in others : Ap!Match(rs, p.exe, p.dir) = "game"}
           launchers == {p \in others : Ap!Match(rs, p.exe, p.dir) = "launcher"}
           ordinary == {p \in others : Ap!Match(rs, p.exe, p.dir) = "ordinary" /\ use(p) # "none"}
           children == {p \in others : Ap!Match(rs, p.exe, p.dir) = "" /\ Ar!Parent(p, rs) /\ use(p) = "much"}
           users == {p \in others : use(p) # "none"}
<1>1. CASE ~listed
  <2>1. a = Ap!NoApps
    BY <1>1, SameOperators DEF Ar!AppFacts
  <2> QED BY <2>1, NothingListed
<1>2. CASE listed
  <2>1. /\ Ap!ToSet(a.games) = list(games) /\ Ap!ToSet(a.launchers) = list(launchers)
        /\ Ap!ToSet(a.ordinary) = list(ordinary) /\ Ap!ToSet(a.children) = list(children)
        /\ Ap!ToSet(a.users) = list(users)
    BY <1>2, SameOperators DEF Ar!AppFacts, OthersOf, LineOf, ListOf, Ar!Mine, Ap!Mine
  <2>2. {1} \in SUBSET Nat /\ IsFiniteSet({1})
    <3>1. {1} \in SUBSET Nat
      OBVIOUS
    <3>2. IsFiniteSet({1})
      BY FS_Singleton
    <3> QED BY <3>1, <3>2
  <2>3. ASSUME NEW some \in SUBSET others, NEW m \in list(some) PROVE \E p \in some : m = line(p)
    <3>1. some \in SUBSET OthersOf({1}, members) /\ m \in ListOf(some, t, rs, visible)
      BY <2>3
    <3> QED BY <2>2, <3>1, ListIsOfOthers
  <2>4. games \in SUBSET others /\ launchers \in SUBSET others /\ ordinary \in SUBSET others
        /\ children \in SUBSET others /\ users \in SUBSET others
    OBVIOUS
  <2> HIDE DEF list, games, launchers, ordinary, children, users
  <2> QED BY <2>1, <2>3, <2>4
<1> QED BY <1>1, <1>2

\* One entry of the table, as the changing rules see it.
RulesInv == TableInv({1}) /\ Ar!ClassesFollowConfig

(* Processes come and go and rules change, and every class told is that of  *)
(* the rules configured then (Observe, the classifier's cache).             *)
LEMMA RulesInvKept ==
    ASSUME RulesInv, Ar!Next
    PROVE  RulesInv'
<1>0. TableInv({1}) /\ appClock \in Nat /\ runtimePid \in Nat /\ {1} \subseteq Nat \ {0}
  BY DEF RulesInv, TableInv
<1>1. ASSUME Ar!Spawn PROVE TableInv({1})'
  <2>1. PICK pid \in {1}, prog \in Programs, by \in {1} \cup {0}, known \in BOOLEAN, gpu \in {"none", "much"}, mine \in BOOLEAN :
          /\ ~procs[pid].alive /\ (by # 0 => procs[by].alive)
          /\ mine => runtimePid = 0 /\ by = 0
          /\ appClock' = appClock + 1 /\ born' = born + 1
          /\ runtimePid' = IF mine THEN pid ELSE runtimePid
          /\ procs' = [procs EXCEPT ![pid] = [alive |-> TRUE, pid |-> pid, exe |-> prog.exe, dir |-> prog.dir,
                         ppid |-> by, gpu |-> gpu, created |-> IF known THEN appClock' ELSE 0,
                         id |-> born', parentId |-> IF by = 0 THEN 0 ELSE procs[by].id]]
    BY <1>1, Zenon DEF Ar!Spawn
  <2> DEFINE p == [alive |-> TRUE, pid |-> pid, exe |-> prog.exe, dir |-> prog.dir,
                         ppid |-> by, gpu |-> gpu, created |-> IF known THEN appClock' ELSE 0,
                         id |-> born', parentId |-> IF by = 0 THEN 0 ELSE procs[by].id]
  <2>2. /\ p.alive /\ p.pid = pid /\ p.ppid = by /\ p.gpu \in {"none", "much"}
        /\ (p.created = 0 \/ p.created = appClock + 1) /\ p.id = born + 1
        /\ p.parentId = IF by = 0 THEN 0 ELSE procs[by].id
    BY <2>1
  <2>3. runtimePid' \in Nat
    BY <1>0, <2>1
  <2>4. procs' = [procs EXCEPT ![pid] = p]
    BY <2>1
  <2> HIDE DEF p
  <2> QED BY <1>0, <2>1, <2>2, <2>3, <2>4, SpawnKeepsTable
<1>2. ASSUME Ar!Exit PROVE TableInv({1})'
  <2>1. PICK pid \in {1} : procs' = [procs EXCEPT ![pid] = Ar!Free] /\ runtimePid' = IF runtimePid = pid THEN 0 ELSE runtimePid
    BY <1>2 DEF Ar!Exit
  <2>2. ~Ar!Free.alive
    BY DEF Ar!Free
  <2>3. appClock' = appClock /\ born' = born /\ runtimePid' \in Nat
    BY <1>0, <1>2, <2>1 DEF Ar!Exit
  <2> QED BY <1>0, <2>1, <2>2, <2>3, ExitKeepsTable
<1>3. ASSUME Ar!SetRules \/ Ar!AgentReport \/ Ar!Observe PROVE TableInv({1})'
  <2>1. appClock' \in Nat /\ appClock' >= appClock /\ procs' = procs /\ born' = born /\ runtimePid' = runtimePid
    BY <1>0, <1>3 DEF Ar!SetRules, Ar!AgentReport, Ar!Observe
  <2> QED BY <1>0, <2>1, OthersKeepTable
<1>4. ASSUME Ar!Spawn \/ Ar!Exit \/ Ar!SetRules \/ Ar!AgentReport PROVE (Ar!ClassesFollowConfig)'
  <2>1. apps' = Ap!NoApps /\ session' = Ar!NoSession
    BY <1>4, SameOperators DEF Ar!Spawn, Ar!Exit, Ar!SetRules, Ar!AgentReport, Ar!Between
  <2>2. (Ar!Listed)' = {}
    BY <2>1, NothingListed, SameOperators DEF Ar!Listed
  <2>3. session'.known = FALSE
    BY <2>1 DEF Ar!NoSession
  <2> QED BY <2>2, <2>3 DEF Ar!ClassesFollowConfig
<1>5. ASSUME Ar!Observe PROVE (Ar!ClassesFollowConfig)'
  <2>1. cls' = rules /\ rules' = rules /\ procs' = procs /\ report' = report
    BY <1>5 DEF Ar!Observe, Ar!Classifier
  <2>2. PICK listed \in BOOLEAN, visible \in BOOLEAN, members \in {{}, {runtimePid} \ {0}} :
            apps' = Ar!AppFacts(appClock', rules, listed, visible, members)
    BY <1>5, <2>1 DEF Ar!Observe
  <2>3. session' = Ar!SessionFacts(appClock', rules)
    BY <1>5, <2>1 DEF Ar!Observe
  <2>4. \A m \in (Ar!Listed)' : \E p \in OthersOf({1}, members) : m = LineOf(p, appClock', rules, visible)
    BY <1>0, <2>2, RuleListsTell, SameOperators DEF Ar!Listed
  <2>5. ASSUME NEW p \in OthersOf({1}, members)
        PROVE  /\ p = procs[p.pid]
               /\ LineOf(p, appClock', rules, visible).pid = p.pid
               /\ LineOf(p, appClock', rules, visible).class = Ap!Match(rules, p.exe, p.dir)
    BY <1>0 DEF OthersOf, TableInv, Entry, LineOf
  <2>6. ASSUME NEW m \in (Ar!Listed)' PROVE m.class = Ar!Match(rules, procs[m.pid].exe, procs[m.pid].dir)
    BY <2>4, <2>5, SameOperators
  <2>7. session'.known => session'.class = Ar!Match(rules, report.prog.exe, report.prog.dir)
    BY <2>3 DEF Ar!SessionFacts, Ar!NoSession
  <2> QED BY <2>1, <2>6, <2>7 DEF Ar!ClassesFollowConfig
<1> QED BY <1>1, <1>2, <1>3, <1>4, <1>5 DEF Ar!Next, RulesInv

\* What each part of the classification relies on.
AppsInv ==
    /\ part = "pids" => TableInv(Pids) /\ SeenRight
    /\ part = "rules" => RulesInv
    /\ part = "glob" => MatcherInv

(* The table is empty and nothing is known when the observer begins.        *)
LEMMA AppsStart ==
    Init => AppsInv
<1> SUFFICES ASSUME Init PROVE AppsInv
  OBVIOUS
<1>1. ASSUME NEW P, appClock = 1, procs = [i \in P |-> Ap!Free], born = 0, runtimePid = 0 PROVE TableInv(P)
  <2>1. ~Ap!Free.alive
    BY DEF Ap!Free
  <2> QED BY <1>1, <2>1 DEF TableInv, Entry, ParentOrYounger
<1>2. ASSUME part = "pids" PROVE TableInv(Pids) /\ SeenRight
  <2>1. appClock = 1 /\ procs = [i \in Pids |-> Ap!Free] /\ born = 0 /\ runtimePid = 0 /\ apps = Ap!NoApps /\ session = Ap!NoSession
    BY <1>2 DEF Init, Ap!Init
  <2>2. Ap!ToSet(apps.children) = {} /\ Ap!Listed = {}
    <3>1. /\ Ap!ToSet(apps.children) = {} /\ Ap!ToSet(apps.games) = {} /\ Ap!ToSet(apps.launchers) = {}
          /\ Ap!ToSet(apps.ordinary) = {} /\ Ap!ToSet(apps.users) = {}
      BY <2>1, NothingListed
    <3> QED BY <3>1 DEF Ap!Listed
  <2>3. session.known = FALSE
    BY <2>1 DEF Ap!NoSession
  <2> QED BY <1>1, <2>1, <2>2, <2>3 DEF SeenRight, Ap!LauncherChildIsGenuine, Ap!RuntimeIsNoCompetitor, Ap!ClassesFollowConfig
<1>3. ASSUME part = "rules" PROVE RulesInv
  <2>1. appClock = 1 /\ procs = [i \in {1} |-> Ap!Free] /\ born = 0 /\ runtimePid = 0 /\ apps = Ap!NoApps /\ session = Ar!NoSession
    BY <1>3, SameOperators DEF Init, Ar!Init, Ar!Free, Ap!Free
  <2>2. Ar!Listed = {}
    <3>1. /\ Ap!ToSet(apps.children) = {} /\ Ap!ToSet(apps.games) = {} /\ Ap!ToSet(apps.launchers) = {}
          /\ Ap!ToSet(apps.ordinary) = {} /\ Ap!ToSet(apps.users) = {}
      BY <2>1, NothingListed
    <3> QED BY <3>1, SameOperators DEF Ar!Listed
  <2>3. session.known = FALSE
    BY <2>1 DEF Ar!NoSession
  <2> QED BY <1>1, <2>1, <2>2, <2>3 DEF RulesInv, Ar!ClassesFollowConfig
<1>4. ASSUME part = "glob" PROVE MatcherInv
  BY ConstantsAssumption, MatcherStarts DEF Init
<1> QED BY <1>2, <1>3, <1>4 DEF AppsInv

(* For any identifiers, programs, rules, patterns and texts: processes are  *)
(* recognised by the rules of the moment, a launcher's child is one, the    *)
(* runtime never competes with itself, and a pattern matches exactly what   *)
(* it says in a bounded number of steps (Observe, apps, globMatch).         *)
THEOREM AppsRecognised == Spec => []AppsAreSeenRight
<1>1. AppsInv /\ [Next]_vars => AppsInv'
  <2> SUFFICES ASSUME AppsInv, [Next]_vars PROVE AppsInv'
    OBVIOUS
  <2>1. \/ UNCHANGED <<part, pidsVars, globVars>>
        \/ part = "pids" /\ part' = part /\ Ap!Next
        \/ part = "rules" /\ part' = part /\ Ar!Next
        \/ part = "glob" /\ part' = part /\ Gl!Next
        \/ part \notin {"pids", "rules", "glob"} /\ part' = part
    BY DEF Next, vars, PolicyMoves, ObMoves, ApMoves, GlMoves, ScMoves, GrMoves, OaMoves, ArMoves
  <2>2. CASE UNCHANGED <<part, pidsVars, globVars>>
    <3>1. UNCHANGED pidsVars /\ UNCHANGED globVars /\ part' = part
      BY <2>2
    <3>2. part = "pids" => TableInv(Pids)' /\ SeenRight'
      BY <3>1 DEF AppsInv, pidsVars, TableInv, Entry, ParentOrYounger, SeenRight, Ap!LauncherChildIsGenuine,
         Ap!RuntimeIsNoCompetitor, Ap!ClassesFollowConfig, Ap!Listed
    <3>3. part = "rules" => RulesInv'
      BY <3>1 DEF AppsInv, pidsVars, TableInv, Entry, ParentOrYounger, RulesInv, Ar!ClassesFollowConfig, Ar!Listed
    <3>4. part = "glob" => MatcherInv'
      <4>1. UNCHANGED <<pattern, text, pi, si, star, mark, result, steps>>
        BY <3>1 DEF globVars
      <4>2. (Gl!Means)' = Gl!Means /\ \A p, s : RestFits(p, s)' = RestFits(p, s)
        BY <4>1, SameMatch
      <4> QED BY <4>1, <4>2 DEF AppsInv, MatcherInv, MatcherType, RestDecides, SinceStar, StepsPaid, Gl!GlobIsExact
    <3> QED BY <3>1, <3>2, <3>3, <3>4 DEF AppsInv
  <2>3. CASE part = "pids" /\ part' = part /\ Ap!Next
    BY <2>3, ConstantsAssumption, SeenRightKept DEF AppsInv
  <2>4. CASE part = "rules" /\ part' = part /\ Ar!Next
    BY <2>4, RulesInvKept DEF AppsInv
  <2>5. CASE part = "glob" /\ part' = part /\ Gl!Next
    BY <2>5, MatcherInvKept DEF AppsInv
  <2>6. CASE part \notin {"pids", "rules", "glob"} /\ part' = part
    BY <2>6 DEF AppsInv
  <2> QED BY <2>1, <2>2, <2>3, <2>4, <2>5, <2>6
<1>2. AppsInv => AppsAreSeenRight
  BY StepsStayBounded DEF AppsInv, AppsAreSeenRight, SeenRight, RulesInv, MatcherInv
<1> QED BY <1>1, <1>2, AppsStart, PTL DEF Spec
=============================================================================
