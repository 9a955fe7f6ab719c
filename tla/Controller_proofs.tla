-------------------------- MODULE Controller_proofs --------------------------
(***************************************************************************)
(* Types and safety of the controller, for every number of instances and   *)
(* requests, every configuration and every set of observations and faults. *)
(* None of the safety invariants is inductive alone: that a load starts    *)
(* over no live process needs the zombie to keep the state in Error, which *)
(* needs every stop result to be about the tree it is taken for, which     *)
(* needs the accounting of stops.                                          *)
(***************************************************************************)
EXTENDS ControllerRefinement, Policy_proofs, SequenceTheorems, FiniteSetTheorems, TLAPS

-----------------------------------------------------------------------------
(* Counters, waits and timers.                                             *)

(* A counter that is bumped indexes the table of escalating waits.         *)
LEMMA BumpType == ASSUME NEW n \in 0..CountCap PROVE Bump(n) \in 1..CountCap
  BY ControllerConfig DEF Bump

(* Every escalating wait is a natural number.                              *)
LEMMA WaitTypes ==
    ASSUME NEW n \in 1..CountCap
    PROVE  /\ CrashBackoff[n] \in Nat /\ TelemetryBackoff[n] \in Nat
           /\ ResetBackoff[n] \in Nat /\ ZombieBackoff[n] \in Nat
  BY ControllerConfig DEF Escalates

(* setRecovery keeps the timers well-formed.                               *)
LEMMA SetRecoveryType ==
    ASSUME NEW t \in TimersType, NEW w \in Nat, NEW f \in BOOLEAN
    PROVE  setRecovery(t, w, f) \in TimersType
  BY DEF setRecovery, TimersType

(* pruneTimes returns ages.                                                *)
LEMMA PrunedType ==
    ASSUME NEW ages \in Seq(Nat)
    PROVE  pruned(ages) \in Seq(Nat)
<1> DEFINE left == {k \in DOMAIN ages : ages[k] > Cfg.window}
<1>1. IsFiniteSet(left)
  <2>1. DOMAIN ages = 1..Len(ages) /\ Len(ages) \in Nat
    BY LenProperties
  <2>2. IsFiniteSet(1..Len(ages))
    BY <2>1, FS_Interval
  <2> QED BY <2>1, <2>2, FS_Subset
<1>2. Cardinality(left) \in Nat
  BY <1>1, FS_CardinalityType
<1>3. \A i \in Cardinality(left) + 1 .. Len(ages) : ages[i] \in Nat
  BY <1>2, ElementOfSeq, LenProperties
<1>4. SubSeq(ages, Cardinality(left) + 1, Len(ages)) \in Seq(Nat)
  BY <1>2, <1>3, LenProperties, SubSeqProperties
<1> QED BY <1>4 DEF pruned

(* Recording a preemption returns ages.                                    *)
LEMMA RecordType ==
    ASSUME NEW ages \in Seq(Nat)
    PROVE  RecordPreemption(ages) \in Seq(Nat)
<1> DEFINE all == Append(pruned(ages), 0)
<1>1. all \in Seq(Nat) /\ all # <<>>
  BY PrunedType, AppendProperties
<1>2. Tail(all) \in Seq(Nat)
  BY <1>1, HeadTailProperties
<1> QED BY <1>1, <1>2 DEF RecordPreemption

(* A refused transition leaves a lifecycle state, a taken one reaches it.  *)
LEMMA TransitionType ==
    ASSUME NEW from \in State, NEW to \in State
    PROVE  Transition(from, to) \in State
  BY DEF Transition

-----------------------------------------------------------------------------
(* The decision.                                                           *)

(* The overrides of step() keep the shape of a decision.                   *)
LEMMA VerdictType ==
    ASSUME NEW s
    PROVE  LET d == Verdict(s) IN
           /\ d.action \in Action /\ d.grace \in Nat /\ d.idle \in Idle
           /\ d.counts \in BOOLEAN /\ d.suppress \in BOOLEAN
<1> DEFINE e == Evaluate(s)
           m == applyManual(e, Profiles[ProfileOf(s)])
           z == applyZombie(m)
<1>1. PICK R, T, C, N : e \in Shape(R, T, C, N)
  BY EvaluateType
<1>2. m \in Shape(R \cup {"manual.reload", "manual.drain"}, T \cup {2}, C \cup {FALSE}, N)
  BY <1>1, ProfileType_ DEF applyManual, Shape, ProfileType, Action, Idle
<1>3. PICK R2, T2, C2, N2 : m \in Shape(R2, T2, C2, N2)
  BY <1>2
<1>4. z \in Shape(R2 \cup {"safety.runtime_unverified"}, T2 \cup {1}, C2, N2)
  BY <1>3 DEF applyZombie, Shape, Action, Idle
<1>5. PICK R3, T3, C3, N3 : z \in Shape(R3, T3, C3, N3)
  BY <1>4
<1>6. applyLoadBlocked(z) \in Shape(R3 \cup {"safety.secrets_unprotected"}, T3 \cup {1},
                                    C3 \cup {FALSE}, N3 \cup {0})
  BY <1>5 DEF applyLoadBlocked, Shape, Action, Idle
<1> HIDE DEF z
<1> QED BY <1>6 DEF Verdict, Shape, z


(* The yield recorded with a decision.                                     *)
LEMMA YieldOfType ==
    ASSUME NEW s
    PROVE  YieldOf(Verdict(s), Profiles[ProfileOf(s)]) \in YieldType
<1> DEFINE d == Verdict(s)
           p == Profiles[ProfileOf(s)]
<1>1. manualKind(d.rule) \in {"none", "drain", "reload"}
  BY DEF manualKind
<1>2. d.counts \in BOOLEAN /\ d.suppress \in BOOLEAN /\ d.idle \in Idle
  BY VerdictType
<1>3. p.cooldown \in Nat
  BY ProfileType_ DEF ProfileType
<1> HIDE DEF d, p
<1>4. YieldOf(d, p) \in YieldType
  BY <1>1, <1>2, <1>3 DEF YieldOf, YieldType
<1> QED BY <1>4 DEF d, p

-----------------------------------------------------------------------------
(* Type correctness, action by action.                                     *)

(* The constants the types are built from.                                 *)
LEMMA ConstantTypes ==
    /\ CountCap \in Nat /\ CountCap # 0 /\ AgeCap \in Nat /\ Forever \in Nat
    /\ Startup \in Nat /\ Resume \in Nat /\ DeviceLostCooldown \in Nat
<1>1. CountCap \in Nat /\ CountCap # 0 /\ AgeCap \in Nat
  BY ControllerConfig
<1>2. Startup \in Nat /\ Resume \in Nat /\ DeviceLostCooldown \in Nat
  BY ControllerConfig
<1>3. Forever \in Nat
  BY PolicyConfig
<1> QED BY <1>1, <1>2, <1>3

(* The initial state is well-typed.                                        *)
LEMMA InitType == Init => TypeOK
<1>0. /\ 0 \in 0..CountCap /\ 0 \in 0..AgeCap /\ AgeCap \in 0..AgeCap /\ 0 \in Nat
  BY ConstantTypes
<1>a. \A S : <<>> \in Seq(S)
  OBVIOUS
<1>b. [sinceCompeting |-> AgeCap, lastCompetingRule |-> "", sinceSuppressed |-> AgeCap,
       recoveryLeft |-> Startup, recoveryFault |-> FALSE, preemptions |-> <<>>] \in TimersType
  BY <1>0, <1>a, ConstantTypes DEF TimersType
<1> SUFFICES ASSUME Init PROVE TypeOK
  OBVIOUS
<1> USE ConstantTypes DEF Init
<1>1. NoYield \in YieldType
  BY DEF NoYield, YieldType
<1>2. CtlType
  BY <1>1 DEF CtlType, NoDecision, Decisions, State, Idle, InstOrNone
<1>3. ZombieType
  BY <1>0 DEF ZombieType, InstOrNone
<1>4. DrainType
  BY <1>0, <1>1 DEF DrainType
<1>5. timers \in TimersType
  BY <1>b
<1>6. FactType
  BY <1>5 DEF FactType, Mode
<1>7. CounterType
  BY <1>0 DEF CounterType
<1>8. GateType
  BY DEF GateType, InstOrNone
<1>9. ProcType
  BY <1>a DEF ProcType
<1> QED BY <1>2, <1>3, <1>4, <1>6, <1>7, <1>8, <1>9 DEF TypeOK

(* Taking the head of a channel leaves a channel.                          *)
LEMMA ChannelType ==
    ASSUME ProcType
    PROVE  /\ readyCh # <<>> => /\ Head(readyCh) \in [inst : Instances, ok : BOOLEAN]
                                /\ Tail(readyCh) \in Seq([inst : Instances, ok : BOOLEAN])
           /\ stopCh # <<>> => /\ Head(stopCh) \in [cleanup : BOOLEAN, err : BOOLEAN]
                               /\ Tail(stopCh) \in Seq([cleanup : BOOLEAN, err : BOOLEAN])
  BY HeadTailProperties DEF ProcType

(* Turning an instance into the zombie.                                    *)
LEMMA MakeZombieType ==
    ASSUME ZombieType, ProcType, NEW z \in InstOrNone, MakeZombie(z)
    PROVE  ZombieType' /\ stopJob' \in [Instances -> {"none", "stop", "cleanup"}]
<1>1. zombie' \in InstOrNone /\ zombieAttempts' = 0 /\ zombieWait' = 0
  BY DEF MakeZombie
<1>2. zombieStopping' \in BOOLEAN
  BY DEF MakeZombie, StartCleanup, ZombieType
<1>3. stopJob' \in [Instances -> {"none", "stop", "cleanup"}]
  BY DEF MakeZombie, StartCleanup, ProcType
<1> QED BY <1>1, <1>2, <1>3, ControllerConfig DEF ZombieType

(* backoff counts a crash and extends the recovery wait.                   *)
LEMMA BackoffType ==
    ASSUME TypeOK, backoff
    PROVE  crashCount' \in 0..CountCap /\ timers' \in TimersType
<1>1. Bump(crashCount) \in 1..CountCap
  BY BumpType DEF TypeOK, CounterType
<1>2. CrashBackoff[Bump(crashCount)] \in Nat
  BY <1>1, WaitTypes
<1>3. timers' \in TimersType
  BY <1>2, SetRecoveryType DEF backoff, TypeOK, FactType
<1>4. crashCount' \in 0..CountCap
  BY <1>1 DEF backoff
<1> QED BY <1>3, <1>4

(* absorbAsync's load result.                                              *)
LEMMA LoadResultType ==
    ASSUME TypeOK, LoadResultStale \/ LoadResultOK \/ LoadResultFailed \/ NoLoadResult
    PROVE  TypeOK'
<1> USE DEF TypeOK, zombieVars, yieldVars, modeVars, factVars, counters,
        gateVars, loadVars, stopVars
<1>1. CASE NoLoadResult
  BY <1>1 DEF NoLoadResult, CtlType, ZombieType, DrainType, FactType, CounterType, GateType, ProcType
<1>2. CASE LoadResultStale
  BY <1>2, ChannelType DEF LoadResultStale, TakeLoadResult, CtlType, ZombieType, DrainType, FactType, CounterType, GateType, ProcType
<1>3. CASE LoadResultOK
  <2>1. CtlType'
    BY <1>3, TransitionType DEF LoadResultOK, TakeLoadResult, CtlType, State
  <2>2. CounterType'
    BY <1>3, ConstantTypes DEF LoadResultOK, CounterType
  <2>3. ProcType'
    BY <1>3, ChannelType DEF LoadResultOK, TakeLoadResult, ProcType
  <2> QED BY <1>3, <2>1, <2>2, <2>3 DEF LoadResultOK, ZombieType, DrainType, FactType, GateType
<1>4. CASE LoadResultFailed
  <2>1. CtlType'
    BY <1>4, TransitionType DEF LoadResultFailed, TakeLoadResult, CtlType, State, Idle, InstOrNone
  <2>2. ZombieType' /\ ProcType'
    BY <1>4, ChannelType, MakeZombieType DEF LoadResultFailed, TakeLoadResult, ProcType, CtlType
  <2>3. FactType' /\ CounterType'
    BY <1>4, BackoffType DEF LoadResultFailed, FactType, CounterType
  <2>4. DrainType' /\ GateType'
    BY <1>4 DEF LoadResultFailed, CloseGate, DrainType, GateType, InstOrNone
  <2> QED BY <2>1, <2>2, <2>3, <2>4
<1> QED BY <1>1, <1>2, <1>3, <1>4

(* absorbAsync's stop results.                                             *)
LEMMA StopResultType ==
    ASSUME TypeOK, OnStopped \/ OnStopFailed \/ OnZombieStopped
    PROVE  TypeOK'
<1> USE DEF TypeOK, zombieVars, yieldVars, modeVars, factVars, counters,
        gateVars, loadVars, stopVars
<1>1. NoYield \in YieldType /\ 0 \in 0..AgeCap /\ 0 \in Nat /\ FALSE \in BOOLEAN /\ TRUE \in BOOLEAN
  BY ConstantTypes DEF NoYield, YieldType
<1>2. ASSUME EndYield PROVE DrainType' /\ inst' \in InstOrNone
  BY <1>1, <1>2 DEF EndYield, DrainType, InstOrNone
<1>3. CASE OnStopped
  <2>1. /\ pc' = pc /\ stopCh' \in Seq([cleanup : BOOLEAN, err : BOOLEAN])
        /\ DrainType' /\ inst' \in InstOrNone
    BY <1>2, <1>3, ChannelType DEF OnStopped, TakeStopResult
  <2>2. st' \in State
    <3>1. \A idle \in Idle : Transition(st, idle) \in State
      BY TransitionType DEF CtlType, State
    <3>2. "SUPPRESSED" \in Idle /\ "STOPPED" \in Idle
      BY DEF Idle
    <3> QED BY <1>3, <3>1, <3>2 DEF OnStopped
  <2>3. timers' \in TimersType
    <3> DEFINE counted == IF yield.counts
                          THEN [timers EXCEPT !.preemptions = RecordPreemption(@)] ELSE timers
    <3>1. timers.preemptions \in Seq(Nat)
      BY DEF FactType, TimersType
    <3>2. RecordPreemption(timers.preemptions) \in Seq(Nat)
      BY <3>1, RecordType
    <3>3. counted \in TimersType
      BY <3>2 DEF FactType, TimersType
    <3>4. [counted EXCEPT !.sinceSuppressed = 0] \in TimersType
      BY <1>1, <3>3 DEF TimersType
    <3>5. yield.wait \in Nat
      BY DEF DrainType, YieldType
    <3>6. setRecovery(counted, yield.wait, FALSE) \in TimersType
      BY <1>1, <3>3, <3>5, SetRecoveryType
    <3> QED BY <1>3, <3>3, <3>4, <3>6 DEF OnStopped
  <2> QED BY <1>3, <2>1, <2>2, <2>3
        DEF OnStopped, CtlType, ZombieType, FactType, CounterType, GateType, ProcType
<1>4. CASE OnStopFailed
  <2>1. /\ pc' = pc /\ stopCh' \in Seq([cleanup : BOOLEAN, err : BOOLEAN])
        /\ DrainType' /\ inst' \in InstOrNone
    BY <1>2, <1>4, ChannelType DEF OnStopFailed, TakeStopResult
  <2>2. st' \in State
    BY <1>4, TransitionType DEF OnStopFailed, CtlType, State, Idle
  <2>3. timers' \in TimersType
    BY <1>1, <1>4, ConstantTypes, SetRecoveryType DEF OnStopFailed, FactType
  <2>4. zombieAttempts' \in 0..CountCap /\ zombieWait' \in Nat
    BY <1>4, ConstantTypes, WaitTypes DEF OnStopFailed
  <2>5. zombie' \in InstOrNone /\ zombieStopping' \in BOOLEAN
    BY <1>4 DEF OnStopFailed, ZombieType, CtlType
  <2> QED BY <1>4, <2>1, <2>2, <2>3, <2>4, <2>5
        DEF OnStopFailed, CtlType, ZombieType, FactType, CounterType, GateType, ProcType
<1>5. CASE OnZombieStopped
  <2>1. pc' = pc /\ stopCh' \in Seq([cleanup : BOOLEAN, err : BOOLEAN])
    BY <1>5, ChannelType DEF OnZombieStopped, TakeStopResult
  <2>2. Bump(zombieAttempts) \in 1..CountCap
    BY BumpType DEF ZombieType
  <2>3. Bump(zombieAttempts) \in 0..CountCap /\ ZombieBackoff[Bump(zombieAttempts)] \in Nat
    BY <2>2, WaitTypes
  <2>4. zombieAttempts' \in 0..CountCap /\ zombieWait' \in Nat
    BY <1>5, <2>3 DEF OnZombieStopped, ZombieType
  <2>5. zombie' \in InstOrNone /\ zombieStopping' \in BOOLEAN
    BY <1>5 DEF OnZombieStopped, ZombieType, InstOrNone
  <2> QED BY <1>5, <2>1, <2>4, <2>5
        DEF OnZombieStopped, CtlType, ZombieType, DrainType, FactType, CounterType, GateType, ProcType
<1> QED BY <1>3, <1>4, <1>5

(* The end of absorbAsync: cleanup retries and crashes.                    *)
LEMMA ReapType ==
    ASSUME TypeOK, NothingToReap \/ RetryZombie \/ OnCrash
    PROVE  TypeOK'
<1> USE DEF TypeOK, zombieVars, yieldVars, modeVars, factVars, counters,
        gateVars, loadVars, stopVars
<1>1. CASE NothingToReap
  BY <1>1 DEF NothingToReap, Absorbed, CtlType, ZombieType, DrainType, FactType, CounterType,
              GateType, ProcType
<1>2. CASE RetryZombie
  <2>1. zombieStopping' \in BOOLEAN
    BY <1>2 DEF RetryZombie, StartCleanup
  <2>2. stopJob' \in [Instances -> {"none", "stop", "cleanup"}]
    BY <1>2 DEF RetryZombie, StartCleanup, ProcType
  <2> QED BY <1>2, <2>1, <2>2
        DEF RetryZombie, Absorbed, CtlType, ZombieType, DrainType, FactType, CounterType,
            GateType, ProcType
<1>3. CASE OnCrash
  <2>1. CtlType'
    BY <1>3, TransitionType DEF OnCrash, Absorbed, CtlType, State, Idle, InstOrNone
  <2>2. ZombieType' /\ ProcType'
    BY <1>3, MakeZombieType DEF OnCrash, ProcType, CtlType
  <2>3. FactType' /\ CounterType'
    BY <1>3, BackoffType DEF OnCrash, FactType, CounterType
  <2>4. NoYield \in YieldType /\ 0 \in 0..AgeCap /\ 0 \in Nat
    BY ConstantTypes DEF NoYield, YieldType
  <2>5. DrainType'
    BY <1>3, <2>4 DEF OnCrash, DrainType
  <2>6. GateType'
    BY <1>3 DEF OnCrash, CloseGate, ForceCloseAll, Active, GateType, InstOrNone
  <2> QED BY <2>1, <2>2, <2>3, <2>5, <2>6
<1> QED BY <1>1, <1>2, <1>3


(* The decision of a step.                                                 *)
LEMMA DecideType ==
    ASSUME TypeOK, Decide
    PROVE  TypeOK'
<1> USE DEF TypeOK, zombieVars, gateVars, loadVars, stopVars
<1>1. PICK reset \in ResetReports, o \in Observations, problem \in SetupAnswers :
        DecideOn(reset, o, problem)
  BY DEF Decide
<1> DEFINE pow  == PowerAfterResets(reset)
           t    == TimersAfterTelemetry(TimersAfterResets(reset), o.gpu)
           snap == snapshot(o, pow, t, problem)
           d    == Verdict(snap)
<1>2. /\ Bump(gpuResets) \in 1..CountCap /\ Bump(gpuResets) \in 0..CountCap
      /\ Bump(telemetryLosses) \in 1..CountCap /\ Bump(telemetryLosses) \in 0..CountCap
      /\ 0 \in 0..AgeCap
  BY BumpType, ConstantTypes DEF CounterType
<1>3. power' \in [shuttingDown : BOOLEAN, suspending : BOOLEAN, deviceLost : BOOLEAN]
  BY <1>1 DEF DecideOn, PowerAfterResets, FactType
<1>4. t \in TimersType
  <2>1. TRUE \in BOOLEAN /\ timers \in TimersType
    BY DEF FactType
  <2>2. /\ ResetBackoff[Bump(gpuResets)] \in Nat
        /\ TelemetryBackoff[Bump(telemetryLosses)] \in Nat
    BY <1>2, WaitTypes
  <2>3. TimersAfterResets(reset) \in TimersType
    BY <2>1, <2>2, SetRecoveryType DEF TimersAfterResets
  <2> QED BY <2>1, <2>2, <2>3, SetRecoveryType DEF TimersAfterTelemetry
<1>5. timers' \in TimersType
  <2>1. RuleKind(d.rule) \in UtilRules \cup {""}
    BY DEF RuleKind
  <2> HIDE DEF t, d
  <2>2. LastCompeting(t, d) \in TimersType
    BY <1>2, <1>4, <2>1 DEF LastCompeting, TimersType
  <2> QED BY <1>1, <2>2 DEF DecideOn, t, d, snap, pow
<1>6. snap.mode \in Mode /\ snap.modeLeft \in Nat
  BY ConstantTypes DEF snapshot, FactType, Mode
<1>7. telemetryLost' \in BOOLEAN
  BY <1>1 DEF DecideOn, LostAfter
<1>8. setupProblem' \in BOOLEAN
  BY <1>1 DEF DecideOn, SetupAnswers, FactType
<1>9. FactType'
  BY <1>1, <1>3, <1>5, <1>6, <1>7, <1>8 DEF Decide, DecideOn, FactType
<1>10. CounterType'
  BY <1>1, <1>2 DEF Decide, DecideOn, CounterType
<1>11. decision' \in Decisions
  <2>1. /\ d.action \in Action /\ d.grace \in Nat /\ d.idle \in Idle
        /\ YieldOf(d, Profiles[ProfileOf(snap)]) \in YieldType
    BY VerdictType, YieldOfType
  <2>2. Present(snap) \in BOOLEAN
    BY DEF Present
  <2> HIDE DEF d, snap
  <2>3. [action |-> d.action, grace |-> d.grace, idle |-> d.idle, present |-> Present(snap),
         yield |-> YieldOf(d, Profiles[ProfileOf(snap)])] \in Decisions
    BY <2>1, <2>2 DEF Decisions
  <2> QED BY <1>1, <2>3 DEF DecideOn, d, snap, t, pow
<1>12. CtlType'
  BY <1>11 DEF Decide, CtlType
<1>13. DrainType'
  BY <1>1 DEF Decide, DecideOn, DrainType
<1> QED BY <1>9, <1>10, <1>12, <1>13 DEF Decide, ZombieType, GateType, ProcType

(* checkCrashReset either clears the counters or leaves them.              *)
LEMMA CrashResetType ==
    ASSUME CounterType, NEW s, checkCrashReset(s)
    PROVE  CounterType'
  BY ConstantTypes DEF checkCrashReset, CounterType

(* beginStop, whichever decision it records.                               *)
LEMMA BeginStopType ==
    ASSUME TypeOK, NEW y \in YieldType, beginStop(y), UNCHANGED <<proc, loadVars>>
    PROVE  /\ yield' \in YieldType /\ st' \in State /\ gate' \in InstOrNone
           /\ reqInst' \in [Requests -> InstOrNone]
           /\ ProcType' /\ CounterType'
<1> USE DEF TypeOK, beginStop
<1>1. yield' \in YieldType
  BY DEF DrainType
<1>2. st' \in State
  BY TransitionType DEF CtlType, State
<1>3. gate' \in InstOrNone /\ reqInst' \in [Requests -> InstOrNone]
  BY DEF CloseGate, GateType, InstOrNone
<1>4. stopCh' \in Seq([cleanup : BOOLEAN, err : BOOLEAN])
  <2>1. [cleanup |-> FALSE, err |-> FALSE] \in [cleanup : BOOLEAN, err : BOOLEAN]
    OBVIOUS
  <2>2. Append(stopCh, [cleanup |-> FALSE, err |-> FALSE])
          \in Seq([cleanup : BOOLEAN, err : BOOLEAN])
    BY <2>1, AppendProperties DEF ProcType
  <2> QED BY <2>2 DEF ProcType
<1>5. stopJob' \in [Instances -> {"none", "stop", "cleanup"}]
  BY DEF ProcType
<1>6. ProcType'
  BY <1>4, <1>5 DEF ProcType, loadVars
<1>7. CounterType'
  BY CrashResetType
<1> QED BY <1>1, <1>2, <1>3, <1>6, <1>7


(* act().                                                                  *)
LEMMA ActType ==
    ASSUME TypeOK,
           \/ ActHold \/ StartLoad \/ StartFails \/ ActWait \/ ActCancelLoad
           \/ ActServe \/ ActPreempt \/ ActDrainIdle \/ ActDrain
           \/ ActDrainDone \/ ActDrainPreempt \/ ActDrainWait \/ ActGraceExpired
    PROVE  TypeOK'
<1> USE DEF TypeOK, zombieVars, yieldVars, modeVars, factVars, counters, gateVars, loadVars,
        stopVars, ActUnchanged
<1>1. /\ pc' = "idle" /\ decision' = NoDecision => pc' \in {"idle"} /\ decision' \in Decisions
      /\ \A S : Acting(S) => pc' = "idle" /\ decision' = NoDecision
  <2>1. NoYield \in YieldType
    BY DEF NoYield, YieldType
  <2>2. NoDecision \in Decisions
    BY <2>1 DEF NoDecision, Decisions
  <2> QED BY <2>2 DEF Acting
<1>2. decision.yield \in YieldType /\ decision.grace \in Nat
  BY DEF CtlType, Decisions
<1>3. \A to \in State : Transition(st, to) \in State
  BY TransitionType DEF CtlType
<1>4. CASE ActHold
  <2>1. st' \in State
    <3>1. CanTransition(st, decision.idle) => decision.idle \in State
      BY DEF CanTransition, State, Idle
    <3> QED BY <1>4, <3>1 DEF ActHold, Transition, CtlType
  <2> QED BY <1>1, <1>4, <2>1
        DEF ActHold, CtlType, ZombieType, DrainType, FactType, CounterType, GateType, ProcType
<1>5. CASE StartLoad
  <2>1. st' \in State
    BY <1>3, <1>5, TransitionType DEF StartLoad, State, Idle
  <2>2. inst' \in InstOrNone /\ outdated' \in BOOLEAN
    BY <1>5 DEF StartLoad, InstOrNone
  <2>3. ProcType'
    BY <1>5 DEF StartLoad, ProcType
  <2> QED BY <1>1, <1>5, <2>1, <2>2, <2>3
        DEF StartLoad, CtlType, ZombieType, DrainType, FactType, CounterType, GateType
<1>6. CASE StartFails
  <2>1. st' \in State
    BY <1>3, <1>6, TransitionType DEF StartFails, State, Idle
  <2>2. crashCount' \in 0..CountCap /\ timers' \in TimersType
    BY <1>6, BackoffType DEF StartFails
  <2> QED BY <1>1, <1>6, <2>1, <2>2
        DEF StartFails, CtlType, ZombieType, DrainType, FactType, CounterType, GateType, ProcType
<1>7. CASE ActWait
  BY <1>1, <1>7 DEF ActWait, CtlType, ZombieType, DrainType, FactType, CounterType, GateType,
                    ProcType
<1>8. CASE ActServe
  <2>1. st' \in State
    BY <1>8 DEF ActServe, State
  <2>2. CounterType'
    BY <1>8, CrashResetType DEF ActServe
  <2>3. GateType'
    BY <1>8 DEF ActServe, GateType, CtlType
  <2> QED BY <1>1, <1>8, <2>1, <2>2, <2>3
        DEF ActServe, CtlType, ZombieType, DrainType, FactType, ProcType
<1>9. CASE ActDrain
  <2>1. st' \in State
    BY <1>3, <1>9 DEF ActDrain, State
  <2>2. CounterType'
    BY <1>9, CrashResetType DEF ActDrain
  <2>3. GateType'
    BY <1>9 DEF ActDrain, CloseGate, GateType, InstOrNone
  <2>4. 0 \in 0..AgeCap
    BY ConstantTypes
  <2>5. DrainType'
    BY <1>2, <1>9, <2>4 DEF ActDrain, DrainType
  <2> QED BY <1>1, <1>9, <2>1, <2>2, <2>3, <2>5
        DEF ActDrain, CtlType, ZombieType, FactType, ProcType
<1>10. CASE ActDrainWait
  <2>1. drainLen' \in Nat
    BY <1>2, <1>10 DEF ActDrainWait, GraceNow, DrainType
  <2> QED BY <1>1, <1>10, <2>1
        DEF ActDrainWait, CtlType, ZombieType, DrainType, FactType, CounterType, GateType, ProcType
<1>11. ASSUME NEW y \in YieldType, beginStop(y), UNCHANGED <<proc, loadJob, readyCh>>,
              pc' = "idle", decision' = NoDecision, UNCHANGED <<inst, manual, drainAge, timers>>,
              ActUnchanged, drainLen' \in Nat, cut' \in SUBSET Requests
       PROVE  TypeOK'
  BY <1>1, <1>11, BeginStopType
  DEF CtlType, ZombieType, DrainType, FactType, GateType
<1>12. cut \in SUBSET Requests /\ cut \cup Active \in SUBSET Requests /\ drainLen \in Nat
  BY DEF GateType, Active, DrainType
<1>13. CASE ActCancelLoad
  BY <1>1, <1>2, <1>11, <1>12, <1>13 DEF ActCancelLoad
<1>14. CASE ActPreempt
  BY <1>1, <1>2, <1>11, <1>12, <1>14 DEF ActPreempt, ForceCloseAll
<1>15. CASE ActDrainIdle
  BY <1>1, <1>2, <1>11, <1>12, <1>15 DEF ActDrainIdle
<1>16. CASE ActDrainDone
  BY <1>1, <1>11, <1>12, <1>16 DEF ActDrainDone, DrainType
<1>17. CASE ActDrainPreempt
  BY <1>1, <1>2, <1>11, <1>12, <1>17 DEF ActDrainPreempt, ForceCloseAll
<1>18. CASE ActGraceExpired
  <2>1. drainLen' \in Nat
    BY <1>2, <1>18 DEF ActGraceExpired, GraceNow, DrainType
  <2> QED BY <1>1, <1>11, <1>12, <1>18, <2>1 DEF ActGraceExpired, ForceCloseAll, DrainType
<1> QED BY <1>4, <1>5, <1>6, <1>7, <1>8, <1>9, <1>10, <1>13, <1>14, <1>15, <1>16, <1>17, <1>18


(* API calls and host events.                                              *)
LEMMA ApiType ==
    ASSUME TypeOK, Api
    PROVE  TypeOK'
<1> USE DEF TypeOK, zombieVars, yieldVars, modeVars, factVars, counters, gateVars, loadVars,
        stopVars, ApiUnchanged
<1>1. CASE SetMode
  <2>1. mode' \in Mode
    BY <1>1 DEF SetMode, Mode
  <2>2. ModeLengths \subseteq Nat /\ MaxAIPriority \in Nat
    BY ControllerConfig
  <2>3. modeLeft' \in Nat
    BY <1>1, <2>2, ConstantTypes DEF SetMode
  <2> QED BY <1>1, <2>1, <2>3
        DEF SetMode, CtlType, ZombieType, DrainType, FactType, CounterType, GateType, ProcType
<1>2. CASE RequestManual
  BY <1>2 DEF RequestManual, CtlType, ZombieType, DrainType, FactType, CounterType, GateType,
              ProcType
<1>3. CASE UpdateConfig
  BY <1>3 DEF UpdateConfig, CtlType, ZombieType, DrainType, FactType, CounterType, GateType,
              ProcType
<1>4. CASE PrepareSuspend
  BY <1>4 DEF PrepareSuspend, CtlType, ZombieType, DrainType, FactType, CounterType, GateType,
              ProcType
<1>5. CASE Resumed
  <2>1. timers' \in TimersType
    BY <1>5, ConstantTypes, SetRecoveryType DEF Resumed, FactType
  <2> QED BY <1>5, <2>1
        DEF Resumed, CtlType, ZombieType, DrainType, FactType, CounterType, GateType, ProcType
<1>6. CASE Shutdown
  BY <1>6 DEF Shutdown, CtlType, ZombieType, DrainType, FactType, CounterType, GateType, ProcType
<1>7. CASE ShutdownReturns
  <2>1. proc' \in [Instances -> {"up", "exited", "gone"}]
    BY <1>7 DEF ShutdownReturns, ProcType
  <2> QED BY <1>7, <2>1
        DEF ShutdownReturns, CtlType, ZombieType, DrainType, FactType, CounterType, GateType,
            ProcType, InstOrNone
<1> QED BY <1>1, <1>2, <1>3, <1>4, <1>5, <1>6, <1>7 DEF Api

(* Requests, processes and goroutines.                                     *)
LEMMA ConcurrentType ==
    ASSUME TypeOK,
           Proxy \/ \E i \in Instances : ProcExit(i) \/ LoadGoroutine(i) \/ StopGoroutine(i)
    PROVE  TypeOK'
<1> USE DEF TypeOK, ctl, zombieVars, yieldVars, modeVars, factVars, counters, gateVars, loadVars,
        stopVars
<1>1. ASSUME NEW r \in Requests, Admit(r) \/ Release(r)
      PROVE  TypeOK'
  <2>1. GateType'
    BY <1>1 DEF Admit, Release, GateUnchanged, GateType, InstOrNone
  <2> QED BY <1>1, <2>1 DEF Admit, Release, GateUnchanged, CtlType, ZombieType, DrainType,
            FactType, CounterType, ProcType
<1>2. ASSUME NEW i \in Instances, OsUnchanged, ProcType' PROVE TypeOK'
  BY <1>2 DEF OsUnchanged, CtlType, ZombieType, DrainType, FactType, CounterType, GateType
<1>3. ASSUME NEW i \in Instances, ProcExit(i) PROVE TypeOK'
  BY <1>2, <1>3 DEF ProcExit, ProcType
<1>4. ASSUME NEW i \in Instances, LoadGoroutine(i) PROVE TypeOK'
  <2>1. OsUnchanged
    BY <1>4 DEF LoadGoroutine, LoadReady, LoadError, PostLoad
  <2>2. loadJob' \in [Instances -> {"none", "waiting", "ok", "err"}]
    BY <1>4 DEF LoadGoroutine, LoadReady, LoadError, PostLoad, ProcType
  <2>3. [inst |-> i, ok |-> loadJob[i] = "ok"] \in [inst : Instances, ok : BOOLEAN]
    OBVIOUS
  <2>4. readyCh' \in Seq([inst : Instances, ok : BOOLEAN])
    <3>1. Append(readyCh, [inst |-> i, ok |-> loadJob[i] = "ok"])
            \in Seq([inst : Instances, ok : BOOLEAN])
      BY <2>3, AppendProperties DEF ProcType
    <3> QED BY <1>4, <3>1 DEF LoadGoroutine, LoadReady, LoadError, PostLoad, ProcType
  <2>5. ProcType'
    BY <1>4, <2>2, <2>4 DEF LoadGoroutine, LoadReady, LoadError, PostLoad, ProcType
  <2> QED BY <1>2, <2>1, <2>5
<1>5. ASSUME NEW i \in Instances, StopGoroutine(i) PROVE TypeOK'
  <2>1. OsUnchanged
    BY <1>5 DEF StopGoroutine, StopSucceeds, StopFails
  <2>2. stopJob' \in [Instances -> {"none", "stop", "cleanup"}]
    BY <1>5 DEF StopGoroutine, StopSucceeds, StopFails, PostStop, ProcType
  <2>3. proc' \in [Instances -> {"up", "exited", "gone"}]
    BY <1>5 DEF StopGoroutine, StopSucceeds, StopFails, ProcType
  <2>4. \A err \in BOOLEAN :
           [cleanup |-> stopJob[i] = "cleanup", err |-> err] \in [cleanup : BOOLEAN, err : BOOLEAN]
    OBVIOUS
  <2>5. stopCh' \in Seq([cleanup : BOOLEAN, err : BOOLEAN])
    <3>1. \A err \in BOOLEAN : Append(stopCh, [cleanup |-> stopJob[i] = "cleanup", err |-> err])
            \in Seq([cleanup : BOOLEAN, err : BOOLEAN])
      BY <2>4, AppendProperties DEF ProcType
    <3> QED BY <1>5, <3>1 DEF StopGoroutine, StopSucceeds, StopFails, PostStop, ProcType
  <2>6. ProcType'
    BY <1>5, <2>2, <2>3, <2>5 DEF StopGoroutine, StopSucceeds, StopFails, ProcType
  <2> QED BY <1>2, <2>1, <2>6
<1> QED BY <1>1, <1>3, <1>4, <1>5 DEF Proxy

(* The clock: ages stay below their cap and remaining times never go       *)
(* negative.                                                               *)
LEMMA TickType == ASSUME TypeOK, Tick PROVE TypeOK'
<1> USE DEF TypeOK
<1>1. \A a \in 0..AgeCap : Older(a) \in 0..AgeCap
  BY ConstantTypes DEF Older
<1>2. \A l \in Nat : Sooner(l) \in Nat
  BY DEF Sooner
<1>3. timers' \in TimersType
  <2> DEFINE p == timers.preemptions
             q == [k \in DOMAIN p |-> p[k] + 1]
  <2>1. timers \in TimersType /\ p \in Seq(Nat)
    BY DEF FactType, TimersType
  <2>2. q \in Seq(Nat)
    BY <2>1
  <2>3. pruned(q) \in Seq(Nat)
    BY <2>2, PrunedType
  <2>4. /\ Older(timers.sinceCompeting) \in 0..AgeCap
        /\ Older(timers.sinceSuppressed) \in 0..AgeCap
        /\ Sooner(timers.recoveryLeft) \in Nat
    BY <1>1, <1>2, <2>1 DEF TimersType
  <2>5. timers' = [timers EXCEPT !.sinceCompeting = Older(timers.sinceCompeting),
                                 !.sinceSuppressed = Older(timers.sinceSuppressed),
                                 !.recoveryLeft = Sooner(timers.recoveryLeft),
                                 !.preemptions = pruned(q)]
    BY DEF Tick
  <2> HIDE DEF p, q
  <2> QED BY <2>1, <2>3, <2>4, <2>5 DEF TimersType
<1>4. FactType'
  BY <1>2, <1>3 DEF Tick, FactType, factVars
<1>5. CounterType'
  BY <1>1 DEF Tick, CounterType
<1>6. ZombieType'
  BY <1>2 DEF Tick, ZombieType
<1>7. DrainType'
  BY <1>1 DEF Tick, DrainType
<1>8. CtlType' /\ GateType' /\ ProcType'
  BY DEF Tick, ctl, gateVars, loadVars, stopVars, CtlType, GateType, ProcType
<1> QED BY <1>4, <1>5, <1>6, <1>7, <1>8

(* Every action preserves the types.                                       *)
LEMMA NextType == TypeOK /\ [Next]_vars => TypeOK'
<1> SUFFICES ASSUME TypeOK, [Next]_vars PROVE TypeOK'
  OBVIOUS
<1>1. CASE Next
  BY <1>1, LoadResultType, StopResultType, ReapType, DecideType, ActType, ApiType, ConcurrentType,
     TickType
  DEF Next, Work, Step
<1>2. CASE UNCHANGED vars
  BY <1>2 DEF vars, ctl, zombieVars, yieldVars, modeVars, factVars, counters, gateVars, loadVars,
      stopVars, TypeOK, CtlType, ZombieType, DrainType, FactType, CounterType, GateType, ProcType
<1> QED BY <1>1, <1>2

(* The controller is type-correct for every number of instances and        *)
(* requests, every configuration that passes validation, every machine     *)
(* that is observed and every set of faults: in particular the transition  *)
(* table never yields a state outside the lifecycle, counters stay inside  *)
(* the backoff tables, and no channel is read while empty.                 *)
THEOREM TypeCorrect == Spec => []TypeOK
  BY InitType, NextType, PTL DEF Spec

-----------------------------------------------------------------------------
(* Safety.                                                                 *)

(* The decision being acted on respects an unverified runtime: it was made *)
(* in this step, and nothing turns a runtime into a zombie in between.     *)
DecisionSafe ==
    pc = "act" /\ zombie # NoInst => decision.action # "run" /\ decision.idle = "ERROR"

Inv ==
    /\ TypeOK
    /\ Bookkeeping /\ DecisionSafe
    /\ OneRuntime /\ StopsAccountedFor /\ IdleMeansReleased
    /\ GateOnlyWhenServing /\ NoOrphanRequest

-----------------------------------------------------------------------------
(* The state machine's table.                                              *)

(* The transitions the actions rely on are all legal.                      *)
LEMMA Transitions ==
    /\ \A s, t \in Idle : Transition(s, t) = t
    /\ \A s \in Idle : Transition(Transition(s, "STOPPED"), "LOADING") = "LOADING"
    /\ \A s \in Idle : Transition(Transition(s, "STOPPED"), "ERROR") = "ERROR"
    /\ Transition("LOADING", "READY") = "READY"
    /\ \A s \in {"LOADING", "READY", "BUSY", "DRAINING", "PREEMPTING"} :
          Transition(s, "ERROR") = "ERROR"
    /\ \A s \in {"LOADING", "READY", "BUSY", "DRAINING"} :
          Transition(s, "PREEMPTING") = "PREEMPTING"
    /\ \A s \in {"READY", "BUSY"} : Transition(s, "DRAINING") = "DRAINING"
    /\ \A t \in Idle : Transition("PREEMPTING", t) = t
  BY DEF Transition, CanTransition, Idle

(* A state is idle or runs a runtime, never both.                          *)
LEMMA StatesSplit ==
    \A s \in State : RuntimeRunning(s) <=> s \notin Idle
  BY DEF State, RuntimeRunning, Idle

(* While the controller runs or stops a runtime there is no zombie, hence  *)
(* no cleanup, and no result unless it is stopping.                        *)
LEMMA NoZombieWhileRunning ==
    ASSUME Inv, Alive, Running
    PROVE  /\ zombie = NoInst /\ ~zombieStopping
           /\ inst \in Instances
           /\ \A i \in Instances : proc[i] # "gone" => i = inst
           /\ st # "PREEMPTING" => stopCh = <<>> /\ \A i \in Instances : stopJob[i] = "none"
<1>1. zombie = NoInst
  BY DEF Inv, Bookkeeping, Running, RuntimeRunning
<1>2. ~zombieStopping
  BY <1>1 DEF Inv, StopsAccountedFor
<1>3. inst \in Instances
  BY DEF Inv, Bookkeeping, TypeOK, CtlType, InstOrNone
<1>4. \A i \in Instances : proc[i] # "gone" => i = inst
  BY <1>1, ControllerConfig DEF Inv, OneRuntime
<1>5. st # "PREEMPTING" => stopCh = <<>>
  BY <1>2 DEF Inv, StopsAccountedFor
<1>6. st # "PREEMPTING" => \A i \in Instances : stopJob[i] = "none"
  BY <1>2 DEF Inv, StopsAccountedFor, TypeOK, ProcType
<1> QED BY <1>1, <1>2, <1>3, <1>4, <1>5, <1>6

(* Idle without a zombie, everything is released and nothing is in flight. *)
LEMMA QuietWhenIdle ==
    ASSUME Inv, Alive, st \in Idle
    PROVE  /\ inst = NoInst
           /\ zombie = NoInst =>
                /\ \A i \in Instances : proc[i] = "gone" /\ stopJob[i] = "none"
                /\ stopCh = <<>> /\ ~zombieStopping
<1>1. inst = NoInst
  BY StatesSplit DEF Inv, Bookkeeping, TypeOK, CtlType, Running
<1>2. st # "PREEMPTING"
  BY DEF Idle
<1>3. ASSUME zombie = NoInst
      PROVE  /\ \A i \in Instances : proc[i] = "gone" /\ stopJob[i] = "none"
             /\ stopCh = <<>> /\ ~zombieStopping
  <2>1. ~zombieStopping
    BY <1>3 DEF Inv, StopsAccountedFor
  <2>2. \A i \in Instances : proc[i] = "gone"
    BY <1>1, <1>3, ControllerConfig DEF Inv, OneRuntime
  <2>3. stopCh = <<>>
    BY <1>2, <2>1 DEF Inv, StopsAccountedFor
  <2>4. \A i \in Instances : stopJob[i] = "none"
    BY <1>2, <2>1 DEF Inv, StopsAccountedFor, TypeOK, ProcType
  <2> QED BY <2>1, <2>2, <2>3, <2>4
<1> QED BY <1>1, <1>3

-----------------------------------------------------------------------------
(* The invariant, action by action.  Safe is the part beyond the types.    *)

Safe ==
    /\ Bookkeeping /\ DecisionSafe
    /\ OneRuntime /\ StopsAccountedFor /\ IdleMeansReleased
    /\ GateOnlyWhenServing /\ NoOrphanRequest

(* Nothing is broken by a step that leaves these variables alone and does  *)
(* not put a bad decision into effect.                                     *)
LEMMA Frame ==
    ASSUME Inv, DecisionSafe', Alive' => Alive,
           UNCHANGED <<st, inst, zombie, zombieStopping, gateVars, proc, stopVars>>
    PROVE  Safe'
<1> USE DEF Inv, gateVars, stopVars
<1>1. Bookkeeping'
  BY DEF Bookkeeping, Running
<1>2. OneRuntime' /\ IdleMeansReleased'
  BY DEF OneRuntime, IdleMeansReleased
<1>3. StopsAccountedFor'
  BY DEF StopsAccountedFor
<1>4. GateOnlyWhenServing' /\ NoOrphanRequest'
  BY DEF GateOnlyWhenServing, NoOrphanRequest, Active
<1> QED BY <1>1, <1>2, <1>3, <1>4 DEF Safe

(* The initial state.                                                      *)
LEMMA InitSafe == Init => Inv
<1> SUFFICES ASSUME Init PROVE Inv
  OBVIOUS
<1>1. TypeOK
  BY InitType
<1>2. Bookkeeping /\ DecisionSafe
  BY DEF Init, Bookkeeping, DecisionSafe, Running, RuntimeRunning
<1>3. OneRuntime /\ IdleMeansReleased
  BY DEF Init, OneRuntime, IdleMeansReleased
<1>4. StopsAccountedFor
  <2>1. Len(<<>>) <= 1
    OBVIOUS
  <2> QED BY <2>1, Zenon DEF Init, StopsAccountedFor
<1>5. GateOnlyWhenServing /\ NoOrphanRequest
  BY DEF Init, GateOnlyWhenServing, NoOrphanRequest, Active
<1> QED BY <1>1, <1>2, <1>3, <1>4, <1>5 DEF Inv

(* A runtime lost outside a stop, by a failed load or a crash: the tree    *)
(* becomes the zombie with its one cleanup in flight.                      *)
LEMMA LostSafe ==
    ASSUME Inv, Alive, Alive', Running, st # "PREEMPTING", pc' # "act",
           inst' = NoInst, MakeZombie(inst), CloseGate, st' = Transition(st, "ERROR"),
           UNCHANGED <<proc, stopCh>>,
           Active \subseteq cut'
    PROVE  Safe'
<1>1. /\ zombie = NoInst /\ ~zombieStopping /\ inst \in Instances
      /\ \A i \in Instances : proc[i] # "gone" => i = inst
      /\ stopCh = <<>> /\ \A i \in Instances : stopJob[i] = "none"
  BY NoZombieWhileRunning
<1>2. st' = "ERROR"
  BY Transitions DEF Running, RuntimeRunning
<1>3. /\ zombie' = inst /\ zombieStopping'
      /\ stopJob' = [stopJob EXCEPT ![inst] = "cleanup"]
  BY <1>1 DEF MakeZombie, StartCleanup
<1>4. inst # NoInst
  BY <1>1, ControllerConfig
<1>5. Bookkeeping'
  BY <1>1, <1>2 DEF Bookkeeping, Running, RuntimeRunning
<1>6. DecisionSafe'
  BY DEF DecisionSafe
<1>7. OneRuntime' /\ IdleMeansReleased'
  BY <1>1, <1>2, <1>3 DEF OneRuntime, IdleMeansReleased
<1>8. StopsAccountedFor'
  BY <1>1, <1>2, <1>3, <1>4 DEF StopsAccountedFor, Inv, TypeOK, ProcType
<1>9. GateOnlyWhenServing'
  BY DEF CloseGate, GateOnlyWhenServing
<1>10. NoOrphanRequest'
  BY DEF CloseGate, NoOrphanRequest, Active
<1> QED BY <1>5, <1>6, <1>7, <1>8, <1>9, <1>10 DEF Safe

(* absorbAsync's load result.                                              *)
LEMMA LoadResultSafe ==
    ASSUME Inv, LoadResultStale \/ LoadResultOK \/ LoadResultFailed \/ NoLoadResult
    PROVE  Safe'
<1>1. pc' = "absorb" /\ pc = "idle" /\ Alive /\ Alive'
  BY DEF LoadResultStale, LoadResultOK, LoadResultFailed, NoLoadResult, TakeLoadResult, Alive
<1>2. DecisionSafe'
  BY <1>1 DEF DecisionSafe
<1>3. CASE NoLoadResult \/ LoadResultStale
  BY <1>1, <1>2, <1>3, Frame DEF NoLoadResult, LoadResultStale, zombieVars
<1>4. CASE LoadResultOK
  <2>1. st = "LOADING" /\ st' = "READY"
    BY <1>4, Transitions DEF LoadResultOK, StaleResult
  <2> USE <1>4, <2>1 DEF Inv, LoadResultOK, zombieVars, gateVars, stopVars
  <2>2. Bookkeeping'
    BY <1>1 DEF Bookkeeping, Running, RuntimeRunning
  <2>3. OneRuntime' /\ IdleMeansReleased'
    BY <1>1 DEF OneRuntime, IdleMeansReleased, Idle
  <2>4. StopsAccountedFor'
    BY <1>1 DEF StopsAccountedFor
  <2>5. GateOnlyWhenServing' /\ NoOrphanRequest'
    BY DEF GateOnlyWhenServing, NoOrphanRequest, Active, Admitting
  <2> QED BY <1>2, <2>2, <2>3, <2>4, <2>5 DEF Safe
<1>5. CASE LoadResultFailed
  <2>1. st = "LOADING" /\ Running
    BY <1>5 DEF LoadResultFailed, StaleResult, Running, RuntimeRunning
  <2>2. Active \subseteq cut'
    BY <1>5, <2>1 DEF Inv, NoOrphanRequest, LoadResultFailed
  <2> QED BY <1>1, <1>5, <2>1, <2>2, LostSafe DEF LoadResultFailed
<1> QED BY <1>3, <1>4, <1>5


(* A channel that holds at most one result is empty once it is taken.      *)
LEMMA LastResult ==
    ASSUME Inv, Alive, stopCh # <<>>
    PROVE  Tail(stopCh) = <<>> /\ Head(stopCh) = stopCh[1]
<1> DEFINE S == [cleanup : BOOLEAN, err : BOOLEAN]
<1>1. Len(stopCh) <= 1
  BY DEF Inv, StopsAccountedFor
<1>2. stopCh \in Seq(S)
  BY DEF Inv, TypeOK, ProcType
<1> HIDE DEF S
<1>3. Len(stopCh) \in Nat \ {0}
  BY <1>2, EmptySeq
<1>4. Tail(stopCh) \in Seq(S) /\ Len(Tail(stopCh)) = Len(stopCh) - 1
  BY <1>2, HeadTailProperties
<1>5. Tail(stopCh) = <<>>
  BY <1>1, <1>3, <1>4, EmptySeq
<1>6. Head(stopCh) = stopCh[1]
  BY <1>2, <1>3
<1> QED BY <1>5, <1>6

(* absorbAsync's stop results.                                             *)
LEMMA StopResultSafe ==
    ASSUME Inv, OnStopped \/ OnStopFailed \/ OnZombieStopped
    PROVE  Safe'
<1>1. /\ pc = "absorb" /\ pc' = "absorb" /\ Alive /\ Alive'
      /\ stopCh # <<>> /\ stopCh' = <<>>
      /\ Head(stopCh) = stopCh[1]
  BY LastResult DEF OnStopped, OnStopFailed, OnZombieStopped, TakeStopResult, Alive
<1>2. DecisionSafe'
  BY <1>1 DEF DecisionSafe
<1>3. /\ \A i \in Instances : stopJob[i] = "none"
      /\ stopJob' = stopJob /\ proc' = proc /\ UNCHANGED gateVars
  BY <1>1 DEF Inv, StopsAccountedFor, TypeOK, ProcType, OnStopped, OnStopFailed, OnZombieStopped
<1>4. Len(<<>>) <= 1
  OBVIOUS
<1>5. ASSUME OnStopped \/ OnStopFailed
      PROVE  /\ st = "PREEMPTING" /\ Running /\ zombie = NoInst /\ ~zombieStopping
             /\ inst \in Instances /\ inst' = NoInst
             /\ \A i \in Instances : proc[i] # "gone" => i = inst
  <2>1. st = "PREEMPTING" /\ Running
    BY <1>1, <1>5 DEF OnStopped, OnStopFailed, TakeStopResult, Inv, StopsAccountedFor, Running,
                      RuntimeRunning
  <2> QED BY <1>1, <1>5, <2>1, NoZombieWhileRunning DEF OnStopped, OnStopFailed, EndYield
<1>6. ASSUME gate = NoInst, st' \in Idle, Active \subseteq cut
      PROVE  GateOnlyWhenServing' /\ NoOrphanRequest'
  BY <1>3, <1>6 DEF gateVars, GateOnlyWhenServing, NoOrphanRequest, Active
<1>7. ASSUME st \notin {"READY", "BUSY", "DRAINING"}
      PROVE  gate = NoInst /\ Active \subseteq cut
  BY <1>7 DEF Inv, GateOnlyWhenServing, NoOrphanRequest, Admitting
<1>8. CASE OnStopped
  <2>1. st' \in Idle
    <3>1. \A t \in Idle : Transition(st, t) \in Idle
      BY <1>5, <1>8, Transitions
    <3>2. "SUPPRESSED" \in Idle /\ "STOPPED" \in Idle
      BY DEF Idle
    <3> QED BY <1>8, <3>1, <3>2 DEF OnStopped
  <2>2. zombie' = NoInst /\ zombieStopping' = zombieStopping
    BY <1>5, <1>8 DEF OnStopped, zombieVars
  <2>3. proc[inst] = "gone"
    BY <1>1, <1>8 DEF OnStopped, TakeStopResult, Inv, Bookkeeping
  <2>4. \A i \in Instances : proc'[i] = "gone"
    BY <1>3, <1>5, <1>8, <2>3
  <2>5. Bookkeeping'
    BY <1>1, <1>5, <1>8, <2>1, <2>2, StatesSplit DEF Bookkeeping, Running, State
  <2>6. OneRuntime' /\ IdleMeansReleased'
    BY <2>4 DEF OneRuntime, IdleMeansReleased
  <2>7. StopsAccountedFor'
    BY <1>1, <1>3, <1>4, <1>5, <1>8, <2>1, <2>2 DEF StopsAccountedFor, Idle
  <2> QED BY <1>2, <1>5, <1>6, <1>7, <1>8, <2>1, <2>5, <2>6, <2>7 DEF Safe
<1>9. CASE OnStopFailed
  <2>1. st' = "ERROR"
    BY <1>5, <1>9, Transitions DEF OnStopFailed
  <2>2. zombie' = inst /\ zombieStopping' = zombieStopping
    BY <1>9 DEF OnStopFailed
  <2>3. Bookkeeping'
    BY <1>1, <1>5, <1>9, <2>1 DEF Bookkeeping, Running, RuntimeRunning
  <2>4. OneRuntime' /\ IdleMeansReleased'
    BY <1>3, <1>5, <1>9, <2>1, <2>2 DEF OneRuntime, IdleMeansReleased
  <2>5. StopsAccountedFor'
    BY <1>1, <1>3, <1>4, <1>5, <1>9, <2>1, <2>2 DEF StopsAccountedFor
  <2> QED BY <1>2, <1>5, <1>6, <1>7, <1>9, <2>1, <2>3, <2>4, <2>5 DEF Safe, Idle
<1>10. CASE OnZombieStopped
  <2>1. /\ zombieStopping /\ zombie # NoInst /\ st = "ERROR"
        /\ st' = st /\ inst' = inst /\ inst = NoInst
    <3>1. zombieStopping
      BY <1>1, <1>10 DEF OnZombieStopped, TakeStopResult, Inv, StopsAccountedFor
    <3>2. zombie # NoInst /\ st = "ERROR"
      BY <1>1, <3>1 DEF Inv, StopsAccountedFor, Bookkeeping
    <3> QED BY <1>1, <1>10, <3>1, <3>2, QuietWhenIdle DEF OnZombieStopped, Idle
  <2>2. zombieStopping' = FALSE
    BY <1>10 DEF OnZombieStopped
  <2>3. \A i \in Instances : proc[i] # "gone" => i = zombie
    BY <1>1, <2>1, ControllerConfig DEF Inv, OneRuntime
  <2>4. zombie' = zombie \/ (zombie' = NoInst /\ proc[zombie] = "gone")
    BY <1>1, <1>10, <2>1 DEF OnZombieStopped, TakeStopResult, Inv, Bookkeeping
  <2>5. Bookkeeping'
    BY <1>1, <2>1 DEF Bookkeeping, Running, RuntimeRunning
  <2>6. OneRuntime' /\ IdleMeansReleased'
    BY <1>3, <2>1, <2>3, <2>4 DEF OneRuntime, IdleMeansReleased
  <2>7. StopsAccountedFor'
    BY <1>1, <1>3, <1>4, <2>1, <2>2 DEF StopsAccountedFor
  <2> QED BY <1>2, <1>6, <1>7, <2>1, <2>5, <2>6, <2>7 DEF Safe, Idle
<1> QED BY <1>8, <1>9, <1>10

(* Cleanup retries and crashes.                                            *)
LEMMA ReapSafe ==
    ASSUME Inv, NothingToReap \/ RetryZombie \/ OnCrash
    PROVE  Safe'
<1>1. pc = "absorb" /\ pc' = "decide" /\ Alive /\ Alive' /\ stopCh = <<>>
  BY DEF NothingToReap, RetryZombie, OnCrash, Absorbed, Alive
<1>2. DecisionSafe'
  BY <1>1 DEF DecisionSafe
<1>3. CASE NothingToReap
  BY <1>1, <1>2, <1>3, Frame DEF NothingToReap, zombieVars
<1>4. CASE RetryZombie
  <2>1. /\ zombie # NoInst /\ ~zombieStopping /\ zombieStopping'
        /\ stopJob' = [stopJob EXCEPT ![zombie] = "cleanup"]
        /\ UNCHANGED <<st, inst, zombie, gateVars, proc, stopCh>>
    BY <1>4 DEF RetryZombie, RetryDue, StartCleanup
  <2>2. st = "ERROR" /\ zombie \in Instances
    BY <1>1, <2>1 DEF Inv, Bookkeeping, TypeOK, ZombieType, InstOrNone
  <2>3. Bookkeeping' /\ OneRuntime' /\ IdleMeansReleased'
    BY <1>1, <2>1 DEF Inv, Bookkeeping, Running, OneRuntime, IdleMeansReleased
  <2>4. StopsAccountedFor'
    BY <1>1, <2>1, <2>2 DEF Inv, StopsAccountedFor, TypeOK, ProcType
  <2>5. GateOnlyWhenServing' /\ NoOrphanRequest'
    BY <2>1 DEF Inv, GateOnlyWhenServing, NoOrphanRequest, Active, gateVars
  <2> QED BY <1>2, <2>3, <2>4, <2>5 DEF Safe
<1>5. CASE OnCrash
  <2>1. inst # NoInst /\ st # "PREEMPTING" /\ Running
    BY <1>1, <1>5 DEF OnCrash, Crashed, Inv, Bookkeeping
  <2> QED BY <1>1, <1>5, <2>1, LostSafe DEF OnCrash, ForceCloseAll
<1> QED BY <1>3, <1>4, <1>5


(* Whatever the policy says, an unverified runtime forbids loading and     *)
(* keeps the idle state Error: no override after applyZombie undoes it.    *)
LEMMA VerdictRespectsZombie ==
    ASSUME NEW s, zombie # NoInst, ~Running
    PROVE  Verdict(s).action # "run" /\ Verdict(s).idle = "ERROR"
<1> DEFINE e == Evaluate(s)
           m == applyManual(e, Profiles[ProfileOf(s)])
           z == applyZombie(m)
<1>1. PICK R, T, C, N : e \in Shape(R, T, C, N)
  BY EvaluateType
<1>2. PICK R2, T2, C2, N2 : m \in Shape(R2, T2, C2, N2)
  <2>1. m = e
    BY DEF applyManual, ManualApplies
  <2> QED BY <1>1, <2>1
<1> HIDE DEF m
<1>3. z.action # "run" /\ z.idle = "ERROR"
  BY <1>2 DEF applyZombie, Shape
<1>4. PICK R3, T3, C3, N3 : z \in Shape(R3, T3, C3, N3)
  <2>1. z \in Shape(R2 \cup {"safety.runtime_unverified"}, T2 \cup {1}, C2, N2)
    BY <1>2 DEF applyZombie, Shape, Action, Idle
  <2> QED BY <2>1
<1> HIDE DEF z
<1>5. applyLoadBlocked(z).action # "run" /\ applyLoadBlocked(z).idle = "ERROR"
  BY <1>3, <1>4 DEF applyLoadBlocked, Shape
<1> QED BY <1>5 DEF Verdict, z, m

(* The decision of a step.                                                 *)
LEMMA DecideSafe == ASSUME Inv, Decide PROVE Safe'
<1>1. pc = "decide" /\ Alive /\ Alive' /\ UNCHANGED <<st, inst, zombieVars, gateVars, proc, stopVars>>
  BY DEF Decide, Alive
<1>2. ASSUME zombie # NoInst
      PROVE  decision'.action # "run" /\ decision'.idle = "ERROR"
  <2>1. ~Running
    BY <1>1, <1>2 DEF Inv, Bookkeeping, Running, RuntimeRunning
  <2>2. PICK reset \in ResetReports, o \in Observations, problem \in SetupAnswers :
          DecideOn(reset, o, problem)
    BY DEF Decide
  <2>3. PICK s : decision'.action = Verdict(s).action /\ decision'.idle = Verdict(s).idle
    BY <2>2 DEF DecideOn
  <2> QED BY <1>2, <2>1, <2>3, VerdictRespectsZombie
<1>3. DecisionSafe'
  BY <1>1, <1>2 DEF DecisionSafe, zombieVars
<1> QED BY <1>1, <1>3, Frame DEF zombieVars

(* A stop begun by act(): one stop of the current instance is in flight.   *)
LEMMA BeginStopSafe ==
    ASSUME Inv, pc = "act", pc' = "idle", st \in {"LOADING", "READY", "BUSY", "DRAINING"},
           NEW y, beginStop(y), UNCHANGED <<inst, zombie, zombieStopping, proc>>,
           Active \subseteq cut'
    PROVE  Safe'
<1>1. Alive /\ Alive' /\ Running
  BY DEF Alive, Running, RuntimeRunning
<1>2. /\ zombie = NoInst /\ ~zombieStopping /\ inst \in Instances
      /\ \A i \in Instances : proc[i] # "gone" => i = inst
      /\ stopCh = <<>> /\ \A i \in Instances : stopJob[i] = "none"
  BY <1>1, NoZombieWhileRunning
<1>3. inst # NoInst
  BY <1>2, ControllerConfig
<1>4. /\ st' = "PREEMPTING" /\ gate' = NoInst /\ reqInst' = reqInst
      /\ stopJob' = [stopJob EXCEPT ![inst] = "stop"] /\ stopCh' = stopCh
  BY <1>3, Transitions DEF beginStop, CloseGate
<1>5. Bookkeeping' /\ DecisionSafe'
  BY <1>2, <1>3, <1>4 DEF Bookkeeping, DecisionSafe, Running, RuntimeRunning
<1>6. OneRuntime' /\ IdleMeansReleased'
  BY <1>2, <1>4 DEF OneRuntime, IdleMeansReleased, Idle
<1>7. StopsAccountedFor'
  BY <1>2, <1>3, <1>4 DEF StopsAccountedFor, Inv, TypeOK, ProcType
<1>8. GateOnlyWhenServing' /\ NoOrphanRequest'
  BY <1>4 DEF GateOnlyWhenServing, NoOrphanRequest, Active
<1> QED BY <1>5, <1>6, <1>7, <1>8 DEF Safe

(* act() in an idle state.                                                 *)
LEMMA ActIdleSafe ==
    ASSUME Inv, ActHold \/ StartLoad \/ StartFails
    PROVE  Safe'
<1>1. pc = "act" /\ pc' = "idle" /\ Alive /\ Alive' /\ st \in Idle
  BY DEF ActHold, StartLoad, StartFails, Acting, Alive
<1>2. DecisionSafe'
  BY <1>1 DEF DecisionSafe
<1>3. inst = NoInst /\ gate = NoInst /\ Active \subseteq cut
  BY <1>1, QuietWhenIdle DEF Inv, GateOnlyWhenServing, NoOrphanRequest, Admitting, Idle
<1>4. ASSUME st' \in Idle, zombie # NoInst => st' = "ERROR",
             UNCHANGED <<inst, zombieVars, gateVars, proc, stopVars>>
      PROVE  Safe'
  <2> USE <1>1, <1>3, <1>4 DEF zombieVars, gateVars, stopVars
  <2>1. Bookkeeping'
    BY StatesSplit DEF Inv, Bookkeeping, Running, State
  <2>2. OneRuntime' /\ IdleMeansReleased'
    BY QuietWhenIdle DEF Inv, OneRuntime, IdleMeansReleased
  <2>3. StopsAccountedFor'
    BY DEF Inv, StopsAccountedFor, Idle
  <2>4. GateOnlyWhenServing' /\ NoOrphanRequest'
    BY DEF Inv, GateOnlyWhenServing, NoOrphanRequest, Active
  <2> QED BY <1>2, <2>1, <2>2, <2>3, <2>4 DEF Safe
<1>5. CASE ActHold
  <2>1. zombie # NoInst => decision.idle = "ERROR" /\ st = "ERROR"
    BY <1>1 DEF Inv, DecisionSafe, Bookkeeping
  <2>2. st' = st \/ (st' = decision.idle /\ decision.idle \in Idle)
    <3>1. CanTransition(st, decision.idle) => decision.idle \in Idle
      BY <1>1 DEF CanTransition, Idle, Inv, TypeOK, CtlType, Decisions
    <3> QED BY <1>5, <3>1 DEF ActHold, Transition
  <2> QED BY <1>1, <1>4, <1>5, <2>1, <2>2 DEF ActHold, ActUnchanged
<1>6. CASE StartFails
  <2>1. st' = "ERROR"
    BY <1>1, <1>6, Transitions DEF StartFails
  <2> QED BY <1>4, <1>6, <2>1 DEF StartFails, ActUnchanged, Idle
<1>7. CASE StartLoad
  <2>1. zombie = NoInst
    BY <1>1, <1>7 DEF StartLoad, Inv, DecisionSafe
  <2>2. /\ \A i \in Instances : proc[i] = "gone" /\ stopJob[i] = "none"
        /\ stopCh = <<>> /\ ~zombieStopping
    BY <1>1, <2>1, QuietWhenIdle
  <2>3. PICK i \in Instances : inst' = i /\ proc' = [proc EXCEPT ![i] = "up"]
    BY <1>7 DEF StartLoad
  <2>4. st' = "LOADING"
    BY <1>1, <1>7, Transitions DEF StartLoad
  <2>5. i # NoInst
    BY ControllerConfig
  <2> USE <1>7, <2>1, <2>2, <2>3, <2>4, <2>5 DEF StartLoad, zombieVars, gateVars, stopVars
  <2>6. Bookkeeping'
    BY DEF Bookkeeping, Running, RuntimeRunning
  <2>7. OneRuntime'
    BY DEF OneRuntime, Inv, TypeOK, ProcType
  <2>8. IdleMeansReleased'
    BY DEF IdleMeansReleased, Idle
  <2>9. StopsAccountedFor'
    BY DEF StopsAccountedFor
  <2>10. GateOnlyWhenServing' /\ NoOrphanRequest'
    BY <1>3 DEF GateOnlyWhenServing, NoOrphanRequest, Active
  <2> QED BY <1>2, <2>6, <2>7, <2>8, <2>9, <2>10 DEF Safe
<1> QED BY <1>5, <1>6, <1>7


(* act() with a runtime.                                                   *)
LEMMA ActRunningSafe ==
    ASSUME Inv,
           \/ ActWait \/ ActCancelLoad \/ ActServe \/ ActPreempt \/ ActDrainIdle \/ ActDrain
           \/ ActDrainDone \/ ActDrainPreempt \/ ActDrainWait \/ ActGraceExpired
    PROVE  Safe'
<1>1. pc = "act" /\ pc' = "idle" /\ Alive /\ Alive'
  BY DEF ActWait, ActCancelLoad, ActServe, ActPreempt, ActDrainIdle, ActDrain, ActDrainDone,
         ActDrainPreempt, ActDrainWait, ActGraceExpired, Acting, Alive
<1>2. DecisionSafe'
  BY <1>1 DEF DecisionSafe
<1> USE <1>1 DEF ActUnchanged, zombieVars, Acting
<1>3. CASE ActWait
  BY <1>2, <1>3, Frame DEF ActWait
<1>4. CASE ActDrainWait
  BY <1>2, <1>4, Frame DEF ActDrainWait
<1>5. CASE ActCancelLoad
  <2>1. Active \subseteq cut'
    BY <1>5 DEF ActCancelLoad, Inv, NoOrphanRequest
  <2> QED BY <1>5, <2>1, BeginStopSafe DEF ActCancelLoad
<1>6. CASE ActPreempt
  BY <1>6, BeginStopSafe DEF ActPreempt, ForceCloseAll
<1>7. CASE ActDrainIdle
  BY <1>7, BeginStopSafe DEF ActDrainIdle
<1>8. CASE ActDrainDone
  BY <1>8, BeginStopSafe DEF ActDrainDone
<1>9. CASE ActDrainPreempt
  BY <1>9, BeginStopSafe DEF ActDrainPreempt, ForceCloseAll
<1>10. CASE ActGraceExpired
  BY <1>10, BeginStopSafe DEF ActGraceExpired, ForceCloseAll
<1>11. ASSUME st \in {"READY", "BUSY"}, st' \in {"READY", "BUSY", "DRAINING"},
              gate' # NoInst => st' \in {"READY", "BUSY"} /\ gate' = inst,
              UNCHANGED <<inst, zombie, zombieStopping, reqInst, cut, proc, stopVars>>
       PROVE  Safe'
  <2> USE <1>11 DEF stopVars
  <2>1. Bookkeeping'
    BY DEF Inv, Bookkeeping, Running, RuntimeRunning
  <2>2. OneRuntime' /\ IdleMeansReleased'
    BY DEF Inv, OneRuntime, IdleMeansReleased, Idle
  <2>3. StopsAccountedFor'
    BY DEF Inv, StopsAccountedFor
  <2>4. GateOnlyWhenServing' /\ NoOrphanRequest'
    BY DEF Inv, GateOnlyWhenServing, NoOrphanRequest, Active, Admitting
  <2> QED BY <1>2, <2>1, <2>2, <2>3, <2>4 DEF Safe
<1>12. CASE ActServe
  <2>1. gate' # NoInst => gate' = inst
    BY <1>12 DEF ActServe, Inv, GateOnlyWhenServing
  <2>2. st' \in {"READY", "BUSY"}
    BY <1>12 DEF ActServe
  <2> QED BY <1>11, <1>12, <2>1, <2>2 DEF ActServe
<1>13. CASE ActDrain
  <2>1. st' = "DRAINING"
    BY <1>13, Transitions DEF ActDrain
  <2> QED BY <1>11, <1>13, <2>1 DEF ActDrain, CloseGate
<1> QED BY <1>3, <1>4, <1>5, <1>6, <1>7, <1>8, <1>9, <1>10, <1>12, <1>13

(* API calls and host events.                                              *)
LEMMA ApiSafe == ASSUME Inv, Api PROVE Safe'
<1>1. CASE SetMode \/ RequestManual \/ UpdateConfig \/ PrepareSuspend \/ Resumed \/ Shutdown
  <2>1. UNCHANGED <<pc, st, inst, decision, zombie, zombieStopping, gateVars, proc, stopVars>>
    BY <1>1 DEF SetMode, RequestManual, UpdateConfig, PrepareSuspend, Resumed, Shutdown,
                ApiUnchanged, zombieVars
  <2>2. DecisionSafe'
    BY <2>1 DEF Inv, DecisionSafe
  <2> QED BY <2>1, <2>2, Frame DEF Alive
<1>2. CASE ShutdownReturns
  <2>1. /\ ~Alive' /\ Alive /\ st' = st /\ UNCHANGED gateVars
        /\ \A i \in Instances : proc'[i] # "gone" => proc[i] # "gone"
    BY <1>2 DEF ShutdownReturns, Alive, gateVars
  <2>2. Bookkeeping' /\ DecisionSafe' /\ StopsAccountedFor'
    BY <1>2, <2>1 DEF ShutdownReturns, Bookkeeping, DecisionSafe, StopsAccountedFor
  <2>3. OneRuntime' /\ IdleMeansReleased'
    BY <2>1 DEF Inv, OneRuntime, IdleMeansReleased
  <2>4. st \notin {"READY", "BUSY", "DRAINING"}
    BY <1>2 DEF ShutdownReturns, Idle
  <2>5. GateOnlyWhenServing' /\ NoOrphanRequest'
    BY <2>1, <2>4 DEF Inv, GateOnlyWhenServing, NoOrphanRequest, Active, Admitting, gateVars
  <2> QED BY <2>2, <2>3, <2>5 DEF Safe
<1> QED BY <1>1, <1>2 DEF Api

(* Requests come and go.                                                   *)
LEMMA ProxySafe == ASSUME Inv, Proxy PROVE Safe'
<1>1. PICK r \in Requests : Admit(r) \/ Release(r)
  BY DEF Proxy
<1>2. UNCHANGED <<pc, st, inst, decision, zombie, zombieStopping, gate, proc, stopVars>>
  BY <1>1 DEF Admit, Release, GateUnchanged, ctl, zombieVars
<1>3. Bookkeeping' /\ DecisionSafe'
  BY <1>2 DEF Inv, Bookkeeping, DecisionSafe, Alive, Running, stopVars
<1>4. OneRuntime' /\ IdleMeansReleased' /\ GateOnlyWhenServing'
  BY <1>2 DEF Inv, OneRuntime, IdleMeansReleased, GateOnlyWhenServing, Alive
<1>5. StopsAccountedFor'
  BY <1>2 DEF Inv, StopsAccountedFor, Alive, stopVars
<1>6. NoOrphanRequest'
  <2>1. CASE Admit(r)
    BY <1>2, <2>1 DEF Admit, Inv, GateOnlyWhenServing, NoOrphanRequest, Active, Admitting,
                      TypeOK, GateType
  <2>2. CASE Release(r)
    BY <1>2, <2>2 DEF Release, Inv, NoOrphanRequest, Active, TypeOK, GateType
  <2> QED BY <1>1, <2>1, <2>2
<1> QED BY <1>3, <1>4, <1>5, <1>6 DEF Safe


(* Processes and goroutines, which need no lock.                           *)
LEMMA ConcurrentSafe ==
    ASSUME Inv, NEW i \in Instances, ProcExit(i) \/ LoadGoroutine(i) \/ StopGoroutine(i)
    PROVE  Safe'
<1>1. UNCHANGED <<pc, st, inst, decision, zombie, zombieStopping, gateVars>>
  BY DEF ProcExit, LoadGoroutine, LoadReady, LoadError, PostLoad, StopGoroutine, StopSucceeds,
         StopFails, OsUnchanged, ctl, zombieVars
<1>2. DecisionSafe'
  BY <1>1 DEF Inv, DecisionSafe
<1>3. GateOnlyWhenServing' /\ NoOrphanRequest'
  BY <1>1 DEF Inv, GateOnlyWhenServing, NoOrphanRequest, Active, gateVars
<1>4. \A j \in Instances : proc'[j] # "gone" => proc[j] # "gone"
  BY DEF ProcExit, LoadGoroutine, LoadReady, LoadError, PostLoad, StopGoroutine, StopSucceeds,
         StopFails, Inv, TypeOK, ProcType
<1>5. OneRuntime' /\ IdleMeansReleased'
  BY <1>1, <1>4 DEF Inv, OneRuntime, IdleMeansReleased, Alive
<1>6. CASE LoadGoroutine(i)
  <2>1. UNCHANGED <<proc, stopVars>>
    BY <1>6 DEF LoadGoroutine, LoadReady, LoadError, PostLoad
  <2> QED BY <1>1, <1>2, <2>1, Frame DEF Alive
<1>7. CASE ProcExit(i)
  <2>1. stopCh' = stopCh /\ stopJob' = stopJob /\ \A j : j # i => proc'[j] = proc[j]
    BY <1>7 DEF ProcExit, stopVars
  <2>2. proc[i] = "up" /\ proc' = [proc EXCEPT ![i] = "exited"]
    BY <1>7 DEF ProcExit
  <2>3. Bookkeeping'
    BY <1>1, <2>1, <2>2 DEF Inv, Bookkeeping, Running, Alive
  <2>4. StopsAccountedFor'
    BY <1>1, <2>1 DEF Inv, StopsAccountedFor, Alive
  <2> QED BY <1>2, <1>3, <1>5, <2>3, <2>4 DEF Safe
<1>8. CASE StopGoroutine(i)
  <2>1. PICK err \in BOOLEAN : PostStop(i, err) /\ (err \/ proc' = [proc EXCEPT ![i] = "gone"])
    BY <1>8 DEF StopGoroutine, StopSucceeds, StopFails
  <2>2. Alive /\ stopJob[i] \in {"stop", "cleanup"}
    BY <1>8 DEF StopGoroutine, StopSucceeds, StopFails, Inv, TypeOK, ProcType
  <2>3. /\ stopCh = <<>>
        /\ stopJob[i] = "stop" => i = inst /\ st = "PREEMPTING"
        /\ stopJob[i] = "cleanup" => i = zombie /\ zombieStopping
    BY <2>2 DEF Inv, StopsAccountedFor
  <2>4. \A j \in Instances \ {i} : stopJob[j] = "none"
    <3>1. stopJob[i] = "stop" => zombie = NoInst /\ ~zombieStopping
      BY <2>2, <2>3, NoZombieWhileRunning DEF Running, RuntimeRunning
    <3>2. stopJob[i] = "cleanup" => st = "ERROR"
      BY <2>2, <2>3, ControllerConfig DEF Inv, Bookkeeping
    <3> QED BY <2>2, <2>3, <3>1, <3>2 DEF Inv, StopsAccountedFor, TypeOK, ProcType
  <2>5. /\ stopJob' = [stopJob EXCEPT ![i] = "none"]
        /\ stopCh' = <<[cleanup |-> stopJob[i] = "cleanup", err |-> err]>>
    BY <2>1, <2>3 DEF PostStop
  <2>6. \A j \in Instances : stopJob'[j] = "none"
    BY <2>4, <2>5 DEF Inv, TypeOK, ProcType
  <2>7. /\ stopCh' # <<>> /\ Len(stopCh') = 1
        /\ stopCh'[1].cleanup = (stopJob[i] = "cleanup") /\ stopCh'[1].err = err
    BY <2>5
  <2>8. Bookkeeping'
    <3>1. Running' = Running /\ Alive' = Alive
      BY <1>1 DEF Running, Alive
    <3>2. ~err => proc'[i] = "gone"
      BY <2>1 DEF Inv, TypeOK, ProcType
    <3>3. (IF stopJob[i] = "cleanup" THEN zombie ELSE inst) = i
      BY <2>2, <2>3
    <3> QED BY <1>1, <2>7, <3>1, <3>2, <3>3 DEF Inv, Bookkeeping
  <2>9. StopsAccountedFor'
    <3>1. st = "PREEMPTING" => stopJob[i] = "stop"
      BY <2>2, <2>3, <2>4 DEF Inv, StopsAccountedFor, Bookkeeping
    <3>2. zombieStopping => stopJob[i] = "cleanup" /\ zombie # NoInst
      BY <2>2, <2>3, <2>4 DEF Inv, StopsAccountedFor, Bookkeeping
    <3>3. Len(stopCh') <= 1
      BY <2>7
    <3> QED BY <1>1, <2>2, <2>3, <2>6, <2>7, <3>1, <3>2, <3>3 DEF StopsAccountedFor
  <2> QED BY <1>2, <1>3, <1>5, <2>8, <2>9 DEF Safe
<1> QED BY <1>6, <1>7, <1>8

-----------------------------------------------------------------------------
(* Every action preserves the invariant.                                   *)
LEMMA NextSafe == Inv /\ [Next]_vars => Inv'
<1> SUFFICES ASSUME Inv, [Next]_vars PROVE Inv'
  OBVIOUS
<1>1. TypeOK'
  BY NextType DEF Inv
<1>2. Safe'
  <2>1. CASE Step
    BY <2>1, LoadResultSafe, StopResultSafe, ReapSafe, DecideSafe, ActIdleSafe, ActRunningSafe
    DEF Step
  <2>2. CASE Api
    BY <2>2, ApiSafe
  <2>3. CASE Proxy
    BY <2>3, ProxySafe
  <2>4. CASE \E i \in Instances : ProcExit(i) \/ LoadGoroutine(i) \/ StopGoroutine(i)
    BY <2>4, ConcurrentSafe
  <2>5. CASE Tick \/ UNCHANGED vars
    <3>1. UNCHANGED <<pc, st, inst, decision, zombie, zombieStopping, gateVars, proc, stopVars>>
      BY <2>5 DEF Tick, vars, ctl, zombieVars
    <3>2. DecisionSafe'
      BY <3>1 DEF Inv, DecisionSafe
    <3> QED BY <3>1, <3>2, Frame DEF Alive
  <2> QED BY <2>1, <2>2, <2>3, <2>4, <2>5 DEF Next, Work
<1> QED BY <1>1, <1>2 DEF Inv, Safe

(* The inductive invariant holds.                                          *)
THEOREM Invariant == Spec => []Inv
  BY InitSafe, NextSafe, PTL DEF Spec

(* For any number of instances and requests, any configuration, any        *)
(* observations and any faults, two runtimes never hold the GPU at once,   *)
(* and none runs that the controller does not know of: startLoad, onCrash, *)
(* onStopped and retryZombie never lose track of a process tree.           *)
THEOREM AtMostOneRuntime == Spec => []OneRuntime
<1>1. Inv => OneRuntime
  BY DEF Inv
<1> QED BY <1>1, Invariant, PTL

(* An idle state other than Error means the GPU is free: no order of       *)
(* crashes, failed kills and late results makes the controller report it   *)
(* released while a tree is left.                                          *)
THEOREM ReleasedWhenIdle == Spec => []IdleMeansReleased
<1>1. Inv => IdleMeansReleased
  BY DEF Inv
<1> QED BY <1>1, Invariant, PTL

(* Admission is open only towards the runtime being served, although        *)
(* handlers enter and leave the gate between any two steps of the          *)
(* controller.                                                             *)
THEOREM AdmissionSafe == Spec => []GateOnlyWhenServing
<1>1. Inv => GateOnlyWhenServing
  BY DEF Inv
<1> QED BY <1>1, Invariant, PTL

(* No request outlives its runtime uncut: whichever step takes the runtime  *)
(* away has cancelled every ticket that was still held (ForceCloseAll,     *)
(* beginStop).                                                             *)
THEOREM NoRequestOrphaned == Spec => []NoOrphanRequest
<1>1. Inv => NoOrphanRequest
  BY DEF Inv
<1> QED BY <1>1, Invariant, PTL

(* Each awaited stop is in flight exactly once, and its result is about    *)
(* the tree it is taken for.                                               *)
THEOREM StopsNeverMixed == Spec => [](StopsAccountedFor /\ Bookkeeping)
<1>1. Inv => StopsAccountedFor /\ Bookkeeping
  BY DEF Inv
<1> QED BY <1>1, Invariant, PTL


=============================================================================
