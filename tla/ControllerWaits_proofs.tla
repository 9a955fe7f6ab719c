------------------------ MODULE ControllerWaits_proofs ------------------------
(***************************************************************************)
(* What the controller's waits and commitments are worth, for every        *)
(* instance of the parameters: loads wait for all that went before, a      *)
(* power fact closes admission, a drain keeps its promise, suppression     *)
(* covers the preemptions that caused it, and a changed configuration      *)
(* reaches the runtime.  Each needs to know more than it says: what the    *)
(* decision being acted on was made from, and how the timers it was made   *)
(* from have moved since.                                                  *)
(***************************************************************************)
EXTENDS Controller_proofs, CooldownWatch

-----------------------------------------------------------------------------
(* Sets of preemptions.                                                    *)

(* There are n positions up to n.                                          *)
LEMMA Interval ==
    ASSUME NEW n \in Nat
    PROVE  IsFiniteSet(1..n) /\ Cardinality(1..n) = n
<1>1. 1 \in Int /\ n \in Int
  OBVIOUS
<1>2. IsFiniteSet(1..n) /\ Cardinality(1..n) = IF 1 > n THEN 0 ELSE n - 1 + 1
  BY <1>1, FS_Interval, Zenon
<1>3. (IF 1 > n THEN 0 ELSE n - 1 + 1) = n
  OBVIOUS
<1> QED BY <1>2, <1>3

(* Positions of a sequence of ages, and any set of them, are finite.       *)
LEMMA Positions ==
    ASSUME NEW q \in Seq(Nat), NEW S \in SUBSET DOMAIN q
    PROVE  /\ IsFiniteSet(S) /\ Cardinality(S) \in Nat
           /\ Cardinality(S) <= Len(q)
<1>1. DOMAIN q = 1..Len(q) /\ Len(q) \in Nat
  BY LenProperties
<1>2. IsFiniteSet(1..Len(q)) /\ Cardinality(1..Len(q)) = Len(q)
  BY <1>1, Interval
<1>3. IsFiniteSet(S) /\ Cardinality(S) <= Cardinality(1..Len(q))
  BY <1>1, <1>2, FS_Subset
<1> QED BY <1>2, <1>3, FS_CardinalityType

(* pruneTimes drops as many entries as have left the window, so no more    *)
(* are left than are in it, and it keeps the last.                         *)
LEMMA PrunedWindow ==
    ASSUME NEW q \in Seq(Nat)
    PROVE  /\ pruned(q) \in Seq(Nat)
           /\ Len(pruned(q)) = Cardinality(InWindow(q))
           /\ Len(pruned(q)) > 0 => pruned(q)[Len(pruned(q))] = q[Len(q)]
<1> DEFINE left == {k \in DOMAIN q : q[k] > Cfg.window}
           n == Cardinality(left)
<1>1. pruned(q) \in Seq(Nat)
  BY PrunedType
<1>2. /\ IsFiniteSet(left) /\ n \in Nat /\ n <= Len(q)
      /\ IsFiniteSet(InWindow(q)) /\ Cardinality(InWindow(q)) \in Nat
  BY Positions DEF InWindow
<1>3. n + Cardinality(InWindow(q)) = Len(q)
  <2>1. Cfg.window \in Nat
    BY PolicyConfig DEF CfgType
  <2>2. \A k \in DOMAIN q : q[k] \in Nat
    OBVIOUS
  <2>3. left \cup InWindow(q) = DOMAIN q /\ left \cap InWindow(q) = {}
    <3>1. \A k \in DOMAIN q : q[k] > Cfg.window <=> ~ (q[k] <= Cfg.window)
      BY <2>1, <2>2
    <3> QED BY <3>1, Zenon DEF InWindow
  <2>4. DOMAIN q = 1..Len(q) /\ Len(q) \in Nat
    BY LenProperties
  <2>5. Cardinality(DOMAIN q) = Len(q)
    BY <2>4, Interval
  <2>6. Cardinality(left \cup InWindow(q)) = n + Cardinality(InWindow(q))
                                             - Cardinality(left \cap InWindow(q))
    <3> HIDE DEF left
    <3> QED BY <1>2, FS_Union
  <2>7. Cardinality({}) = 0
    BY FS_EmptySet
  <2>8. /\ Cardinality(left \cup InWindow(q)) = Len(q)
        /\ Cardinality(left \cap InWindow(q)) = 0
    BY <2>3, <2>5, <2>7, Zenon
  <2> HIDE DEF left
  <2> QED BY <1>2, <2>4, <2>6, <2>8
<1>4. pruned(q) = SubSeq(q, n + 1, Len(q))
  BY DEF pruned
<1> HIDE DEF n, left
<1>5. Len(q) \in Nat /\ \A i \in (n + 1)..Len(q) : q[i] \in Nat
  BY <1>2, ElementOfSeq, LenProperties
<1>6. /\ Len(SubSeq(q, n + 1, Len(q))) = Len(q) - n
      /\ \A i \in 1..(Len(q) - n) : SubSeq(q, n + 1, Len(q))[i] = q[n + i]
  <2> DEFINE m == n + 1
             l == Len(q)
  <2>1. m \in Int /\ l \in Int /\ \A i \in m..l : q[i] \in Nat
    BY <1>2, <1>5
  <2>2. m = n + 1 /\ l = Len(q)
    OBVIOUS
  <2> HIDE DEF m, l
  <2>3. /\ Len(SubSeq(q, m, l)) = IF m <= l THEN l - m + 1 ELSE 0
        /\ \A i \in 1..l - m + 1 : SubSeq(q, m, l)[i] = q[m + i - 1]
    BY <2>1, SubSeqProperties
  <2> QED BY <1>2, <1>5, <2>2, <2>3
<1>7. Len(pruned(q)) = Cardinality(InWindow(q))
  BY <1>2, <1>3, <1>4, <1>5, <1>6
<1>8. ASSUME Len(pruned(q)) > 0 PROVE pruned(q)[Len(pruned(q))] = q[Len(q)]
  <2> DEFINE l == Len(q) - n
  <2>1. l \in 1..l /\ n + l = Len(q) /\ Len(pruned(q)) = l
    BY <1>2, <1>4, <1>5, <1>6, <1>8
  <2>2. pruned(q)[l] = q[n + l]
    BY <1>4, <1>6, <2>1
  <2> HIDE DEF l
  <2> QED BY <2>1, <2>2
<1> QED BY <1>1, <1>7, <1>8

(* Recording a preemption adds at most one to those in the window.         *)
LEMMA RecordWindow ==
    ASSUME NEW q \in Seq(Nat)
    PROVE  /\ RecordPreemption(q) \in Seq(Nat)
           /\ Cardinality(InWindow(RecordPreemption(q))) <= 1 + Cardinality(InWindow(q))
<1> DEFINE all == Append(pruned(q), 0)
           r == RecordPreemption(q)
<1>1. r \in Seq(Nat)
  BY RecordType
<1>2. Cardinality(InWindow(r)) <= Len(r)
  BY <1>1, Positions DEF InWindow
<1>3. all \in Seq(Nat) /\ all # <<>> /\ Len(all) = 1 + Cardinality(InWindow(q))
  BY PrunedWindow, AppendProperties
<1>4. Len(Tail(all)) = Len(all) - 1
  BY <1>3, HeadTailProperties
<1>5. r = all \/ r = Tail(all)
  BY DEF RecordPreemption
<1>6. Cardinality(InWindow(r)) \in Nat /\ Cardinality(InWindow(q)) \in Nat
  BY <1>1, Positions DEF InWindow
<1> HIDE DEF r, all
<1>7. Len(r) <= 1 + Cardinality(InWindow(q))
  BY <1>3, <1>4, <1>5, <1>6
<1>8. Len(r) \in Nat
  BY <1>1, LenProperties
<1>9. Cardinality(InWindow(r)) <= 1 + Cardinality(InWindow(q))
  BY <1>2, <1>6, <1>7, <1>8
<1> QED BY <1>1, <1>9 DEF r

(* As time passes preemptions leave the window and none enters it, and the *)
(* last one that is left is one tick older.                                *)
LEMMA AgeWindow ==
    ASSUME NEW p \in Seq(Nat)
    PROVE  LET q == pruned([k \in DOMAIN p |-> p[k] + 1]) IN
           /\ q \in Seq(Nat)
           /\ Cardinality(InWindow(q)) <= Cardinality(InWindow(p))
           /\ Len(q) > 0 => Len(p) > 0 /\ q[Len(q)] = p[Len(p)] + 1
<1> DEFINE o == [k \in DOMAIN p |-> p[k] + 1]
           q == pruned(o)
<1>1. /\ DOMAIN p = 1..Len(p) /\ Len(p) \in Nat /\ \A k \in DOMAIN p : p[k] \in Nat
  BY ElementOfSeq, LenProperties
<1>2. o \in Seq(Nat) /\ Len(o) = Len(p)
  BY <1>1
<1>3. q \in Seq(Nat) /\ Len(q) = Cardinality(InWindow(o))
      /\ (Len(q) > 0 => q[Len(q)] = o[Len(o)])
  BY <1>2, PrunedWindow
<1>4. Cardinality(InWindow(q)) <= Len(q)
  BY <1>3, Positions DEF InWindow
<1>5. InWindow(o) \subseteq InWindow(p)
  <2>1. Cfg.window \in Nat
    BY PolicyConfig DEF CfgType
  <2> QED BY <1>1, <2>1 DEF InWindow
<1>6. Cardinality(InWindow(o)) <= Cardinality(InWindow(p))
  <2>1. IsFiniteSet(InWindow(p))
    BY Positions DEF InWindow
  <2> QED BY <1>5, <2>1, FS_Subset
<1>7. /\ Cardinality(InWindow(o)) \in Nat /\ Cardinality(InWindow(p)) \in Nat
      /\ Cardinality(InWindow(q)) \in Nat
  BY <1>2, <1>3, Positions DEF InWindow
<1>8. Cardinality(InWindow(q)) <= Cardinality(InWindow(p))
  <2> HIDE DEF q, o
  <2> QED BY <1>3, <1>4, <1>6, <1>7
<1>9. ASSUME Len(q) > 0 PROVE Len(p) > 0 /\ q[Len(q)] = p[Len(p)] + 1
  <2>1. Len(p) > 0
    <3>1. Cardinality(InWindow(o)) <= Len(o)
      BY <1>2, Positions DEF InWindow
    <3> HIDE DEF q, o
    <3> QED BY <1>1, <1>2, <1>3, <1>7, <1>9, <3>1
  <2>2. o[Len(p)] = p[Len(p)] + 1
    BY <1>1, <2>1
  <2> HIDE DEF q, o
  <2> QED BY <1>2, <1>3, <1>9, <2>1, <2>2
<1> QED BY <1>3, <1>8, <1>9

-----------------------------------------------------------------------------
(* Which steps touch what.                                                 *)

(* Requests, processes and goroutines leave the controller alone.          *)
Background == UNCHANGED <<ctl, zombieVars, yieldVars, outdated, modeVars, timers, power,
                          factVars, counters, gate>>

(* The controller's work: a step of its own, an API call, or something     *)
(* outside it.                                                             *)
LEMMA KindsOfWork == ASSUME Work PROVE Step \/ Api \/ Background
<1>1. ASSUME Proxy PROVE Background
  BY <1>1 DEF Proxy, Admit, Release, GateUnchanged, Background
<1>2. ASSUME NEW i \in Instances, ProcExit(i) \/ LoadGoroutine(i) \/ StopGoroutine(i)
      PROVE  Background
  BY <1>2 DEF ProcExit, LoadGoroutine, LoadReady, LoadError, PostLoad, StopGoroutine,
              StopSucceeds, StopFails, OsUnchanged, gateVars, Background
<1> QED BY <1>1, <1>2 DEF Work

(* A step is one of the controller's, an API call, the clock, or outside   *)
(* the controller.                                                         *)
LEMMA Kinds == ASSUME [Next]_vars PROVE Step \/ Api \/ Tick \/ Background
<1>1. UNCHANGED vars => Background
  BY DEF vars, gateVars, Background
<1> QED BY <1>1, KindsOfWork DEF Next

(* Where a step of the controller begins and ends: it acts on a decision   *)
(* it has just made.                                                       *)
LEMMA Phases ==
    ASSUME [Next]_vars
    PROVE  /\ pc' = "act" => Decide \/ Background
           /\ pc = "act" => Background \/
                 \/ ActHold \/ StartLoad \/ StartFails \/ ActWait \/ ActCancelLoad
                 \/ ActServe \/ ActPreempt \/ ActDrainIdle \/ ActDrain
                 \/ ActDrainDone \/ ActDrainPreempt \/ ActDrainWait \/ ActGraceExpired
<1> DEFINE Acts == \/ ActHold \/ StartLoad \/ StartFails \/ ActWait \/ ActCancelLoad
                   \/ ActServe \/ ActPreempt \/ ActDrainIdle \/ ActDrain
                   \/ ActDrainDone \/ ActDrainPreempt \/ ActDrainWait \/ ActGraceExpired
           Absorb == \/ NoLoadResult \/ LoadResultStale \/ LoadResultOK \/ LoadResultFailed
                     \/ OnStopped \/ OnStopFailed \/ OnZombieStopped
                     \/ NothingToReap \/ RetryZombie \/ OnCrash
<1>1. ASSUME Absorb PROVE pc # "act" /\ pc' # "act"
  BY <1>1 DEF NoLoadResult, LoadResultStale, LoadResultOK, LoadResultFailed, TakeLoadResult,
              OnStopped, OnStopFailed, OnZombieStopped, TakeStopResult, NothingToReap,
              RetryZombie, OnCrash, Absorbed
<1>2. ASSUME Acts PROVE pc' # "act"
  BY <1>2 DEF ActHold, StartLoad, StartFails, ActWait, ActCancelLoad, ActServe, ActPreempt,
              ActDrainIdle, ActDrain, ActDrainDone, ActDrainPreempt, ActDrainWait,
              ActGraceExpired, Acting
<1>3. ASSUME Api \/ Tick PROVE pc # "act" /\ pc' # "act"
  BY <1>3 DEF Api, SetMode, RequestManual, UpdateConfig, PrepareSuspend, Resumed, Shutdown,
              ShutdownReturns, ApiUnchanged, Tick, ctl
<1>4. Decide => pc # "act"
  BY DEF Decide
<1>5. Step => Absorb \/ Decide \/ Acts
  BY DEF Step
<1> HIDE DEF Absorb
<1>6. pc' = "act" => Decide \/ Background
  <2> HIDE DEF Acts
  <2> QED BY <1>1, <1>2, <1>3, <1>5, Kinds
<1>7. pc = "act" => Acts \/ Background
  <2> HIDE DEF Acts
  <2> QED BY <1>1, <1>3, <1>4, <1>5, Kinds
<1> QED BY <1>6, <1>7

(* From one set of timers to another nothing was forgotten: the recovery   *)
(* wait is no shorter, and suppression and preemptions are as they were.   *)
Keeps(t, u) ==
    /\ u.recoveryLeft >= t.recoveryLeft
    /\ u.preemptions = t.preemptions
    /\ u.sinceSuppressed = t.sinceSuppressed

(* The fields of the timers.                                               *)
LEMMA TimerFields ==
    ASSUME NEW t \in TimersType
    PROVE  /\ t.recoveryLeft \in Nat /\ t.sinceSuppressed \in Nat
           /\ t.preemptions \in Seq(Nat)
<1>1. t.recoveryLeft \in Nat /\ t.sinceSuppressed \in 0..AgeCap /\ t.preemptions \in Seq(Nat)
  BY DEF TimersType
<1> QED BY <1>1, ConstantTypes

(* Nothing is forgotten by doing nothing, or in two steps.                 *)
LEMMA KeepsSteps ==
    ASSUME NEW t \in TimersType
    PROVE  /\ Keeps(t, t)
           /\ \A u, v \in TimersType : Keeps(t, u) /\ Keeps(u, v) => Keeps(t, v)
<1>1. \A u \in TimersType : u.recoveryLeft \in Nat
  BY TimerFields
<1> QED BY <1>1 DEF Keeps

(* setRecovery only ever extends the wait, and covers the one it is given. *)
LEMMA SetRecoveryExtends ==
    ASSUME NEW t \in TimersType, NEW w \in Nat, NEW f \in BOOLEAN
    PROVE  /\ Keeps(t, setRecovery(t, w, f))
           /\ setRecovery(t, w, f).recoveryLeft >= w
<1> DEFINE u == [t EXCEPT !.recoveryLeft = w, !.recoveryFault = f]
<1>1. t.recoveryLeft \in Nat
  BY TimerFields
<1>2. CASE w > t.recoveryLeft
  <2>1. setRecovery(t, w, f) = u
    BY <1>2 DEF setRecovery
  <2>2. u.recoveryLeft = w /\ u.preemptions = t.preemptions /\ u.sinceSuppressed = t.sinceSuppressed
    BY DEF TimersType
  <2> HIDE DEF u
  <2> QED BY <1>1, <1>2, <2>1, <2>2 DEF Keeps
<1>3. CASE ~ (w > t.recoveryLeft)
  <2>1. setRecovery(t, w, f) = t
    BY <1>3 DEF setRecovery
  <2> QED BY <1>1, <1>3, <2>1 DEF Keeps
<1> QED BY <1>2, <1>3

(* Recording a competing workload leaves the waits alone.                  *)
LEMMA LastCompetingKeeps ==
    ASSUME NEW t \in TimersType, NEW d
    PROVE  Keeps(t, LastCompeting(t, d)) /\ LastCompeting(t, d).recoveryLeft = t.recoveryLeft
<1> DEFINE u == [t EXCEPT !.sinceCompeting = 0, !.lastCompetingRule = RuleKind(d.rule)]
<1>1. t.recoveryLeft \in Nat
  BY TimerFields
<1>2. /\ u.recoveryLeft = t.recoveryLeft /\ u.preemptions = t.preemptions
      /\ u.sinceSuppressed = t.sinceSuppressed
  BY DEF TimersType
<1>3. LastCompeting(t, d) \in {t, u}
  BY DEF LastCompeting
<1> HIDE DEF u
<1> QED BY <1>1, <1>2, <1>3 DEF Keeps

(* The timers a decision is made from, and those it leaves.                *)
LEMMA DecidedTimers ==
    ASSUME TypeOK, Decide
    PROVE  \E incident \in BOOLEAN, t \in TimersType : \E s :
              /\ Keeps(timers, t) /\ Keeps(t, timers') /\ timers'.recoveryLeft = t.recoveryLeft
              /\ IF incident
                 THEN /\ gpuResets' = Bump(gpuResets)
                      /\ t.recoveryLeft >= ResetBackoff[Bump(gpuResets)]
                 ELSE UNCHANGED <<gpuResets, sinceReset>>
              /\ s.timers = t /\ s.power = power' /\ s.mode = mode' /\ s.running = Running
              /\ decision'.action = Verdict(s).action
              /\ decision'.yield = YieldOf(Verdict(s), Profiles[ProfileOf(s)])
<1>1. PICK reset \in ResetReports, o \in Observations, problem \in SetupAnswers :
        DecideOn(reset, o, problem)
  BY DEF Decide
<1> DEFINE r == TimersAfterResets(reset)
           t == TimersAfterTelemetry(r, o.gpu)
           s == snapshot(o, PowerAfterResets(reset), t, problem)
           d == Verdict(s)
<1>2. timers \in TimersType /\ TRUE \in BOOLEAN
  BY DEF TypeOK, FactType
<1>3. ResetBackoff[Bump(gpuResets)] \in Nat /\ TelemetryBackoff[Bump(telemetryLosses)] \in Nat
  BY BumpType, WaitTypes DEF TypeOK, CounterType
<1>4. /\ r \in TimersType /\ Keeps(timers, r)
      /\ reset /\ ~Merged => r.recoveryLeft >= ResetBackoff[Bump(gpuResets)]
  <2>1. CASE reset /\ ~Merged
    BY <1>2, <1>3, <2>1, SetRecoveryType, SetRecoveryExtends DEF TimersAfterResets
  <2>2. CASE ~ (reset /\ ~Merged)
    <3>1. r = timers
      BY <2>2 DEF TimersAfterResets
    <3> HIDE DEF r
    <3> QED BY <1>2, <2>2, <3>1, KeepsSteps
  <2> QED BY <2>1, <2>2
<1> HIDE DEF r
<1>5. t \in TimersType /\ Keeps(r, t)
  <2>1. CASE Recovered(o.gpu)
    BY <1>2, <1>3, <1>4, <2>1, SetRecoveryType, SetRecoveryExtends DEF TimersAfterTelemetry
  <2>2. CASE ~Recovered(o.gpu)
    BY <1>4, <2>2, KeepsSteps DEF TimersAfterTelemetry
  <2> QED BY <2>1, <2>2
<1>6. /\ timers' = LastCompeting(t, d) /\ decision'.action = d.action
      /\ decision'.yield = YieldOf(d, Profiles[ProfileOf(s)])
      /\ power' = PowerAfterResets(reset) /\ mode' = s.mode
  BY <1>1 DEF DecideOn, r
<1>7. s.timers = t /\ s.running = Running /\ s.power = PowerAfterResets(reset)
  BY DEF snapshot
<1> HIDE DEF d, s, t
<1>8. Keeps(timers, t) /\ t.recoveryLeft >= r.recoveryLeft
  BY <1>2, <1>4, <1>5, KeepsSteps DEF Keeps
<1>9. reset /\ ~Merged => t.recoveryLeft >= ResetBackoff[Bump(gpuResets)]
  <2>1. t.recoveryLeft \in Nat /\ r.recoveryLeft \in Nat
    BY <1>4, <1>5, TimerFields
  <2> QED BY <1>3, <1>4, <1>8, <2>1
<1>10. Keeps(t, timers') /\ timers'.recoveryLeft = t.recoveryLeft
  BY <1>5, <1>6, LastCompetingKeeps
<1>11. PICK incident \in BOOLEAN : incident <=> reset /\ ~Merged
  OBVIOUS
<1>12. IF incident THEN gpuResets' = Bump(gpuResets) ELSE UNCHANGED <<gpuResets, sinceReset>>
  BY <1>1, <1>11 DEF DecideOn
<1>13. /\ s.power = power' /\ s.mode = mode' /\ decision'.action = Verdict(s).action
      /\ decision'.yield = YieldOf(Verdict(s), Profiles[ProfileOf(s)])
  BY <1>6, <1>7 DEF d
<1> QED BY <1>5, <1>7, <1>8, <1>9, <1>10, <1>11, <1>12, <1>13

(* A verified stop records the preemption its yield counts.                *)
LEMMA StopRecords ==
    ASSUME TypeOK, OnStopped
    PROVE  /\ timers'.recoveryLeft >= timers.recoveryLeft
           /\ timers'.preemptions = IF yield.counts THEN RecordPreemption(timers.preemptions)
                                    ELSE timers.preemptions
           /\ timers'.sinceSuppressed = IF yield.suppress THEN 0 ELSE timers.sinceSuppressed
<1> DEFINE c == IF yield.counts
                THEN [timers EXCEPT !.preemptions = RecordPreemption(@)] ELSE timers
<1>0. timers \in TimersType
  BY DEF TypeOK, FactType
<1>1. RecordPreemption(timers.preemptions) \in Seq(Nat) /\ yield.wait \in Nat
  BY <1>0, RecordType DEF TimersType, TypeOK, DrainType, YieldType
<1>2. /\ c \in TimersType /\ c.recoveryLeft = timers.recoveryLeft
      /\ timers.recoveryLeft \in Nat
      /\ c.sinceSuppressed = timers.sinceSuppressed
      /\ c.preemptions = IF yield.counts THEN RecordPreemption(timers.preemptions)
                         ELSE timers.preemptions
  BY <1>0, <1>1 DEF TimersType
<1>3. timers' = IF yield.suppress THEN [c EXCEPT !.sinceSuppressed = 0]
                ELSE IF yield.manual = "drain" THEN setRecovery(c, yield.wait, FALSE) ELSE c
  BY DEF OnStopped
<1> HIDE DEF c
<1>4. CASE yield.suppress
  <2> DEFINE u == [c EXCEPT !.sinceSuppressed = 0]
  <2>1. timers' = u
    BY <1>3, <1>4
  <2>2. u.recoveryLeft = c.recoveryLeft /\ u.preemptions = c.preemptions /\ u.sinceSuppressed = 0
    BY <1>2 DEF TimersType
  <2> HIDE DEF u
  <2> QED BY <1>2, <1>4, <2>1, <2>2
<1>5. CASE ~yield.suppress /\ yield.manual = "drain"
  BY <1>0, <1>1, <1>2, <1>3, <1>5, SetRecoveryExtends DEF Keeps
<1>6. CASE ~yield.suppress /\ yield.manual # "drain"
  BY <1>2, <1>3, <1>6
<1> QED BY <1>4, <1>5, <1>6

(* Only a verified stop and the clock change what is known of preemptions, *)
(* and only the clock shortens the recovery wait.                          *)
LEMMA TimersMove ==
    ASSUME Inv, [Next]_vars
    PROVE  \/ Tick
           \/ Keeps(timers, timers')
           \/ /\ OnStopped
              /\ timers'.recoveryLeft >= timers.recoveryLeft
              /\ timers'.preemptions = IF yield.counts THEN RecordPreemption(timers.preemptions)
                                       ELSE timers.preemptions
              /\ timers'.sinceSuppressed = IF yield.suppress THEN 0 ELSE timers.sinceSuppressed
<1>1. timers \in TimersType /\ TypeOK
  BY DEF Inv, TypeOK, FactType
<1>2. ASSUME UNCHANGED timers PROVE Keeps(timers, timers')
  BY <1>1, <1>2, KeepsSteps
<1>3. ASSUME backoff PROVE Keeps(timers, timers')
  <2>1. CrashBackoff[Bump(crashCount)] \in Nat /\ TRUE \in BOOLEAN
    BY <1>1, BumpType, WaitTypes DEF TypeOK, CounterType
  <2> QED BY <1>1, <1>3, <2>1, SetRecoveryExtends DEF backoff
<1>4. ASSUME Step PROVE Keeps(timers, timers') \/ OnStopped
  <2>1. CASE Decide
    <3>1. PICK t \in TimersType : Keeps(timers, t) /\ Keeps(t, timers')
      BY <1>1, <2>1, DecidedTimers, Zenon
    <3>2. timers' \in TimersType
      BY NextType DEF Inv, TypeOK, FactType
    <3> QED BY <1>1, <3>1, <3>2, KeepsSteps
  <2>2. CASE OnStopFailed
    <3>1. DeviceLostCooldown \in Nat /\ TRUE \in BOOLEAN
      BY ConstantTypes
    <3> QED BY <1>1, <2>2, <3>1, SetRecoveryExtends DEF OnStopFailed
  <2>3. CASE LoadResultFailed \/ OnCrash \/ StartFails
    BY <1>3, <2>3 DEF LoadResultFailed, OnCrash, StartFails
  <2>4. CASE \/ NoLoadResult \/ LoadResultStale \/ LoadResultOK \/ OnZombieStopped
             \/ NothingToReap \/ RetryZombie
             \/ ActHold \/ StartLoad \/ ActWait \/ ActCancelLoad
             \/ ActServe \/ ActPreempt \/ ActDrainIdle \/ ActDrain
             \/ ActDrainDone \/ ActDrainPreempt \/ ActDrainWait \/ ActGraceExpired
    <3>1. UNCHANGED timers
      BY <2>4 DEF NoLoadResult, LoadResultStale, LoadResultOK, OnZombieStopped, NothingToReap,
                  RetryZombie, ActHold, StartLoad, ActWait, ActCancelLoad, ActServe, ActPreempt,
                  ActDrainIdle, ActDrain, ActDrainDone, ActDrainPreempt, ActDrainWait,
                  ActGraceExpired
    <3> QED BY <1>2, <3>1
  <2> QED BY <1>4, <2>1, <2>2, <2>3, <2>4 DEF Step
<1>5. ASSUME Api PROVE Keeps(timers, timers')
  <2>1. CASE Resumed
    <3>1. Resume \in Nat /\ FALSE \in BOOLEAN
      BY ConstantTypes
    <3> QED BY <1>1, <2>1, <3>1, SetRecoveryExtends DEF Resumed
  <2>2. CASE ~Resumed
    BY <1>2, <1>5, <2>2 DEF Api, SetMode, RequestManual, UpdateConfig, PrepareSuspend, Shutdown,
                            ShutdownReturns
  <2> QED BY <2>1, <2>2
<1>6. Background => UNCHANGED timers
  BY DEF Background
<1> QED BY <1>1, <1>2, <1>4, <1>5, <1>6, Kinds, StopRecords

-----------------------------------------------------------------------------
(* What the decision being acted on was made from.                         *)

(* The overrides of step() never soften a yield, never turn a hold into a  *)
(* load, and leave a preemption that counts as the evaluator judged it.    *)
LEMMA VerdictFollows ==
    ASSUME NEW s
    PROVE  /\ Running /\ Yields(Evaluate(s).action) => Verdict(s).action = Evaluate(s).action
           /\ ~Running /\ Verdict(s).action = "run" => Evaluate(s).action = "run" /\ ~LoadBlocked
           /\ Verdict(s).counts /\ wouldSuppress(s) => Verdict(s).suppress
<1> DEFINE e == Evaluate(s)
           m == applyManual(e, Profiles[ProfileOf(s)])
           z == applyZombie(m)
           b == applyLoadBlocked(z)
<1>1. Verdict(s) = b
  BY DEF Verdict
<1>2. e.counts /\ wouldSuppress(s) => e.suppress
  BY DEF Evaluate, DecisionOf
<1>3. PICK R, T, C, N : e \in Shape(R, T, C, N)
  BY EvaluateType
<1> HIDE DEF e
<1>4. PICK R2, T2, C2, N2 : m \in Shape(R2, T2, C2, N2)
  <2>1. m \in Shape(R \cup {"manual.reload", "manual.drain"}, T \cup {2}, C \cup {FALSE}, N)
    BY <1>3, ProfileType_ DEF applyManual, Shape, ProfileType, Action, Idle
  <2> QED BY <2>1
<1>5. /\ ~Running \/ Yields(e.action) => m = e
      /\ m.counts => m = e
  <2>1. ~ManualApplies(e) => m = e
    BY DEF applyManual
  <2>2. ManualApplies(e) => m.counts = FALSE
    BY <1>3 DEF applyManual, Shape
  <2>3. ManualApplies(e) => Running /\ ~Yields(e.action)
    BY DEF ManualApplies
  <2> QED BY <2>1, <2>2, <2>3
<1> HIDE DEF m
<1>6. PICK R3, T3, C3, N3 : z \in Shape(R3, T3, C3, N3)
  <2>1. z \in Shape(R2 \cup {"safety.runtime_unverified"}, T2 \cup {1}, C2, N2)
    BY <1>4 DEF applyZombie, Shape, Action, Idle
  <2> QED BY <2>1
<1>7. /\ Running => z = m
      /\ z.action = "run" => m.action = "run"
      /\ z.counts = m.counts /\ z.suppress = m.suppress
  BY <1>4 DEF applyZombie, Shape
<1> HIDE DEF z
<1>8. /\ Running => b = z
      /\ ~Running /\ b.action = "run" => ~LoadBlocked /\ z.action = "run"
      /\ b.counts => b = z
  BY <1>6 DEF applyLoadBlocked, Shape
<1> HIDE DEF b
<1>9. ASSUME b.counts, wouldSuppress(s) PROVE b.suppress
  BY <1>2, <1>5, <1>7, <1>8, <1>9
<1>10. ASSUME Running, Yields(e.action) PROVE b.action = e.action
  BY <1>5, <1>7, <1>8, <1>10
<1>11. ASSUME ~Running, b.action = "run" PROVE e.action = "run" /\ ~LoadBlocked
  BY <1>5, <1>7, <1>8, <1>11
<1> QED BY <1>1, <1>9, <1>10, <1>11 DEF e

(* A fact that forbids any runtime.                                        *)
Unsafe == power.shuttingDown \/ power.suspending \/ power.deviceLost

(* The decision being acted on takes an unsafe fact into account.          *)
PowerObeyed ==
    pc = "act" /\ Unsafe =>
        IF Running THEN decision.action = "preempt" ELSE decision.action # "run"

(* A decision to load was made with every wait over.                       *)
RunJustified ==
    pc = "act" /\ ~Running /\ decision.action = "run" =>
        /\ timers.recoveryLeft = 0
        /\ timers.sinceSuppressed >= Cfg.suppressFor
        /\ mode # "pause"
        /\ ~LoadBlocked

(* The decision being acted on was made of the facts as they still are: no *)
(* fact changes between decide and act.                                    *)
Informed == PowerObeyed /\ RunJustified

(* Deciding.                                                               *)
LEMMA DecideInformed == ASSUME Inv, Decide PROVE Informed'
<1>0. PICK t \in TimersType : \E s :
        /\ Keeps(t, timers') /\ timers'.recoveryLeft = t.recoveryLeft
        /\ s.timers = t /\ s.power = power' /\ s.mode = mode' /\ s.running = Running
        /\ decision'.action = Verdict(s).action
  BY DecidedTimers DEF Inv
<1>1. PICK s :
        /\ Keeps(t, timers') /\ timers'.recoveryLeft = t.recoveryLeft
        /\ s.timers = t /\ s.power = power' /\ s.mode = mode' /\ s.running = Running
        /\ decision'.action = Verdict(s).action
  BY <1>0
<1>2. Running' = Running
  BY DEF Decide, Running
<1>3. PowerObeyed'
  <2>1. ASSUME Unsafe' PROVE Evaluate(s).action = IF Running THEN "preempt" ELSE "hold"
    <3>1. s.power.shuttingDown \/ s.power.suspending \/ s.power.deviceLost
      BY <1>1, <2>1 DEF Unsafe
    <3> QED BY <1>1, <3>1, UnsafePreempts
  <2>2. ASSUME Unsafe', Running PROVE decision'.action = "preempt"
    BY <1>1, <2>1, <2>2, VerdictFollows DEF Yields
  <2>3. ASSUME Unsafe', ~Running PROVE decision'.action # "run"
    BY <1>1, <2>1, <2>3, VerdictFollows
  <2> QED BY <1>2, <2>2, <2>3 DEF PowerObeyed
<1>4. RunJustified'
  <2> SUFFICES ASSUME ~Running, decision'.action = "run"
               PROVE  /\ timers'.recoveryLeft = 0
                      /\ timers'.sinceSuppressed >= Cfg.suppressFor
                      /\ mode' # "pause"
                      /\ ~LoadBlocked
    BY <1>2 DEF RunJustified
  <2>1. Evaluate(s).action = "run" /\ ~LoadBlocked
    BY <1>1, VerdictFollows
  <2>2. Matches(s) = {} /\ BlockingGates(s) = {}
    BY <1>1, <2>1, RunMeansClear
  <2>3. ~ (s.timers.recoveryLeft > 0) /\ ~ (SuppressLeft(s) > 0)
    BY <2>2, GatesOpen
  <2>4. t.recoveryLeft \in Nat /\ t.sinceSuppressed \in Nat /\ Cfg.suppressFor \in Nat
    BY TimerFields, PolicyConfig DEF CfgType
  <2>5. t.recoveryLeft = 0 /\ t.sinceSuppressed >= Cfg.suppressFor
    BY <1>1, <2>3, <2>4 DEF SuppressLeft
  <2>6. ~ Applies("manual.pause", s)
    BY <2>2, NothingMatches
  <2>7. mode' # "pause"
    BY <1>1, <2>6 DEF Applies
  <2> QED BY <1>1, <2>1, <2>5, <2>7 DEF Keeps
<1> QED BY <1>3, <1>4 DEF Informed

(* Nothing comes between the decision and the act.                         *)
LEMMA InformedHolds == Inv /\ Informed /\ [Next]_vars => Informed'
<1> SUFFICES ASSUME Inv, Informed, [Next]_vars PROVE Informed'
  OBVIOUS
<1>1. CASE pc' # "act"
  BY <1>1 DEF Informed, PowerObeyed, RunJustified
<1>2. CASE Decide
  BY <1>2, DecideInformed
<1>3. CASE Background
  BY <1>3 DEF Background, ctl, modeVars, Informed, PowerObeyed, RunJustified, Unsafe, Running
<1> QED BY <1>1, <1>2, <1>3, Phases

(* Nothing has been decided at first.                                      *)
LEMMA InformedAtFirst == Init => Informed
  BY DEF Init, Informed, PowerObeyed, RunJustified

(* The decision being acted on always is of the present.                   *)
THEOREM DecisionsAreCurrent == Spec => []Informed
  BY Invariant, InformedAtFirst, InformedHolds, PTL DEF Spec

-----------------------------------------------------------------------------
(* Power facts close admission.                                            *)

(* Stopping leaves admission closed.                                       *)
LEMMA StopCloses ==
    ASSUME NEW y, beginStop(y), st \in {"LOADING", "READY", "BUSY", "DRAINING"}
    PROVE  gate' = NoInst /\ st' = "PREEMPTING"
  BY Transitions DEF beginStop, CloseGate

(* While shutting down, suspending or without the device a step that has   *)
(* seen the fact ends with admission closed and the runtime stopped or     *)
(* stopping, whatever state it found and whatever its decision met.        *)
THEOREM PowerClosesGate == Spec => SafetyClosesGate
<1>1. ASSUME Inv, Informed, [Next]_vars, pc = "act", pc' = "idle", Unsafe
      PROVE  gate' = NoInst /\ st' \in Idle \cup {"PREEMPTING"}
  <2>1. /\ Running => decision.action = "preempt"
        /\ ~Running => decision.action # "run"
    BY <1>1 DEF Informed, PowerObeyed
  <2>2. ~Admitting(st) => gate = NoInst
    BY <1>1 DEF Inv, GateOnlyWhenServing
  <2>3. ~Background
    BY <1>1 DEF Background, ctl
  <2>4. CASE ActHold
    <3>1. st' \in Idle
      <4>1. CanTransition(st, decision.idle) => decision.idle \in Idle
        BY <1>1, <2>4 DEF ActHold, Acting, CanTransition, Idle, Inv, TypeOK, CtlType, Decisions
      <4> QED BY <2>4, <4>1 DEF ActHold, Acting, Transition
    <3>2. gate' = gate /\ ~Admitting(st)
      BY <2>4 DEF ActHold, Acting, gateVars, Admitting, Idle
    <3> QED BY <2>2, <3>1, <3>2
  <2>5. CASE StartLoad \/ StartFails
    <3>1. ~Running /\ decision.action = "run"
      BY <2>5 DEF StartLoad, StartFails, Acting, Running, RuntimeRunning, Idle
    <3> QED BY <2>1, <3>1
  <2>6. CASE ActWait
    <3>1. st = "PREEMPTING"
      BY <2>1, <2>6 DEF ActWait, Acting, Running, RuntimeRunning, Yields
    <3> QED BY <2>2, <2>6, <3>1 DEF ActWait, gateVars, Admitting
  <2>7. CASE ActServe \/ ActDrain \/ ActDrainWait
    <3>1. Running /\ decision.action # "preempt"
      BY <2>7 DEF ActServe, ActDrain, ActDrainWait, Acting, Running, RuntimeRunning, Yields
    <3> QED BY <2>1, <3>1
  <2>8. CASE ActCancelLoad \/ ActPreempt \/ ActDrainIdle \/ ActDrainDone \/ ActDrainPreempt
             \/ ActGraceExpired
    <3>1. \E y : beginStop(y)
      BY <2>8 DEF ActCancelLoad, ActPreempt, ActDrainIdle, ActDrainDone, ActDrainPreempt,
                  ActGraceExpired
    <3>2. st \in {"LOADING", "READY", "BUSY", "DRAINING"}
      BY <2>8 DEF ActCancelLoad, ActPreempt, ActDrainIdle, ActDrainDone, ActDrainPreempt,
                  ActGraceExpired, Acting
    <3> QED BY <3>1, <3>2, StopCloses
  <2> QED BY <1>1, <2>3, <2>4, <2>5, <2>6, <2>7, <2>8, Phases
<1>2. Inv /\ Informed /\ [Next]_vars
        => [pc = "act" /\ pc' = "idle"
              /\ (power.shuttingDown \/ power.suspending \/ power.deviceLost)
              => gate' = NoInst /\ st' \in Idle \cup {"PREEMPTING"}]_vars
  BY <1>1 DEF Unsafe
<1> QED BY <1>2, Invariant, DecisionsAreCurrent, PTL DEF Spec, SafetyClosesGate

-----------------------------------------------------------------------------
(* Loads wait.                                                             *)

(* The wait between cleanups belongs to a zombie that is not being cleaned *)
(* up.                                                                     *)
CleanupWaits == zombie = NoInst \/ zombieStopping => zombieWait = 0

(* What is left of the recovery wait covers what is left of the wait for   *)
(* the last driver reset.                                                  *)
ResetCovered ==
    gpuResets > 0 => timers.recoveryLeft + sinceReset >= ResetBackoff[gpuResets]

(* A zombie that is kept waits again, one that is gone leaves no wait.     *)
LEMMA CleanupHolds == Inv /\ CleanupWaits /\ [Next]_vars => CleanupWaits'
<1> SUFFICES ASSUME Inv, CleanupWaits, [Next]_vars PROVE CleanupWaits'
  OBVIOUS
<1>1. CASE LoadResultFailed \/ OnCrash
  BY <1>1 DEF LoadResultFailed, OnCrash, MakeZombie, CleanupWaits
<1>2. CASE OnStopFailed
  <2>1. st = "PREEMPTING" /\ Alive /\ Running
    <3>1. Alive /\ stopCh # <<>> /\ ~Head(stopCh).cleanup
      BY <1>2 DEF OnStopFailed, TakeStopResult, Alive
    <3> QED BY <3>1, LastResult DEF Inv, StopsAccountedFor, Running, RuntimeRunning
  <2>2. inst \in Instances /\ ~zombieStopping
    BY <2>1, NoZombieWhileRunning
  <2> QED BY <1>2, <2>2, ControllerConfig DEF OnStopFailed, CleanupWaits
<1>3. CASE OnZombieStopped
  <2>1. zombieStopping
    <3>1. Alive /\ stopCh # <<>> /\ Head(stopCh).cleanup
      BY <1>3 DEF OnZombieStopped, TakeStopResult, Alive
    <3> QED BY <3>1, LastResult DEF Inv, StopsAccountedFor
  <2> QED BY <1>3, <2>1 DEF OnZombieStopped, CleanupWaits
<1>4. CASE RetryZombie
  BY <1>4 DEF RetryZombie, RetryDue, CleanupWaits
<1>5. CASE Tick
  BY <1>5 DEF Tick, Sooner, CleanupWaits
<1>6. ASSUME UNCHANGED zombieVars PROVE CleanupWaits'
  BY <1>6 DEF zombieVars, CleanupWaits
<1>7. CASE Step
  <2>1. CASE \/ NoLoadResult \/ LoadResultStale \/ LoadResultOK \/ OnStopped \/ NothingToReap
             \/ Decide \/ ActHold \/ StartLoad \/ StartFails \/ ActWait \/ ActCancelLoad
             \/ ActServe \/ ActPreempt \/ ActDrainIdle \/ ActDrain
             \/ ActDrainDone \/ ActDrainPreempt \/ ActDrainWait \/ ActGraceExpired
    BY <1>6, <2>1
    DEF NoLoadResult, LoadResultStale, LoadResultOK, OnStopped, NothingToReap, Decide, ActHold,
        StartLoad, StartFails, ActWait, ActCancelLoad, ActServe, ActPreempt, ActDrainIdle, ActDrain,
        ActDrainDone, ActDrainPreempt, ActDrainWait, ActGraceExpired, ActUnchanged
  <2> QED BY <1>1, <1>2, <1>3, <1>4, <1>7, <2>1 DEF Step
<1>8. CASE Api
  BY <1>6, <1>8 DEF Api, SetMode, RequestManual, UpdateConfig, PrepareSuspend, Resumed, Shutdown,
                    ShutdownReturns, ApiUnchanged
<1>9. CASE Background
  BY <1>6, <1>9 DEF Background
<1> QED BY <1>5, <1>7, <1>8, <1>9, Kinds

(* Which steps count or forget driver resets.                              *)
LEMMA ResetsMove ==
    ASSUME [Next]_vars
    PROVE  Decide \/ Tick \/ UNCHANGED <<gpuResets, sinceReset>> \/ gpuResets' = 0
<1>1. ASSUME NEW s, checkCrashReset(s)
      PROVE  UNCHANGED <<gpuResets, sinceReset>> \/ gpuResets' = 0
  BY <1>1 DEF checkCrashReset
<1>2. ASSUME \/ ActCancelLoad \/ ActServe \/ ActPreempt \/ ActDrainIdle \/ ActDrain
             \/ ActDrainDone \/ ActDrainPreempt \/ ActGraceExpired
      PROVE  UNCHANGED <<gpuResets, sinceReset>> \/ gpuResets' = 0
  BY <1>1, <1>2 DEF ActCancelLoad, ActServe, ActPreempt, ActDrainIdle, ActDrain, ActDrainDone,
                    ActDrainPreempt, ActGraceExpired, beginStop
<1>3. ASSUME \/ NoLoadResult \/ LoadResultStale \/ LoadResultOK \/ LoadResultFailed
             \/ OnStopped \/ OnStopFailed \/ OnZombieStopped
             \/ NothingToReap \/ RetryZombie \/ OnCrash
             \/ ActHold \/ StartLoad \/ StartFails \/ ActWait \/ ActDrainWait
      PROVE  UNCHANGED <<gpuResets, sinceReset>>
  BY <1>3 DEF NoLoadResult, LoadResultStale, LoadResultOK, LoadResultFailed, OnStopped,
              OnStopFailed, OnZombieStopped, NothingToReap, RetryZombie, OnCrash, ActHold,
              StartLoad, StartFails, ActWait, ActDrainWait, counters
<1>4. ASSUME Api \/ Background PROVE UNCHANGED <<gpuResets, sinceReset>>
  BY <1>4 DEF Api, SetMode, RequestManual, UpdateConfig, PrepareSuspend, Resumed, Shutdown,
              ShutdownReturns, ApiUnchanged, Background, counters
<1>5. Step => \/ Decide
              \/ \/ ActCancelLoad \/ ActServe \/ ActPreempt \/ ActDrainIdle \/ ActDrain
                 \/ ActDrainDone \/ ActDrainPreempt \/ ActGraceExpired
              \/ \/ NoLoadResult \/ LoadResultStale \/ LoadResultOK \/ LoadResultFailed
                 \/ OnStopped \/ OnStopFailed \/ OnZombieStopped
                 \/ NothingToReap \/ RetryZombie \/ OnCrash
                 \/ ActHold \/ StartLoad \/ StartFails \/ ActWait \/ ActDrainWait
  BY DEF Step
<1> QED BY <1>2, <1>3, <1>4, <1>5, Kinds

(* Other waits only extend the one for the resets.                         *)
LEMMA ResetHolds == Inv /\ ResetCovered /\ [Next]_vars => ResetCovered'
<1> SUFFICES ASSUME Inv, ResetCovered, [Next]_vars PROVE ResetCovered'
  OBVIOUS
<1>1. /\ timers \in TimersType /\ timers.recoveryLeft \in Nat
      /\ sinceReset \in 0..AgeCap /\ sinceReset \in Nat /\ AgeCap \in Nat
      /\ gpuResets \in 0..CountCap /\ CountCap \in Nat
      /\ gpuResets \in Nat
  BY TimerFields, ConstantTypes DEF Inv, TypeOK, FactType, CounterType
<1>2. /\ timers' \in TimersType /\ timers'.recoveryLeft \in Nat
      /\ sinceReset' \in Nat /\ gpuResets' \in 0..CountCap
  <2>1. TypeOK'
    BY NextType DEF Inv
  <2> QED BY <2>1, TimerFields, ConstantTypes DEF TypeOK, FactType, CounterType
<1>3. \A n \in 1..CountCap : ResetBackoff[n] \in Nat /\ ResetBackoff[n] <= AgeCap
  BY WaitTypes, ControllerConfig
<1>4. ASSUME timers'.recoveryLeft >= timers.recoveryLeft, UNCHANGED <<gpuResets, sinceReset>>
      PROVE  ResetCovered'
  <2>1. gpuResets > 0 => gpuResets \in 1..CountCap
    BY <1>1
  <2>2. gpuResets > 0 => ResetBackoff[gpuResets] \in Nat
    BY <1>3, <2>1
  <2> QED BY <1>1, <1>2, <1>4, <2>2 DEF ResetCovered
<1>5. CASE gpuResets' = 0
  BY <1>5 DEF ResetCovered
<1>6. CASE Decide
  <2>1. PICK incident \in BOOLEAN, t \in TimersType :
          /\ Keeps(timers, t) /\ timers'.recoveryLeft = t.recoveryLeft
          /\ IF incident
             THEN /\ gpuResets' = Bump(gpuResets)
                  /\ t.recoveryLeft >= ResetBackoff[Bump(gpuResets)]
             ELSE UNCHANGED <<gpuResets, sinceReset>>
    BY <1>6, DecidedTimers DEF Inv
  <2>2. CASE incident
    <3>1. Bump(gpuResets) \in 1..CountCap
      BY <1>1, BumpType
    <3>2. ResetBackoff[gpuResets'] \in Nat
      BY <1>3, <2>1, <2>2, <3>1
    <3> QED BY <1>2, <2>1, <2>2, <3>2 DEF ResetCovered
  <2>3. CASE ~incident
    BY <1>4, <2>1, <2>3 DEF Keeps
  <2> QED BY <2>2, <2>3
<1>7. CASE Tick
  <2>1. timers'.recoveryLeft = Sooner(timers.recoveryLeft)
    BY <1>1, <1>7 DEF Tick, TimersType
  <2>2. sinceReset' = Older(sinceReset) /\ gpuResets' = gpuResets
    BY <1>7 DEF Tick
  <2>3. ASSUME gpuResets > 0
        PROVE  timers'.recoveryLeft + sinceReset' >= ResetBackoff[gpuResets]
    <3> DEFINE w == ResetBackoff[gpuResets]
               l == timers.recoveryLeft
    <3>1. gpuResets \in 1..CountCap
      BY <1>1, <2>3
    <3>2. w \in Nat /\ w <= AgeCap /\ l + sinceReset >= w
      BY <1>3, <2>3, <3>1 DEF ResetCovered
    <3>3. /\ Sooner(l) \in Nat /\ Sooner(l) + 1 >= l
      BY <1>1 DEF Sooner
    <3>4. Older(sinceReset) = AgeCap \/ Older(sinceReset) = sinceReset + 1
      BY <1>1 DEF Older
    <3> HIDE DEF w, l
    <3>5. l \in Nat
      BY <1>1 DEF l
    <3>6. Sooner(l) + Older(sinceReset) >= w
      BY <1>1, <3>2, <3>3, <3>4, <3>5
    <3> QED BY <2>1, <2>2, <3>6 DEF w, l
  <2> QED BY <2>2, <2>3 DEF ResetCovered
<1>8. CASE UNCHANGED <<gpuResets, sinceReset>> /\ ~Tick
  BY <1>4, <1>8, TimersMove DEF Keeps
<1> QED BY <1>5, <1>6, <1>7, <1>8, ResetsMove

(* Only startLoad enters Loading.                                          *)
LEMMA OnlyStartLoads ==
    ASSUME Inv, [Next]_vars, st' = "LOADING", st # "LOADING"
    PROVE  StartLoad
<1>1. \A from, to : Transition(from, to) \in {from, to}
  BY DEF Transition
<1>2. decision.idle # "LOADING" /\ \A t \in Idle : t # "LOADING"
  BY DEF Inv, TypeOK, CtlType, Decisions, Idle
<1>3. ASSUME \/ Decide \/ LoadResultStale \/ NoLoadResult \/ OnZombieStopped \/ NothingToReap
             \/ RetryZombie \/ ActWait \/ ActDrainWait
      PROVE  st' = st
  BY <1>3 DEF Decide, LoadResultStale, NoLoadResult, OnZombieStopped, NothingToReap, RetryZombie,
         ActWait, ActDrainWait
<1>4. LoadResultOK \/ LoadResultFailed \/ OnStopFailed \/ OnCrash
        => st' \in {Transition(st, "READY"), Transition(st, "ERROR")}
  BY DEF LoadResultOK, LoadResultFailed, OnStopFailed, OnCrash
<1>5. OnStopped => \E t \in Idle : st' = Transition(st, t)
  <2>1. "SUPPRESSED" \in Idle /\ "STOPPED" \in Idle
    BY DEF Idle
  <2> QED BY <2>1 DEF OnStopped
<1>6. ActHold => st' = Transition(st, decision.idle)
  BY DEF ActHold
<1>7. StartFails => st' \in {st, "STOPPED", "ERROR"}
  <2>1. StartFails => st' = Transition(Transition(st, "STOPPED"), "ERROR")
    BY DEF StartFails
  <2>2. /\ Transition(Transition(st, "STOPPED"), "ERROR") \in {Transition(st, "STOPPED"), "ERROR"}
        /\ Transition(st, "STOPPED") \in {st, "STOPPED"}
    BY <1>1
  <2> QED BY <2>1, <2>2
<1>8. ActServe => st' \in {"BUSY", "READY"}
  BY DEF ActServe
<1>9. ActDrain => st' = Transition(st, "DRAINING")
  BY DEF ActDrain
<1>10. ASSUME \/ ActCancelLoad \/ ActPreempt \/ ActDrainIdle \/ ActDrainDone \/ ActDrainPreempt
              \/ ActGraceExpired
       PROVE  st' = Transition(st, "PREEMPTING")
  BY <1>10 DEF ActCancelLoad, ActPreempt, ActDrainIdle, ActDrainDone, ActDrainPreempt,
         ActGraceExpired, beginStop
<1>11. Api \/ Tick \/ Background => st' = st
  BY DEF Api, SetMode, RequestManual, UpdateConfig, PrepareSuspend, Resumed, Shutdown,
         ShutdownReturns, ApiUnchanged, Tick, Background, ctl
<1>12. Step
  BY <1>11, Kinds
<1>13. \A to : st' = Transition(st, to) => to = "LOADING"
  BY <1>1
<1>14. ~ (LoadResultOK \/ LoadResultFailed \/ OnStopFailed \/ OnCrash)
  BY <1>4, <1>13
<1>15. ~ (OnStopped \/ ActHold \/ ActDrain)
  BY <1>2, <1>5, <1>6, <1>9, <1>13
<1>16. ~ (\/ ActCancelLoad \/ ActPreempt \/ ActDrainIdle \/ ActDrainDone \/ ActDrainPreempt
          \/ ActGraceExpired)
  BY <1>10, <1>13
<1>17. ~ (\/ Decide \/ LoadResultStale \/ NoLoadResult \/ OnZombieStopped \/ NothingToReap
          \/ RetryZombie \/ ActWait \/ ActDrainWait \/ StartFails \/ ActServe)
  BY <1>3, <1>7, <1>8
<1> QED BY <1>12, <1>14, <1>15, <1>16, <1>17 DEF Step

(* The waits a load has behind it are those of the whole history: recovery *)
(* waits that extended each other, suppression, a pause, the cleanup of an *)
(* unverified runtime and the escalated wait for driver resets.            *)
THEOREM LoadsWait == Spec => WaitsAreHonoured
<1> DEFINE J == Inv /\ Informed /\ CleanupWaits /\ ResetCovered
<1>1. Init => J
  <2>1. Init => CleanupWaits /\ gpuResets = 0
    BY DEF Init, CleanupWaits
  <2>2. gpuResets = 0 => ResetCovered
    BY DEF ResetCovered
  <2> QED BY <2>1, <2>2, InitSafe, InformedAtFirst
<1>2. J /\ [Next]_vars => J'
  BY NextSafe, InformedHolds, CleanupHolds, ResetHolds
<1>3. ASSUME J, [Next]_vars, st' = "LOADING", st # "LOADING"
      PROVE  LoadOnlyAfterWaits /\ ResetWaitHonoured
  <2>1. pc = "act" /\ Alive /\ st \in Idle /\ ~Running /\ decision.action = "run"
    BY <1>3, OnlyStartLoads DEF StartLoad, Acting, Alive, Running, RuntimeRunning, Idle
  <2>2. /\ timers.recoveryLeft = 0 /\ timers.sinceSuppressed >= Cfg.suppressFor
        /\ mode # "pause" /\ ~LoadBlocked
    BY <1>3, <2>1 DEF Informed, RunJustified
  <2>3. zombie = NoInst
    BY <1>3, <2>1 DEF Inv, DecisionSafe
  <2>4. ~zombieStopping /\ \A i \in Instances : proc[i] = "gone"
    BY <1>3, <2>1, <2>3, QuietWhenIdle
  <2>5. zombieWait = 0
    BY <1>3, <2>3 DEF CleanupWaits
  <2>6. gpuResets > 0 => sinceReset >= ResetBackoff[gpuResets]
    <3>1. sinceReset \in Nat
      BY <1>3, ConstantTypes DEF Inv, TypeOK, CounterType
    <3>2. 0 + sinceReset = sinceReset
      BY <3>1
    <3> QED BY <1>3, <2>2, <3>2 DEF ResetCovered
  <2> QED BY <2>2, <2>3, <2>4, <2>5, <2>6 DEF LoadOnlyAfterWaits, ResetWaitHonoured
<1>4. J /\ [Next]_vars => [LoadOnlyAfterWaits /\ ResetWaitHonoured]_vars
  BY <1>3 DEF LoadOnlyAfterWaits, ResetWaitHonoured
<1> HIDE DEF J
<1> QED BY <1>1, <1>2, <1>4, PTL DEF Spec, WaitsAreHonoured

-----------------------------------------------------------------------------
(* A drain is a promise.                                                   *)

(* Its allowance only shrinks, admission stays closed, it ends in a stop   *)
(* or a crash, and requests are cut early only on hard contention or       *)
(* because the runtime is dead.                                            *)
THEOREM DrainsAreHonoured == Spec => DrainIsHonoured
<1>1. ASSUME Inv, [Next]_vars, st = "DRAINING"
      PROVE  DrainIsCommitment /\ GraceRespected
  <2>1. gate = NoInst /\ drainLen \in Nat
    BY <1>1 DEF Inv, GateOnlyWhenServing, Admitting, TypeOK, DrainType
  <2>2. ASSUME UNCHANGED <<st, drainLen, gate>>, cut' \subseteq cut
        PROVE  DrainIsCommitment /\ GraceRespected
    BY <2>1, <2>2 DEF DrainIsCommitment, GraceRespected
  <2>3. ASSUME st' \in {"PREEMPTING", "ERROR"}, cut' \subseteq cut
        PROVE  DrainIsCommitment /\ GraceRespected
    BY <2>3 DEF DrainIsCommitment, GraceRespected
  <2>4. CASE \/ NoLoadResult \/ LoadResultStale \/ OnZombieStopped \/ NothingToReap
             \/ RetryZombie \/ Decide
    BY <2>2, <2>4 DEF NoLoadResult, LoadResultStale, OnZombieStopped, NothingToReap, RetryZombie,
                      Decide, yieldVars, gateVars
  <2>5. CASE LoadResultOK \/ LoadResultFailed
    BY <1>1, <2>5 DEF LoadResultOK, LoadResultFailed, StaleResult
  <2>6. CASE OnStopped \/ OnStopFailed
    <3>1. Alive /\ stopCh # <<>> /\ ~Head(stopCh).cleanup
      BY <2>6 DEF OnStopped, OnStopFailed, TakeStopResult, Alive
    <3>2. st = "PREEMPTING"
      BY <1>1, <3>1, LastResult DEF Inv, StopsAccountedFor
    <3> QED BY <1>1, <3>2
  <2>7. CASE OnCrash
    <3>1. st' = "ERROR" /\ inst # NoInst /\ proc[inst] # "up"
      BY <1>1, <2>7, Transitions DEF OnCrash, Crashed
    <3> QED BY <3>1 DEF DrainIsCommitment, GraceRespected
  <2>8. CASE \/ ActHold \/ StartLoad \/ StartFails \/ ActWait \/ ActCancelLoad
             \/ ActServe \/ ActPreempt \/ ActDrainIdle \/ ActDrain
    BY <1>1, <2>8 DEF ActHold, StartLoad, StartFails, ActWait, ActCancelLoad, ActServe,
                      ActPreempt, ActDrainIdle, ActDrain, Acting, Idle
  <2>9. CASE ActDrainDone
    <3>1. st' = "PREEMPTING" /\ cut' = cut
      BY <1>1, <2>9, StopCloses DEF ActDrainDone
    <3> QED BY <2>3, <3>1
  <2>10. CASE ActDrainPreempt
    <3>1. st' = "PREEMPTING" /\ decision.action = "preempt"
      BY <1>1, <2>10, StopCloses DEF ActDrainPreempt
    <3> QED BY <3>1 DEF DrainIsCommitment, GraceRespected
  <2>11. CASE ActDrainWait
    <3>1. drainLen' = GraceNow /\ st' = st /\ gate' = gate /\ cut' = cut
      BY <2>11 DEF ActDrainWait, gateVars
    <3>2. decision.grace \in Nat
      BY <1>1 DEF Inv, TypeOK, CtlType, Decisions
    <3>3. GraceNow <= drainLen
      BY <2>1, <3>2 DEF GraceNow
    <3> QED BY <2>1, <3>1, <3>3 DEF DrainIsCommitment, GraceRespected
  <2>12. CASE ActGraceExpired
    <3>1. st' = "PREEMPTING" /\ drainAge >= drainLen'
      BY <1>1, <2>12, StopCloses DEF ActGraceExpired, GraceOver
    <3> QED BY <3>1 DEF DrainIsCommitment, GraceRespected
  <2>13. CASE Api
    <3>1. ~ShutdownReturns
      BY <1>1 DEF ShutdownReturns, Idle
    <3>2. UNCHANGED <<st, drainLen, gateVars>>
      BY <2>13, <3>1 DEF Api, SetMode, RequestManual, UpdateConfig, PrepareSuspend, Resumed,
                         Shutdown, ApiUnchanged
    <3> QED BY <2>2, <3>2 DEF gateVars
  <2>14. CASE Proxy
    BY <2>2, <2>14 DEF Proxy, Admit, Release, GateUnchanged, ctl, yieldVars
  <2>15. CASE \E i \in Instances : ProcExit(i) \/ LoadGoroutine(i) \/ StopGoroutine(i)
    BY <2>2, <2>15 DEF ProcExit, LoadGoroutine, LoadReady, LoadError, PostLoad, StopGoroutine,
                       StopSucceeds, StopFails, OsUnchanged, ctl, yieldVars, gateVars
  <2>16. CASE Tick \/ UNCHANGED vars
    BY <2>2, <2>16 DEF Tick, vars, ctl, yieldVars, gateVars
  <2> QED BY <1>1, <2>4, <2>5, <2>6, <2>7, <2>8, <2>9, <2>10, <2>11, <2>12, <2>13, <2>14, <2>15,
             <2>16 DEF Next, Work, Step
<1>2. st # "DRAINING" => DrainIsCommitment /\ GraceRespected
  BY DEF DrainIsCommitment, GraceRespected
<1>3. Inv /\ [Next]_vars => [DrainIsCommitment /\ GraceRespected]_vars
  BY <1>1, <1>2
<1> QED BY <1>3, Invariant, PTL DEF Spec, DrainIsHonoured

-----------------------------------------------------------------------------
(* A changed configuration reaches the runtime.                            *)

(* Every step keeps the reload that an outdated runtime is waiting for.    *)
LEMMA ConfigHolds == Inv /\ ConfigConverges /\ [Next]_vars => ConfigConverges'
<1> SUFFICES ASSUME Inv, ConfigConverges, [Next]_vars, Alive', inst' # NoInst, outdated'
             PROVE  manual' # "none" \/ st' \in {"DRAINING", "PREEMPTING"}
  BY DEF ConfigConverges
<1> USE DEF ConfigConverges
<1>0. pc \in {"absorb", "decide", "act", "idle"} => Alive
  BY DEF Alive
<1>1. CASE UNCHANGED <<pc, st, inst, outdated, manual>>
  BY <1>1 DEF Alive
<1>2. CASE Background \/ Tick
  BY <1>1, <1>2 DEF Background, Tick, ctl, yieldVars
<1>3. CASE Api
  <2>1. CASE RequestManual
    BY <2>1 DEF RequestManual
  <2>2. CASE UpdateConfig
    <3>1. Alive /\ inst' = inst /\ st' = st
      BY <2>2 DEF UpdateConfig, ApiUnchanged, Alive
    <3>2. Running
      BY <3>1 DEF Inv, Bookkeeping
    <3> QED BY <2>2, <3>1, <3>2 DEF UpdateConfig, Reloadable
  <2>3. CASE SetMode \/ PrepareSuspend \/ Resumed \/ Shutdown
    BY <1>1, <2>3 DEF SetMode, PrepareSuspend, Resumed, Shutdown, ApiUnchanged
  <2>4. CASE ShutdownReturns
    BY <2>4 DEF ShutdownReturns
  <2> QED BY <1>3, <2>1, <2>2, <2>3, <2>4 DEF Api
<1>4. CASE Step
  <2>1. CASE LoadResultFailed \/ OnStopped \/ OnStopFailed \/ OnCrash
    BY <2>1 DEF LoadResultFailed, OnStopped, OnStopFailed, OnCrash, EndYield
  <2>2. CASE StartLoad
    BY <2>2 DEF StartLoad
  <2>3. CASE \/ NoLoadResult \/ LoadResultStale \/ OnZombieStopped \/ NothingToReap
             \/ RetryZombie \/ ActWait \/ ActDrainWait
    <3>1. UNCHANGED <<st, inst, outdated, manual>> /\ Alive
      BY <1>0, <2>3 DEF NoLoadResult, LoadResultStale, TakeLoadResult, OnZombieStopped,
                        TakeStopResult, NothingToReap, RetryZombie, Absorbed, ActWait,
                        ActDrainWait, Acting, ActUnchanged, yieldVars
    <3> QED BY <3>1
  <2>4. CASE LoadResultOK
    <3>1. UNCHANGED <<inst, outdated, manual>> /\ Alive /\ st = "LOADING"
      BY <1>0, <2>4 DEF LoadResultOK, TakeLoadResult, StaleResult, yieldVars
    <3> QED BY <3>1
  <2>5. CASE Decide
    <3>1. UNCHANGED <<st, inst, outdated>> /\ Alive
      BY <1>0, <2>5 DEF Decide
    <3>2. manual' = manual \/ ~Running
      BY <2>5 DEF Decide, DecideOn, ManualLapses
    <3> QED BY <3>1, <3>2 DEF Inv, Bookkeeping
  <2>6. CASE ActHold \/ StartFails
    <3>1. inst' = inst /\ Alive /\ st \in Idle
      BY <1>0, <2>6 DEF ActHold, StartFails, Acting
    <3> QED BY <3>1, QuietWhenIdle
  <2>7. CASE ActServe
    <3>1. UNCHANGED <<inst, outdated, manual>> /\ Alive /\ st \in {"READY", "BUSY"}
      BY <1>0, <2>7 DEF ActServe, Acting, ActUnchanged, yieldVars
    <3> QED BY <3>1
  <2>8. CASE ActDrain
    <3>1. st' = "DRAINING"
      BY <2>8, Transitions DEF ActDrain, Acting
    <3> QED BY <3>1
  <2>9. CASE ActCancelLoad \/ ActPreempt \/ ActDrainIdle \/ ActDrainDone \/ ActDrainPreempt
             \/ ActGraceExpired
    <3>1. \E y : beginStop(y)
      BY <2>9 DEF ActCancelLoad, ActPreempt, ActDrainIdle, ActDrainDone, ActDrainPreempt,
                  ActGraceExpired
    <3>2. st \in {"LOADING", "READY", "BUSY", "DRAINING"}
      BY <2>9 DEF ActCancelLoad, ActPreempt, ActDrainIdle, ActDrainDone, ActDrainPreempt,
                  ActGraceExpired, Acting
    <3> QED BY <3>1, <3>2, StopCloses
  <2> QED BY <1>4, <2>1, <2>2, <2>3, <2>4, <2>5, <2>6, <2>7, <2>8, <2>9 DEF Step
<1> QED BY <1>2, <1>3, <1>4, Kinds

(* A runtime started with an older configuration is always on its way out: *)
(* no drain, crash, cancelled load or lapsed manual request in between     *)
(* loses the reload.                                                       *)
THEOREM ReloadsAreNotLost == Spec => []ConfigConverges
<1>1. Init => ConfigConverges
  BY DEF Init, ConfigConverges
<1>2. Inv /\ ConfigConverges /\ [Next]_vars => ConfigConverges'
  BY ConfigHolds
<1> QED BY <1>1, <1>2, Invariant, PTL DEF Spec

-----------------------------------------------------------------------------
(* Suppression covers the preemptions that caused it.                      *)

(* A yield that counts will suppress if the preemption it records reaches  *)
(* the limit.                                                              *)
Foreseen(y) == y.counts /\ wouldSuppress([timers |-> timers]) => y.suppress

(* Of the yield in progress and of the one being acted on: no preemption   *)
(* is recorded between a yield's decision and its stop.                    *)
ThrashForeseen == Foreseen(yield) /\ (pc = "act" => Foreseen(decision.yield))

(* The limit is a count of preemptions, whatever else the snapshot says.   *)
LEMMA LimitIsACount ==
    ASSUME NEW s, NEW t, s.timers = t
    PROVE  wouldSuppress(s) <=> 1 + Cardinality(InWindow(t.preemptions)) >= Cfg.maxPreemptions
  BY DEF wouldSuppress

(* Where the yield in progress comes from.                                 *)
LEMMA YieldsMove ==
    ASSUME [Next]_vars
    PROVE  yield' \in {yield, NoYield} \/ (pc = "act" /\ yield' = decision.yield)
<1>1. ASSUME NEW y \in {yield, decision.yield}, beginStop(y), pc = "act"
      PROVE  yield' = yield \/ yield' = decision.yield
  BY <1>1 DEF beginStop
<1>2. CASE ActCancelLoad \/ ActPreempt \/ ActDrainIdle \/ ActDrainDone \/ ActDrainPreempt
           \/ ActGraceExpired
  <2>1. pc = "act" /\ \E y \in {yield, decision.yield} : beginStop(y)
    BY <1>2 DEF ActCancelLoad, ActPreempt, ActDrainIdle, ActDrainDone, ActDrainPreempt,
                ActGraceExpired, Acting
  <2> QED BY <1>1, <2>1
<1>3. CASE ActDrain
  BY <1>3 DEF ActDrain, Acting
<1>4. CASE OnStopped \/ OnStopFailed \/ OnCrash
  BY <1>4 DEF OnStopped, OnStopFailed, OnCrash, EndYield
<1>5. CASE \/ NoLoadResult \/ LoadResultStale \/ LoadResultOK \/ LoadResultFailed
           \/ OnZombieStopped \/ NothingToReap \/ RetryZombie \/ Decide
           \/ ActHold \/ StartLoad \/ StartFails \/ ActWait \/ ActServe \/ ActDrainWait
  BY <1>5 DEF NoLoadResult, LoadResultStale, LoadResultOK, LoadResultFailed, OnZombieStopped,
              NothingToReap, RetryZombie, Decide, ActHold, StartLoad, StartFails, ActWait,
              ActServe, ActDrainWait, yieldVars
<1>6. CASE Api \/ Tick \/ Background
  BY <1>6 DEF Api, SetMode, RequestManual, UpdateConfig, PrepareSuspend, Resumed, Shutdown,
              ShutdownReturns, ApiUnchanged, Tick, Background, yieldVars
<1> QED BY <1>2, <1>3, <1>4, <1>5, <1>6, Kinds DEF Step

(* The clock and the preemptions.                                          *)
LEMMA TickWindow ==
    ASSUME Inv, Tick
    PROVE  LET p == timers.preemptions
               q == timers'.preemptions
           IN  /\ p \in Seq(Nat) /\ q \in Seq(Nat)
               /\ Cardinality(InWindow(q)) <= Cardinality(InWindow(p))
               /\ Len(q) > 0 => Len(p) > 0 /\ q[Len(q)] = p[Len(p)] + 1
               /\ timers'.sinceSuppressed <= timers.sinceSuppressed + 1
<1> DEFINE p == timers.preemptions
           q == timers'.preemptions
<1>1. timers \in TimersType /\ p \in Seq(Nat) /\ timers.sinceSuppressed \in 0..AgeCap
  BY DEF Inv, TypeOK, FactType, TimersType
<1>2. /\ q = pruned([k \in DOMAIN p |-> p[k] + 1])
      /\ timers'.sinceSuppressed = Older(timers.sinceSuppressed)
  BY <1>1 DEF Tick, TimersType
<1>3. timers'.sinceSuppressed <= timers.sinceSuppressed + 1
  <2>1. AgeCap \in Nat
    BY ConstantTypes
  <2> QED BY <1>1, <1>2, <2>1 DEF Older
<1> HIDE DEF p, q
<1>4. /\ q \in Seq(Nat)
      /\ Cardinality(InWindow(q)) <= Cardinality(InWindow(p))
      /\ Len(q) > 0 => Len(p) > 0 /\ q[Len(q)] = p[Len(p)] + 1
  BY <1>1, <1>2, AgeWindow
<1> QED BY <1>1, <1>3, <1>4 DEF p, q

(* Preemptions in the window are counted by natural numbers.               *)
LEMMA WindowCount ==
    ASSUME NEW t \in TimersType
    PROVE  Cardinality(InWindow(t.preemptions)) \in Nat
           /\ Cardinality(InWindow(t.preemptions)) <= Len(t.preemptions)
<1>1. t.preemptions \in Seq(Nat)
  BY TimerFields
<1>2. InWindow(t.preemptions) \in SUBSET DOMAIN t.preemptions
  BY DEF InWindow
<1> QED BY <1>1, <1>2, Positions

(* Between the decision and the stop no preemption is added.               *)
LEMMA ThrashHolds == Inv /\ ThrashForeseen /\ [Next]_vars => ThrashForeseen'
<1> SUFFICES ASSUME Inv, ThrashForeseen, [Next]_vars PROVE ThrashForeseen'
  OBVIOUS
<1>1. timers \in TimersType /\ timers' \in TimersType /\ TypeOK
  BY NextType DEF Inv, TypeOK, FactType
<1> DEFINE c == Cardinality(InWindow(timers.preemptions))
           n == Cardinality(InWindow(timers'.preemptions))
           max == Cfg.maxPreemptions
<1>2. c \in Nat /\ n \in Nat /\ max \in Nat \ {0}
  BY <1>1, WindowCount, PolicyConfig DEF CfgType
<1>3. /\ wouldSuppress([timers |-> timers]) <=> 1 + c >= max
      /\ wouldSuppress([timers |-> timers'])  <=> 1 + n >= max
  BY LimitIsACount
<1>4. OnStopped \/ n <= c
  <2>1. CASE Tick
    BY <2>1, TickWindow
  <2>2. CASE Keeps(timers, timers')
    BY <1>2, <2>2 DEF Keeps
  <2> QED BY <2>1, <2>2, TimersMove
<1>5. ASSUME NEW y, n <= c, Foreseen(y)
      PROVE  y.counts /\ wouldSuppress([timers |-> timers']) => y.suppress
  <2>1. 1 + n >= max => 1 + c >= max
    <3> HIDE DEF n, c, max
    <3> QED BY <1>2, <1>5
  <2> QED BY <1>3, <1>5, <2>1 DEF Foreseen
<1>6. ASSUME pc' = "act"
      PROVE  decision'.yield.counts /\ wouldSuppress([timers |-> timers']) => decision'.yield.suppress
  <2>1. CASE Background
    <3>1. n <= c /\ pc = "act" /\ decision' = decision
      BY <1>2, <1>6, <2>1 DEF Background, ctl
    <3> QED BY <1>5, <3>1 DEF ThrashForeseen
  <2>2. CASE Decide
    <3>0. PICK t \in TimersType : \E s :
            /\ Keeps(timers, t) /\ Keeps(t, timers') /\ s.timers = t
            /\ decision'.yield = YieldOf(Verdict(s), Profiles[ProfileOf(s)])
      BY <1>1, <2>2, DecidedTimers, Zenon
    <3>1. PICK s :
            /\ Keeps(timers, t) /\ Keeps(t, timers') /\ s.timers = t
            /\ decision'.yield = YieldOf(Verdict(s), Profiles[ProfileOf(s)])
      BY <3>0
    <3>2. t.preemptions = timers'.preemptions
      BY <3>1 DEF Keeps
    <3>3. wouldSuppress(s) <=> wouldSuppress([timers |-> timers'])
      BY <1>3, <3>1, <3>2, LimitIsACount
    <3>4. /\ decision'.yield.counts = Verdict(s).counts
          /\ decision'.yield.suppress = Verdict(s).suppress
      BY <3>1 DEF YieldOf
    <3> QED BY <3>3, <3>4, VerdictFollows
  <2> QED BY <1>6, <2>1, <2>2, Phases
<1>7. yield'.counts /\ wouldSuppress([timers |-> timers']) => yield'.suppress
  <2>1. NoYield.counts = FALSE
    BY DEF NoYield
  <2>2. CASE OnStopped
    BY <2>1, <2>2 DEF OnStopped, EndYield
  <2>3. CASE n <= c
    <3>1. CASE yield' = yield
      BY <1>5, <2>3, <3>1 DEF ThrashForeseen
    <3>2. CASE yield' = NoYield
      BY <2>1, <3>2
    <3>3. CASE pc = "act" /\ yield' = decision.yield
      BY <1>5, <2>3, <3>3 DEF ThrashForeseen
    <3> QED BY <3>1, <3>2, <3>3, YieldsMove
  <2> QED BY <1>4, <2>2, <2>3
<1> QED BY <1>6, <1>7 DEF ThrashForeseen, Foreseen

(* Suppression begins with the preemption that reaches the limit, and ages *)
(* no faster than it.                                                      *)
LEMMA SuppressionHolds ==
    Inv /\ ThrashForeseen /\ SuppressionCoversThrash /\ [Next]_vars => SuppressionCoversThrash'
<1> SUFFICES ASSUME Inv, ThrashForeseen, SuppressionCoversThrash, [Next]_vars
             PROVE  SuppressionCoversThrash'
  OBVIOUS
<1> DEFINE p == timers.preemptions
           q == timers'.preemptions
           c == Cardinality(InWindow(p))
           n == Cardinality(InWindow(q))
           max == Cfg.maxPreemptions
<1>1. timers \in TimersType /\ timers' \in TimersType
  BY NextType DEF Inv, TypeOK, FactType
<1>2. c \in Nat /\ n \in Nat /\ max \in Nat \ {0} /\ c <= Len(p) /\ n <= Len(q)
  BY <1>1, WindowCount, PolicyConfig DEF CfgType
<1>3. /\ p \in Seq(Nat) /\ q \in Seq(Nat) /\ Len(p) \in Nat /\ Len(q) \in Nat
      /\ timers.sinceSuppressed \in Nat /\ timers'.sinceSuppressed \in Nat
  BY <1>1, TimerFields, LenProperties
<1>4. c >= max => timers.sinceSuppressed <= p[Len(p)]
  BY DEF SuppressionCoversThrash
<1> SUFFICES ASSUME n >= max PROVE timers'.sinceSuppressed <= q[Len(q)]
  BY DEF SuppressionCoversThrash
<1>5. Len(q) > 0 /\ q[Len(q)] \in Nat
  <2>1. Len(q) > 0
    <3> HIDE DEF n, q, max
    <3> QED BY <1>2, <1>3
  <2> QED BY <1>3, <2>1
<1>6. CASE Tick
  <2>1. /\ n <= c /\ Len(p) > 0 /\ q[Len(q)] = p[Len(p)] + 1
        /\ timers'.sinceSuppressed <= timers.sinceSuppressed + 1
    BY <1>5, <1>6, TickWindow
  <2>2. p[Len(p)] \in Nat
    BY <1>3, <2>1
  <2>3. c >= max
    <3> HIDE DEF n, c, max
    <3> QED BY <1>2, <2>1
  <2> HIDE DEF p, q
  <2> QED BY <1>3, <1>4, <2>1, <2>2, <2>3
<1>7. CASE Keeps(timers, timers')
  BY <1>4, <1>7 DEF Keeps
<1>8. CASE OnStopped
  <2>1. /\ q = IF yield.counts THEN RecordPreemption(p) ELSE p
        /\ timers'.sinceSuppressed = IF yield.suppress THEN 0 ELSE timers.sinceSuppressed
    BY <1>1, <1>8, StopRecords DEF Inv
  <2>2. CASE yield.suppress
    BY <1>5, <2>1, <2>2
  <2>3. CASE ~yield.suppress /\ ~yield.counts
    BY <1>4, <2>1, <2>3
  <2>4. CASE ~yield.suppress /\ yield.counts
    <3>1. ~ (1 + c >= max)
      BY <2>4, LimitIsACount DEF ThrashForeseen, Foreseen
    <3>2. n <= 1 + c
      BY <1>3, <2>1, <2>4, RecordWindow
    <3> HIDE DEF n, c, max
    <3> QED BY <1>2, <3>1, <3>2
  <2> QED BY <2>2, <2>3, <2>4
<1> QED BY <1>6, <1>7, <1>8, TimersMove

(* Anti-thrash: whenever the preemptions in the window reach the limit,    *)
(* suppression began no earlier than the last of them, although the        *)
(* decision to suppress is made when a yield begins and the preemption is  *)
(* recorded when its stop is verified, and ticks fall in between.          *)
THEOREM ThrashIsSuppressed == Spec => []SuppressionCoversThrash
<1> DEFINE J == Inv /\ ThrashForeseen /\ SuppressionCoversThrash
<1>1. Init => ThrashForeseen /\ SuppressionCoversThrash
  <2> SUFFICES ASSUME Init PROVE ThrashForeseen /\ SuppressionCoversThrash
    OBVIOUS
  <2>1. ThrashForeseen
    BY DEF Init, ThrashForeseen, Foreseen, NoYield
  <2>2. timers \in TimersType /\ timers.preemptions = <<>>
    BY InitType DEF Init, TypeOK, FactType
  <2>3. Cardinality(InWindow(timers.preemptions)) = 0
    <3>1. InWindow(<<>>) = {}
      BY DEF InWindow
    <3> QED BY <2>2, <3>1, FS_EmptySet
  <2>4. Cfg.maxPreemptions \in Nat \ {0}
    BY PolicyConfig DEF CfgType
  <2> QED BY <2>1, <2>3, <2>4 DEF SuppressionCoversThrash
<1>2. Init => J
  BY <1>1, InitSafe
<1>3. J /\ [Next]_vars => J'
  BY NextSafe, ThrashHolds, SuppressionHolds
<1>4. J => SuppressionCoversThrash
  OBVIOUS
<1> HIDE DEF J
<1> QED BY <1>2, <1>3, <1>4, PTL DEF Spec

-----------------------------------------------------------------------------
(* The cooldown counts from the last competing workload observed.          *)

(* While nothing outranks competition: no pause, no power fact.            *)
Undisturbed ==
    mode = "auto" /\ ~power.shuttingDown /\ ~power.suspending /\ ~power.deviceLost

(* The controller's clock of the last competing workload is never ahead of *)
(* the observer's.  While secrets are unprotected the controller reports   *)
(* no competition, but then it loads nothing either.                       *)
ClockAgrees == ~LoadBlocked => timers.sinceCompeting <= sinceSeen

(* A decision to load was made with the cooldown over.                     *)
RunCooled ==
    pc = "act" /\ ~Running /\ decision.action = "run"
        => ~LoadBlocked /\ timers.sinceCompeting >= Profiles["default"].cooldown

(* What is true of every state in which nothing outranks competition.      *)
Watched == sinceSeen \in 0..AgeCap /\ Undisturbed /\ ClockAgrees /\ RunCooled

(* The overrides report the competition the evaluator saw, unless a manual *)
(* request replaces a decision to run or secrets are unprotected.          *)
LEMMA CompetitionReported ==
    ASSUME NEW s, ~LoadBlocked, ~Running \/ Yields(Evaluate(s).action)
    PROVE  Verdict(s).competing = Win(s).competing
<1> DEFINE e == Evaluate(s)
<1>1. e.competing = Win(s).competing
  BY DEF Evaluate, DecisionOf
<1>2. PICK R, T, C, N : e \in Shape(R, T, C, N)
  BY EvaluateType
<1> HIDE DEF e
<1>3. applyManual(e, Profiles[ProfileOf(s)]) = e
  <2>1. Running => Yields(e.action)
    BY DEF e
  <2> QED BY <2>1 DEF applyManual, ManualApplies
<1>4. applyZombie(e).competing = e.competing
  BY <1>2 DEF applyZombie, Shape
<1>5. Verdict(s) = applyZombie(e)
  BY <1>3 DEF Verdict, applyLoadBlocked, e
<1> QED BY <1>1, <1>4, <1>5

(* A competing workload that is present wins, when nothing outranks it.    *)
LEMMA PresentWins ==
    ASSUME NEW s, Present(s), s.mode # "pause",
           ~s.power.shuttingDown, ~s.power.suspending, ~s.power.deviceLost,
           s.gpu.temp = "normal", ~(s.gpu.confidence = "none" /\ s.gpu.noneForGrace)
    PROVE  Matches(s) # {} /\ Win(s).competing = TRUE
<1>1. \A r \in SafetyRules \cup {"manual.pause"} : ~Applies(r, s)
  <2>1. /\ ~Applies("safety.shutdown", s) /\ ~Applies("safety.suspend", s)
        /\ ~Applies("safety.device_lost", s) /\ ~Applies("safety.temperature", s)
        /\ ~Applies("safety.telemetry_lost", s) /\ ~Applies("manual.pause", s)
    BY DEF Applies
  <2> QED BY <2>1 DEF SafetyRules
<1>2. PICK r \in CompetingRules : Applies(r, s)
  BY DEF Present
<1>3. \E i \in 1..Len(RuleOrder) : RuleOrder[i] = r
  <2>1. \E i \in 7..15 : RuleOrder[i] = r
    BY DEF RuleOrder, CompetingRules, CriticalRules, GamingRules, ProfileRules
  <2>2. Len(RuleOrder) = 15
    BY DEF RuleOrder
  <2> QED BY <2>1, <2>2
<1>4. Matches(s) # {}
  BY <1>2, <1>3 DEF Matches
<1>5. PICK i \in Matches(s) : Win(s).rule = RuleOrder[i]
  BY <1>4, MatchWins
<1>6. RuleOrder[i] \in CompetingRules
  <2>1. i \in 1..Len(RuleOrder) /\ Applies(RuleOrder[i], s)
    BY DEF Matches
  <2>2. ~ (i \in 1..5) /\ i # 6
    BY <1>1, <2>1, RuleAt
  <2>3. i \in 7..9 \/ i \in 10..12 \/ i \in 13..15
    BY <2>1, <2>2, RuleAt
  <2> QED BY <2>1, <2>3, RuleAt DEF CompetingRules
<1>7. Win(s).competing = (Win(s).rule \in CompetingRules)
  BY <1>4 DEF Win
<1> QED BY <1>4, <1>5, <1>6, <1>7

(* Waits are set without touching the clock of the last competition.       *)
LEMMA WaitKeepsClock ==
    ASSUME NEW t \in TimersType, NEW w \in Nat, NEW f \in BOOLEAN
    PROVE  setRecovery(t, w, f).sinceCompeting = t.sinceCompeting
  BY DEF setRecovery, TimersType

(* Time aside, only a decision moves the clock of the last competition.    *)
LEMMA ClockMoves ==
    ASSUME Inv, Work
    PROVE  Decide \/ timers'.sinceCompeting = timers.sinceCompeting
<1>1. timers \in TimersType /\ TypeOK
  BY DEF Inv, TypeOK, FactType
<1>2. ASSUME backoff PROVE timers'.sinceCompeting = timers.sinceCompeting
  <2>1. CrashBackoff[Bump(crashCount)] \in Nat /\ TRUE \in BOOLEAN
    BY <1>1, BumpType, WaitTypes DEF TypeOK, CounterType
  <2> QED BY <1>1, <1>2, <2>1, WaitKeepsClock DEF backoff
<1>3. CASE OnStopped
  <2> DEFINE c == IF yield.counts
                  THEN [timers EXCEPT !.preemptions = RecordPreemption(@)] ELSE timers
  <2>1. RecordPreemption(timers.preemptions) \in Seq(Nat) /\ yield.wait \in Nat
    BY <1>1, RecordType DEF TimersType, TypeOK, DrainType, YieldType
  <2>2. c \in TimersType /\ c.sinceCompeting = timers.sinceCompeting
    BY <1>1, <2>1 DEF TimersType
  <2>3. timers' = IF yield.suppress THEN [c EXCEPT !.sinceSuppressed = 0]
                  ELSE IF yield.manual = "drain" THEN setRecovery(c, yield.wait, FALSE) ELSE c
    BY <1>3 DEF OnStopped
  <2> HIDE DEF c
  <2>4. [c EXCEPT !.sinceSuppressed = 0].sinceCompeting = c.sinceCompeting
    BY <2>2 DEF TimersType
  <2>5. setRecovery(c, yield.wait, FALSE).sinceCompeting = c.sinceCompeting
    BY <2>1, <2>2, WaitKeepsClock
  <2> QED BY <2>2, <2>3, <2>4, <2>5
<1>4. CASE OnStopFailed
  <2>1. DeviceLostCooldown \in Nat /\ TRUE \in BOOLEAN
    BY ConstantTypes
  <2> QED BY <1>1, <1>4, <2>1, WaitKeepsClock DEF OnStopFailed
<1>5. CASE LoadResultFailed \/ OnCrash \/ StartFails
  BY <1>2, <1>5 DEF LoadResultFailed, OnCrash, StartFails
<1>6. CASE \/ NoLoadResult \/ LoadResultStale \/ LoadResultOK \/ OnZombieStopped
           \/ NothingToReap \/ RetryZombie
           \/ ActHold \/ StartLoad \/ ActWait \/ ActCancelLoad
           \/ ActServe \/ ActPreempt \/ ActDrainIdle \/ ActDrain
           \/ ActDrainDone \/ ActDrainPreempt \/ ActDrainWait \/ ActGraceExpired
  BY <1>6 DEF NoLoadResult, LoadResultStale, LoadResultOK, OnZombieStopped, NothingToReap,
              RetryZombie, ActHold, StartLoad, ActWait, ActCancelLoad, ActServe, ActPreempt,
              ActDrainIdle, ActDrain, ActDrainDone, ActDrainPreempt, ActDrainWait,
              ActGraceExpired
<1>7. CASE Api
  <2>1. CASE Resumed
    <3>1. Resume \in Nat /\ FALSE \in BOOLEAN
      BY ConstantTypes
    <3> QED BY <1>1, <2>1, <3>1, WaitKeepsClock DEF Resumed
  <2>2. CASE ~Resumed
    BY <1>7, <2>2 DEF Api, SetMode, RequestManual, UpdateConfig, PrepareSuspend, Shutdown,
                      ShutdownReturns
  <2> QED BY <2>1, <2>2
<1>8. CASE Background
  BY <1>8 DEF Background
<1> QED BY <1>3, <1>4, <1>5, <1>6, <1>7, <1>8, KindsOfWork DEF Step

(* Between decisions no pause and no power fact arises without its event.  *)
LEMMA StaysUndisturbed ==
    ASSUME NothingOutranks, Undisturbed, [Next]_vars
    PROVE  Decide \/ Undisturbed'
<1>1. "mode" \notin Env /\ "suspend" \notin Env /\ "shutdown" \notin Env
  BY DEF NothingOutranks
<1>2. CASE \/ NoLoadResult \/ LoadResultStale \/ LoadResultOK \/ LoadResultFailed
           \/ OnStopped \/ OnStopFailed \/ OnZombieStopped
           \/ NothingToReap \/ RetryZombie \/ OnCrash
  BY <1>2 DEF NoLoadResult, LoadResultStale, LoadResultOK, LoadResultFailed, OnStopped,
              OnStopFailed, OnZombieStopped, NothingToReap, RetryZombie, OnCrash, modeVars,
              Undisturbed
<1>3. CASE \/ ActHold \/ StartLoad \/ StartFails \/ ActWait \/ ActCancelLoad
           \/ ActServe \/ ActPreempt \/ ActDrainIdle \/ ActDrain
           \/ ActDrainDone \/ ActDrainPreempt \/ ActDrainWait \/ ActGraceExpired
  BY <1>3 DEF ActHold, StartLoad, StartFails, ActWait, ActCancelLoad, ActServe, ActPreempt,
              ActDrainIdle, ActDrain, ActDrainDone, ActDrainPreempt, ActDrainWait,
              ActGraceExpired, ActUnchanged, modeVars, Undisturbed
<1>4. CASE Api
  BY <1>1, <1>4 DEF Api, SetMode, RequestManual, UpdateConfig, PrepareSuspend, Resumed, Shutdown,
                    ShutdownReturns, modeVars, Undisturbed
<1>5. CASE Tick \/ Background
  BY <1>5 DEF Tick, Background, modeVars, Undisturbed
<1> QED BY <1>2, <1>3, <1>4, <1>5, Kinds DEF Step

(* A decision sets the clock back when competition is present, and a       *)
(* decision to load finds the cooldown over.                               *)
LEMMA DecideWatched ==
    ASSUME Inv, NothingOutranks, Undisturbed, Decide
    PROVE  /\ Undisturbed'
           /\ timers'.sinceCompeting \in {0, timers.sinceCompeting}
           /\ decision'.present /\ ~LoadBlocked => timers'.sinceCompeting = 0
           /\ ~Running /\ decision'.action = "run"
                => ~LoadBlocked /\ timers'.sinceCompeting >= Profiles["default"].cooldown
<1>1. PICK reset \in ResetReports, o \in Observations, problem \in SetupAnswers :
        DecideOn(reset, o, problem)
  BY DEF Decide
<1> DEFINE pow == PowerAfterResets(reset)
           r == TimersAfterResets(reset)
           t == TimersAfterTelemetry(r, o.gpu)
           s == snapshot(o, pow, t, problem)
           d == Verdict(s)
<1>2. timers \in TimersType /\ TypeOK /\ TRUE \in BOOLEAN
  BY DEF Inv, TypeOK, FactType
<1>3. reset = FALSE
  BY DEF ResetReports, NothingOutranks
<1>4. r = timers
  BY <1>3 DEF TimersAfterResets
<1>5. t \in TimersType /\ t.sinceCompeting = timers.sinceCompeting
  <2>1. TelemetryBackoff[Bump(telemetryLosses)] \in Nat
    BY <1>2, BumpType, WaitTypes DEF TypeOK, CounterType
  <2>2. CASE Recovered(o.gpu)
    BY <1>2, <1>4, <2>1, <2>2, SetRecoveryType, WaitKeepsClock DEF TimersAfterTelemetry
  <2>3. CASE ~Recovered(o.gpu)
    BY <1>2, <1>4, <2>3 DEF TimersAfterTelemetry
  <2> QED BY <2>2, <2>3
<1>6. ~pow.shuttingDown /\ ~pow.suspending /\ ~pow.deviceLost
  <2>1. power \in [shuttingDown : BOOLEAN, suspending : BOOLEAN, deviceLost : BOOLEAN]
    BY <1>2 DEF TypeOK, FactType
  <2> QED BY <1>3, <2>1 DEF PowerAfterResets, Undisturbed
<1>7. /\ timers' = LastCompeting(t, d) /\ decision'.action = d.action
      /\ decision'.present = Present(s) /\ power' = pow /\ mode' = s.mode
  BY <1>1 DEF DecideOn, r, t, s, d, pow
<1>8. /\ s.mode = "auto" /\ s.timers = t /\ s.running = Running /\ s.power = pow
      /\ s.gpu = o.gpu /\ s.scheduled = o.scheduled
  BY DEF snapshot, Undisturbed
<1> HIDE DEF d, s, t, r, pow
<1>9. Undisturbed'
  BY <1>6, <1>7, <1>8 DEF Undisturbed
<1>10. /\ d.competing => timers'.sinceCompeting = 0
       /\ ~d.competing => timers' = t
  <2>1. [t EXCEPT !.sinceCompeting = 0, !.lastCompetingRule = RuleKind(d.rule)].sinceCompeting = 0
    BY <1>5 DEF TimersType
  <2> QED BY <1>7, <2>1 DEF LastCompeting
<1>11. ASSUME Present(s), ~LoadBlocked PROVE d.competing
  <2>1. s.gpu.temp = "normal" /\ ~(s.gpu.confidence = "none" /\ s.gpu.noneForGrace)
    BY <1>8 DEF NothingOutranks
  <2>2. s.mode # "pause"
    BY <1>8
  <2>3. Matches(s) # {} /\ Win(s).competing = TRUE
    BY <1>6, <1>8, <1>11, <2>1, <2>2, PresentWins
  <2>4. Running => Yields(Evaluate(s).action)
    BY <1>8, <2>3, Outcome
  <2> QED BY <1>11, <2>3, <2>4, CompetitionReported DEF d
<1>12. ASSUME ~Running, d.action = "run"
       PROVE  ~LoadBlocked /\ timers'.sinceCompeting >= Profiles["default"].cooldown
  <2>1. Evaluate(s).action = "run" /\ ~LoadBlocked
    BY <1>12, VerdictFollows DEF d
  <2>2. Matches(s) = {} /\ BlockingGates(s) = {}
    BY <1>8, <1>12, <2>1, RunMeansClear
  <2>3. ~d.competing
    <3>1. Win(s).competing = FALSE
      BY <2>2 DEF Win
    <3> QED BY <1>12, <2>1, <3>1, CompetitionReported DEF d
  <2>4. ~ (CooldownLeft(s) > 0)
    BY <2>2, GatesOpen
  <2>5. ProfileOf(s) = "default"
    BY <1>8 DEF ProfileOf, NothingOutranks
  <2>6. Profiles["default"].cooldown \in Nat
    <3>1. Profiles["default"] \in ProfileType
      BY PolicyConfig DEF ProfileName
    <3> QED BY <3>1 DEF ProfileType
  <2>7. t.sinceCompeting \in Nat
    <3>1. t.sinceCompeting \in 0..AgeCap /\ AgeCap \in Nat
      BY <1>5, ConstantTypes DEF TimersType
    <3> QED BY <3>1
  <2>8. ~ (Profiles["default"].cooldown - t.sinceCompeting > 0)
    BY <1>8, <2>4, <2>5 DEF CooldownLeft
  <2> QED BY <1>10, <2>1, <2>3, <2>6, <2>7, <2>8
<1> QED BY <1>5, <1>7, <1>9, <1>10, <1>11, <1>12

(* The two clocks keep agreeing.                                           *)
LEMMA WatchedHolds ==
    ASSUME NothingOutranks, Inv, Watched, [WatchNext]_watchVars
    PROVE  Watched'
<1>1. [Next]_vars
  BY DEF WatchNext, watchVars, Next
<1>2. timers \in TimersType /\ timers' \in TimersType /\ AgeCap \in Nat
  BY <1>1, NextType, ConstantTypes DEF Inv, TypeOK, FactType
<1>3. timers.sinceCompeting \in 0..AgeCap /\ timers'.sinceCompeting \in 0..AgeCap
  BY <1>2 DEF TimersType
<1>4. CASE Tick /\ sinceSeen' = Older(sinceSeen)
  <2>1. timers'.sinceCompeting = Older(timers.sinceCompeting)
    BY <1>2, <1>4 DEF Tick, TimersType
  <2>2. Undisturbed'
    BY <1>4 DEF Tick, Watched, Undisturbed
  <2>3. sinceSeen' \in 0..AgeCap /\ ClockAgrees'
    BY <1>2, <1>3, <1>4, <2>1 DEF Watched, ClockAgrees, Older
  <2>4. RunCooled'
    BY <1>4 DEF Tick, RunCooled, ctl
  <2> QED BY <2>2, <2>3, <2>4 DEF Watched
<1>5. CASE Work /\ Decide /\ sinceSeen' = IF Seen THEN 0 ELSE sinceSeen
  <2>1. /\ Undisturbed'
        /\ timers'.sinceCompeting \in {0, timers.sinceCompeting}
        /\ decision'.present /\ ~LoadBlocked => timers'.sinceCompeting = 0
        /\ ~Running /\ decision'.action = "run"
             => ~LoadBlocked /\ timers'.sinceCompeting >= Profiles["default"].cooldown
    BY <1>5, DecideWatched DEF Watched
  <2>2. Seen <=> decision'.present
    BY <1>5 DEF Decide, Seen
  <2>3. sinceSeen' \in 0..AgeCap /\ ClockAgrees'
    BY <1>2, <1>3, <1>5, <2>1, <2>2 DEF Watched, ClockAgrees
  <2>4. RunCooled'
    BY <1>5, <2>1 DEF RunCooled, Decide, Running
  <2> QED BY <2>1, <2>3, <2>4 DEF Watched
<1>6. ASSUME ~Decide, sinceSeen' = sinceSeen, timers'.sinceCompeting = timers.sinceCompeting
      PROVE  Watched'
  <2>1. Undisturbed'
    BY <1>1, <1>6, StaysUndisturbed DEF Watched
  <2>2. RunCooled'
    <3>1. ASSUME pc' = "act" PROVE pc = "act" /\ UNCHANGED <<st, decision>>
      BY <1>1, <1>6, <3>1, Phases DEF Background, ctl
    <3> QED BY <1>6, <3>1 DEF Watched, RunCooled, Running
  <2> QED BY <1>6, <2>1, <2>2 DEF Watched, ClockAgrees
<1>7. CASE Work /\ ~Decide /\ sinceSeen' = IF Seen THEN 0 ELSE sinceSeen
  <2>1. ~Seen
    <3>1. pc' = "act" => pc = "act"
      BY <1>1, <1>7, Phases DEF Background, ctl
    <3> QED BY <3>1 DEF Seen
  <2> QED BY <1>6, <1>7, <2>1, ClockMoves
<1>8. CASE UNCHANGED watchVars
  <2>1. UNCHANGED <<vars, sinceSeen>>
    BY <1>8 DEF watchVars
  <2>2. UNCHANGED <<pc, st, decision, mode, power, timers, sinceSeen>>
    BY <2>1 DEF vars, ctl, modeVars
  <2> QED BY <2>2 DEF Watched, Undisturbed, ClockAgrees, RunCooled, Running
<1> QED BY <1>4, <1>5, <1>7, <1>8 DEF WatchNext

(* The cooldown counts from the disappearance of the competing workload,   *)
(* not from the yield it caused: a workload observed while the worker is   *)
(* already idle, crashed or waiting starts it again, and no manual         *)
(* request, failed stop or recovery wait shortens it.  The hypothesis is   *)
(* the limit of what step() guarantees: it records only a workload that    *)
(* wins, so a pause, a power event or a hot GPU hides it.                  *)
THEOREM CooldownIsServed == NothingOutranks /\ WatchSpec => CooldownFromDisappearance
<1> DEFINE J == NothingOutranks /\ Inv /\ Watched
<1>1. NothingOutranks /\ WatchInit => J
  <2> SUFFICES ASSUME NothingOutranks, WatchInit PROVE Inv /\ Watched
    OBVIOUS
  <2>1. Inv
    BY InitSafe DEF WatchInit
  <2>2. sinceSeen = AgeCap /\ timers.sinceCompeting = AgeCap /\ AgeCap \in Nat
    BY ConstantTypes DEF WatchInit, Init
  <2>3. Undisturbed /\ RunCooled
    BY DEF WatchInit, Init, Undisturbed, RunCooled
  <2> QED BY <2>1, <2>2, <2>3 DEF Watched, ClockAgrees
<1>2. J /\ [WatchNext]_watchVars => J'
  <2> SUFFICES ASSUME NothingOutranks, Inv, Watched, [WatchNext]_watchVars PROVE J'
    OBVIOUS
  <2>1. [Next]_vars
    BY DEF WatchNext, watchVars, Next
  <2>2. Inv'
    BY <2>1, NextSafe
  <2>3. NothingOutranks'
    BY DEF NothingOutranks
  <2> QED BY <2>2, <2>3, WatchedHolds
<1>3. J /\ [WatchNext]_watchVars => [CooledDown]_watchVars
  <2> SUFFICES ASSUME Inv, Watched, [WatchNext]_watchVars, st' = "LOADING", st # "LOADING"
               PROVE  sinceSeen >= Profiles["default"].cooldown
    BY DEF CooledDown
  <2>1. [Next]_vars
    BY DEF WatchNext, watchVars, Next
  <2>2. pc = "act" /\ st \in Idle /\ decision.action = "run"
    BY <2>1, OnlyStartLoads DEF StartLoad, Acting
  <2>3. ~Running
    BY <2>2 DEF Running, RuntimeRunning, Idle
  <2>4. timers.sinceCompeting <= sinceSeen /\ timers.sinceCompeting >= Profiles["default"].cooldown
    BY <2>2, <2>3 DEF Watched, ClockAgrees, RunCooled
  <2>5. /\ timers.sinceCompeting \in Int /\ sinceSeen \in Int
        /\ Profiles["default"].cooldown \in Int
    <3>1. timers.sinceCompeting \in 0..AgeCap /\ AgeCap \in Nat
      BY ConstantTypes DEF Inv, TypeOK, FactType, TimersType
    <3>2. Profiles["default"] \in ProfileType
      BY PolicyConfig DEF ProfileName
    <3> QED BY <3>1, <3>2 DEF Watched, ProfileType
  <2> QED BY <2>4, <2>5
<1> HIDE DEF J
<1> QED BY <1>1, <1>2, <1>3, PTL DEF WatchSpec, CooldownFromDisappearance

=============================================================================
