--------------------- MODULE ControllerRefinement_proofs ---------------------
(***************************************************************************)
(* The controller implements the Lifecycle specification, for every        *)
(* instance of the parameters.                                             *)
(***************************************************************************)
EXTENDS Controller_proofs

(* The phase of each state.                                                *)
LEMMA PhaseOf ==
    /\ zombie # NoInst => Phase = "unverified"
    /\ zombie = NoInst =>
          /\ st \in Idle => Phase = "released"
          /\ st = "LOADING" => Phase = "loading"
          /\ st \in {"READY", "BUSY"} => Phase = "serving"
          /\ st = "DRAINING" => Phase = "draining"
          /\ st = "PREEMPTING" => Phase = "stopping"
  BY DEF Phase, Idle

(* A step that leaves the mapped variables alone is a stutter.             *)
LEMMA Stutter ==
    ASSUME UNCHANGED <<st, zombie, gate, proc>>
    PROVE  UNCHANGED Abstract!vars
  BY DEF Abstract!vars, Phase, Held

-----------------------------------------------------------------------------
(* The tree of the current runtime is gone only after the stop that        *)
(* emptied it has been reported: Fail is a failure of something held.      *)
Holding ==
    Alive /\ Running /\ proc[inst] = "gone" =>
        st = "PREEMPTING" /\ stopCh # <<>> /\ ~stopCh[1].err

(* Holding survives what leaves the runtime, its process and its result.   *)
LEMMA HoldingFrame ==
    ASSUME Holding, Alive' => Alive, UNCHANGED <<inst, proc, stopCh>>,
           \/ st' = st
           \/ RuntimeRunning(st) /\ st # "PREEMPTING"
           \/ ~RuntimeRunning(st')
    PROVE  Holding'
  BY DEF Holding, Running

(* Every action preserves it.                                              *)
LEMMA HoldingNext == Inv /\ Inv' /\ Holding /\ [Next]_vars => Holding'
<1> SUFFICES ASSUME Inv, Inv', Holding, [Next]_vars PROVE Holding'
  OBVIOUS
<1>1. ASSUME NEW s \in Idle PROVE ~RuntimeRunning(s)
  BY <1>1, StatesSplit DEF State
<1>2. ASSUME Alive', inst' = NoInst PROVE Holding'
  BY <1>2 DEF Inv, Bookkeeping, Holding
<1>3. CASE LoadResultStale \/ LoadResultOK \/ LoadResultFailed \/ NoLoadResult
  <2>1. CASE LoadResultStale \/ NoLoadResult
    BY <1>3, <2>1, HoldingFrame
    DEF LoadResultStale, NoLoadResult, TakeLoadResult, Alive, stopVars
  <2>2. CASE LoadResultOK
    BY <2>2, HoldingFrame
    DEF LoadResultOK, TakeLoadResult, StaleResult, Alive, stopVars, RuntimeRunning
  <2>3. CASE LoadResultFailed
    BY <1>2, <2>3 DEF LoadResultFailed, TakeLoadResult, Alive
  <2> QED BY <1>3, <2>1, <2>2, <2>3
<1>4. CASE OnStopped \/ OnStopFailed \/ OnZombieStopped
  <2>1. Alive /\ Alive'
    BY <1>4 DEF OnStopped, OnStopFailed, OnZombieStopped, TakeStopResult, Alive
  <2>2. inst' = NoInst
    <3>1. CASE OnStopped \/ OnStopFailed
      BY <3>1 DEF OnStopped, OnStopFailed, EndYield
    <3>2. CASE OnZombieStopped
      <4>1. stopCh # <<>> /\ Head(stopCh).cleanup /\ Head(stopCh) = stopCh[1]
        BY <2>1, <3>2, LastResult DEF OnZombieStopped, TakeStopResult
      <4>2. st = "ERROR"
        BY <2>1, <4>1 DEF Inv, StopsAccountedFor, Bookkeeping
      <4> QED BY <2>1, <3>2, <4>2, QuietWhenIdle DEF OnZombieStopped, Idle
    <3> QED BY <1>4, <3>1, <3>2
  <2> QED BY <1>2, <2>1, <2>2
<1>5. CASE NothingToReap \/ RetryZombie \/ OnCrash
  <2>1. CASE NothingToReap \/ RetryZombie
    BY <2>1, HoldingFrame DEF NothingToReap, RetryZombie, Absorbed, Alive, stopVars
  <2>2. CASE OnCrash
    BY <1>2, <2>2 DEF OnCrash, Absorbed, Alive
  <2> QED BY <1>5, <2>1, <2>2
<1>6. CASE Decide
  BY <1>6, HoldingFrame DEF Decide, Alive, stopVars
<1>7. CASE ActHold \/ StartFails
  <2>1. Alive /\ Alive' /\ st \in Idle /\ inst' = inst
    BY <1>7 DEF ActHold, StartFails, Acting, Alive
  <2> QED BY <1>2, <2>1, QuietWhenIdle
<1>8. CASE StartLoad
  <2>1. PICK i \in Instances : inst' = i /\ proc' = [proc EXCEPT ![i] = "up"]
    BY <1>8 DEF StartLoad
  <2>2. proc'[inst'] = "up"
    BY <2>1 DEF Inv, TypeOK, ProcType
  <2> QED BY <2>2 DEF Holding
<1>9. CASE ActWait \/ ActServe \/ ActDrain \/ ActDrainWait
  BY <1>9, HoldingFrame
  DEF ActWait, ActServe, ActDrain, ActDrainWait, Acting, Alive, stopVars, RuntimeRunning
<1>10. CASE \/ ActCancelLoad \/ ActPreempt \/ ActDrainIdle \/ ActDrainDone
            \/ ActDrainPreempt \/ ActGraceExpired
  <2>1. /\ Alive /\ st \in {"LOADING", "READY", "BUSY", "DRAINING"}
        /\ UNCHANGED <<inst, proc>>
    BY <1>10 DEF ActCancelLoad, ActPreempt, ActDrainIdle, ActDrainDone, ActDrainPreempt,
                 ActGraceExpired, Acting, Alive
  <2>2. proc[inst] # "gone"
    BY <2>1 DEF Holding, Running, RuntimeRunning
  <2> QED BY <2>1, <2>2 DEF Holding
<1>11. CASE Api
  <2>1. CASE ShutdownReturns
    BY <2>1 DEF ShutdownReturns, Holding, Alive
  <2>2. CASE SetMode \/ RequestManual \/ UpdateConfig \/ PrepareSuspend \/ Resumed \/ Shutdown
    BY <2>2, HoldingFrame DEF SetMode, RequestManual, UpdateConfig, PrepareSuspend, Resumed,
                              Shutdown, ApiUnchanged, Alive, stopVars
  <2> QED BY <1>11, <2>1, <2>2 DEF Api
<1>12. CASE Proxy
  BY <1>12, HoldingFrame DEF Proxy, Admit, Release, GateUnchanged, ctl, Alive, stopVars
<1>13. ASSUME NEW i \in Instances, ProcExit(i) PROVE Holding'
  <2>1. /\ UNCHANGED <<pc, st, inst, stopCh>> /\ proc' = [proc EXCEPT ![i] = "exited"]
    BY <1>13 DEF ProcExit, OsUnchanged, ctl, stopVars
  <2>2. proc'[inst] = "gone" => proc[inst] = "gone"
    BY <2>1 DEF Inv, TypeOK, ProcType
  <2> QED BY <2>1, <2>2 DEF Holding, Running, Alive
<1>14. ASSUME NEW i \in Instances, LoadGoroutine(i) PROVE Holding'
  BY <1>14, HoldingFrame
  DEF LoadGoroutine, LoadReady, LoadError, PostLoad, OsUnchanged, ctl, Alive, stopVars
<1>15. ASSUME NEW i \in Instances, StopGoroutine(i), Running', proc'[inst'] = "gone" PROVE Holding'
  <2>1. Alive /\ UNCHANGED <<pc, st, inst, zombie>>
    BY <1>15 DEF StopGoroutine, StopSucceeds, StopFails, OsUnchanged, ctl, zombieVars
  <2>2. stopJob[i] # "none" /\ stopCh = <<>>
    BY <1>15, <2>1 DEF StopGoroutine, StopSucceeds, StopFails, Inv, StopsAccountedFor
  <2>3. Running /\ proc[inst] # "gone"
    BY <1>15, <2>1, <2>2 DEF Holding, Running
  <2>4. inst \in Instances /\ ~zombieStopping
    BY <2>1, <2>3, NoZombieWhileRunning
  <2>5. i = inst /\ st = "PREEMPTING"
    BY <2>1, <2>2, <2>4 DEF Inv, StopsAccountedFor, TypeOK, ProcType
  <2>6. ~StopFails(i)
    BY <1>15, <2>1, <2>3, <2>4, <2>5 DEF StopFails, Inv, TypeOK, ProcType
  <2>7. PostStop(i, FALSE)
    BY <1>15, <2>6 DEF StopGoroutine, StopSucceeds
  <2>8. stopCh' = <<[cleanup |-> stopJob[i] = "cleanup", err |-> FALSE]>>
    BY <2>2, <2>7 DEF PostStop
  <2>9. stopCh' # <<>> /\ ~stopCh'[1].err
    BY <2>8
  <2> QED BY <2>1, <2>5, <2>9 DEF Holding
<1>16. CASE Tick \/ UNCHANGED vars
  BY <1>16, HoldingFrame DEF Tick, vars, ctl, Alive, stopVars
<1>17. ASSUME NEW i \in Instances, StopGoroutine(i) PROVE Holding'
  BY <1>15, <1>17 DEF Holding
<1> QED BY <1>3, <1>4, <1>5, <1>6, <1>7, <1>8, <1>9, <1>10, <1>11, <1>12, <1>13, <1>14, <1>16,
           <1>17 DEF Next, Work, Step

(* The initial state runs nothing.                                         *)
LEMMA HoldingInit == Init => Holding
  BY DEF Init, Holding, Running, RuntimeRunning


-----------------------------------------------------------------------------
(* The simulation.                                                         *)

(* The phases after a step.                                                *)
LEMMA PhaseNext ==
    /\ zombie' # NoInst => Phase' = "unverified"
    /\ zombie' = NoInst =>
          /\ st' \in Idle => Phase' = "released"
          /\ st' = "LOADING" => Phase' = "loading"
          /\ st' \in {"READY", "BUSY"} => Phase' = "serving"
          /\ st' = "DRAINING" => Phase' = "draining"
          /\ st' = "PREEMPTING" => Phase' = "stopping"
  BY DEF Phase, Idle

AbstractStep == Abstract!Next \/ UNCHANGED Abstract!vars

(* A runtime lost outside a stop.                                          *)
LEMMA LostSimulates ==
    ASSUME Inv, Holding, Alive, Running, st # "PREEMPTING", MakeZombie(inst), CloseGate,
           UNCHANGED proc
    PROVE  Abstract!Fail
<1>1. zombie = NoInst /\ inst \in Instances
  BY NoZombieWhileRunning
<1>2. Held /\ Held' = Held
  BY <1>1 DEF Holding, Held
<1>3. Phase \in {"loading", "serving", "draining"}
  BY <1>1, PhaseOf DEF Running, RuntimeRunning
<1>4. zombie' # NoInst
  BY <1>1, ControllerConfig DEF MakeZombie
<1>5. Phase' = "unverified"
  BY <1>4, PhaseNext
<1>6. (gate # NoInst)' = FALSE
  BY DEF CloseGate
<1> QED BY <1>2, <1>3, <1>5, <1>6 DEF Abstract!Fail

(* A stop begun by act().                                                  *)
LEMMA StopSimulates ==
    ASSUME Inv, Alive, st \in {"LOADING", "READY", "BUSY", "DRAINING"}, NEW y, beginStop(y),
           UNCHANGED <<zombie, proc>>
    PROVE  Abstract!Stop
<1>1. zombie = NoInst
  BY NoZombieWhileRunning DEF Running, RuntimeRunning
<1>2. Phase \in {"loading", "serving", "draining"}
  BY <1>1, PhaseOf
<1>3. st' = "PREEMPTING" /\ gate' = NoInst
  BY Transitions DEF beginStop, CloseGate
<1>4. Phase' = "stopping"
  BY <1>1, <1>3, PhaseNext
<1>5. (gate # NoInst)' = FALSE /\ Held' = Held
  BY <1>3 DEF Held
<1> QED BY <1>2, <1>4, <1>5 DEF Abstract!Stop

(* absorbAsync.                                                            *)
LEMMA AbsorbSimulates ==
    ASSUME Inv, Inv', Holding,
           \/ LoadResultStale \/ LoadResultOK \/ LoadResultFailed \/ NoLoadResult
           \/ OnStopped \/ OnStopFailed \/ OnZombieStopped
           \/ NothingToReap \/ RetryZombie \/ OnCrash
    PROVE  AbstractStep
<1>1. CASE LoadResultStale \/ NoLoadResult \/ NothingToReap \/ RetryZombie
  BY <1>1, Stutter DEF LoadResultStale, NoLoadResult, NothingToReap, RetryZombie, zombieVars,
                       gateVars, AbstractStep
<1>2. CASE LoadResultOK
  <2>1. /\ st = "LOADING" /\ st' = "READY" /\ UNCHANGED <<zombie, gate, proc>> /\ Alive
    BY <1>2, Transitions
    DEF LoadResultOK, StaleResult, TakeLoadResult, Alive, zombieVars, gateVars
  <2>2. zombie = NoInst
    BY <2>1 DEF Inv, Bookkeeping
  <2>3. Phase = "loading" /\ Phase' = "serving"
    BY <2>1, <2>2, PhaseOf, PhaseNext
  <2>4. Abstract!Loaded
    BY <2>1, <2>3 DEF Abstract!Loaded, Held
  <2> QED BY <2>4 DEF AbstractStep, Abstract!Next
<1>3. CASE LoadResultFailed
  <2>1. Abstract!Fail
    BY <1>3, LostSimulates
    DEF LoadResultFailed, StaleResult, TakeLoadResult, Alive, Running, RuntimeRunning
  <2> QED BY <2>1 DEF AbstractStep, Abstract!Next
<1>4. CASE OnCrash
  <2>1. Alive /\ inst # NoInst /\ st # "PREEMPTING"
    BY <1>4 DEF OnCrash, Absorbed, Crashed, Alive
  <2>2. Abstract!Fail
    BY <1>4, <2>1, LostSimulates DEF OnCrash, Inv, Bookkeeping
  <2> QED BY <2>2 DEF AbstractStep, Abstract!Next
<1>5. CASE OnStopped \/ OnStopFailed
  <2>1. /\ Alive /\ stopCh # <<>> /\ Head(stopCh) = stopCh[1] /\ ~stopCh[1].cleanup
        /\ UNCHANGED <<gate, proc>>
    <3>1. Alive /\ stopCh # <<>> /\ ~Head(stopCh).cleanup /\ UNCHANGED <<gate, proc>>
      BY <1>5 DEF OnStopped, OnStopFailed, TakeStopResult, Alive, gateVars
    <3> QED BY <3>1, LastResult
  <2>2. st = "PREEMPTING"
    BY <2>1 DEF Inv, StopsAccountedFor
  <2>3. Running
    BY <2>2 DEF Running, RuntimeRunning
  <2>4. zombie = NoInst /\ inst \in Instances /\ \A i \in Instances : proc[i] # "gone" => i = inst
    BY <2>1, <2>3, NoZombieWhileRunning
  <2>5. Phase = "stopping" /\ gate = NoInst
    BY <2>2, <2>4, PhaseOf DEF Inv, GateOnlyWhenServing, Admitting
  <2>6. CASE OnStopped
    <3>1. ~stopCh[1].err
      BY <2>1, <2>6 DEF OnStopped
    <3>2. ~Held /\ Held' = Held
      BY <2>1, <2>4, <3>1 DEF Inv, Bookkeeping, Held
    <3>3. zombie' = NoInst
      BY <2>4, <2>6 DEF OnStopped, zombieVars
    <3>4. st' \in Idle
      <4>1. "SUPPRESSED" \in Idle /\ "STOPPED" \in Idle
        BY DEF Idle
      <4> QED BY <2>2, <2>6, <4>1, Transitions DEF OnStopped
    <3>5. Phase' = "released"
      BY <3>3, <3>4, PhaseNext
    <3>6. Abstract!Release
      BY <2>1, <2>5, <3>2, <3>5 DEF Abstract!Release
    <3> QED BY <3>6 DEF AbstractStep, Abstract!Next
  <2>7. CASE OnStopFailed
    <3>1. stopCh[1].err
      BY <2>1, <2>7 DEF OnStopFailed
    <3>2. Held /\ Held' = Held
      BY <2>1, <2>3, <2>4, <3>1 DEF Holding, Held
    <3>3. zombie' # NoInst
      BY <2>4, <2>7, ControllerConfig DEF OnStopFailed
    <3>4. Phase' = "unverified" /\ gate' = NoInst
      BY <2>1, <2>5, <3>3, PhaseNext
    <3>5. Abstract!Fail
      BY <2>5, <3>2, <3>4 DEF Abstract!Fail
    <3> QED BY <3>5 DEF AbstractStep, Abstract!Next
  <2> QED BY <1>5, <2>6, <2>7
<1>6. CASE OnZombieStopped
  <2>1. /\ Alive /\ Alive' /\ stopCh # <<>> /\ Head(stopCh) = stopCh[1] /\ stopCh[1].cleanup
        /\ UNCHANGED <<st, gate, proc>>
    <3>1. Alive /\ Alive' /\ stopCh # <<>> /\ Head(stopCh).cleanup /\ UNCHANGED <<st, gate, proc>>
      BY <1>6 DEF OnZombieStopped, TakeStopResult, Alive, gateVars
    <3> QED BY <3>1, LastResult
  <2>2. zombie # NoInst /\ st = "ERROR"
    BY <2>1 DEF Inv, StopsAccountedFor, Bookkeeping
  <2>3. CASE stopCh[1].err
    BY <1>6, <2>1, <2>2, <2>3, Stutter DEF OnZombieStopped, AbstractStep
  <2>4. CASE ~stopCh[1].err
    <3>1. zombie' = NoInst /\ st' \in Idle
      BY <1>6, <2>1, <2>2, <2>4 DEF OnZombieStopped, Idle
    <3>2. Phase = "unverified" /\ Phase' = "released"
      BY <2>2, <3>1, PhaseOf, PhaseNext
    <3>3. \A i \in Instances : proc'[i] = "gone"
      BY <2>1, <2>2, <3>1, ControllerConfig DEF Inv, IdleMeansReleased, OneRuntime, Bookkeeping,
                                          Running, RuntimeRunning
    <3>4. ~Held /\ Held' = Held
      BY <2>1, <3>3 DEF Held
    <3>5. Abstract!Release
      BY <2>1, <3>2, <3>4 DEF Abstract!Release
    <3> QED BY <3>5 DEF AbstractStep, Abstract!Next
  <2> QED BY <2>3, <2>4
<1> QED BY <1>1, <1>2, <1>3, <1>4, <1>5, <1>6

(* act().                                                                  *)
LEMMA ActSimulates ==
    ASSUME Inv, Inv',
           \/ ActHold \/ StartLoad \/ StartFails \/ ActWait \/ ActCancelLoad
           \/ ActServe \/ ActPreempt \/ ActDrainIdle \/ ActDrain
           \/ ActDrainDone \/ ActDrainPreempt \/ ActDrainWait \/ ActGraceExpired
    PROVE  AbstractStep
<1> USE DEF ActUnchanged, zombieVars, gateVars
<1>0. pc = "act" /\ Alive /\ Alive'
  BY DEF ActHold, StartLoad, StartFails, ActWait, ActCancelLoad, ActServe, ActPreempt,
         ActDrainIdle, ActDrain, ActDrainDone, ActDrainPreempt, ActDrainWait, ActGraceExpired,
         Acting, Alive
<1>1. CASE ActWait \/ ActDrainWait
  BY <1>1, Stutter DEF ActWait, ActDrainWait, AbstractStep
<1>2. CASE ActHold \/ StartFails
  <2>1. st \in Idle /\ inst' = inst /\ UNCHANGED <<zombie, gate, proc>>
    BY <1>2 DEF ActHold, StartFails, Acting
  <2>2. inst' = NoInst
    BY <1>0, <2>1, QuietWhenIdle
  <2>3. st' \in Idle
    BY <1>0, <2>2, StatesSplit DEF Inv, Bookkeeping, Running, TypeOK, CtlType
  <2>4. Phase' = Phase
    BY <2>1, <2>3, PhaseOf, PhaseNext
  <2> QED BY <2>1, <2>4 DEF AbstractStep, Abstract!vars, Held
<1>3. CASE StartLoad
  <2>1. st \in Idle /\ zombie = NoInst /\ UNCHANGED <<zombie, gate>>
    BY <1>0, <1>3 DEF StartLoad, Acting, Inv, DecisionSafe
  <2>2. ~Held
    BY <1>0, <2>1, QuietWhenIdle DEF Held
  <2>3. Held'
    BY <1>3 DEF StartLoad, Held, Inv, TypeOK, ProcType
  <2>4. st' = "LOADING"
    BY <1>3, <2>1, Transitions DEF StartLoad
  <2>5. Phase = "released" /\ Phase' = "loading"
    BY <2>1, <2>4, PhaseOf, PhaseNext
  <2>6. Abstract!Load
    BY <2>1, <2>2, <2>3, <2>5 DEF Abstract!Load
  <2> QED BY <2>6 DEF AbstractStep, Abstract!Next
<1>4. CASE \/ ActCancelLoad \/ ActPreempt \/ ActDrainIdle \/ ActDrainDone
           \/ ActDrainPreempt \/ ActGraceExpired
  <2>1. Abstract!Stop
    BY <1>0, <1>4, StopSimulates
    DEF ActCancelLoad, ActPreempt, ActDrainIdle, ActDrainDone, ActDrainPreempt, ActGraceExpired,
        Acting
  <2> QED BY <2>1 DEF AbstractStep, Abstract!Next
<1>5. ASSUME st \in {"READY", "BUSY"} PROVE zombie = NoInst /\ Phase = "serving"
  BY <1>0, <1>5, PhaseOf DEF Inv, Bookkeeping
<1>6. CASE ActServe
  <2>1. /\ st \in {"READY", "BUSY"} /\ st' \in {"READY", "BUSY"}
        /\ UNCHANGED <<inst, zombie, proc>>
        /\ gate' = IF gate = NoInst THEN inst ELSE gate
    BY <1>6 DEF ActServe, Acting
  <2>2. Phase = "serving" /\ Phase' = "serving"
    BY <1>5, <2>1, PhaseNext
  <2>3. inst # NoInst
    BY <1>0, <2>1 DEF Inv, Bookkeeping, Running, RuntimeRunning
  <2>4. CASE gate = NoInst
    <3>1. Abstract!Open
      BY <2>1, <2>2, <2>3, <2>4 DEF Abstract!Open, Held
    <3> QED BY <3>1 DEF AbstractStep, Abstract!Next
  <2>5. CASE gate # NoInst
    BY <2>1, <2>2, <2>5 DEF AbstractStep, Abstract!vars, Held
  <2> QED BY <2>4, <2>5
<1>7. CASE ActDrain
  <2>1. st \in {"READY", "BUSY"} /\ st' = "DRAINING" /\ gate' = NoInst /\ UNCHANGED <<zombie, proc>>
    BY <1>7, Transitions DEF ActDrain, Acting, CloseGate
  <2>2. Phase = "serving" /\ Phase' = "draining"
    BY <1>5, <2>1, PhaseNext
  <2>3. Abstract!Drain
    BY <2>1, <2>2 DEF Abstract!Drain, Held
  <2> QED BY <2>3 DEF AbstractStep, Abstract!Next
<1> QED BY <1>1, <1>2, <1>3, <1>4, <1>6, <1>7


(* Shutdown returns: what was still running is stopped, or is left as it   *)
(* is when the kill fails.                                                 *)
LEMMA ShutdownSimulates == ASSUME Inv, ShutdownReturns PROVE AbstractStep
<1>1. /\ Alive /\ st \in Idle \cup {"PREEMPTING"} /\ UNCHANGED <<st, zombie, gate>>
  BY DEF ShutdownReturns, Alive, zombieVars, gateVars
<1>2. CASE proc' = proc
  BY <1>1, <1>2, Stutter DEF AbstractStep
<1>3. CASE proc' # proc
  <2>1. proc' = [i \in Instances |-> IF i = inst THEN "gone" ELSE proc[i]]
    BY <1>3 DEF ShutdownReturns
  <2>2. inst \in Instances
    BY <1>3, <2>1 DEF Inv, TypeOK, ProcType
  <2>3. Running
    BY <1>1, <2>2, ControllerConfig DEF Inv, Bookkeeping
  <2>4. st = "PREEMPTING"
    BY <1>1, <2>3, StatesSplit DEF Running, State
  <2>5. zombie = NoInst /\ \A i \in Instances : proc[i] # "gone" => i = inst
    BY <1>1, <2>3, NoZombieWhileRunning
  <2>6. ~Held'
    BY <2>1, <2>5 DEF Held
  <2>7. Phase = "stopping" /\ Phase' = Phase
    BY <1>1, <2>4, <2>5, PhaseOf, PhaseNext
  <2>8. Held' = FALSE
    BY <2>6 DEF Held
  <2>9. Abstract!Emptied
    BY <1>1, <2>7, <2>8 DEF Abstract!Emptied
  <2> QED BY <2>9 DEF AbstractStep, Abstract!Next
<1> QED BY <1>2, <1>3

(* Processes and goroutines.                                               *)
LEMMA ConcurrentSimulates ==
    ASSUME Inv, NEW i \in Instances, ProcExit(i) \/ LoadGoroutine(i) \/ StopGoroutine(i)
    PROVE  AbstractStep
<1>1. UNCHANGED <<st, zombie, gate>>
  BY DEF ProcExit, LoadGoroutine, LoadReady, LoadError, PostLoad, StopGoroutine, StopSucceeds,
         StopFails, OsUnchanged, ctl, zombieVars, gateVars
<1>2. Phase' = Phase
  BY <1>1 DEF Phase
<1>3. CASE \A j \in Instances : proc'[j] = "gone" <=> proc[j] = "gone"
  <2>1. Held' = Held
    BY <1>3 DEF Held
  <2> QED BY <1>1, <1>2, <2>1 DEF AbstractStep, Abstract!vars
<1>4. CASE ~ \A j \in Instances : proc'[j] = "gone" <=> proc[j] = "gone"
  <2>1. StopSucceeds(i)
    BY <1>4 DEF ProcExit, LoadGoroutine, LoadReady, LoadError, PostLoad, StopGoroutine, StopFails,
                Inv, TypeOK, ProcType
  <2>2. proc' = [proc EXCEPT ![i] = "gone"] /\ stopJob[i] # "none" /\ Alive
    BY <1>4, <2>1 DEF StopSucceeds, ProcExit, LoadGoroutine, LoadReady, LoadError, PostLoad,
                      StopGoroutine, Inv, TypeOK, ProcType
  <2>3. proc[i] # "gone"
    BY <1>4, <2>2 DEF Inv, TypeOK, ProcType
  <2>4. \A j \in Instances : proc'[j] = "gone"
    BY <2>2, <2>3 DEF Inv, OneRuntime, TypeOK, ProcType
  <2>5. Held' = FALSE
    BY <2>4 DEF Held
  <2>6. Phase \in {"stopping", "unverified"}
    <3>1. zombie # NoInst \/ st = "PREEMPTING"
      BY <2>2 DEF Inv, StopsAccountedFor, TypeOK, ProcType
    <3> QED BY <3>1, PhaseOf
  <2>7. Abstract!Emptied
    BY <1>1, <1>2, <2>5, <2>6 DEF Abstract!Emptied
  <2> QED BY <2>7 DEF AbstractStep, Abstract!Next
<1> QED BY <1>3, <1>4

(* Every step of the controller is a step of the lifecycle or a stutter.   *)
LEMMA Simulates ==
    Inv /\ Inv' /\ Holding /\ [Next]_vars => [Abstract!Next]_(Abstract!vars)
<1> SUFFICES ASSUME Inv, Inv', Holding, [Next]_vars PROVE AbstractStep
  BY DEF AbstractStep
<1>1. CASE Step
  <2>1. CASE Decide
    BY <2>1, Stutter DEF Decide, zombieVars, gateVars, AbstractStep
  <2> QED BY <1>1, <2>1, AbsorbSimulates, ActSimulates DEF Step
<1>2. CASE Api
  <2>1. CASE SetMode \/ RequestManual \/ UpdateConfig \/ PrepareSuspend \/ Resumed \/ Shutdown
    BY <2>1, Stutter DEF SetMode, RequestManual, UpdateConfig, PrepareSuspend, Resumed, Shutdown,
                         ApiUnchanged, zombieVars, gateVars, AbstractStep
  <2> QED BY <1>2, <2>1, ShutdownSimulates DEF Api
<1>3. CASE Proxy
  BY <1>3, Stutter DEF Proxy, Admit, Release, GateUnchanged, ctl, zombieVars, AbstractStep
<1>4. CASE \E i \in Instances : ProcExit(i) \/ LoadGoroutine(i) \/ StopGoroutine(i)
  BY <1>4, ConcurrentSimulates
<1>5. CASE Tick \/ UNCHANGED vars
  BY <1>5, Stutter DEF Tick, vars, ctl, zombieVars, gateVars, AbstractStep
<1> QED BY <1>1, <1>2, <1>3, <1>4, <1>5 DEF Next, Work

(* The initial states correspond.                                          *)
LEMMA InitSimulates == Init => Abstract!Init
<1> SUFFICES ASSUME Init PROVE Abstract!Init
  OBVIOUS
<1>1. Phase = "released"
  BY PhaseOf DEF Init, Idle
<1>2. Held = FALSE /\ (gate # NoInst) = FALSE
  BY DEF Init, Held
<1> QED BY <1>1, <1>2 DEF Abstract!Init

(* The controller, with its gate, goroutines, faults and shutdown,         *)
(* implements the lifecycle specification: at most one runtime, admission  *)
(* only while it serves, never reopened on the way down, and release only  *)
(* after verification.                                                     *)
THEOREM ImplementsLifecycle == Spec => Refines
<1>1. Spec => []Holding
  <2>1. Inv /\ Inv' /\ Holding /\ [Next]_vars => Holding'
    BY HoldingNext
  <2> QED BY <2>1, Invariant, HoldingInit, PTL DEF Spec
<1>2. Spec => [][Abstract!Next]_(Abstract!vars)
  BY <1>1, Invariant, Simulates, PTL DEF Spec
<1> QED BY <1>2, InitSimulates, PTL DEF Spec, Refines, Abstract!Spec


=============================================================================
