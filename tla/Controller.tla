----------------------------- MODULE Controller -----------------------------
(***************************************************************************)
(* The lifecycle controller (src/internal/controller) with the admission   *)
(* gate (src/internal/proxy/gate.go), the load and stop goroutines and the *)
(* runtime process trees they act on.                                      *)
(*                                                                         *)
(* step() holds the controller mutex from start to end, so API calls and   *)
(* other steps never interleave with it; the gate has a mutex of its own,  *)
(* and processes and goroutines need none.  A step is therefore split at   *)
(* the points where those can interleave: absorb one load result, absorb   *)
(* each stop result, reap and detect a crash, decide, act.  Everything     *)
(* that takes the controller mutex is guarded by pc = "idle".              *)
(*                                                                         *)
(* Times are ages and remaining times advanced by Tick, saturating at      *)
(* AgeCap, past which no comparison in the code can tell them apart.       *)
(***************************************************************************)
EXTENDS Policy

CONSTANTS
    Instances,     \* runtime instances (process trees); recycled once forgotten
    Requests,      \* inference requests; recycled once released
    NoInst,        \* nil instance
    Observations,  \* what one observation of the machine can report
    ModeLengths,   \* durations SetMode is called with
    MaxAIPriority, \* the longest AI Priority may last
    Env,           \* which environment events happen in this instance
    LoadBlocked,   \* Deps.LoadBlocked is set: secrets are unprotected
    Startup, Resume, CrashBackoff, TelemetryBackoff, ResetBackoff,
    ZombieBackoff, DeviceLostCooldown, CrashResetAfter, ResetMerge,
    CountCap,      \* bound on the escalation counters
    AgeCap         \* bound on ages

EnvEvents == {"crash", "loadfail", "startfail", "killfail", "gpureset", "suspend",
              "shutdown", "config", "manual", "mode", "setup"}

(* A wait that starts at first and doubles on every repetition up to max:  *)
(* backoff, zombieBackoff and the loops of trackTelemetryHealth and        *)
(* checkGPUResets.  At CountCap the wait has reached its maximum, so       *)
(* saturating the counter there loses nothing.                             *)
Escalates(wait) ==
    LET max == wait[CountCap] IN
    /\ wait \in [1..CountCap -> Nat]
    /\ \A n \in 1..(CountCap - 1) :
          wait[n + 1] = IF 2 * wait[n] < max THEN 2 * wait[n] ELSE max

ASSUME ControllerConfig ==
    /\ NoInst \notin Instances
    /\ Env \subseteq EnvEvents
    /\ LoadBlocked \in BOOLEAN
    /\ CountCap \in Nat \ {0}
    /\ AgeCap \in Nat
    /\ ModeLengths \subseteq (Nat \ {0}) /\ MaxAIPriority \in Nat \ {0}
    /\ {Startup, Resume, DeviceLostCooldown, CrashResetAfter, ResetMerge} \subseteq Nat
    /\ \A w \in {CrashBackoff, TelemetryBackoff, ResetBackoff, ZombieBackoff} : Escalates(w)
    /\ {CrashResetAfter, ResetMerge, Cfg.suppressFor} \subseteq 0..AgeCap
    /\ \A n \in 1..CountCap : ResetBackoff[n] <= AgeCap
    /\ \A p \in ProfileName : Profiles[p].cooldown <= AgeCap /\ Profiles[p].grace <= AgeCap

VARIABLES
    \* the controller, under its mutex
    pc,             \* where the current step is; "idle" when the mutex is free
    st,             \* lifecycle state
    inst,           \* the runtime the controller runs
    zombie,         \* a runtime whose termination is not verified
    zombieStopping, \* a cleanup stop of the zombie is in flight
    zombieAttempts, zombieWait,
    decision,       \* the decision of this step, while it is being acted on
    yield,          \* the decision that started the current yield
    drainAge, drainLen, \* time since the drain began; its allowance
    manual,         \* manualPending
    outdated,       \* the runtime was started with an earlier runtime configuration
    mode, modeLeft,
    timers, power, setupProblem,
    crashCount, telemetryLost, telemetryLosses, gpuResets, sinceReset, loadedAge,
    \* the gate, under its own mutex
    gate,           \* the instance requests are admitted to; NoInst while closed
    reqInst, cut,   \* instance each active request was admitted to; cancelled ones
    \* process trees and goroutines
    proc,           \* process tree: "up", "exited" (root gone) or "gone" (verified)
    loadJob,        \* WaitReady goroutine of each instance
    readyCh, stopJob, stopCh

ctl == <<pc, st, inst, decision>>
zombieVars == <<zombie, zombieStopping, zombieAttempts, zombieWait>>
yieldVars == <<yield, drainAge, drainLen, manual>>
modeVars == <<mode, modeLeft>>
factVars == <<setupProblem, telemetryLost>>
counters == <<crashCount, telemetryLosses, gpuResets, sinceReset, loadedAge>>
gateVars == <<gate, reqInst, cut>>
loadVars == <<loadJob, readyCh>>
stopVars == <<stopJob, stopCh>>
vars == <<ctl, zombieVars, yieldVars, outdated, modeVars, timers, power, factVars,
          counters, gateVars, proc, loadVars, stopVars>>

-----------------------------------------------------------------------------
(* The lifecycle states and their legal transitions (state.go).            *)

RuntimeRunning(s) == s \in {"LOADING", "READY", "BUSY", "DRAINING", "PREEMPTING"}
Admitting(s) == s \in {"READY", "BUSY"}
State == Idle \cup {"LOADING", "READY", "BUSY", "DRAINING", "PREEMPTING"}

CanTransition(from, to) ==
    \/ from \in Idle /\ to \in Idle
    \/ from = "STOPPED" /\ to = "LOADING"
    \/ from = "LOADING" /\ to \in {"READY", "PREEMPTING", "ERROR"}
    \/ from = "READY" /\ to \in {"BUSY", "DRAINING", "PREEMPTING", "ERROR"}
    \/ from = "BUSY" /\ to \in {"READY", "DRAINING", "PREEMPTING", "ERROR"}
    \/ from = "DRAINING" /\ to \in {"PREEMPTING", "ERROR"}
    \/ from = "PREEMPTING" /\ to \in Idle

(* transition(): an illegal transition is refused and leaves the state.    *)
Transition(from, to) == IF CanTransition(from, to) THEN to ELSE from

-----------------------------------------------------------------------------
(* Helpers *)

Running == RuntimeRunning(st)

NoYield == [manual |-> "none", counts |-> FALSE, suppress |-> FALSE,
            idle |-> "none", wait |-> 0]
NoDecision == [action |-> "none", grace |-> 0, idle |-> "none", present |-> FALSE,
               yield |-> NoYield]

Active == {r \in Requests : reqInst[r] # NoInst}

Older(age) == IF age < AgeCap THEN age + 1 ELSE AgeCap
Sooner(left) == IF left = 0 \/ left = Forever THEN left ELSE left - 1
Bump(n) == IF n < CountCap THEN n + 1 ELSE CountCap

setRecovery_Overwrites(t, wait, fault) ==
    [t EXCEPT !.recoveryLeft = wait, !.recoveryFault = fault]

(* setRecovery only ever extends the recovery deadline.                    *)
setRecovery(t, wait, fault) ==
    IF wait > t.recoveryLeft
    THEN [t EXCEPT !.recoveryLeft = wait, !.recoveryFault = fault]
    ELSE t

manualKind(rule) ==
    CASE rule = "manual.drain" -> "drain"
      [] rule = "manual.reload" -> "reload"
      [] OTHER -> "none"

CloseGate_LeftOpen == UNCHANGED <<gate, reqInst>>

CloseGate == gate' = NoInst /\ UNCHANGED reqInst

ForceCloseAll_Forgotten == UNCHANGED cut

ForceCloseAll == cut' = cut \cup Active

(* retryZombie with the wait over: run Stop again in a goroutine.          *)
StartCleanup(z) ==
    /\ zombieStopping' = TRUE
    /\ stopJob' = [stopJob EXCEPT ![z] = "cleanup"]

(* A crash or a failed load leaves the runtime as a zombie whose first     *)
(* cleanup starts at once.                                                 *)
MakeZombie(z) ==
    /\ zombie' = z
    /\ zombieAttempts' = 0
    /\ zombieWait' = 0
    /\ IF zombieStopping THEN UNCHANGED <<zombieStopping, stopJob>> ELSE StartCleanup(z)

backoff ==
    /\ crashCount' = Bump(crashCount)
    /\ timers' = setRecovery(timers, CrashBackoff[Bump(crashCount)], TRUE)

-----------------------------------------------------------------------------
(* Init: New and Start.  Nothing runs, orphans of a previous run have been *)
(* reconciled away, and the startup cooldown is set.                       *)

Init ==
    /\ pc = "idle" /\ st = "STOPPED" /\ inst = NoInst /\ decision = NoDecision
    /\ zombie = NoInst /\ zombieStopping = FALSE /\ zombieAttempts = 0 /\ zombieWait = 0
    /\ yield = NoYield /\ drainAge = 0 /\ drainLen = 0 /\ manual = "none"
    /\ outdated = FALSE /\ mode = "auto" /\ modeLeft = Forever
    /\ timers = [sinceCompeting |-> AgeCap, lastCompetingRule |-> "",
                 sinceSuppressed |-> AgeCap, recoveryLeft |-> Startup,
                 recoveryFault |-> FALSE, preemptions |-> <<>>]
    /\ power = [shuttingDown |-> FALSE, suspending |-> FALSE, deviceLost |-> FALSE]
    /\ setupProblem = FALSE /\ telemetryLost = FALSE
    /\ crashCount = 0 /\ telemetryLosses = 0 /\ gpuResets = 0
    /\ sinceReset = AgeCap /\ loadedAge = 0
    /\ gate = NoInst /\ reqInst = [r \in Requests |-> NoInst] /\ cut = {}
    /\ proc = [i \in Instances |-> "gone"]
    /\ loadJob = [i \in Instances |-> "none"] /\ readyCh = <<>>
    /\ stopJob = [i \in Instances |-> "none"] /\ stopCh = <<>>

-----------------------------------------------------------------------------
(* A step begins: absorbAsync takes at most one load result.               *)

(* Bound: a step begins only while some instance has no load goroutine, so *)
(* at most |Instances| - 1 of them are outstanding.                        *)
SpareInstance == \E i \in Instances : loadJob[i] = "none"

NoLoadResult ==
    /\ pc = "idle"
    /\ SpareInstance
    /\ readyCh = <<>>
    /\ pc' = "absorb"
    /\ UNCHANGED <<st, inst, decision, zombieVars, yieldVars, outdated, modeVars, timers, power,
                   factVars, counters, gateVars, proc, loadVars, stopVars>>

TakeLoadResult == /\ pc = "idle"
                  /\ SpareInstance
                  /\ readyCh # <<>>
                  /\ pc' = "absorb"
                  /\ readyCh' = Tail(readyCh)

StaleResult_IgnoresErrors(r) == r.inst # inst \/ st # "LOADING" \/ ~r.ok

StaleResult(r) == r.inst # inst \/ st # "LOADING"

(* onLoadResult: a result for a load that was cancelled is ignored.        *)
LoadResultStale ==
    /\ TakeLoadResult
    /\ StaleResult(Head(readyCh))
    /\ UNCHANGED <<st, inst, decision, zombieVars, yieldVars, outdated, modeVars, timers, power,
                   factVars, counters, gateVars, proc, loadJob, stopVars>>

(* onLoadResult: the model is loaded.  The gate opens in act(), once this  *)
(* step's decision confirms that the worker may run.                       *)
LoadResultOK ==
    /\ TakeLoadResult
    /\ ~StaleResult(Head(readyCh))
    /\ Head(readyCh).ok
    /\ st' = Transition(st, "READY")
    /\ loadedAge' = 0
    /\ UNCHANGED <<inst, decision, zombieVars, yieldVars, outdated, modeVars, timers, power, factVars,
                   crashCount, telemetryLosses, gpuResets, sinceReset, gateVars, proc,
                   loadJob, stopVars>>

(* onLoadResult: the load failed; its process tree is cleaned up as a      *)
(* zombie and the next load waits for the crash backoff (loadFailed).      *)
LoadResultFailed ==
    /\ TakeLoadResult
    /\ ~StaleResult(Head(readyCh))
    /\ ~Head(readyCh).ok
    /\ inst' = NoInst
    /\ MakeZombie(inst)
    /\ CloseGate /\ UNCHANGED cut
    /\ backoff
    /\ st' = Transition(st, "ERROR")
    /\ UNCHANGED <<decision, yieldVars, outdated, modeVars, power, factVars, telemetryLosses,
                   gpuResets, sinceReset, loadedAge, proc, loadJob, stopCh>>

-----------------------------------------------------------------------------
(* absorbAsync drains the stop results.                                    *)

TakeStopResult(cleanup) ==
    /\ pc = "absorb"
    /\ stopCh # <<>>
    /\ Head(stopCh).cleanup = cleanup
    /\ stopCh' = Tail(stopCh)
    /\ UNCHANGED pc

EndYield ==
    /\ inst' = NoInst
    /\ yield' = NoYield /\ drainAge' = 0 /\ drainLen' = 0
    /\ manual' = "none"

(* pruneTimes: preemptions are recorded oldest first, so those that have   *)
(* left the window are a prefix.                                           *)
pruned(ages) ==
    LET left == {k \in DOMAIN ages : ages[k] > Cfg.window}
    IN  SubSeq(ages, Cardinality(left) + 1, Len(ages))

(* The newest entries that can matter: wouldSuppress only asks whether one *)
(* more reaches maxPreemptions.                                            *)
RecordPreemption(ages) ==
    LET all == Append(pruned(ages), 0) IN
    IF Len(all) <= Cfg.maxPreemptions THEN all ELSE Tail(all)

(* onStopped: the tree is verified empty.  The yield's bookkeeping decides *)
(* anti-thrashing, the manual-drain wait and the idle state.               *)
OnStopped ==
    /\ TakeStopResult(FALSE)
    /\ ~Head(stopCh).err
    /\ EndYield
    /\ LET counted == IF yield.counts
                      THEN [timers EXCEPT !.preemptions = RecordPreemption(@)] ELSE timers
           idle == IF yield.suppress THEN "SUPPRESSED"
                   ELSE IF yield.idle \in Idle THEN yield.idle ELSE "STOPPED"
       IN  /\ timers' = IF yield.suppress THEN [counted EXCEPT !.sinceSuppressed = 0]
                        ELSE IF yield.manual = "drain"
                        THEN setRecovery(counted, yield.wait, FALSE)
                        ELSE counted
           /\ st' = Transition(st, idle)
    /\ UNCHANGED <<decision, zombieVars, outdated, modeVars, power, factVars, counters, gateVars,
                   proc, loadVars, stopJob>>

OnStopFailed_TakenAsDone ==
    /\ TakeStopResult(FALSE)
    /\ Head(stopCh).err
    /\ EndYield
    /\ st' = Transition(st, "STOPPED")
    /\ UNCHANGED <<decision, zombieVars, outdated, modeVars, timers, power, factVars, counters,
                   gateVars, proc, loadVars, stopJob>>

(* onStopped with an error: termination is unverified, so the runtime      *)
(* becomes the zombie and no load may start.                               *)
OnStopFailed ==
    /\ TakeStopResult(FALSE)
    /\ Head(stopCh).err
    /\ EndYield
    /\ zombie' = inst
    /\ zombieAttempts' = 1
    /\ zombieWait' = ZombieBackoff[1]
    /\ timers' = setRecovery(timers, DeviceLostCooldown, TRUE)
    /\ st' = Transition(st, "ERROR")
    /\ UNCHANGED <<decision, zombieStopping, outdated, modeVars, power, factVars, counters, gateVars,
                   proc, loadVars, stopJob>>

OnZombieStopped_StillStopping ==
    /\ TakeStopResult(TRUE)
    /\ IF zombie # NoInst /\ Head(stopCh).err
       THEN /\ zombieAttempts' = Bump(zombieAttempts)
            /\ zombieWait' = ZombieBackoff[Bump(zombieAttempts)]
            /\ UNCHANGED <<zombie, zombieStopping>>
       ELSE /\ zombie' = NoInst /\ zombieStopping' = FALSE
            /\ UNCHANGED <<zombieAttempts, zombieWait>>
    /\ UNCHANGED <<st, inst, decision, yieldVars, outdated, modeVars, timers, power, factVars, counters,
                   gateVars, proc, loadVars, stopJob>>

(* onZombieStopped: cleanup verified, or failed and retried after backoff. *)
OnZombieStopped ==
    /\ TakeStopResult(TRUE)
    /\ zombieStopping' = FALSE
    /\ IF zombie # NoInst /\ Head(stopCh).err
       THEN /\ zombieAttempts' = Bump(zombieAttempts)
            /\ zombieWait' = ZombieBackoff[Bump(zombieAttempts)]
            /\ UNCHANGED zombie
       ELSE /\ zombie' = NoInst
            /\ UNCHANGED <<zombieAttempts, zombieWait>>
    /\ UNCHANGED <<st, inst, decision, yieldVars, outdated, modeVars, timers, power, factVars, counters,
                   gateVars, proc, loadVars, stopJob>>

-----------------------------------------------------------------------------
(* The end of absorbAsync: retryZombie, then crash detection.              *)

Absorbed == pc = "absorb" /\ stopCh = <<>> /\ pc' = "decide"

RetryDue == zombie # NoInst /\ ~zombieStopping /\ zombieWait = 0
Crashed == inst # NoInst /\ st # "PREEMPTING" /\ proc[inst] # "up"

NothingToReap ==
    /\ Absorbed
    /\ ~RetryDue /\ ~Crashed
    /\ UNCHANGED <<st, inst, decision, zombieVars, yieldVars, outdated, modeVars, timers, power,
                   factVars, counters, gateVars, proc, loadVars, stopVars>>

RetryZombie ==
    /\ Absorbed
    /\ RetryDue /\ ~Crashed
    /\ StartCleanup(zombie)
    /\ UNCHANGED <<st, inst, decision, zombie, zombieAttempts, zombieWait, yieldVars, outdated, modeVars,
                   timers, power, factVars, counters, gateVars, proc, loadVars, stopCh>>

(* onCrash: the root exited outside a stop.  Requests are cut, what is     *)
(* left of the tree becomes the zombie, and loading backs off.             *)
OnCrash ==
    /\ Absorbed
    /\ Crashed
    /\ inst' = NoInst
    /\ CloseGate /\ ForceCloseAll
    /\ MakeZombie(inst)
    /\ yield' = NoYield /\ drainAge' = 0 /\ drainLen' = 0
    /\ backoff
    /\ st' = Transition(st, "ERROR")
    /\ UNCHANGED <<decision, manual, outdated, modeVars, power, factVars, telemetryLosses, gpuResets,
                   sinceReset, loadedAge, proc, loadVars, stopCh>>
-----------------------------------------------------------------------------
(* The decision.  Each operator below is one stage of step(), from the     *)
(* state before the stage to the state after it.                           *)

(* checkGPUResets: what the stage does to the power facts and the timers.  *)
(* Reports within ResetMerge of the last incident belong to it.            *)
Merged == sinceReset < ResetMerge

PowerAfterResets(reset) ==
    LET lost == \/ power.deviceLost
                \/ reset /\ ~Merged
                \/ reset /\ Running
    IN  [power EXCEPT !.deviceLost =
            lost /\ (Running \/ inst # NoInst \/ zombie # NoInst)]

TimersAfterResets(reset) ==
    IF reset /\ ~Merged
    THEN setRecovery(timers, ResetBackoff[Bump(gpuResets)], TRUE)
    ELSE timers

(* trackTelemetryHealth: the end of a sustained loss starts an escalating  *)
(* recovery wait.                                                          *)
LostAfter(gpu) == gpu.confidence = "none" /\ (telemetryLost \/ gpu.noneForGrace)
Recovered(gpu) == telemetryLost /\ gpu.confidence # "none"

TimersAfterTelemetry(t, gpu) ==
    IF Recovered(gpu)
    THEN setRecovery(t, TelemetryBackoff[Bump(telemetryLosses)], TRUE)
    ELSE t

ModeOver == modeLeft = 0

snapshot_StalePower(o, pow, t, problem) ==
    [mode |-> mode, modeLeft |-> modeLeft, scheduled |-> o.scheduled, running |-> Running,
     setupProblem |-> problem, gpu |-> o.gpu, apps |-> o.apps, session |-> o.session,
     power |-> power, timers |-> t]

snapshot(o, pow, t, problem) ==
    [mode |-> IF ModeOver THEN "auto" ELSE mode,
     modeLeft |-> IF ModeOver THEN Forever ELSE modeLeft,
     scheduled |-> o.scheduled, running |-> Running, setupProblem |-> problem,
     gpu |-> o.gpu, apps |-> o.apps, session |-> o.session, power |-> pow, timers |-> t]

(* A manual drain or reload never overrides a yield or a hold, and lapses  *)
(* when nothing runs.                                                      *)
ManualApplies(d) == manual # "none" /\ ~Yields(d.action) /\ Running
ManualLapses(d) == ~Running /\ d.action = "run"

applyManual_KeepsState(d, p) ==
    IF ~ManualApplies(d) THEN d ELSE [d EXCEPT !.action = "drain", !.idle = st]

applyManual(d, p) ==
    IF ~ManualApplies(d) THEN d
    ELSE [d EXCEPT !.action = "drain", !.tier = 2,
                   !.competing = FALSE, !.counts = FALSE, !.suppress = FALSE,
                   !.rule = IF manual = "reload" THEN "manual.reload" ELSE "manual.drain",
                   !.idle = IF manual = "reload" THEN "STOPPED" ELSE "COOLDOWN",
                   !.grace = p.grace]

applyZombie_Forgets(d) == d

(* Nothing loads while a previous runtime is unverified.                   *)
applyZombie(d) ==
    IF zombie = NoInst \/ Running THEN d
    ELSE IF d.action # "run" THEN [d EXCEPT !.idle = "ERROR"]
    ELSE [d EXCEPT !.action = "hold", !.rule = "safety.runtime_unverified",
                   !.tier = 1, !.idle = "ERROR"]

(* Nothing loads while the secrets are unprotected.                        *)
applyLoadBlocked(d) ==
    IF ~LoadBlocked \/ Running THEN d
    ELSE [d EXCEPT !.action = "hold", !.rule = "safety.secrets_unprotected", !.tier = 1,
                   !.competing = FALSE, !.grace = 0, !.counts = FALSE, !.suppress = FALSE,
                   !.idle = "ERROR", !.nextLoad = 0]

Verdict(snap) ==
    applyLoadBlocked(applyZombie(
        applyManual(Evaluate(snap), Profiles[ProfileOf(snap)])))

(* What act() and onStopped need of the decision: its yield is precomputed *)
(* because the profile that sets the manual-drain wait may have changed by *)
(* the time the stop completes.                                            *)
YieldOf(d, p) ==
    [manual |-> manualKind(d.rule), counts |-> d.counts, suppress |-> d.suppress,
     idle |-> d.idle, wait |-> IF d.rule = "manual.drain" THEN p.cooldown ELSE 0]

(* The evaluator asks of LastCompetingRule only whether it is one of the   *)
(* utilization rules.                                                      *)
RuleKind(rule) == IF rule \in UtilRules THEN rule ELSE ""

(* Whether any competing workload was observed, reported or not.           *)
Present(snap) == \E r \in CompetingRules : Applies(r, snap)

LastCompeting_WhenCounted(t, d) ==
    IF d.counts
    THEN [t EXCEPT !.sinceCompeting = 0, !.lastCompetingRule = RuleKind(d.rule)]
    ELSE t

(* step() records LastCompetingAt while a competing workload is reported.  *)
LastCompeting(t, d) ==
    IF d.competing
    THEN [t EXCEPT !.sinceCompeting = 0, !.lastCompetingRule = RuleKind(d.rule)]
    ELSE t

SetupAnswers == IF ~Running /\ "setup" \in Env THEN BOOLEAN ELSE {setupProblem}
ResetReports == IF "gpureset" \in Env THEN BOOLEAN ELSE {FALSE}

(* From checkGPUResets to the recorded decision: driver resets, expired    *)
(* modes, an observation of the machine (or the previous one again),       *)
(* telemetry health, setup, policy, overrides, LastCompetingAt.            *)
DecideOn(reset, o, problem) ==
    LET pow  == PowerAfterResets(reset)
        t    == TimersAfterTelemetry(TimersAfterResets(reset), o.gpu)
        snap == snapshot(o, pow, t, problem)
    IN  /\ power' = pow
        /\ gpuResets' = IF reset /\ ~Merged THEN Bump(gpuResets) ELSE gpuResets
        /\ sinceReset' = IF reset /\ ~Merged THEN 0 ELSE sinceReset
        /\ mode' = snap.mode /\ modeLeft' = snap.modeLeft
        /\ telemetryLost' = LostAfter(o.gpu)
        /\ telemetryLosses' = IF Recovered(o.gpu) THEN Bump(telemetryLosses)
                              ELSE telemetryLosses
        /\ setupProblem' = problem
        /\ manual' = IF manual # "none" /\ ManualLapses(Evaluate(snap)) THEN "none" ELSE manual
        /\ \E d \in {Verdict(snap)} :
              /\ timers' = LastCompeting(t, d)
              /\ decision' = [action |-> d.action, grace |-> d.grace, idle |-> d.idle,
                              present |-> Present(snap),
                              yield |-> YieldOf(d, Profiles[ProfileOf(snap)])]

Decide ==
    /\ pc = "decide" /\ pc' = "act"
    /\ \E reset \in ResetReports, o \in Observations, problem \in SetupAnswers :
          DecideOn(reset, o, problem)
    /\ UNCHANGED <<st, inst, zombieVars, yield, drainAge, drainLen, outdated, crashCount, loadedAge,
                   gateVars, proc, loadVars, stopVars>>
-----------------------------------------------------------------------------
(* act(), then checkCrashReset: a runtime that has been up long enough     *)
(* clears the escalation counters.                                         *)

checkCrashReset(s) ==
    /\ IF Admitting(s) /\ loadedAge >= CrashResetAfter
       THEN crashCount' = 0 /\ telemetryLosses' = 0 /\ gpuResets' = 0
       ELSE UNCHANGED <<crashCount, telemetryLosses, gpuResets>>
    /\ UNCHANGED <<sinceReset, loadedAge>>

Acting(states) == pc = "act" /\ st \in states /\ pc' = "idle" /\ decision' = NoDecision

ActUnchanged == UNCHANGED <<zombieVars, outdated, modeVars, power, factVars>>

(* beginStop: the decision that started a drain stays the recorded yield;  *)
(* the stop runs in a goroutine.  Preempting is reachable from every state *)
(* act() calls it in.                                                      *)
beginStop(y) ==
    /\ yield' = IF st = "DRAINING" /\ yield # NoYield THEN yield ELSE y
    /\ CloseGate
    /\ st' = Transition(st, "PREEMPTING")
    /\ IF inst = NoInst
       THEN stopCh' = Append(stopCh, [cleanup |-> FALSE, err |-> FALSE]) /\ UNCHANGED stopJob
       ELSE stopJob' = [stopJob EXCEPT ![inst] = "stop"] /\ UNCHANGED stopCh
    /\ checkCrashReset(st')

ActHold ==
    /\ Acting(Idle)
    /\ decision.action # "run"
    /\ st' = Transition(st, decision.idle)
    /\ ActUnchanged
    /\ UNCHANGED <<inst, yieldVars, timers, counters, gateVars, proc, loadVars, stopVars>>

(* startLoad.  Only Stopped may start a load, so the state moves through   *)
(* it; Reconcile clears trees this process does not own (none in this      *)
(* model).  A fresh instance is one nothing refers to any more.            *)
Fresh(i) ==
    /\ i \notin {inst, zombie}
    /\ proc[i] = "gone" /\ loadJob[i] = "none" /\ stopJob[i] = "none"
    /\ \A k \in DOMAIN readyCh : readyCh[k].inst # i

StartLoad ==
    /\ Acting(Idle)
    /\ decision.action = "run"
    /\ \E i \in Instances :
          /\ Fresh(i)
          /\ inst' = i
          /\ proc' = [proc EXCEPT ![i] = "up"]
          /\ loadJob' = [loadJob EXCEPT ![i] = "waiting"]
    /\ outdated' = FALSE
    /\ st' = Transition(Transition(st, "STOPPED"), "LOADING")
    /\ UNCHANGED <<zombieVars, modeVars, power, factVars, yieldVars, timers, counters, gateVars, readyCh, stopVars>>

(* startLoad when Adapter.Start fails: loadFailed without an instance.     *)
StartFails ==
    /\ Acting(Idle)
    /\ "startfail" \in Env
    /\ decision.action = "run"
    /\ backoff
    /\ st' = Transition(Transition(st, "STOPPED"), "ERROR")
    /\ ActUnchanged
    /\ UNCHANGED <<inst, yieldVars, telemetryLosses, gpuResets, sinceReset, loadedAge, gateVars,
                   proc, loadVars, stopVars>>

(* Nothing to do: still loading and allowed to, or waiting for a stop.     *)
ActWait ==
    /\ \/ Acting({"LOADING"}) /\ ~Yields(decision.action)
       \/ Acting({"PREEMPTING"})
    /\ ActUnchanged
    /\ UNCHANGED <<st, inst, yieldVars, timers, counters, gateVars, proc, loadVars, stopVars>>

(* There are no requests while loading: yielding stops the load at once.   *)
ActCancelLoad ==
    /\ Acting({"LOADING"})
    /\ Yields(decision.action)
    /\ beginStop(decision.yield)
    /\ ActUnchanged
    /\ UNCHANGED <<inst, drainAge, drainLen, manual, timers, cut, proc, loadVars>>

(* Loaded and allowed to run: admit, and follow the gate's request count.  *)
ActServe ==
    /\ Acting({"READY", "BUSY"})
    /\ ~Yields(decision.action)
    /\ gate' = IF gate = NoInst THEN inst ELSE gate
    /\ st' = IF Active # {} THEN "BUSY" ELSE "READY"
    /\ checkCrashReset(st')
    /\ ActUnchanged
    /\ UNCHANGED <<inst, yieldVars, timers, reqInst, cut, proc, loadVars, stopVars>>

(* Hard contention: cut whatever is active and stop.                       *)
ActPreempt ==
    /\ Acting({"READY", "BUSY"})
    /\ decision.action = "preempt"
    /\ ForceCloseAll
    /\ beginStop(decision.yield)
    /\ ActUnchanged
    /\ UNCHANGED <<inst, drainAge, drainLen, manual, timers, proc, loadVars>>

(* A drain with nothing active stops at once.  The count is taken under    *)
(* the gate's lock as it closes, so a request admitted a moment ago counts.*)
ActDrainIdle ==
    /\ Acting({"READY", "BUSY"})
    /\ decision.action = "drain"
    /\ Active = {}
    /\ beginStop(decision.yield)
    /\ ActUnchanged
    /\ UNCHANGED <<inst, drainAge, drainLen, manual, timers, cut, proc, loadVars>>

ActDrain ==
    /\ Acting({"READY", "BUSY"})
    /\ decision.action = "drain"
    /\ Active # {}
    /\ CloseGate
    /\ yield' = decision.yield
    /\ drainAge' = 0 /\ drainLen' = decision.grace
    /\ st' = Transition(st, "DRAINING")
    /\ checkCrashReset(st')
    /\ ActUnchanged
    /\ UNCHANGED <<inst, manual, timers, cut, proc, loadVars, stopVars>>

ActDrainDone ==
    /\ Acting({"DRAINING"})
    /\ Active = {}
    /\ beginStop(yield)
    /\ ActUnchanged
    /\ UNCHANGED <<inst, drainAge, drainLen, manual, timers, cut, proc, loadVars>>

(* Hard contention ends the grace period at once.                          *)
ActDrainPreempt ==
    /\ Acting({"DRAINING"})
    /\ Active # {}
    /\ decision.action = "preempt"
    /\ ForceCloseAll
    /\ beginStop(decision.yield)
    /\ ActUnchanged
    /\ UNCHANGED <<inst, drainAge, drainLen, manual, timers, proc, loadVars>>

(* The grace period may be shortened by this decision, never extended, and *)
(* the requests still active when it is over are cut (maybeGraceExpired).  *)
GraceNow == IF decision.action = "drain" /\ decision.grace < drainLen
            THEN decision.grace ELSE drainLen

GraceOver_Early == drainAge + 1 >= GraceNow
GraceOver_WhileDrainWanted == drainAge >= GraceNow /\ decision.action = "drain"

GraceOver == drainAge >= GraceNow

ActDrainWait ==
    /\ Acting({"DRAINING"})
    /\ Active # {}
    /\ decision.action # "preempt"
    /\ ~GraceOver
    /\ drainLen' = GraceNow
    /\ ActUnchanged
    /\ UNCHANGED <<st, inst, yield, drainAge, manual, timers, counters, gateVars, proc,
                   loadVars, stopVars>>

ActGraceExpired ==
    /\ Acting({"DRAINING"})
    /\ Active # {}
    /\ decision.action # "preempt"
    /\ GraceOver
    /\ drainLen' = GraceNow
    /\ ForceCloseAll
    /\ beginStop(yield)
    /\ ActUnchanged
    /\ UNCHANGED <<inst, drainAge, manual, timers, proc, loadVars>>
-----------------------------------------------------------------------------
(* API calls and host events.  Each takes the controller mutex, so none    *)
(* falls inside a step.                                                    *)

ApiUnchanged == UNCHANGED <<pc, st, inst, decision, zombieVars, yield, drainAge, drainLen,
                            factVars, counters, gateVars, proc, loadVars, stopVars>>

(* SetMode: Pause may be indefinite; AI Priority is always capped.         *)
SetMode ==
    /\ pc = "idle"
    /\ "mode" \in Env
    /\ \/ mode' = "auto" /\ modeLeft' = Forever
       \/ mode' = "pause" /\ modeLeft' \in ModeLengths \cup {Forever}
       \/ /\ mode' = "ai_priority"
          /\ \E len \in ModeLengths \cup {MaxAIPriority} :
                modeLeft' = IF len < MaxAIPriority THEN len ELSE MaxAIPriority
    /\ ApiUnchanged
    /\ UNCHANGED <<manual, outdated, timers, power>>

(* requestManual: refused when nothing runs, moot while already yielding.  *)
Reloadable_ServingOnly == Admitting(st)

Reloadable == Running /\ st \notin {"DRAINING", "PREEMPTING"}

RequestManual ==
    /\ pc = "idle"
    /\ "manual" \in Env
    /\ Reloadable
    /\ manual' \in {"drain", "reload"}
    /\ ApiUnchanged
    /\ UNCHANGED <<outdated, modeVars, timers, power>>

(* updateConfig with a change the runtime must be restarted for.           *)
UpdateConfig ==
    /\ pc = "idle"
    /\ "config" \in Env
    /\ outdated' = (inst # NoInst)
    /\ manual' = IF Reloadable THEN "reload" ELSE manual
    /\ ApiUnchanged
    /\ UNCHANGED <<modeVars, timers, power>>

(* PrepareSuspend sets the flag, then only steps and polls until its       *)
(* budget ends; it never stops the runtime itself.                         *)
PrepareSuspend ==
    /\ pc = "idle"
    /\ "suspend" \in Env
    /\ power' = [power EXCEPT !.suspending = TRUE]
    /\ ApiUnchanged
    /\ UNCHANGED <<manual, outdated, modeVars, timers>>

(* Resumed runs on every resume the host reports, also one whose suspend   *)
(* never arrived.                                                          *)
Resumed ==
    /\ pc = "idle"
    /\ "suspend" \in Env
    /\ power' = [power EXCEPT !.suspending = FALSE]
    /\ timers' = setRecovery(timers, Resume, FALSE)
    /\ ApiUnchanged
    /\ UNCHANGED <<manual, outdated, modeVars>>

(* Shutdown begins: the flag is set, then waitStopped steps.               *)
Shutdown ==
    /\ pc = "idle"
    /\ "shutdown" \in Env
    /\ ~power.shuttingDown
    /\ power' = [power EXCEPT !.shuttingDown = TRUE]
    /\ ApiUnchanged
    /\ UNCHANGED <<manual, outdated, modeVars, timers>>

(* Shutdown ends: waitStopped has stepped at least once and either found   *)
(* nothing running or run out of time; what is left is stopped directly.   *)
(* The process then exits, and its goroutines with it.                     *)
ShutdownReturns ==
    /\ pc = "idle"
    /\ power.shuttingDown
    /\ st \in Idle \cup {"PREEMPTING"}
    /\ pc' = "down"
    /\ inst' = NoInst
    /\ \/ proc' = [i \in Instances |-> IF i = inst THEN "gone" ELSE proc[i]]
       \/ "killfail" \in Env /\ UNCHANGED proc
    /\ UNCHANGED <<st, decision, zombieVars, yieldVars, outdated, modeVars, timers, power, factVars,
                   counters, gateVars, loadVars, stopVars>>

-----------------------------------------------------------------------------
(* The inference proxy: a request is admitted under the gate's mutex with  *)
(* the upstream of that moment, and released when its handler returns,     *)
(* finished or cut.                                                        *)

GateUnchanged == UNCHANGED <<ctl, zombieVars, yieldVars, outdated, modeVars, timers, power, factVars,
                             counters, gate, proc, loadVars, stopVars>>

Admit(r) ==
    /\ gate # NoInst
    /\ r \notin Active
    /\ reqInst' = [reqInst EXCEPT ![r] = gate]
    /\ UNCHANGED cut
    /\ GateUnchanged

Release(r) ==
    /\ r \in Active
    /\ reqInst' = [reqInst EXCEPT ![r] = NoInst]
    /\ cut' = cut \ {r}
    /\ GateUnchanged

-----------------------------------------------------------------------------
(* Process trees and the goroutines that wait for them.                    *)

OsUnchanged == UNCHANGED <<ctl, zombieVars, yieldVars, outdated, modeVars, timers, power, factVars,
                           counters, gateVars>>

(* The root exits on its own; children may survive it.                     *)
ProcExit(i) ==
    /\ "crash" \in Env
    /\ proc[i] = "up"
    /\ proc' = [proc EXCEPT ![i] = "exited"]
    /\ OsUnchanged
    /\ UNCHANGED <<loadVars, stopVars>>

(* WaitReady: the health check answers.                                    *)
LoadReady(i) ==
    /\ loadJob[i] = "waiting"
    /\ proc[i] = "up"
    /\ loadJob' = [loadJob EXCEPT ![i] = "ok"]
    /\ OsUnchanged
    /\ UNCHANGED <<proc, readyCh, stopVars>>

(* WaitReady: the process exited, or the load timed out.                   *)
LoadError(i) ==
    /\ loadJob[i] = "waiting"
    /\ proc[i] # "up" \/ "loadfail" \in Env
    /\ loadJob' = [loadJob EXCEPT ![i] = "err"]
    /\ OsUnchanged
    /\ UNCHANGED <<proc, readyCh, stopVars>>

ReadyCap == 1

PostLoad(i) ==
    /\ loadJob[i] \in {"ok", "err"}
    /\ Len(readyCh) < ReadyCap
    /\ readyCh' = Append(readyCh, [inst |-> i, ok |-> loadJob[i] = "ok"])
    /\ loadJob' = [loadJob EXCEPT ![i] = "none"]
    /\ OsUnchanged
    /\ UNCHANGED <<proc, stopVars>>

StopCap == 4

PostStop(i, err) ==
    /\ Len(stopCh) < StopCap
    /\ stopCh' = Append(stopCh, [cleanup |-> stopJob[i] = "cleanup", err |-> err])
    /\ stopJob' = [stopJob EXCEPT ![i] = "none"]

(* Stop: the tree is killed and verified empty.                            *)
StopSucceeds(i) ==
    /\ stopJob[i] # "none"
    /\ PostStop(i, FALSE)
    /\ proc' = [proc EXCEPT ![i] = "gone"]
    /\ OsUnchanged
    /\ UNCHANGED loadVars

(* Stop: the kill failed, or the tree was not empty in time.               *)
StopFails(i) ==
    /\ stopJob[i] # "none"
    /\ "killfail" \in Env
    /\ PostStop(i, TRUE)
    /\ proc' \in {proc, [proc EXCEPT ![i] = IF @ = "up" THEN "exited" ELSE @]}
    /\ OsUnchanged
    /\ UNCHANGED loadVars

-----------------------------------------------------------------------------
(* One unit of time passes.  A step reads the clock once, at its start, so *)
(* time is seen to pass only between steps.  Ages nothing reads stand      *)
(* still, and preemptions that have left the window are dropped.           *)
Tick ==
    /\ pc = "idle"
    /\ timers' = [timers EXCEPT
            !.sinceCompeting = Older(@), !.sinceSuppressed = Older(@),
            !.recoveryLeft = Sooner(@),
            !.preemptions = pruned([k \in DOMAIN @ |-> @[k] + 1])]
    /\ modeLeft' = Sooner(modeLeft)
    /\ drainAge' = IF st = "DRAINING" THEN Older(drainAge) ELSE drainAge
    /\ loadedAge' = IF Admitting(st) THEN Older(loadedAge) ELSE loadedAge
    /\ sinceReset' = Older(sinceReset)
    /\ zombieWait' = Sooner(zombieWait)
    /\ UNCHANGED <<ctl, zombie, zombieStopping, zombieAttempts, yield, drainLen, manual, outdated, mode,
                   power, factVars, crashCount, telemetryLosses, gpuResets, gateVars, proc,
                   loadVars, stopVars>>

Step ==
    \/ NoLoadResult \/ LoadResultStale \/ LoadResultOK \/ LoadResultFailed
    \/ OnStopped \/ OnStopFailed \/ OnZombieStopped
    \/ NothingToReap \/ RetryZombie \/ OnCrash
    \/ Decide
    \/ ActHold \/ StartLoad \/ StartFails \/ ActWait \/ ActCancelLoad
    \/ ActServe \/ ActPreempt \/ ActDrainIdle \/ ActDrain
    \/ ActDrainDone \/ ActDrainPreempt \/ ActDrainWait \/ ActGraceExpired

Api == SetMode \/ RequestManual \/ UpdateConfig \/ PrepareSuspend \/ Resumed
       \/ Shutdown \/ ShutdownReturns

Alive == pc # "down"

Proxy == Alive /\ \E r \in Requests : Admit(r) \/ Release(r)

LoadGoroutine(i) == Alive /\ (LoadReady(i) \/ LoadError(i) \/ PostLoad(i))
StopGoroutine(i) == Alive /\ (StopSucceeds(i) \/ StopFails(i))

Work ==
    \/ Step
    \/ Api
    \/ Proxy
    \/ \E i \in Instances : ProcExit(i) \/ LoadGoroutine(i) \/ StopGoroutine(i)

Next == Work \/ Tick

Spec == Init /\ [][Next]_vars

(* The phases of a step.                                                   *)
Begins == pc = "idle" /\ SpareInstance /\ pc' = "absorb"
Absorbs == pc = "absorb" /\ stopCh # <<>> /\ stopCh' = Tail(stopCh)
Proceeds ==
    \/ pc = "absorb" /\ stopCh = <<>> /\ pc' = "decide"
    \/ pc = "decide" /\ pc' = "act"
    \/ pc = "act" /\ pc' = "idle"

-----------------------------------------------------------------------------
(* Type correctness.                                                       *)

TimersType ==
    [sinceCompeting : 0..AgeCap, lastCompetingRule : UtilRules \cup {""},
     sinceSuppressed : 0..AgeCap, recoveryLeft : Nat, recoveryFault : BOOLEAN,
     preemptions : Seq(Nat)]

YieldType ==
    [manual : {"none", "drain", "reload"}, counts : BOOLEAN, suppress : BOOLEAN,
     idle : Idle \cup {"none"}, wait : Nat]

Decisions ==
    [action : Action \cup {"none"}, grace : Nat, idle : Idle \cup {"none"}, present : BOOLEAN,
     yield : YieldType]

InstOrNone == Instances \cup {NoInst}

CtlType ==
    /\ pc \in {"idle", "absorb", "decide", "act", "down"}
    /\ st \in State
    /\ inst \in InstOrNone
    /\ decision \in Decisions

ZombieType ==
    /\ zombie \in InstOrNone /\ zombieStopping \in BOOLEAN
    /\ zombieAttempts \in 0..CountCap /\ zombieWait \in Nat

DrainType ==
    /\ yield \in YieldType
    /\ drainAge \in 0..AgeCap /\ drainLen \in Nat
    /\ manual \in {"none", "drain", "reload"}

FactType ==
    /\ outdated \in BOOLEAN
    /\ mode \in Mode /\ modeLeft \in Nat
    /\ timers \in TimersType
    /\ power \in [shuttingDown : BOOLEAN, suspending : BOOLEAN, deviceLost : BOOLEAN]
    /\ setupProblem \in BOOLEAN /\ telemetryLost \in BOOLEAN

CounterType ==
    /\ crashCount \in 0..CountCap /\ telemetryLosses \in 0..CountCap
    /\ gpuResets \in 0..CountCap
    /\ sinceReset \in 0..AgeCap /\ loadedAge \in 0..AgeCap

GateType ==
    /\ gate \in InstOrNone
    /\ reqInst \in [Requests -> InstOrNone] /\ cut \in SUBSET Requests

ProcType ==
    /\ proc \in [Instances -> {"up", "exited", "gone"}]
    /\ loadJob \in [Instances -> {"none", "waiting", "ok", "err"}]
    /\ readyCh \in Seq([inst : Instances, ok : BOOLEAN])
    /\ stopJob \in [Instances -> {"none", "stop", "cleanup"}]
    /\ stopCh \in Seq([cleanup : BOOLEAN, err : BOOLEAN])

(* Every variable keeps its type: among others a refused transition leaves *)
(* a lifecycle state, an escalation counter stays an index of its waits,   *)
(* and a channel is never read while empty.                                *)
TypeOK ==
    /\ CtlType /\ ZombieType /\ DrainType /\ FactType
    /\ CounterType /\ GateType /\ ProcType

-----------------------------------------------------------------------------
(* Safety *)

(* Two runtimes never hold the GPU at once: a tree that is not verified    *)
(* empty is the runtime the controller runs or the zombie whose cleanup it *)
(* retries, never both, whatever crashes, failed kills and cancelled loads *)
(* came before (startLoad, onStopped, onCrash, retryZombie, applyZombie).  *)
OneRuntime ==
    /\ \A i, j \in Instances : proc[i] # "gone" /\ proc[j] # "gone" => i = j
    /\ Alive => \A i \in Instances : proc[i] # "gone" => i \in {inst, zombie}

(* The machine's owner is told the GPU is free only when it is: in an idle *)
(* state other than Error no process tree is left.                         *)
IdleMeansReleased == st \in Idle \ {"ERROR"} => \A i \in Instances : proc[i] = "gone"

(* The gate admits only to the runtime being served: never while loading,  *)
(* draining, stopping or idle, and never to an earlier instance's address. *)
GateOnlyWhenServing == gate # NoInst => Admitting(st) /\ gate = inst

(* No request outlives its runtime unnoticed: every active request that    *)
(* has not been cut belongs to the current instance, which is serving or   *)
(* in its grace period.  A stop never starts under an uncut request.       *)
NoOrphanRequest ==
    \A r \in Active \ cut : reqInst[r] = inst /\ st \in {"READY", "BUSY", "DRAINING"}

(* A changed runtime configuration reaches the runtime: one started with   *)
(* an older version is always on its way out.  Manual requests, drains,    *)
(* crashes and cancelled loads in between must not lose the reload.        *)
ConfigConverges ==
    Alive /\ inst # NoInst /\ outdated =>
        manual # "none" \/ st \in {"DRAINING", "PREEMPTING"}

(* Anti-thrash (AntiThrash in the configuration): when the preemptions in  *)
(* the window reach the limit, suppression began no earlier than the last  *)
(* of them, even though the decision to suppress is made when the yield    *)
(* starts and the preemption is recorded when the stop is verified.        *)
SuppressionCoversThrash ==
    LET recent == timers.preemptions IN
    Cardinality(InWindow(recent)) >= Cfg.maxPreemptions =>
        timers.sinceSuppressed <= recent[Len(recent)]

(* Every stop the controller waits for is in flight exactly once: while    *)
(* Preempting, one stop of the current runtime is running or reported, and *)
(* while a cleanup is awaited, one of the zombie.  Losing one would wait   *)
(* forever; one of another runtime could be taken for it, because results  *)
(* do not name their instance.                                             *)
StopsAccountedFor ==
    Alive =>
    /\ Len(stopCh) <= 1
    /\ \A i \in Instances :
          /\ stopJob[i] = "stop" => i = inst /\ st = "PREEMPTING"
          /\ stopJob[i] = "cleanup" => i = zombie /\ zombieStopping
          /\ stopJob[i] # "none" => stopCh = <<>>
    /\ stopCh # <<>> => IF stopCh[1].cleanup THEN zombieStopping ELSE st = "PREEMPTING"
    /\ st = "PREEMPTING" =>
          \/ stopJob[inst] = "stop"
          \/ stopCh # <<>> /\ ~stopCh[1].cleanup
    /\ zombieStopping =>
          /\ zombie # NoInst
          /\ \/ stopJob[zombie] = "cleanup"
             \/ stopCh # <<>> /\ stopCh[1].cleanup

(* What the controller believes of processes is true: it has an instance   *)
(* exactly in the states that run one, an unverified runtime keeps it in   *)
(* Error, and a stop reported as verified is of the very tree the report   *)
(* will be taken for, although it does not name it.                        *)
Bookkeeping ==
    Alive =>
    /\ Running <=> inst # NoInst
    /\ zombie # NoInst => st = "ERROR"
    /\ stopCh # <<>> /\ ~stopCh[1].err =>
          proc[IF stopCh[1].cleanup THEN zombie ELSE inst] = "gone"

(* While suspending, shutting down or after losing the device no runtime   *)
(* is left serving past the next decision: a step that has seen such a     *)
(* fact ends with admission closed.                                        *)
SafetyClosesGate ==
    [][pc = "act" /\ pc' = "idle" /\ (power.shuttingDown \/ power.suspending \/ power.deviceLost)
        => gate' = NoInst /\ st' \in Idle \cup {"PREEMPTING"}]_vars

(* A drain is a commitment: its allowance only ever shrinks, admission     *)
(* does not reopen, and it ends in a stop or a crash.                      *)
DrainIsCommitment ==
    st = "DRAINING" =>
      /\ st' \in {"DRAINING", "PREEMPTING", "ERROR"}
      /\ st' = "DRAINING" => drainLen' <= drainLen /\ gate' = NoInst

(* Requests in their grace period are cut only when the period is over, on *)
(* hard contention, or because the runtime is already dead.                *)
GraceRespected ==
    st = "DRAINING" /\ cut' # cut /\ ~(cut' \subseteq cut) =>
      \/ decision.action = "preempt"
      \/ drainAge >= drainLen'
      \/ inst # NoInst /\ proc[inst] # "up"

(* Requests get the grace a drain promised: its allowance only shrinks,    *)
(* admission does not reopen, and they are cut only when it is over, on    *)
(* hard contention or after the runtime died (reconcile, GraceNow).        *)
DrainIsHonoured == [][DrainIsCommitment /\ GraceRespected]_vars

(* After a driver reset nothing loads until the escalated wait for that    *)
(* many resets is over, however reports merge, crashes and telemetry       *)
(* losses set waits of their own, and modes change in between.             *)
ResetWaitHonoured ==
    st' = "LOADING" /\ st # "LOADING" /\ gpuResets > 0
      => sinceReset >= ResetBackoff[gpuResets]

(* No load starts while a recovery wait, a cooldown or a suppression is    *)
(* running, under a pause, or over an unverified runtime: the waits        *)
(* observed when the load starts are those of the whole history, however   *)
(* they were extended on the way.                                          *)
LoadOnlyAfterWaits ==
    st' = "LOADING" /\ st # "LOADING" =>
      /\ timers.recoveryLeft = 0 /\ zombieWait = 0
      /\ timers.sinceSuppressed >= Cfg.suppressFor
      /\ mode # "pause"
      /\ ~LoadBlocked
      /\ zombie = NoInst /\ ~zombieStopping
      /\ \A i \in Instances : proc[i] = "gone"

(* Nothing loads before the waits of the past are over: the recovery wait, *)
(* the suppression, the pause, the unverified runtime and the escalated    *)
(* wait after driver resets, however they merge and extend each other      *)
(* (startLoad, setRecovery).                                               *)
WaitsAreHonoured == [][LoadOnlyAfterWaits /\ ResetWaitHonoured]_vars

-----------------------------------------------------------------------------
(* Liveness *)

(* The GPU is given back: a drain or a stop that has begun ends with the   *)
(* controller no longer running the runtime, even if clients never finish  *)
(* their requests, because the grace period runs out and the kill either   *)
(* succeeds or is reported as failed.                                      *)
YieldCompletes == st \in {"DRAINING", "PREEMPTING"} ~> ~Running

(* An unverified runtime is never forgotten: cleanup is attempted again    *)
(* and again until it succeeds.                                            *)
CleanupRetried == []<>(zombie = NoInst \/ \E i \in Instances : stopJob[i] = "cleanup")
=============================================================================
