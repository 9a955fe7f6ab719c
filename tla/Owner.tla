-------------------------------- MODULE Owner -------------------------------
(***************************************************************************)
(* What the person at the PC is told: the owner-facing reading of a status *)
(* (src/internal/api/owner.go), a pure function of the worker's state and  *)
(* the policy's decision, over the decisions of module Policy.             *)
(***************************************************************************)
EXTENDS Policy

\* Why a recovery wait was scheduled; every setRecovery of the controller.
Reasons == {"none", "startup", "resume", "manual drain", "crash backoff", "kill failure",
            "GPU driver reset", "telemetry recovery"}
FaultReasons == {"crash backoff", "kill failure", "GPU driver reset", "telemetry recovery"}

Status(kind, severity, cause) ==
    [kind |-> kind, severity |-> severity, cause |-> cause, returnAt |-> 0, delay |-> 0, after |-> "none"]
Wait(cause) == Status("waiting", "wait", cause)
Problem(cause) == Status("problem", "problem", cause)
Unknown == Status("unknown", "unknown", "unknown")

GameRules == {"gaming.confirmed", "gaming.launcher_child", "interactive.fullscreen_gpu",
              "profile.game_process", "profile.ambiguous_interactive"}
BusyRules == CriticalRules \cup {"profile.soft_contention"}

cooldownAfter(rule) ==
    CASE rule \in GameRules -> "game"
      [] rule \in BusyRules -> "gpu_busy"
      [] rule = "safety.temperature" -> "heat"
      [] OTHER -> "other"

\* Routine waits are normal, faults are not; with the readings back, a wait
\* after a telemetry loss is routine again.
recoveryWait(reason) ==
    CASE reason \in {"startup", "resume"} -> Wait(reason)
      [] reason = "manual drain" -> Wait("drained")
      [] reason \in {"crash backoff", "kill failure"} -> Problem("crash")
      [] reason = "GPU driver reset" -> Problem("gpu_fault")
      [] reason = "telemetry recovery" -> Wait("telemetry_recovered")
      [] OTHER -> Wait("recovering")

\* The states with a runtime process, in which no load is due.
RuntimeRunning == {"LOADING", "READY", "BUSY", "DRAINING", "PREEMPTING"}

\* Mutant: the reading of a cooldown ends with the cooldown's own timer.
byRule_OwnTimer(d, s, st, reason) ==
    CASE d.rule = "eligibility.cooldown" -> [Wait("cooldown") EXCEPT !.returnAt = CooldownLeft(s)]
      [] d.rule = "eligibility.suppressed" -> [Wait("suppressed") EXCEPT !.returnAt = SuppressLeft(s)]
      [] OTHER -> Problem("crash")

\* The reading of the decision's rule. A wait for something still present
\* carries the cooldown that will follow it, a timed one the time of the
\* next load.
byRule(d, s, st, reason) ==
    LET present(cause) == [Wait(cause) EXCEPT !.delay = Profiles[ProfileOf(s)].cooldown]
        timed(o) == IF st \in RuntimeRunning THEN o ELSE [o EXCEPT !.returnAt = d.nextLoad]
        rule == d.rule
    IN CASE rule = "safety.shutdown" -> Wait("stopping")
         [] rule = "safety.suspend" -> Wait("sleeping")
         [] rule = "safety.device_lost" -> Problem("gpu_fault")
         [] rule = "safety.temperature" -> Problem("too_hot")
         [] rule \in {"safety.telemetry_lost", "eligibility.telemetry_unavailable"} -> Problem("no_gpu_readings")
         [] rule = "eligibility.process_list_unavailable" -> Problem("no_process_list")
         [] rule = "eligibility.setup_required" -> Problem("setup")
         [] rule = "manual.pause" -> timed(Status("paused", "paused", "paused"))
         [] rule \in BusyRules -> present("gpu_busy")
         [] rule \in GameRules -> present("game")
         [] rule = "eligibility.suppressed" -> timed(Wait("suppressed"))
         [] rule = "eligibility.cooldown" ->
               [timed(Wait("cooldown")) EXCEPT !.after = cooldownAfter(s.timers.lastCompetingRule)]
         [] rule = "eligibility.vram_insufficient" ->
               IF s.totalTooSmall THEN Problem("vram_too_small") ELSE Wait("low_vram")
         [] rule = "eligibility.recovery" -> timed(recoveryWait(reason))
         [] rule \in {"profile.run", "mode.ai_priority"} ->
               IF st = "ERROR" THEN Problem("crash") ELSE Wait("starting")
         [] OTHER -> Unknown

\* A worker that serves or loads says so whatever the rule.
classify(d, s, st, reason) ==
    CASE st \in {"READY", "BUSY"} -> Status("available", "ok", IF st = "READY" THEN "ready" ELSE "busy")
      [] st = "LOADING" -> Status("starting", "ok", "loading")
      [] OTHER -> byRule(d, s, st, reason)

\* A fallback configuration turns "all is well" into "needs attention".
DeriveOwner(d, s, st, reason, primary) ==
    LET o == classify(d, s, st, reason)
    IN IF ~primary /\ o.severity = "ok" THEN [o EXCEPT !.severity = "attention"] ELSE o
=============================================================================
