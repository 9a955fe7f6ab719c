-------------------------------- MODULE Vram --------------------------------
(***************************************************************************)
(* The runtime's video memory as the controller accounts for it            *)
(* (src/internal/controller/step.go): the footprint learned after a load,  *)
(* the memory still held after a stop and counted as ours, and the check   *)
(* that it came back. The driver frees memory late and in parts; other     *)
(* programs take and free theirs at any time. One action is one Step of    *)
(* the controller on one sample.                                           *)
(***************************************************************************)
EXTENDS Integers

CONSTANTS Models,         \* the memory the configurable models take
          Others,         \* what other programs may hold
          Capacity,       \* the adapter's memory
          Tolerance, Timeout,  \* vram_release_tolerance_mib; the timeout in steps
          LearnFor,       \* the steps of the first 30 seconds
          OthersShrink    \* other programs may free memory

\* What the values of the constants have to satisfy.
VramAssumption ==
    /\ Models \subseteq Nat /\ Others \subseteq Nat /\ {Capacity, Tolerance, Timeout, LearnFor} \subseteq Nat
    /\ OthersShrink \in BOOLEAN

VARIABLES st,         \* stopped, loading, ready, preempting
          model,      \* the configured model's memory
          loadedSize, \* that of the model that was loaded last
          own, lag,   \* memory of the runtime; what the driver still holds of an ended one
          other,
          gpu,        \* of the last facts: confidence, and external memory
          footprint, baseline,
          vram,       \* the check: active, usedBefore, footprint, age
          loadedFor,  \* steps since the load, at most LearnFor
          reload,     \* manualPending is reload
          said,       \* the release event of the last step: none, released, not_released
          learned,    \* ghost: the loaded model's memory was measured in full
          hidden,     \* ghost: steps for which a competitor's memory has been hidden
          owed        \* ghost: the most the driver still held when a load began, of
                      \* the loads behind what has been learned

ghosts == <<learned, hidden, owed>>
vars == <<st, model, loadedSize, own, lag, other, gpu, footprint, baseline, vram, loadedFor, reload, said, ghosts>>

NoFacts == [conf |-> "none", used |-> 0, own |-> 0, ext |-> 0]
NoCheck == [active |-> FALSE, usedBefore |-> 0, footprint |-> 0, age |-> 0]

Init ==
    /\ st = "stopped" /\ model \in Models /\ loadedSize = 0 /\ own = 0 /\ lag = 0 /\ other \in Others
    /\ gpu = [conf |-> "none", ext |-> 0] /\ footprint = 0 /\ baseline = 0 /\ vram = NoCheck
    /\ loadedFor = 0 /\ reload = FALSE /\ said = "none" /\ learned = FALSE /\ hidden = 0 /\ owed = 0

\* The runtime allocates its model; the driver frees it after the end, in parts.
Allocate ==
    /\ st = "loading" /\ own < loadedSize /\ own' = loadedSize
    /\ UNCHANGED <<st, model, loadedSize, lag, other, gpu, footprint, baseline, vram, loadedFor, reload, said, ghosts>>

Free ==
    /\ lag > 0 /\ lag' \in {lag \div 2, 0}
    /\ UNCHANGED <<st, model, loadedSize, own, other, gpu, footprint, baseline, vram, loadedFor, reload, said, ghosts>>

OtherMoves ==
    /\ \E o \in Others : o # other /\ (o < other => OthersShrink) /\ other' = o
    /\ UNCHANGED <<st, model, loadedSize, own, lag, gpu, footprint, baseline, vram, loadedFor, reload, said, ghosts>>

\* updateConfig with another model: what was learned no longer counts, and a
\* running runtime is to be reloaded.
updateConfig ==
    /\ \E n \in Models : n # model /\ model' = n
    /\ footprint' = 0 /\ reload' = (st \in {"loading", "ready"}) /\ learned' = FALSE
    /\ UNCHANGED <<st, loadedSize, own, lag, other, gpu, baseline, vram, loadedFor, said, hidden, owed>>

\* A step later. The age is counted as far as it is compared, and a step that
\* waits is never a stuttering step.
Older == [vram EXCEPT !.age = IF ~vram.active THEN @ ELSE IF @ < Timeout + 2 THEN @ + 1 ELSE Timeout + 1]

\* onStopped starts the check; onLoadResult starts the learning.
Absorbed(async) ==
    CASE async = "stopped" -> [st |-> "stopped", vram |-> [vram EXCEPT !.active = TRUE, !.age = 0], loadedFor |-> loadedFor]
      [] async = "ready" -> [st |-> "ready", vram |-> Older, loadedFor |-> 0]
      [] async = "none" -> [st |-> st, vram |-> Older,
                            loadedFor |-> IF loadedFor < LearnFor THEN loadedFor + 1 ELSE LearnFor]

\* Until the release is confirmed or times out, that much is ours.
Ours(a) == IF a.vram.active /\ a.st = "stopped" THEN a.vram.footprint ELSE 0

\* observe: the facts of a sample. Without a runtime all memory in use is
\* external.
Facts(a, conf) ==
    LET guess == IF footprint > 0 THEN footprint ELSE model
        held == own + lag
        mine == CASE a.st = "stopped" -> 0
                  [] a.st # "stopped" /\ conf = "high" -> own
                  [] OTHER -> IF guess < held THEN guess ELSE held
        ext == held + other - mine
    IN IF conf = "none" THEN NoFacts
       ELSE [conf |-> conf, used |-> held + other, own |-> mine,
             ext |-> IF ext > Ours(a) THEN ext - Ours(a) ELSE 0]

\* Mutant: the check looks at the memory the runtime used, not at a share of it.
Released_Anyhow(b, g) == g.used <= b.vram.usedBefore

\* checkVRAMRelease: back at the baseline, or nearly all of the footprint less
\* than before the stop.
Released(b, g) ==
    \/ g.used <= b.baseline + Tolerance
    \/ b.vram.footprint > 0 /\ g.used <= b.vram.usedBefore - ((b.vram.footprint * 9) \div 10)

Expired(b, g) == b.vram.age > Timeout

\* The figures of a check that has ended are never used again.
checkVRAMRelease(b, g) ==
    LET ok == b.vram.active /\ g.conf # "none" /\ Released(b, g)
        late == b.vram.active /\ ~ok /\ Expired(b, g)
    IN /\ vram' = IF ok \/ late THEN NoCheck ELSE b.vram
       /\ said' = IF ok THEN "released" ELSE IF late THEN "not_released" ELSE "none"

Admitting(b) == b.st = "ready"

\* checkCrashReset: the largest reading of the first 30 seconds.
learn(b, g) ==
    LET candidate == CASE g.conf = "high" -> g.own
                       [] g.conf = "degraded" -> g.used - b.baseline
                       [] OTHER -> 0
    IN footprint' = IF Admitting(b) /\ b.loadedFor < LearnFor /\ candidate > footprint THEN candidate ELSE footprint

\* act: startLoad takes the baseline, beginStop what is in use and the
\* footprint; a pending reload stops the runtime.
Acted(a, choice, g) ==
    CASE choice = "load" -> [st |-> "loading", baseline |-> g.used, vram |-> a.vram, loadedFor |-> a.loadedFor]
      [] choice = "stop" -> [st |-> "preempting", baseline |-> baseline, loadedFor |-> a.loadedFor,
                             vram |-> [active |-> FALSE, usedBefore |-> g.used, footprint |-> footprint, age |-> 0]]
      [] choice = "none" -> [st |-> a.st, baseline |-> baseline, vram |-> a.vram, loadedFor |-> a.loadedFor]

\* What may happen: policy loads only on telemetry, and with nothing running.
\* A load waits neither for the driver nor for the check of the stop before.
Choices(a, g) ==
    {c \in {"none", "load", "stop"} :
        /\ c = "load" => a.st = "stopped" /\ g.conf # "none" /\ g.used + model <= Capacity
        /\ c = "stop" => a.st \in {"loading", "ready"}
        /\ c = "none" => ~(reload /\ a.st \in {"loading", "ready"})}

Results == {"none"} \cup (IF st = "preempting" THEN {"stopped"} ELSE IF st = "loading" /\ own = loadedSize THEN {"ready"} ELSE {})

Capped(n) == IF n > Timeout + 3 THEN Timeout + 3 ELSE n

Step ==
    \E async \in Results, conf \in {"high", "degraded", "none"} :
        LET a == Absorbed(async)
            g == Facts(a, conf) IN
        /\ IF async = "stopped" THEN lag' = lag + own /\ own' = 0 ELSE UNCHANGED <<lag, own>>
        /\ gpu' = [conf |-> g.conf, ext |-> g.ext]
        /\ \E choice \in Choices(a, g) :
             LET b == Acted(a, choice, g) IN
             /\ st' = b.st /\ baseline' = b.baseline /\ loadedFor' = b.loadedFor
             /\ loadedSize' = IF choice = "load" THEN model ELSE loadedSize
             /\ reload' = (reload /\ choice # "stop")
             /\ checkVRAMRelease(b, g) /\ learn(b, g)
             /\ learned' = (choice # "load" /\ said' # "not_released"
                            /\ (learned \/ (b.st = "ready" /\ b.loadedFor < LearnFor /\ conf = "high" /\ own = loadedSize)))
             /\ owed' = IF choice = "load" /\ (footprint = 0 \/ lag' > owed) THEN lag' ELSE owed
             /\ hidden' = IF conf = "none" THEN hidden ELSE IF g.ext < other /\ b.st = "stopped" THEN Capped(hidden + 1) ELSE 0
        /\ UNCHANGED <<model, other>>

Next == Allocate \/ Free \/ OtherMoves \/ updateConfig \/ Step

\* The controller steps on every tick.
Spec == Init /\ [][Next]_vars /\ WF_vars(Step)

-----------------------------------------------------------------------------
(* Properties.                                                             *)

\* What may remain: the tolerance, or a tenth of the footprint and what the
\* integer division drops.
Remainder == IF Tolerance > (loadedSize \div 10) + 1 THEN Tolerance ELSE (loadedSize \div 10) + 1

\* "VRAM released", said of a runtime that stays stopped, means that the driver
\* holds next to nothing of it any more: exactly so where no load began before
\* the memory of the stop before it was back; a load that did makes the baseline
\* and what is learned wrong by what was owed, and this by no more than twice
\* that (checkVRAMRelease, startLoad, checkCrashReset). Nothing is claimed of
\* the event of a reload: the step that takes the stop's result and starts the
\* next load takes its baseline first, and says it with all of the memory held.
ReleaseIsReal == said = "released" /\ st = "stopped" => lag <= Remainder + 2 * owed

\* Memory the driver still holds after a stop is not taken for a competitor's,
\* once the model had been measured and until the wait for it timed out, but
\* for what was owed when its load began (observe, beginStop, checkCrashReset).
OwnIsNoCompetitor ==
    learned /\ st = "stopped" /\ gpu.conf # "none" => gpu.ext <= other + Remainder + owed

\* A competitor's memory is hidden behind memory of ours for no longer than the
\* release timeout and the steps at its two ends, whatever telemetry misses and programs do (observe).
HiddenIsBounded == hidden <= Timeout + 2

\* What was learned is the configured model's, plus what others took meanwhile:
\* never that of the model before a reload, whose runtime may still be up when
\* the configuration changes (updateConfig, checkCrashReset).
FootprintIsCurrent == \E o \in Others : footprint <= model + o

\* A release check always ends, with or without telemetry.
CheckEnds == vram.active ~> ~vram.active
=============================================================================
