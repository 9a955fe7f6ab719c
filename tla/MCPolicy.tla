------------------------------ MODULE MCPolicy ------------------------------
(***************************************************************************)
(* The evaluator and the owner's reading of its decisions, checked         *)
(* exhaustively over bounded inputs: every initial state is one snapshot,  *)
(* the only step evaluates it and, for some snapshots, reads the decision  *)
(* in a state the worker may then be in.                                   *)
(***************************************************************************)
EXTENDS Owner

VARIABLES snap, dec,
          reason, st, owner   \* of the recovery wait; the worker's state; what the owner is told

policyVars == <<snap, dec, reason, st, owner>>

None == [action |-> "none"]

\* Snapshots that are only evaluated have no reason to read.
Unread == reason = "unread" /\ st = "STOPPED" /\ owner = Unknown

Decide == /\ dec = None /\ reason = "unread"
          /\ dec' = Evaluate(snap)
          /\ UNCHANGED <<snap, reason, st, owner>>

\* The states the worker may be in once it acted on decision d.
StatesAfter(d) ==
    IF snap.running THEN CASE d.action = "drain" -> {"DRAINING", "PREEMPTING"}
                           [] d.action = "preempt" -> {"PREEMPTING"}
                           [] OTHER -> {"READY", "BUSY", "LOADING"}
    ELSE IF d.action = "run" THEN {"LOADING", "ERROR"} ELSE {d.idle}

Read ==
    /\ dec = None /\ reason # "unread"
    /\ dec' = Evaluate(snap)
    /\ \E x \in StatesAfter(dec'), primary \in BOOLEAN :
          st' = x /\ owner' = DeriveOwner(dec', snap, x, reason, primary)
    /\ UNCHANGED <<snap, reason>>

Decided == dec # None

-----------------------------------------------------------------------------
(* Inputs *)

(* A profile that reacts to everything, a tolerant scheduled one, and the  *)
(* permissive AI Priority profile of the shipped defaults.                 *)
MCProfiles ==
    [default   |-> [drainOnGameProcess |-> TRUE, drainOnAmbiguous |-> TRUE,
                    drainOnSoftContention |-> TRUE, softUtil |-> 4, softVRAM |-> 4,
                    cooldown |-> 3, grace |-> 3, graceUnderPressure |-> 1],
     scheduled |-> [drainOnGameProcess |-> TRUE, drainOnAmbiguous |-> FALSE,
                    drainOnSoftContention |-> TRUE, softUtil |-> 8, softVRAM |-> 6,
                    cooldown |-> 1, grace |-> 2, graceUnderPressure |-> 2],
     ai        |-> [drainOnGameProcess |-> FALSE, drainOnAmbiguous |-> FALSE,
                    drainOnSoftContention |-> FALSE, softUtil |-> 8, softVRAM |-> 6,
                    cooldown |-> 0, grace |-> 4, graceUnderPressure |-> 4]]

MCCfg == [vramFreeCritical |-> 1, extVRAMCritical |-> 8, requiredFreeVRAM |-> 4,
          degradedMarginPct |-> 25, maxPreemptions |-> 2, window |-> 3,
          suppressFor |-> 4]

(* The utilization facts the signal layer can report together: a level and *)
(* how long it has been above or below the thresholds.                     *)
UtilFacts ==
    { [util |-> 0, aboveSoftWindow |-> FALSE, aboveCriticalWindow |-> FALSE, belowSoftForClear |-> TRUE],
      [util |-> 0, aboveSoftWindow |-> FALSE, aboveCriticalWindow |-> FALSE, belowSoftForClear |-> FALSE],
      [util |-> 3, aboveSoftWindow |-> FALSE, aboveCriticalWindow |-> FALSE, belowSoftForClear |-> FALSE],
      [util |-> 5, aboveSoftWindow |-> TRUE, aboveCriticalWindow |-> FALSE, belowSoftForClear |-> FALSE],
      [util |-> 9, aboveSoftWindow |-> TRUE, aboveCriticalWindow |-> TRUE, belowSoftForClear |-> FALSE] }

GPU(conf, long, temp, free, growing, ext, trusted, u) ==
    [confidence |-> conf, noneForGrace |-> long, temp |-> temp, totalKnown |-> TRUE, vramFree |-> free,
     extVRAMGrowing |-> growing, extVRAM |-> ext, utilTrusted |-> trusted,
     util |-> u.util, aboveSoftWindow |-> u.aboveSoftWindow,
     aboveCriticalWindow |-> u.aboveCriticalWindow,
     belowSoftForClear |-> u.belowSoftForClear]

QuietUtil == CHOOSE u \in UtilFacts : u.belowSoftForClear
QuietGPU == GPU("high", FALSE, "normal", 8, FALSE, 0, TRUE, QuietUtil)

GPUFacts ==
    { GPU(c, FALSE, "normal", vram[1], vram[2], e, tr, u) :
        c \in {"high", "degraded"}, e \in {0, 3, 4, 8}, tr \in BOOLEAN, u \in UtilFacts,
        vram \in {<<8, FALSE>>, <<3, TRUE>>, <<0, FALSE>>, <<0, TRUE>>} }
    \cup { GPU(c, FALSE, t, 0, TRUE, e, TRUE, QuietUtil) :
        c \in {"high", "degraded"}, t \in {"warm", "critical"}, e \in {0, 8} }
    \cup { [GPU(c, FALSE, "normal", 0, TRUE, e, TRUE, QuietUtil) EXCEPT !.totalKnown = FALSE] :
        c \in {"high", "degraded"}, e \in {0, 8} }
    \cup { GPU("none", l, t, 0, FALSE, 0, FALSE, QuietUtil) :
        l \in BOOLEAN, t \in {"normal", "critical"} }

AppFacts ==
    [games : {"none", "running", "onGPU"}, launcherChild : {"none", "running", "onGPU"},
     processListOK : {TRUE}]
    \cup [games : {"none"}, launcherChild : {"none"}, processListOK : {FALSE}]

QuietApps == [games |-> "none", launcherChild |-> "none", processListOK |-> TRUE]

PowerFacts == [shuttingDown : BOOLEAN, suspending : BOOLEAN, deviceLost : BOOLEAN]
NoPower == [shuttingDown |-> FALSE, suspending |-> FALSE, deviceLost |-> FALSE]

LongAgo == 9
OldTimers == [sinceCompeting |-> LongAgo, lastCompetingRule |-> "",
              sinceSuppressed |-> LongAgo, recoveryLeft |-> 0,
              recoveryFault |-> FALSE, preemptions |-> <<>>]

Snap(m, left, sched, run, setup, gpu, apps, ses, pow, tim) ==
    [mode |-> m, modeLeft |-> left, scheduled |-> sched, running |-> run,
     setupProblem |-> setup, gpu |-> gpu, totalTooSmall |-> FALSE, apps |-> apps, session |-> ses,
     power |-> pow, timers |-> tim]

QuietSnap == Snap("auto", Forever, FALSE, FALSE, FALSE, QuietGPU, QuietApps, "other", NoPower, OldTimers)

(* Every combination of facts and modes, with the timers at rest; then     *)
(* every power event, setup problem and profile over a few facts, after    *)
(* utilization contention.                                                 *)
FactInit ==
    /\ dec = None /\ Unread
    /\ \/ \E m \in Mode, run \in BOOLEAN, gpu \in GPUFacts, apps \in AppFacts,
             ses \in {"other", "fullscreen"} :
             snap = Snap(m, Forever, FALSE, run, FALSE, gpu, apps, ses, NoPower, OldTimers)
       \/ \E m \in Mode, sched \in BOOLEAN, run \in BOOLEAN, setup \in BOOLEAN,
             gpu \in {GPU("high", FALSE, "normal", 8, FALSE, 0, TRUE, u) : u \in UtilFacts}
                     \cup {GPU("none", TRUE, "normal", 0, FALSE, 0, FALSE, QuietUtil),
                           GPU("high", FALSE, "warm", 8, FALSE, 0, TRUE, QuietUtil)},
             apps \in {QuietApps, [QuietApps EXCEPT !.games = "onGPU"]},
             ses \in {"other", "fullscreen"}, pow \in PowerFacts,
             rule \in {"", "profile.soft_contention"} :
             snap = Snap(m, Forever, sched, run, setup, gpu, apps, ses, pow,
                         [OldTimers EXCEPT !.lastCompetingRule = rule])

TimerFacts ==
    [sinceCompeting : 0..4, lastCompetingRule : {"profile.soft_contention"},
     sinceSuppressed : 0..5, recoveryLeft : 0..4, recoveryFault : BOOLEAN,
     preemptions : {<<>>}]

(* Every reading of the timers over a few facts.                           *)
TimerInit ==
    /\ dec = None /\ Unread
    /\ \E ml \in {<<"auto", Forever>>, <<"ai_priority", 2>>, <<"ai_priority", 12>>, <<"pause", 2>>,
                   <<"pause", 6>>, <<"pause", Forever>>},
         sched \in BOOLEAN, run \in BOOLEAN,
         apps \in {QuietApps, [QuietApps EXCEPT !.games = "onGPU"]},
         tim \in TimerFacts :
         snap = Snap(ml[1], ml[2], sched, run, FALSE, QuietGPU, apps, "other", NoPower, tim)

(* What an owner may ask about: quiet and contended readings, recovery     *)
(* waits with their reasons, and pauses.                                   *)
OwnerGPUs ==
    {QuietGPU, [QuietGPU EXCEPT !.vramFree = 3], [QuietGPU EXCEPT !.temp = "critical"],
     [QuietGPU EXCEPT !.vramFree = 0, !.extVRAMGrowing = TRUE],
     [QuietGPU EXCEPT !.vramFree = 0, !.extVRAMGrowing = TRUE, !.totalKnown = FALSE], [QuietGPU EXCEPT !.extVRAM = 5],
     [QuietGPU EXCEPT !.util = 9, !.aboveSoftWindow = TRUE, !.belowSoftForClear = FALSE],
     [QuietGPU EXCEPT !.util = 5, !.belowSoftForClear = FALSE],
     [QuietGPU EXCEPT !.confidence = "none"], [QuietGPU EXCEPT !.confidence = "none", !.noneForGrace = TRUE]}

OwnerInit ==
    /\ \E m \in {<<"auto", Forever>>, <<"ai_priority", 2>>, <<"pause", 2>>, <<"pause", Forever>>},
         run \in BOOLEAN, setup \in BOOLEAN, gpu \in OwnerGPUs, small \in BOOLEAN,
         games \in {"none", "running", "onGPU"}, list \in BOOLEAN, ses \in {"other", "fullscreen"},
         pow \in PowerFacts, competing \in {0, 9}, suppressed \in {2, 9}, rec \in {0, 1, 5}, why \in Reasons :
         /\ rec = 0 <=> why = "none"
         /\ run => rec = 0 /\ suppressed = 9 /\ competing = 9
         /\ (gpu # QuietGPU \/ rec # 0) => pow = NoPower
         /\ small => gpu.vramFree = 3
         /\ ~list => ~setup /\ games = "none"
         /\ setup => ses = "other"
         /\ reason = why
         /\ snap = [Snap(m[1], m[2], FALSE, run, setup, gpu,
                         [games |-> games, launcherChild |-> "none", processListOK |-> list], ses, pow,
                         [OldTimers EXCEPT !.sinceCompeting = competing, !.lastCompetingRule = "gaming.confirmed",
                                           !.sinceSuppressed = suppressed, !.recoveryLeft = rec,
                                           !.recoveryFault = why \in FaultReasons])
                      EXCEPT !.totalTooSmall = small]
    /\ dec = None /\ st = "STOPPED" /\ owner = Unknown

PolicyInit == FactInit \/ TimerInit \/ OwnerInit
PolicyNext == Decide \/ Read

FactSpec == FactInit /\ [][Decide]_policyVars

(* Every snapshot there is, under any configuration: what the proofs are   *)
(* about, of which the bounded inputs above are some.  Both readers of the  *)
(* reason of a wait read the same one.                                     *)
AnySnapshot ==
    /\ snap \in SnapshotType /\ reason \in Reasons \cup {"unread"}
    /\ reason # "unread" => (snap.timers.recoveryFault <=> reason \in FaultReasons)
    /\ dec = None /\ st = "STOPPED" /\ owner = Unknown

PolicySpec == AnySnapshot /\ [][PolicyNext]_policyVars

-----------------------------------------------------------------------------
(* Properties *)

(* Evaluate always returns a well-formed decision.                         *)
WellFormed == snap \in SnapshotType /\ (Decided => dec \in DecisionType)

(* Decision precedence: whatever else matches, the reported rule belongs   *)
(* to the highest tier (spec section 7) among the matching rules, so no    *)
(* later rule of yieldRules can mask a stronger one.                       *)
HighestTierWins ==
    Decided => \A i \in Matches(snap) : dec.tier <= Tier(RuleOrder[i], snap)

(* act() keeps serving on a hold, so a hold while the runtime is running   *)
(* would ignore the rule: a running worker is only ever told to run, drain *)
(* or preempt, and a rule that matches always makes it yield.              *)
RunningNeverHeld ==
    Decided /\ snap.running =>
        /\ dec.action # "hold"
        /\ Matches(snap) # {} => Yields(dec.action)

(* Reload conditions (spec section 9), stated over the facts alone: a load *)
(* is allowed only when no safety, pause, contention or gaming fact holds, *)
(* after utilization contention only once external use has stayed low for  *)
(* the clear window, and with every timer run out.                         *)
LoadOnlyWhenClear ==
    Decided /\ ~snap.running /\ dec.action = "run" =>
        LET g == snap.gpu
            p == Profiles[ProfileOf(snap)]
        IN  /\ snap.power = NoPower
            /\ snap.mode # "pause"
            /\ ~snap.setupProblem
            /\ g.confidence # "none"
            /\ g.temp = "normal"
            /\ g.vramFree >= Cfg.requiredFreeVRAM
            /\ g.extVRAM < Cfg.extVRAMCritical
            /\ snap.apps.processListOK
            /\ \/ snap.apps.games = "none"
               \/ ~p.drainOnGameProcess /\ g.confidence = "high"
            /\ snap.apps.games # "onGPU"
            /\ /\ p.drainOnSoftContention
               /\ snap.timers.lastCompetingRule \in UtilRules
               /\ g.utilTrusted
               => g.belowSoftForClear
            /\ snap.timers.recoveryLeft = 0
            /\ snap.timers.sinceSuppressed >= Cfg.suppressFor
            /\ snap.timers.sinceCompeting >= p.cooldown

(* Losing per-process attribution never makes the worker more willing to   *)
(* keep the GPU: whenever full confidence would make it yield, degraded    *)
(* confidence over the same readings does too.                             *)
DegradedIsNoBolder ==
    Decided /\ snap.gpu.confidence = "degraded" =>
        LET sure == Evaluate([snap EXCEPT !.gpu.confidence = "high"]) IN
        /\ Yields(sure.action) => Yields(dec.action)
        /\ sure.action = "hold" => dec.action # "run"
        /\ sure.action = dec.action => dec.grace <= sure.grace

(* The timers k units from now, when nothing competes in the meantime.  A  *)
(* pause or AI Priority that has run out is back to auto (expireMode).     *)
Later(s, k) ==
    LET over == s.modeLeft # Forever /\ s.modeLeft <= k IN
    [s EXCEPT !.mode = IF over THEN "auto" ELSE @,
              !.modeLeft = IF over \/ @ = Forever THEN Forever ELSE @ - k,
              !.timers.sinceCompeting = @ + k,
              !.timers.sinceSuppressed = @ + k,
              !.timers.recoveryLeft = IF @ > k THEN @ - k ELSE 0]

(* The same facts with no pause and every timer run out: what else holds.  *)
Rested(s) ==
    [s EXCEPT !.mode = IF @ = "pause" THEN "auto" ELSE @,
              !.timers.sinceCompeting = @ + Profiles[ProfileOf(s)].cooldown,
              !.timers.sinceSuppressed = @ + Cfg.suppressFor,
              !.timers.recoveryLeft = 0]

(* AI Priority, which always ends, may end before: then the cooldown of    *)
(* another profile decides, and a time given for this one says nothing.    *)
SameProfile(s, k) == ProfileOf(Later(s, k)) = ProfileOf(s)

(* The promised next load time is exact while the profile stays: with no   *)
(* new competing workload, the idle worker does not load before it and, if *)
(* only timers and a pause held it, loads at it.  Recovery, suppression,   *)
(* cooldown and a timed pause all combine.                                 *)
NextLoadIsExact ==
    Decided /\ ~snap.running /\ dec.nextLoad > 0 =>
        /\ \A k \in 0..(dec.nextLoad - 1) : SameProfile(snap, k) => Evaluate(Later(snap, k)).action # "run"
        /\ SameProfile(snap, dec.nextLoad) /\ Evaluate(Rested(snap)).action = "run" =>
              Evaluate(Later(snap, dec.nextLoad)).action = "run"

(* While suppressed, an idle worker shows SUPPRESSED and never COOLDOWN,   *)
(* even when a competing workload or a recovery wait is what holds it.     *)
SuppressionStaysVisible ==
    Decided /\ ~snap.running /\ snap.timers.sinceSuppressed < Cfg.suppressFor
        => dec.idle # "COOLDOWN"

(* Spec section 8, step 6: a hard threshold stops a running runtime at     *)
(* once, whatever else matches.                                            *)
HardThresholdPreempts ==
    Decided /\ snap.running /\ (\E r \in CriticalRules : Applies(r, snap))
        => dec.action = "preempt"

(* Every decision of the policy evaluator has a reading: the owner is never *)
(* told that Benchwarmer cannot tell (classify's default).                  *)
OwnerAlwaysKnows == Decided /\ reason # "unread" => owner.kind # "unknown"

(* An error state is shown as a problem, except the routine wait after the  *)
(* readings came back: the owner's reading of a recovery reason agrees with *)
(* the evaluator's.                                                         *)
ErrorsAreProblems ==
    Decided /\ reason # "unread" /\ st = "ERROR" =>
        owner.kind = "problem" \/ owner.cause \in {"telemetry_recovered", "paused"}

(* ReturnAt is a bound on the next load: when it is over and nothing else   *)
(* changed, no timer holds the worker back any more (classify, timed).     *)
ReturnTimeIsABound ==
    Decided /\ owner.returnAt > 0 /\ SameProfile(snap, owner.returnAt) =>
        LET d == Evaluate(Later(snap, owner.returnAt))
        IN d.rule \notin {"eligibility.recovery", "eligibility.suppressed", "eligibility.cooldown", "manual.pause"}

(* A decision never gives the worker more than its facts allow: it is well *)
(* formed and of the highest tier that matches, a running worker is not    *)
(* held, a load waits until everything is clear, and less certain readings *)
(* never make it bolder.                                                   *)
DecisionsAreSafe ==
    WellFormed /\ HighestTierWins /\ RunningNeverHeld /\ LoadOnlyWhenClear /\ DegradedIsNoBolder

(* What the owner is told of a decision is true: it always has a reading,  *)
(* errors are problems, the times of the next load and of the return hold, *)
(* and a suppression stays visible.                                        *)
OwnerIsToldTheTruth ==
    /\ OwnerAlwaysKnows /\ ErrorsAreProblems
    /\ ReturnTimeIsABound /\ NextLoadIsExact /\ SuppressionStaysVisible
=============================================================================
