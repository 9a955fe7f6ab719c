---------------------------- MODULE MCDecisions ----------------------------
(***************************************************************************)
(* What the controller decides from: the policy evaluator and its readings *)
(* (module MCPolicy), and where its facts come from: the observer of GPU   *)
(* samples, the classification of processes with its patterns, the         *)
(* schedules, and the watch for driver resets. They share no variables, so *)
(* each is checked while the others are at rest: an instance picks the     *)
(* part that moves in its initial states.                                  *)
(***************************************************************************)
EXTENDS MCPolicy

CONSTANTS Parts,   \* the parts that move in this instance
          Inputs, TickSteps, Gap, Window, SoftPct, CritPct, DegradedMargin,
          Required, Tolerance, FullPct, MaxTicks, Pids, Programs, RuleSets,
          StaleAfter, Fullscreen, MaxSpawns, AppTicks, Symbols, MaxText,
          MaxPattern, Configs, MinuteLen, DayLen, Shift, ShiftBy, CacheFor,
          Steps, MaxNow, Files, Late, SaveEvery, MergeWindow, LastScan,
          MaxWrites, MaxCrashes

VARIABLES part,
          tickNow, lastTick, lastConf, noneSince, healthySince, above, vram,
          facts, hist,
          appClock, procs, born, runtimePid, rules, cls, report, ticks, apps,
          session,
          pattern, text, pi, si, star, mark, result, steps,
          wallNow, zone, schedules, cache, cacheAt, cacheValid, shown,
          clock, dumps, pc, seen, now, fresh, check, stored, firstSave,
          reported, settled, repeated, writes, crashes

Ob == INSTANCE Observer WITH now <- tickNow, Steps <- TickSteps
Ap == INSTANCE Apps WITH clock <- appClock, own <- runtimePid, MaxTicks <- AppTicks
Gl == INSTANCE Glob
Sc == INSTANCE Schedule WITH now <- wallNow
Gr == INSTANCE GpuReset WITH MaxNow <- LastScan

(* Inputs of the observer: a few over several ticks for the windows, every  *)
(* bounded one over one tick for the accounting.                            *)

Util(a, b) == [e \in {"3D", "Compute"} |-> IF e = "3D" THEN a ELSE b]

Sample(used, own, ext, ownUtil, extUtil) ==
    [complete |-> TRUE, listed |-> TRUE, ownSeen |-> TRUE, size |-> 8, used |-> used,
     own |-> own, ext |-> ext, ownUtil |-> ownUtil, extUtil |-> extUtil]

Input(sample, running, active, footprint) ==
    [sample |-> sample, running |-> running, active |-> active, footprint |-> footprint]

Low == Sample(1, 0, 1, Util(0, 0), Util(1, 0))
High == Sample(3, 0, 3, Util(0, 0), Util(3, 0))
Unlisted == [Sample(3, 0, 0, Util(0, 0), Util(2, 0)) EXCEPT !.listed = FALSE, !.ownSeen = FALSE]

\* Quiet, soft and critical use, unattributed use while idle and while the
\* runtime serves, and a lost sample.
WindowInputs ==
    {Input(Low, FALSE, FALSE, 0), Input(High, FALSE, FALSE, 0),
     Input([High EXCEPT !.extUtil = Util(4, 0), !.used = 2, !.ext = 2], FALSE, FALSE, 0),
     Input(Unlisted, FALSE, FALSE, 0), Input(Unlisted, TRUE, TRUE, 2),
     Input([Low EXCEPT !.complete = FALSE], FALSE, FALSE, 0)}

WindowSteps == {-1, 3, 4}

\* Every sample with memory up to 4, with and without per-process data.
AccountInput(used, own, ext, a, b, c, l, o, r, fp) ==
    Input([Sample(used, IF l /\ r /\ o THEN own ELSE 0, IF l THEN ext ELSE 0, IF r /\ (o \/ ~l) THEN Util(a, 1) ELSE Util(0, 0), Util(b, c))
             EXCEPT !.listed = l, !.ownSeen = l /\ o], r, FALSE, fp)

AccountInputs ==
    {AccountInput(used, own, ext, a, b, c, l, o, r, fp) :
        used \in 0 .. 4, own \in 0 .. 3, ext \in 0 .. 3, a \in {0, 3}, b \in {0, 2}, c \in {0, 4},
        l \in BOOLEAN, o \in BOOLEAN, r \in BOOLEAN, fp \in {0, 2}}

AccountSteps == {1}

(* Programs: a launcher, one that a prefix rule may call a game, and one   *)
(* without a readable path.                                                *)
MCPrograms == {[exe |-> "launcher", dir |-> "tools"], [exe |-> "title", dir |-> "games"], [exe |-> "title", dir |-> ""]}

Launcher == [kind |-> "exe", v |-> "launcher", class |-> "launcher"]
MCRuleSets ==
    {<<Launcher>>,
     <<[kind |-> "prefix", v |-> "games", class |-> "game"]>>,
     <<[kind |-> "exe", v |-> "title", class |-> "ordinary"], Launcher>>}

\* One list of rules, for the histories of processes and identifiers.
OneRuleSet == {<<Launcher, [kind |-> "prefix", v |-> "games", class |-> "game"]>>}

(* Schedules over days of four minutes: a day window, an overnight window, *)
(* one that ends where the next begins, and a disabled one; the zone       *)
(* changes in the middle of the second day.                                *)
S(days, start, end, on) == [days |-> days, start |-> start, end |-> end, enabled |-> on]

MCConfigs ==
    {<<>>,
     <<S({0, 6}, 3, 1, TRUE)>>,
     <<S({1}, 2, 1, TRUE), S({0, 1, 2}, 1, 2, TRUE)>>,
     <<S({1, 2}, 0, 3, FALSE), S(0 .. 6, 3, 0, TRUE)>>,
     <<S(0 .. 6, 1, 0, TRUE), S(0 .. 6, 0, 1, TRUE)>>}

BothWays == {1, -1}

\* Module Observer over one tick, with every input.
Oa == INSTANCE Observer WITH now <- tickNow, Inputs <- AccountInputs, Steps <- AccountSteps,
        Window <- 2, MaxTicks <- 1

\* Module Apps with rules that change.
Ar == INSTANCE Apps WITH clock <- appClock, own <- runtimePid, Pids <- {1},
        RuleSets <- MCRuleSets, Fullscreen <- {TRUE}, MaxSpawns <- 2,
        MaxTicks <- 2

ASSUME ConstantsAssumption ==
    /\ Parts \subseteq {"policy", "windows", "pids", "glob", "schedule", "resets", "account", "rules"}
    /\ Ob!BoundsAssumption
    /\ Ap!BoundsAssumption
    /\ Gl!SymbolsAssumption
    /\ Sc!TimeAssumption
    /\ Gr!BoundsAssumption

-----------------------------------------------------------------------------
windowsVars == <<tickNow, lastTick, lastConf, noneSince, healthySince, above, vram, facts,
    hist>>
pidsVars == <<appClock, procs, born, runtimePid, rules, cls, report, ticks, apps,
    session>>
globVars == <<pattern, text, pi, si, star, mark, result, steps>>
scheduleVars == <<wallNow, zone, schedules, cache, cacheAt, cacheValid, shown>>
resetsVars == <<clock, dumps, pc, seen, now, fresh, check, stored, firstSave, reported,
    settled, repeated, writes, crashes>>
vars == <<part, policyVars, windowsVars, pidsVars, globVars, scheduleVars, resetsVars>>

\* Every part starts as its module says; what it starts from is only chosen
\* for the part that moves.
Init ==
    /\ part \in Parts
    /\ IF part = "policy" THEN PolicyInit ELSE dec = None /\ Unread /\ snap = QuietSnap
    /\ IF part = "glob" THEN TRUE ELSE pattern = <<>> /\ text = <<>>
    /\ IF part = "schedule" THEN TRUE ELSE zone = 1 /\ schedules = <<>>
    /\ IF part = "resets" THEN TRUE ELSE dumps = [f \in Files |-> 0]
    /\ IF part \in {"pids", "rules"} THEN TRUE ELSE rules \in OneRuleSet
    /\ Gl!Init /\ Sc!Init /\ Gr!Init
    /\ IF part = "account" THEN Oa!Init ELSE Ob!Init
    /\ IF part = "rules" THEN Ar!Init ELSE Ap!Init

\* A step of one part, with the others at rest.
ObMoves(A) == part = "windows" /\ A /\ UNCHANGED <<part, policyVars, pidsVars, globVars, scheduleVars, resetsVars>>
ApMoves(A) == part = "pids" /\ A /\ UNCHANGED <<part, policyVars, windowsVars, globVars, scheduleVars, resetsVars>>
GlMoves(A) == part = "glob" /\ A /\ UNCHANGED <<part, policyVars, windowsVars, pidsVars, scheduleVars, resetsVars>>
ScMoves(A) == part = "schedule" /\ A /\ UNCHANGED <<part, policyVars, windowsVars, pidsVars, globVars, resetsVars>>
GrMoves(A) == part = "resets" /\ A /\ UNCHANGED <<part, policyVars, windowsVars, pidsVars, globVars, scheduleVars>>
OaMoves(A) == part = "account" /\ A /\ UNCHANGED <<part, policyVars, pidsVars, globVars, scheduleVars, resetsVars>>
ArMoves(A) == part = "rules" /\ A /\ UNCHANGED <<part, policyVars, windowsVars, globVars, scheduleVars, resetsVars>>

PolicyMoves == part = "policy" /\ PolicyNext /\ UNCHANGED <<part, windowsVars, pidsVars, globVars, scheduleVars, resetsVars>>

Next ==
    \/ PolicyMoves
    \/ ObMoves(Ob!Next)
    \/ ApMoves(Ap!Next)
    \/ GlMoves(Gl!Next)
    \/ ScMoves(Sc!Next)
    \/ GrMoves(Gr!Next)
    \/ OaMoves(Oa!Next)
    \/ ArMoves(Ar!Next)

Spec == Init /\ [][Next]_vars

-----------------------------------------------------------------------------
(* Properties: what each part promises is stated in its module.            *)

(* Time is never counted across a gap: how long external use was above or  *)
(* below a threshold and how long readings were healthy is the time all    *)
(* ticks of one unbroken observation agree on, and memory growth is        *)
(* measured by one method over the window it claims (run, growth,          *)
(* trackConfidence).                                                       *)
ContinuityIsReal ==
    part = "windows" => Ob!RunsAreContinuous /\ Ob!HealthyIsContinuous /\ Ob!GrowthIsOverTheWindow

(* Every reading is shared out safely: own and external use cover what the *)
(* adapter shows, a remembered footprint never hides what the sample gives *)
(* to another process, and a worker alone on the GPU is not its own        *)
(* contention while it loads (Split, gpu, degraded).                       *)
MemoryIsAttributed ==
    part = "account" => Oa!DemandIsCovered /\ Oa!OthersNeverHidden /\ Oa!LoadIsNotContention

(* Applications are recognised for what they are: a launcher's child only  *)
(* by a parent that really started it, although pids are reused; never the *)
(* runtime itself; by the configured rules of the moment; and a pattern    *)
(* matches exactly what it says, in a bounded number of steps.             *)
AppsAreSeenRight ==
    /\ part = "pids" => Ap!LauncherChildIsGenuine /\ Ap!RuntimeIsNoCompetitor /\ Ap!ClassesFollowConfig
    /\ part = "rules" => Ar!ClassesFollowConfig
    /\ part = "glob" => Gl!GlobIsExact /\ Gl!StepsAreBounded

(* A schedule is active in its windows and only there, overnight windows   *)
(* belonging to the day they begin, across changes of the zone; and the    *)
(* next change that is shown is the next one there is (inWindow, next).    *)
SchedulesAreExact == part = "schedule" => Sc!WindowsBelongToTheirDay /\ Sc!ShownChangeIsNext

(* A driver reset is reported, and once, although dumps appear late and    *)
(* the worker dies before or after it stores how far it looked             *)
(* (checkGPUResets, SetSince).                                             *)
IncidentsCountOnce == part = "resets" => Gr!NoIncidentMissed /\ Gr!NoIncidentRepeated
=============================================================================
