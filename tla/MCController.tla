---------------------------- MODULE MCController ----------------------------
(***************************************************************************)
(* Small instances of the controller for TLC.  A behaviour is of one       *)
(* scenario: the constants of the run, or those with what the scenario     *)
(* changes in them.                                                        *)
(***************************************************************************)
EXTENDS ControllerRefinement, CooldownWatch, TLC

(* Profiles: the default one gives a grace period and a cooldown; the      *)
(* scheduled one is tighter; AI Priority ignores soft signals.             *)
Profile(cool, gr, pressed) ==
    [drainOnGameProcess |-> TRUE, drainOnAmbiguous |-> FALSE, drainOnSoftContention |-> TRUE,
     softUtil |-> 4, softVRAM |-> 4, cooldown |-> cool, grace |-> gr,
     graceUnderPressure |-> pressed]

NoWaitProfiles == [p \in ProfileName |-> Profile(0, 0, 0)]

GraceProfiles == [p \in ProfileName |-> Profile(0, 1, 1)]
TimedProfiles == [p \in ProfileName |-> Profile(1, 2, 1)]

Policies(max, window, suppress) ==
    [vramFreeCritical |-> 1, extVRAMCritical |-> 8, requiredFreeVRAM |-> 4,
     degradedMarginPct |-> 25, maxPreemptions |-> max, window |-> window,
     suppressFor |-> suppress]

EachSuppresses == Policies(1, 0, 0)
Thrash == Policies(2, 3, 2)

(* Observations: what Build can report of the machine.                     *)
QuietGPU == [confidence |-> "high", noneForGrace |-> FALSE, temp |-> "normal", totalKnown |-> TRUE, vramFree |-> 8,
             extVRAMGrowing |-> FALSE, extVRAM |-> 0, utilTrusted |-> TRUE, util |-> 0,
             aboveSoftWindow |-> FALSE, aboveCriticalWindow |-> FALSE, belowSoftForClear |-> TRUE]
NoApps == [games |-> "none", launcherChild |-> "none", processListOK |-> TRUE]

Quiet == [gpu |-> QuietGPU, apps |-> NoApps, session |-> "other", scheduled |-> FALSE]
Game == [Quiet EXCEPT !.apps.games = "onGPU"]
GamePressing == [Game EXCEPT !.gpu.extVRAM = 5]
Critical == [Quiet EXCEPT !.gpu.extVRAM = 8]
Blind == [Quiet EXCEPT !.gpu.confidence = "none", !.gpu.noneForGrace = TRUE]

QuietOnly == {Quiet}
QuietOrGame == {Quiet, Game}
QuietOrPressing == {Quiet, Game, GamePressing}
Hard == {Quiet, Game, Critical}
WithBlindness == {Quiet, Blind}

NoBackoff == [n \in 1..CountCap |-> 0]
OneThenTwo == <<1, 2>>
One == [n \in 1..CountCap |-> 1]

Symmetry == Permutations(Instances) \cup Permutations(Requests)

-----------------------------------------------------------------------------
CONSTANTS
    Scenarios,      \* the scenarios of this run
    CooldownEvents  \* the environment's events in the scenario "cooldown"

VARIABLE scenario

ASSUME ScenarioAssumption ==
    /\ Scenarios \subseteq {"plain", "power", "resets", "cooldown", "recovery"}
    /\ CooldownEvents \subseteq EnvEvents

PowerEvents == {"gpureset", "suspend", "shutdown", "killfail"}
ResetEvents == {"crash", "gpureset", "killfail"}
RecoveryEvents == {"loadfail", "startfail", "killfail"}

(* Suspend and resume, shutdown and driver resets under load.              *)
Power == INSTANCE Controller WITH Observations <- QuietOrGame, Env <- PowerEvents

(* Driver resets, lost telemetry and crashes, each with a wait of its own; *)
(* no clients.                                                             *)
Resets == INSTANCE Controller
    WITH Observations <- WithBlindness, Env <- ResetEvents, Profiles <- NoWaitProfiles

(* A competing workload comes and goes, with other events in between.      *)
Cooldown == INSTANCE CooldownWatch WITH Observations <- QuietOrGame, Env <- CooldownEvents

ASSUME CooldownAssumption == "mode" \in CooldownEvents \/ Cooldown!NothingOutranks

(* A quiet machine on which starts, loads and kills fail; no clients.      *)
Recovery == INSTANCE Controller
    WITH Observations <- QuietOnly, Env <- RecoveryEvents, Profiles <- NoWaitProfiles,
         Startup <- 1, CountCap <- 2, CrashBackoff <- OneThenTwo, ZombieBackoff <- OneThenTwo,
         TelemetryBackoff <- OneThenTwo, ResetBackoff <- OneThenTwo

NoClients == UNCHANGED reqInst

MCInit == WatchInit /\ scenario \in Scenarios

MCNext ==
    /\ UNCHANGED scenario
    /\ \/ scenario = "plain" /\ Next /\ UNCHANGED sinceSeen
       \/ scenario = "power" /\ Power!Next /\ UNCHANGED sinceSeen
       \/ scenario = "resets" /\ Resets!Next /\ NoClients /\ UNCHANGED sinceSeen
       \/ scenario = "recovery" /\ Recovery!Next /\ NoClients /\ UNCHANGED sinceSeen
       \/ scenario = "cooldown" /\ Cooldown!WatchNext

mcVars == <<watchVars, scenario>>

MCSpec == MCInit /\ [][MCNext]_mcVars

(* Run steps on every tick of its own ticker and on every wake-up, a step  *)
(* runs to its end, and the goroutines are scheduled and bounded by        *)
(* timeouts.  The clock runs whatever the controller does; Tick is         *)
(* disabled inside a step only because a step reads the clock once.        *)
(* Clients owe nothing.                                                    *)
(* In "recovery" in addition no fault repeats forever: a start that keeps  *)
(* being tried succeeds at last, and so do a load and a kill.              *)
Ticks == (scenario = "plain" /\ Tick) \/ (scenario = "recovery" /\ Recovery!Tick)
Loads(i) ==
    \/ scenario = "plain" /\ LoadGoroutine(i)
    \/ scenario = "recovery" /\ Recovery!LoadGoroutine(i)
Stops(i) ==
    \/ scenario = "plain" /\ StopGoroutine(i)
    \/ scenario = "recovery" /\ Recovery!StopGoroutine(i)

MCFairness ==
    /\ WF_pc(Begins \/ Proceeds)
    /\ WF_stopCh(Absorbs)
    /\ SF_vars(Ticks)
    /\ \A i \in Instances : WF_vars(Loads(i)) /\ WF_vars(Stops(i))
    /\ SF_vars(scenario = "recovery" /\ Recovery!StartLoad)
    /\ SF_vars(scenario = "recovery" /\ Alive /\ \E i \in Instances : Recovery!LoadReady(i))
    /\ SF_vars(scenario = "recovery" /\ Alive /\ \E i \in Instances : Recovery!StopSucceeds(i))

MCLiveSpec == MCSpec /\ MCFairness

-----------------------------------------------------------------------------
(* The worker always comes back: on a quiet machine, whatever sequence of  *)
(* failed starts, loads and kills came before, the gate opens again.       *)
AlwaysServesAgain == [](scenario = "recovery" => <>(gate # NoInst))

(* The GPU is given back: a yield that has begun ends with the runtime     *)
(* stopped although clients never finish, and a stop that failed is tried  *)
(* again until it succeeds (reconcile, retryZombie).                       *)
GPUIsGivenBack == YieldCompletes /\ CleanupRetried
=============================================================================
