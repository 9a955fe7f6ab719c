# Benchwarmer: TLA+ models, checks and proofs

Benchwarmer runs one local inference server (`llama-server`) on a gaming PC and gives the
GPU back whenever a game, a critical load, a suspend or its owner wants it.  This directory
models its decision logic, its lifecycle controller and the parts around them (inference
proxy, process trees, signals, configuration and history files, persistence, host events,
management API, certificates) and model-checks them with TLC on small instances.  With TLAPS
it proves, for every instance, the controller's safety and its refinement of an abstract
lifecycle, and what the evaluator, the owner's page, the signals, the request path, the process
tree, the memory accounting, the certificate, the restart, the host events, the event history,
the configuration store, the shipped rules, the management API and the statistics promise.
Every safety property of a passing run is proved; the liveness properties are model-checked.

Run `tlc -config X.cfg M` for a run of `PROJECT.json`, `tlapm M.tla` for a `_proofs` module.

## 1. Inventory of the system

| Component (under `src/internal`) | State | Operations | Interacts with |
|---|---|---|---|
| `policy` | none (pure) | `Evaluate(snapshot, config)` | called by every controller step |
| `controller` | lifecycle state, current instance, zombie, yield in progress, timers, counters, manual request, mode, power facts; mutex; channels `readyCh` (1), `stopCh` (4) | `Step`, `SetMode`, `RequestDrain/Reload`, `UpdateConfig`, `RestoreConfig`, `PrepareSuspend`, `Resumed`, `Shutdown`, `Start` | policy, gate, adapter (through load and stop goroutines), stores |
| `state` | the transition table | `CanTransition` | controller |
| `proxy/gate` | open flag, upstream, active requests; own mutex | `Open`, `Close`, `admit`, `release`, `ForceCloseAll` | HTTP handlers and the controller, concurrently |
| `proxy` | one handler per request | admit, forward, release | gate |
| `runtime/llamacpp`, `procgroup` | owned process trees | `Start`, `WaitReady`, `Stop`, `Reconcile` | operating system |
| `observe`, `signals`, `telemetry`, `classify`, `gpureset`, `schedule` | windows, last samples, watermark | build the facts of a snapshot | controller |
| `config` store and history | primary, last-good and history files | `Load`, `Save`, `SaveVersion`, `VerifyCurrent` | controller, crashes |
| `store` | SQLite documents, event buffer | save and load controller state, `EventSink` | controller, crashes |
| `winsvc`, `service` | host event queue, suspend acknowledgement, stop deadline | `control`, `supervise`, `Run` | operating system, controller |
| `api`, `webui`, `cmd`, `tlscert`, `secrets`, `provision`, `metrics`, `logfile`, `modelplan`, `gguf` | sessions, certificates, output | HTTP, files | controller through its API |

What is hard here: the controller's step, the request handlers, the load and stop goroutines
and the processes themselves run concurrently; kills can fail and results arrive late and
without naming their instance; waits of six kinds extend and overlap each other; a yield
takes several steps during which everything may change; and the service may suspend, stop or
crash at any point.  Around the controller, files are replaced one write at a time, bounded
channels overflow, process ids are reused, samples are lost, the clock is set back and the
zone's offset changes.  `PROJECT.json` lists each hazard at its line.

What makes each part correct: the policy never lets a weaker rule mask a stronger one and
never allows a load while a wait runs; the controller never has two runtimes, never reports
the GPU free while a tree lives, never loses a stop, a reload or a request, and always gives
the GPU back and comes back; the gate admits only to the served runtime; the stores survive
a crash between any two writes; the host's events are not lost or acknowledged twice.

## 2. Plan

1. (done) `Policy`, `Controller`, `Lifecycle`, `ControllerRefinement` and their proofs.
2. (done) What surrounds the controller: `Proxy`, `Usage`, `Adapter`, `Vram`, `Restart`,
   `ConfigStore`, `BuiltinRules`, `EventLog`, `Housekeeping`, `Supervisor`, `Access`, `Owner`,
   `TlsCert`.
3. (done) The signals it decides on: `Observer`, `Apps`, `Glob`, `Schedule`, `GpuReset`.
4. Next: validation and the classification of configuration changes (`validate.go`,
   `impact.go`), attribution episodes, memory planning against its documented formula.
5. (done) Proofs: the controller (types, safety, refinement, waits, commitments, cooldown), the
   evaluator and the owner's page, the signals (`Observer`, `Apps`, `Glob`, `Schedule`,
   `GpuReset`), the serving side (`Proxy`, `Usage`, `Adapter`, `Vram`), the service
   (`Supervisor`, `TlsCert`, `Restart`, `EventLog`), the management side (`ConfigStore`,
   `BuiltinRules`, `Access`, `Housekeeping`).

## 3. Modules

**Policy** (`policy/evaluate.go`).  `Evaluate(s)` is the code's function from a snapshot to a
decision: `yieldRules` is the first rule of `RuleOrder` that `Applies`, `eligibility` the
first gate of `GateOrder` that `Blocks`.  Durations measured by the signal layer appear as
the comparisons the evaluator makes of them (`aboveSoftWindow`).  Times are ages or times
left relative to `Now`.  The code multiplies the soft utilization limit by a fraction
without rounding; the model rounds down, and the values used divide evenly.
Only three profiles exist: the default, a scheduled one, AI Priority.

**Controller** (`controller`, `proxy/gate.go`, and the outcomes of `runtime/llamacpp`).
The code holds one mutex throughout `step()`, so API calls never fall inside a step, but
requests, goroutines and processes do.  `pc` splits a step where they can:

| `pc` | code | actions |
|---|---|---|
| `idle` → `absorb` | `absorbAsync`, one load result | `NoLoadResult`, `LoadResultStale/OK/Failed` |
| `absorb` | each stop result | `OnStopped`, `OnStopFailed`, `OnZombieStopped` |
| `absorb` → `decide` | `retryZombie`, crash detection | `NothingToReap`, `RetryZombie`, `OnCrash` |
| `decide` → `act` | `checkGPUResets` … `applyLoadBlocked`, `LastCompetingAt` | `Decide` |
| `act` → `idle` | `act`, `checkCrashReset` | `ActHold`, `StartLoad`, `StartFails`, `ActWait`, `ActCancelLoad`, `ActServe`, `ActPreempt`, `ActDrain…`, `ActGraceExpired` |

The API actions (`SetMode`, `RequestManual`, `UpdateConfig`, `PrepareSuspend`, `Resumed`,
`Shutdown`) need `pc = "idle"`.  `Admit` and `Release` are the gate's critical sections,
`LoadReady`, `LoadError`, `PostLoad`, `StopSucceeds` and `StopFails` the goroutines,
`ProcExit` a process dying on its own, `Tick` the clock.  An observation is any member of
`Observations`, which includes the step that reuses the last one.

Abstractions: escalation counters saturate at `CountCap` (the waits have reached their
maximum there, assumption `Escalates`); ages saturate at `AgeCap`; only the newest
`maxPreemptions` preemptions are kept; instances are recycled once nothing refers to them;
at most `|Instances| - 1` load goroutines are outstanding when a step begins
(`SpareInstance`).  The configuration is constant but for the effect of a change that needs
a reload; `Reconcile` finds nothing, because the trees of this model are all owned.  Opening
the gate and counting its requests is one action, so a request admitted between the two is
counted one step later than in the code.

**Lifecycle** says what the controller promises the machine in eight actions over three
variables.  **ControllerRefinement** maps the controller to it: `Phase` (from `zombie` and
the state), admission, and `Held` (some tree is not verified empty).

**CooldownWatch** adds a witness to the controller, how long ago a competing workload was last
seen on the machine, whether or not the winning rule reported it.

**Proxy** (`proxy/proxy.go`, `gate.go`) is one request at a finer grain than `Controller`,
where a handler is only `Admit` and `Release`: the checks before admission, the timer, the
cancellation cause (the first one stays), `ErrorHandler` and the reverse proxy's panic, the
deferred account, and the two halves of `release`; against it the controller's `Open`,
`Close`, `ForceCloseAll` in its two halves, and the wake-up through the channel of one.
**Usage** (`usage.go`) is the pair of windows kept of a response.

**Adapter** (`runtime/llamacpp`, `procgroup`).  A process table with reused ids, a job object
that closes with the worker, `Start` as probe, suspended creation, assignment and resume,
`Stop` by two callers who share a lock (Ctrl+C, grace, kill, root exit, verification), and
`Reconcile` as snapshot, verification and termination.  `Controller` takes the outcomes of
these from this module.  **Vram** (`controller/step.go`) is the memory side of a stop: the
baseline, the learned footprint, what is counted as ours until the driver has freed it.

**Supervisor** (`winsvc`, `service.go`): `control` on the dispatcher's thread, the loop of
`supervise`, `Run`'s select, joined by two bounded channels, a context and an acknowledgement
per suspend.  **Restart** (`Start`, `persist`, the persister, `documents.go`): documents are
written one after the other, each may fail, and the process or the machine dies between any
two.  **ConfigStore** (`config/store.go`, `history.go`, `updateConfig`, `RestoreConfig`):
journal, primary, commit and last-good are writes of their own.  **BuiltinRules**
(`config/builtin.go`) merges each build's shipped rules into an edited file: `offered[i]` is the
file after the first `i` of them (no build ships a rule twice).  **EventLog**
(`store/sink.go`, `events.go`): emitters, bounded buffer, batching writer, `Close`,
retention, and clients paging backwards.  The table is a set of rows with their ids; `LIMIT n`
(`Newest`) is the rows with fewer than `n` newer ones; an event's number is the number of
events emitted when it is sent, which orders those of one emitter.  **Housekeeping**
(`service.go`, `stats.go`): the minute job.

**Access** (`api`): every route with every principal; a request is authorised in one step and
handled in later ones.  **Owner** (`api/owner.go`) is a pure function over the decisions of
`Policy`.  The four rules with which the controller overrides a decision (`manual.drain`,
`manual.reload`, `safety.runtime_unverified`, `safety.secrets_unprotected`) are not the
evaluator's and are read as "unknown" there.  The reason of a recovery wait and the evaluator's
`recoveryFault` are two readings of one field, so the snapshots have them agree.  **TlsCert** (`tlscert`): two files that are
replaced one after the other, generated pairs, or the Windows store.

**Observer** (`observe`, `telemetry/sample.go`): one tick of the GPU half, with the runs and
windows it keeps.  **Apps** (`observe`, `classify`): the application half, with processes that
come, go and reuse ids.  **Glob** is the pattern matcher as the one-pass loop the code has,
against a definition of a match: an alignment says where in the text each symbol of the
pattern begins to match.  **Schedule** (`schedule`, and the controller's
cache of the next change): absolute time against a zone whose offset changes once.
**GpuReset** (`gpureset`, `checkGPUResets`): directory scans and the stored watermark.

The `MC` modules define the instances.  **MCPolicy** enumerates the evaluator's inputs.
**MCController** has scenarios: besides the constants of the run, the same specification with
other observations and events ("power", "resets", "cooldown", "recovery"), over the same
variables; "cooldown" runs `CooldownWatch`.  **MCDecisions**, **MCServing**, **MCService** and **MCManagement** each put several
components that share no variables side by side: `part` is chosen in the initial state, that
component moves as its own specification says and the others rest in their initial state.
This is the sum of the components' state spaces, not their product, and loses nothing,
because the properties are of one component each.  Where one set of constants cannot show
everything, a component is instantiated twice ("shared", "failing", "restore", "sessions", "rights",
"apps", "account", "rules").  The assumptions on each component's constants are conjuncts of
`ConstantsAssumption` there, which TLC evaluates.

## 4. Runs

| Run | Part | Shows | Bounds |
|---|---|---|---|
| `decisions` | policy | precedence, no hold while running, reload conditions, degraded telemetry no bolder; `next_load_at` is exact; suppression stays visible | every combination of readings on both sides of each threshold; timers up to one past each span |
| | owner | every decision has a reading, faults are problems, promised times are bounds while the profile stays | the snapshots of the policy |
| | observer | durations are of unbroken observation; nothing used is unaccounted | 4 ticks of 6 kinds; every bounded sample once |
| | apps, glob, schedule, reset watcher | launcher children are genuine, classes follow the rules; algorithms against their definitions; no incident missed or repeated | 2 ids and 4 processes; texts and patterns up to 4; 60 half minutes over 7 days of 4 minutes; 2 dumps, 2 crashes |
| `controller_faults` | plain | the safety invariants and the refinement of `Lifecycle` under crashes, failed starts, loads and kills, reloads, setup problems | 2 instances (one current, one whose late goroutine is outstanding), 1 request, no waits |
| | power | the same under suspend, resume, shutdown and driver resets; a step that sees one closes admission | the same |
| `controller_timers` | plain | grace, cooldown, suppression, modes, manual drains | spans of 1 to 3 units, window of 2 preemptions |
| | resets | the escalated wait of driver resets survives those of crashes, telemetry losses and failed kills | two escalation levels |
| | cooldown | the cooldown runs from the disappearance of the workload | one unit of cooldown |
| `controller_progress` | plain | every drain and stop completes, cleanup is retried | 2 instances, a client that never finishes |
| | recovery | the worker serves again | two escalation levels |
| `serving` | proxy | accounts, outcomes, aborts and cancellations agree in every order of timer, preemption, hang-up, stall, failure and end | 2 requests, every kind of caller |
| | adapter, failing | nothing outside the job, a released tree is empty, only orphans are killed, one runtime as long as reconciling succeeds | 3 ids, 2 workers, one fault; failing kills and process lists |
| | vram, shared | release is real, own memory is no competitor, both up to what a load did not wait for; others are hidden for a bounded time | models of 2 and 10 of 10, others in two sizes, loads and reloads at any step |
| | usage | windows exact, memory bounded | windows of 3 and 2, chunks up to 6, bodies up to 40 |
| `serving_progress` | proxy, adapter, vram | requests whose callers read and all stops end; a drain's end is noticed without the tick; a stranger on the port is noticed; the memory check ends | 2 requests, 2 ids, one failed attempt |
| `service` | supervisor | sleeps are released first, nobody stays suspended unless an event was dropped | channels of 2, 4 requests |
| | tls | what is served is whole, a bad renewal is reported once, the store never serves worse | 3 pairs (one ends, one comes into force while they are used), 4 writes at any time |
| | restart, events | what was saved is kept, modes end on time; pages are complete and pruning keeps the newest | 2 faults, 1 failed write, 1 reboot; 3 events per emitter, one prune |
| `service_progress` | supervisor, tls, restart, events | controls return, stops complete, renewals take effect, saves are repeated, every event is stored in order or counted, `Close` flushes and returns | channels of 1, 3 requests; buffer 2, 5 events, 2 failed writes |
| `management` | config, restore | history, primary and the running configuration agree; a restore is not stale | 2 saves, 1 edit, 2 crashes; 2 callers and 3 saves |
| | rules, housekeeping | deleted stays deleted, edits survive, order is kept; hours are exact, old ones go, one warning a day | 3 builds, 3 edits; hours of 3, days of 6, a year of 3 days |
| | signin, sessions, rights, apps | only what ADR 0007 allows takes effect; codes, guesses and sessions; writes in between | 1 or 2 requests, 2 codes, 1 or 2 sessions kept |
| `cooldown_paused`, `policy_hard_threshold`, `restart_fault` | | end in a violation: the findings below | |

**Properties.**  Each component states its promises one by one in its own module; the `MC`
modules join those that answer one question into the property a run checks (a state part is
claimed of every state a step reaches, an action part of every step):

| Property | Parts |
|---|---|
| `DecisionsAreSafe` | `WellFormed`, `RunningNeverHeld`, `LoadOnlyWhenClear`, `DegradedIsNoBolder`, `HighestTierWins` |
| `OwnerIsToldTheTruth` | `OwnerAlwaysKnows`, `ErrorsAreProblems`, `ReturnTimeIsABound`, `NextLoadIsExact`, `SuppressionStaysVisible` |
| `ContinuityIsReal` | `Observer`: `RunsAreContinuous`, `HealthyIsContinuous`, `GrowthIsOverTheWindow` |
| `MemoryIsAttributed` | `Observer`: `DemandIsCovered`, `OthersNeverHidden`, `LoadIsNotContention` |
| `AppsAreSeenRight` | `Apps`: `LauncherChildIsGenuine`, `RuntimeIsNoCompetitor`, `ClassesFollowConfig`; `Glob`: `GlobIsExact`, `StepsAreBounded` |
| `SchedulesAreExact` | `Schedule`: `WindowsBelongToTheirDay`, `ShownChangeIsNext` |
| `IncidentsCountOnce` | `GpuReset`: `NoIncidentMissed`, `NoIncidentRepeated` |
| `DrainIsHonoured` | `Controller`: `DrainIsCommitment`, `GraceRespected` |
| `WaitsAreHonoured` | `Controller`: `LoadOnlyAfterWaits`, `ResetWaitHonoured` |
| `CooldownFromDisappearance` | `CooldownWatch`: `CooledDown` |
| `GPUIsGivenBack` | `Controller`: `YieldCompletes`, `CleanupRetried` |
| `RequestsAreAccounted` | `Proxy`: `AccountedBeforeReleased`, `CutIsVisible`, `NobodyLeftBehind`, `OutcomeIsEarned`; `Usage`: `WindowsAreExact`, `MemoryIsBounded` |
| `RequestsEnd` | `Proxy`: `EveryRequestEnds`, `DrainEndIsNoticed` |
| `TreesAreOwned` | `Adapter`: `NothingEscapes`, `NoneForgotten`, `ReleasedIsEmpty`, `KillsOnlyOrphans`, `OneRuntime` |
| `MemoryIsGivenBack` | `Vram`: `ReleaseIsReal`, `OwnIsNoCompetitor`, `FootprintIsCurrent`, `HiddenIsBounded` |
| `StopsEnd` | `Adapter`: `StopsEventually`, `StrangerIsNoticed`; `Vram`: `CheckEnds` |
| `PowerIsHandled` | `Supervisor`: `TypeOK`, `ResumedWhenAwake`, `AckedOnce`, `SleepsReleased` |
| `ControlsComplete` | `Supervisor`: `ControlReturns`, `StopCompletes` |
| `CertificateIsSound` | `TlsCert`: `ServedIsWhole`, `TakenUpInForce`, `WarnedOnce`, `StoreNeverWorse` |
| `CertificatesTakeEffect` | `TlsCert`: `RenewalTakesEffect`, `SelfSignedServes` |
| `RestartKeepsRecords` | `Restart`: `TypeOK`, `ModeEndsOnTime`, `RecordsSurvive` |
| `PagesAreWhole` | `EventLog`: `PagesAreComplete`, `PruneKeepsNewest` |
| `EventsAreKept` | `EventLog`: `TypeOK`, `EveryEventAccounted`, `EmissionOrder`, `NoSendOnClosed`, `CloseFlushes` |
| `AcceptedBecomesDurable` | `Restart`: `ChangesBecomeDurable`; `EventLog`: `CloseCompletes` |
| `ConfigurationIsKept` | `ConfigStore`: `TypeOK`, `HistoryIsTrue`, `NewestIsCurrent`, `RunningIsPersisted`, `RestoreIsFresh` |
| `ShippedRulesMerge` | `BuiltinRules`: `IdsAreUnique`, `DeletedStaysDeleted`, `EditsSurviveMerge`, `NewRulesKeepOrder` |
| `StatisticsAreExact` | `Housekeeping`: `HoursAreExact`, `WarnedAtMostOnce`, `OldHoursGo` |
| `OnlyAllowedChanges` | `Access`: `WritesNeedAToken`, `TokenlessOnlyPauses`, `CodesNeedManagement` |
| `SessionsAreEarned` | `Access`: `TypeOK`, `GuessesLimited`, `SessionsExpire`, `SessionsComeFromCodes`, `NewestSessionsKept` |

The controller's own invariants (`TypeOK`, `OneRuntime`, `IdleMeansReleased`,
`GateOnlyWhenServing`, `NoOrphanRequest`, `ConfigConverges`, `StopsAccountedFor`,
`SuppressionCoversThrash`), `SafetyClosesGate`, `Refines` and `AlwaysServesAgain` stand alone.

Two instances suffice for the confusions at stake, which are always between the current
runtime and one earlier one: `OneRuntime` shows that a third tree cannot exist, and the
proofs have no such bound.  A single request is enough because requests do not interact.
Only `controller_faults` mixes all faults; waits are zero there so that every order of events
is possible, and the timed scenarios add waits with fewer faults.

The other modules cap what only repeats (writes, crashes, edits, requests, time) by named
bounds, each large enough for the case at stake plus one ordinary repetition: a crash and the
restart after it, a full channel and one event more, a stale answer and the change it misses.

Deadlock is checked in `controller_timers` and `controller_progress`.  Elsewhere the system
may really stop: after `ShutdownReturns` nothing but the operating system moves, a stopped
service and a finished response stay so, the evaluator's inputs are evaluated once, and where
the environment is bounded the behaviour ends when the bounds are used up.  There the
liveness properties ask the sharper question.

**Fairness.**  `MCLiveSpec` of the controller assumes that the run loop keeps stepping (its
ticker), that a step ends, that time passes, and that load and stop goroutines finish (each
is bounded by a timeout).  Strong fairness of `Tick` reflects that the clock does not wait for
the controller; the model disables it inside a step only because a step reads the clock once.
Clients, users and faults owe nothing.  In "recovery" it also assumes that a start, a load
and a kill that are tried again and again succeed at last: without it nothing can be promised.

Elsewhere weak fairness is put on the program's own threads only: the dispatcher, the loop of
`supervise` and the service body, and the clock (`Supervisor`); the save and the step
(`Restart`); the writer goroutine and `Close` (`EventLog`); the worker, the stop goroutines, a
terminated process leaving and the runtime binding its port (`Adapter`); handshakes, which
trigger the reload (`TlsCert`); the controller's step (`Vram`); the timer, a cancelled
transfer, the deferred calls and the controller's loop (`Proxy`).  Callers, files, drivers
and faults owe nothing.  Modules without liveness properties state none.

**Findings** (each is a run that ends in a violation; `PROJECT.json` quotes the line).
- `cooldown_paused`: `step()` records `LastCompetingAt` only if the winning rule competes.
  Under a pause, which outranks it, a running game does not restart the cooldown, and
  lifting the pause right after the game ends loads at once; the documentation measures the
  cooldown from the last moment a competing workload was observed.
- `policy_hard_threshold`: under a pause the critical thresholds lead to a drain with its
  grace period, although they are documented to bypass grace in every mode.
- `restart_fault`: the persister stores no recovery wait, although `Start` is documented to
  keep one; after a restart a fault's wait is over early.

**Known limits of what the passing runs promise.**  These are cases in which the code does
less than one of its comments says, or where nothing promises more; the models contain the
behaviour, and a property (or, where a constant is named, an instance) leaves the case out.
Without the scoping, or with another value of the constant, TLC shows each of them.
- The event "VRAM released" of a reload.  `step()` absorbs the stop's result and may start the
  next load in the same step, before `checkVRAMRelease` runs; `startLoad` (`step.go:570`) has
  then taken the use of that moment, with all of the old model in it, as its baseline, and
  `step.go:520` finds the memory "released" at once, against its comment (`step.go:506`: it
  "confirms, as far as telemetry allows, that the runtime's VRAM came back").  The release
  time observed for the metrics is that of the event.  `ReleaseIsReal` is
  therefore about a runtime that stays stopped: with `said = "released" => lag <= Remainder`
  TLC needs five states.  A load that did not wait also spoils what comes after it: a baseline
  too high by what the driver still held, and a footprint measured against it.  The ghost
  `owed` is that amount, and `ReleaseIsReal` and `OwnIsNoCompetitor` hold up to it.
- A request whose caller does not read.  The maximum duration "bounds each request; exceeding
  it cuts the connection" (`proxy.go:35`, `config.go:87`), but neither it nor a forced close
  reaches a handler blocked in a write.  `serving_progress` lets callers stall
  (`ClientsStall`), and `EveryRequestEnds` says that a request ends or is blocked so.  A
  caller's hang-up during its response is counted as a cut.
- A renewal during a load.  "A renewed certificate takes effect without restarting the
  service" (`tlscert.go:5`), but `load` takes the times after the content (`tlscert.go:239-247`):
  a file replaced in between is not looked at again.  A pair that is read before it is in
  force is refused and not looked at again either when it comes into force.  Both happen in
  `service_progress`; `RenewalTakesEffect` claims nothing while `unseen` names such a file.
- A PUT of the applications copies the configuration it reads and writes it back whole
  (`handler.go:431-434`), so a configuration saved in between is undone.  Unlike a restore it
  carries no revision.  `Access` has the two steps; no property speaks of it.
- A resume that the full event buffer drops (`supervisor.go:149`) is not repeated, and the
  controller stays suspending until the next one.  `ResumedWhenAwake` leaves behaviours with a
  dropped event out; `winsvc.go:140` announces that events are dropped.
- `KillMayFail` (FALSE in "adapter"): `startLoad` goes on when its reconciliation failed, so
  `OneRuntime` is not claimed of "failing".
- `Access` without "handle": with an unreadable path, the name of the process that had the id
  decides about killing its successor (`KillsOnlyOrphans`).  A process that refuses a query
  ("denied") is no candidate at all.
- `Missing` (empty): an update validated before another changes the model path brings a
  missing file back unchecked (`backend.go:217`).
- Not excluded, but claimed by no property: `Run` may see its context end before the queued
  stop event and plan with a later deadline; with an unusable certificate and a failing
  management listener its error path closes a nil listener; a failed save of the installed
  configuration appears in history as a change; a primary deleted after the first run is
  replaced by the defaults; the persister stores no boot time, so an until-reboot mode ends
  at a service restart; a session that expires between authorisation and the mode handler
  leaves an audit record without a name; the time without readings is counted across an
  observation gap; a service started on 1 January makes no expiry check that day.

## 5. Proofs

All proofs hold for every value of the constants that the assumptions of the modules allow:
`PolicyConfig` and `ControllerConfig` for the evaluator and the controller (any sets of
instances and requests, any observations, any environment events, any waits, `LoadBlocked` true
or false, where the runs only use false), and `ConstantsAssumption` of `MCDecisions`,
`MCServing`, `MCService` and `MCManagement`, which names the assumptions of their parts.  Each assumption is a
bound that `Validate` enforces or a constant of the code (that the process ids are finite, that
no build ships the same rule twice).  Three theorems have a hypothesis of their own, given
below: `CooldownIsServed`, `TreesOwned` and `MemoryComesBack`.

**The controller.**
- `Controller_proofs`: `TypeCorrect`.  One lemma per group of actions; the lemmas about
  `setRecovery`, `RecordPreemption` and the escalation waits carry the arithmetic.
  `Policy_proofs` has those about `Evaluate`.  In the same module, `Invariant`, and from it
  `AtMostOneRuntime`, `ReleasedWhenIdle`, `AdmissionSafe`, `NoRequestOrphaned` and
  `StopsNeverMixed`.  None of these is inductive alone.  `OneRuntime` needs to know that a load starts only with no
  instance and no zombie; that follows from `Bookkeeping` (proved, not a property of a run: an
  instance exactly in the running states, a zombie only in Error, a stop reported as verified
  is of an empty tree) and from `DecisionSafe` (while there is a zombie, the decision about to
  be acted on is not "run").  `Bookkeeping` needs `StopsAccountedFor`, because stop results do
  not name their instance: it is only because at most one stop is in flight that the result is
  about the tree it is taken for.  `IdleMeansReleased` follows from the same facts, and
  `NoOrphanRequest` needs `GateOnlyWhenServing`.
- `ControllerWaits_proofs`: what the controller may not do in a step.  The step is split at
  `decide`, so each property needs what the decision still knows when it is acted on:
  `Informed` (it takes the power facts into account, and one to load was made with every wait
  over) gives `PowerClosesGate` and most of `LoadsWait`.  The rest of `LoadsWait` is
  `ResetCovered`, that what is left of the merged recovery wait covers what is left of the
  escalated wait for driver resets, whatever other wait was set over it, and `CleanupWaits`.
  `DrainsAreHonoured` needs the safety invariant only.  `ReloadsAreNotLost` needs that every
  way out of a running state goes through a stop or a crash.  `ThrashIsSuppressed` needs
  `ThrashForeseen`: a yield that will count, decided when one more preemption reaches the
  limit, carries the suppression with it until its stop is absorbed, and no other preemption
  is recorded in between.
  `CooldownIsServed` is about `CooldownWatch`.  `ClockAgrees`: the controller's clock of the last
  competition is never ahead of the witness; `PresentWins` and `CompetitionReported` give it at a
  decision, and `ClockMoves` says that nothing else of the controller's work touches that
  clock.  `RunCooled`: a decision to load was made with the cooldown over.  The hypothesis
  `NothingOutranks` (no pause and no power event, a GPU that can be measured and is cool, the
  default profile) is where the promise ends: a rule of a higher tier hides the workload from
  `LastCompetingAt`.  The finding `cooldown_paused` shows that for a pause; it holds of a suspend,
  a driver reset, lost readings and a hot GPU alike, for the same reason.
- `ControllerRefinement_proofs`: `ImplementsLifecycle`.  Adds `Holding` (the current
  runtime's tree is empty only once the stop that emptied it has been reported) and shows,
  action by action, that a step of the controller is a step of `Lifecycle` or a stutter.

**What it decides from** (`Decisions_proofs`).
- `PrecedenceHolds`, `DecisionsSafe`: of `PolicySpec`, in which the snapshot is any of its type
  and not one of the inputs the run enumerates.  The winner is the least matching index
  (`FirstExists`), the tiers are ordered as the rules are, and degrading a snapshot's
  telemetry only removes ways to match or to load.
- `OwnerToldTruly`: of the same specification.  `TimePasses` is the arithmetic of the timers:
  the time promised is the latest of those that run, so at that time all are over and before
  it one is not.  `FactsDecide`: whether a rule matches depends on the timers only through the
  mode and the last competing rule, so a snapshot some time later matches as `Rested` does.  `ReadingInv`
  ties what the owner reads to a decision, a state it can lead to, and the reason of the wait.
  The promise is claimed while the profile stays (`SameProfile`).  A timed AI Priority that ends
  before the promised time changes the profile and with it the cooldown, so that
  `next_load_at`, documented as the earliest time a load could be allowed, may then be too early
  or too late.
- `AppsRecognised`: for the process table, `TableInv`: creation times and identities grow with
  the clock, and whoever holds a parent's id now is that parent or younger than the child
  (`ParentOrYounger`), which is what makes the check of creation times enough where ids are
  reused.  That the list of a tick can be put in order (`SortedIsAList`) needs no
  induction: the number of lines before a line is its place, and numbers them one to one.  For the matcher, `RestDecides`: with a star behind it, the pattern fits the text
  exactly when the rest behind the last star fits from the mark or later, so that the earlier stars can
  be forgotten; `StepsPaid` charges every step to the mark.
- `MemoryIsShared`: `SharedOut` is about any sample of natural numbers, `FactsAreOf` says that
  the facts shown are of the last input.
- `ContinuityHolds`: `WindowsInv` relates the timers to the whole history of ticks: each is the
  beginning (`Begin`) of the last unbroken run of the ticks it is about, and the growth window
  holds the points of one method only.  The property speaks of the facts alone and says
  nothing about where a timer stands before the next tick.
- `SchedulesExact`: the code searches for the next change window by window; `SearchAnswers`
  shows that its first hit is the first minute at which the active profile differs, and
  `AnswerStays` that a cached answer remains one until it is reached, as long as the cache
  lives no longer than a day (`CacheFor <= DayLen * MinuteLen`; one hour in the code).
- `ResetsCountOnce`: `ResetInv` has seven parts, because a report, its being seen and the stored
  watermark are three steps with a possible crash after each: what is seen lies before the
  watermark or is being handled (`SeenIsHandled`), what was stored as handled is seen after a
  restart (`SaidIsSeen`), and what lies between the first and the stored watermark was told
  (`AllIsTold`).

**Serving** (`Serving_proofs`).
- `RequestsAccountedFor`: `TicketsHeld` (a request is in the gate's set exactly while its handler
  has a ticket to give back), `GivenOnce`, `Reported` and `CutsReach` (while a cut is under way
  everybody at the gate is cancelled or still listed) for `Proxy`; for `Usage`, `TapInv`: the
  tail kept is the last `n` bytes for some `n` between one window and two.
- `NoTreeIsLost`: whatever fails, nothing of a tree runs outside its job, and an instance is held
  until its tree is empty (`JobHoldsTree`, `HeldUntilGone`, `StopsInTheirPlace`).
- `TreesOwned` also has `KillsOnlyOrphans` and `OneRuntime`, under `ReadableMachine`: paths can
  be read and kills succeed.  Those are the constants of the part "adapter", the only one for
  which the property is claimed with them; section 4 says what happens without.
- `HiddenForABoundedTime`: part "shared", without a hypothesis.
- `MemoryComesBack`: `CheckIsOfTheStopped` and `MeasuredCovers` follow baseline and footprint from
  the load to the end of the check, each off by no more than what was owed when a load began
  (`owed`), however loads, reloads and stops follow each other.  Its hypothesis
  `OthersOnlyTake` (others do not free memory) is what makes the promise about the adapter's
  readings one about memory: memory that another program frees is counted as given back by
  the runtime.  "vram" is run with it; "shared" is run without.

**Service** (`Service_proofs`).
- `CertificateSound`: the two files are read one after the other while they are replaced, so what
  is read is served only once it loads as a pair; `ServedLoads` carries that through the
  phases of a look, for which the clock stands still (`LoadedIsTakenUp`).  A certificate that
  expires while it is served is still served: `TakenUpInForce` is about the moment it is taken up.  A bad renewal is reported once because every problem reported is due to a
  write of its own.  `TimesAreWrites` numbers the writes, and `ProblemsAreWrites` says for each
  phase which of them the look under way can still report: it takes the certificate's time
  before the key's, so one write may fall between.  The certificates of the store are
  assumed to have identities of their own.
- `RecordsKept`: `DocumentIsDurable` ties the document to the last timers written while saves
  fail or are interrupted, and `ModeInForce` says that a running service's mode is not over,
  which every start and every tick has to re-establish.
- `PowerHandled`: a suspend names its `Done` channel in three queues in turn.  `OnePlaceEach`: an
  unacknowledged one is in exactly one of them; `HeldIsLast`: the request `control` waits for
  is the last of what is on its way, so when its channel is closed in time the service body
  is past that suspend; `ResumeFollows`: a suspending controller of a machine that is awake
  has a resume on its way, unless the buffer dropped one.
- `EventsKept`: `NumbersGrow` orders an emitter's events from the channel through the batch into
  the table, an event between check and send included, and `WriterRegular` says what the
  writer's phase implies.
- `PagesWhole`: `PageSound` relates what a client saw, its cursor and the rows still there.
  `PageTurns` is the step: the look-ahead row exists exactly when rows older than the page do.
  `NewestCount` is `LIMIT`: at most `n` rows, and exactly `n` when a row is left out.

**Management** (`Management_proofs`).  `ConfigStore` and `Access` are instantiated several times
with other constants.  What differs is made a parameter (`StoreStep(Cl)`: the callers;
`AccessStep(R, C)`: the requests and codes), the invariant is proved once for that form, and a
lemma per instance shows that its steps have it.
- `ConfigurationKept`: a save is journal, primary, commit, last-good and application.
  `FilesAgree`, the core of `ConfigInv`, says for each of these phases, and for a service that
  died in it, which of primary, history and running configuration are already the new ones; it
  holds until someone else writes the files, and a pending version is settled by what the
  primary holds (`Committed`).  `SavesAreFresh` carries a restore's revision from its preview
  to its application.
- `ShippedRulesMerged`: `MergeInv`, between two merges: the file has no id that it was not
  offered, no two entries share one, and what the operator deleted was offered once.  The
  merge itself is an argument about the first shipped rule after which the file would be wrong
  (`offered`): each rule is placed without moving those already there (`OfferedSoFar` is what holds after the first `n`).
- `ChangesAllowed`: `AccessInv`, over the requests being served: what a request may still do
  follows from the credential it was authorised with, whatever happened in between.
- `SessionsEarned`: `Limited` relates the counter of failures to the set of guesses: those of the
  window being counted, of the one before it, and of any stretch of that length, which may
  overlap two windows and so hold twice the limit.  `CodesInv` ties the expiry of a code to its
  registration, and `SessionsInv` says which sessions can exist.
- `StatisticsExact`: `HoursKept` (an hour holds as many seconds as were recorded for it, or
  had ended `MaxAge` before the last tick, so that no later span reaches it) and
  `WarningsKept`.  `ShareCounts` is the arithmetic: a span's share of an hour is the number of
  its instants that lie in the hour.

Induction: the library's induction rules cannot be instantiated, so inductions over numbers
are arguments about a least counterexample (`FirstExists`, `LatestOf`, `HasLeast`), with the
well-foundedness of the naturals from the library.

Only model-checked: the liveness properties (`GPUIsGivenBack`, `AlwaysServesAgain`,
`RequestsEnd`, `StopsEnd`, `ControlsComplete`, `CertificatesTakeEffect`,
`AcceptedBecomesDurable`), which rest on fairness and `ENABLED`, and the three findings, which are
counterexamples.

## 6. Not modelled

- `telemetry` (the Windows counters and the library calls), `signals`, the restricted token
  and the Unix fallback of `procgroup`: queries of the operating system without logic of
  their own; the facts they report are inputs of `Observer`, `Apps` and `Adapter`.
- `config/validate.go` and `impact.go`: field-by-field checks.  Their bounds are the
  assumptions on the constants; that a change needs a reload is an input of `Controller`.
- `gguf`, `modelplan`: a file parser and an estimate, without state.
- `provision`, `secrets`: file permissions and encryption.  That unprotected secrets block a
  load is the constant `LoadBlocked`.
- `metrics`, `logfile`, `webui`, the commands, the tray: output, or clients of the API.
- Attribution episodes (`controller/attribution.go`): log texts about the confidence that
  `Observer` computes.
- Event texts, evidence and severities are left out throughout, except where `Owner` reads
  them.
