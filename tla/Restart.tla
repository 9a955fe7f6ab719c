------------------------------ MODULE Restart ------------------------------
(***************************************************************************)
(* What the controller's durable state is worth: the mode and the timers   *)
(* are saved as documents of their own after every change, the process or  *)
(* the machine dies at any point, and Start restores them.                 *)
(*                                                                         *)
(* Source: internal/controller/controller.go (Persisted, Start, persist,   *)
(* faultRecovery), internal/service/service.go (persister),                *)
(* internal/store/documents.go.                                            *)
(***************************************************************************)
EXTENDS Integers

CONSTANTS
    StartupCooldown,   \* recovery.startup_cooldown
    FaultCooldown,     \* how long a fault keeps the runtime from loading
    MaxNow,            \* bound on the clock
    MaxFaults,         \* bound on faults in one behaviour
    MaxSets,           \* bound on mode changes; their number stands for ModeSetAt
    MaxFailures        \* bound on failing document writes and reads

\* What the values of the constants have to satisfy.
RestartConstants ==
    /\ {StartupCooldown, FaultCooldown} \subseteq Nat
    /\ MaxNow \in Nat \ {0} /\ MaxFaults \in Nat /\ MaxSets \in Nat /\ MaxFailures \in Nat

VARIABLES
    now, boot,   \* the clock, and which boot of the machine this is
    up,          \* the service runs
    mode,        \* the manual mode and how it ends
    timers,      \* crash count, last fault, and the recovery wait
    disk,        \* the documents in the database
    persisted,   \* what the controller believes it has saved
    pc,          \* where persist is; it holds the controller's lock
    faults, sets, failures,
    durable      \* ghost: the timers of the last completed save

vars == <<now, boot, up, mode, timers, disk, persisted, pc, faults, sets, failures, durable>>

Auto == [mode |-> "auto", until |-> 0, reboot |-> FALSE, boot |-> 0, set |-> 0]
Modes == {Auto, [Auto EXCEPT !.mode = "pause"],
          [Auto EXCEPT !.mode = "pause", !.reboot = TRUE]}
         \cup {[Auto EXCEPT !.mode = "pause", !.until = u] : u \in 1..MaxNow}

NoTimers == [crashes |-> 0, competing |-> 0, until |-> 0, reason |-> "none"]

Init ==
    /\ now = 1 /\ boot = 1 /\ up = FALSE
    /\ mode = Auto /\ timers = NoTimers
    /\ disk = [mode |-> Auto, timers |-> NoTimers]
    /\ persisted = [mode |-> Auto, timers |-> NoTimers]
    /\ pc = "idle" /\ faults = 0 /\ sets = 0 /\ failures = 0
    /\ durable = NoTimers

\* The wait for the longest reason so far.
setRecovery(t, d, reason) ==
    IF now + d > t.until THEN [t EXCEPT !.until = now + d, !.reason = reason] ELSE t

faultRecovery(reason) == reason = "fault"

Snapshot == [mode |-> mode, timers |-> timers]

-----------------------------------------------------------------------------
(* The controller, one locked section at a time; each ends with persist.   *)

Free == up /\ pc = "idle"

SetMode(m) ==
    /\ Free /\ sets < MaxSets
    /\ (m.until = 0 \/ m.until > now)
    /\ sets' = sets + 1
    /\ mode' = [m EXCEPT !.set = sets', !.boot = IF m.reboot THEN boot ELSE 0]
    /\ pc' = "mode"
    /\ UNCHANGED <<now, boot, up, timers, disk, persisted, faults, failures, durable>>

\* A crash of the runtime, a driver reset, a failed kill: counted, recorded
\* and answered with a recovery wait.
Fault ==
    /\ Free /\ faults < MaxFaults
    /\ faults' = faults + 1
    /\ timers' = setRecovery([timers EXCEPT !.crashes = @ + 1, !.competing = now], FaultCooldown, "fault")
    /\ pc' = "mode"
    /\ UNCHANGED <<now, boot, up, mode, disk, persisted, sets, failures, durable>>

\* The runtime was healthy for long enough: the crash count starts again.
Healthy ==
    /\ Free /\ timers.crashes > 0 /\ now > timers.competing
    /\ timers' = [timers EXCEPT !.crashes = 0]
    /\ pc' = "mode"
    /\ UNCHANGED <<now, boot, up, mode, disk, persisted, faults, sets, failures, durable>>

\* Time passes; a step ends a temporary mode that is over.
Tick ==
    /\ pc = "idle" /\ now < MaxNow
    /\ now' = now + 1
    /\ mode' = IF up /\ mode.until # 0 /\ mode.until <= now' THEN [Auto EXCEPT !.set = mode.set] ELSE mode
    /\ pc' = IF up THEN "mode" ELSE "idle"
    /\ UNCHANGED <<boot, up, timers, disk, persisted, faults, sets, failures, durable>>

\* A step that changes nothing still ends with persist.
Step ==
    /\ Free
    /\ pc' = "mode"
    /\ UNCHANGED <<now, boot, up, mode, timers, disk, persisted, faults, sets, failures, durable>>

-----------------------------------------------------------------------------
(* persist and the persister behind it.                                    *)

\* Mutant: a failed save counts as one.
PersistMode_Forgets(ok) ==
    /\ up /\ pc = "mode"
    /\ ok \/ failures < MaxFailures
    /\ failures' = IF ok THEN failures ELSE failures + 1
    /\ IF Snapshot = persisted
       THEN pc' = "idle" /\ UNCHANGED <<disk, persisted>>
       ELSE /\ disk' = IF ok THEN [disk EXCEPT !.mode = [mode EXCEPT !.boot = 0]] ELSE disk
            /\ persisted' = IF ok THEN persisted ELSE Snapshot
            /\ pc' = IF ok THEN "timers" ELSE "idle"
    /\ UNCHANGED <<now, boot, up, mode, timers, faults, sets, durable>>

\* Nothing to do when nothing changed since the last save; otherwise the
\* mode's document first. The persister stores no boot time with it.
PersistMode(ok) ==
    /\ up /\ pc = "mode"
    /\ IF Snapshot = persisted
       THEN pc' = "idle" /\ UNCHANGED <<disk, failures>>
       ELSE /\ ok \/ failures < MaxFailures
            /\ disk' = IF ok THEN [disk EXCEPT !.mode = [mode EXCEPT !.boot = 0]] ELSE disk
            /\ failures' = IF ok THEN failures ELSE failures + 1
            /\ pc' = IF ok THEN "timers" ELSE "idle"
    /\ UNCHANGED <<now, boot, up, mode, timers, persisted, faults, sets, durable>>

\* Mutant: the crash count is left out of the document.
PersistTimers_NoCrashes(ok, memo) ==
    /\ up /\ pc = "timers"
    /\ memo /\ ok
    /\ disk' = [disk EXCEPT !.timers = [NoTimers EXCEPT !.competing = timers.competing]]
    /\ persisted' = Snapshot
    /\ durable' = timers
    /\ pc' = "idle"
    /\ UNCHANGED <<now, boot, up, mode, timers, faults, sets, failures>>

\* Then the timers'. The persister keeps the counts and records, and not the
\* recovery wait; the runtime's memo, the third document, carries nothing
\* modelled here. Only a complete save is remembered as one, so an
\* incomplete one is repeated by the next step.
PersistTimers(ok, memo) ==
    /\ up /\ pc = "timers"
    /\ memo => ok
    /\ memo \/ failures < MaxFailures
    /\ failures' = IF memo THEN failures ELSE failures + 1
    /\ disk' = IF ok THEN [disk EXCEPT !.timers = [timers EXCEPT !.until = 0, !.reason = "none"]] ELSE disk
    /\ persisted' = IF memo THEN Snapshot ELSE persisted
    /\ durable' = IF ok THEN timers ELSE durable
    /\ pc' = "idle"
    /\ UNCHANGED <<now, boot, up, mode, timers, faults, sets>>

Persist == \E ok, memo \in BOOLEAN : PersistMode(ok) \/ PersistTimers(ok, memo)

-----------------------------------------------------------------------------
(* Death and Start.                                                        *)

Crash(reboots) ==
    /\ up /\ now < MaxNow
    /\ up' = FALSE /\ pc' = "idle"
    /\ boot' = IF reboots /\ boot < 2 THEN boot + 1 ELSE boot
    /\ UNCHANGED <<now, mode, timers, disk, persisted, faults, sets, failures, durable>>

\* A mode is restored while it lasts: an "until reboot" mode needs the boot
\* it was saved in, a temporary one must not be over.
Restored(p) ==
    /\ p.reboot => p.boot # 0 /\ p.boot = boot
    /\ p.until = 0 \/ p.until > now

\* Documents that cannot be read are logged, and the service starts from
\* nothing.
Start(loads) ==
    /\ ~up
    /\ loads \/ failures < MaxFailures
    /\ up' = TRUE
    /\ mode' = IF loads /\ Restored(disk.mode) THEN disk.mode ELSE Auto
    /\ LET p == IF loads THEN disk.timers ELSE NoTimers
           kept == IF faultRecovery(p.reason) /\ p.until > now THEN p
                   ELSE [p EXCEPT !.until = 0, !.reason = "none"]
       IN timers' = setRecovery(kept, StartupCooldown, "startup")
    /\ persisted' = [mode |-> Auto, timers |-> NoTimers]
    /\ pc' = "mode"
    /\ failures' = IF loads THEN failures ELSE failures + 1
    /\ UNCHANGED <<now, boot, disk, faults, sets, durable>>

Next ==
    \/ \E m \in Modes : SetMode(m)
    \/ Fault \/ Healthy \/ Tick \/ Step
    \/ Persist
    \/ \E loads \in BOOLEAN : Start(loads)
    \/ \E reboots \in BOOLEAN : Crash(reboots)

Spec == Init /\ [][Next]_vars /\ WF_vars(Persist) /\ WF_vars(Step)

-----------------------------------------------------------------------------
TypeOK ==
    /\ now \in 1..MaxNow /\ boot \in 1..2 /\ up \in BOOLEAN
    /\ {mode, disk.mode} \subseteq [mode : {"auto", "pause"}, until : 0..MaxNow, reboot : BOOLEAN, boot : 0..2, set : 0..MaxSets]
    /\ {timers, disk.timers, durable} \subseteq
          [crashes : 0..MaxFaults, competing : 0..MaxNow, until : Nat, reason : {"none", "fault", "startup"}]
    /\ pc \in {"idle", "mode", "timers"} /\ faults \in 0..MaxFaults /\ sets \in 0..MaxSets /\ failures \in 0..MaxFailures

\* "A restart cannot be used to skip a cooldown or suppression": Start goes on
\* with the crash count and the competing use of the last timers written
\* (store.Timers), whatever failed or was interrupted since, unless the
\* documents cannot be read.
RecordsSurvive ==
    ~up /\ up' /\ failures' = failures =>
      timers'.crashes = durable.crashes /\ timers'.competing = durable.competing

\* A temporary mode still ends on time across restarts, and a mode that ends
\* with the boot does: neither runs once it is over and a step was made.
ModeEndsOnTime ==
    Free => /\ (mode.until = 0 \/ mode.until > now)
            /\ mode.reboot => mode.boot = boot

Durable ==
    /\ disk.mode = [mode EXCEPT !.boot = 0]
    /\ disk.timers.crashes = timers.crashes /\ disk.timers.competing = timers.competing

\* Every change becomes durable: the controller repeats a save that failed or
\* was interrupted at its next steps, unless it dies first.
ChangesBecomeDurable ==
    [](up /\ ~Durable => <>(Durable \/ ~up))

\* "Recovery waits for faults ... survive a restart or the blue screen they
\* guard against": after Start the wait of the last saved fault still holds.
FaultWaitSurvives ==
    (up /\ durable.reason = "fault" /\ durable.until > now) => timers.until >= durable.until

=============================================================================
