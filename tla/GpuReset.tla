------------------------------ MODULE GpuReset ------------------------------
(***************************************************************************)
(* Driver resets seen through the dumps Windows writes                     *)
(* (src/internal/gpureset/gpureset.go) and the watermark the controller    *)
(* stores so that a restart neither misses nor repeats one                 *)
(* (src/internal/controller/step.go, checkGPUResets). Dumps appear or are  *)
(* rewritten at any time, also between the two directories of one scan;    *)
(* the service crashes at any time.                                        *)
(***************************************************************************)
EXTENDS Naturals, FiniteSets

CONSTANTS Files, Late,   \* dump files; those in the directory scanned last
          SaveEvery,     \* a quiet watermark is stored this often
          MergeWindow,   \* resets this close to the last are one incident
          MaxNow, MaxWrites, MaxCrashes

\* What the values of the constants have to satisfy.
BoundsAssumption ==
    /\ Late \subseteq Files /\ {SaveEvery, MergeWindow, MaxNow, MaxWrites, MaxCrashes} \subseteq Nat

VARIABLES clock,
          dumps,      \* [file -> modification time, 0 when it does not exist]
          pc,         \* down, idle, scan (first directory read), check, save
          seen,       \* the watcher's times
          now, fresh, \* the step's time and what its Poll found
          check,      \* lastGPUCheck
          stored,     \* LastGPUCheck as persisted
          firstSave,  \* ghost: the first watermark that was stored
          reported, settled, repeated,  \* ghosts: dumps reported, and saved as such; one reported again
          writes, crashes

vars == <<clock, dumps, pc, seen, now, fresh, check, stored, firstSave, reported, settled, repeated, writes, crashes>>

\* A scan of two directories takes less than the merge window (two minutes).
TimeMayPass == clock < MaxNow /\ (pc = "scan" => clock + 1 - now < MergeWindow)

\* The operating system writes or rewrites a dump.
Write ==
    /\ writes < MaxWrites /\ TimeMayPass
    /\ clock' = clock + 1 /\ writes' = writes + 1
    /\ \E f \in Files : dumps' = [dumps EXCEPT ![f] = clock']
    /\ UNCHANGED <<pc, seen, now, fresh, check, stored, firstSave, reported, settled, repeated, crashes>>

Pass ==
    /\ TimeMayPass /\ clock' = clock + 1
    /\ UNCHANGED <<dumps, pc, seen, now, fresh, check, stored, firstSave, reported, settled, repeated, writes, crashes>>

Init ==
    /\ clock = 1 /\ dumps \in [Files -> {0, 1}] /\ pc = "down"
    /\ seen = [f \in Files |-> 0] /\ now = 0 /\ fresh = {} /\ check = 0 /\ stored = 0
    /\ firstSave = 0 /\ reported = {} /\ settled = {} /\ repeated = FALSE /\ writes = 0 /\ crashes = 0

\* New takes the dumps present as the baseline; SetSince forgets those written
\* after the last check before the service stopped.
Start ==
    /\ pc = "down" /\ pc' = "idle"
    /\ seen' = [f \in Files |-> IF stored # 0 /\ dumps[f] > stored THEN 0 ELSE dumps[f]]
    /\ check' = stored
    /\ UNCHANGED <<clock, dumps, now, fresh, stored, firstSave, reported, settled, repeated, writes, crashes>>

\* A dump is new, or was rewritten.
IsFresh(f) == dumps[f] # 0 /\ dumps[f] > seen[f]

Read(fs) ==
    /\ seen' = [f \in Files |-> IF f \in fs /\ IsFresh(f) THEN dumps[f] ELSE seen[f]]
    /\ fresh' = {[file |-> f, at |-> dumps[f]] : f \in {g \in fs : IsFresh(g)}}

\* A step begins and Poll reads the first directory.
ScanFirst ==
    /\ pc = "idle" /\ pc' = "scan" /\ now' = clock
    /\ Read(Files \ Late)
    /\ UNCHANGED <<clock, dumps, check, stored, firstSave, reported, settled, repeated, writes, crashes>>

ScanLast ==
    /\ pc = "scan" /\ pc' = "check"
    /\ seen' = [f \in Files |-> IF f \in Late /\ IsFresh(f) THEN dumps[f] ELSE seen[f]]
    /\ fresh' = fresh \cup {[file |-> f, at |-> dumps[f]] : f \in {g \in Late : IsFresh(g)}}
    /\ UNCHANGED <<clock, dumps, now, check, stored, firstSave, reported, settled, repeated, writes, crashes>>

\* Mutant: the watermark is the time of the step, whatever was handled.
Watermark_Now == IF fresh # {} \/ now >= check + SaveEvery THEN now ELSE check

\* The watermark moves past every dump just handled, and otherwise now and then.
Watermark ==
    LET times == {now} \cup {r.at : r \in fresh}
    IN IF fresh # {} THEN CHOOSE t \in times : \A u \in times : u <= t
       ELSE IF check = 0 \/ now - check >= SaveEvery THEN now ELSE check

checkGPUResets ==
    /\ pc = "check" /\ pc' = "save"
    /\ check' = Watermark
    /\ reported' = reported \cup fresh
    /\ repeated' = (repeated \/ fresh \cap settled # {})
    /\ UNCHANGED <<clock, dumps, seen, now, fresh, stored, firstSave, settled, writes, crashes>>

\* The end of the step persists what changed.
Persist ==
    /\ pc = "save" /\ pc' = "idle"
    /\ stored' = check /\ settled' = reported /\ fresh' = {}
    /\ firstSave' = (IF stored = 0 THEN check ELSE firstSave)
    /\ UNCHANGED <<clock, dumps, seen, now, check, reported, repeated, writes, crashes>>

Crash ==
    /\ pc # "down" /\ crashes < MaxCrashes
    /\ pc' = "down" /\ crashes' = crashes + 1 /\ fresh' = {} /\ now' = 0
    /\ seen' = [f \in Files |-> 0] /\ check' = 0
    /\ UNCHANGED <<clock, dumps, stored, firstSave, reported, settled, repeated, writes>>

Next == Write \/ Pass \/ Start \/ ScanFirst \/ ScanLast \/ checkGPUResets \/ Persist \/ Crash
Spec == Init /\ [][Next]_vars

-----------------------------------------------------------------------------
(* No incident is missed: once a step has handled its Poll, every dump      *)
(* written since the service first stored a watermark and before the step   *)
(* began has been reported, by this run or an earlier one, or is close      *)
(* enough to a reported one to belong to the same incident (SetSince,       *)
(* checkGPUResets). It spans crashes before and after the watermark is      *)
(* stored.                                                                  *)
NoIncidentMissed ==
    pc = "save" /\ stored # 0 =>
        \A f \in Files :
            dumps[f] # 0 /\ dumps[f] > firstSave /\ dumps[f] <= now =>
                \/ [file |-> f, at |-> dumps[f]] \in reported
                \/ \E r \in reported : r.at > dumps[f] /\ r.at - dumps[f] < MergeWindow

(* A restart never reports again what a step handled and stored             *)
(* (checkGPUResets, the comment on the watermark).                          *)
NoIncidentRepeated == ~repeated
=============================================================================
