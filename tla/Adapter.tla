------------------------------ MODULE Adapter ------------------------------
(***************************************************************************)
(* The runtime's process tree: src/internal/runtime/llamacpp (Start,       *)
(* WaitReady, Stop, Reconcile), src/internal/procgroup (the job object     *)
(* that owns the tree) and the way src/internal/controller/step.go drives  *)
(* them. Processes of the machine come and go and reuse process ids; the   *)
(* worker dies at any step, which closes the job handle.                   *)
(***************************************************************************)
EXTENDS Naturals, FiniteSets

CONSTANTS PIDs,
          Images,         \* what others run: the runtime, a namesake of it, other programs
          Access,         \* what other processes let the worker read: path, handle (no path), denied
          Graceful,       \* stop mode graceful, with a console to share
          KillMayFail,    \* TerminateProcess, or reading the process list, may fail
          MaxSpawns, MaxFaults, MaxWorkers

\* What the values of the constants have to satisfy.
AdapterAssumption ==
    /\ PIDs \subseteq Nat \ {0} /\ Images \subseteq {"runtime", "namesake", "other"}
    /\ Access \subseteq {"path", "handle", "denied"}
    /\ {Graceful, KillMayFail} \subseteq BOOLEAN /\ {MaxSpawns, MaxFaults, MaxWorkers} \subseteq Nat

VARIABLES proc,      \* the process table
          port,      \* who listens on the private port, 0 for nobody
          pc,        \* where the controller's loop is
          goal,      \* what follows the reconciliation: idle or probe
          scan,      \* candidates of the snapshot not yet dealt with
          root,      \* the instance's root process, 0 for no instance
          done,      \* Group.done is closed
          ready,     \* WaitReady returned nil
          stop,      \* [caller of Instance.Stop -> where it is]
          spawns, faults, workers

vars == <<proc, port, pc, goal, scan, root, done, ready, stop, spawns, faults, workers>>
bounds == <<spawns, faults, workers>>

Callers == {"loop", "shutdown"}
NoProc == [st |-> "none", image |-> "other", access |-> "path", tree |-> "no", job |-> FALSE, seen |-> FALSE]

Exists(p) == proc[p].st # "none"
Alive(p) == proc[p].st \in {"suspended", "running"}
Free == {p \in PIDs : ~Exists(p)}
Members == {p \in PIDs : Exists(p) /\ proc[p].job}
Dying(set) == [p \in PIDs |-> IF p \in set /\ Exists(p) THEN [proc[p] EXCEPT !.st = "dying"] ELSE proc[p]]

Init ==
    /\ proc = [p \in PIDs |-> NoProc] /\ port = 0 /\ pc = "down" /\ goal = "idle" /\ scan = {}
    /\ root = 0 /\ done = FALSE /\ ready = FALSE /\ stop = [c \in Callers |-> "idle"]
    /\ spawns = 0 /\ faults = 0 /\ workers = 0

-----------------------------------------------------------------------------
(* The machine.                                                            *)

\* Anyone starts a program: the runtime by hand, a namesake, anything else.
Spawn ==
    /\ spawns < MaxSpawns /\ spawns' = spawns + 1
    /\ \E p \in Free, i \in Images, a \in Access :
         proc' = [proc EXCEPT ![p] = [NoProc EXCEPT !.st = "running", !.image = i, !.access = a]]
    /\ UNCHANGED <<port, pc, goal, scan, root, done, ready, stop, faults, workers>>

\* The runtime starts a child, which cannot leave the job.
Child ==
    /\ spawns < MaxSpawns /\ spawns' = spawns + 1
    /\ \E p \in Free, q \in PIDs :
         /\ proc[q].st = "running" /\ proc[q].tree # "no"
         /\ proc' = [proc EXCEPT ![p] = [NoProc EXCEPT !.st = "running", !.image = "runtime", !.tree = "child", !.job = proc[q].job]]
    /\ UNCHANGED <<port, pc, goal, scan, root, done, ready, stop, faults, workers>>

\* A process ends by itself; a terminated one leaves the process table, and
\* its id may be used again.
Exit ==
    /\ \E p \in PIDs : proc[p].st = "running" /\ proc' = Dying({p})
    /\ UNCHANGED <<port, pc, goal, scan, root, done, ready, stop, bounds>>

Leave(p) ==
    /\ proc[p].st = "dying" /\ proc' = [proc EXCEPT ![p] = NoProc]
    /\ port' = IF port = p THEN 0 ELSE port
    /\ UNCHANGED <<pc, goal, scan, root, done, ready, stop, bounds>>

\* A stranger takes the private port, or gives it up.
Listen ==
    /\ \E p \in PIDs : /\ proc[p].st = "running" /\ proc[p].tree = "no"
                       /\ port \in {0, p} /\ port' = p - port
    /\ UNCHANGED <<proc, pc, goal, scan, root, done, ready, stop, bounds>>

\* llama-server binds its port before it loads, and exits when it cannot.
Bind ==
    /\ root # 0 /\ ~done /\ proc[root].st = "running" /\ proc[root].tree = "root" /\ port # root
    /\ IF port = 0 THEN port' = root /\ UNCHANGED proc ELSE proc' = Dying({root}) /\ UNCHANGED port
    /\ UNCHANGED <<pc, goal, scan, root, done, ready, stop, bounds>>

-----------------------------------------------------------------------------
(* The controller's loop: reconcile, then start.                           *)

\* The service starts, and its Start reconciles before anything else.
Boot ==
    /\ pc = "down" /\ workers < MaxWorkers
    /\ workers' = workers + 1 /\ pc' = "snap" /\ goal' = "idle"
    /\ UNCHANGED <<proc, port, scan, root, done, ready, stop, spawns, faults>>

\* startLoad: only without an instance and without one whose termination is
\* not verified (applyZombie), and never while shutting down.
BeginLoad ==
    /\ pc = "idle" /\ stop["shutdown"] = "idle"
    /\ pc' = "snap" /\ goal' = "probe"
    /\ UNCHANGED <<proc, port, scan, root, done, ready, stop, bounds>>

\* A candidate: the configured executable by path, or by its name when the
\* path cannot be read and the process answers to processAlive. The adapter's
\* own trees are left out.
Candidate(p) ==
    /\ Exists(p) /\ ~(root # 0 /\ (p = root \/ proc[p].job))
    /\ \/ proc[p].access = "path" /\ proc[p].image = "runtime"
       \/ proc[p].access = "handle" /\ proc[p].image # "other" /\ Alive(p)

Snapshot ==
    /\ pc = "snap" /\ pc' = "scan"
    /\ scan' = {[pid |-> p, byName |-> proc[p].access # "path"] : p \in {q \in PIDs : Candidate(q)}}
    /\ proc' = [p \in PIDs |-> [proc[p] EXCEPT !.seen = Exists(p)]]
    /\ UNCHANGED <<port, goal, root, done, ready, stop, bounds>>

\* The process list cannot be read: logged, and the caller goes on.
SnapshotFails ==
    /\ KillMayFail /\ pc = "snap" /\ pc' = goal
    /\ proc' = [p \in PIDs |-> [proc[p] EXCEPT !.seen = Exists(p)]]
    /\ UNCHANGED <<port, goal, scan, root, done, ready, stop, bounds>>

\* verify, on the handle terminate opened: the image of whatever has the id
\* now, or the name match of the snapshot when there is no path to read.
Verified(o) ==
    IF proc[o.pid].access = "path" THEN proc[o.pid].image = "runtime" ELSE o.byName

\* terminate, and its wait for the process to end.
Terminate ==
    /\ pc = "scan"
    /\ \E o \in scan :
         /\ scan' = scan \ {o}
         /\ \/ Exists(o.pid) /\ Verified(o) /\ proc' = Dying({o.pid})
            \/ (Exists(o.pid) => KillMayFail \/ ~Verified(o)) /\ UNCHANGED proc
    /\ UNCHANGED <<port, pc, goal, root, done, ready, stop, bounds>>

\* Each orphan is reported, whatever became of it; the caller goes on.
Reconciled ==
    /\ pc = "scan" /\ scan = {} /\ pc' = goal
    /\ UNCHANGED <<proc, port, goal, scan, root, done, ready, stop, bounds>>

\* Start: Validate and the port probe; either refusal is a failed load.
Probe ==
    /\ pc = "probe"
    /\ pc' \in (IF port = 0 THEN {"create"} ELSE {}) \cup {"idle"}
    /\ UNCHANGED <<proc, port, goal, scan, root, done, ready, stop, bounds>>

\* procgroup.start: a job that dies with its handle, then the process,
\* suspended.
Create ==
    /\ pc = "create" /\ pc' = "assign"
    /\ \E p \in Free : root' = p /\ proc' = [proc EXCEPT ![p] = [NoProc EXCEPT !.st = "suspended", !.image = "runtime", !.tree = "root"]]
    /\ UNCHANGED <<port, goal, scan, done, ready, stop, bounds>>

Assign ==
    /\ pc = "assign" /\ pc' = "resume"
    /\ proc' = [proc EXCEPT ![root].job = TRUE]
    /\ UNCHANGED <<port, goal, scan, root, done, ready, stop, bounds>>

Resume ==
    /\ pc = "resume" /\ pc' = "inst"
    /\ proc' = [proc EXCEPT ![root].st = "running", ![root].job = TRUE]
    /\ done' = FALSE /\ ready' = FALSE
    /\ UNCHANGED <<port, goal, scan, root, stop, bounds>>

\* fail: OpenProcess, the assignment or the resume fails; the process is
\* killed and waited for, and the load failed.
StartFails ==
    /\ pc \in {"assign", "resume"} /\ faults < MaxFaults
    /\ faults' = faults + 1 /\ pc' = "idle" /\ root' = 0
    /\ proc' = [proc EXCEPT ![root] = NoProc]
    /\ UNCHANGED <<port, goal, scan, done, ready, stop, spawns, workers>>

\* WaitReady: the exit is looked at before whoever listens on the port is
\* asked; onLoadResult.
Ready ==
    /\ pc = "inst" /\ ~ready /\ ~done /\ port # 0 /\ proc[port].st = "running"
    /\ ready' = TRUE
    /\ UNCHANGED <<proc, port, pc, goal, scan, root, done, stop, bounds>>

\* cmd.Wait returns once the root has left the table and the pipes drained.
CloseDone ==
    /\ root # 0 /\ ~done /\ pc \in {"inst", "stopping", "zombie"}
    /\ proc[root].tree # "root"
    /\ done' = TRUE
    /\ UNCHANGED <<proc, port, pc, goal, scan, root, ready, stop, bounds>>

Gone == done

\* A load that failed, the load timeout, or onCrash: the instance becomes the
\* zombie, to be stopped before anything else.
Lost ==
    /\ pc = "inst" /\ (Gone \/ ~ready)
    /\ pc' = "zombie" /\ ready' = FALSE
    /\ UNCHANGED <<proc, port, goal, scan, root, done, stop, bounds>>

\* beginStop and retryZombie: one Stop at a time, in a goroutine.
BeginStop ==
    /\ pc \in {"inst", "zombie"} /\ stop["loop"] = "idle"
    /\ pc' = "stopping" /\ ready' = FALSE /\ stop' = [stop EXCEPT !["loop"] = "wait"]
    /\ UNCHANGED <<proc, port, goal, scan, root, done, bounds>>

\* Shutdown ran out of time: it stops the instance too, beside the loop's stop.
Shutdown ==
    /\ pc = "stopping" /\ stop["shutdown"] = "idle"
    /\ stop' = [stop EXCEPT !["shutdown"] = "wait"]
    /\ UNCHANGED <<proc, port, pc, goal, scan, root, done, ready, bounds>>

-----------------------------------------------------------------------------
(* Instance.Stop.                                                          *)

At(c, from, to) == stop[c] = from /\ stop' = [stop EXCEPT ![c] = to]
Unlocked == \A c \in Callers : stop[c] \in {"idle", "wait", "end"}

\* What the caller does with a result: onStopped and onZombieStopped; the
\* result of Shutdown's own stop is ignored.
Return(c, ok) ==
    /\ stop' = [stop EXCEPT ![c] = IF c = "loop" THEN "idle" ELSE "end"]
    /\ pc' = IF c = "shutdown" THEN pc ELSE IF ok THEN "idle" ELSE "zombie"

\* Mutant: an exited root leaves nothing to kill.
StopLocked_SkipsExited(c) ==
    /\ stop[c] = "wait" /\ Unlocked
    /\ \/ root # 0 /\ stop' = [stop EXCEPT ![c] = IF done THEN "root" ELSE IF Graceful THEN "interrupt" ELSE "kill"] /\ UNCHANGED pc
       \/ root = 0 /\ Return(c, TRUE)
    /\ UNCHANGED <<proc, port, goal, scan, root, done, ready, bounds>>

\* stopMu is taken. A successful stop is final; an exited root gets no Ctrl+C.
StopLocked(c) ==
    /\ stop[c] = "wait" /\ Unlocked
    /\ \/ root # 0 /\ stop' = [stop EXCEPT ![c] = IF Graceful /\ ~done THEN "interrupt" ELSE "kill"] /\ UNCHANGED pc
       \/ root = 0 /\ Return(c, TRUE)
    /\ UNCHANGED <<proc, port, goal, scan, root, done, ready, bounds>>

\* Ctrl+C: the root exits within the graceful timeout, or the tree is killed.
Interrupted(c) ==
    /\ At(c, "interrupt", IF done THEN "root" ELSE "kill")
    /\ UNCHANGED <<proc, port, pc, goal, scan, root, done, ready, bounds>>

\* TerminateJobObject.
Kill(c) ==
    /\ At(c, "kill", "root") /\ proc' = Dying(Members)
    /\ UNCHANGED <<port, pc, goal, scan, root, done, ready, bounds>>

\* The root's exit.
RootExit(c) ==
    /\ done /\ At(c, "root", "poll")
    /\ UNCHANGED <<proc, port, pc, goal, scan, root, done, ready, bounds>>

\* Mutant: the exit of the root is taken for the end of the tree.
Verify_Root(c) ==
    /\ stop[c] = "poll"
    /\ Return(c, TRUE) /\ root' = 0 /\ proc' = Dying(Members)
    /\ UNCHANGED <<port, goal, scan, done, ready, bounds>>

\* The job has no members: it is closed, and the instance is not owned any
\* more.
Verify(c) ==
    /\ stop[c] = "poll" /\ Members = {}
    /\ Return(c, TRUE) /\ root' = 0
    /\ UNCHANGED <<proc, port, goal, scan, done, ready, bounds>>

\* The kill or the query fails, or the timeout passes before the root is gone
\* and the job is empty. The instance stays owned.
StopFails(c) ==
    /\ stop[c] \in {"kill", "root", "poll"} /\ faults < MaxFaults /\ faults' = faults + 1
    /\ Return(c, FALSE)
    /\ UNCHANGED <<proc, port, goal, scan, root, done, ready, spawns, workers>>

\* After a graceful exit nothing was killed: what the root left behind keeps
\* the job from emptying, the timeout passes, and the retry kills.
Lingers(c) ==
    /\ stop[c] = "poll" /\ \E p \in Members : Alive(p)
    /\ Return(c, FALSE)
    /\ UNCHANGED <<proc, port, goal, scan, root, done, ready, bounds>>

\* The worker dies: the last handle of the job closes and the kernel
\* terminates its members. A process not yet in the job stays, suspended.
Crash ==
    /\ pc # "down" /\ pc' = "down"
    /\ proc' = [p \in PIDs |-> [Dying(Members)[p] EXCEPT !.job = FALSE]]
    /\ root' = 0 /\ done' = FALSE /\ ready' = FALSE /\ scan' = {} /\ stop' = [c \in Callers |-> "idle"]
    /\ UNCHANGED <<port, goal, bounds>>

Worker == Boot \/ Snapshot \/ Terminate \/ Reconciled \/ Probe \/ Create \/ Assign \/ Resume \/ CloseDone
Stopping == \E c \in Callers : StopLocked(c) \/ Interrupted(c) \/ Kill(c) \/ RootExit(c) \/ Verify(c) \/ Lingers(c)

Next ==
    \/ Spawn \/ Child \/ Exit \/ Listen \/ Bind \/ \E p \in PIDs : Leave(p)
    \/ Worker \/ SnapshotFails \/ StartFails \/ BeginLoad \/ Ready \/ Lost \/ BeginStop \/ Shutdown
    \/ Stopping \/ \E c \in Callers : StopFails(c)
    \/ Crash

\* The controller steps on every tick, the goroutine of a Stop runs, a
\* terminated process leaves, and llama-server gets to bind its port.
Fairness ==
    /\ WF_vars(Worker) /\ WF_vars(Stopping) /\ WF_vars(Bind) /\ \A p \in PIDs : WF_vars(Leave(p))
    /\ WF_vars(pc = "inst" /\ done /\ Lost) /\ WF_vars(pc = "zombie" /\ BeginStop)

Spec == Init /\ [][Next]_vars /\ Fairness

-----------------------------------------------------------------------------
(* Properties.                                                             *)

\* No process the worker or its runtime created runs an instruction outside
\* the job, whatever fails or dies (procgroup.start: suspended, assigned, then
\* resumed; no breakaway).
NothingEscapes == \A p \in PIDs : proc[p].tree # "no" /\ proc[p].st = "running" => proc[p].job

\* No instance the adapter owns is forgotten: the controller holds it, as its
\* instance or as the one whose end is not verified, until a stop succeeded
\* (onStopped, onZombieStopped, applyZombie).
NoneForgotten == root # 0 => pc \in {"assign", "resume", "inst", "stopping", "zombie"}

\* When the adapter lets go of an instance while the worker lives, nothing of
\* its tree is left: neither a descendant that outlived the root nor one that
\* appeared during the stop (Instance.Stop, and the retries after a failed one).
ReleasedIsEmpty ==
    root # 0 /\ root' = 0 /\ pc' # "down" => \A p \in PIDs : ~proc'[p].job

\* Reconcile terminates only what its contract names - the configured
\* executable, or its namesake with an unreadable path - and never a member of
\* a tree this worker owns, although the ids of its snapshot may have been
\* reused since (reconcile.go, terminate).
KillsOnlyOrphans ==
    \A p \in PIDs : pc = "scan" /\ scan' # scan /\ pc' = pc /\ Alive(p) /\ proc'[p].st = "dying" =>
       /\ ~proc[p].job
       /\ \/ proc[p].image = "runtime"
          \/ proc[p].image = "namesake" /\ proc[p].access # "path"

\* "Never start a second runtime": while an instance is held, no runtime that
\* existed when its start looked for leftovers is alive outside its tree - not
\* one started by hand, nor the suspended process of a worker that died
\* between creating it and putting it into its job (startLoad, Controller.Start).
OneRuntime ==
    pc \in {"inst", "stopping", "zombie"} =>
        \A p \in PIDs : Alive(p) /\ proc[p].image = "runtime" /\ ~proc[p].job => ~proc[p].seen

\* A stop that has begun ends with the tree gone, through failed attempts, an
\* ignored Ctrl+C and lingering descendants, unless the worker dies (retryZombie).
StopsEventually == pc = "stopping" ~> pc \in {"idle", "down"}

\* A stranger that answers the health probe on the private port does not stand
\* in for the runtime for long: the runtime cannot bind, exits, and the exit is
\* noticed although the load had been taken for ready (WaitReady, onCrash).
StrangerIsNoticed == ready /\ port # root ~> ~ready \/ port = root
=============================================================================
