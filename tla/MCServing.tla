----------------------------- MODULE MCServing -----------------------------
(***************************************************************************)
(* The parts a request and the runtime that answers it meet: the proxy,    *)
(* the process adapter, the memory the runtime leaves behind, and the      *)
(* usage tap. They share no variables, so each is checked while the others *)
(* are at rest: an instance picks the part that moves in its initial       *)
(* states.                                                                 *)
(***************************************************************************)
EXTENDS Naturals, FiniteSets, Sequences

CONSTANTS Parts,   \* the parts that move in this instance
          Requests, ProxyCallers, TokenSet, RuntimeFails, ClientsLeave,
          ClientsStall, PIDs, Images, Access, Graceful, KillMayFail,
          MaxSpawns, MaxFaults, MaxWorkers, Models, Others, Capacity,
          Tolerance, ReleaseTimeout, LearnFor, OthersShrink,
          HeadBytes, TailBytes, MaxChunk, MaxBody

VARIABLES part,
          open, active, notify, ctl, toCut, phase, cause, status, whole,
          panicked, end, accounts, outcome,
          proc, port, pc, goal, scan, root, done, ready, stop, spawns,
          faults, workers,
          st, model, loadedSize, own, lag, other, gpu, footprint, baseline,
          vram, loadedFor, reload, said, learned, hidden, owed,
          read, head, tail

Px == INSTANCE Proxy WITH Callers <- ProxyCallers
Ad == INSTANCE Adapter
Vr == INSTANCE Vram WITH Timeout <- ReleaseTimeout
Us == INSTANCE Usage

\* Every kind of caller, for the gate's refusals; and one that is let in or
\* not by its token, where only progress matters.
AllCallers == [v1 : BOOLEAN, loopback : BOOLEAN, localHost : BOOLEAN, bearer : BOOLEAN]
TokenCallers == [v1 : {TRUE}, loopback : {FALSE}, localHost : {TRUE}, bearer : BOOLEAN]

\* Module Vram where other programs free memory too.
Vs == INSTANCE Vram WITH Models <- {4}, Others <- {0, 2}, Capacity <- 6, Timeout <- 1,
        OthersShrink <- TRUE

\* Module Adapter where kills and process lists fail and processes deny access.
Af == INSTANCE Adapter WITH Access <- {"path", "denied"}, Graceful <- FALSE,
        KillMayFail <- TRUE, MaxSpawns <- 1, MaxFaults <- 0

ASSUME ConstantsAssumption ==
    /\ Parts \subseteq {"proxy", "adapter", "vram", "usage", "shared", "failing"}
    /\ Px!ProxyAssumption
    /\ Ad!AdapterAssumption
    /\ Vr!VramAssumption
    /\ Us!UsageAssumption

-----------------------------------------------------------------------------
proxyVars == <<open, active, notify, ctl, toCut, phase, cause, status, whole, panicked,
    end, accounts, outcome>>
adapterVars == <<proc, port, pc, goal, scan, root, done, ready, stop, spawns, faults,
    workers>>
vramVars == <<st, model, loadedSize, own, lag, other, gpu, footprint, baseline, vram,
    loadedFor, reload, said, learned, hidden, owed>>
usageVars == <<read, head, tail>>
vars == <<part, proxyVars, adapterVars, vramVars, usageVars>>

\* Every part starts as its module says; what it starts from is only chosen
\* for the part that moves.
Init ==
    /\ part \in Parts
    /\ Px!Init /\ Us!Init
    /\ IF part = "failing" THEN Af!Init ELSE Ad!Init
    /\ IF part = "shared" THEN Vs!Init ELSE Vr!Init
    /\ part \notin {"vram", "shared"} => \A m \in Models : model <= m
    /\ part \notin {"vram", "shared"} => \A o \in Others : other <= o

\* A step of one part, with the others at rest.
PxMoves(A) == part = "proxy" /\ A /\ UNCHANGED <<part, adapterVars, vramVars, usageVars>>
AdMoves(A) == part = "adapter" /\ A /\ UNCHANGED <<part, proxyVars, vramVars, usageVars>>
VrMoves(A) == part = "vram" /\ A /\ UNCHANGED <<part, proxyVars, adapterVars, usageVars>>
UsMoves(A) == part = "usage" /\ A /\ UNCHANGED <<part, proxyVars, adapterVars, vramVars>>
VsMoves(A) == part = "shared" /\ A /\ UNCHANGED <<part, proxyVars, adapterVars, usageVars>>
AfMoves(A) == part = "failing" /\ A /\ UNCHANGED <<part, proxyVars, vramVars, usageVars>>

Next ==
    \/ PxMoves(Px!Next)
    \/ AdMoves(Ad!Next)
    \/ VrMoves(Vr!Next)
    \/ UsMoves(Us!Next)
    \/ VsMoves(Vs!Next)
    \/ AfMoves(Af!Next)

\* The fairness each module states for its part; every action named changes the
\* variable it is subscripted with.
Fairness ==
    /\ WF_notify(part = "proxy" /\ Px!Woken) /\ WF_ctl(part = "proxy" /\ Px!BeginStop)
    /\ \A r \in Requests :
         /\ WF_cause(part = "proxy" /\ Px!Timeout(r)) /\ WF_toCut(part = "proxy" /\ Px!CancelOne(r))
         /\ WF_accounts(part = "proxy" /\ Px!Account(r)) /\ WF_phase(part = "proxy" /\ Px!Release(r))
         /\ WF_phase(part = "proxy" /\ Px!Interrupted(r) /\ (Px!ErrorHandler(r) \/ Px!BodyBreaks(r)))
    /\ WF_adapterVars(part = "adapter" /\ Ad!Worker) /\ WF_adapterVars(part = "adapter" /\ Ad!Stopping)
    /\ WF_adapterVars(part = "adapter" /\ Ad!Bind)
    /\ \A p \in PIDs : WF_adapterVars(part = "adapter" /\ Ad!Leave(p))
    /\ WF_adapterVars(part = "adapter" /\ pc = "inst" /\ done /\ Ad!Lost)
    /\ WF_adapterVars(part = "adapter" /\ pc = "zombie" /\ Ad!BeginStop)
    /\ WF_vramVars(part = "vram" /\ Vr!Step)

Spec == Init /\ [][Next]_vars

LiveSpec == Spec /\ Fairness

-----------------------------------------------------------------------------
(* Properties: what each part promises is stated in its module.            *)

(* The proxy accounts for every request it admitted before it gives up its *)
(* ticket, shows the client that a response was cut, leaves nobody behind  *)
(* when it cuts all requests, and reports an outcome that was earned; the  *)
(* usage tap reads the first and last bytes of the response exactly and    *)
(* holds no more of it than its windows.                                   *)
RequestsAreAccounted ==
    /\ part = "proxy" =>
          /\ Px!AccountedBeforeReleased /\ Px!CutIsVisible
          /\ Px!NobodyLeftBehind /\ Px!OutcomeIsEarned
    /\ part = "usage" => Us!WindowsAreExact /\ Us!MemoryIsBounded

(* The worker's processes are its own: none runs outside the job, none it  *)
(* holds is forgotten, a tree let go of is empty, and the scan for         *)
(* leftovers kills orphans of the runtime and nothing else, although pids  *)
(* are reused, kills fail and the worker dies at any step. Where neither   *)
(* kills nor process lists fail, no leftover runtime lives beside it       *)
(* (procgroup.start, Stop, Reconcile).                                     *)
TreesAreOwned ==
    [][/\ part \in {"adapter", "failing"} =>
             /\ (Ad!NothingEscapes /\ Ad!NoneForgotten)'
             /\ Ad!ReleasedIsEmpty /\ Ad!KillsOnlyOrphans
       /\ part = "adapter" => Ad!OneRuntime']_vars

(* Memory is said to be released only when it is, what the driver still    *)
(* holds of ours is not taken for a competitor's, and what was learned of  *)
(* the model is the current one's; where other programs free memory too, a *)
(* competitor is hidden behind ours for a bounded time (checkVRAMRelease,  *)
(* observe, updateConfig).                                                 *)
MemoryIsGivenBack ==
    /\ part = "vram" => Vr!ReleaseIsReal /\ Vr!OwnIsNoCompetitor /\ Vr!FootprintIsCurrent
    /\ part = "shared" => Vs!HiddenIsBounded

(* Every admitted request ends, by the runtime, its timeout or a cut, but  *)
(* for one whose caller does not read, and the controller that waits for   *)
(* the last one notices (release, Woken).                                  *)
RequestsEnd == Px!EveryRequestEnds /\ Px!DrainEndIsNoticed

(* A stop ends with the tree gone, a runtime that lost its port to a       *)
(* stranger is noticed, and the check of released memory ends.             *)
StopsEnd == Ad!StopsEventually /\ Ad!StrangerIsNoticed /\ Vr!CheckEnds
=============================================================================
