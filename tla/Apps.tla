-------------------------------- MODULE Apps --------------------------------
(***************************************************************************)
(* The application half of the signal layer: processes start, exit and     *)
(* reuse process identifiers, rules classify them                          *)
(* (src/internal/classify/classify.go), and a tick turns the process list  *)
(* and the session agent's report into the facts the policy reads          *)
(* (src/internal/observe/observe.go). GPU use is "none", "some" (enough    *)
(* for an ordinary application to be listed) or "much" (enough for an      *)
(* unclassified child of a launcher).                                      *)
(***************************************************************************)
EXTENDS Integers, Sequences, SequencesExt, FiniteSets

CONSTANTS Pids,        \* process identifiers, reused once free
          Programs,    \* executables: [exe, dir]
          RuleSets,    \* the application rules the configuration may hold
          StaleAfter,  \* signals.session_stale_after
          Fullscreen,  \* what the agent may report of the window in front
          MaxSpawns, MaxTicks

\* What the values of the constants have to satisfy.
BoundsAssumption ==
    /\ Pids \subseteq Nat \ {0} /\ IsFiniteSet(Pids) /\ {StaleAfter, MaxSpawns, MaxTicks} \subseteq Nat

VARIABLES clock,    \* advances with every start and every tick
          procs,    \* [pid -> process], the operating system's table
          born,     \* ghost: how many processes have started
          own,      \* the runtime's root pid, 0 when it is not running
          rules,    \* the configured application rules
          cls,      \* the classifier's rules, kept from tick to tick
          report,   \* the agent's last report: [pid, full, at]
          ticks, apps, session

vars == <<clock, procs, born, own, rules, cls, report, ticks, apps, session>>

Free == [alive |-> FALSE]
NoReport == [pid |-> 0, prog |-> 0, full |-> FALSE, at |-> 0]
NoApps == [ok |-> FALSE, games |-> <<>>, launchers |-> <<>>, ordinary |-> <<>>, children |-> <<>>, users |-> <<>>]
NoSession == [known |-> FALSE, pid |-> 0, class |-> "", full |-> FALSE]

\* An executable rule matches the base name, a prefix rule the directory of a
\* readable path; without a path only executable rules can match.
Hits(r, exe, dir) == IF r.kind = "exe" THEN r.v = exe ELSE dir # "" /\ r.v = dir

\* The class of the first rule that matches, "" when none does.
Match(rs, exe, dir) ==
    LET hit == {i \in 1 .. Len(rs) : Hits(rs[i], exe, dir)}
    IN IF hit = {} THEN "" ELSE rs[CHOOSE i \in hit : \A j \in hit : i <= j].class

Demand == [none |-> 0, some |-> 1, much |-> 2]

\* The heaviest GPU user first, then the smallest identifier.
byDemand(x, y) == Demand[x.gpu] > Demand[y.gpu] \/ (x.gpu = y.gpu /\ x.pid < y.pid)

Sorted(set) ==
    CHOOSE s \in [1 .. Cardinality(set) -> set] : \A i, j \in 1 .. Cardinality(set) : i < j => byDemand(s[i], s[j])

\* Mutant: a later process under the parent's identifier passes for the parent.
Parent_AnyAge(p, rs) ==
    /\ p.ppid \in Pids /\ procs[p.ppid].alive /\ p.ppid # own
    /\ Match(rs, procs[p.ppid].exe, procs[p.ppid].dir) = "launcher"

\* The process under p's parent identifier is a launcher, not the runtime,
\* and not known to be younger than p.
Parent(p, rs) ==
    /\ p.ppid \in Pids /\ p.ppid # p.pid /\ p.ppid # own /\ procs[p.ppid].alive
    /\ Match(rs, procs[p.ppid].exe, procs[p.ppid].dir) = "launcher"
    /\ ~(procs[p.ppid].created # 0 /\ p.created # 0 /\ procs[p.ppid].created > p.created)

\* The runtime's root counts as its own even when the job object lists nothing.
Mine(pid, members) == pid \in members \/ pid = own

\* The classifier is rebuilt whenever the configured rules differ.
Classifier == IF cls # rules THEN rules ELSE cls

\* The agent's report counts while it is fresh.
Fresh(t) == report.at # 0 /\ t - report.at < StaleAfter

SessionFacts(t, rs) ==
    IF ~Fresh(t) THEN NoSession
    ELSE [known |-> TRUE, pid |-> report.pid, full |-> report.full,
          class |-> Match(rs, report.prog.exe, report.prog.dir)]

\* The lists of one tick. Without a process list there are none; without
\* trustworthy per-process data (seen) nobody's GPU use is known.
AppFacts(t, rs, listed, seen, members) ==
    LET live == {p \in {procs[i] : i \in Pids} : p.alive}
        use(p) == IF seen THEN p.gpu ELSE "none"
        class(p) == Match(rs, p.exe, p.dir)
        build(p) == [pid |-> p.pid, class |-> class(p), gpu |-> use(p), id |-> p.id,
                     front |-> Fresh(t) /\ report.pid = p.pid]
        others == {p \in live : ~Mine(p.pid, members)}
        lines(some) == Sorted({build(p) : p \in some})
    IN IF ~listed THEN NoApps
       ELSE [ok |-> TRUE,
             games |-> lines({p \in others : class(p) = "game"}),
             launchers |-> lines({p \in others : class(p) = "launcher"}),
             ordinary |-> lines({p \in others : class(p) = "ordinary" /\ use(p) # "none"}),
             children |-> lines({p \in others : class(p) = "" /\ Parent(p, rs) /\ use(p) = "much"}),
             users |-> lines({p \in others : use(p) # "none"})]

Init ==
    /\ clock = 1 /\ procs = [p \in Pids |-> Free] /\ born = 0 /\ own = 0
    /\ rules \in RuleSets /\ cls = <<>> /\ report = NoReport
    /\ ticks = 0 /\ apps = NoApps /\ session = NoSession

\* Facts of an earlier tick are not read again.
Between == apps' = NoApps /\ session' = NoSession

\* A program starts, by itself or from another process; its creation time and
\* its path may be unreadable. The runtime is one of them.
Spawn ==
    /\ born < MaxSpawns
    /\ \E pid \in Pids, prog \in Programs, by \in Pids \cup {0}, known \in BOOLEAN, gpu \in {"none", "much"}, mine \in BOOLEAN :
         /\ ~procs[pid].alive /\ (by # 0 => procs[by].alive)
         /\ mine => own = 0 /\ by = 0
         /\ clock' = clock + 1 /\ born' = born + 1
         /\ own' = IF mine THEN pid ELSE own
         /\ procs' = [procs EXCEPT ![pid] = [alive |-> TRUE, pid |-> pid, exe |-> prog.exe, dir |-> prog.dir,
                        ppid |-> by, gpu |-> gpu, created |-> IF known THEN clock' ELSE 0,
                        id |-> born', parentId |-> IF by = 0 THEN 0 ELSE procs[by].id]]
    /\ Between /\ UNCHANGED <<rules, cls, report, ticks>>

\* A process exits; its children keep the identifier of their parent.
Exit ==
    /\ \E pid \in Pids :
         /\ procs[pid].alive
         /\ procs' = [procs EXCEPT ![pid] = Free]
         /\ own' = IF own = pid THEN 0 ELSE own
    /\ Between /\ UNCHANGED <<clock, born, rules, cls, report, ticks>>

SetRules ==
    /\ rules' \in RuleSets \ {rules}
    /\ Between /\ UNCHANGED <<clock, procs, born, own, cls, report, ticks>>

\* The session agent reports the window in front.
AgentReport ==
    /\ \E pid \in Pids, full \in Fullscreen :
         /\ procs[pid].alive
         /\ report' = [pid |-> pid, prog |-> [exe |-> procs[pid].exe, dir |-> procs[pid].dir], full |-> full, at |-> clock]
    /\ Between /\ UNCHANGED <<clock, procs, born, own, rules, cls, ticks>>

\* One tick; the process list and the job's membership query may fail.
Observe ==
    /\ ticks < MaxTicks
    /\ ticks' = ticks + 1 /\ clock' = clock + 1
    /\ cls' = Classifier
    /\ \E listed \in BOOLEAN, seen \in BOOLEAN, members \in {{}, {own} \ {0}} :
         apps' = AppFacts(clock', cls', listed, seen, members)
    /\ session' = SessionFacts(clock', cls')
    /\ UNCHANGED <<procs, born, own, rules, report>>

Next == Spawn \/ Exit \/ SetRules \/ AgentReport \/ Observe
Spec == Init /\ [][Next]_vars

-----------------------------------------------------------------------------
Listed == UNION {ToSet(apps.games), ToSet(apps.launchers), ToSet(apps.ordinary), ToSet(apps.children), ToSet(apps.users)}

(* An inferred launcher child was started by that launcher, not by an       *)
(* earlier process whose identifier the launcher got, whenever both         *)
(* creation times are known (apps, the guard against PID reuse).            *)
LauncherChildIsGenuine ==
    \A m \in ToSet(apps.children) :
        LET p == procs[m.pid]
        IN p.created # 0 /\ procs[p.ppid].created # 0 => p.parentId = procs[p.ppid].id

(* The worker never competes with itself: its runtime is in no list, even   *)
(* when the membership query comes back empty (Observe).                    *)
RuntimeIsNoCompetitor == own # 0 => \A m \in Listed : m.pid # own

(* Every class used is that of the rules configured now, never of rules a   *)
(* configuration change replaced (Observe, the classifier's cache).         *)
ClassesFollowConfig ==
    /\ \A m \in Listed : m.class = Match(rules, procs[m.pid].exe, procs[m.pid].dir)
    /\ session.known => session.class = Match(rules, report.prog.exe, report.prog.dir)
=============================================================================
