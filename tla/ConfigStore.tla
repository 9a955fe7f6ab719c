---------------------------- MODULE ConfigStore ----------------------------
(***************************************************************************)
(* The configuration file, its last-good copy and its journaled history,   *)
(* together with the updates and restores that write them. Every file      *)
(* write may fail, the service may die between two of them, and an         *)
(* operator may edit the file at any time.                                 *)
(*                                                                         *)
(* Source: internal/config/store.go, history.go; internal/controller/      *)
(* backend.go (validateConfig, updateConfig, PreviewConfigRestore,         *)
(* RestoreConfig); internal/service/service.go (auditingStore).            *)
(***************************************************************************)
EXTENDS Integers, Sequences

CONSTANTS
    Client,        \* callers of the management API
    Config,        \* valid configuration documents
    Default,       \* the factory configuration
    Normal,        \* [Config -> Config]: what loading makes of a document
    PathOf,        \* [Config -> model path]
    Missing,       \* model paths at which there definitely is no file
    Proposals,     \* configurations callers propose
    HistoryLimit,  \* versions kept (20)
    MaxSaves,      \* bound: versions written in one behaviour
    MaxEdits,      \* bound: changes made behind the service's back
    MaxCrashes     \* bound

\* What the values of the constants have to satisfy.
ConfigStoreConstants ==
    /\ Default \in Config /\ Proposals \subseteq Config
    /\ Config \cap {"broken", "absent"} = {}  \* what else the primary can be
    /\ Normal \in [Config -> Config]
    /\ \A c \in Config : Normal[Normal[c]] = Normal[c]
    /\ \A c \in Proposals \cup {Default} : Normal[c] = c
    /\ HistoryLimit \in Nat \ {0} /\ {MaxSaves, MaxEdits, MaxCrashes} \subseteq Nat

VARIABLES
    up,        \* the service runs
    cfg,       \* its running configuration
    rev,       \* the revision a restore is checked against
    primary,   \* config.json: a Config, "broken" or "absent"
    lastGood,  \* config.last-good.json: a Config or "absent"
    hist,      \* config.json.history
    save,      \* the save in progress, which holds the controller's lock
    client,    \* what each caller is doing
    saves, edits, crashes,
    inEffect   \* ghost: contents that ran or were installed

vars == <<up, cfg, rev, primary, lastGood, hist, save, client, saves, edits,
          crashes, inEffect>>

NoVersion == [id |-> 0, cfg |-> Default]
NoSave == [pc |-> "none", by |-> "nobody", next |-> NoVersion]
IdleClient == [pc |-> "idle", cfg |-> Default, ok |-> TRUE, restore |-> 0, rev |-> 0, seen |-> Default]

Init ==
    /\ primary \in Config \cup {"absent"}
    /\ lastGood = IF primary \in Config THEN primary ELSE "absent"
    /\ up = FALSE /\ cfg = Default /\ rev = 0
    /\ hist = [corrupt |-> FALSE, versions |-> <<>>, pending |-> NoVersion]
    /\ save = NoSave
    /\ client = [c \in Client |-> IdleClient]
    /\ saves = 0 /\ edits = 0 /\ crashes = 0
    /\ inEffect = {primary}

-----------------------------------------------------------------------------
(* The history file.                                                       *)

Trim(vs) == IF Len(vs) > HistoryLimit
            THEN SubSeq(vs, Len(vs) - HistoryLimit + 1, Len(vs)) ELSE vs

\* The pending entry is committed only if its primary file was installed.
readHistory ==
    Trim(IF hist.pending # NoVersion /\ primary = hist.pending.cfg
         THEN Append(hist.versions, hist.pending) ELSE hist.versions)

Usable(content) == content \in Config

-----------------------------------------------------------------------------
(* Store.Load at service start.                                            *)

\* A usable primary runs. Shipped rules it lacks are written back to it, and
\* last-good is brought in step; either write may fail silently.
LoadPrimary(merged, copied) ==
    /\ Usable(primary)
    /\ cfg' = Normal[primary]
    /\ primary' = IF merged THEN Normal[primary] ELSE primary
    /\ lastGood' = IF copied THEN primary' ELSE lastGood

\* An absent primary is replaced by the defaults, or the start fails.
LoadAbsent(copied) ==
    /\ primary = "absent"
    /\ cfg' = Default /\ primary' = Default
    /\ lastGood' = IF copied THEN Default ELSE lastGood

\* An unusable primary is left alone; last-good runs, or the defaults.
LoadFallback ==
    /\ primary = "broken"
    /\ cfg' = IF Usable(lastGood) THEN Normal[lastGood] ELSE Default
    /\ UNCHANGED <<primary, lastGood>>

Load ==
    /\ ~up
    /\ \/ \E m, c \in BOOLEAN : LoadPrimary(m, c)
       \/ \E c \in BOOLEAN : LoadAbsent(c)
       \/ LoadFallback
    /\ up' = TRUE /\ rev' = rev + 1
    /\ inEffect' = inEffect \cup {cfg', primary'}
    /\ UNCHANGED <<hist, save, client, saves, edits, crashes>>

-----------------------------------------------------------------------------
(* Callers. Validation runs before the controller's lock is taken, so what *)
(* it compared with may have changed when the lock is held.                *)

Lock == up /\ save = NoSave

\* validateConfig: only a changed model path is checked, unless the change
\* is a restore.
Valid(c, checkModel) ==
    (checkModel \/ PathOf[c] # PathOf[cfg]) => PathOf[c] \notin Missing

Propose(c, next) ==
    /\ up /\ client[c].pc = "idle" /\ saves < MaxSaves
    /\ client' = [client EXCEPT ![c] =
            [IdleClient EXCEPT !.pc = "validated", !.cfg = next, !.ok = Valid(next, FALSE)]]
    /\ UNCHANGED <<up, cfg, rev, primary, lastGood, hist, save, saves, edits, crashes, inEffect>>

\* PreviewConfigRestore hands out the revision and the version's digest.
Preview(c, v) ==
    /\ Lock /\ client[c].pc = "idle" /\ saves < MaxSaves /\ ~hist.corrupt
    /\ client' = [client EXCEPT ![c] =
            [pc |-> "previewed", cfg |-> Normal[v.cfg], ok |-> TRUE, restore |-> v.id, rev |-> rev, seen |-> cfg]]
    /\ UNCHANGED <<up, cfg, rev, primary, lastGood, hist, save, saves, edits, crashes, inEffect>>

\* RestoreConfig reads the version again and validates it; a version that is
\* gone or reads differently is a conflict.
Restore(c) ==
    /\ Lock /\ client[c].pc = "previewed"
    /\ LET found == ~hist.corrupt /\ \E i \in 1..Len(readHistory) :
                        /\ readHistory[i].id = client[c].restore
                        /\ Normal[readHistory[i].cfg] = client[c].cfg
       IN client' = [client EXCEPT ![c] =
            IF found THEN [@ EXCEPT !.pc = "validated", !.ok = Valid(client[c].cfg, TRUE)] ELSE IdleClient]
    /\ UNCHANGED <<up, cfg, rev, primary, lastGood, hist, save, saves, edits, crashes, inEffect>>

\* VerifyCurrent: the primary still reads as the running configuration.
VerifyCurrent == Usable(primary) /\ Normal[primary] = Normal[cfg]

Accepted(c) ==
    /\ client[c].ok
    /\ client[c].restore # 0 => client[c].rev = rev /\ VerifyCurrent

\* updateConfig under the lock: refuse, or begin the save.
Begin(c) ==
    /\ Lock /\ client[c].pc = "validated" /\ saves < MaxSaves
    /\ IF Accepted(c)
       THEN /\ save' = [pc |-> "journal", by |-> c, next |-> [id |-> 2 * saves + 2, cfg |-> client[c].cfg]]
            /\ client' = [client EXCEPT ![c].pc = "saving"]
            /\ saves' = saves + 1
       ELSE client' = [client EXCEPT ![c] = IdleClient] /\ UNCHANGED <<save, saves>>
    /\ UNCHANGED <<up, cfg, rev, primary, lastGood, hist, edits, crashes, inEffect>>

-----------------------------------------------------------------------------
(* SaveVersion, one file write at a time. ok is whether the write worked.  *)

Abandon == save' = NoSave /\ client' = [client EXCEPT ![save.by] = IdleClient]

\* The journal: what history holds, the running configuration first when it
\* holds nothing, and the new version pending. An unreadable history is moved
\* aside before; moved is whether that worked.
SaveJournal(moved, ok) ==
    /\ up /\ save.pc = "journal"
    /\ LET old == IF hist.corrupt THEN <<>> ELSE readHistory
           base == IF old = <<>> THEN <<[id |-> save.next.id - 1, cfg |-> cfg]>> ELSE old
       IN hist' = CASE hist.corrupt /\ ~moved -> hist
                    [] (~hist.corrupt \/ moved) /\ ok ->
                         [corrupt |-> FALSE, versions |-> base, pending |-> save.next]
                    [] hist.corrupt /\ moved /\ ~ok ->
                         [corrupt |-> FALSE, versions |-> <<>>, pending |-> NoVersion]
                    [] OTHER -> hist
    /\ IF ok /\ (moved \/ ~hist.corrupt)
       THEN save' = [save EXCEPT !.pc = "primary"] /\ UNCHANGED client
       ELSE Abandon
    /\ UNCHANGED <<up, cfg, rev, primary, lastGood, saves, edits, crashes, inEffect>>

\* The primary: a failure leaves the pending entry behind.
SavePrimary(ok) ==
    /\ up /\ save.pc = "primary"
    /\ IF ok
       THEN /\ primary' = save.next.cfg
            /\ inEffect' = inEffect \cup {save.next.cfg}
            /\ save' = [save EXCEPT !.pc = "commit"]
            /\ UNCHANGED client
       ELSE Abandon /\ UNCHANGED <<primary, inEffect>>
    /\ UNCHANGED <<up, cfg, rev, lastGood, hist, saves, edits, crashes>>

\* Mutant: the committed list forgets the version it commits.
SaveCommit_DropPending(ok) ==
    /\ up /\ save.pc = "commit"
    /\ hist' = IF ok THEN [hist EXCEPT !.pending = NoVersion] ELSE hist
    /\ save' = [save EXCEPT !.pc = "lastgood"]
    /\ UNCHANGED <<up, cfg, rev, primary, lastGood, client, saves, edits, crashes, inEffect>>

\* Committing the entry and copying to last-good may fail unnoticed.
SaveCommit(ok) ==
    /\ up /\ save.pc = "commit"
    /\ hist' = IF ok THEN [hist EXCEPT !.corrupt = FALSE, !.pending = NoVersion,
                                       !.versions = Trim(Append(@, save.next))]
               ELSE hist
    /\ save' = [save EXCEPT !.pc = "lastgood"]
    /\ UNCHANGED <<up, cfg, rev, primary, lastGood, client, saves, edits, crashes, inEffect>>

SaveLastGood(ok) ==
    /\ up /\ save.pc = "lastgood"
    /\ lastGood' = IF ok THEN save.next.cfg ELSE lastGood
    /\ save' = [save EXCEPT !.pc = "apply"]
    /\ UNCHANGED <<up, cfg, rev, primary, hist, client, saves, edits, crashes, inEffect>>

\* The controller applies what was saved and takes a new revision.
Apply ==
    /\ up /\ save.pc = "apply"
    /\ cfg' = save.next.cfg /\ rev' = rev + 1
    /\ Abandon
    /\ UNCHANGED <<up, primary, lastGood, hist, saves, edits, crashes, inEffect>>

-----------------------------------------------------------------------------
(* Faults.                                                                 *)

Crash ==
    /\ up /\ crashes < MaxCrashes
    /\ up' = FALSE /\ crashes' = crashes + 1
    /\ save' = NoSave /\ client' = [c \in Client |-> IdleClient]
    /\ UNCHANGED <<cfg, rev, primary, lastGood, hist, saves, edits, inEffect>>

\* An operator writes, breaks or deletes the primary, or the history file
\* becomes unreadable.
Edit(content) ==
    /\ edits < MaxEdits /\ content # primary
    /\ primary' = content /\ edits' = edits + 1
    /\ inEffect' = inEffect \cup {content}
    /\ UNCHANGED <<up, cfg, rev, lastGood, hist, save, client, saves, crashes>>

CorruptHistory ==
    /\ edits < MaxEdits /\ ~hist.corrupt
    /\ hist' = [hist EXCEPT !.corrupt = TRUE] /\ edits' = edits + 1
    /\ UNCHANGED <<up, cfg, rev, primary, lastGood, save, client, saves, crashes, inEffect>>

Next ==
    \/ Load \/ Crash \/ CorruptHistory \/ Apply
    \/ \E content \in Proposals \cup {"broken", "absent"} : Edit(content)
    \/ \E c \in Client :
          \/ \E next \in Proposals : Propose(c, next)
          \/ \E i \in 1..Len(readHistory) : Preview(c, readHistory[i])
          \/ Restore(c) \/ Begin(c)
    \/ \E moved, ok \in BOOLEAN : SaveJournal(moved, ok)
    \/ \E ok \in BOOLEAN : SavePrimary(ok) \/ SaveCommit(ok) \/ SaveLastGood(ok)

Spec == Init /\ [][Next]_vars

-----------------------------------------------------------------------------
Version == [id : Nat, cfg : Config]

TypeOK ==
    /\ up \in BOOLEAN /\ cfg \in Config /\ rev \in Nat
    /\ primary \in Config \cup {"broken", "absent"}
    /\ lastGood \in Config \cup {"absent"}
    /\ hist.corrupt \in BOOLEAN /\ hist.pending \in Version
    /\ hist.versions \in Seq(Version) /\ Len(hist.versions) <= HistoryLimit
    /\ save.pc \in {"none", "journal", "primary", "commit", "lastgood", "apply"}
    /\ save.next \in Version
    /\ \A c \in Client : client[c].pc \in {"idle", "previewed", "validated", "saving"}
    /\ saves \in 0..MaxSaves /\ edits \in 0..MaxEdits /\ crashes \in 0..MaxCrashes

\* Every version history shows is of a configuration that ran or was
\* installed: a failed or interrupted save never shows up as a change
\* (readHistory, SaveVersion).
HistoryIsTrue ==
    ~hist.corrupt => \A i \in 1..Len(readHistory) : readHistory[i].cfg \in inEffect

\* Unless someone else wrote the files, the newest version of a history that
\* has any is the running configuration, whichever write failed and wherever
\* the service died.
NewestIsCurrent ==
    (Lock /\ edits = 0 /\ readHistory # <<>>) => readHistory[Len(readHistory)].cfg = cfg

\* Unless someone else wrote it, the primary file is what runs: an update is
\* neither applied without being saved nor saved without being applied.
RunningIsPersisted ==
    (Lock /\ edits = 0) => Usable(primary) /\ Normal[primary] = cfg

\* A restore is applied to the configuration its preview was shown for, and
\* puts the previewed version in place (RestoreConfig, revisionLocked).
RestoreIsFresh ==
    \A c \in Client :
        (save.pc = "apply" /\ save'.pc = "none" /\ up' /\ save.by = c /\ client[c].restore # 0)
        => cfg = client[c].seen /\ cfg' = client[c].cfg

=============================================================================
