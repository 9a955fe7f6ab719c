------------------------- MODULE Management_proofs -------------------------
(***************************************************************************)
(* Proofs about module MCManagement. Each part is proved on its own: an    *)
(* inductive invariant for the variables of that part, which the steps of  *)
(* the other parts leave alone.                                            *)
(*                                                                         *)
(* Some parts are instances of one module with different constants. Their  *)
(* steps are first shown to be steps of a common form, parametrised by     *)
(* what differs (StoreStep by the callers, for instance), and the          *)
(* invariant is proved once for that form.                                 *)
(***************************************************************************)
EXTENDS MCManagement, SequenceTheorems, FiniteSetTheorems, WellFoundedInduction, TLAPS
-----------------------------------------------------------------------------
(* The configuration.                                                      *)

NewestOf(vs) == vs[Len(vs)]
Committed == hist.pending # Cs!NoVersion /\ primary = hist.pending.cfg

StorePhases == {"none", "journal", "primary", "commit", "lastgood", "apply"}
Installed == {"commit", "lastgood", "apply"}
HistRecords == [corrupt : BOOLEAN, versions : Seq(Cs!Version), pending : Cs!Version]
SaveRecords(Cl) == [pc : StorePhases, by : Cl \cup {"nobody"}, next : Cs!Version]
ClientRecords ==
    [pc : {"idle", "previewed", "validated", "saving"}, cfg : Config, ok : BOOLEAN, restore : Nat, rev : Nat, seen : Config]

StoreType(Cl) ==
    /\ up \in BOOLEAN /\ cfg \in Config /\ rev \in Nat
    /\ primary \in Config \cup {"broken", "absent"} /\ lastGood \in Config \cup {"absent"}
    /\ hist \in HistRecords /\ Len(hist.versions) <= HistoryLimit
    /\ save \in SaveRecords(Cl) /\ client \in [Cl -> ClientRecords]
    /\ saves \in Nat /\ edits \in Nat

\* Everything that ran or was installed is known, and so is all of history.
HistoryKnown ==
    /\ primary \in inEffect
    /\ up => cfg \in inEffect
    /\ \A i \in 1..Len(hist.versions) : hist.versions[i].cfg \in inEffect
    /\ save.pc \in Installed => save.next.cfg \in inEffect

\* What is being saved or proposed is as loading leaves it.
ProposalsNormal(Cl) ==
    /\ \A c \in Cl : Normal[client[c].cfg] = client[c].cfg
    /\ Normal[save.next.cfg] = save.next.cfg
    /\ Normal[hist.pending.cfg] = hist.pending.cfg

\* While nobody else writes the files: the primary is what runs, or what is
\* about to, and the newest version is the primary.
FilesAgree ==
    edits = 0 =>
        /\ ~hist.corrupt /\ primary # "broken"
        /\ primary = "absent" => ~up /\ hist.versions = <<>> /\ hist.pending = Cs!NoVersion
        /\ up /\ save.pc \notin Installed => cfg = Normal[primary]
        /\ save.pc \in Installed => primary = save.next.cfg
        /\ save.pc \in {"primary", "commit"} => hist.pending = save.next
        /\ hist.versions # <<>> /\ ~Committed => Normal[primary] = NewestOf(hist.versions).cfg

\* A save in progress is one client's, and was accepted for what still runs.
SavesAreFresh(Cl) ==
    /\ ~up => save.pc = "none" /\ \A c \in Cl : client[c].pc = "idle"
    /\ save.pc # "none" => save.next.id # 0 /\ save.by \in Cl /\ save.next.cfg = client[save.by].cfg /\ client[save.by].pc = "saving"
    /\ save.pc = "none" => save = Cs!NoSave
    /\ \A c \in Cl : /\ client[c].pc = "idle" => client[c].restore = 0
                     /\ client[c].pc = "saving" => save.pc # "none" /\ save.by = c
                     /\ client[c].restore # 0 => client[c].rev <= rev /\ (client[c].rev = rev => client[c].seen = cfg)
    /\ save.pc # "none" /\ client[save.by].restore # 0 => client[save.by].rev = rev

ConfigInv(Cl) ==
    StoreType(Cl) /\ HistoryKnown /\ ProposalsNormal(Cl) /\ FilesAgree /\ SavesAreFresh(Cl)

(* The history read back has at most its limit of the newest entries.       *)
LEMMA Trimmed ==
    ASSUME Cs!ConfigStoreConstants, NEW vs \in Seq(Cs!Version)
    PROVE  /\ Cs!Trim(vs) \in Seq(Cs!Version) /\ Len(Cs!Trim(vs)) <= HistoryLimit /\ Len(Cs!Trim(vs)) \in Nat
           /\ \A i \in 1..Len(Cs!Trim(vs)) : \E j \in 1..Len(vs) : Cs!Trim(vs)[i] = vs[j]
           /\ vs # <<>> => Cs!Trim(vs) # <<>> /\ NewestOf(Cs!Trim(vs)) = NewestOf(vs)
           /\ vs = <<>> => Cs!Trim(vs) = <<>>
<1> DEFINE n == Len(vs)
           m == n - HistoryLimit + 1
<1>1. n \in Nat /\ HistoryLimit \in Nat \ {0} /\ (vs # <<>> => n # 0) /\ (vs = <<>> => n = 0)
  BY EmptySeq, LenProperties DEF Cs!ConfigStoreConstants
<1>2. CASE ~(n > HistoryLimit)
  <2>1. Cs!Trim(vs) = vs
    BY <1>2 DEF Cs!Trim
  <2> QED BY <1>1, <1>2, <2>1
<1>3. CASE n > HistoryLimit
  <2>1. Cs!Trim(vs) = SubSeq(vs, m, n)
    BY <1>3 DEF Cs!Trim
  <2>2. m \in 1..n /\ m \in Int /\ n \in Int /\ n - m + 1 = HistoryLimit
    BY <1>1, <1>3
  <2> HIDE DEF m
  <2>3. /\ SubSeq(vs, m, n) \in Seq(Cs!Version) /\ Len(SubSeq(vs, m, n)) = HistoryLimit
        /\ \A i \in 1..HistoryLimit : SubSeq(vs, m, n)[i] = vs[m + i - 1]
    <3>1. \A i \in m..n : vs[i] \in Cs!Version
      BY <2>2, ElementOfSeq
    <3> QED BY <2>2, <3>1, SubSeqProperties
  <2>4. \A i \in 1..HistoryLimit : m + i - 1 \in 1..n
    BY <1>1, <2>2
  <2>5. NewestOf(Cs!Trim(vs)) = vs[n]
    BY <1>1, <2>1, <2>2, <2>3 DEF NewestOf
  <2> DEFINE t == Cs!Trim(vs)
  <2>6. t \in Seq(Cs!Version) /\ Len(t) = HistoryLimit /\ \A i \in 1..HistoryLimit : t[i] = vs[m + i - 1]
    BY <2>1, <2>3
  <2>7. t # <<>> /\ vs # <<>> /\ NewestOf(vs) = vs[n]
    BY <1>1, <1>3, <2>6 DEF NewestOf
  <2>8. \A i \in 1..Len(t) : \E j \in 1..Len(vs) : t[i] = vs[j]
    BY <2>4, <2>6
  <2> HIDE DEF t
  <2> QED BY <1>1, <2>5, <2>6, <2>7, <2>8 DEF t
<1> QED BY <1>2, <1>3

(* What reading the history back yields: only what was in force, and, while *)
(* nobody else writes the files, the primary last.                          *)
LEMMA ReadBack ==
    ASSUME Cs!ConfigStoreConstants, NEW Cl, ConfigInv(Cl)
    PROVE  /\ Cs!readHistory \in Seq(Cs!Version) /\ Len(Cs!readHistory) <= HistoryLimit /\ Len(Cs!readHistory) \in Nat
           /\ \A i \in 1..Len(Cs!readHistory) : Cs!readHistory[i] \in Cs!Version /\ Cs!readHistory[i].cfg \in inEffect
           /\ edits = 0 /\ Cs!readHistory # <<>> => NewestOf(Cs!readHistory).cfg = Normal[primary]
           /\ hist.versions = <<>> /\ hist.pending = Cs!NoVersion => Cs!readHistory = <<>>
<1> DEFINE old == hist.versions
           vs == IF Committed THEN Append(old, hist.pending) ELSE old
<1>1. /\ Cs!readHistory = Cs!Trim(vs)
  BY DEF Cs!readHistory, Committed
<1>2. old \in Seq(Cs!Version) /\ hist.pending \in Cs!Version /\ Len(old) \in Nat
  BY LenProperties DEF ConfigInv, StoreType, HistRecords
<1>3. /\ vs \in Seq(Cs!Version) /\ \A i \in 1..Len(vs) : vs[i] \in Cs!Version /\ vs[i].cfg \in inEffect
      /\ edits = 0 /\ vs # <<>> => NewestOf(vs).cfg = Normal[primary]
  <2>1. CASE ~Committed
    <3>1. vs = old
      BY <2>1
    <3>2. \A i \in 1..Len(old) : old[i] \in Cs!Version /\ old[i].cfg \in inEffect
      BY <1>2, ElementOfSeq DEF ConfigInv, HistoryKnown
    <3>3. edits = 0 /\ old # <<>> => NewestOf(old).cfg = Normal[primary]
      BY <2>1 DEF ConfigInv, FilesAgree
    <3> QED BY <1>2, <3>1, <3>2, <3>3
  <2>2. CASE Committed
    <3>1. vs = Append(old, hist.pending)
      BY <2>2
    <3>2. /\ Append(old, hist.pending) \in Seq(Cs!Version) /\ Len(Append(old, hist.pending)) = Len(old) + 1
          /\ \A i \in 1..Len(old) : Append(old, hist.pending)[i] = old[i]
          /\ Append(old, hist.pending)[Len(old) + 1] = hist.pending
      BY <1>2, AppendProperties
    <3>3. hist.pending.cfg = primary /\ primary \in inEffect /\ Normal[primary] = primary
      BY <2>2 DEF Committed, ConfigInv, HistoryKnown, ProposalsNormal
    <3>4. \A i \in 1..Len(old) : old[i] \in Cs!Version /\ old[i].cfg \in inEffect
      BY <1>2, ElementOfSeq DEF ConfigInv, HistoryKnown
    <3>5. \A i \in 1..Len(vs) : i \in 1..Len(old) \/ i = Len(old) + 1
      BY <1>2, <3>1, <3>2
    <3>6. \A i \in 1..Len(vs) : vs[i] \in Cs!Version /\ vs[i].cfg \in inEffect
      BY <1>2, <3>1, <3>2, <3>3, <3>4, <3>5
    <3>7. NewestOf(vs) = hist.pending
      BY <3>1, <3>2 DEF NewestOf
    <3> QED BY <3>1, <3>2, <3>3, <3>6, <3>7
  <2> QED BY <2>1, <2>2
<1>4. hist.versions = <<>> /\ hist.pending = Cs!NoVersion => vs = <<>>
  BY DEF Committed
<1> HIDE DEF vs
<1>5. /\ Cs!Trim(vs) \in Seq(Cs!Version) /\ Len(Cs!Trim(vs)) <= HistoryLimit /\ Len(Cs!Trim(vs)) \in Nat
      /\ \A i \in 1..Len(Cs!Trim(vs)) : \E j \in 1..Len(vs) : Cs!Trim(vs)[i] = vs[j]
      /\ vs # <<>> => Cs!Trim(vs) # <<>> /\ NewestOf(Cs!Trim(vs)) = NewestOf(vs)
      /\ vs = <<>> => Cs!Trim(vs) = <<>>
  BY <1>3, Trimmed
<1>6. \A i \in 1..Len(Cs!Trim(vs)) : Cs!Trim(vs)[i] \in Cs!Version /\ Cs!Trim(vs)[i].cfg \in inEffect
  BY <1>3, <1>5
<1> HIDE DEF old
<1> QED BY <1>1, <1>3, <1>4, <1>5, <1>6

-----------------------------------------------------------------------------
(* What the steps do, whatever clients there are and however many saves.    *)

\* A client proposes, previews, restores or is refused.
Asks(Cl) ==
    /\ UNCHANGED <<up, cfg, rev, primary, lastGood, hist, save, saves, edits, inEffect>>
    /\ \E c \in Cl, r \in ClientRecords :
         /\ up /\ client' = [client EXCEPT ![c] = r] /\ client[c].pc # "saving" /\ r.pc # "saving"
         /\ Normal[r.cfg] = r.cfg /\ (r.pc = "idle" => r.restore = 0)
         /\ r.restore # 0 => r.rev <= rev /\ (r.rev = rev => r.seen = cfg)

\* A client's save begins.
Begins(Cl) ==
    /\ UNCHANGED <<up, cfg, rev, primary, lastGood, hist, edits, inEffect>>
    /\ up /\ save = Cs!NoSave /\ saves' = saves + 1
    /\ \E c \in Cl :
         /\ client[c].pc = "validated" /\ (client[c].restore # 0 => client[c].rev = rev)
         /\ save' = [pc |-> "journal", by |-> c, next |-> [id |-> 2 * saves + 2, cfg |-> client[c].cfg]]
         /\ client' = [client EXCEPT ![c].pc = "saving"]

Dies(Cl) ==
    /\ UNCHANGED <<cfg, rev, primary, lastGood, hist, saves, edits, inEffect>>
    /\ up' = FALSE /\ save' = Cs!NoSave /\ client' = [c \in Cl |-> Cs!IdleClient]

\* Somebody else writes the primary or the history.
Meddles ==
    /\ UNCHANGED <<up, cfg, rev, lastGood, save, client, saves>>
    /\ edits' = edits + 1 /\ primary' \in Config \cup {"broken", "absent"}
    /\ \/ hist' = hist /\ inEffect' = inEffect \cup {primary'}
       \/ hist' = [hist EXCEPT !.corrupt = TRUE] /\ UNCHANGED <<primary, inEffect>>

Saves ==
    \/ \E moved, ok \in BOOLEAN : Cs!SaveJournal(moved, ok)
    \/ \E ok \in BOOLEAN : Cs!SavePrimary(ok) \/ Cs!SaveCommit(ok) \/ Cs!SaveLastGood(ok)
    \/ Cs!Apply

StoreStep(Cl) == Cs!Load \/ Asks(Cl) \/ Begins(Cl) \/ Saves \/ Dies(Cl) \/ Meddles

(* The steps of the part "config" are such steps.                           *)
LEMMA ConfigSteps ==
    ASSUME Cs!ConfigStoreConstants, ConfigInv(Client), Cs!Next
    PROVE  StoreStep(Client)
<1>1. Cs!IdleClient \in ClientRecords /\ Normal[Default] = Default
  BY DEF Cs!IdleClient, Cs!IdleClient, ClientRecords, Cs!ConfigStoreConstants
<1>2. /\ client \in [Client -> ClientRecords] /\ cfg \in Config /\ rev \in Nat /\ saves \in Nat
      /\ ProposalsNormal(Client) /\ SavesAreFresh(Client)
  BY DEF ConfigInv, StoreType
<1>3. ASSUME NEW c \in Client, NEW next \in Proposals, Cs!Propose(c, next) PROVE Asks(Client)
  <2> DEFINE r == [Cs!IdleClient EXCEPT !.pc = "validated", !.cfg = next, !.ok = Cs!Valid(next, FALSE)]
  <2>1. Cs!Valid(next, FALSE) \in BOOLEAN
    BY DEF Cs!Valid
  <2>2. r \in ClientRecords /\ r.pc = "validated" /\ r.restore = 0 /\ Normal[r.cfg] = r.cfg
    BY <2>1 DEF Cs!IdleClient, ClientRecords, Cs!ConfigStoreConstants
  <2>3. /\ UNCHANGED <<up, cfg, rev, primary, lastGood, hist, save, saves, edits, inEffect>>
        /\ up /\ client' = [client EXCEPT ![c] = r] /\ client[c].pc = "idle"
    BY <1>1, <1>3 DEF Cs!Propose
  <2> HIDE DEF r
  <2> QED BY <2>2, <2>3 DEF Asks
<1>4. Cs!readHistory = Cs!readHistory
  BY DEF Cs!readHistory, Cs!readHistory, Cs!Trim, Cs!Trim, Cs!NoVersion, Cs!NoVersion
<1>5. ASSUME NEW c \in Client, NEW i \in 1..Len(Cs!readHistory), Cs!Preview(c, Cs!readHistory[i]) PROVE Asks(Client)
  <2> DEFINE v == Cs!readHistory[i]
             r == [pc |-> "previewed", cfg |-> Normal[v.cfg], ok |-> TRUE, restore |-> v.id, rev |-> rev, seen |-> cfg]
  <2>1. v \in Cs!Version
    BY <1>4, ReadBack
  <2>2. /\ UNCHANGED <<up, cfg, rev, primary, lastGood, hist, save, saves, edits, inEffect>>
        /\ up /\ client' = [client EXCEPT ![c] = r] /\ client[c].pc = "idle"
    BY <1>5 DEF Cs!Preview, Cs!Lock
  <2> HIDE DEF v
  <2>3. r \in ClientRecords /\ r.pc = "previewed" /\ r.rev = rev /\ r.seen = cfg /\ Normal[r.cfg] = r.cfg
    BY <1>2, <2>1 DEF ClientRecords, Cs!Version, Cs!ConfigStoreConstants
  <2>4. r.rev <= rev
    BY <1>2, <2>3
  <2> HIDE DEF r
  <2> QED BY <2>2, <2>3, <2>4 DEF Asks
<1>6. ASSUME NEW c \in Client, Cs!Restore(c) PROVE Asks(Client)
  <2> DEFINE q == [client[c] EXCEPT !.pc = "validated", !.ok = Cs!Valid(client[c].cfg, TRUE)]
  <2>1. /\ UNCHANGED <<up, cfg, rev, primary, lastGood, hist, save, saves, edits, inEffect>>
        /\ up /\ client[c].pc = "previewed" /\ client[c] \in ClientRecords
        /\ client' = [client EXCEPT ![c] = q] \/ client' = [client EXCEPT ![c] = Cs!IdleClient]
    BY <1>1, <1>2, <1>6 DEF Cs!Restore, Cs!Lock
  <2>2. Cs!Valid(client[c].cfg, TRUE) \in BOOLEAN
    BY DEF Cs!Valid
  <2>3. /\ q \in ClientRecords /\ q.pc = "validated" /\ q.cfg = client[c].cfg /\ q.restore = client[c].restore
        /\ q.rev = client[c].rev /\ q.seen = client[c].seen
    BY <2>1, <2>2 DEF ClientRecords
  <2>4. Normal[q.cfg] = q.cfg /\ (q.restore # 0 => q.rev <= rev /\ (q.rev = rev => q.seen = cfg))
    BY <1>2, <2>3 DEF ProposalsNormal, SavesAreFresh
  <2> HIDE DEF q
  <2>5. CASE client' = [client EXCEPT ![c] = q]
    BY <2>1, <2>3, <2>4, <2>5 DEF Asks
  <2>6. CASE client' = [client EXCEPT ![c] = Cs!IdleClient]
    <3>1. Cs!IdleClient.pc = "idle" /\ Cs!IdleClient.restore = 0 /\ Normal[Cs!IdleClient.cfg] = Cs!IdleClient.cfg
      BY <1>1 DEF Cs!IdleClient
    <3> QED BY <1>1, <2>1, <2>6, <3>1 DEF Asks
  <2> QED BY <2>1, <2>5, <2>6
<1>7. ASSUME NEW c \in Client, Cs!Begin(c) PROVE Asks(Client) \/ Begins(Client)
  <2>1. CASE Cs!Accepted(c)
    <3>1. /\ UNCHANGED <<up, cfg, rev, primary, lastGood, hist, edits, inEffect>>
          /\ up /\ save = Cs!NoSave /\ saves' = saves + 1
          /\ client[c].pc = "validated" /\ (client[c].restore # 0 => client[c].rev = rev)
          /\ save' = [pc |-> "journal", by |-> c, next |-> [id |-> 2 * saves + 2, cfg |-> client[c].cfg]]
          /\ client' = [client EXCEPT ![c].pc = "saving"]
      BY <1>7, <2>1 DEF Cs!Begin, Cs!Lock, Cs!Accepted, Cs!NoSave, Cs!NoSave, Cs!NoVersion, Cs!NoVersion
    <3> QED BY <3>1 DEF Begins
  <2>2. CASE ~Cs!Accepted(c)
    <3>1. /\ UNCHANGED <<up, cfg, rev, primary, lastGood, hist, save, saves, edits, inEffect>>
          /\ up /\ client[c].pc = "validated" /\ client' = [client EXCEPT ![c] = Cs!IdleClient]
      BY <1>1, <1>7, <2>2 DEF Cs!Begin, Cs!Lock
    <3>2. Cs!IdleClient.pc = "idle" /\ Cs!IdleClient.restore = 0 /\ Normal[Cs!IdleClient.cfg] = Cs!IdleClient.cfg
      BY <1>1 DEF Cs!IdleClient
    <3> QED BY <1>1, <3>1, <3>2 DEF Asks
  <2> QED BY <2>1, <2>2
<1>8. Cs!Load => Cs!Load
  BY DEF Cs!Load, Cs!Load, Cs!LoadPrimary, Cs!LoadPrimary, Cs!LoadAbsent, Cs!LoadAbsent, Cs!LoadFallback, Cs!LoadFallback,
         Cs!Usable, Cs!Usable
<1>9. Cs!Abandon => Cs!Abandon
  BY <1>1 DEF Cs!Abandon, Cs!Abandon, Cs!NoSave, Cs!NoSave, Cs!NoVersion, Cs!NoVersion
<1>10. ASSUME NEW moved \in BOOLEAN, NEW ok \in BOOLEAN, Cs!SaveJournal(moved, ok) PROVE Cs!SaveJournal(moved, ok)
  BY <1>4, <1>9, <1>10 DEF Cs!SaveJournal, Cs!SaveJournal, Cs!NoVersion, Cs!NoVersion
<1>11. ASSUME NEW ok \in BOOLEAN, Cs!SavePrimary(ok) \/ Cs!SaveCommit(ok) \/ Cs!SaveLastGood(ok)
       PROVE  Cs!SavePrimary(ok) \/ Cs!SaveCommit(ok) \/ Cs!SaveLastGood(ok)
  BY <1>9, <1>11 DEF Cs!SavePrimary, Cs!SavePrimary, Cs!SaveCommit, Cs!SaveCommit, Cs!SaveLastGood, Cs!SaveLastGood,
     Cs!NoVersion, Cs!NoVersion, Cs!Trim, Cs!Trim
<1>12. Cs!Apply => Cs!Apply
  BY <1>9 DEF Cs!Apply, Cs!Apply
<1>13. Cs!Crash => Dies(Client)
  BY <1>1 DEF Cs!Crash, Dies, Cs!NoSave, Cs!NoSave, Cs!NoVersion, Cs!NoVersion
<1>14. ASSUME NEW content \in Proposals \cup {"broken", "absent"}, Cs!Edit(content) PROVE Meddles
  BY <1>14 DEF Cs!Edit, Meddles, Cs!ConfigStoreConstants
<1>15. Cs!CorruptHistory => Meddles
  BY DEF Cs!CorruptHistory, Meddles, ConfigInv, StoreType
<1>16. Cs!Load \/ Cs!Apply \/ Cs!Crash \/ Cs!CorruptHistory => StoreStep(Client)
  BY <1>8, <1>12, <1>13, <1>15 DEF StoreStep, Saves
<1>17. ASSUME \E content \in Proposals \cup {"broken", "absent"} : Cs!Edit(content) PROVE StoreStep(Client)
  BY <1>14, <1>17 DEF StoreStep
<1>18. ASSUME NEW c \in Client,
              \/ \E next \in Proposals : Cs!Propose(c, next)
              \/ \E i \in 1..Len(Cs!readHistory) : Cs!Preview(c, Cs!readHistory[i])
              \/ Cs!Restore(c) \/ Cs!Begin(c)
       PROVE  StoreStep(Client)
  BY <1>3, <1>5, <1>6, <1>7, <1>18 DEF StoreStep
<1>19. ASSUME \E moved, ok \in BOOLEAN : Cs!SaveJournal(moved, ok) PROVE StoreStep(Client)
  BY <1>10, <1>19, Zenon DEF StoreStep, Saves
<1>20. ASSUME \E ok \in BOOLEAN : Cs!SavePrimary(ok) \/ Cs!SaveCommit(ok) \/ Cs!SaveLastGood(ok) PROVE StoreStep(Client)
  BY <1>11, <1>20, Zenon DEF StoreStep, Saves
<1> QED BY <1>16, <1>17, <1>18, <1>19, <1>20 DEF Cs!Next

(* The steps of the part "restore" are such steps.                           *)
LEMMA RestoreSteps ==
    ASSUME Cs!ConfigStoreConstants, ConfigInv({"u1", "u2"}), Cr!Next
    PROVE  StoreStep({"u1", "u2"})
<1>1. Cs!IdleClient \in ClientRecords /\ Normal[Default] = Default /\ Cr!IdleClient = Cs!IdleClient
  BY DEF Cs!IdleClient, Cr!IdleClient, ClientRecords, Cs!ConfigStoreConstants
<1>2. /\ client \in [{"u1", "u2"} -> ClientRecords] /\ cfg \in Config /\ rev \in Nat /\ saves \in Nat
      /\ ProposalsNormal({"u1", "u2"}) /\ SavesAreFresh({"u1", "u2"})
  BY DEF ConfigInv, StoreType
<1>3. ASSUME NEW c \in {"u1", "u2"}, NEW next \in Proposals, Cr!Propose(c, next) PROVE Asks({"u1", "u2"})
  <2> DEFINE r == [Cs!IdleClient EXCEPT !.pc = "validated", !.cfg = next, !.ok = Cr!Valid(next, FALSE)]
  <2>1. Cr!Valid(next, FALSE) \in BOOLEAN
    BY DEF Cr!Valid
  <2>2. r \in ClientRecords /\ r.pc = "validated" /\ r.restore = 0 /\ Normal[r.cfg] = r.cfg
    BY <2>1 DEF Cs!IdleClient, ClientRecords, Cs!ConfigStoreConstants
  <2>3. /\ UNCHANGED <<up, cfg, rev, primary, lastGood, hist, save, saves, edits, inEffect>>
        /\ up /\ client' = [client EXCEPT ![c] = r] /\ client[c].pc = "idle"
    BY <1>1, <1>3 DEF Cr!Propose
  <2> HIDE DEF r
  <2> QED BY <2>2, <2>3 DEF Asks
<1>4. Cr!readHistory = Cs!readHistory
  BY DEF Cr!readHistory, Cs!readHistory, Cr!Trim, Cs!Trim, Cr!NoVersion, Cs!NoVersion
<1>5. ASSUME NEW c \in {"u1", "u2"}, NEW i \in 1..Len(Cr!readHistory), Cr!Preview(c, Cr!readHistory[i]) PROVE Asks({"u1", "u2"})
  <2> DEFINE v == Cr!readHistory[i]
             r == [pc |-> "previewed", cfg |-> Normal[v.cfg], ok |-> TRUE, restore |-> v.id, rev |-> rev, seen |-> cfg]
  <2>1. v \in Cs!Version
    BY <1>4, ReadBack
  <2>2. /\ UNCHANGED <<up, cfg, rev, primary, lastGood, hist, save, saves, edits, inEffect>>
        /\ up /\ client' = [client EXCEPT ![c] = r] /\ client[c].pc = "idle"
    BY <1>5 DEF Cr!Preview, Cr!Lock
  <2> HIDE DEF v
  <2>3. r \in ClientRecords /\ r.pc = "previewed" /\ r.rev = rev /\ r.seen = cfg /\ Normal[r.cfg] = r.cfg
    BY <1>2, <2>1 DEF ClientRecords, Cs!Version, Cs!ConfigStoreConstants
  <2>4. r.rev <= rev
    BY <1>2, <2>3
  <2> HIDE DEF r
  <2> QED BY <2>2, <2>3, <2>4 DEF Asks
<1>6. ASSUME NEW c \in {"u1", "u2"}, Cr!Restore(c) PROVE Asks({"u1", "u2"})
  <2> DEFINE q == [client[c] EXCEPT !.pc = "validated", !.ok = Cr!Valid(client[c].cfg, TRUE)]
  <2>1. /\ UNCHANGED <<up, cfg, rev, primary, lastGood, hist, save, saves, edits, inEffect>>
        /\ up /\ client[c].pc = "previewed" /\ client[c] \in ClientRecords
        /\ client' = [client EXCEPT ![c] = q] \/ client' = [client EXCEPT ![c] = Cs!IdleClient]
    BY <1>1, <1>2, <1>6 DEF Cr!Restore, Cr!Lock
  <2>2. Cr!Valid(client[c].cfg, TRUE) \in BOOLEAN
    BY DEF Cr!Valid
  <2>3. /\ q \in ClientRecords /\ q.pc = "validated" /\ q.cfg = client[c].cfg /\ q.restore = client[c].restore
        /\ q.rev = client[c].rev /\ q.seen = client[c].seen
    BY <2>1, <2>2 DEF ClientRecords
  <2>4. Normal[q.cfg] = q.cfg /\ (q.restore # 0 => q.rev <= rev /\ (q.rev = rev => q.seen = cfg))
    BY <1>2, <2>3 DEF ProposalsNormal, SavesAreFresh
  <2> HIDE DEF q
  <2>5. CASE client' = [client EXCEPT ![c] = q]
    BY <2>1, <2>3, <2>4, <2>5 DEF Asks
  <2>6. CASE client' = [client EXCEPT ![c] = Cs!IdleClient]
    <3>1. Cs!IdleClient.pc = "idle" /\ Cs!IdleClient.restore = 0 /\ Normal[Cs!IdleClient.cfg] = Cs!IdleClient.cfg
      BY <1>1 DEF Cs!IdleClient
    <3> QED BY <1>1, <2>1, <2>6, <3>1 DEF Asks
  <2> QED BY <2>1, <2>5, <2>6
<1>7. ASSUME NEW c \in {"u1", "u2"}, Cr!Begin(c) PROVE Asks({"u1", "u2"}) \/ Begins({"u1", "u2"})
  <2>1. CASE Cr!Accepted(c)
    <3>1. /\ UNCHANGED <<up, cfg, rev, primary, lastGood, hist, edits, inEffect>>
          /\ up /\ save = Cs!NoSave /\ saves' = saves + 1
          /\ client[c].pc = "validated" /\ (client[c].restore # 0 => client[c].rev = rev)
          /\ save' = [pc |-> "journal", by |-> c, next |-> [id |-> 2 * saves + 2, cfg |-> client[c].cfg]]
          /\ client' = [client EXCEPT ![c].pc = "saving"]
      BY <1>7, <2>1 DEF Cr!Begin, Cr!Lock, Cr!Accepted, Cr!NoSave, Cs!NoSave, Cr!NoVersion, Cs!NoVersion
    <3> QED BY <3>1 DEF Begins
  <2>2. CASE ~Cr!Accepted(c)
    <3>1. /\ UNCHANGED <<up, cfg, rev, primary, lastGood, hist, save, saves, edits, inEffect>>
          /\ up /\ client[c].pc = "validated" /\ client' = [client EXCEPT ![c] = Cs!IdleClient]
      BY <1>1, <1>7, <2>2 DEF Cr!Begin, Cr!Lock
    <3>2. Cs!IdleClient.pc = "idle" /\ Cs!IdleClient.restore = 0 /\ Normal[Cs!IdleClient.cfg] = Cs!IdleClient.cfg
      BY <1>1 DEF Cs!IdleClient
    <3> QED BY <1>1, <3>1, <3>2 DEF Asks
  <2> QED BY <2>1, <2>2
<1>8. Cr!Load => Cs!Load
  BY DEF Cr!Load, Cs!Load, Cr!LoadPrimary, Cs!LoadPrimary, Cr!LoadAbsent, Cs!LoadAbsent, Cr!LoadFallback, Cs!LoadFallback,
         Cr!Usable, Cs!Usable
<1>9. Cr!Abandon => Cs!Abandon
  BY <1>1 DEF Cr!Abandon, Cs!Abandon, Cr!NoSave, Cs!NoSave, Cr!NoVersion, Cs!NoVersion
<1>10. ASSUME NEW moved \in BOOLEAN, NEW ok \in BOOLEAN, Cr!SaveJournal(moved, ok) PROVE Cs!SaveJournal(moved, ok)
  BY <1>4, <1>9, <1>10 DEF Cr!SaveJournal, Cs!SaveJournal, Cr!NoVersion, Cs!NoVersion
<1>11. ASSUME NEW ok \in BOOLEAN, Cr!SavePrimary(ok) \/ Cr!SaveCommit(ok) \/ Cr!SaveLastGood(ok)
       PROVE  Cs!SavePrimary(ok) \/ Cs!SaveCommit(ok) \/ Cs!SaveLastGood(ok)
  BY <1>9, <1>11 DEF Cr!SavePrimary, Cs!SavePrimary, Cr!SaveCommit, Cs!SaveCommit, Cr!SaveLastGood, Cs!SaveLastGood,
     Cr!NoVersion, Cs!NoVersion, Cr!Trim, Cs!Trim
<1>12. Cr!Apply => Cs!Apply
  BY <1>9 DEF Cr!Apply, Cs!Apply
<1>13. Cr!Crash => Dies({"u1", "u2"})
  BY <1>1 DEF Cr!Crash, Dies, Cr!NoSave, Cs!NoSave, Cr!NoVersion, Cs!NoVersion
<1>14. ASSUME NEW content \in Proposals \cup {"broken", "absent"}, Cr!Edit(content) PROVE Meddles
  BY <1>14 DEF Cr!Edit, Meddles, Cs!ConfigStoreConstants
<1>15. Cr!CorruptHistory => Meddles
  BY DEF Cr!CorruptHistory, Meddles, ConfigInv, StoreType
<1>16. Cr!Load \/ Cr!Apply \/ Cr!Crash \/ Cr!CorruptHistory => StoreStep({"u1", "u2"})
  BY <1>8, <1>12, <1>13, <1>15 DEF StoreStep, Saves
<1>17. ASSUME \E content \in Proposals \cup {"broken", "absent"} : Cr!Edit(content) PROVE StoreStep({"u1", "u2"})
  BY <1>14, <1>17 DEF StoreStep
<1>18. ASSUME NEW c \in {"u1", "u2"},
              \/ \E next \in Proposals : Cr!Propose(c, next)
              \/ \E i \in 1..Len(Cr!readHistory) : Cr!Preview(c, Cr!readHistory[i])
              \/ Cr!Restore(c) \/ Cr!Begin(c)
       PROVE  StoreStep({"u1", "u2"})
  BY <1>3, <1>5, <1>6, <1>7, <1>18 DEF StoreStep
<1>19. ASSUME \E moved, ok \in BOOLEAN : Cr!SaveJournal(moved, ok) PROVE StoreStep({"u1", "u2"})
  BY <1>10, <1>19, Zenon DEF StoreStep, Saves
<1>20. ASSUME \E ok \in BOOLEAN : Cr!SavePrimary(ok) \/ Cr!SaveCommit(ok) \/ Cr!SaveLastGood(ok) PROVE StoreStep({"u1", "u2"})
  BY <1>11, <1>20, Zenon DEF StoreStep, Saves
<1> QED BY <1>16, <1>17, <1>18, <1>19, <1>20 DEF Cr!Next

-----------------------------------------------------------------------------
(* The invariant holds at the start and every step keeps it.                *)

(* A configuration a save or a load puts in place.                          *)
LEMMA StoreConstants ==
    ASSUME Cs!ConfigStoreConstants
    PROVE  /\ Default \in Config /\ Normal[Default] = Default /\ Normal \in [Config -> Config]
           /\ \A c \in Config : Normal[c] \in Config /\ Normal[Normal[c]] = Normal[c] /\ c # "broken" /\ c # "absent"
           /\ Cs!NoVersion \in Cs!Version /\ Cs!NoVersion.id = 0 /\ Cs!NoVersion.cfg = Default
           /\ Cs!IdleClient \in ClientRecords /\ Cs!IdleClient.pc = "idle" /\ Cs!IdleClient.restore = 0
           /\ Cs!IdleClient.cfg = Default
           /\ Cs!NoSave.pc = "none" /\ Cs!NoSave.next = Cs!NoVersion /\ \A Cl : Cs!NoSave \in SaveRecords(Cl)
           /\ Installed \subseteq StorePhases \ {"none"}
  BY DEF Cs!ConfigStoreConstants, Cs!NoVersion, Cs!Version, Cs!IdleClient, ClientRecords, Cs!NoSave, SaveRecords, StorePhases,
         Installed

(* The store starts with what the file holds and no history.                *)
LEMMA StoreStarts ==
    ASSUME Cs!ConfigStoreConstants, NEW Cl,
           /\ primary \in Config \cup {"absent"} /\ lastGood \in Config \cup {"absent"} /\ up = FALSE /\ cfg = Default /\ rev = 0
           /\ hist = [corrupt |-> FALSE, versions |-> <<>>, pending |-> Cs!NoVersion]
           /\ save = Cs!NoSave /\ client = [c \in Cl |-> Cs!IdleClient] /\ saves = 0 /\ edits = 0 /\ inEffect = {primary}
    PROVE  ConfigInv(Cl)
<1>1. StoreType(Cl)
  <2>1. hist \in HistRecords /\ Len(hist.versions) = 0 /\ HistoryLimit \in Nat
    BY StoreConstants DEF HistRecords, Cs!ConfigStoreConstants
  <2>2. save \in SaveRecords(Cl) /\ client \in [Cl -> ClientRecords] /\ Len(hist.versions) <= HistoryLimit
    BY <2>1, StoreConstants
  <2> QED BY <2>1, <2>2, StoreConstants DEF StoreType
<1>2. HistoryKnown
  BY StoreConstants DEF HistoryKnown
<1>3. ProposalsNormal(Cl)
  BY StoreConstants DEF ProposalsNormal
<1>4. FilesAgree
  BY StoreConstants DEF FilesAgree
<1>5. SavesAreFresh(Cl)
  BY StoreConstants DEF SavesAreFresh
<1> QED BY <1>1, <1>2, <1>3, <1>4, <1>5 DEF ConfigInv

(* Giving up a save leaves no trace of it among the clients.                *)
LEMMA Abandoned ==
    ASSUME Cs!ConfigStoreConstants, NEW Cl, ConfigInv(Cl), save.pc # "none", Cs!Abandon, up' = up, rev' \in Nat,
           (rev' = rev /\ cfg' = cfg) \/ rev' = rev + 1
    PROVE  /\ client' \in [Cl -> ClientRecords] /\ save' \in SaveRecords(Cl) /\ save' = Cs!NoSave
           /\ \A c \in Cl : Normal[client'[c].cfg] = client'[c].cfg
           /\ SavesAreFresh(Cl)'
<1>1. /\ save.by \in Cl /\ up /\ client \in [Cl -> ClientRecords] /\ rev \in Nat
      /\ \A c \in Cl : client[c].pc = "saving" => save.by = c
      /\ \A c \in Cl : /\ client[c].pc = "idle" => client[c].restore = 0
                       /\ client[c].restore # 0 => client[c].rev <= rev /\ (client[c].rev = rev => client[c].seen = cfg)
      /\ \A c \in Cl : Normal[client[c].cfg] = client[c].cfg
      /\ up \in BOOLEAN
  BY DEF ConfigInv, SavesAreFresh, StoreType, ProposalsNormal
<1>2. save' = Cs!NoSave /\ client' = [client EXCEPT ![save.by] = Cs!IdleClient]
  BY DEF Cs!Abandon
<1>3. /\ client' \in [Cl -> ClientRecords] /\ client'[save.by] = Cs!IdleClient
      /\ \A c \in Cl : c # save.by => client'[c] = client[c]
  BY <1>1, <1>2, StoreConstants
<1>4. \A c \in Cl : client'[c].restore # 0 => client'[c].rev <= rev' /\ (client'[c].rev = rev' => client'[c].seen = cfg')
  <2> SUFFICES ASSUME NEW c \in Cl, client'[c].restore # 0
               PROVE  client'[c].rev <= rev' /\ (client'[c].rev = rev' => client'[c].seen = cfg')
    OBVIOUS
  <2>1. c # save.by /\ client'[c] = client[c]
    BY <1>3, StoreConstants
  <2>2. client[c].rev \in Nat /\ client[c].rev <= rev /\ (client[c].rev = rev => client[c].seen = cfg)
    BY <1>1, <2>1 DEF ClientRecords
  <2> QED BY <1>1, <2>1, <2>2
<1>5. SavesAreFresh(Cl)'
  BY <1>1, <1>2, <1>3, <1>4, StoreConstants DEF SavesAreFresh
<1> QED BY <1>1, <1>2, <1>3, <1>5, StoreConstants

(* Starting the service runs the primary, or what stands in for it.         *)
LEMMA LoadKeeps ==
    ASSUME Cs!ConfigStoreConstants, NEW Cl, ConfigInv(Cl), Cs!Load
    PROVE  ConfigInv(Cl)'
<1>1. /\ StoreType(Cl) /\ HistoryKnown /\ ProposalsNormal(Cl) /\ FilesAgree /\ SavesAreFresh(Cl)
  BY DEF ConfigInv
<1>2. /\ ~up /\ up' = TRUE /\ rev' = rev + 1 /\ inEffect' = inEffect \cup {cfg', primary'}
      /\ UNCHANGED <<hist, save, client, saves, edits>>
      /\ \/ primary \in Config /\ cfg' = Normal[primary] /\ primary' \in {primary, Normal[primary]} /\ lastGood' \in {primary', lastGood}
         \/ primary = "absent" /\ cfg' = Default /\ primary' = Default /\ lastGood' \in {Default, lastGood}
         \/ /\ primary = "broken" /\ primary' = primary /\ lastGood' = lastGood
            /\ cfg' = IF lastGood \in Config THEN Normal[lastGood] ELSE Default
  BY DEF Cs!Load, Cs!LoadPrimary, Cs!LoadAbsent, Cs!LoadFallback, Cs!Usable
<1>3. cfg' \in Config /\ primary' \in Config \cup {"broken", "absent"} /\ lastGood' \in Config \cup {"absent"}
  BY <1>1, <1>2, StoreConstants DEF StoreType
<1>4. StoreType(Cl)'
  BY <1>1, <1>2, <1>3 DEF StoreType
<1>5. HistoryKnown'
  <2>1. save.pc = "none"
    BY <1>1, <1>2 DEF SavesAreFresh
  <2> QED BY <1>1, <1>2, <2>1, StoreConstants DEF HistoryKnown
<1>6. ProposalsNormal(Cl)'
  BY <1>1, <1>2 DEF ProposalsNormal
<1>7. FilesAgree'
  <2> SUFFICES ASSUME edits = 0 PROVE FilesAgree'
    BY <1>2 DEF FilesAgree
  <2>1. /\ ~hist.corrupt /\ primary # "broken" /\ save.pc = "none"
        /\ (primary = "absent" => hist.versions = <<>> /\ hist.pending = Cs!NoVersion)
        /\ (hist.versions # <<>> /\ ~Committed => Normal[primary] = NewestOf(hist.versions).cfg)
    BY <1>1, <1>2 DEF FilesAgree, SavesAreFresh
  <2>2. CASE primary = "absent"
    BY <1>2, <2>1, <2>2, StoreConstants DEF FilesAgree, Committed
  <2>3. CASE primary \in Config
    <3>1. cfg' = Normal[primary] /\ primary' \in {primary, Normal[primary]} /\ Normal[primary'] = Normal[primary] /\ primary' \in Config
      BY <1>2, <2>3, StoreConstants
    <3>2. Committed => primary' = primary
      BY <1>1, <3>1 DEF Committed, ProposalsNormal
    <3>3. Committed => Committed'
      BY <1>2, <3>2 DEF Committed
    <3> QED BY <1>2, <2>1, <2>3, <3>1, <3>3, StoreConstants DEF FilesAgree
  <2> QED BY <1>2, <2>1, <2>2, <2>3
<1>8. SavesAreFresh(Cl)'
  BY <1>1, <1>2 DEF SavesAreFresh
<1> QED BY <1>4, <1>5, <1>6, <1>7, <1>8 DEF ConfigInv

(* Proposals, previews and refusals touch only the asking client.           *)
LEMMA AsksKeep ==
    ASSUME Cs!ConfigStoreConstants, NEW Cl, ConfigInv(Cl), Asks(Cl)
    PROVE  ConfigInv(Cl)'
<1>1. /\ StoreType(Cl) /\ HistoryKnown /\ ProposalsNormal(Cl) /\ FilesAgree /\ SavesAreFresh(Cl)
      /\ UNCHANGED <<up, cfg, rev, primary, lastGood, hist, save, saves, edits, inEffect>>
  BY DEF ConfigInv, Asks
<1>2. PICK c \in Cl, r \in ClientRecords :
         /\ up /\ client' = [client EXCEPT ![c] = r] /\ client[c].pc # "saving" /\ r.pc # "saving"
         /\ Normal[r.cfg] = r.cfg /\ (r.pc = "idle" => r.restore = 0)
         /\ r.restore # 0 => r.rev <= rev /\ (r.rev = rev => r.seen = cfg)
  BY DEF Asks
<1>3. /\ client \in [Cl -> ClientRecords] /\ client' \in [Cl -> ClientRecords] /\ client'[c] = r
      /\ \A d \in Cl : d # c => client'[d] = client[d]
  BY <1>1, <1>2 DEF StoreType
<1>4. StoreType(Cl)'
  BY <1>1, <1>3 DEF StoreType
<1>5. HistoryKnown' /\ FilesAgree'
  BY <1>1 DEF HistoryKnown, FilesAgree, Committed
<1>6. ProposalsNormal(Cl)'
  BY <1>1, <1>2, <1>3 DEF ProposalsNormal
<1>7. SavesAreFresh(Cl)'
  <2>1. save.pc # "none" => save.by # c
    BY <1>1, <1>2 DEF SavesAreFresh
  <2>2. save.pc # "none" => save.by \in Cl /\ client'[save.by] = client[save.by]
    BY <1>1, <1>3, <2>1 DEF SavesAreFresh
  <2>3. \A d \in Cl : /\ client'[d].pc = "idle" => client'[d].restore = 0
                      /\ client'[d].pc = "saving" => save.pc # "none" /\ save.by = d
                      /\ client'[d].restore # 0 => client'[d].rev <= rev /\ (client'[d].rev = rev => client'[d].seen = cfg)
    <3> TAKE d \in Cl
    <3>1. CASE d = c
      BY <1>2, <1>3, <3>1
    <3>2. CASE d # c
      BY <1>1, <1>3, <3>2 DEF SavesAreFresh
    <3> QED BY <3>1, <3>2
  <2> QED BY <1>1, <1>2, <2>2, <2>3 DEF SavesAreFresh
<1> QED BY <1>4, <1>5, <1>6, <1>7 DEF ConfigInv

(* A save begins with what its client proposed, while its preview is fresh. *)
LEMMA BeginsKeep ==
    ASSUME Cs!ConfigStoreConstants, NEW Cl, ConfigInv(Cl), Begins(Cl)
    PROVE  ConfigInv(Cl)'
<1>1. /\ StoreType(Cl) /\ HistoryKnown /\ ProposalsNormal(Cl) /\ FilesAgree /\ SavesAreFresh(Cl)
      /\ UNCHANGED <<up, cfg, rev, primary, lastGood, hist, edits, inEffect>> /\ saves' = saves + 1
      /\ up /\ save = Cs!NoSave
  BY DEF ConfigInv, Begins
<1>2. PICK c \in Cl :
         /\ client[c].pc = "validated" /\ (client[c].restore # 0 => client[c].rev = rev)
         /\ save' = [pc |-> "journal", by |-> c, next |-> [id |-> 2 * saves + 2, cfg |-> client[c].cfg]]
         /\ client' = [client EXCEPT ![c].pc = "saving"]
  BY DEF Begins
<1>3. /\ client \in [Cl -> ClientRecords] /\ client' \in [Cl -> ClientRecords] /\ client'[c].pc = "saving"
      /\ client'[c].cfg = client[c].cfg /\ client'[c].restore = client[c].restore /\ client'[c].rev = client[c].rev
      /\ client'[c].seen = client[c].seen
      /\ \A d \in Cl : d # c => client'[d] = client[d]
  BY <1>1, <1>2 DEF StoreType, ClientRecords
<1>4. /\ save' \in SaveRecords(Cl) /\ save'.next.id # 0 /\ save'.pc = "journal" /\ save'.by = c /\ save'.next.cfg = client[c].cfg
  <2>1. 2 * saves + 2 \in Nat /\ 2 * saves + 2 # 0 /\ client[c].cfg \in Config
    BY <1>1, <1>3 DEF StoreType, ClientRecords
  <2>2. [id |-> 2 * saves + 2, cfg |-> client[c].cfg] \in Cs!Version
    BY <2>1 DEF Cs!Version
  <2> QED BY <1>2, <2>1, <2>2 DEF SaveRecords, StorePhases
<1>5. StoreType(Cl)'
  BY <1>1, <1>3, <1>4 DEF StoreType
<1>6. save.pc = "none" /\ save.pc \notin Installed /\ save'.pc \notin Installed
  BY <1>1, <1>4, StoreConstants DEF Installed
<1>7. HistoryKnown' /\ FilesAgree'
  BY <1>1, <1>4, <1>6 DEF HistoryKnown, FilesAgree, Committed
<1>8. \A d \in Cl : client'[d].cfg = client[d].cfg
  BY <1>3
<1>9. ProposalsNormal(Cl)'
  BY <1>1, <1>4, <1>8 DEF ProposalsNormal
<1>10. SavesAreFresh(Cl)'
  <2>1. \A d \in Cl : client[d].pc # "saving"
    BY <1>1, <1>6 DEF SavesAreFresh
  <2>2. \A d \in Cl : /\ client'[d].pc = "idle" => client'[d].restore = 0
                      /\ client'[d].pc = "saving" => save'.pc # "none" /\ save'.by = d
                      /\ client'[d].restore # 0 => client'[d].rev <= rev /\ (client'[d].rev = rev => client'[d].seen = cfg)
    <3> TAKE d \in Cl
    <3>1. CASE d = c
      BY <1>1, <1>3, <1>4, <3>1 DEF SavesAreFresh
    <3>2. CASE d # c
      BY <1>1, <1>3, <2>1, <3>2 DEF SavesAreFresh
    <3> QED BY <3>1, <3>2
  <2> QED BY <1>1, <1>2, <1>3, <1>4, <2>2 DEF SavesAreFresh
<1> QED BY <1>5, <1>7, <1>9, <1>10 DEF ConfigInv

(* A crash forgets who was doing what, and nothing else.                    *)
LEMMA DiesKeep ==
    ASSUME Cs!ConfigStoreConstants, NEW Cl, ConfigInv(Cl), Dies(Cl)
    PROVE  ConfigInv(Cl)'
<1>1. /\ StoreType(Cl) /\ HistoryKnown /\ ProposalsNormal(Cl) /\ FilesAgree /\ SavesAreFresh(Cl)
      /\ UNCHANGED <<cfg, rev, primary, lastGood, hist, saves, edits, inEffect>>
      /\ up' = FALSE /\ save' = Cs!NoSave /\ client' = [c \in Cl |-> Cs!IdleClient]
  BY DEF ConfigInv, Dies
<1>2. save'.pc = "none" /\ save'.pc \notin Installed /\ save'.next = Cs!NoVersion
  BY <1>1, StoreConstants
<1>3. StoreType(Cl)'
  BY <1>1, StoreConstants DEF StoreType
<1>4. HistoryKnown'
  BY <1>1, <1>2 DEF HistoryKnown
<1>5. ProposalsNormal(Cl)'
  BY <1>1, <1>2, StoreConstants DEF ProposalsNormal
<1>6. FilesAgree'
  BY <1>1, <1>2 DEF FilesAgree, Committed
<1>7. SavesAreFresh(Cl)'
  BY <1>1, <1>2, StoreConstants DEF SavesAreFresh
<1> QED BY <1>3, <1>4, <1>5, <1>6, <1>7 DEF ConfigInv

(* Whoever writes the files behind the service's back is counted.           *)
LEMMA MeddlesKeep ==
    ASSUME Cs!ConfigStoreConstants, NEW Cl, ConfigInv(Cl), Meddles
    PROVE  ConfigInv(Cl)'
<1>1. /\ StoreType(Cl) /\ HistoryKnown /\ ProposalsNormal(Cl) /\ FilesAgree /\ SavesAreFresh(Cl)
      /\ UNCHANGED <<up, cfg, rev, lastGood, save, client, saves>>
      /\ edits' = edits + 1 /\ primary' \in Config \cup {"broken", "absent"}
      /\ \/ hist' = hist /\ inEffect' = inEffect \cup {primary'}
         \/ hist' = [hist EXCEPT !.corrupt = TRUE] /\ UNCHANGED <<primary, inEffect>>
  BY DEF ConfigInv, Meddles
<1>2. /\ hist' \in HistRecords /\ hist'.versions = hist.versions /\ hist'.pending = hist.pending
      /\ primary' \in inEffect' /\ inEffect \subseteq inEffect' /\ edits' \in Nat /\ edits' # 0
  <2>1. hist \in HistRecords /\ edits \in Nat /\ primary \in inEffect
    BY <1>1 DEF StoreType, HistoryKnown
  <2>2. hist' \in HistRecords /\ hist'.versions = hist.versions /\ hist'.pending = hist.pending
    BY <1>1, <2>1 DEF HistRecords
  <2>3. primary' \in inEffect' /\ inEffect \subseteq inEffect'
    BY <1>1, <2>1
  <2>4. edits' \in Nat /\ edits' # 0
    BY <1>1, <2>1
  <2> QED BY <2>2, <2>3, <2>4
<1>3. StoreType(Cl)'
  BY <1>1, <1>2 DEF StoreType
<1>4. HistoryKnown'
  BY <1>1, <1>2 DEF HistoryKnown
<1>5. ProposalsNormal(Cl)' /\ FilesAgree' /\ SavesAreFresh(Cl)'
  BY <1>1, <1>2 DEF ProposalsNormal, FilesAgree, SavesAreFresh
<1> QED BY <1>3, <1>4, <1>5 DEF ConfigInv

(* The journal: the versions so far, the running configuration first when   *)
(* there are none, and the new one pending.                                 *)
LEMMA SaveJournalKeeps ==
    ASSUME Cs!ConfigStoreConstants, NEW Cl, ConfigInv(Cl), NEW moved \in BOOLEAN, NEW ok \in BOOLEAN, Cs!SaveJournal(moved, ok)
    PROVE  ConfigInv(Cl)'
<1> DEFINE old == IF hist.corrupt THEN <<>> ELSE Cs!readHistory
           base == IF old = <<>> THEN <<[id |-> save.next.id - 1, cfg |-> cfg]>> ELSE old
<1>1. /\ StoreType(Cl) /\ HistoryKnown /\ ProposalsNormal(Cl) /\ FilesAgree /\ SavesAreFresh(Cl)
      /\ UNCHANGED <<up, cfg, rev, primary, lastGood, saves, edits, inEffect>> /\ up /\ save.pc = "journal"
  BY DEF ConfigInv, Cs!SaveJournal
<1>2. /\ save.next \in Cs!Version /\ save.next.id # 0 /\ save.next.id \in Nat /\ save.next.cfg \in Config
      /\ cfg \in Config /\ cfg \in inEffect /\ hist \in HistRecords /\ HistoryLimit \in Nat \ {0} /\ save.pc \notin Installed
  BY <1>1 DEF StoreType, SaveRecords, Cs!Version, SavesAreFresh, HistoryKnown, Cs!ConfigStoreConstants, Installed
<1>3. /\ base \in Seq(Cs!Version) /\ Len(base) <= HistoryLimit /\ \A i \in 1..Len(base) : base[i].cfg \in inEffect
      /\ edits = 0 /\ primary # "absent" => base # <<>> /\ Normal[primary] = NewestOf(base).cfg
  <2>1. CASE old = <<>>
    <3> DEFINE first == [id |-> save.next.id - 1, cfg |-> cfg]
    <3>1. first \in Cs!Version /\ first.cfg = cfg
      BY <1>2 DEF Cs!Version
    <3>2. base = <<first>>
      BY <2>1
    <3> HIDE DEF first
    <3>3. <<first>> \in Seq(Cs!Version) /\ Len(<<first>>) = 1 /\ <<first>>[1] = first /\ <<first>> # <<>>
      BY <3>1
    <3>4. edits = 0 => cfg = Normal[primary]
      BY <1>1, <1>2 DEF FilesAgree
    <3> HIDE DEF base
    <3> QED BY <1>2, <3>1, <3>2, <3>3, <3>4 DEF NewestOf
  <2>2. CASE old # <<>>
    <3>1. base = Cs!readHistory /\ Cs!readHistory # <<>>
      BY <2>2
    <3> QED BY <3>1, ReadBack
  <2> QED BY <2>1, <2>2
<1> HIDE DEF base
<1>4. \/ /\ hist' = [corrupt |-> FALSE, versions |-> base, pending |-> save.next]
         /\ save' = [save EXCEPT !.pc = "primary"] /\ client' = client
      \/ Cs!Abandon /\ hist' = hist
      \/ Cs!Abandon /\ hist' = [corrupt |-> FALSE, versions |-> <<>>, pending |-> Cs!NoVersion] /\ hist.corrupt
  BY DEF Cs!SaveJournal, base
<1>5. CASE /\ hist' = [corrupt |-> FALSE, versions |-> base, pending |-> save.next]
           /\ save' = [save EXCEPT !.pc = "primary"] /\ client' = client
  <2>1. /\ save' \in SaveRecords(Cl) /\ save'.pc = "primary" /\ save'.next = save.next /\ save'.by = save.by /\ save'.pc \notin Installed
        /\ hist' \in HistRecords /\ hist'.versions = base /\ hist'.pending = save.next /\ ~hist'.corrupt
    BY <1>1, <1>2, <1>3, <1>5 DEF StoreType, SaveRecords, StorePhases, HistRecords, Installed
  <2>2. StoreType(Cl)'
    BY <1>1, <1>3, <1>5, <2>1 DEF StoreType
  <2>3. HistoryKnown'
    BY <1>1, <1>3, <2>1 DEF HistoryKnown
  <2>4. ProposalsNormal(Cl)'
    BY <1>1, <1>5, <2>1 DEF ProposalsNormal
  <2>5. FilesAgree'
    <3> SUFFICES ASSUME edits = 0 PROVE FilesAgree'
      BY <1>1 DEF FilesAgree
    <3>1. primary # "broken" /\ primary # "absent" /\ cfg = Normal[primary]
      BY <1>1, <1>2 DEF FilesAgree
    <3> QED BY <1>1, <1>3, <2>1, <3>1 DEF FilesAgree
  <2>6. SavesAreFresh(Cl)'
    BY <1>1, <1>5, <2>1 DEF SavesAreFresh
  <2> QED BY <2>2, <2>3, <2>4, <2>5, <2>6 DEF ConfigInv
<1>6. ASSUME Cs!Abandon PROVE /\ client' \in [Cl -> ClientRecords] /\ save' \in SaveRecords(Cl) /\ save' = Cs!NoSave
                              /\ \A c \in Cl : Normal[client'[c].cfg] = client'[c].cfg
                              /\ SavesAreFresh(Cl)'
  BY <1>1, <1>6, Abandoned DEF StoreType
<1>7. CASE Cs!Abandon /\ hist' = hist
  <2>1. save'.pc = "none" /\ save'.pc \notin Installed /\ save'.next = Cs!NoVersion
    BY <1>6, <1>7, StoreConstants
  <2>2. StoreType(Cl)'
    BY <1>1, <1>6, <1>7 DEF StoreType
  <2>3. HistoryKnown' /\ FilesAgree'
    BY <1>1, <1>2, <1>7, <2>1 DEF HistoryKnown, FilesAgree, Committed
  <2>4. ProposalsNormal(Cl)'
    BY <1>1, <1>6, <1>7, <2>1, StoreConstants DEF ProposalsNormal
  <2> QED BY <1>6, <1>7, <2>2, <2>3, <2>4 DEF ConfigInv
<1>8. CASE Cs!Abandon /\ hist' = [corrupt |-> FALSE, versions |-> <<>>, pending |-> Cs!NoVersion] /\ hist.corrupt
  <2>1. save'.pc = "none" /\ save'.pc \notin Installed /\ save'.next = Cs!NoVersion
    BY <1>6, <1>8, StoreConstants
  <2>2. hist' \in HistRecords /\ hist'.versions = <<>> /\ hist'.pending = Cs!NoVersion /\ Len(hist'.versions) = 0
    BY <1>8, StoreConstants DEF HistRecords
  <2>3. StoreType(Cl)'
    BY <1>1, <1>2, <1>6, <1>8, <2>2 DEF StoreType
  <2>4. HistoryKnown' /\ FilesAgree'
    BY <1>1, <1>8, <2>1, <2>2 DEF HistoryKnown, FilesAgree
  <2>5. ProposalsNormal(Cl)'
    BY <1>1, <1>6, <1>8, <2>1, <2>2, StoreConstants DEF ProposalsNormal
  <2> QED BY <1>6, <1>8, <2>3, <2>4, <2>5 DEF ConfigInv
<1> QED BY <1>4, <1>5, <1>7, <1>8

(* The primary: installed, or left as it was with the version pending.      *)
LEMMA SavePrimaryKeeps ==
    ASSUME Cs!ConfigStoreConstants, NEW Cl, ConfigInv(Cl), NEW ok \in BOOLEAN, Cs!SavePrimary(ok)
    PROVE  ConfigInv(Cl)'
<1>1. /\ StoreType(Cl) /\ HistoryKnown /\ ProposalsNormal(Cl) /\ FilesAgree /\ SavesAreFresh(Cl)
      /\ UNCHANGED <<up, cfg, rev, lastGood, hist, saves, edits>> /\ up /\ save.pc = "primary" /\ save.pc \notin Installed
  BY DEF ConfigInv, Cs!SavePrimary, Installed
<1>2. /\ save.next \in Cs!Version /\ save.next.id # 0 /\ save.next.cfg \in Config
  BY <1>1 DEF StoreType, SaveRecords, Cs!Version, SavesAreFresh
<1>3. CASE ok
  <2>1. /\ primary' = save.next.cfg /\ inEffect' = inEffect \cup {save.next.cfg} /\ save' = [save EXCEPT !.pc = "commit"] /\ client' = client
    BY <1>3 DEF Cs!SavePrimary
  <2>2. /\ save' \in SaveRecords(Cl) /\ save'.pc = "commit" /\ save'.next = save.next /\ save'.by = save.by /\ save'.pc \in Installed
    BY <1>1, <2>1 DEF StoreType, SaveRecords, StorePhases, Installed
  <2>3. StoreType(Cl)'
    BY <1>1, <1>2, <2>1, <2>2 DEF StoreType
  <2>4. HistoryKnown'
    BY <1>1, <2>1, <2>2 DEF HistoryKnown
  <2>5. ProposalsNormal(Cl)'
    BY <1>1, <2>1, <2>2 DEF ProposalsNormal
  <2>6. FilesAgree'
    <3> SUFFICES ASSUME edits = 0 PROVE FilesAgree'
      BY <1>1 DEF FilesAgree
    <3>1. ~hist.corrupt /\ hist.pending = save.next /\ primary' # "broken" /\ primary' # "absent"
      BY <1>1, <1>2, <2>1, StoreConstants DEF FilesAgree
    <3>2. Committed'
      BY <1>1, <1>2, <2>1, <3>1, StoreConstants DEF Committed
    <3> QED BY <1>1, <2>1, <2>2, <3>1, <3>2 DEF FilesAgree
  <2>7. SavesAreFresh(Cl)'
    BY <1>1, <2>1, <2>2 DEF SavesAreFresh
  <2> QED BY <2>3, <2>4, <2>5, <2>6, <2>7 DEF ConfigInv
<1>4. CASE ~ok
  <2>1. Cs!Abandon /\ UNCHANGED <<primary, inEffect>>
    BY <1>4 DEF Cs!SavePrimary
  <2>2. /\ client' \in [Cl -> ClientRecords] /\ save' \in SaveRecords(Cl) /\ save' = Cs!NoSave
        /\ \A c \in Cl : Normal[client'[c].cfg] = client'[c].cfg
        /\ SavesAreFresh(Cl)'
    BY <1>1, <2>1, Abandoned DEF StoreType
  <2>3. save'.pc = "none" /\ save'.pc \notin Installed /\ save'.next = Cs!NoVersion
    BY <2>2, StoreConstants
  <2>4. StoreType(Cl)'
    BY <1>1, <2>1, <2>2 DEF StoreType
  <2>5. HistoryKnown' /\ FilesAgree'
    BY <1>1, <2>1, <2>3 DEF HistoryKnown, FilesAgree, Committed
  <2>6. ProposalsNormal(Cl)'
    BY <1>1, <2>1, <2>2, <2>3, StoreConstants DEF ProposalsNormal
  <2> QED BY <2>2, <2>4, <2>5, <2>6 DEF ConfigInv
<1> QED BY <1>3, <1>4

(* The commit and the copy to last-good may fail: the pending entry stands  *)
(* for the version until the next save.                                     *)
LEMMA SaveRestKeeps ==
    ASSUME Cs!ConfigStoreConstants, NEW Cl, ConfigInv(Cl), NEW ok \in BOOLEAN, Cs!SaveCommit(ok) \/ Cs!SaveLastGood(ok)
    PROVE  ConfigInv(Cl)'
<1>1. /\ StoreType(Cl) /\ HistoryKnown /\ ProposalsNormal(Cl) /\ FilesAgree /\ SavesAreFresh(Cl)
      /\ UNCHANGED <<up, cfg, rev, primary, client, saves, edits, inEffect>> /\ up
      /\ save.pc \in Installed /\ save.pc # "none"
  BY DEF ConfigInv, Cs!SaveCommit, Cs!SaveLastGood, Installed
<1>2. /\ save.next \in Cs!Version /\ save.next.cfg \in Config /\ save.next.cfg \in inEffect /\ Normal[save.next.cfg] = save.next.cfg
      /\ hist \in HistRecords /\ hist.versions \in Seq(Cs!Version) /\ Len(hist.versions) \in Nat
  BY <1>1, LenProperties DEF StoreType, SaveRecords, Cs!Version, HistoryKnown, ProposalsNormal, HistRecords
<1>3. /\ save' \in SaveRecords(Cl) /\ save'.pc \in {"lastgood", "apply"} /\ save'.next = save.next /\ save'.by = save.by /\ save'.pc \in Installed
      /\ save'.pc \notin {"none", "primary", "commit"}
  BY <1>1 DEF Cs!SaveCommit, Cs!SaveLastGood, StoreType, SaveRecords, StorePhases, Installed
<1>4. ProposalsNormal(Cl)' /\ SavesAreFresh(Cl)' /\ lastGood' \in Config \cup {"absent"}
  <2>1. Normal[hist'.pending.cfg] = hist'.pending.cfg
    BY <1>1, <1>2, StoreConstants DEF Cs!SaveCommit, Cs!SaveLastGood, ProposalsNormal, HistRecords
  <2>2. lastGood' \in Config \cup {"absent"}
    BY <1>1, <1>2 DEF Cs!SaveCommit, Cs!SaveLastGood, StoreType
  <2>3. SavesAreFresh(Cl)'
    BY <1>1, <1>3 DEF SavesAreFresh
  <2> QED BY <1>1, <1>3, <2>1, <2>2, <2>3 DEF ProposalsNormal
<1>5. edits = 0 => primary = save.next.cfg /\ primary # "broken" /\ primary # "absent" /\ ~hist.corrupt
  BY <1>1, <1>2, StoreConstants DEF FilesAgree
<1>6. CASE hist' = hist
  <2>1. StoreType(Cl)' /\ HistoryKnown'
    BY <1>1, <1>3, <1>4, <1>6 DEF StoreType, HistoryKnown
  <2>2. FilesAgree'
    BY <1>1, <1>3, <1>5, <1>6 DEF FilesAgree, Committed
  <2> QED BY <1>4, <2>1, <2>2 DEF ConfigInv
<1>7. CASE hist' # hist
  <2> DEFINE vs == Append(hist.versions, save.next)
  <2>1. hist' = [hist EXCEPT !.corrupt = FALSE, !.pending = Cs!NoVersion, !.versions = Cs!Trim(vs)]
    BY <1>7 DEF Cs!SaveCommit, Cs!SaveLastGood
  <2>2. /\ vs \in Seq(Cs!Version) /\ Len(vs) = Len(hist.versions) + 1 /\ vs[Len(hist.versions) + 1] = save.next
        /\ \A i \in 1..Len(hist.versions) : vs[i] = hist.versions[i]
    BY <1>2, AppendProperties
  <2> HIDE DEF vs
  <2>3. NewestOf(vs) = save.next /\ vs # <<>> /\ \A i \in 1..Len(vs) : vs[i].cfg \in inEffect
    <3>1. vs # <<>> /\ NewestOf(vs) = save.next
      BY <1>2, <2>2 DEF NewestOf
    <3>2. \A i \in 1..Len(vs) : i \in 1..Len(hist.versions) \/ i = Len(hist.versions) + 1
      BY <1>2, <2>2
    <3> QED BY <1>1, <1>2, <2>2, <3>1, <3>2 DEF HistoryKnown
  <2> DEFINE t == Cs!Trim(vs)
  <2>4. /\ t \in Seq(Cs!Version) /\ Len(t) <= HistoryLimit /\ NewestOf(t) = save.next /\ \A i \in 1..Len(t) : t[i].cfg \in inEffect
    <3>1. /\ t \in Seq(Cs!Version) /\ Len(t) <= HistoryLimit /\ Len(t) \in Nat
          /\ \A i \in 1..Len(t) : \E j \in 1..Len(vs) : t[i] = vs[j]
          /\ vs # <<>> => t # <<>> /\ NewestOf(t) = NewestOf(vs)
      BY <2>2, Trimmed
    <3> HIDE DEF t
    <3> QED BY <2>3, <3>1
  <2> HIDE DEF t
  <2>5. hist' \in HistRecords /\ hist'.versions = t /\ hist'.pending = Cs!NoVersion /\ ~hist'.corrupt
    BY <1>2, <2>1, <2>4, StoreConstants DEF HistRecords, t
  <2>6. StoreType(Cl)'
    BY <1>1, <1>3, <1>4, <2>4, <2>5 DEF StoreType
  <2>7. HistoryKnown'
    BY <1>1, <1>2, <1>3, <2>4, <2>5 DEF HistoryKnown
  <2>8. FilesAgree'
    BY <1>1, <1>2, <1>3, <1>5, <2>4, <2>5 DEF FilesAgree
  <2> QED BY <1>4, <2>6, <2>7, <2>8 DEF ConfigInv
<1> QED BY <1>6, <1>7

(* Applying runs what was installed.                                        *)
LEMMA ApplyKeeps ==
    ASSUME Cs!ConfigStoreConstants, NEW Cl, ConfigInv(Cl), Cs!Apply
    PROVE  ConfigInv(Cl)'
<1>1. /\ StoreType(Cl) /\ HistoryKnown /\ ProposalsNormal(Cl) /\ FilesAgree /\ SavesAreFresh(Cl)
      /\ UNCHANGED <<up, primary, lastGood, hist, saves, edits, inEffect>> /\ up /\ save.pc = "apply"
      /\ save.pc \in Installed /\ save.pc # "none"
      /\ cfg' = save.next.cfg /\ rev' = rev + 1 /\ Cs!Abandon
  BY DEF ConfigInv, Cs!Apply, Installed
<1>2. save.next.cfg \in Config /\ save.next.cfg \in inEffect /\ Normal[save.next.cfg] = save.next.cfg /\ rev' \in Nat
  BY <1>1 DEF StoreType, SaveRecords, Cs!Version, HistoryKnown, ProposalsNormal
<1>3. /\ client' \in [Cl -> ClientRecords] /\ save' \in SaveRecords(Cl) /\ save' = Cs!NoSave
      /\ \A c \in Cl : Normal[client'[c].cfg] = client'[c].cfg
      /\ SavesAreFresh(Cl)'
  BY <1>1, <1>2, Abandoned
<1>4. save'.pc = "none" /\ save'.pc \notin Installed /\ save'.next = Cs!NoVersion
  BY <1>3, StoreConstants
<1>5. StoreType(Cl)'
  BY <1>1, <1>2, <1>3 DEF StoreType
<1>6. HistoryKnown'
  BY <1>1, <1>2, <1>4 DEF HistoryKnown
<1>7. FilesAgree'
  BY <1>1, <1>2, <1>4 DEF FilesAgree, Committed
<1>8. ProposalsNormal(Cl)'
  BY <1>1, <1>3, <1>4, StoreConstants DEF ProposalsNormal
<1> QED BY <1>3, <1>5, <1>6, <1>7, <1>8 DEF ConfigInv

(* Every step of the store keeps the invariant.                             *)
LEMMA StoreKeeps ==
    ASSUME Cs!ConfigStoreConstants, NEW Cl, ConfigInv(Cl), StoreStep(Cl) \/ UNCHANGED configVars
    PROVE  ConfigInv(Cl)'
<1>1. CASE UNCHANGED configVars
  BY <1>1 DEF configVars, ConfigInv, StoreType, HistoryKnown, ProposalsNormal, FilesAgree, Committed, SavesAreFresh
<1>2. ASSUME Saves PROVE ConfigInv(Cl)'
  <2>1. ASSUME NEW moved \in BOOLEAN, NEW ok \in BOOLEAN, Cs!SaveJournal(moved, ok) PROVE ConfigInv(Cl)'
    BY <2>1, SaveJournalKeeps
  <2>2. ASSUME NEW ok \in BOOLEAN, Cs!SavePrimary(ok) \/ Cs!SaveCommit(ok) \/ Cs!SaveLastGood(ok) PROVE ConfigInv(Cl)'
    BY <2>2, SavePrimaryKeeps, SaveRestKeeps
  <2> QED BY <1>2, <2>1, <2>2, ApplyKeeps, Zenon DEF Saves
<1> QED BY <1>1, <1>2, LoadKeeps, AsksKeep, BeginsKeep, DiesKeep, MeddlesKeep DEF StoreStep

-----------------------------------------------------------------------------
(* What the invariant says of the history, the files and the restores.      *)

(* The history is of what was in force, and while nobody else writes the    *)
(* files its newest version and the primary are what runs.                  *)
LEMMA KeptAndCurrent ==
    ASSUME NEW Cl
    PROVE  ConfigInv(Cl) /\ Cs!ConfigStoreConstants => Cs!HistoryIsTrue /\ Cs!NewestIsCurrent /\ Cs!RunningIsPersisted
<1> SUFFICES ASSUME ConfigInv(Cl), Cs!ConfigStoreConstants PROVE Cs!HistoryIsTrue /\ Cs!NewestIsCurrent /\ Cs!RunningIsPersisted
  OBVIOUS
<1>1. Cs!HistoryIsTrue
  BY ReadBack DEF Cs!HistoryIsTrue
<1>2. Cs!Lock /\ edits = 0 => primary \in Config /\ cfg = Normal[primary]
  <2>1. Cs!Lock => up /\ save.pc \notin Installed
    BY StoreConstants DEF Cs!Lock, Installed
  <2> QED BY <2>1 DEF ConfigInv, FilesAgree, StoreType
<1>3. Cs!NewestIsCurrent
  BY <1>2, ReadBack DEF Cs!NewestIsCurrent, NewestOf
<1>4. Cs!RunningIsPersisted
  BY <1>2 DEF Cs!RunningIsPersisted, Cs!Usable
<1> QED BY <1>1, <1>3, <1>4

(* A restore is applied to the configuration its preview was shown for.     *)
LEMMA RestoresAreFresh ==
    ASSUME Cs!ConfigStoreConstants, ConfigInv({"u1", "u2"}), StoreStep({"u1", "u2"}) \/ UNCHANGED configVars
    PROVE  Cr!RestoreIsFresh
<1> SUFFICES ASSUME NEW c \in {"u1", "u2"}, save.pc = "apply", save'.pc = "none", up', save.by = c, client[c].restore # 0
             PROVE  cfg = client[c].seen /\ cfg' = client[c].cfg
  BY DEF Cr!RestoreIsFresh
<1>1. up /\ save # Cs!NoSave /\ save' # save
  BY StoreConstants DEF ConfigInv, SavesAreFresh, StoreType
<1>2. Cs!Apply
  <2>1. ~Cs!Load /\ ~Asks({"u1", "u2"}) /\ ~Begins({"u1", "u2"}) /\ ~Meddles /\ ~UNCHANGED configVars
    BY <1>1 DEF Cs!Load, Asks, Begins, Meddles, configVars
  <2>2. ~Dies({"u1", "u2"})
    BY DEF Dies
  <2>3. \A moved, ok \in BOOLEAN : ~Cs!SaveJournal(moved, ok)
    BY DEF Cs!SaveJournal
  <2>4. \A ok \in BOOLEAN : ~Cs!SavePrimary(ok) /\ ~Cs!SaveCommit(ok) /\ ~Cs!SaveLastGood(ok)
    BY DEF Cs!SavePrimary, Cs!SaveCommit, Cs!SaveLastGood
  <2> QED BY <2>1, <2>2, <2>3, <2>4 DEF StoreStep, Saves
<1>3. cfg' = save.next.cfg
  BY <1>2 DEF Cs!Apply
<1>4. save.next.cfg = client[c].cfg /\ client[c].rev = rev /\ (client[c].rev = rev => client[c].seen = cfg)
  BY DEF ConfigInv, SavesAreFresh
<1> QED BY <1>3, <1>4

\* The part "config" keeps to the bounds of its instance.
ConfigBounds == saves \in 0..MaxSaves /\ edits \in 0..MaxEdits /\ crashes \in 0..MaxCrashes

(* No step passes a bound.                                                  *)
LEMMA BoundsKept ==
    ASSUME Cs!ConfigStoreConstants, ConfigBounds, Cs!Next \/ UNCHANGED configVars
    PROVE  ConfigBounds'
<1>1. MaxSaves \in Nat /\ MaxEdits \in Nat /\ MaxCrashes \in Nat
  BY DEF Cs!ConfigStoreConstants
<1> DEFINE Same == UNCHANGED <<saves, edits, crashes>>
<1>2. Cs!Load \/ Cs!Apply \/ UNCHANGED configVars => Same
  BY DEF Cs!Load, Cs!Apply, configVars
<1>3. (Cs!Crash => crashes < MaxCrashes /\ crashes' = crashes + 1 /\ UNCHANGED <<saves, edits>>)
      /\ (Cs!CorruptHistory => edits < MaxEdits /\ edits' = edits + 1 /\ UNCHANGED <<saves, crashes>>)
  BY DEF Cs!Crash, Cs!CorruptHistory
<1>4. \A content : Cs!Edit(content) => edits < MaxEdits /\ edits' = edits + 1 /\ UNCHANGED <<saves, crashes>>
  BY DEF Cs!Edit
<1>5. \A c, x : Cs!Propose(c, x) \/ Cs!Preview(c, x) \/ Cs!Restore(c) => Same
  BY DEF Cs!Propose, Cs!Preview, Cs!Restore
<1>6. \A c : Cs!Begin(c) => saves < MaxSaves /\ (saves' = saves + 1 \/ saves' = saves) /\ UNCHANGED <<edits, crashes>>
  BY DEF Cs!Begin
<1>7. \A moved, ok : Cs!SaveJournal(moved, ok) \/ Cs!SavePrimary(ok) \/ Cs!SaveCommit(ok) \/ Cs!SaveLastGood(ok) => Same
  BY DEF Cs!SaveJournal, Cs!SavePrimary, Cs!SaveCommit, Cs!SaveLastGood
<1>8. \/ Same
      \/ crashes < MaxCrashes /\ crashes' = crashes + 1 /\ UNCHANGED <<saves, edits>>
      \/ edits < MaxEdits /\ edits' = edits + 1 /\ UNCHANGED <<saves, crashes>>
      \/ saves < MaxSaves /\ (saves' = saves + 1 \/ saves' = saves) /\ UNCHANGED <<edits, crashes>>
  <2>1. CASE Cs!Next
    BY <1>2, <1>3, <1>4, <1>5, <1>6, <1>7, <2>1, Zenon DEF Cs!Next
  <2>2. CASE UNCHANGED configVars
    BY <1>2, <2>2
  <2> QED BY <2>1, <2>2
<1> QED BY <1>1, <1>8 DEF ConfigBounds

(* The types follow.                                                        *)
LEMMA ConfigTyped ==
    ConfigInv(Client) /\ ConfigBounds => Cs!TypeOK
<1> SUFFICES ASSUME ConfigInv(Client), ConfigBounds PROVE Cs!TypeOK
  OBVIOUS
<1>1. StoreType(Client)
  BY DEF ConfigInv
<1>2. hist.corrupt \in BOOLEAN /\ hist.pending \in Cs!Version /\ hist.versions \in Seq(Cs!Version) /\ Len(hist.versions) <= HistoryLimit
  BY <1>1 DEF StoreType, HistRecords
<1>3. save.pc \in StorePhases /\ save.next \in Cs!Version /\ \A c \in Client : client[c].pc \in {"idle", "previewed", "validated", "saving"}
  BY <1>1 DEF StoreType, SaveRecords, ClientRecords
<1> QED BY <1>1, <1>2, <1>3 DEF Cs!TypeOK, StoreType, StorePhases, ConfigBounds

ConfigPartInv ==
    /\ part = "config" => ConfigInv(Client) /\ ConfigBounds
    /\ part = "restore" => ConfigInv({"u1", "u2"})

(* Both parts start and stay as the invariant says.                         *)
LEMMA ConfigPartsKept ==
    /\ Init => ConfigPartInv
    /\ ConfigPartInv /\ [Next]_vars => ConfigPartInv' /\ (part = "restore" => Cr!RestoreIsFresh) /\ part' = part
<1>0. Cs!ConfigStoreConstants
  BY ConstantsAssumption
<1>1. ASSUME Init PROVE ConfigPartInv
  <2>1. ASSUME part = "config" PROVE ConfigInv(Client) /\ ConfigBounds
    <3>1. Cs!Init
      BY <1>1, <2>1 DEF Init
    <3>2. lastGood \in Config \cup {"absent"} /\ primary \in Config \cup {"absent"}
      BY <3>1 DEF Cs!Init
    <3>3. ConfigInv(Client)
      BY <1>0, <3>1, <3>2, StoreStarts DEF Cs!Init
    <3> QED BY <1>0, <3>1, <3>3 DEF Cs!Init, ConfigBounds, Cs!ConfigStoreConstants
  <2>2. ASSUME part = "restore" PROVE ConfigInv({"u1", "u2"})
    <3>1. Cr!Init
      BY <1>1, <2>2 DEF Init
    <3>2. /\ primary \in Config \cup {"absent"} /\ lastGood \in Config \cup {"absent"} /\ up = FALSE /\ cfg = Default /\ rev = 0
          /\ hist = [corrupt |-> FALSE, versions |-> <<>>, pending |-> Cs!NoVersion]
          /\ save = Cs!NoSave /\ client = [c \in {"u1", "u2"} |-> Cs!IdleClient] /\ saves = 0 /\ edits = 0 /\ inEffect = {primary}
      BY <3>1 DEF Cr!Init, Cr!NoVersion, Cs!NoVersion, Cr!NoSave, Cs!NoSave, Cr!IdleClient, Cs!IdleClient
    <3> QED BY <1>0, <3>2, StoreStarts
  <2> QED BY <2>1, <2>2 DEF ConfigPartInv
<1>2. ASSUME ConfigPartInv, [Next]_vars PROVE ConfigPartInv' /\ (part = "restore" => Cr!RestoreIsFresh) /\ part' = part
  <2>1. part' = part
    BY <1>2 DEF Next, CsMoves, BrMoves, HkMoves, AcMoves, CrMoves, ArMoves, AsMoves, AaMoves, vars
  <2>2. ASSUME part = "config" PROVE ConfigInv(Client)' /\ ConfigBounds'
    <3>1. Cs!Next \/ UNCHANGED configVars
      BY <1>2, <2>2 DEF Next, CsMoves, BrMoves, HkMoves, AcMoves, CrMoves, ArMoves, AsMoves, AaMoves, vars
    <3>2. ConfigInv(Client) /\ ConfigBounds
      BY <1>2, <2>2 DEF ConfigPartInv
    <3>3. StoreStep(Client) \/ UNCHANGED configVars
      BY <1>0, <3>1, <3>2, ConfigSteps
    <3> QED BY <1>0, <3>1, <3>2, <3>3, StoreKeeps, BoundsKept
  <2>3. ASSUME part = "restore" PROVE ConfigInv({"u1", "u2"})' /\ Cr!RestoreIsFresh
    <3>1. Cr!Next \/ UNCHANGED configVars
      BY <1>2, <2>3 DEF Next, CsMoves, BrMoves, HkMoves, AcMoves, CrMoves, ArMoves, AsMoves, AaMoves, vars
    <3>2. ConfigInv({"u1", "u2"})
      BY <1>2, <2>3 DEF ConfigPartInv
    <3>3. StoreStep({"u1", "u2"}) \/ UNCHANGED configVars
      BY <1>0, <3>1, <3>2, RestoreSteps
    <3> QED BY <1>0, <3>2, <3>3, StoreKeeps, RestoresAreFresh
  <2>4. ConfigPartInv'
    BY <2>1, <2>2, <2>3 DEF ConfigPartInv
  <2> QED BY <2>1, <2>3, <2>4
<1> QED BY <1>1, <1>2

(* What holds of a part that is as the invariant says.                      *)
LEMMA ConfigPartMeans ==
    ConfigPartInv =>
        /\ part = "config" => Cs!TypeOK
        /\ part \in {"config", "restore"} => Cs!HistoryIsTrue /\ Cs!NewestIsCurrent /\ Cs!RunningIsPersisted
<1>1. Cs!ConfigStoreConstants
  BY ConstantsAssumption
<1> QED BY <1>1, ConfigTyped, KeptAndCurrent DEF ConfigPartInv

(* Whatever write fails and wherever the service dies: the history lists    *)
(* only configurations that were in force and no more than its limit, a     *)
(* restore replaces exactly the configuration its preview showed, and,      *)
(* unless someone else wrote the files, the newest entry and the primary    *)
(* are what runs between two saves (Save, Load, RestoreConfig).             *)
THEOREM ConfigurationKept == Spec => ConfigurationIsKept
<1>1. ConfigPartInv' =>
        (/\ part = "config" => Cs!TypeOK
         /\ part \in {"config", "restore"} => Cs!HistoryIsTrue /\ Cs!NewestIsCurrent /\ Cs!RunningIsPersisted)'
  BY ConfigPartMeans, PTL
<1>2. ConfigPartInv /\ [Next]_vars =>
        /\ ConfigPartInv'
        /\ part = "config" => Cs!TypeOK'
        /\ part \in {"config", "restore"} => (Cs!HistoryIsTrue /\ Cs!NewestIsCurrent /\ Cs!RunningIsPersisted)'
        /\ part = "restore" => Cr!RestoreIsFresh
  BY <1>1, ConfigPartsKept
<1> QED BY <1>2, ConfigPartsKept, PTL DEF Spec, ConfigurationIsKept

-----------------------------------------------------------------------------
(* The management interface.                                               *)

RouteNames == {"status", "config", "put", "apps", "mode", "action", "report", "codes", "redeem"}
Principals == {"none", "management", "agent", "inference", "bad", "session", "invalid"}
Settings == [trust : BOOLEAN, apps : 0..1]

\* Any request with codes of a set C, and what is kept of one being served.
Query(C) ==
    {q \in [route : RouteNames, cred : [kind : Principals, token : Nat], loopback : BOOLEAN, localHost : BOOLEAN,
            from : {"native", "page", "other_page"}, json : BOOLEAN,
            arg : C \cup BOOLEAN \cup {"pause", "auto", "ai_priority", "none"}] :
        /\ q.route = "mode" => q.arg \in {"pause", "auto", "ai_priority"}
        /\ q.route = "put" => q.arg \in BOOLEAN
        /\ q.route \in {"codes", "redeem"} => q.arg \in C}
Served(C) == [stage : {"handle", "apply"}, q : Query(C), seen : Settings, valid : Principals]

\* What a principal may ask for: the route table and the loopback rule.
Allowed(q, p) ==
    /\ p \in {"invalid", q.cred.kind}
    /\ q.route # "redeem" =>
          \/ p = "management"
          \/ p = "session" /\ Ac!trustedLoopback(q)
          \/ p = "agent" /\ q.route \in {"status", "mode", "report"}
          \/ /\ p = "none" /\ Ac!trustedLoopback(q)
             /\ q.route \in {"status", "config"} \/ (q.route = "mode" /\ q.json /\ q.from # "other_page")

\* The steps of every instance, whatever its requests R and its codes C.
Arrives(r, C) ==
    /\ req[r] = Ac!Idle /\ last' = Ac!NoEffect /\ UNCHANGED <<apiCfg, apiRev>>
    /\ \E q \in Query(C), p \in Principals :
          /\ req' = [req EXCEPT ![r] = [stage |-> "handle", q |-> q, seen |-> apiCfg, valid |-> p]]
          /\ Allowed(q, p) /\ (p = "session" => now < sessions[q.cred.token])

Reads(r) ==
    /\ req[r].stage = "handle" /\ req[r].q.route = "apps" /\ last' = Ac!NoEffect /\ UNCHANGED <<apiCfg, apiRev>>
    /\ req' = [req EXCEPT ![r].stage = "apply", ![r].seen = apiCfg]

TakesEffect(r) ==
    /\ last'.route = req[r].q.route /\ last'.q = req[r].q /\ last'.valid = req[r].valid
    /\ last'.route = "mode" => req[r].q.cred.kind # "none" \/ req[r].q.arg # "ai_priority"
    /\ last'.route = "codes" => req[r].q.cred.kind = "management"

Ends(r) ==
    /\ req[r].stage # "idle" /\ req' = [req EXCEPT ![r] = Ac!Idle]
    /\ last' = Ac!NoEffect \/ TakesEffect(r)
    /\ \/ UNCHANGED <<apiCfg, apiRev>>
       \/ /\ req[r].stage = "handle" /\ req[r].q.route = "put"
          /\ apiCfg' = [apiCfg EXCEPT !.trust = req[r].q.arg] /\ apiRev' = apiRev + 1
       \/ /\ req[r].stage = "apply"
          /\ apiCfg' = [req[r].seen EXCEPT !.apps = 1 - apiCfg.apps] /\ apiRev' = apiRev + 1

Rests == req' = req /\ last' = Ac!NoEffect /\ UNCHANGED <<apiCfg, apiRev>>

\* How a redemption counts: a new window forgets the failures of the last.
Counted ==
    LET over == now - failFrom > Window
        f    == IF over THEN 0 ELSE failures
    IN /\ failFrom' = IF over THEN now ELSE failFrom
       /\ \/ failures' = f /\ misses' = misses
          \/ f < MaxRedeemFailure /\ failures' = f + 1 /\ misses' = misses \cup {<<now, Cardinality(misses)>>}

Counts ==
    \/ now' \in {now, now + 1} /\ UNCHANGED <<failures, failFrom, misses>>
    \/ now' = now /\ Counted

AccessStep(R, C) == Counts /\ (Rests \/ \E r \in R : Arrives(r, C) \/ Reads(r) \/ Ends(r))

-----------------------------------------------------------------------------
(* The invariant of the interface.                                          *)

AccessType(R, C) ==
    /\ now \in Nat \ {0} /\ apiCfg \in Settings /\ apiRev \in Nat /\ failures \in Nat /\ failFrom \in Nat
    /\ req \in [R -> {Ac!Idle} \cup Served(C)]
    /\ misses \subseteq Nat \X Nat /\ IsFiniteSet(misses)

\* Whoever is being served was allowed in, and so was what took effect.
ServedAllowed(R) ==
    \A r \in R : /\ req[r].stage # "idle" => Allowed(req[r].q, req[r].valid)
                 /\ req[r].stage = "apply" => req[r].q.route = "apps"

EffectAllowed(C) ==
    last.route # "none" =>
        /\ last.q \in Query(C) /\ last.route = last.q.route /\ Allowed(last.q, last.valid)
        /\ last.route = "mode" => last.q.cred.kind # "none" \/ last.q.arg # "ai_priority"
        /\ last.route = "codes" => last.q.cred.kind = "management"

\* The failures ms, n of them counted since from, at the time at: how many
\* there are in the window being counted, the one before and any other.
MissesIn(ms, a, b) == {m \in ms : m[1] \in a..b}
Limited(ms, n, from, at) ==
    /\ n <= MaxRedeemFailure /\ n <= Cardinality(ms) /\ from <= at
    /\ \A m \in ms : m[1] <= from + Window /\ m[1] <= at /\ m[2] < Cardinality(ms)
    /\ Cardinality(MissesIn(ms, from, from + Window)) <= n
    /\ Cardinality(MissesIn(ms, from - Window, from - 1)) <= MaxRedeemFailure
    /\ \A t \in Int : Cardinality(MissesIn(ms, t, t + Window)) <= 2 * MaxRedeemFailure

AccessInv(R, C) ==
    AccessType(R, C) /\ ServedAllowed(R) /\ EffectAllowed(C) /\ Limited(misses, failures, failFrom, now)

(* The instances count alike.                                               *)
LEMMA SameCounts ==
    \A S : /\ Ac!Cardinality(S) = Cardinality(S) /\ Ar!Cardinality(S) = Cardinality(S)
           /\ As!Cardinality(S) = Cardinality(S) /\ Aa!Cardinality(S) = Cardinality(S)
  BY DEF Ac!Cardinality, Ar!Cardinality, As!Cardinality, Aa!Cardinality, Cardinality

(* The steps of the part "signin" are such steps.                              *)
LEMMA SigninSteps ==
    ASSUME Ac!AccessConstants, AccessType(Requests, Codes), ServedAllowed(Requests), Ac!Next
    PROVE  AccessStep(Requests, Codes)
<1>1. /\ now \in Nat /\ failures \in Nat /\ failFrom \in Nat /\ Window \in Nat /\ MaxRedeemFailure \in Nat
      /\ req \in [Requests -> {Ac!Idle} \cup Served(Codes)] /\ apiCfg \in Settings /\ apiRev \in Nat
  BY DEF AccessType, Ac!AccessConstants
<1>2. \A r \in Requests :
        /\ req[r].stage = "idle" => req[r] = Ac!Idle
        /\ req[r].stage # "idle" => req[r] \in Served(Codes)
  BY <1>1 DEF Ac!Idle, Served
<1>3. Ac!Idle = Ac!Idle /\ Ac!NoEffect = Ac!NoEffect
  BY DEF Ac!Idle, Ac!Idle, Ac!NoEffect, Ac!NoEffect
<1>4. ASSUME NEW r \in Requests, NEW route \in Offered, NEW q \in Ac!Request(route), Ac!Arrive(r, q)
      PROVE  Counts /\ Arrives(r, Codes)
  <2> DEFINE p == Ac!Identify(q.cred)
  <2>1. q.route = route /\ q.route \in RouteNames
    BY DEF Ac!Request, RouteNames, Ac!AccessConstants
  <2>2. q.cred \in [kind : Principals, token : Nat]
    <3>1. q.cred \in Ac!Creds
      BY DEF Ac!Request
    <3> QED BY <3>1 DEF Ac!Creds, Ac!Kinds, Ac!Tokens, Principals
  <2>3. /\ q.arg \in Ac!Arg(route) /\ q = [route |-> q.route, cred |-> q.cred, loopback |-> q.loopback, localHost |-> q.localHost,
                                          from |-> q.from, json |-> q.json, arg |-> q.arg]
        /\ q.loopback \in BOOLEAN /\ q.localHost \in BOOLEAN /\ q.from \in {"native", "page", "other_page"} /\ q.json \in BOOLEAN
    BY DEF Ac!Request
  <2>4. /\ q.arg \in Codes \cup BOOLEAN \cup {"pause", "auto", "ai_priority", "none"}
        /\ route = "mode" => q.arg \in {"pause", "auto", "ai_priority"}
        /\ route = "put" => q.arg \in BOOLEAN
        /\ route \in {"codes", "redeem"} => q.arg \in Codes
    BY <2>1, <2>3 DEF Ac!Arg, RouteNames
  <2>5. q \in Query(Codes)
    BY <2>1, <2>2, <2>3, <2>4 DEF Query
  <2>6. p \in {"invalid", q.cred.kind} /\ p \in Principals /\ (p = "session" => now < sessions[q.cred.token])
    BY <2>2 DEF Ac!Identify, Ac!Live, Principals
  <2>7. Ac!Authorize(q) /\ Ac!trustedLoopback(q) = Ac!trustedLoopback(q)
    BY <1>4 DEF Ac!Arrive, Ac!trustedLoopback, Ac!trustedLoopback
  <2>8. /\ Ac!Routes[q.route].access = CASE q.route \in {"status", "config"} -> "read" [] q.route = "mode" -> "mode"
                                          [] q.route = "redeem" -> "local" [] OTHER -> "write"
        /\ Ac!Routes[q.route].agent => q.route \in {"status", "mode", "report"}
    BY <2>1 DEF Ac!Routes, RouteNames
  <2>9. Allowed(q, p)
    BY <2>6, <2>7, <2>8 DEF Allowed, Ac!Authorize, Ac!localWriteBarrier
  <2>10. req' = [req EXCEPT ![r] = [stage |-> "handle", q |-> q, seen |-> apiCfg, valid |-> p]]
    BY <1>4 DEF Ac!Arrive
  <2>11. req[r] = Ac!Idle /\ last' = Ac!NoEffect /\ UNCHANGED <<apiCfg, apiRev>> /\ Counts
    BY <1>2, <1>3, <1>4 DEF Ac!Arrive, Counts
  <2> HIDE DEF p
  <2> QED BY <2>5, <2>6, <2>9, <2>10, <2>11 DEF Arrives
<1>5. ASSUME NEW r \in Requests, Ac!putApplications(r) PROVE Counts /\ Reads(r)
  BY <1>3, <1>5 DEF Ac!putApplications, Ac!At, Counts, Reads
<1>6. ASSUME NEW r \in Requests, Ac!Reject(r) PROVE Counts /\ Ends(r)
  BY <1>3, <1>6 DEF Ac!Reject, Ac!Done, Counts, Ends
<1>7. ASSUME NEW r \in Requests, Ac!Answer(r) PROVE Counts /\ Ends(r)
  <2>1. req[r].stage = "handle" /\ req[r].q.route \in {"status", "config", "action", "report"}
    BY <1>7 DEF Ac!Answer, Ac!At
  <2> QED BY <1>3, <1>7, <2>1 DEF Ac!Answer, Ac!Done, Ac!Takes, Counts, Ends, TakesEffect
<1>8. ASSUME NEW r \in Requests, Ac!putConfig(r) PROVE Counts /\ Ends(r)
  BY <1>3, <1>8 DEF Ac!putConfig, Ac!At, Ac!Done, Ac!Takes, Counts, Ends, TakesEffect
<1>9. ASSUME NEW r \in Requests, Ac!applyApplications(r) PROVE Counts /\ Ends(r)
  <2>1. req[r].stage = "apply" /\ req[r].q.route = "apps"
    BY <1>9 DEF Ac!applyApplications, ServedAllowed
  <2>2. last'.route = "apps" /\ last'.q = req[r].q /\ last'.valid = req[r].valid
    BY <1>9 DEF Ac!applyApplications, Ac!Takes
  <2>3. TakesEffect(r)
    BY <2>1, <2>2 DEF TakesEffect
  <2> QED BY <1>3, <1>9, <2>1, <2>3 DEF Ac!applyApplications, Ac!Done, Counts, Ends
<1>10. ASSUME NEW r \in Requests, Ac!putMode(r) PROVE Counts /\ Ends(r)
  <2>1. req[r].stage = "handle" /\ req[r].q.route = "mode" /\ last' = Ac!Takes(r, Ac!Identify(req[r].q.cred))
        /\ ~(Ac!Identify(req[r].q.cred) = "none" /\ req[r].q.arg = "ai_priority")
    BY <1>10 DEF Ac!putMode, Ac!At
  <2>2. req[r].q.cred.kind = "none" => Ac!Identify(req[r].q.cred) = "none"
    BY DEF Ac!Identify
  <2>3. last'.route = "mode" /\ last'.q = req[r].q /\ last'.valid = req[r].valid
    BY <2>1 DEF Ac!Takes
  <2>4. TakesEffect(r)
    BY <2>1, <2>2, <2>3 DEF TakesEffect
  <2> QED BY <1>3, <1>10, <2>1, <2>4 DEF Ac!putMode, Ac!Done, Counts, Ends
<1>11. ASSUME NEW r \in Requests, Ac!registerSignIn(r) PROVE Counts /\ Ends(r)
  <2>1. req[r].stage = "handle" /\ req[r].q.route = "codes" /\ last' = Ac!Takes(r, "") /\ req[r].q.cred.kind = "management"
    BY <1>11 DEF Ac!registerSignIn, Ac!At, Ac!Identify
  <2>2. TakesEffect(r)
    BY <2>1 DEF TakesEffect, Ac!Takes
  <2> QED BY <1>3, <1>11, <2>1, <2>2 DEF Ac!registerSignIn, Ac!Done, Counts, Ends
<1>12. ASSUME NEW r \in Requests, Ac!redeemSignIn(r) PROVE Counts /\ Ends(r)
  <2>1. req[r].stage = "handle" /\ req[r].q.route = "redeem" /\ last' = Ac!Takes(r, "") /\ now' = now
    BY <1>12 DEF Ac!redeemSignIn, Ac!At
  <2>2. TakesEffect(r)
    BY <2>1 DEF TakesEffect, Ac!Takes
  <2> DEFINE over == now - failFrom > Window
             f    == IF over THEN 0 ELSE failures
  <2>3. /\ failFrom' = IF over THEN now ELSE failFrom
        /\ \/ failures' = f /\ misses' = misses
           \/ ~(f >= MaxRedeemFailure) /\ failures' = f + 1 /\ misses' = misses \cup {<<now, Cardinality(misses)>>}
    <3>1. Ac!Redeem(req[r].q.arg)
      BY <1>12 DEF Ac!redeemSignIn
    <3>2. CASE f >= MaxRedeemFailure
      BY <3>1, <3>2 DEF Ac!Redeem
    <3>3. CASE ~(f >= MaxRedeemFailure)
      <4>1. CASE req[r].q.arg \in Ac!Pending
        BY <3>1, <3>3, <4>1 DEF Ac!Redeem
      <4>2. CASE req[r].q.arg \notin Ac!Pending
        <5>1. failFrom' = IF over THEN now ELSE failFrom
          BY <3>1 DEF Ac!Redeem
        <5>2. failures' = f + 1
          BY <3>1, <3>3, <4>2 DEF Ac!Redeem
        <5>3. misses' = misses \cup {<<now, Cardinality(misses)>>}
          BY SameCounts, <3>1, <3>3, <4>2 DEF Ac!Redeem
        <5> QED BY <3>3, <5>1, <5>2, <5>3
      <4> QED BY <4>1, <4>2
    <3> QED BY <3>2, <3>3
  <2>4. f \in Nat
    BY <1>1
  <2> HIDE DEF f
  <2>5. ~(f >= MaxRedeemFailure) <=> f < MaxRedeemFailure
    BY <1>1, <2>4
  <2>6. Counted
    BY <2>3, <2>5 DEF Counted, f
  <2> QED BY <1>3, <1>12, <2>1, <2>2, <2>6 DEF Ac!redeemSignIn, Ac!Done, Counts, Ends
<1>13. (\E t \in Ac!Tokens : Ac!Refuse(t)) \/ Ac!Tick => Counts /\ Rests
  BY <1>3 DEF Ac!Refuse, Ac!Tick, Counts, Rests
<1>14. ASSUME \E r \in Requests, route \in Offered : \E q \in Ac!Request(route) : Ac!Arrive(r, q) PROVE AccessStep(Requests, Codes)
  BY <1>4, <1>14, Zenon DEF AccessStep
<1>15. ASSUME NEW r \in Requests,
              \/ Ac!Reject(r) \/ Ac!Answer(r) \/ Ac!putConfig(r) \/ Ac!putApplications(r) \/ Ac!applyApplications(r)
              \/ Ac!putMode(r) \/ Ac!registerSignIn(r) \/ Ac!redeemSignIn(r)
       PROVE  AccessStep(Requests, Codes)
  BY <1>5, <1>6, <1>7, <1>8, <1>9, <1>10, <1>11, <1>12, <1>15, Zenon DEF AccessStep
<1> QED BY <1>13, <1>14, <1>15, Zenon DEF Ac!Next, AccessStep

(* The steps of the part "rights" are such steps.                              *)
LEMMA RightsSteps ==
    ASSUME Ac!AccessConstants, AccessType(Requests, {"c1"}), ServedAllowed(Requests), Ar!Next
    PROVE  AccessStep(Requests, {"c1"})
<1>1. /\ now \in Nat /\ failures \in Nat /\ failFrom \in Nat /\ Window \in Nat /\ MaxRedeemFailure \in Nat
      /\ req \in [Requests -> {Ac!Idle} \cup Served({"c1"})] /\ apiCfg \in Settings /\ apiRev \in Nat
  BY DEF AccessType, Ac!AccessConstants
<1>2. \A r \in Requests :
        /\ req[r].stage = "idle" => req[r] = Ac!Idle
        /\ req[r].stage # "idle" => req[r] \in Served({"c1"})
  BY <1>1 DEF Ac!Idle, Served
<1>3. Ar!Idle = Ac!Idle /\ Ar!NoEffect = Ac!NoEffect
  BY DEF Ac!Idle, Ar!Idle, Ac!NoEffect, Ar!NoEffect
<1>4. ASSUME NEW r \in Requests, NEW route \in {"mode", "put", "action", "report", "status", "config", "codes", "redeem"}, NEW q \in Ar!Request(route), Ar!Arrive(r, q)
      PROVE  Counts /\ Arrives(r, {"c1"})
  <2> DEFINE p == Ar!Identify(q.cred)
  <2>1. q.route = route /\ q.route \in RouteNames
    BY DEF Ar!Request, RouteNames, Ac!AccessConstants
  <2>2. q.cred \in [kind : Principals, token : Nat]
    <3>1. q.cred \in Ar!Creds
      BY DEF Ar!Request
    <3> QED BY <3>1 DEF Ar!Creds, Ar!Kinds, Ar!Tokens, Principals
  <2>3. /\ q.arg \in Ar!Arg(route) /\ q = [route |-> q.route, cred |-> q.cred, loopback |-> q.loopback, localHost |-> q.localHost,
                                          from |-> q.from, json |-> q.json, arg |-> q.arg]
        /\ q.loopback \in BOOLEAN /\ q.localHost \in BOOLEAN /\ q.from \in {"native", "page", "other_page"} /\ q.json \in BOOLEAN
    BY DEF Ar!Request
  <2>4. /\ q.arg \in {"c1"} \cup BOOLEAN \cup {"pause", "auto", "ai_priority", "none"}
        /\ route = "mode" => q.arg \in {"pause", "auto", "ai_priority"}
        /\ route = "put" => q.arg \in BOOLEAN
        /\ route \in {"codes", "redeem"} => q.arg \in {"c1"}
    BY <2>1, <2>3 DEF Ar!Arg, RouteNames
  <2>5. q \in Query({"c1"})
    BY <2>1, <2>2, <2>3, <2>4 DEF Query
  <2>6. p \in {"invalid", q.cred.kind} /\ p \in Principals /\ (p = "session" => now < sessions[q.cred.token])
    BY <2>2 DEF Ar!Identify, Ar!Live, Principals
  <2>7. Ar!Authorize(q) /\ Ar!trustedLoopback(q) = Ac!trustedLoopback(q)
    BY <1>4 DEF Ar!Arrive, Ar!trustedLoopback, Ac!trustedLoopback
  <2>8. /\ Ar!Routes[q.route].access = CASE q.route \in {"status", "config"} -> "read" [] q.route = "mode" -> "mode"
                                          [] q.route = "redeem" -> "local" [] OTHER -> "write"
        /\ Ar!Routes[q.route].agent => q.route \in {"status", "mode", "report"}
    BY <2>1 DEF Ar!Routes, RouteNames
  <2>9. Allowed(q, p)
    BY <2>6, <2>7, <2>8 DEF Allowed, Ar!Authorize, Ar!localWriteBarrier
  <2>10. req' = [req EXCEPT ![r] = [stage |-> "handle", q |-> q, seen |-> apiCfg, valid |-> p]]
    BY <1>4 DEF Ar!Arrive
  <2>11. req[r] = Ac!Idle /\ last' = Ac!NoEffect /\ UNCHANGED <<apiCfg, apiRev>> /\ Counts
    BY <1>2, <1>3, <1>4 DEF Ar!Arrive, Counts
  <2> HIDE DEF p
  <2> QED BY <2>5, <2>6, <2>9, <2>10, <2>11 DEF Arrives
<1>5. ASSUME NEW r \in Requests, Ar!putApplications(r) PROVE Counts /\ Reads(r)
  BY <1>3, <1>5 DEF Ar!putApplications, Ar!At, Counts, Reads
<1>6. ASSUME NEW r \in Requests, Ar!Reject(r) PROVE Counts /\ Ends(r)
  BY <1>3, <1>6 DEF Ar!Reject, Ar!Done, Counts, Ends
<1>7. ASSUME NEW r \in Requests, Ar!Answer(r) PROVE Counts /\ Ends(r)
  <2>1. req[r].stage = "handle" /\ req[r].q.route \in {"status", "config", "action", "report"}
    BY <1>7 DEF Ar!Answer, Ar!At
  <2> QED BY <1>3, <1>7, <2>1 DEF Ar!Answer, Ar!Done, Ar!Takes, Counts, Ends, TakesEffect
<1>8. ASSUME NEW r \in Requests, Ar!putConfig(r) PROVE Counts /\ Ends(r)
  BY <1>3, <1>8 DEF Ar!putConfig, Ar!At, Ar!Done, Ar!Takes, Counts, Ends, TakesEffect
<1>9. ASSUME NEW r \in Requests, Ar!applyApplications(r) PROVE Counts /\ Ends(r)
  <2>1. req[r].stage = "apply" /\ req[r].q.route = "apps"
    BY <1>9 DEF Ar!applyApplications, ServedAllowed
  <2>2. last'.route = "apps" /\ last'.q = req[r].q /\ last'.valid = req[r].valid
    BY <1>9 DEF Ar!applyApplications, Ar!Takes
  <2>3. TakesEffect(r)
    BY <2>1, <2>2 DEF TakesEffect
  <2> QED BY <1>3, <1>9, <2>1, <2>3 DEF Ar!applyApplications, Ar!Done, Counts, Ends
<1>10. ASSUME NEW r \in Requests, Ar!putMode(r) PROVE Counts /\ Ends(r)
  <2>1. req[r].stage = "handle" /\ req[r].q.route = "mode" /\ last' = Ar!Takes(r, Ar!Identify(req[r].q.cred))
        /\ ~(Ar!Identify(req[r].q.cred) = "none" /\ req[r].q.arg = "ai_priority")
    BY <1>10 DEF Ar!putMode, Ar!At
  <2>2. req[r].q.cred.kind = "none" => Ar!Identify(req[r].q.cred) = "none"
    BY DEF Ar!Identify
  <2>3. last'.route = "mode" /\ last'.q = req[r].q /\ last'.valid = req[r].valid
    BY <2>1 DEF Ar!Takes
  <2>4. TakesEffect(r)
    BY <2>1, <2>2, <2>3 DEF TakesEffect
  <2> QED BY <1>3, <1>10, <2>1, <2>4 DEF Ar!putMode, Ar!Done, Counts, Ends
<1>11. ASSUME NEW r \in Requests, Ar!registerSignIn(r) PROVE Counts /\ Ends(r)
  <2>1. req[r].stage = "handle" /\ req[r].q.route = "codes" /\ last' = Ar!Takes(r, "") /\ req[r].q.cred.kind = "management"
    BY <1>11 DEF Ar!registerSignIn, Ar!At, Ar!Identify
  <2>2. TakesEffect(r)
    BY <2>1 DEF TakesEffect, Ar!Takes
  <2> QED BY <1>3, <1>11, <2>1, <2>2 DEF Ar!registerSignIn, Ar!Done, Counts, Ends
<1>12. ASSUME NEW r \in Requests, Ar!redeemSignIn(r) PROVE Counts /\ Ends(r)
  <2>1. req[r].stage = "handle" /\ req[r].q.route = "redeem" /\ last' = Ar!Takes(r, "") /\ now' = now
    BY <1>12 DEF Ar!redeemSignIn, Ar!At
  <2>2. TakesEffect(r)
    BY <2>1 DEF TakesEffect, Ar!Takes
  <2> DEFINE over == now - failFrom > Window
             f    == IF over THEN 0 ELSE failures
  <2>3. /\ failFrom' = IF over THEN now ELSE failFrom
        /\ \/ failures' = f /\ misses' = misses
           \/ ~(f >= MaxRedeemFailure) /\ failures' = f + 1 /\ misses' = misses \cup {<<now, Cardinality(misses)>>}
    <3>1. Ar!Redeem(req[r].q.arg)
      BY <1>12 DEF Ar!redeemSignIn
    <3>2. CASE f >= MaxRedeemFailure
      BY <3>1, <3>2 DEF Ar!Redeem
    <3>3. CASE ~(f >= MaxRedeemFailure)
      <4>1. CASE req[r].q.arg \in Ar!Pending
        BY <3>1, <3>3, <4>1 DEF Ar!Redeem
      <4>2. CASE req[r].q.arg \notin Ar!Pending
        <5>1. failFrom' = IF over THEN now ELSE failFrom
          BY <3>1 DEF Ar!Redeem
        <5>2. failures' = f + 1
          BY <3>1, <3>3, <4>2 DEF Ar!Redeem
        <5>3. misses' = misses \cup {<<now, Cardinality(misses)>>}
          BY SameCounts, <3>1, <3>3, <4>2 DEF Ar!Redeem
        <5> QED BY <3>3, <5>1, <5>2, <5>3
      <4> QED BY <4>1, <4>2
    <3> QED BY <3>2, <3>3
  <2>4. f \in Nat
    BY <1>1
  <2> HIDE DEF f
  <2>5. ~(f >= MaxRedeemFailure) <=> f < MaxRedeemFailure
    BY <1>1, <2>4
  <2>6. Counted
    BY <2>3, <2>5 DEF Counted, f
  <2> QED BY <1>3, <1>12, <2>1, <2>2, <2>6 DEF Ar!redeemSignIn, Ar!Done, Counts, Ends
<1>13. (\E t \in Ar!Tokens : Ar!Refuse(t)) \/ Ar!Tick => Counts /\ Rests
  BY <1>3 DEF Ar!Refuse, Ar!Tick, Counts, Rests
<1>14. ASSUME \E r \in Requests, route \in {"mode", "put", "action", "report", "status", "config", "codes", "redeem"} : \E q \in Ar!Request(route) : Ar!Arrive(r, q) PROVE AccessStep(Requests, {"c1"})
  BY <1>4, <1>14, Zenon DEF AccessStep
<1>15. ASSUME NEW r \in Requests,
              \/ Ar!Reject(r) \/ Ar!Answer(r) \/ Ar!putConfig(r) \/ Ar!putApplications(r) \/ Ar!applyApplications(r)
              \/ Ar!putMode(r) \/ Ar!registerSignIn(r) \/ Ar!redeemSignIn(r)
       PROVE  AccessStep(Requests, {"c1"})
  BY <1>5, <1>6, <1>7, <1>8, <1>9, <1>10, <1>11, <1>12, <1>15, Zenon DEF AccessStep
<1> QED BY <1>13, <1>14, <1>15, Zenon DEF Ar!Next, AccessStep

(* The steps of the part "sessions" are such steps.                              *)
LEMMA SessionsSteps ==
    ASSUME Ac!AccessConstants, AccessType(Requests, {"c1"}), ServedAllowed(Requests), As!Next
    PROVE  AccessStep(Requests, {"c1"})
<1>1. /\ now \in Nat /\ failures \in Nat /\ failFrom \in Nat /\ Window \in Nat /\ MaxRedeemFailure \in Nat
      /\ req \in [Requests -> {Ac!Idle} \cup Served({"c1"})] /\ apiCfg \in Settings /\ apiRev \in Nat
  BY DEF AccessType, Ac!AccessConstants
<1>2. \A r \in Requests :
        /\ req[r].stage = "idle" => req[r] = Ac!Idle
        /\ req[r].stage # "idle" => req[r] \in Served({"c1"})
  BY <1>1 DEF Ac!Idle, Served
<1>3. As!Idle = Ac!Idle /\ As!NoEffect = Ac!NoEffect
  BY DEF Ac!Idle, As!Idle, Ac!NoEffect, As!NoEffect
<1>4. ASSUME NEW r \in Requests, NEW route \in Offered, NEW q \in As!Request(route), As!Arrive(r, q)
      PROVE  Counts /\ Arrives(r, {"c1"})
  <2> DEFINE p == As!Identify(q.cred)
  <2>1. q.route = route /\ q.route \in RouteNames
    BY DEF As!Request, RouteNames, Ac!AccessConstants
  <2>2. q.cred \in [kind : Principals, token : Nat]
    <3>1. q.cred \in As!Creds
      BY DEF As!Request
    <3> QED BY <3>1 DEF As!Creds, As!Kinds, As!Tokens, Principals
  <2>3. /\ q.arg \in As!Arg(route) /\ q = [route |-> q.route, cred |-> q.cred, loopback |-> q.loopback, localHost |-> q.localHost,
                                          from |-> q.from, json |-> q.json, arg |-> q.arg]
        /\ q.loopback \in BOOLEAN /\ q.localHost \in BOOLEAN /\ q.from \in {"native", "page", "other_page"} /\ q.json \in BOOLEAN
    BY DEF As!Request
  <2>4. /\ q.arg \in {"c1"} \cup BOOLEAN \cup {"pause", "auto", "ai_priority", "none"}
        /\ route = "mode" => q.arg \in {"pause", "auto", "ai_priority"}
        /\ route = "put" => q.arg \in BOOLEAN
        /\ route \in {"codes", "redeem"} => q.arg \in {"c1"}
    BY <2>1, <2>3 DEF As!Arg, RouteNames
  <2>5. q \in Query({"c1"})
    BY <2>1, <2>2, <2>3, <2>4 DEF Query
  <2>6. p \in {"invalid", q.cred.kind} /\ p \in Principals /\ (p = "session" => now < sessions[q.cred.token])
    BY <2>2 DEF As!Identify, As!Live, Principals
  <2>7. As!Authorize(q) /\ As!trustedLoopback(q) = Ac!trustedLoopback(q)
    BY <1>4 DEF As!Arrive, As!trustedLoopback, Ac!trustedLoopback
  <2>8. /\ As!Routes[q.route].access = CASE q.route \in {"status", "config"} -> "read" [] q.route = "mode" -> "mode"
                                          [] q.route = "redeem" -> "local" [] OTHER -> "write"
        /\ As!Routes[q.route].agent => q.route \in {"status", "mode", "report"}
    BY <2>1 DEF As!Routes, RouteNames
  <2>9. Allowed(q, p)
    BY <2>6, <2>7, <2>8 DEF Allowed, As!Authorize, As!localWriteBarrier
  <2>10. req' = [req EXCEPT ![r] = [stage |-> "handle", q |-> q, seen |-> apiCfg, valid |-> p]]
    BY <1>4 DEF As!Arrive
  <2>11. req[r] = Ac!Idle /\ last' = Ac!NoEffect /\ UNCHANGED <<apiCfg, apiRev>> /\ Counts
    BY <1>2, <1>3, <1>4 DEF As!Arrive, Counts
  <2> HIDE DEF p
  <2> QED BY <2>5, <2>6, <2>9, <2>10, <2>11 DEF Arrives
<1>5. ASSUME NEW r \in Requests, As!putApplications(r) PROVE Counts /\ Reads(r)
  BY <1>3, <1>5 DEF As!putApplications, As!At, Counts, Reads
<1>6. ASSUME NEW r \in Requests, As!Reject(r) PROVE Counts /\ Ends(r)
  BY <1>3, <1>6 DEF As!Reject, As!Done, Counts, Ends
<1>7. ASSUME NEW r \in Requests, As!Answer(r) PROVE Counts /\ Ends(r)
  <2>1. req[r].stage = "handle" /\ req[r].q.route \in {"status", "config", "action", "report"}
    BY <1>7 DEF As!Answer, As!At
  <2> QED BY <1>3, <1>7, <2>1 DEF As!Answer, As!Done, As!Takes, Counts, Ends, TakesEffect
<1>8. ASSUME NEW r \in Requests, As!putConfig(r) PROVE Counts /\ Ends(r)
  BY <1>3, <1>8 DEF As!putConfig, As!At, As!Done, As!Takes, Counts, Ends, TakesEffect
<1>9. ASSUME NEW r \in Requests, As!applyApplications(r) PROVE Counts /\ Ends(r)
  <2>1. req[r].stage = "apply" /\ req[r].q.route = "apps"
    BY <1>9 DEF As!applyApplications, ServedAllowed
  <2>2. last'.route = "apps" /\ last'.q = req[r].q /\ last'.valid = req[r].valid
    BY <1>9 DEF As!applyApplications, As!Takes
  <2>3. TakesEffect(r)
    BY <2>1, <2>2 DEF TakesEffect
  <2> QED BY <1>3, <1>9, <2>1, <2>3 DEF As!applyApplications, As!Done, Counts, Ends
<1>10. ASSUME NEW r \in Requests, As!putMode(r) PROVE Counts /\ Ends(r)
  <2>1. req[r].stage = "handle" /\ req[r].q.route = "mode" /\ last' = As!Takes(r, As!Identify(req[r].q.cred))
        /\ ~(As!Identify(req[r].q.cred) = "none" /\ req[r].q.arg = "ai_priority")
    BY <1>10 DEF As!putMode, As!At
  <2>2. req[r].q.cred.kind = "none" => As!Identify(req[r].q.cred) = "none"
    BY DEF As!Identify
  <2>3. last'.route = "mode" /\ last'.q = req[r].q /\ last'.valid = req[r].valid
    BY <2>1 DEF As!Takes
  <2>4. TakesEffect(r)
    BY <2>1, <2>2, <2>3 DEF TakesEffect
  <2> QED BY <1>3, <1>10, <2>1, <2>4 DEF As!putMode, As!Done, Counts, Ends
<1>11. ASSUME NEW r \in Requests, As!registerSignIn(r) PROVE Counts /\ Ends(r)
  <2>1. req[r].stage = "handle" /\ req[r].q.route = "codes" /\ last' = As!Takes(r, "") /\ req[r].q.cred.kind = "management"
    BY <1>11 DEF As!registerSignIn, As!At, As!Identify
  <2>2. TakesEffect(r)
    BY <2>1 DEF TakesEffect, As!Takes
  <2> QED BY <1>3, <1>11, <2>1, <2>2 DEF As!registerSignIn, As!Done, Counts, Ends
<1>12. ASSUME NEW r \in Requests, As!redeemSignIn(r) PROVE Counts /\ Ends(r)
  <2>1. req[r].stage = "handle" /\ req[r].q.route = "redeem" /\ last' = As!Takes(r, "") /\ now' = now
    BY <1>12 DEF As!redeemSignIn, As!At
  <2>2. TakesEffect(r)
    BY <2>1 DEF TakesEffect, As!Takes
  <2> DEFINE over == now - failFrom > Window
             f    == IF over THEN 0 ELSE failures
  <2>3. /\ failFrom' = IF over THEN now ELSE failFrom
        /\ \/ failures' = f /\ misses' = misses
           \/ ~(f >= MaxRedeemFailure) /\ failures' = f + 1 /\ misses' = misses \cup {<<now, Cardinality(misses)>>}
    <3>1. As!Redeem(req[r].q.arg)
      BY <1>12 DEF As!redeemSignIn
    <3>2. CASE f >= MaxRedeemFailure
      BY <3>1, <3>2 DEF As!Redeem
    <3>3. CASE ~(f >= MaxRedeemFailure)
      <4>1. CASE req[r].q.arg \in As!Pending
        BY <3>1, <3>3, <4>1 DEF As!Redeem
      <4>2. CASE req[r].q.arg \notin As!Pending
        <5>1. failFrom' = IF over THEN now ELSE failFrom
          BY <3>1 DEF As!Redeem
        <5>2. failures' = f + 1
          BY <3>1, <3>3, <4>2 DEF As!Redeem
        <5>3. misses' = misses \cup {<<now, Cardinality(misses)>>}
          BY SameCounts, <3>1, <3>3, <4>2 DEF As!Redeem
        <5> QED BY <3>3, <5>1, <5>2, <5>3
      <4> QED BY <4>1, <4>2
    <3> QED BY <3>2, <3>3
  <2>4. f \in Nat
    BY <1>1
  <2> HIDE DEF f
  <2>5. ~(f >= MaxRedeemFailure) <=> f < MaxRedeemFailure
    BY <1>1, <2>4
  <2>6. Counted
    BY <2>3, <2>5 DEF Counted, f
  <2> QED BY <1>3, <1>12, <2>1, <2>2, <2>6 DEF As!redeemSignIn, As!Done, Counts, Ends
<1>13. (\E t \in As!Tokens : As!Refuse(t)) \/ As!Tick => Counts /\ Rests
  BY <1>3 DEF As!Refuse, As!Tick, Counts, Rests
<1>14. ASSUME \E r \in Requests, route \in Offered : \E q \in As!Request(route) : As!Arrive(r, q) PROVE AccessStep(Requests, {"c1"})
  BY <1>4, <1>14, Zenon DEF AccessStep
<1>15. ASSUME NEW r \in Requests,
              \/ As!Reject(r) \/ As!Answer(r) \/ As!putConfig(r) \/ As!putApplications(r) \/ As!applyApplications(r)
              \/ As!putMode(r) \/ As!registerSignIn(r) \/ As!redeemSignIn(r)
       PROVE  AccessStep(Requests, {"c1"})
  BY <1>5, <1>6, <1>7, <1>8, <1>9, <1>10, <1>11, <1>12, <1>15, Zenon DEF AccessStep
<1> QED BY <1>13, <1>14, <1>15, Zenon DEF As!Next, AccessStep

(* The steps of the part "apps" are such steps.                              *)
LEMMA AppsSteps ==
    ASSUME Ac!AccessConstants, AccessType({"r1", "r2"}, {"c1"}), ServedAllowed({"r1", "r2"}), Aa!Next
    PROVE  AccessStep({"r1", "r2"}, {"c1"})
<1>1. /\ now \in Nat /\ failures \in Nat /\ failFrom \in Nat /\ Window \in Nat /\ MaxRedeemFailure \in Nat
      /\ req \in [{"r1", "r2"} -> {Ac!Idle} \cup Served({"c1"})] /\ apiCfg \in Settings /\ apiRev \in Nat
  BY DEF AccessType, Ac!AccessConstants
<1>2. \A r \in {"r1", "r2"} :
        /\ req[r].stage = "idle" => req[r] = Ac!Idle
        /\ req[r].stage # "idle" => req[r] \in Served({"c1"})
  BY <1>1 DEF Ac!Idle, Served
<1>3. Aa!Idle = Ac!Idle /\ Aa!NoEffect = Ac!NoEffect
  BY DEF Ac!Idle, Aa!Idle, Ac!NoEffect, Aa!NoEffect
<1>4. ASSUME NEW r \in {"r1", "r2"}, NEW route \in {"put", "apps"}, NEW q \in Aa!Request(route), Aa!Arrive(r, q)
      PROVE  Counts /\ Arrives(r, {"c1"})
  <2> DEFINE p == Aa!Identify(q.cred)
  <2>1. q.route = route /\ q.route \in RouteNames
    BY DEF Aa!Request, RouteNames, Ac!AccessConstants
  <2>2. q.cred \in [kind : Principals, token : Nat]
    <3>1. q.cred \in Aa!Creds
      BY DEF Aa!Request
    <3> QED BY <3>1 DEF Aa!Creds, Aa!Kinds, Aa!Tokens, Principals
  <2>3. /\ q.arg \in Aa!Arg(route) /\ q = [route |-> q.route, cred |-> q.cred, loopback |-> q.loopback, localHost |-> q.localHost,
                                          from |-> q.from, json |-> q.json, arg |-> q.arg]
        /\ q.loopback \in BOOLEAN /\ q.localHost \in BOOLEAN /\ q.from \in {"native", "page", "other_page"} /\ q.json \in BOOLEAN
    BY DEF Aa!Request
  <2>4. /\ q.arg \in {"c1"} \cup BOOLEAN \cup {"pause", "auto", "ai_priority", "none"}
        /\ route = "mode" => q.arg \in {"pause", "auto", "ai_priority"}
        /\ route = "put" => q.arg \in BOOLEAN
        /\ route \in {"codes", "redeem"} => q.arg \in {"c1"}
    BY <2>1, <2>3 DEF Aa!Arg, RouteNames
  <2>5. q \in Query({"c1"})
    BY <2>1, <2>2, <2>3, <2>4 DEF Query
  <2>6. p \in {"invalid", q.cred.kind} /\ p \in Principals /\ (p = "session" => now < sessions[q.cred.token])
    BY <2>2 DEF Aa!Identify, Aa!Live, Principals
  <2>7. Aa!Authorize(q) /\ Aa!trustedLoopback(q) = Ac!trustedLoopback(q)
    BY <1>4 DEF Aa!Arrive, Aa!trustedLoopback, Ac!trustedLoopback
  <2>8. /\ Aa!Routes[q.route].access = CASE q.route \in {"status", "config"} -> "read" [] q.route = "mode" -> "mode"
                                          [] q.route = "redeem" -> "local" [] OTHER -> "write"
        /\ Aa!Routes[q.route].agent => q.route \in {"status", "mode", "report"}
    BY <2>1 DEF Aa!Routes, RouteNames
  <2>9. Allowed(q, p)
    BY <2>6, <2>7, <2>8 DEF Allowed, Aa!Authorize, Aa!localWriteBarrier
  <2>10. req' = [req EXCEPT ![r] = [stage |-> "handle", q |-> q, seen |-> apiCfg, valid |-> p]]
    BY <1>4 DEF Aa!Arrive
  <2>11. req[r] = Ac!Idle /\ last' = Ac!NoEffect /\ UNCHANGED <<apiCfg, apiRev>> /\ Counts
    BY <1>2, <1>3, <1>4 DEF Aa!Arrive, Counts
  <2> HIDE DEF p
  <2> QED BY <2>5, <2>6, <2>9, <2>10, <2>11 DEF Arrives
<1>5. ASSUME NEW r \in {"r1", "r2"}, Aa!putApplications(r) PROVE Counts /\ Reads(r)
  BY <1>3, <1>5 DEF Aa!putApplications, Aa!At, Counts, Reads
<1>6. ASSUME NEW r \in {"r1", "r2"}, Aa!Reject(r) PROVE Counts /\ Ends(r)
  BY <1>3, <1>6 DEF Aa!Reject, Aa!Done, Counts, Ends
<1>7. ASSUME NEW r \in {"r1", "r2"}, Aa!Answer(r) PROVE Counts /\ Ends(r)
  <2>1. req[r].stage = "handle" /\ req[r].q.route \in {"status", "config", "action", "report"}
    BY <1>7 DEF Aa!Answer, Aa!At
  <2> QED BY <1>3, <1>7, <2>1 DEF Aa!Answer, Aa!Done, Aa!Takes, Counts, Ends, TakesEffect
<1>8. ASSUME NEW r \in {"r1", "r2"}, Aa!putConfig(r) PROVE Counts /\ Ends(r)
  BY <1>3, <1>8 DEF Aa!putConfig, Aa!At, Aa!Done, Aa!Takes, Counts, Ends, TakesEffect
<1>9. ASSUME NEW r \in {"r1", "r2"}, Aa!applyApplications(r) PROVE Counts /\ Ends(r)
  <2>1. req[r].stage = "apply" /\ req[r].q.route = "apps"
    BY <1>9 DEF Aa!applyApplications, ServedAllowed
  <2>2. last'.route = "apps" /\ last'.q = req[r].q /\ last'.valid = req[r].valid
    BY <1>9 DEF Aa!applyApplications, Aa!Takes
  <2>3. TakesEffect(r)
    BY <2>1, <2>2 DEF TakesEffect
  <2> QED BY <1>3, <1>9, <2>1, <2>3 DEF Aa!applyApplications, Aa!Done, Counts, Ends
<1>10. ASSUME NEW r \in {"r1", "r2"}, Aa!putMode(r) PROVE Counts /\ Ends(r)
  <2>1. req[r].stage = "handle" /\ req[r].q.route = "mode" /\ last' = Aa!Takes(r, Aa!Identify(req[r].q.cred))
        /\ ~(Aa!Identify(req[r].q.cred) = "none" /\ req[r].q.arg = "ai_priority")
    BY <1>10 DEF Aa!putMode, Aa!At
  <2>2. req[r].q.cred.kind = "none" => Aa!Identify(req[r].q.cred) = "none"
    BY DEF Aa!Identify
  <2>3. last'.route = "mode" /\ last'.q = req[r].q /\ last'.valid = req[r].valid
    BY <2>1 DEF Aa!Takes
  <2>4. TakesEffect(r)
    BY <2>1, <2>2, <2>3 DEF TakesEffect
  <2> QED BY <1>3, <1>10, <2>1, <2>4 DEF Aa!putMode, Aa!Done, Counts, Ends
<1>11. ASSUME NEW r \in {"r1", "r2"}, Aa!registerSignIn(r) PROVE Counts /\ Ends(r)
  <2>1. req[r].stage = "handle" /\ req[r].q.route = "codes" /\ last' = Aa!Takes(r, "") /\ req[r].q.cred.kind = "management"
    BY <1>11 DEF Aa!registerSignIn, Aa!At, Aa!Identify
  <2>2. TakesEffect(r)
    BY <2>1 DEF TakesEffect, Aa!Takes
  <2> QED BY <1>3, <1>11, <2>1, <2>2 DEF Aa!registerSignIn, Aa!Done, Counts, Ends
<1>12. ASSUME NEW r \in {"r1", "r2"}, Aa!redeemSignIn(r) PROVE Counts /\ Ends(r)
  <2>1. req[r].stage = "handle" /\ req[r].q.route = "redeem" /\ last' = Aa!Takes(r, "") /\ now' = now
    BY <1>12 DEF Aa!redeemSignIn, Aa!At
  <2>2. TakesEffect(r)
    BY <2>1 DEF TakesEffect, Aa!Takes
  <2> DEFINE over == now - failFrom > Window
             f    == IF over THEN 0 ELSE failures
  <2>3. /\ failFrom' = IF over THEN now ELSE failFrom
        /\ \/ failures' = f /\ misses' = misses
           \/ ~(f >= MaxRedeemFailure) /\ failures' = f + 1 /\ misses' = misses \cup {<<now, Cardinality(misses)>>}
    <3>1. Aa!Redeem(req[r].q.arg)
      BY <1>12 DEF Aa!redeemSignIn
    <3>2. CASE f >= MaxRedeemFailure
      BY <3>1, <3>2 DEF Aa!Redeem
    <3>3. CASE ~(f >= MaxRedeemFailure)
      <4>1. CASE req[r].q.arg \in Aa!Pending
        BY <3>1, <3>3, <4>1 DEF Aa!Redeem
      <4>2. CASE req[r].q.arg \notin Aa!Pending
        <5>1. failFrom' = IF over THEN now ELSE failFrom
          BY <3>1 DEF Aa!Redeem
        <5>2. failures' = f + 1
          BY <3>1, <3>3, <4>2 DEF Aa!Redeem
        <5>3. misses' = misses \cup {<<now, Cardinality(misses)>>}
          BY SameCounts, <3>1, <3>3, <4>2 DEF Aa!Redeem
        <5> QED BY <3>3, <5>1, <5>2, <5>3
      <4> QED BY <4>1, <4>2
    <3> QED BY <3>2, <3>3
  <2>4. f \in Nat
    BY <1>1
  <2> HIDE DEF f
  <2>5. ~(f >= MaxRedeemFailure) <=> f < MaxRedeemFailure
    BY <1>1, <2>4
  <2>6. Counted
    BY <2>3, <2>5 DEF Counted, f
  <2> QED BY <1>3, <1>12, <2>1, <2>2, <2>6 DEF Aa!redeemSignIn, Aa!Done, Counts, Ends
<1>13. (\E t \in Aa!Tokens : Aa!Refuse(t)) \/ Aa!Tick => Counts /\ Rests
  BY <1>3 DEF Aa!Refuse, Aa!Tick, Counts, Rests
<1>14. ASSUME \E r \in {"r1", "r2"}, route \in {"put", "apps"} : \E q \in Aa!Request(route) : Aa!Arrive(r, q) PROVE AccessStep({"r1", "r2"}, {"c1"})
  BY <1>4, <1>14, Zenon DEF AccessStep
<1>15. ASSUME NEW r \in {"r1", "r2"},
              \/ Aa!Reject(r) \/ Aa!Answer(r) \/ Aa!putConfig(r) \/ Aa!putApplications(r) \/ Aa!applyApplications(r)
              \/ Aa!putMode(r) \/ Aa!registerSignIn(r) \/ Aa!redeemSignIn(r)
       PROVE  AccessStep({"r1", "r2"}, {"c1"})
  BY <1>5, <1>6, <1>7, <1>8, <1>9, <1>10, <1>11, <1>12, <1>15, Zenon DEF AccessStep
<1> QED BY <1>13, <1>14, <1>15, Zenon DEF Aa!Next, AccessStep

-----------------------------------------------------------------------------
(* The redemption limit.                                                    *)

(* Failures of a shorter time are no more.                                  *)
LEMMA FewerMisses ==
    ASSUME NEW ms, IsFiniteSet(ms), NEW S, NEW T, S \subseteq T, T \subseteq ms
    PROVE  IsFiniteSet(S) /\ Cardinality(S) \in Nat /\ Cardinality(T) \in Nat /\ Cardinality(S) <= Cardinality(T)
<1>1. IsFiniteSet(T) /\ IsFiniteSet(S)
  BY FS_Subset
<1> QED BY <1>1, FS_Subset, FS_CardinalityType

(* When a new window begins, the one counted so far is the one before.      *)
LEMMA NewWindow ==
    ASSUME Ac!AccessConstants, NEW ms \in SUBSET (Nat \X Nat), IsFiniteSet(ms), NEW n \in Nat, NEW from \in Nat, NEW at \in Nat,
           Limited(ms, n, from, at), at - from > Window
    PROVE  Limited(ms, 0, at, at)
<1>1. Window \in Nat /\ MaxRedeemFailure \in Nat
  BY DEF Ac!AccessConstants
<1>2. /\ \A m \in ms : m[1] \in Nat /\ m[1] <= from + Window /\ m[1] <= at /\ m[2] < Cardinality(ms)
      /\ Cardinality(MissesIn(ms, from, from + Window)) <= n /\ n <= MaxRedeemFailure
      /\ \A t \in Int : Cardinality(MissesIn(ms, t, t + Window)) <= 2 * MaxRedeemFailure
  BY DEF Limited
<1>3. MissesIn(ms, at, at + Window) = {}
  BY <1>1, <1>2 DEF MissesIn
<1>4. Cardinality(MissesIn(ms, at, at + Window)) = 0
  BY <1>3, FS_EmptySet
<1>5. MissesIn(ms, at - Window, at - 1) \subseteq MissesIn(ms, from, from + Window) /\ MissesIn(ms, from, from + Window) \subseteq ms
  BY <1>1, <1>2 DEF MissesIn
<1>6. /\ Cardinality(MissesIn(ms, at - Window, at - 1)) \in Nat /\ Cardinality(MissesIn(ms, from, from + Window)) \in Nat
      /\ Cardinality(MissesIn(ms, at - Window, at - 1)) <= Cardinality(MissesIn(ms, from, from + Window))
  BY <1>5, FewerMisses
<1>7. Cardinality(MissesIn(ms, at - Window, at - 1)) <= MaxRedeemFailure
  BY <1>1, <1>2, <1>6
<1>8. Cardinality(ms) \in Nat
  BY FS_CardinalityType
<1>9. \A m \in ms : m[1] <= at + Window /\ m[1] <= at /\ m[2] < Cardinality(ms)
  BY <1>1, <1>2
<1> QED BY <1>1, <1>2, <1>4, <1>7, <1>8, <1>9 DEF Limited

(* A further failure within the window keeps to the limit.                  *)
LEMMA OneMoreMiss ==
    ASSUME Ac!AccessConstants, NEW ms \in SUBSET (Nat \X Nat), IsFiniteSet(ms), NEW n \in Nat, NEW from \in Nat, NEW at \in Nat,
           Limited(ms, n, from, at), ~(at - from > Window), n < MaxRedeemFailure
    PROVE  /\ Limited(ms \cup {<<at, Cardinality(ms)>>}, n + 1, from, at)
           /\ ms \cup {<<at, Cardinality(ms)>>} \in SUBSET (Nat \X Nat) /\ IsFiniteSet(ms \cup {<<at, Cardinality(ms)>>})
           /\ Cardinality(ms \cup {<<at, Cardinality(ms)>>}) = Cardinality(ms) + 1
<1> DEFINE k == Cardinality(ms)
           x == <<at, k>>
           new == ms \cup {x}
<1>1. Window \in Nat /\ MaxRedeemFailure \in Nat /\ k \in Nat
  BY FS_CardinalityType DEF Ac!AccessConstants
<1>2. /\ \A m \in ms : m[1] \in Nat /\ m[1] <= from + Window /\ m[1] <= at /\ m[2] < k
      /\ Cardinality(MissesIn(ms, from, from + Window)) <= n /\ n <= k /\ from <= at
      /\ Cardinality(MissesIn(ms, from - Window, from - 1)) <= MaxRedeemFailure
      /\ \A t \in Int : Cardinality(MissesIn(ms, t, t + Window)) <= 2 * MaxRedeemFailure
  BY DEF Limited
<1>3. x \notin ms /\ x \in Nat \X Nat /\ x[1] = at /\ x[2] = k
  BY <1>1, <1>2
<1>4. new \in SUBSET (Nat \X Nat) /\ IsFiniteSet(new) /\ Cardinality(new) = k + 1
  BY <1>1, <1>3, FS_AddElement
<1> HIDE DEF k, x
<1>5. \A a, b \in Int : at \notin a..b => MissesIn(new, a, b) = MissesIn(ms, a, b)
  BY <1>3 DEF MissesIn
<1>6. Cardinality(MissesIn(new, from - Window, from - 1)) <= MaxRedeemFailure
  <2>1. from - Window \in Int /\ from - 1 \in Int /\ at \notin (from - Window)..(from - 1)
    BY <1>1, <1>2
  <2> QED BY <1>2, <1>5, <2>1
<1> DEFINE now_ == MissesIn(ms, from, from + Window)
           old_ == MissesIn(ms, from - Window, from - 1)
<1>7. now_ \subseteq ms /\ old_ \subseteq ms
  BY DEF MissesIn
<1>8. /\ IsFiniteSet(now_) /\ IsFiniteSet(old_) /\ Cardinality(now_) \in Nat /\ Cardinality(old_) \in Nat
      /\ Cardinality(now_) <= n /\ Cardinality(old_) <= MaxRedeemFailure
  BY <1>2, <1>7, FewerMisses
<1>9. x \notin now_ /\ MissesIn(new, from, from + Window) = now_ \cup {x}
  BY <1>1, <1>2, <1>3 DEF MissesIn
<1> HIDE DEF now_, old_
<1>10. IsFiniteSet(now_ \cup {x}) /\ Cardinality(now_ \cup {x}) = Cardinality(now_) + 1
  BY <1>8, <1>9, FS_AddElement
<1>11. Cardinality(MissesIn(new, from, from + Window)) <= n + 1
  <2>1. Cardinality(MissesIn(new, from, from + Window)) = Cardinality(now_) + 1
    BY <1>9, <1>10
  <2> HIDE DEF new
  <2> QED BY <1>8, <2>1
<1>12. \A t \in Int : Cardinality(MissesIn(new, t, t + Window)) <= 2 * MaxRedeemFailure
  <2> SUFFICES ASSUME NEW t \in Int PROVE Cardinality(MissesIn(new, t, t + Window)) <= 2 * MaxRedeemFailure
    OBVIOUS
  <2>1. CASE at \notin t..t + Window
    <3>1. t + Window \in Int
      BY <1>1
    <3> QED BY <1>2, <1>5, <2>1, <3>1
  <2>2. CASE at \in t..t + Window
    <3> DEFINE both == (now_ \cup {x}) \cup old_
    <3>1. MissesIn(new, t, t + Window) \subseteq both
      <4> SUFFICES ASSUME NEW m \in new, m[1] \in t..t + Window PROVE m \in both
        BY DEF MissesIn
      <4>1. CASE m = x
        BY <4>1
      <4>2. CASE m \in ms
        <5>1. m[1] \in Nat /\ m[1] <= from + Window /\ t <= m[1] /\ at - Window <= t
          BY <1>1, <1>2, <2>2, <4>2
        <5>2. m[1] \in (from - Window)..(from - 1) \/ m[1] \in from..from + Window
          BY <1>1, <1>2, <5>1
        <5> QED BY <4>2, <5>2 DEF MissesIn, now_, old_
      <4> QED BY <4>1, <4>2
    <3>2. IsFiniteSet(both) /\ Cardinality(both) <= Cardinality(now_ \cup {x}) + Cardinality(old_)
      <4>1. /\ IsFiniteSet(both) /\ Cardinality((now_ \cup {x}) \cap old_) \in Nat
            /\ Cardinality(both) = Cardinality(now_ \cup {x}) + Cardinality(old_) - Cardinality((now_ \cup {x}) \cap old_)
        <5>1. IsFiniteSet((now_ \cup {x}) \cap old_)
          BY <1>8, FS_Intersection
        <5> QED BY <1>8, <1>10, <5>1, FS_Union, FS_CardinalityType
      <4> QED BY <1>8, <1>10, <4>1
    <3>3. Cardinality(both) \in Nat /\ Cardinality(MissesIn(new, t, t + Window)) \in Nat
          /\ Cardinality(MissesIn(new, t, t + Window)) <= Cardinality(both)
      BY <3>1, <3>2, FewerMisses
    <3> HIDE DEF both
    <3> QED BY <1>1, <1>8, <1>10, <3>2, <3>3
  <2> QED BY <2>1, <2>2
<1>13. \A m \in new : m[1] <= from + Window /\ m[1] <= at /\ m[2] < Cardinality(new)
  BY <1>1, <1>2, <1>3, <1>4
<1>14. n + 1 <= MaxRedeemFailure /\ n + 1 <= Cardinality(new) /\ from <= at
  BY <1>1, <1>2, <1>4
<1>15. Limited(new, n + 1, from, at)
  BY <1>6, <1>11, <1>12, <1>13, <1>14 DEF Limited
<1> QED BY <1>4, <1>15 DEF k, x

-----------------------------------------------------------------------------
(* The interface starts as the invariant says, and every step keeps it.     *)

(* Nobody is served and nothing was guessed at the start.                   *)
LEMMA InterfaceStarts ==
    ASSUME Ac!AccessConstants, NEW R, NEW C,
           /\ now = 1 /\ failures = 0 /\ failFrom = 0 /\ misses = {}
           /\ apiCfg = [trust |-> TRUE, apps |-> 0] /\ apiRev = 0
           /\ req = [r \in R |-> Ac!Idle] /\ last = Ac!NoEffect
    PROVE  AccessInv(R, C)
<1>1. AccessType(R, C)
  BY FS_EmptySet DEF AccessType, Settings
<1>2. ServedAllowed(R) /\ EffectAllowed(C)
  BY DEF ServedAllowed, EffectAllowed, Ac!Idle, Ac!NoEffect
<1>3. \A a, b : Cardinality(MissesIn(misses, a, b)) = 0
  BY FS_EmptySet DEF MissesIn
<1>4. Limited(misses, failures, failFrom, now)
  BY <1>3, FS_EmptySet DEF Limited, Ac!AccessConstants
<1> QED BY <1>1, <1>2, <1>4 DEF AccessInv

(* However redemptions are counted, their failures stay limited.            *)
LEMMA CountsKeep ==
    ASSUME Ac!AccessConstants, NEW R, NEW C, AccessInv(R, C), Counts
    PROVE  /\ now' \in Nat \ {0} /\ failures' \in Nat /\ failFrom' \in Nat /\ misses' \subseteq Nat \X Nat /\ IsFiniteSet(misses')
           /\ Limited(misses, failures, failFrom, now)'
<1>1. /\ now \in Nat \ {0} /\ failures \in Nat /\ failFrom \in Nat /\ misses \in SUBSET (Nat \X Nat) /\ IsFiniteSet(misses)
      /\ Limited(misses, failures, failFrom, now) /\ MaxRedeemFailure \in Nat /\ Window \in Nat /\ MaxRedeemFailure # 0
  BY DEF AccessInv, AccessType, Ac!AccessConstants
<1>2. CASE now' \in {now, now + 1} /\ UNCHANGED <<failures, failFrom, misses>>
  <2>1. /\ failFrom <= now' /\ now' \in Nat \ {0}
        /\ \A m \in misses : m[1] \in Nat /\ (m[1] <= now => m[1] <= now')
    BY <1>1, <1>2 DEF Limited
  <2> QED BY <1>1, <1>2, <2>1 DEF Limited, MissesIn
<1>3. CASE now' = now /\ Counted
  <2> DEFINE over == now - failFrom > Window
             f    == IF over THEN 0 ELSE failures
             from == IF over THEN now ELSE failFrom
  <2>1. /\ failFrom' = from
        /\ \/ failures' = f /\ misses' = misses
           \/ f < MaxRedeemFailure /\ failures' = f + 1 /\ misses' = misses \cup {<<now, Cardinality(misses)>>}
    BY <1>3 DEF Counted
  <2>2. f \in Nat /\ from \in Nat /\ ~(now - from > Window)
    BY <1>1
  <2>3. Limited(misses, f, from, now)
    BY <1>1, NewWindow
  <2> HIDE DEF f, from
  <2>4. CASE failures' = f /\ misses' = misses
    <3>1. Limited(misses', failures', failFrom', now')
      BY <1>3, <2>1, <2>3, <2>4
    <3> QED BY <1>1, <1>3, <2>1, <2>2, <2>4, <3>1 DEF Limited, MissesIn
  <2>5. CASE f < MaxRedeemFailure /\ failures' = f + 1 /\ misses' = misses \cup {<<now, Cardinality(misses)>>}
    <3> DEFINE new == misses \cup {<<now, Cardinality(misses)>>}
    <3>1. Limited(new, f + 1, from, now) /\ new \in SUBSET (Nat \X Nat) /\ IsFiniteSet(new)
      BY <1>1, <2>2, <2>3, <2>5, OneMoreMiss
    <3> HIDE DEF new
    <3>2. misses' = new
      BY <2>5 DEF new
    <3>3. Limited(misses', failures', failFrom', now')
      BY <1>3, <2>1, <2>5, <3>1, <3>2
    <3>4. Limited(misses, failures, failFrom, now)'
      BY <3>3 DEF Limited, MissesIn
    <3>5. now' \in Nat \ {0} /\ failures' \in Nat /\ failFrom' \in Nat
      BY <1>1, <1>3, <2>1, <2>2, <2>5
    <3> QED BY <3>1, <3>2, <3>4, <3>5
  <2> QED BY <2>1, <2>4, <2>5
<1> QED BY <1>2, <1>3 DEF Counts

(* Every step of the interface keeps the invariant.                         *)
LEMMA InterfaceKeeps ==
    ASSUME Ac!AccessConstants, NEW R, NEW C, AccessInv(R, C), AccessStep(R, C) \/ UNCHANGED signinVars
    PROVE  AccessInv(R, C)'
<1>1. CASE UNCHANGED signinVars
  BY <1>1 DEF signinVars, AccessInv, AccessType, ServedAllowed, EffectAllowed, Limited, MissesIn
<1>2. CASE AccessStep(R, C)
  <2>1. Counts /\ (Rests \/ \E r \in R : Arrives(r, C) \/ Reads(r) \/ Ends(r))
    BY <1>2 DEF AccessStep
  <2>2. /\ now' \in Nat \ {0} /\ failures' \in Nat /\ failFrom' \in Nat /\ misses' \subseteq Nat \X Nat /\ IsFiniteSet(misses')
        /\ Limited(misses, failures, failFrom, now)'
    BY <2>1, CountsKeep
  <2>3. /\ AccessType(R, C) /\ ServedAllowed(R) /\ EffectAllowed(C)
        /\ req \in [R -> {Ac!Idle} \cup Served(C)] /\ apiCfg \in Settings /\ apiRev \in Nat
    BY DEF AccessInv, AccessType
  <2>4. /\ Ac!Idle.stage = "idle" /\ Ac!NoEffect.route = "none"
        /\ \A r \in R : req[r].stage # "idle" => req[r] \in Served(C)
    BY <2>3 DEF Ac!Idle, Ac!NoEffect, Served
  <2>5. ASSUME apiCfg' \in Settings, apiRev' \in Nat, req' \in [R -> {Ac!Idle} \cup Served(C)], ServedAllowed(R)',
               EffectAllowed(C)'
        PROVE  AccessInv(R, C)'
    BY <2>2, <2>5 DEF AccessInv, AccessType
  <2>6. CASE Rests
    <3>1. req' = req /\ last' = Ac!NoEffect /\ apiCfg' = apiCfg /\ apiRev' = apiRev
      BY <2>6 DEF Rests
    <3>2. ServedAllowed(R)'
      BY <2>3, <3>1 DEF ServedAllowed
    <3>3. EffectAllowed(C)'
      BY <2>4, <3>1 DEF EffectAllowed
    <3> QED BY <2>3, <2>5, <3>1, <3>2, <3>3
  <2>7. ASSUME NEW r \in R, Arrives(r, C) PROVE AccessInv(R, C)'
    <3>1. PICK q \in Query(C), p \in Principals :
             /\ req' = [req EXCEPT ![r] = [stage |-> "handle", q |-> q, seen |-> apiCfg, valid |-> p]]
             /\ Allowed(q, p)
      BY <2>7 DEF Arrives
    <3> DEFINE x == [stage |-> "handle", q |-> q, seen |-> apiCfg, valid |-> p]
    <3>2. x \in Served(C) /\ x.stage = "handle" /\ x.q = q /\ x.valid = p
      BY <2>3 DEF Served
    <3>3. /\ req' = [req EXCEPT ![r] = x] /\ last' = Ac!NoEffect /\ UNCHANGED <<apiCfg, apiRev>>
      BY <2>7, <3>1 DEF Arrives
    <3> HIDE DEF x
    <3>4. req' \in [R -> {Ac!Idle} \cup Served(C)] /\ req'[r] = x /\ \A s \in R : s # r => req'[s] = req[s]
      BY <2>3, <2>7, <3>2, <3>3
    <3>5. ServedAllowed(R)'
      BY <2>3, <3>1, <3>2, <3>4 DEF ServedAllowed
    <3> QED BY <2>3, <2>4, <2>5, <3>3, <3>4, <3>5 DEF EffectAllowed
  <2>8. ASSUME NEW r \in R, Reads(r) PROVE AccessInv(R, C)'
    <3> DEFINE x == [req[r] EXCEPT !.stage = "apply", !.seen = apiCfg]
    <3>1. req[r] \in Served(C) /\ req[r].stage = "handle" /\ req[r].q.route = "apps"
      BY <2>4, <2>8 DEF Reads
    <3>2. x \in Served(C) /\ x.stage = "apply" /\ x.q = req[r].q /\ x.valid = req[r].valid /\ x.seen = apiCfg
      BY <2>3, <3>1 DEF Served
    <3>3. /\ req' = [req EXCEPT ![r] = x] /\ last' = Ac!NoEffect /\ UNCHANGED <<apiCfg, apiRev>>
      BY <2>8 DEF Reads
    <3> HIDE DEF x
    <3>4. req' \in [R -> {Ac!Idle} \cup Served(C)] /\ req'[r] = x /\ \A s \in R : s # r => req'[s] = req[s]
      BY <2>3, <2>8, <3>2, <3>3
    <3>5. ServedAllowed(R)'
      BY <2>3, <2>8, <3>1, <3>2, <3>4 DEF ServedAllowed
    <3> QED BY <2>3, <2>4, <2>5, <3>3, <3>4, <3>5 DEF EffectAllowed
  <2>9. ASSUME NEW r \in R, Ends(r) PROVE AccessInv(R, C)'
    <3>1. /\ req[r] \in Served(C) /\ req[r].stage # "idle" /\ Allowed(req[r].q, req[r].valid)
          /\ req' = [req EXCEPT ![r] = Ac!Idle] /\ (last' = Ac!NoEffect \/ TakesEffect(r))
      BY <2>3, <2>4, <2>9 DEF Ends, ServedAllowed
    <3>2. req' \in [R -> {Ac!Idle} \cup Served(C)] /\ req'[r].stage = "idle" /\ \A s \in R : s # r => req'[s] = req[s]
      BY <2>3, <2>4, <2>9, <3>1
    <3>3. ServedAllowed(R)'
      BY <2>3, <3>2 DEF ServedAllowed
    <3>4. EffectAllowed(C)'
      BY <2>4, <3>1 DEF EffectAllowed, TakesEffect, Served
    <3>5. /\ apiCfg' \in Settings /\ (UNCHANGED <<apiCfg, apiRev>> \/ apiRev' = apiRev + 1)
      <4>1. CASE UNCHANGED <<apiCfg, apiRev>>
        BY <2>3, <4>1
      <4>2. CASE /\ req[r].stage = "handle" /\ req[r].q.route = "put"
                 /\ apiCfg' = [apiCfg EXCEPT !.trust = req[r].q.arg] /\ apiRev' = apiRev + 1
        <5>1. req[r].q \in Query(C)
          BY <3>1 DEF Served
        <5>2. req[r].q.arg \in BOOLEAN
          BY <4>2, <5>1 DEF Query
        <5> QED BY <2>3, <4>2, <5>2 DEF Settings
      <4>3. CASE /\ req[r].stage = "apply"
                 /\ apiCfg' = [req[r].seen EXCEPT !.apps = 1 - apiCfg.apps] /\ apiRev' = apiRev + 1
        <5>1. req[r].seen \in Settings /\ 1 - apiCfg.apps \in 0..1
          BY <2>3, <3>1 DEF Served, Settings
        <5> QED BY <4>3, <5>1 DEF Settings
      <4> QED BY <2>9, <4>1, <4>2, <4>3 DEF Ends
    <3>6. apiRev' \in Nat
      BY <2>3, <3>5
    <3> QED BY <2>5, <3>2, <3>3, <3>4, <3>5, <3>6
  <2> QED BY <2>1, <2>6, <2>7, <2>8, <2>9
<1> QED BY <1>1, <1>2

-----------------------------------------------------------------------------
(* Who may change what, and how long sessions last.                         *)

(* What took effect was allowed, and few codes were guessed.                *)
LEMMA AllowedChanges ==
    ASSUME NEW R, NEW C
    PROVE  AccessInv(R, C) /\ Ac!AccessConstants =>
              Ac!WritesNeedAToken /\ Ac!TokenlessOnlyPauses /\ Ac!CodesNeedManagement /\ Ac!GuessesLimited
<1> SUFFICES ASSUME AccessInv(R, C), Ac!AccessConstants
             PROVE  Ac!WritesNeedAToken /\ Ac!TokenlessOnlyPauses /\ Ac!CodesNeedManagement /\ Ac!GuessesLimited
  OBVIOUS
<1>1. EffectAllowed(C)
  BY DEF AccessInv
<1>2. Ac!WritesNeedAToken
  <2> SUFFICES ASSUME last.route \in {"put", "apps", "action", "report"}
               PROVE  \/ last.q.cred.kind = "management"
                      \/ last.valid = "session" /\ Ac!trustedLoopback(last.q)
                      \/ last.q.cred.kind = "agent" /\ last.route = "report"
    BY DEF Ac!WritesNeedAToken
  <2>1. Allowed(last.q, last.valid) /\ last.q.route = last.route
    BY <1>1 DEF EffectAllowed
  <2> QED BY <2>1 DEF Allowed
<1>3. Ac!TokenlessOnlyPauses
  <2> SUFFICES ASSUME last.route = "mode", last.q.cred.kind \notin {"management", "agent"}, last.valid # "session"
               PROVE  /\ last.q.cred.kind = "none" /\ last.q.arg \in {"pause", "auto"}
                      /\ Ac!trustedLoopback(last.q) /\ last.q.json /\ last.q.from # "other_page"
    BY DEF Ac!TokenlessOnlyPauses
  <2>1. /\ Allowed(last.q, last.valid) /\ last.q.route = "mode" /\ last.q \in Query(C)
        /\ last.q.cred.kind # "none" \/ last.q.arg # "ai_priority"
    BY <1>1 DEF EffectAllowed
  <2>2. last.q.arg \in {"pause", "auto", "ai_priority"}
    BY <2>1 DEF Query
  <2> QED BY <2>1, <2>2 DEF Allowed
<1>4. Ac!CodesNeedManagement
  BY <1>1 DEF EffectAllowed, Ac!CodesNeedManagement
<1>5. Ac!GuessesLimited
  <2>1. \A t \in Int : Cardinality(MissesIn(misses, t, t + Window)) <= 2 * MaxRedeemFailure
    BY DEF AccessInv, Limited
  <2>2. \A t \in 1..MaxNow : t \in Int /\ Ac!Cardinality({m \in misses : m[1] \in t..t + Window}) <= 2 * MaxRedeemFailure
    BY <2>1, SameCounts DEF MissesIn
  <2> QED BY <2>2 DEF Ac!GuessesLimited
<1> QED BY <1>2, <1>3, <1>4, <1>5

(* A session lets nobody in after its end.                                  *)
LEMMA LiveWhenUsed ==
    ASSUME NEW R, NEW C, AccessInv(R, C), AccessStep(R, C) \/ UNCHANGED signinVars, NEW r \in R,
           req[r].stage = "idle", req'[r].stage = "handle", req'[r].valid = "session"
    PROVE  now < sessions[req'[r].q.cred.token]
<1>1. req \in [R -> {Ac!Idle} \cup Served(C)] /\ Ac!Idle.stage = "idle"
  BY DEF AccessInv, AccessType, Ac!Idle
<1>2. req' # req
  BY DEF Served
<1>3. PICK s \in R : Arrives(s, C) \/ Reads(s) \/ Ends(s)
  BY <1>2 DEF AccessStep, Rests, signinVars
<1>4. CASE Arrives(s, C)
  <2>1. PICK q \in Query(C), p \in Principals :
           /\ req' = [req EXCEPT ![s] = [stage |-> "handle", q |-> q, seen |-> apiCfg, valid |-> p]]
           /\ p = "session" => now < sessions[q.cred.token]
    BY <1>4 DEF Arrives
  <2>2. s = r
    BY <1>1, <2>1
  <2>3. req'[r].q = q /\ req'[r].valid = p
    BY <1>1, <2>1, <2>2
  <2> QED BY <2>1, <2>3
<1>5. CASE Reads(s)
  <2>1. req[s].stage = "handle" /\ \A t \in R : t # s => req'[t] = req[t]
    BY <1>1, <1>5 DEF Reads
  <2> QED BY <2>1
<1>6. CASE Ends(s)
  BY <1>1, <1>6 DEF Ends
<1> QED BY <1>3, <1>4, <1>5, <1>6

-----------------------------------------------------------------------------
(* Codes and the sessions they earn, where several codes are used.          *)

CodesInv ==
    /\ now \in 1..MaxNow /\ issued \in 0..MaxIssued /\ apiRev \in 0..MaxRev /\ Cardinality(misses) <= MaxMisses
    /\ codes \in [Codes -> 0..MaxNow + CodeTTL] /\ sessions \in [Ac!Tokens -> 0..MaxNow + SessionTTL]
    /\ reg \in [Codes -> Nat]
    /\ IsFiniteSet(Ac!Pending) /\ Cardinality(Ac!Pending) <= MaxPendingCodes
    /\ \A c \in Codes : codes[c] # 0 => reg[c] # 0 /\ codes[c] = reg[c] + CodeTTL

\* What a step does to codes and sessions.
Quiet ==
    /\ UNCHANGED <<codes, issued, misses, reg>>
    /\ sessions' = sessions \/ \E cred : sessions' = Ac!Forget(cred)
    /\ now' = now \/ (now < MaxNow /\ now' = now + 1)
    /\ apiRev' = apiRev \/ (apiRev < MaxRev /\ apiRev' = apiRev + 1)

(* Every step of the part "signin" is one of these.                         *)
LEMMA SigninMoves ==
    ASSUME AccessInv(Requests, Codes), Ac!Next \/ UNCHANGED signinVars
    PROVE  \/ Quiet
           \/ \E c \in Codes : Ac!Register(c) /\ UNCHANGED <<now, sessions, issued, misses, apiRev>>
           \/ \E c \in Codes : Ac!Redeem(c) /\ UNCHANGED <<now, apiRev>>
<1>1. UNCHANGED signinVars => Quiet
  BY DEF signinVars, Quiet
<1>2. \A r, q : Ac!Arrive(r, q) => Quiet
  BY DEF Ac!Arrive, Quiet
<1>3. \A r : Ac!Reject(r) \/ Ac!Answer(r) \/ Ac!putConfig(r) \/ Ac!putApplications(r) \/ Ac!applyApplications(r) => Quiet
  BY DEF Ac!Reject, Ac!Answer, Ac!putConfig, Ac!putApplications, Ac!applyApplications, Quiet
<1>4. \A r : Ac!putMode(r) => Quiet
  BY DEF Ac!putMode, Quiet
<1>5. (\A t : Ac!Refuse(t) => Quiet) /\ (Ac!Tick => Quiet)
  BY DEF Ac!Refuse, Ac!Tick, Quiet
<1>6. \A r \in Requests : req[r].stage = "handle" /\ req[r].q.route \in {"codes", "redeem"} => req[r].q.arg \in Codes
  <2> SUFFICES ASSUME NEW r \in Requests, req[r].stage = "handle", req[r].q.route \in {"codes", "redeem"} PROVE req[r].q.arg \in Codes
    OBVIOUS
  <2>1. req[r] \in Served(Codes)
    BY DEF AccessInv, AccessType, Ac!Idle
  <2>2. req[r].q \in Query(Codes)
    BY <2>1 DEF Served
  <2> QED BY <2>2 DEF Query
<1>7. ASSUME NEW r \in Requests, Ac!registerSignIn(r)
      PROVE  \E c \in Codes : Ac!Register(c) /\ UNCHANGED <<now, sessions, issued, misses, apiRev>>
  <2>1. /\ req[r].q.arg \in Codes /\ Ac!Register(req[r].q.arg) /\ UNCHANGED <<now, sessions, issued, misses, apiRev>>
    BY <1>6, <1>7 DEF Ac!registerSignIn, Ac!At
  <2> QED BY <2>1
<1>8. ASSUME NEW r \in Requests, Ac!redeemSignIn(r) PROVE \E c \in Codes : Ac!Redeem(c) /\ UNCHANGED <<now, apiRev>>
  <2>1. req[r].q.arg \in Codes /\ Ac!Redeem(req[r].q.arg) /\ UNCHANGED <<now, apiRev>>
    BY <1>6, <1>8 DEF Ac!redeemSignIn, Ac!At
  <2> QED BY <2>1
<1> QED BY <1>1, <1>2, <1>3, <1>4, <1>5, <1>7, <1>8, Zenon DEF Ac!Next

(* A set with one more element.                                             *)
LEMMA OneMoreOf ==
    ASSUME NEW S, IsFiniteSet(S), NEW x
    PROVE  IsFiniteSet(S \cup {x}) /\ Cardinality(S \cup {x}) \in Nat /\ Cardinality(S) \in Nat
           /\ Cardinality(S \cup {x}) <= Cardinality(S) + 1
<1>1. Cardinality(S) \in Nat
  BY FS_CardinalityType
<1>2. IsFiniteSet(S \cup {x}) /\ Cardinality(S \cup {x}) \in {Cardinality(S), Cardinality(S) + 1}
  BY FS_AddElement
<1> QED BY <1>1, <1>2

(* No more codes are pending than may be, each as it was registered.        *)
LEMMA CodesKeep ==
    ASSUME Ac!AccessConstants, AccessInv(Requests, Codes), CodesInv, Ac!Next \/ UNCHANGED signinVars
    PROVE  CodesInv' /\ Ac!SessionsComeFromCodes
<1> DEFINE P == Ac!Pending
<1>1. /\ MaxNow \in Nat /\ MaxIssued \in Nat /\ MaxRev \in Nat /\ CodeTTL \in Nat \ {0} /\ SessionTTL \in Nat \ {0}
      /\ MaxPendingCodes \in Nat \ {0} /\ MaxMisses \in Nat /\ now \in 1..MaxNow /\ issued \in 0..MaxIssued
      /\ codes \in [Codes -> 0..MaxNow + CodeTTL] /\ sessions \in [Ac!Tokens -> 0..MaxNow + SessionTTL] /\ reg \in [Codes -> Nat]
      /\ IsFiniteSet(P) /\ Cardinality(P) \in Nat /\ Cardinality(P) <= MaxPendingCodes
      /\ \A c \in Codes : codes[c] # 0 => reg[c] # 0 /\ codes[c] = reg[c] + CodeTTL
  BY FS_CardinalityType DEF CodesInv, Ac!AccessConstants
<1>2. \A cred : Ac!Forget(cred) \in [Ac!Tokens -> 0..MaxNow + SessionTTL]
  BY <1>1 DEF Ac!Forget
<1>3. ASSUME NEW S, S \subseteq P PROVE IsFiniteSet(S) /\ Cardinality(S) <= MaxPendingCodes
  <2>1. Cardinality(S) <= Cardinality(P) /\ IsFiniteSet(S) /\ Cardinality(S) \in Nat
    BY <1>1, <1>3, FS_Subset, FS_CardinalityType
  <2> QED BY <1>1, <2>1
<1>4. P' = {c \in Codes : codes'[c] # 0 /\ now' < codes'[c]} /\ P = {c \in Codes : codes[c] # 0 /\ now < codes[c]}
  BY DEF Ac!Pending
<1> HIDE DEF P
<1>5. CASE Quiet
  <2>1. now' \in 1..MaxNow /\ issued' = issued /\ apiRev' \in 0..MaxRev /\ codes' = codes /\ reg' = reg /\ misses' = misses /\ now <= now'
    BY <1>1, <1>5 DEF Quiet, CodesInv
  <2>2. sessions' \in [Ac!Tokens -> 0..MaxNow + SessionTTL]
    BY <1>1, <1>2, <1>5 DEF Quiet
  <2>3. P' \subseteq P
    BY <1>1, <1>4, <2>1
  <2>4. IsFiniteSet(P') /\ Cardinality(P') <= MaxPendingCodes
    BY <1>3, <2>3
  <2>5. Ac!SessionsComeFromCodes
    BY <2>1 DEF Ac!SessionsComeFromCodes
  <2> QED BY <1>1, <2>1, <2>2, <2>4, <2>5 DEF CodesInv, Ac!Tokens, P
<1>6. ASSUME NEW c \in Codes, Ac!Register(c), UNCHANGED <<now, sessions, issued, misses, apiRev>>
      PROVE  CodesInv' /\ Ac!SessionsComeFromCodes
  <2>1. CASE Cardinality(P) >= MaxPendingCodes
    <3>1. codes' = [k \in Codes |-> IF k \in P THEN codes[k] ELSE 0] /\ reg' = reg
      BY <1>6, <2>1, SameCounts DEF Ac!Register, P
    <3>2. P' \subseteq P /\ codes' \in [Codes -> 0..MaxNow + CodeTTL] /\ \A k \in Codes : codes'[k] # 0 => codes'[k] = codes[k]
      BY <1>1, <1>4, <1>6, <3>1
    <3>3. IsFiniteSet(P') /\ Cardinality(P') <= MaxPendingCodes
      BY <1>3, <3>2
    <3>4. \A k \in Codes : codes'[k] # 0 => reg'[k] # 0 /\ codes'[k] = reg'[k] + CodeTTL
      BY <1>1, <3>1, <3>2
    <3> QED BY <1>1, <1>6, <3>1, <3>2, <3>3, <3>4 DEF CodesInv, Ac!Tokens, P, Ac!SessionsComeFromCodes
  <2>2. CASE ~(Cardinality(P) >= MaxPendingCodes)
    <3>1. /\ codes' = [k \in Codes |-> IF k = c THEN now + CodeTTL ELSE IF k \in P THEN codes[k] ELSE 0]
          /\ reg' = [reg EXCEPT ![c] = now]
      BY <1>6, <2>2, SameCounts DEF Ac!Register, P
    <3>2. P' \subseteq P \cup {c} /\ codes' \in [Codes -> 0..MaxNow + CodeTTL] /\ reg' \in [Codes -> Nat]
      BY <1>1, <1>4, <1>6, <3>1
    <3>3. IsFiniteSet(P \cup {c}) /\ Cardinality(P \cup {c}) <= Cardinality(P) + 1 /\ Cardinality(P \cup {c}) \in Nat
      BY <1>1, OneMoreOf
    <3>4. IsFiniteSet(P') /\ Cardinality(P') <= Cardinality(P \cup {c}) /\ Cardinality(P') \in Nat
      BY <3>2, <3>3, FS_Subset, FS_CardinalityType
    <3>5. Cardinality(P') <= MaxPendingCodes
      BY <1>1, <2>2, <3>3, <3>4
    <3>6. \A k \in Codes : codes'[k] # 0 => reg'[k] # 0 /\ codes'[k] = reg'[k] + CodeTTL
      BY <1>1, <3>1
    <3> QED BY <1>1, <1>6, <3>2, <3>4, <3>5, <3>6 DEF CodesInv, Ac!Tokens, P, Ac!SessionsComeFromCodes
  <2> QED BY <2>1, <2>2
<1>7. ASSUME NEW c \in Codes, Ac!Redeem(c), UNCHANGED <<now, apiRev>> PROVE CodesInv' /\ Ac!SessionsComeFromCodes
  <2>1. CASE UNCHANGED <<codes, sessions, issued, misses, reg>>
    <3>1. P' = P
      BY <1>4, <1>7, <2>1
    <3> QED BY <1>1, <1>7, <2>1, <3>1 DEF CodesInv, Ac!Tokens, P, Ac!SessionsComeFromCodes
  <2>2. CASE /\ c \notin P /\ Cardinality(misses) < MaxMisses /\ codes' = [codes EXCEPT ![c] = 0]
             /\ misses' = misses \cup {<<now, Cardinality(misses)>>} /\ UNCHANGED <<sessions, issued, reg>>
    <3>1. P' \subseteq P /\ codes' \in [Codes -> 0..MaxNow + CodeTTL] /\ \A k \in Codes : codes'[k] # 0 => codes'[k] = codes[k]
      BY <1>1, <1>4, <1>7, <2>2
    <3>2. IsFiniteSet(P') /\ Cardinality(P') <= MaxPendingCodes
      BY <1>3, <3>1
    <3>3. Cardinality(misses') <= MaxMisses
      <4>1. IsFiniteSet(misses) /\ Cardinality(misses) \in Nat
        BY FS_CardinalityType DEF AccessInv, AccessType
      <4>2. Cardinality(misses') <= Cardinality(misses) + 1 /\ Cardinality(misses') \in Nat
        BY <2>2, <4>1, OneMoreOf
      <4> QED BY <1>1, <2>2, <4>1, <4>2
    <3> QED BY <1>1, <1>7, <2>2, <3>1, <3>2, <3>3 DEF CodesInv, Ac!Tokens, P, Ac!SessionsComeFromCodes
  <2>3. CASE /\ c \in P /\ issued < MaxIssued /\ codes' = [codes EXCEPT ![c] = 0] /\ misses' = misses
             /\ reg' = [reg EXCEPT ![c] = 0] /\ Ac!Issue
    <3>1. /\ P' \subseteq P /\ codes' \in [Codes -> 0..MaxNow + CodeTTL] /\ reg' \in [Codes -> Nat]
          /\ \A k \in Codes : codes'[k] # 0 => codes'[k] = codes[k] /\ reg'[k] = reg[k]
      BY <1>1, <1>4, <1>7, <2>3
    <3>2. IsFiniteSet(P') /\ Cardinality(P') <= MaxPendingCodes
      BY <1>3, <3>1
    <3>3. issued' = issued + 1 /\ issued' \in 0..MaxIssued
      BY <1>1, <2>3 DEF Ac!Issue
    <3>4. sessions' \in [Ac!Tokens -> 0..MaxNow + SessionTTL]
      BY <1>1, <2>3 DEF Ac!Issue
    <3>5. Ac!SessionsComeFromCodes
      <4>1. codes[c] # 0 /\ now < codes[c]
        BY <1>4, <2>3
      <4>2. reg[c] # 0 /\ now < reg[c] + CodeTTL /\ reg'[c] = 0
        BY <1>1, <2>3, <4>1
      <4> QED BY <4>2 DEF Ac!SessionsComeFromCodes
    <3>6. \A k \in Codes : codes'[k] # 0 => reg'[k] # 0 /\ codes'[k] = reg'[k] + CodeTTL
      BY <1>1, <3>1
    <3> QED BY <1>1, <1>7, <2>3, <3>1, <3>2, <3>3, <3>4, <3>5, <3>6 DEF CodesInv, Ac!Tokens, P
  <2> DEFINE f == IF now - failFrom > Window THEN 0 ELSE failures
  <2>4. CASE f >= MaxRedeemFailure
    BY <1>7, <2>1, <2>4 DEF Ac!Redeem
  <2>5. CASE ~(f >= MaxRedeemFailure) /\ c \in P
    <3>1. /\ issued < MaxIssued /\ codes' = [codes EXCEPT ![c] = 0] /\ misses' = misses
          /\ reg' = [reg EXCEPT ![c] = 0] /\ Ac!Issue
      BY <1>7, <2>5 DEF Ac!Redeem, P
    <3> QED BY <2>3, <2>5, <3>1
  <2>6. CASE ~(f >= MaxRedeemFailure) /\ c \notin P
    <3>1. Cardinality(misses) < MaxMisses /\ codes' = [codes EXCEPT ![c] = 0]
      BY <1>7, <2>6, SameCounts DEF Ac!Redeem, P
    <3>2. misses' = misses \cup {<<now, Cardinality(misses)>>} /\ UNCHANGED <<sessions, issued, reg>>
      BY <1>7, <2>6, SameCounts DEF Ac!Redeem, P
    <3> QED BY <2>2, <2>6, <3>1, <3>2
  <2> QED BY <2>4, <2>5, <2>6
<1> QED BY <1>5, <1>6, <1>7, SigninMoves

-----------------------------------------------------------------------------
(* The sessions kept, where more are issued than are kept.                  *)

SessionsInv ==
    /\ now \in Nat /\ issued \in 0..3 /\ sessions \in [As!Tokens -> Nat]
    /\ \A t \in As!Tokens : sessions[t] # 0 => t <= issued

(* What a step does to the sessions.                                        *)
LEMMA SessionMoves ==
    ASSUME As!Next \/ UNCHANGED signinVars
    PROVE  \/ /\ issued' = issued /\ (now' = now \/ now' = now + 1)
              /\ sessions' = sessions \/ (now' = now /\ \E cred : sessions' = As!Forget(cred))
           \/ now' = now /\ issued < 3 /\ As!Issue
<1> DEFINE Quiet_ == /\ issued' = issued /\ (now' = now \/ now' = now + 1)
                     /\ sessions' = sessions \/ (now' = now /\ \E cred : sessions' = As!Forget(cred))
<1>1. UNCHANGED signinVars => Quiet_
  BY DEF signinVars
<1>2. \A r, q : As!Arrive(r, q) => Quiet_
  BY DEF As!Arrive
<1>3. \A r : As!Reject(r) \/ As!Answer(r) \/ As!putConfig(r) \/ As!putApplications(r) \/ As!applyApplications(r) => Quiet_
  BY DEF As!Reject, As!Answer, As!putConfig, As!putApplications, As!applyApplications
<1>4. \A r : As!putMode(r) => Quiet_
  BY DEF As!putMode
<1>5. (\A t : As!Refuse(t) => Quiet_) /\ (As!Tick => Quiet_)
  BY DEF As!Refuse, As!Tick
<1>6. \A r : As!registerSignIn(r) => Quiet_
  BY DEF As!registerSignIn
<1>7. \A r : As!redeemSignIn(r) => Quiet_ \/ (now' = now /\ issued < 3 /\ As!Issue)
  BY DEF As!redeemSignIn, As!Redeem
<1> HIDE DEF Quiet_
<1>8. Quiet_ \/ (now' = now /\ issued < 3 /\ As!Issue)
  BY <1>1, <1>2, <1>3, <1>4, <1>5, <1>6, <1>7, Zenon DEF As!Next
<1> QED BY <1>8 DEF Quiet_

(* A session makes room only for newer ones.                                *)
LEMMA NewestKept ==
    ASSUME Ac!AccessConstants, SessionsInv, As!Next \/ UNCHANGED signinVars
    PROVE  SessionsInv' /\ As!NewestSessionsKept
<1>1. /\ now \in Nat /\ issued \in 0..3 /\ sessions \in [As!Tokens -> Nat] /\ As!Tokens = 1..3
      /\ \A t \in As!Tokens : sessions[t] # 0 => t <= issued
  BY DEF SessionsInv, As!Tokens
<1>2. CASE /\ issued' = issued /\ (now' = now \/ now' = now + 1)
           /\ sessions' = sessions \/ (now' = now /\ \E cred : sessions' = As!Forget(cred))
  <2>1. CASE sessions' = sessions
    BY <1>1, <1>2, <2>1 DEF SessionsInv, As!NewestSessionsKept, As!Tokens
  <2>2. CASE \E cred : sessions' = As!Forget(cred)
    <3>1. PICK cred : sessions' = As!Forget(cred)
      BY <2>2
    <3>2. sessions' \in [As!Tokens -> Nat] /\ \A t \in As!Tokens : sessions'[t] = sessions[t] \/ (sessions'[t] = 0 /\ ~As!Live(t))
      BY <1>1, <3>1 DEF As!Forget
    <3>3. \A t \in As!Tokens : sessions[t] # 0 /\ sessions'[t] = 0 => sessions[t] <= now
      BY <1>1, <3>2 DEF As!Live
    <3>4. As!NewestSessionsKept
      BY <3>3 DEF As!NewestSessionsKept
    <3>5. SessionsInv'
      BY <1>1, <1>2, <3>2 DEF SessionsInv, As!Tokens
    <3> QED BY <3>4, <3>5
  <2> QED BY <1>2, <2>1, <2>2
<1>3. CASE now' = now /\ issued < 3 /\ As!Issue
  <2> DEFINE T == 1..3
             live == {t \in T : As!Live(t)}
             kept == IF Cardinality(live) >= 2 THEN live \ {As!Evicted(live)} ELSE live
             ttl == now + SessionTTL
  <2>1. /\ issued' = issued + 1 /\ issued' \in T
        /\ sessions' = [t \in T |-> IF t = issued' THEN ttl ELSE IF t \in kept THEN sessions[t] ELSE 0]
    BY <1>1, <1>3, SameCounts DEF As!Issue
  <2>2. ttl \in Nat /\ ttl # 0
    BY <1>1 DEF Ac!AccessConstants
  <2>3. kept \subseteq live /\ live \subseteq T /\ \A t \in T : t \in live <=> sessions[t] # 0 /\ now < sessions[t]
    BY DEF As!Live
  <2> HIDE DEF live, ttl
  <2>4. SessionsInv'
    <3>1. sessions' \in [T -> Nat] /\ \A t \in T : sessions'[t] # 0 => t = issued' \/ sessions[t] # 0
      BY <1>1, <2>1, <2>2, <2>3
    <3>2. \A t \in T : sessions'[t] # 0 => t <= issued'
      BY <1>1, <2>1, <3>1
    <3>3. now' \in Nat /\ issued' \in 0..3
      BY <1>1, <1>3, <2>1
    <3> QED BY <1>1, <3>1, <3>2, <3>3 DEF SessionsInv, As!Tokens
  <2>5. ASSUME NEW t \in T, sessions[t] # 0, sessions'[t] = 0, ~(sessions[t] <= now)
        PROVE  Cardinality({u \in T : u > t /\ sessions'[u] # 0}) >= 2
    <3>1. t \in live /\ t \notin kept /\ t # issued' /\ t <= issued
      BY <1>1, <2>1, <2>2, <2>3, <2>5
    <3>2. Cardinality(live) >= 2 /\ t = As!Evicted(live) /\ kept = live \ {t}
      BY <3>1
    <3> HIDE DEF kept
    <3>3. \A u \in live : t <= u
      <4>1. \E v \in live : \A u \in live : v <= u
        <5>1. CASE 1 \in live
          BY <2>3, <5>1
        <5>2. CASE 1 \notin live /\ 2 \in live
          BY <2>3, <5>2
        <5>3. CASE 1 \notin live /\ 2 \notin live
          BY <2>3, <3>1, <5>3
        <5> QED BY <5>1, <5>2, <5>3
      <4> QED BY <3>2, <4>1 DEF As!Evicted
    <3> DEFINE newer == {u \in T : u > t /\ sessions'[u] # 0}
    <3>4. kept \cup {issued'} \subseteq newer /\ issued' \notin kept
      <4>1. issued' > t /\ issued' \in T /\ sessions'[issued'] # 0 /\ issued' \notin live
        BY <1>1, <2>1, <2>2, <2>3, <3>1
      <4>2. ASSUME NEW u \in kept PROVE u \in T /\ u > t /\ sessions'[u] # 0
        <5>1. u \in live /\ u # t /\ u \in T /\ t <= u /\ sessions[u] # 0 /\ u # issued'
          BY <2>3, <3>2, <3>3, <4>1, <4>2
        <5> QED BY <2>1, <4>2, <5>1
      <4> QED BY <2>3, <4>1, <4>2
    <3>5. IsFiniteSet(T) /\ newer \subseteq T
      <4> DEFINE one == 1
                 three == 3
      <4>0. one \in Int /\ three \in Int
        OBVIOUS
      <4> HIDE DEF one, three
      <4>1. IsFiniteSet(one..three)
        BY <4>0, FS_Interval
      <4> QED BY <4>1 DEF one, three
    <3>6. IsFiniteSet(live) /\ IsFiniteSet(newer)
      BY <2>3, <3>5, FS_Subset
    <3> HIDE DEF newer
    <3>7. IsFiniteSet(kept) /\ Cardinality(kept) = Cardinality(live) - 1 /\ Cardinality(live) \in Nat
      BY <3>1, <3>2, <3>6, FS_RemoveElement, FS_CardinalityType
    <3>8. Cardinality(kept \cup {issued'}) = Cardinality(kept) + 1
      BY <3>4, <3>7, FS_AddElement
    <3>9. Cardinality(kept \cup {issued'}) <= Cardinality(newer) /\ Cardinality(newer) \in Nat
      BY <3>4, <3>6, FS_Subset, FS_CardinalityType
    <3>10. Cardinality(newer) >= 2
      BY <3>2, <3>7, <3>8, <3>9
    <3> QED BY <3>10 DEF newer
  <2>6. As!NewestSessionsKept
    BY <1>1, <2>5, SameCounts DEF As!NewestSessionsKept
  <2> QED BY <2>4, <2>6
<1> QED BY <1>2, <1>3, SessionMoves

-----------------------------------------------------------------------------

AccessPartInv ==
    /\ part = "signin" => AccessInv(Requests, Codes) /\ CodesInv
    /\ part = "rights" => AccessInv(Requests, {"c1"})
    /\ part = "sessions" => AccessInv(Requests, {"c1"}) /\ SessionsInv
    /\ part = "apps" => AccessInv({"r1", "r2"}, {"c1"})

(* The types follow.                                                        *)
LEMMA SigninTyped ==
    ASSUME Ac!AccessConstants
    PROVE  AccessInv(Requests, Codes) /\ CodesInv => Ac!TypeOK
<1> SUFFICES ASSUME AccessInv(Requests, Codes), CodesInv PROVE Ac!TypeOK
  OBVIOUS
<1>1. /\ failures \in Nat /\ failFrom \in Nat /\ apiCfg \in Settings /\ Cardinality(misses) \in Nat
      /\ failures <= Cardinality(misses) /\ failFrom <= now /\ MaxMisses \in Nat /\ MaxNow \in Nat
      /\ req \in [Requests -> {Ac!Idle} \cup Served(Codes)]
  BY FS_CardinalityType DEF AccessInv, AccessType, Limited, Ac!AccessConstants
<1>2. failures \in 0..MaxMisses /\ failFrom \in 0..MaxNow
  BY <1>1 DEF CodesInv
<1>3. \A r \in Requests : req[r].stage \in {"idle", "handle", "apply"}
  BY <1>1 DEF Served, Ac!Idle
<1>4. Ac!Cardinality(Ac!Pending) <= MaxPendingCodes
  BY SameCounts DEF CodesInv
<1>5. apiCfg \in [trust : BOOLEAN, apps : 0..1]
  BY <1>1 DEF Settings
<1> QED BY <1>2, <1>3, <1>4, <1>5 DEF Ac!TypeOK, CodesInv

(* What holds of the interface as the invariant says.                       *)
LEMMA AccessPartMeans ==
    AccessPartInv =>
        /\ part \in AccessParts => /\ Ac!WritesNeedAToken /\ Ac!TokenlessOnlyPauses /\ Ac!CodesNeedManagement
                                   /\ Ac!GuessesLimited
        /\ part = "signin" => Ac!TypeOK
<1>1. Ac!AccessConstants
  BY ConstantsAssumption
<1> QED BY <1>1, AllowedChanges, SigninTyped DEF AccessPartInv, AccessParts

(* Every instance starts as the invariant says.                             *)
LEMMA AccessPartStarts ==
    Init => AccessPartInv
<1> SUFFICES ASSUME Init PROVE AccessPartInv
  OBVIOUS
<1>1. Ac!AccessConstants
  BY ConstantsAssumption
<1>2. ASSUME part = "signin" PROVE AccessInv(Requests, Codes) /\ CodesInv
  <2>1. Ac!Init
    BY <1>2 DEF Init
  <2>2. AccessInv(Requests, Codes)
    BY <1>1, <2>1, InterfaceStarts DEF Ac!Init
  <2>3. Ac!Pending = {}
    BY <2>1 DEF Ac!Pending, Ac!Init
  <2>4. IsFiniteSet(Ac!Pending) /\ Cardinality(Ac!Pending) = 0 /\ Cardinality(misses) = 0
    BY <2>1, <2>3, FS_EmptySet DEF Ac!Init
  <2>5. /\ MaxNow \in Nat \ {0} /\ MaxIssued \in Nat /\ MaxRev \in Nat /\ MaxMisses \in Nat /\ CodeTTL \in Nat /\ SessionTTL \in Nat
        /\ MaxPendingCodes \in Nat
    BY <1>1 DEF Ac!AccessConstants
  <2>6. CodesInv
    BY <2>1, <2>4, <2>5 DEF Ac!Init, CodesInv
  <2> QED BY <2>2, <2>6
<1>3. ASSUME part = "rights" PROVE AccessInv(Requests, {"c1"})
  <2>1. Ar!Init
    BY <1>3 DEF Init
  <2> QED BY <1>1, <2>1, InterfaceStarts DEF Ar!Init, Ar!Idle, Ac!Idle, Ar!NoEffect, Ac!NoEffect
<1>4. ASSUME part = "sessions" PROVE AccessInv(Requests, {"c1"}) /\ SessionsInv
  <2>1. As!Init
    BY <1>4 DEF Init
  <2>2. AccessInv(Requests, {"c1"})
    BY <1>1, <2>1, InterfaceStarts DEF As!Init, As!Idle, Ac!Idle, As!NoEffect, Ac!NoEffect
  <2>3. SessionsInv
    BY <2>1 DEF As!Init, SessionsInv
  <2> QED BY <2>2, <2>3
<1>5. ASSUME part = "apps" PROVE AccessInv({"r1", "r2"}, {"c1"})
  <2>1. Aa!Init
    BY <1>5 DEF Init
  <2> QED BY <1>1, <2>1, InterfaceStarts DEF Aa!Init, Aa!Idle, Ac!Idle, Aa!NoEffect, Ac!NoEffect
<1> QED BY <1>2, <1>3, <1>4, <1>5 DEF AccessPartInv

(* Every instance keeps to it, step by step.                                *)
LEMMA AccessPartKeeps ==
    AccessPartInv /\ [Next]_vars =>
        /\ AccessPartInv' /\ part' = part
        /\ part = "apps" => Aa!SessionsExpire
        /\ part \in AccessParts \ {"apps"} => Ac!SessionsExpire
        /\ part = "signin" => Ac!SessionsComeFromCodes
        /\ part = "sessions" => As!NewestSessionsKept
<1> SUFFICES ASSUME AccessPartInv, [Next]_vars
             PROVE  /\ AccessPartInv' /\ part' = part
                    /\ part = "apps" => Aa!SessionsExpire
                    /\ part \in AccessParts \ {"apps"} => Ac!SessionsExpire
                    /\ part = "signin" => Ac!SessionsComeFromCodes
                    /\ part = "sessions" => As!NewestSessionsKept
  OBVIOUS
<1>1. Ac!AccessConstants
  BY ConstantsAssumption
<1>2. part' = part
  BY DEF Next, CsMoves, BrMoves, HkMoves, AcMoves, CrMoves, ArMoves, AsMoves, AaMoves, vars
<1>3. ASSUME part = "signin"
      PROVE  AccessInv(Requests, Codes)' /\ CodesInv' /\ Ac!SessionsExpire /\ Ac!SessionsComeFromCodes
  <2>1. AccessInv(Requests, Codes) /\ CodesInv /\ (Ac!Next \/ UNCHANGED signinVars)
    BY <1>3 DEF AccessPartInv, Next, CsMoves, BrMoves, HkMoves, AcMoves, CrMoves, ArMoves, AsMoves, AaMoves, vars
  <2>2. AccessStep(Requests, Codes) \/ UNCHANGED signinVars
    BY <1>1, <2>1, SigninSteps DEF AccessInv
  <2>3. Ac!SessionsExpire
    BY <2>1, <2>2, LiveWhenUsed DEF Ac!SessionsExpire
  <2> QED BY <1>1, <2>1, <2>2, <2>3, InterfaceKeeps, CodesKeep
<1>4. ASSUME part = "rights" PROVE AccessInv(Requests, {"c1"})' /\ Ac!SessionsExpire
  <2>1. AccessInv(Requests, {"c1"}) /\ (Ar!Next \/ UNCHANGED signinVars)
    BY <1>4 DEF AccessPartInv, Next, CsMoves, BrMoves, HkMoves, AcMoves, CrMoves, ArMoves, AsMoves, AaMoves, vars
  <2>2. AccessStep(Requests, {"c1"}) \/ UNCHANGED signinVars
    BY <1>1, <2>1, RightsSteps DEF AccessInv
  <2>3. Ac!SessionsExpire
    BY <2>1, <2>2, LiveWhenUsed DEF Ac!SessionsExpire
  <2> QED BY <1>1, <2>1, <2>2, <2>3, InterfaceKeeps
<1>5. ASSUME part = "sessions" PROVE AccessInv(Requests, {"c1"})' /\ SessionsInv' /\ Ac!SessionsExpire /\ As!NewestSessionsKept
  <2>1. AccessInv(Requests, {"c1"}) /\ SessionsInv /\ (As!Next \/ UNCHANGED signinVars)
    BY <1>5 DEF AccessPartInv, Next, CsMoves, BrMoves, HkMoves, AcMoves, CrMoves, ArMoves, AsMoves, AaMoves, vars
  <2>2. AccessStep(Requests, {"c1"}) \/ UNCHANGED signinVars
    BY <1>1, <2>1, SessionsSteps DEF AccessInv
  <2>3. Ac!SessionsExpire
    BY <2>1, <2>2, LiveWhenUsed DEF Ac!SessionsExpire
  <2> QED BY <1>1, <2>1, <2>2, <2>3, InterfaceKeeps, NewestKept
<1>6. ASSUME part = "apps" PROVE AccessInv({"r1", "r2"}, {"c1"})' /\ Aa!SessionsExpire
  <2>1. AccessInv({"r1", "r2"}, {"c1"}) /\ (Aa!Next \/ UNCHANGED signinVars)
    BY <1>6 DEF AccessPartInv, Next, CsMoves, BrMoves, HkMoves, AcMoves, CrMoves, ArMoves, AsMoves, AaMoves, vars
  <2>2. AccessStep({"r1", "r2"}, {"c1"}) \/ UNCHANGED signinVars
    BY <1>1, <2>1, AppsSteps DEF AccessInv
  <2>3. Aa!SessionsExpire
    BY <2>1, <2>2, LiveWhenUsed DEF Aa!SessionsExpire
  <2> QED BY <1>1, <2>1, <2>2, <2>3, InterfaceKeeps
<1>7. AccessPartInv'
  BY <1>2, <1>3, <1>4, <1>5, <1>6 DEF AccessPartInv
<1> QED BY <1>2, <1>3, <1>4, <1>5, <1>6, <1>7 DEF AccessParts

(* However requests interleave and whatever they carry: writes need a token *)
(* or a session, without one only Pause and Auto from this PC pass, and     *)
(* codes are minted with the management token only (Authorize, putMode,     *)
(* registerSignIn).                                                         *)
THEOREM ChangesAllowed == Spec => OnlyAllowedChanges
<1>1. AccessPartInv' =>
        (part \in AccessParts => /\ Ac!WritesNeedAToken /\ Ac!TokenlessOnlyPauses /\ Ac!CodesNeedManagement /\ Ac!GuessesLimited)'
  BY AccessPartMeans, PTL
<1>2. AccessPartInv /\ [Next]_vars =>
        /\ AccessPartInv'
        /\ (part \in AccessParts => Ac!WritesNeedAToken /\ Ac!TokenlessOnlyPauses /\ Ac!CodesNeedManagement)'
  BY <1>1, AccessPartKeeps
<1> QED BY <1>2, AccessPartStarts, PTL DEF Spec, OnlyAllowedChanges

(* For any lifetimes, limits and bounds: a session is issued only for a     *)
(* code registered not long before and for one redemption, none is used     *)
(* past its expiry or ended before it except for newer ones, and guessing   *)
(* codes is limited in every stretch of time (redeem, Live, Issue).         *)
THEOREM SessionsEarned == Spec => SessionsAreEarned
<1>1. AccessPartInv' =>
        (/\ part \in AccessParts => /\ Ac!WritesNeedAToken /\ Ac!TokenlessOnlyPauses /\ Ac!CodesNeedManagement
                                    /\ Ac!GuessesLimited
         /\ part = "signin" => Ac!TypeOK)'
  BY AccessPartMeans, PTL
<1>2. AccessPartInv /\ [Next]_vars =>
        /\ AccessPartInv'
        /\ part \in AccessParts => Ac!GuessesLimited'
        /\ part \in AccessParts \ {"apps"} => Ac!SessionsExpire
        /\ part = "apps" => Aa!SessionsExpire
        /\ part = "signin" => Ac!TypeOK' /\ Ac!SessionsComeFromCodes
        /\ part = "sessions" => As!NewestSessionsKept
  BY <1>1, AccessPartKeeps
<1> QED BY <1>2, AccessPartStarts, PTL DEF Spec, SessionsAreEarned

-----------------------------------------------------------------------------
(* The hourly statistics.                                                  *)

HourStats == [avail : Nat, unavail : Nat]
InHourOf(h) == {t \in recorded : Hk!hourKey(t) = h}
Sum(h) == stats[h].avail + stats[h].unavail
Today == clock \div Day
Days == 0..(LastTick \div Day)

HousekeepingType ==
    /\ clock \in Nat /\ jobUp \in BOOLEAN /\ lastTick \in Nat /\ lastPrune \in Nat /\ lastTick <= clock /\ faults \in Nat
    /\ stats \in [Hk!Hours -> HourStats] /\ available \in BOOLEAN
    /\ recorded \subseteq Nat /\ \A t \in recorded : t < lastTick
    /\ warnings \in [Days -> Nat]

\* An hour holds the time recorded for it, or had ended long enough before the
\* last tick, so that nothing is added to it any more.
HoursKept ==
    \A h \in Hk!Hours : \/ Sum(h) = Cardinality(InHourOf(h))
                        \/ Sum(h) = 0 /\ MaxAge > 0 /\ h + Hour + MaxAge <= lastTick

\* Today has a warning more than there were restarts only after its check.
WarningsKept ==
    /\ \A d \in Days : warnings[d] <= 1 + faults /\ (d > Today => warnings[d] = 0)
    /\ Today \in Days /\ (~jobUp \/ lastCertDay # Hk!YearDay(clock)) => warnings[Today] <= faults

HousekeepingInv == HousekeepingType /\ HoursKept /\ WarningsKept

(* Division with a remainder.                                               *)
LEMMA Divides ==
    ASSUME NEW n \in Nat \ {0}, NEW t \in Nat
    PROVE  t \div n \in Nat /\ t % n \in 0..n - 1 /\ t = n * (t \div n) + (t % n)
  OBVIOUS

(* Successive multiples.                                                    *)
LEMMA Multiples ==
    ASSUME NEW n \in Nat \ {0}, NEW p \in Nat, NEW q \in Nat, p < q
    PROVE  n * p + n <= n * q
  OBVIOUS

(* Later times are of later days.                                           *)
LEMMA DaysGrow ==
    ASSUME NEW n \in Nat \ {0}, NEW s \in Nat, NEW t \in Nat, s <= t
    PROVE  s \div n <= t \div n /\ s \div n \in Nat /\ t \div n \in Nat
  OBVIOUS

(* The hour of a time is the one it lies in.                                *)
LEMMA HourOfTime ==
    ASSUME Hk!HousekeepingAssumption, NEW h \in Hk!Hours, NEW t \in Nat
    PROVE  h \in Nat /\ (Hk!hourKey(t) = h <=> h <= t /\ t < h + Hour)
<1>1. Hour \in Nat \ {0} /\ LastTick \in Nat
  BY DEF Hk!HousekeepingAssumption
<1>2. PICK s \in 0..LastTick : h = s - (s % Hour)
  BY DEF Hk!Hours, Hk!hourKey
<1> DEFINE p == s \div Hour
           q == t \div Hour
<1>3. p \in Nat /\ q \in Nat /\ s = Hour * p + (s % Hour) /\ t = Hour * q + (t % Hour) /\ s % Hour \in 0..Hour - 1 /\ t % Hour \in 0..Hour - 1
  <2>1. s \in Nat
    BY <1>1, <1>2
  <2>2. s \div Hour \in Nat /\ s % Hour \in 0..Hour - 1 /\ s = Hour * (s \div Hour) + (s % Hour)
    BY <1>1, <2>1, Divides
  <2>3. t \div Hour \in Nat /\ t % Hour \in 0..Hour - 1 /\ t = Hour * (t \div Hour) + (t % Hour)
    BY <1>1, Divides
  <2> QED BY <2>2, <2>3
<1> HIDE DEF p, q
<1>4. h = Hour * p /\ Hk!hourKey(t) = Hour * q /\ Hour * p \in Nat /\ Hour * q \in Nat
  <2>1. Hk!hourKey(t) = t - (t % Hour)
    BY DEF Hk!hourKey
  <2> DEFINE a == s % Hour
             b == t % Hour
             m == Hour * p
             n == Hour * q
  <2>2. a \in Nat /\ b \in Nat /\ m \in Nat /\ n \in Nat
    BY <1>1, <1>3
  <2>3. s = m + a /\ t = n + b /\ h = s - a /\ Hk!hourKey(t) = t - b
    BY <1>2, <1>3, <2>1
  <2> HIDE DEF a, b, m, n
  <2>4. h = m /\ Hk!hourKey(t) = n
    BY <2>2, <2>3
  <2> QED BY <2>2, <2>4 DEF m, n
<1>5. CASE p = q
  <2>1. Hour * p <= t /\ t < Hour * p + Hour
    BY <1>1, <1>3, <1>4, <1>5
  <2> QED BY <1>4, <1>5, <2>1
<1>6. CASE p < q
  <2>1. Hour * p + Hour <= Hour * q
    BY <1>1, <1>3, <1>6, Multiples
  <2> QED BY <1>1, <1>3, <1>4, <2>1
<1>7. CASE q < p
  <2>1. Hour * q + Hour <= Hour * p
    BY <1>1, <1>3, <1>7, Multiples
  <2> QED BY <1>1, <1>3, <1>4, <2>1
<1> QED BY <1>3, <1>5, <1>6, <1>7

(* An interval has as many elements as it is long.                          *)
LEMMA IntervalCount ==
    ASSUME NEW a \in Int, NEW b \in Int
    PROVE  /\ IsFiniteSet(a..b - 1) /\ (a < b => Cardinality(a..b - 1) = b - a)
<1>1. b - 1 \in Int
  OBVIOUS
<1>2. IsFiniteSet(a..b - 1) /\ Cardinality(a..b - 1) = IF a > b - 1 THEN 0 ELSE (b - 1) - a + 1
  BY <1>1, FS_Interval
<1> QED BY <1>2

(* The share of an hour is the time of the span that lies in it.            *)
LEMMA ShareCounts ==
    ASSUME Hk!HousekeepingAssumption, NEW h \in Hk!Hours, NEW from \in Nat, NEW to \in Nat
    PROVE  /\ IsFiniteSet({t \in from..to - 1 : Hk!hourKey(t) = h}) /\ Hk!Share(h, from, to) \in Nat
           /\ Cardinality({t \in from..to - 1 : Hk!hourKey(t) = h}) = Hk!Share(h, from, to)
           /\ h + Hour <= from => Hk!Share(h, from, to) = 0
<1> DEFINE a == IF from > h THEN from ELSE h
           b == IF to < h + Hour THEN to ELSE h + Hour
           S == {t \in from..to - 1 : Hk!hourKey(t) = h}
<1>1. Hour \in Nat \ {0} /\ h \in Nat /\ a \in Nat /\ b \in Nat /\ (h + Hour <= from => ~(b > a))
  BY HourOfTime DEF Hk!HousekeepingAssumption
<1>2. Hk!Share(h, from, to) = IF b > a THEN b - a ELSE 0
  BY DEF Hk!Share
<1>3. \A t \in from..to - 1 : t \in Nat /\ (Hk!hourKey(t) = h <=> h <= t /\ t < h + Hour)
  BY HourOfTime
<1>4. S = a..b - 1
  BY <1>1, <1>3
<1> HIDE DEF a, b, S
<1>5. IsFiniteSet(a..b - 1) /\ (b > a => Cardinality(a..b - 1) = b - a)
  BY <1>1, IntervalCount
<1>6. ~(b > a) => a..b - 1 = {}
  BY <1>1
<1>7. Cardinality(S) = IF b > a THEN b - a ELSE 0
  BY <1>4, <1>5, <1>6, FS_EmptySet
<1>8. IsFiniteSet(S) /\ Cardinality(S) = Hk!Share(h, from, to)
  <2>1. Cardinality(S) = Hk!Share(h, from, to)
    BY <1>2, <1>7
  <2> QED BY <1>4, <1>5, <2>1
<1>9. Hk!Share(h, from, to) \in Nat /\ (h + Hour <= from => Hk!Share(h, from, to) = 0)
  BY <1>1, <1>2
<1> QED BY <1>8, <1>9 DEF S

(* What was recorded is finite.                                             *)
LEMMA RecordedFinite ==
    ASSUME HousekeepingType, NEW h
    PROVE  IsFiniteSet(recorded) /\ IsFiniteSet(InHourOf(h)) /\ Cardinality(InHourOf(h)) \in Nat
<1>1. recorded \subseteq 0..lastTick - 1 /\ 0 \in Int /\ lastTick \in Int
  BY DEF HousekeepingType
<1>2. IsFiniteSet(0..lastTick - 1)
  BY <1>1, IntervalCount
<1>3. IsFiniteSet(recorded) /\ InHourOf(h) \subseteq recorded
  BY <1>1, <1>2, FS_Subset DEF InHourOf
<1> QED BY <1>3, FS_Subset, FS_CardinalityType

(* A tick adds to every hour what it recorded of it.                        *)
LEMMA HoursAdded ==
    ASSUME Hk!HousekeepingAssumption, HousekeepingType, HoursKept, NEW h \in Hk!Hours,
           recorded' = recorded \cup lastTick..clock - 1
    PROVE  LET s == Hk!AddAvailability(lastTick, clock, available)[h]
           IN /\ s \in HourStats
              /\ \/ s.avail + s.unavail = Cardinality({t \in recorded' : Hk!hourKey(t) = h})
                 \/ s.avail + s.unavail = 0 /\ MaxAge > 0 /\ h + Hour + MaxAge <= lastTick
<1> DEFINE s == Hk!AddAvailability(lastTick, clock, available)[h]
           new == {t \in lastTick..clock - 1 : Hk!hourKey(t) = h}
           x == Hk!Share(h, lastTick, clock)
<1>1. lastTick \in Nat /\ clock \in Nat /\ stats[h] \in HourStats /\ h \in Nat /\ available \in BOOLEAN /\ Hour \in Nat /\ MaxAge \in Nat
  BY HourOfTime DEF HousekeepingType, Hk!HousekeepingAssumption
<1>2. IsFiniteSet(new) /\ x \in Nat /\ Cardinality(new) = x /\ (h + Hour <= lastTick => x = 0)
  BY <1>1, ShareCounts
<1>3. s = IF available THEN [stats[h] EXCEPT !.avail = @ + x] ELSE [stats[h] EXCEPT !.unavail = @ + x]
  BY DEF Hk!AddAvailability
<1> HIDE DEF s, x
<1>4. s \in HourStats /\ s.avail + s.unavail = Sum(h) + x /\ Sum(h) \in Nat
  BY <1>1, <1>2, <1>3 DEF HourStats, Sum
<1>5. IsFiniteSet(InHourOf(h)) /\ Cardinality(InHourOf(h)) \in Nat
  BY RecordedFinite
<1>6. {t \in recorded' : Hk!hourKey(t) = h} = InHourOf(h) \cup new /\ InHourOf(h) \cap new = {}
  BY DEF InHourOf, HousekeepingType
<1> HIDE DEF new
<1>7. Cardinality(InHourOf(h) \cup new) = Cardinality(InHourOf(h)) + Cardinality(new)
  <2>1. Cardinality(InHourOf(h) \cap new) = 0
    BY <1>6, FS_EmptySet
  <2>2. Cardinality(InHourOf(h) \cup new) = Cardinality(InHourOf(h)) + Cardinality(new) - Cardinality(InHourOf(h) \cap new)
    BY <1>2, <1>5, FS_Union
  <2> QED BY <1>2, <1>5, <2>1, <2>2
<1>8. CASE Sum(h) = Cardinality(InHourOf(h))
  <2>1. s.avail + s.unavail = Cardinality({t \in recorded' : Hk!hourKey(t) = h})
    BY <1>2, <1>4, <1>6, <1>7, <1>8
  <2> QED BY <1>4, <2>1 DEF s
<1>9. CASE Sum(h) = 0 /\ MaxAge > 0 /\ h + Hour + MaxAge <= lastTick
  <2>1. x = 0
    BY <1>1, <1>2, <1>9
  <2>2. s.avail + s.unavail = 0
    BY <1>4, <1>9, <2>1
  <2> QED BY <1>4, <1>9, <2>2 DEF s
<1> QED BY <1>8, <1>9 DEF HoursKept

(* The minute job keeps the hours and the warnings.                         *)
LEMMA HousekeepingKeeps ==
    ASSUME Hk!HousekeepingAssumption, HousekeepingInv, Hk!Next \/ UNCHANGED housekeepingVars
    PROVE  HousekeepingInv' /\ Hk!OldHoursGo
<1>1. /\ HousekeepingType /\ HoursKept /\ WarningsKept
      /\ Hour \in Nat \ {0} /\ Day \in Nat \ {0} /\ DaysPerYear \in Nat \ {0} /\ MaxAge \in Nat /\ LastTick \in Nat
      /\ clock \in Nat /\ lastTick \in Nat /\ lastTick <= clock /\ faults \in Nat /\ Today \in Nat
  BY Divides DEF HousekeepingInv, HousekeepingType, Hk!HousekeepingAssumption, Today
<1>2. CASE UNCHANGED housekeepingVars
  BY <1>1, <1>2 DEF housekeepingVars, HousekeepingInv, HousekeepingType, HoursKept, WarningsKept, InHourOf, Sum, Today, Hk!OldHoursGo
<1>3. ASSUME HousekeepingType', UNCHANGED <<stats, recorded>>, lastTick <= lastTick' PROVE HoursKept'
  <2>1. \A h \in Hk!Hours : h \in Nat
    BY HourOfTime, <1>1
  <2>2. \A h \in Hk!Hours : h + Hour + MaxAge <= lastTick => h + Hour + MaxAge <= lastTick'
    BY <1>1, <1>3, <2>1 DEF HousekeepingType
  <2> QED BY <1>1, <1>3, <2>2 DEF HoursKept, InHourOf, Sum
<1>4. CASE Hk!Start
  <2>1. /\ ~jobUp /\ jobUp' = TRUE /\ lastTick' = clock /\ lastPrune' = 0
        /\ UNCHANGED <<clock, stats, available, recorded, warnings, faults>>
    BY <1>4 DEF Hk!Start
  <2>2. HousekeepingType'
    BY <1>1, <2>1 DEF HousekeepingType
  <2>3. HoursKept'
    BY <1>1, <1>3, <2>1, <2>2
  <2>4. WarningsKept'
    BY <1>1, <2>1 DEF WarningsKept, Today
  <2>5. Hk!OldHoursGo
    BY <2>1 DEF Hk!OldHoursGo
  <2> QED BY <2>2, <2>3, <2>4, <2>5 DEF HousekeepingInv
<1>5. CASE Hk!Stop
  <2>1. /\ jobUp' = FALSE /\ faults' = faults + 1
        /\ UNCHANGED <<clock, lastTick, lastPrune, stats, available, recorded, warnings>>
    BY <1>5 DEF Hk!Stop
  <2>2. HousekeepingType'
    <3>1. jobUp' \in BOOLEAN
      BY <2>1, Zenon
    <3>2. faults' \in Nat
      BY <1>1, <2>1
    <3> QED BY <1>1, <2>1, <3>1, <3>2 DEF HousekeepingType
  <2>3. HoursKept'
    BY <1>1, <1>3, <2>1, <2>2
  <2>4. WarningsKept'
    <3>1. \A d \in Days : warnings[d] \in Nat
      BY <1>1 DEF HousekeepingType
    <3> QED BY <1>1, <2>1, <3>1 DEF WarningsKept, Today
  <2>5. Hk!OldHoursGo
    BY <2>1 DEF Hk!OldHoursGo
  <2> QED BY <2>2, <2>3, <2>4, <2>5 DEF HousekeepingInv
<1>6. CASE Hk!Pass
  <2>1. /\ clock' = clock + 1 /\ available' \in BOOLEAN
        /\ UNCHANGED <<jobUp, lastTick, lastPrune, lastCertDay, stats, recorded, warnings, faults>>
    BY <1>6 DEF Hk!Pass
  <2>2. HousekeepingType'
    BY <1>1, <2>1 DEF HousekeepingType
  <2>3. HoursKept'
    BY <1>1, <1>3, <2>1, <2>2
  <2>4. Today' \in Nat /\ Today <= Today'
    BY <1>1, <2>1, DaysGrow DEF Today
  <2>5. WarningsKept'
    <3>1. Today' = Today => Hk!YearDay(clock') = Hk!YearDay(clock)
      BY DEF Today, Hk!YearDay
    <3>2. \A d \in Days : d \in Nat /\ warnings[d] \in Nat
      BY <1>1 DEF HousekeepingType, Days
    <3>3. \A d \in Days : warnings'[d] <= 1 + faults' /\ (d > Today' => warnings'[d] = 0)
      BY <1>1, <2>1, <2>4, <3>2 DEF WarningsKept
    <3>4. ASSUME Today' \in Days, ~jobUp' \/ lastCertDay' # Hk!YearDay(clock') PROVE warnings'[Today'] <= faults'
      <4>1. CASE Today' = Today
        BY <1>1, <2>1, <3>1, <3>4, <4>1 DEF WarningsKept
      <4>2. CASE Today' # Today
        <5>1. warnings[Today'] = 0
          BY <1>1, <2>4, <3>4, <4>2 DEF WarningsKept
        <5> QED BY <1>1, <2>1, <5>1
      <4> QED BY <4>1, <4>2
    <3>5. \A d \in Days : warnings'[d] <= 1 + faults' /\ (d > Today' => warnings'[d] = 0)
      BY <3>3
    <3> QED BY <3>4, <3>5 DEF WarningsKept, Days, Hk!YearDay
  <2>6. Hk!OldHoursGo
    BY <2>1 DEF Hk!OldHoursGo
  <2> QED BY <2>2, <2>3, <2>5, <2>6 DEF HousekeepingInv
<1>7. CASE Hk!Tick
  <2> DEFINE due == lastPrune = 0 \/ clock - lastPrune >= PruneEvery
  <2>1. PICK written \in BOOLEAN, pruned \in BOOLEAN :
           /\ jobUp /\ faults' = faults + (IF written THEN 0 ELSE 1) + (IF pruned THEN 0 ELSE 1)
           /\ lastTick' = clock /\ UNCHANGED <<clock, jobUp, available>> /\ Hk!certCheck
           /\ recorded' = recorded \cup (IF written THEN lastTick..clock - 1 ELSE {})
           /\ LET added == IF written THEN Hk!AddAvailability(lastTick, clock, available) ELSE stats
              IN stats' = [h \in Hk!Hours |-> IF due /\ pruned THEN Hk!Rows(h, added) ELSE added[h]]
           /\ lastPrune' = IF due THEN clock ELSE lastPrune
    BY <1>7 DEF Hk!Tick
  <2> DEFINE added == IF written THEN Hk!AddAvailability(lastTick, clock, available) ELSE stats
             inHour(h) == {t \in recorded' : Hk!hourKey(t) = h}
             total(h) == added[h].avail + added[h].unavail
  <2>2. ASSUME NEW h \in Hk!Hours
        PROVE  /\ added[h] \in HourStats /\ h \in Nat
               /\ total(h) = Cardinality(inHour(h)) \/ (total(h) = 0 /\ MaxAge > 0 /\ h + Hour + MaxAge <= clock)
    <3>1. h \in Nat /\ (h + Hour + MaxAge <= lastTick => h + Hour + MaxAge <= clock)
      BY <1>1, HourOfTime
    <3>2. CASE written
      BY <1>1, <2>1, <3>1, <3>2, HoursAdded
    <3>3. CASE ~written
      <4>1. recorded' = recorded /\ added = stats
        BY <2>1, <3>3
      <4> QED BY <1>1, <3>1, <4>1 DEF HousekeepingType, HoursKept, Sum, InHourOf
    <3> QED BY <3>2, <3>3
  <2> HIDE DEF added
  <2>3. ASSUME NEW h \in Hk!Hours
        PROVE  /\ stats'[h] \in HourStats
               /\ Sum(h)' = Cardinality(InHourOf(h)') \/ (Sum(h)' = 0 /\ MaxAge > 0 /\ h + Hour + MaxAge <= clock)
               /\ due /\ pruned /\ MaxAge > 0 /\ h + Hour + MaxAge <= clock => stats'[h] = Hk!NoStats
    <3>1. stats'[h] = IF due /\ pruned THEN Hk!Rows(h, added) ELSE added[h]
      BY <2>1 DEF added
    <3>2. Hk!NoStats \in HourStats /\ Hk!NoStats.avail + Hk!NoStats.unavail = 0
      BY DEF Hk!NoStats, HourStats
    <3>3. Hk!Rows(h, added) = IF MaxAge > 0 /\ h + Hour + MaxAge <= clock THEN Hk!NoStats ELSE added[h]
      BY DEF Hk!Rows, Hk!Ended
    <3>4. Sum(h)' = stats'[h].avail + stats'[h].unavail /\ InHourOf(h)' = inHour(h)
      BY DEF Sum, InHourOf
    <3>5. CASE due /\ pruned /\ MaxAge > 0 /\ h + Hour + MaxAge <= clock
      <4>1. stats'[h] = Hk!NoStats
        BY <3>1, <3>3, <3>5
      <4> QED BY <3>2, <3>4, <3>5, <4>1
    <3>6. CASE ~(due /\ pruned /\ MaxAge > 0 /\ h + Hour + MaxAge <= clock)
      <4>1. stats'[h] = added[h]
        BY <3>1, <3>3, <3>6
      <4> QED BY <2>2, <3>4, <3>6, <4>1
    <3> QED BY <3>5, <3>6
  <2>4. \A t \in recorded' : t \in Nat /\ t < lastTick'
    <3>1. \A t \in recorded : t \in Nat /\ t < lastTick
      BY <1>1 DEF HousekeepingType
    <3>2. \A t \in lastTick..clock - 1 : t \in Nat /\ t < clock
      BY <1>1
    <3> QED BY <1>1, <2>1, <3>1, <3>2
  <2>5. warnings' \in [Days -> Nat]
    BY <1>1, <2>1 DEF Hk!certCheck, HousekeepingType
  <2>6. HousekeepingType'
    <3>1. stats' = [h \in Hk!Hours |-> stats'[h]]
      BY <2>1
    <3>2. stats' \in [Hk!Hours -> HourStats]
      BY <2>3, <3>1
    <3>3. lastPrune' \in Nat /\ faults' \in Nat
      BY <1>1, <2>1 DEF HousekeepingType
    <3> QED BY <1>1, <2>1, <2>4, <2>5, <3>2, <3>3 DEF HousekeepingType
  <2>7. HoursKept'
    BY <2>1, <2>3 DEF HoursKept
  <2>8. WarningsKept'
    <3>1. \A d \in Days : warnings[d] \in Nat
      BY <1>1 DEF HousekeepingType
    <3>2. faults' \in Nat /\ faults <= faults' /\ Today' = Today /\ Hk!YearDay(clock)' = Hk!YearDay(clock) /\ jobUp'
      BY <1>1, <2>1 DEF Today, Hk!YearDay
    <3>3. CASE Hk!YearDay(clock) # lastCertDay
      <4>1. /\ lastCertDay' = Hk!YearDay(clock)
            /\ warnings' = [warnings EXCEPT ![Today] = IF clock >= Warn THEN @ + 1 ELSE @]
        BY <2>1, <3>3 DEF Hk!certCheck, Hk!CertDay, Today
      <4>2. \A d \in Days : warnings'[d] = warnings[d] \/ (d = Today /\ warnings'[d] = warnings[d] + 1)
        BY <1>1, <4>1 DEF HousekeepingType
      <4>3. Today \in Days => warnings[Today] <= faults
        BY <1>1, <3>3 DEF WarningsKept
      <4>4. \A d \in Days : warnings'[d] <= 1 + faults' /\ (d > Today => warnings'[d] = 0)
        BY <1>1, <3>1, <3>2, <4>2, <4>3 DEF WarningsKept
      <4> QED BY <3>2, <4>1, <4>4 DEF WarningsKept
    <3>4. CASE Hk!YearDay(clock) = lastCertDay
      <4>1. lastCertDay' = lastCertDay /\ warnings' = warnings
        BY <2>1, <3>4 DEF Hk!certCheck
      <4>2. \A d \in Days : warnings'[d] <= 1 + faults' /\ (d > Today => warnings'[d] = 0)
        BY <1>1, <3>1, <3>2, <4>1 DEF WarningsKept
      <4> QED BY <3>2, <3>4, <4>1, <4>2 DEF WarningsKept
    <3> QED BY <3>3, <3>4
  <2>9. Hk!OldHoursGo
    <3> SUFFICES ASSUME lastPrune' \notin {lastPrune, 0}, faults' = faults, NEW h \in Hk!Hours, h + Hour + MaxAge <= clock, MaxAge > 0
                 PROVE  stats'[h] = Hk!NoStats
      BY DEF Hk!OldHoursGo
    <3>1. due /\ pruned
      BY <1>1, <2>1
    <3> QED BY <2>3, <3>1
  <2> QED BY <2>6, <2>7, <2>8, <2>9 DEF HousekeepingInv
<1> QED BY <1>2, <1>4, <1>5, <1>6, <1>7 DEF Hk!Next

(* The job starts as the invariant says.                                    *)
LEMMA HousekeepingStarts ==
    ASSUME Hk!HousekeepingAssumption, Hk!Init
    PROVE  HousekeepingInv
<1>1. /\ clock \in Starts /\ jobUp = FALSE /\ lastTick = 0 /\ lastPrune = 0 /\ stats = [h \in Hk!Hours |-> Hk!NoStats]
      /\ available \in BOOLEAN /\ recorded = {} /\ warnings = [d \in Days |-> 0] /\ faults = 0
  BY DEF Hk!Init, Days
<1>2. clock \in Nat
  BY <1>1 DEF Hk!HousekeepingAssumption
<1>3. Hk!NoStats \in HourStats /\ Hk!NoStats.avail + Hk!NoStats.unavail = 0
  BY DEF Hk!NoStats, HourStats
<1>4. HousekeepingType
  <2>1. stats \in [Hk!Hours -> HourStats] /\ warnings \in [Days -> Nat]
    BY <1>1, <1>3
  <2>2. jobUp \in BOOLEAN /\ available \in BOOLEAN /\ \A t \in recorded : t < lastTick
    BY <1>1, Zenon
  <2>3. lastTick \in Nat /\ lastPrune \in Nat /\ faults \in Nat /\ recorded \subseteq Nat /\ lastTick <= clock
    BY <1>1, <1>2
  <2> QED BY <1>2, <2>1, <2>2, <2>3 DEF HousekeepingType
<1>5. HoursKept
  <2>1. \A h \in Hk!Hours : InHourOf(h) = {} /\ Sum(h) = 0
    BY <1>1, <1>3 DEF InHourOf, Sum
  <2> QED BY <2>1, FS_EmptySet DEF HoursKept
<1>6. WarningsKept
  BY <1>1 DEF WarningsKept
<1> QED BY <1>4, <1>5, <1>6 DEF HousekeepingInv

(* Counting in the job's module is the counting of this one.                *)
LEMMA SameJobCounts ==
    \A S : Hk!Cardinality(S) = Cardinality(S)
  BY DEF Hk!Cardinality, Cardinality

(* What the invariant says of the hours and of the warnings.                *)
LEMMA HousekeepingMeans ==
    ASSUME Hk!HousekeepingAssumption, HousekeepingInv
    PROVE  Hk!HoursAreExact /\ Hk!WarnedAtMostOnce
<1>1. HousekeepingType /\ HoursKept /\ WarningsKept
  BY DEF HousekeepingInv
<1>2. Hk!HoursAreExact
  <2> SUFFICES ASSUME NEW h \in Hk!Hours
               PROVE  \/ Hk!Total(h) = Hk!Cardinality(Hk!InHour(h))
                      \/ Hk!Total(h) = 0 /\ MaxAge > 0 /\ h + Hour + MaxAge <= clock
    BY DEF Hk!HoursAreExact
  <2>1. Hk!Total(h) = Sum(h) /\ Hk!InHour(h) = InHourOf(h)
    BY DEF Hk!Total, Hk!InHour, Sum, InHourOf
  <2>2. h \in Nat /\ Hour \in Nat /\ MaxAge \in Nat /\ clock \in Nat /\ lastTick \in Nat /\ lastTick <= clock
    BY <1>1, HourOfTime DEF HousekeepingType, Hk!HousekeepingAssumption
  <2>3. h + Hour + MaxAge <= lastTick => h + Hour + MaxAge <= clock
    BY <2>2
  <2> QED BY <1>1, <2>1, <2>3, SameJobCounts DEF HoursKept
<1>3. Hk!WarnedAtMostOnce
  <2>1. DOMAIN warnings = Days
    BY <1>1 DEF HousekeepingType
  <2> QED BY <1>1, <2>1 DEF Hk!WarnedAtMostOnce, WarningsKept
<1> QED BY <1>2, <1>3

\* The invariant of the instance that models the minute job.
JobPartInv == part = "housekeeping" => HousekeepingInv

(* The steps of every instance, seen by the minute job.                     *)
LEMMA JobPartKeeps ==
    JobPartInv /\ [Next]_vars => JobPartInv' /\ part' = part /\ (part = "housekeeping" => Hk!OldHoursGo)
<1> SUFFICES ASSUME JobPartInv, [Next]_vars
             PROVE  JobPartInv' /\ part' = part /\ (part = "housekeeping" => Hk!OldHoursGo)
  OBVIOUS
<1>1. part' = part
  BY DEF Next, CsMoves, BrMoves, HkMoves, AcMoves, CrMoves, ArMoves, AsMoves, AaMoves, vars
<1>2. ASSUME part = "housekeeping" PROVE HousekeepingInv' /\ Hk!OldHoursGo
  <2>1. HousekeepingInv /\ (Hk!Next \/ UNCHANGED housekeepingVars)
    BY <1>2 DEF JobPartInv, Next, CsMoves, BrMoves, HkMoves, AcMoves, CrMoves, ArMoves, AsMoves, AaMoves, vars
  <2>2. Hk!HousekeepingAssumption
    BY ConstantsAssumption
  <2> QED BY <2>1, <2>2, HousekeepingKeeps
<1> QED BY <1>1, <1>2 DEF JobPartInv

(* Whatever ticks are late and writes fail, for any lengths of an hour and  *)
(* a day: an hour's row holds exactly the time recorded for it until it is  *)
(* pruned, none is pruned young, none outlives a prune, and a job that runs *)
(* on warns once a day (AddAvailability, PruneStats, housekeeping).         *)
THEOREM StatisticsExact == Spec => StatisticsAreExact
<1>1. Init => JobPartInv
  <2>1. Init /\ part = "housekeeping" => Hk!Init
    BY DEF Init
  <2> QED BY <2>1, ConstantsAssumption, HousekeepingStarts DEF JobPartInv
<1>2. JobPartInv => (part = "housekeeping" => Hk!HoursAreExact /\ Hk!WarnedAtMostOnce)
  BY ConstantsAssumption, HousekeepingMeans DEF JobPartInv
<1>3. JobPartInv' => (part = "housekeeping" => Hk!HoursAreExact /\ Hk!WarnedAtMostOnce)'
  BY <1>2, PTL
<1>4. JobPartInv /\ [Next]_vars =>
        /\ JobPartInv'
        /\ part = "housekeeping" => (Hk!HoursAreExact /\ Hk!WarnedAtMostOnce)' /\ Hk!OldHoursGo
  BY <1>3, JobPartKeeps
<1> QED BY <1>1, <1>2, <1>4, PTL DEF Spec, StatisticsAreExact

-----------------------------------------------------------------------------
(* The merge of the shipped rules.                                         *)

\* A rule of the file: a shipped one has its matcher as its id, a local one none.
FileRule ==
    {r \in [id : Br!Matchers \cup {NoId}, matcher : Br!Matchers, class : {"shipped", "edited", "local"}] :
        r.id \in {NoId, r.matcher}}

NoSharedId(rs) == \A j, k \in 1..Len(rs) : rs[j].id = rs[k].id /\ rs[j].id # NoId => j = k

\* The shipped rules of the file stand as they are shipped.
ShippedOrder(rs) ==
    \A j, k \in 1..Len(rs) : \A a, b \in 1..Len(Br!Shipped) :
        j < k /\ rs[j].id = Br!Shipped[a] /\ rs[k].id = Br!Shipped[b] => a < b

\* The file's rules are all there, in their order, and everything else is new.
Placing(at, rs) ==
    /\ at \in [1..Len(apps) -> 1..Len(rs)]
    /\ \A j, k \in 1..Len(apps) : j < k => at[j] < at[k]
    /\ \A j \in 1..Len(apps) : rs[at[j]].matcher = apps[j].matcher /\ rs[at[j]].class = apps[j].class
    /\ \A k \in 1..Len(rs) : (\A j \in 1..Len(apps) : at[j] # k) => ~Br!Has(apps, rs[k].matcher) /\ rs[k].matcher \notin seen

RulesType ==
    /\ build \in 1..Len(Builds) /\ apps \in Seq(FileRule) /\ seen \subseteq Br!Matchers
    /\ Br!BuildsAssumption

\* How far the merge has come, with the first n shipped rules.
OfferedSoFar(rs, n) ==
    /\ rs \in Seq(FileRule)
    /\ NoSharedId(rs)
    /\ Br!Ids(Br!adopt(apps)) \subseteq Br!Ids(rs)
    /\ Br!Ids(rs) \subseteq Br!Ids(apps) \cup {Br!Shipped[k] : k \in 1..Len(Br!Shipped)}
    /\ \A k \in 1..n : Br!Shipped[k] \in Br!Ids(rs) \cup seen
    /\ ShippedOrder(Br!adopt(apps)) => ShippedOrder(rs)
    /\ \E at : Placing(at, rs)

(* Inserting a rule moves those behind it back by one.                      *)
LEMMA RuleInserted ==
    ASSUME NEW T, NEW rs \in Seq(T), NEW at \in 1..Len(rs) + 1, NEW r \in T, NEW more, more = Br!InsertAt(rs, at, r)
    PROVE  /\ more \in Seq(T) /\ Len(more) = Len(rs) + 1 /\ more[at] = r
           /\ \A j \in 1..at - 1 : more[j] = rs[j]
           /\ \A j \in at..Len(rs) : more[j + 1] = rs[j]
<1> DEFINE front == SubSeq(rs, 1, at - 1)
           back == SubSeq(rs, at, Len(rs))
<1>1. Len(rs) \in Nat /\ at \in Nat /\ \A j \in 1..Len(rs) : rs[j] \in T
  OBVIOUS
<1>2. front \in Seq(T) /\ Len(front) = at - 1 /\ \A j \in 1..at - 1 : front[j] = rs[j]
  OBVIOUS
<1>3. back \in Seq(T) /\ Len(back) = Len(rs) - at + 1 /\ \A j \in 1..Len(rs) - at + 1 : back[j] = rs[at + j - 1]
  OBVIOUS
<1>4. more = front \o <<r>> \o back
  BY DEF Br!InsertAt
<1> HIDE DEF front, back
<1>5. <<r>> \in Seq(T) /\ Len(<<r>>) = 1 /\ <<r>>[1] = r
  OBVIOUS
<1> DEFINE head == front \o <<r>>
<1>6. head \in Seq(T) /\ Len(head) = at /\ head[at] = r /\ \A j \in 1..at - 1 : head[j] = rs[j]
  <2>1. head \in Seq(T) /\ Len(head) = (at - 1) + 1
        /\ \A j \in 1..(at - 1) + 1 : head[j] = IF j <= at - 1 THEN front[j] ELSE <<r>>[j - (at - 1)]
    BY <1>2, <1>5, ConcatProperties
  <2> HIDE DEF head
  <2> QED BY <1>1, <1>2, <1>5, <2>1
<1> HIDE DEF head
<1>7. more = head \o back
  BY <1>4 DEF head
<1>8. more \in Seq(T) /\ Len(more) = at + (Len(rs) - at + 1)
      /\ \A j \in 1..at + (Len(rs) - at + 1) : more[j] = IF j <= at THEN head[j] ELSE back[j - at]
  <2>1. head \o back \in Seq(T) /\ Len(head \o back) = Len(head) + Len(back)
        /\ \A j \in 1..Len(head) + Len(back) : (head \o back)[j] = IF j <= Len(head) THEN head[j] ELSE back[j - Len(head)]
    BY <1>3, <1>6, ConcatProperties
  <2> QED BY <1>3, <1>6, <1>7, <2>1
<1>9. Len(more) = Len(rs) + 1 /\ more[at] = r /\ \A j \in 1..at - 1 : more[j] = rs[j]
  BY <1>1, <1>6, <1>8
<1>10. ASSUME NEW j \in at..Len(rs) PROVE more[j + 1] = rs[j]
  <2>1. j + 1 \in 1..at + (Len(rs) - at + 1) /\ ~(j + 1 <= at) /\ j + 1 - at \in 1..Len(rs) - at + 1 /\ at + (j + 1 - at) - 1 = j
    BY <1>1
  <2>2. more[j + 1] = back[j + 1 - at]
    BY <1>8, <2>1
  <2>3. back[j + 1 - at] = rs[at + (j + 1 - at) - 1]
    BY <1>3, <2>1
  <2> QED BY <2>1, <2>2, <2>3
<1> QED BY <1>8, <1>9, <1>10

(* A nonempty set of numbers has a least one.                               *)
LEMMA LeastNumber ==
    ASSUME NEW Q \in SUBSET Nat, Q # {}
    PROVE  \E m \in Q : \A k \in Q : m <= k
<1> DEFINE R == OpToRel(<, Nat)
<1>1. PICK m \in Q : \A k \in Q : ~ (<<k, m>> \in R)
  BY NatLessThanWellFounded, WFMin
<1> HIDE DEF R
<1>2. ASSUME NEW k \in Q PROVE m <= k
  <2>1. m \in Nat /\ k \in Nat /\ <<k, m>> \notin R
    BY <1>1
  <2>2. k < m => <<k, m>> \in R
    BY <2>1 DEF OpToRel, R
  <2> QED BY <2>1, <2>2
<1> QED BY <1>2

(* A nonempty set of positions has a first and a last one.                  *)
LEMMA FirstAndLast ==
    ASSUME NEW n \in Nat, NEW P \in SUBSET (1..n), P # {}
    PROVE  /\ \E i \in P : \A j \in P : i <= j
           /\ \E i \in P : \A j \in P : j <= i
<1>2. \E i \in P : \A j \in P : i <= j
  BY LeastNumber
<1> DEFINE Q == {n - i : i \in P}
<1>3. Q \in SUBSET Nat /\ Q # {}
  <2>1. ASSUME NEW i \in P PROVE n - i \in Nat
    <3>1. i \in 1..n
      OBVIOUS
    <3> QED BY <3>1
  <2>2. \E i \in P : n - i \in Q
    OBVIOUS
  <2> QED BY <2>1, <2>2
<1>4. PICK m \in Q : \A k \in Q : m <= k
  <2> HIDE DEF Q
  <2> QED BY <1>3, LeastNumber
<1>5. PICK i \in P : m = n - i
  BY <1>4
<1>6. ASSUME NEW j \in P PROVE j <= i
  <2>1. n - j \in Q /\ i \in 1..n /\ j \in 1..n
    BY <1>5
  <2>2. n - i <= n - j
    BY <1>4, <1>5, <2>1
  <2> QED BY <2>1, <2>2
<1> QED BY <1>2, <1>6

\* The rules this build ships, as a set.
ShippedSet == {Br!Shipped[k] : k \in 1..Len(Br!Shipped)}

(* What a build ships: each rule once, all of them rules of some build.     *)
LEMMA ShippedOnce ==
    ASSUME RulesType
    PROVE  /\ Br!Shipped \in Seq(Br!Matchers) /\ Len(Br!Shipped) \in Nat /\ NoId \notin Br!Matchers
           /\ Br!ToSet(Br!Shipped) = ShippedSet
           /\ \A a, b \in 1..Len(Br!Shipped) : Br!Shipped[a] = Br!Shipped[b] => a = b
<1>1. Br!Shipped \in Seq(Br!Matchers) /\ NoId \notin Br!Matchers
  BY DEF RulesType, Br!BuildsAssumption, Br!Shipped
<1>2. \A a, b \in 1..Len(Br!Shipped) : Br!Shipped[a] = Br!Shipped[b] => a = b
  BY DEF RulesType, Br!BuildsAssumption, Br!Shipped
<1> DEFINE s == Br!Shipped
<1>3. s \in Seq(Br!Matchers) /\ Len(s) \in Nat /\ DOMAIN s = 1..Len(s)
  BY <1>1
<1> HIDE DEF s
<1>4. Br!ToSet(s) = {s[k] : k \in 1..Len(s)}
  BY <1>3 DEF Br!ToSet
<1> QED BY <1>1, <1>2, <1>3, <1>4 DEF s, ShippedSet

(* A rule of the file has its matcher as its id, or none.                   *)
LEMMA FileRules ==
    ASSUME RulesType, NEW rs \in Seq(FileRule)
    PROVE  /\ Len(rs) \in Nat
           /\ \A j \in 1..Len(rs) : rs[j] \in FileRule /\ rs[j].id \in {NoId, rs[j].matcher} /\ rs[j].matcher \in Br!Matchers
           /\ \A x : x \in Br!Ids(rs) <=> x # NoId /\ \E j \in 1..Len(rs) : rs[j].id = x
<1>1. Len(rs) \in Nat /\ \A j \in 1..Len(rs) : rs[j] \in FileRule
  OBVIOUS
<1>2. \A j \in 1..Len(rs) : rs[j].id \in {NoId, rs[j].matcher} /\ rs[j].matcher \in Br!Matchers
  BY <1>1 DEF FileRule
<1>3. \A x : x \in Br!Ids(rs) <=> x # NoId /\ \E j \in 1..Len(rs) : rs[j].id = x
  BY DEF Br!Ids
<1> QED BY <1>1, <1>2, <1>3

(* Rules without an id that a build ships become that rule, each once; the  *)
(* rest of the file stays (mergeBuiltinRules, adoption).                    *)
LEMMA Adopted ==
    ASSUME RulesType, NoSharedId(apps), NEW rs, rs = Br!adopt(apps)
    PROVE  /\ rs \in Seq(FileRule) /\ Len(rs) = Len(apps)
           /\ \A j \in 1..Len(apps) : rs[j].matcher = apps[j].matcher /\ rs[j].class = apps[j].class
           /\ NoSharedId(rs)
           /\ Br!Ids(rs) \subseteq Br!Ids(apps) \cup ShippedSet
           /\ \A x \in ShippedSet : Br!Has(apps, x) => x \in Br!Ids(rs)
<1>1. /\ apps \in Seq(FileRule) /\ Len(apps) \in Nat /\ NoId \notin Br!Matchers
      /\ Br!ToSet(Br!Shipped) = ShippedSet
      /\ \A j \in 1..Len(apps) : apps[j] \in FileRule /\ apps[j].id \in {NoId, apps[j].matcher} /\ apps[j].matcher \in Br!Matchers
  BY ShippedOnce, FileRules DEF RulesType
<1> DEFINE Taken(j) == /\ apps[j].id = NoId /\ apps[j].matcher \in ShippedSet \ Br!Ids(apps)
                       /\ \A k \in 1..j - 1 : ~(apps[k].id = NoId /\ apps[k].matcher = apps[j].matcher)
<1>2. rs = [j \in 1..Len(apps) |-> IF Taken(j) THEN [apps[j] EXCEPT !.id = apps[j].matcher] ELSE apps[j]]
  BY <1>1 DEF Br!adopt
<1> HIDE DEF Taken
<1>3. ASSUME NEW j \in 1..Len(apps)
      PROVE  /\ rs[j] \in FileRule /\ rs[j].matcher = apps[j].matcher /\ rs[j].class = apps[j].class
             /\ rs[j].id = IF Taken(j) THEN apps[j].matcher ELSE apps[j].id
  <2>1. apps[j] \in FileRule
    BY <1>1
  <2>2. CASE Taken(j)
    <3>1. rs[j] = [apps[j] EXCEPT !.id = apps[j].matcher]
      BY <1>2, <2>2
    <3> QED BY <2>1, <2>2, <3>1 DEF FileRule
  <2>3. CASE ~Taken(j)
    <3>1. rs[j] = apps[j]
      BY <1>2, <2>3
    <3> QED BY <2>1, <2>3, <3>1
  <2> QED BY <2>2, <2>3
<1>4. rs \in Seq(FileRule) /\ Len(rs) = Len(apps)
  BY <1>1, <1>2, <1>3
<1>5. NoSharedId(rs)
  <2> SUFFICES ASSUME NEW j \in 1..Len(apps), NEW k \in 1..Len(apps), rs[j].id = rs[k].id, rs[j].id # NoId, j < k PROVE FALSE
    <3>1. ASSUME NEW j \in 1..Len(rs), NEW k \in 1..Len(rs), rs[j].id = rs[k].id, rs[j].id # NoId, j # k PROVE FALSE
      <4>1. j < k \/ k < j
        BY <1>1, <1>4, <3>1
      <4> QED BY <1>4, <3>1, <4>1
    <3> QED BY <3>1 DEF NoSharedId
  <2>1. /\ rs[j].id = IF Taken(j) THEN apps[j].matcher ELSE apps[j].id
        /\ rs[k].id = IF Taken(k) THEN apps[k].matcher ELSE apps[k].id
    BY <1>3
  <2>2. \A l \in 1..Len(apps) : apps[l].id # NoId => apps[l].id \in Br!Ids(apps)
    BY <1>1, FileRules
  <2>3. CASE Taken(j) /\ Taken(k)
    <3>1. j \in 1..k - 1
      BY <1>1
    <3> QED BY <2>1, <2>3, <3>1 DEF Taken
  <2>4. CASE Taken(j) /\ ~Taken(k)
    BY <2>1, <2>2, <2>4 DEF Taken
  <2>5. CASE ~Taken(j) /\ Taken(k)
    BY <2>1, <2>2, <2>5 DEF Taken
  <2>6. CASE ~Taken(j) /\ ~Taken(k)
    <3>1. j # k
      BY <1>1
    <3>2. apps[j].id = apps[k].id /\ apps[j].id # NoId
      BY <2>1, <2>6
    <3> QED BY <3>1, <3>2 DEF NoSharedId
  <2> QED BY <2>3, <2>4, <2>5, <2>6
<1>6. ASSUME NEW x \in Br!Ids(rs) PROVE x \in Br!Ids(apps) \cup ShippedSet
  <2>1. PICK j \in 1..Len(apps) : rs[j].id = x /\ x # NoId
    BY <1>4, FileRules
  <2>2. CASE Taken(j)
    BY <1>3, <2>1, <2>2 DEF Taken
  <2>3. CASE ~Taken(j)
    <3>1. apps[j].id = x
      BY <1>3, <2>1, <2>3
    <3> QED BY <1>1, <2>1, <3>1, FileRules
  <2> QED BY <2>2, <2>3
<1>7. ASSUME NEW x \in ShippedSet, Br!Has(apps, x) PROVE x \in Br!Ids(rs)
  <2>1. x # NoId
    <3>1. PICK j \in 1..Len(apps) : apps[j].matcher = x
      BY <1>7 DEF Br!Has
    <3> QED BY <1>1, <3>1
  <2>2. CASE x \in Br!Ids(apps)
    <3>1. PICK j \in 1..Len(apps) : apps[j].id = x
      BY <1>1, <2>2, FileRules
    <3>2. ~Taken(j)
      BY <2>1, <3>1 DEF Taken
    <3>3. rs[j].id = x
      BY <1>3, <3>1, <3>2
    <3> QED BY <1>4, <2>1, <3>3, FileRules
  <2>3. CASE x \notin Br!Ids(apps)
    <3> DEFINE P == {j \in 1..Len(apps) : apps[j].matcher = x}
    <3>1. P \in SUBSET (1..Len(apps)) /\ P # {}
      BY <1>7 DEF Br!Has
    <3>2. PICK j \in P : \A k \in P : j <= k
      <4> HIDE DEF P
      <4> QED BY <1>1, <3>1, FirstAndLast
    <3>3. j \in 1..Len(apps) /\ apps[j].matcher = x /\ apps[j].id = NoId
      BY <1>1, <2>1, <2>3, <3>2, FileRules
    <3>4. ASSUME NEW k \in 1..j - 1 PROVE apps[k].matcher # x
      <4>1. k \in 1..Len(apps) /\ ~(j <= k)
        BY <1>1, <3>3
      <4> QED BY <3>2, <4>1
    <3>5. Taken(j)
      BY <1>7, <2>3, <3>3, <3>4 DEF Taken
    <3>6. rs[j].id = x
      BY <1>3, <3>3, <3>5
    <3> QED BY <1>4, <2>1, <3>3, <3>6, FileRules
  <2> QED BY <2>2, <2>3
<1> QED BY <1>3, <1>4, <1>5, <1>6, <1>7

(* A missing shipped rule goes behind every earlier shipped one of the file *)
(* and before every later one (mergeBuiltinRules, the insertion).           *)
LEMMA PlaceFits ==
    ASSUME RulesType, NEW rs \in Seq(FileRule), NoSharedId(rs), NEW i \in 1..Len(Br!Shipped)
    PROVE  /\ Br!place(rs, i) \in 1..Len(rs) + 1
           /\ ShippedOrder(rs) =>
                \A j \in 1..Len(rs) : \A a \in 1..Len(Br!Shipped) :
                   rs[j].id = Br!Shipped[a] => IF j < Br!place(rs, i) THEN a < i ELSE i <= a
<1> DEFINE present == {j \in 1..i - 1 : Br!Shipped[j] \in Br!Ids(rs)}
           m == CHOOSE j \in present : \A k \in present : k <= j
<1>1. /\ Len(rs) \in Nat /\ Len(Br!Shipped) \in Nat /\ i \in Nat
      /\ \A j \in 1..Len(Br!Shipped) : Br!Shipped[j] \in Br!Matchers /\ Br!Shipped[j] # NoId
  BY ShippedOnce, FileRules
<1>2. Br!place(rs, i) = IF present = {} THEN 1 ELSE Br!indexOfRule(rs, Br!Shipped[m]) + 1
  BY DEF Br!place
<1>3. CASE present = {}
  <2>1. Br!place(rs, i) = 1
    BY <1>2, <1>3
  <2>2. ASSUME NEW j \in 1..Len(rs), NEW a \in 1..Len(Br!Shipped), rs[j].id = Br!Shipped[a] PROVE ~(j < 1) /\ i <= a
    <3>1. Br!Shipped[a] \in Br!Ids(rs)
      BY <1>1, <2>2, FileRules
    <3>2. a \notin 1..i - 1
      BY <1>3, <3>1
    <3> QED BY <1>1, <3>2
  <2> QED BY <1>1, <2>1, <2>2
<1>4. CASE present # {}
  <2>1. m \in present /\ \A k \in present : k <= m
    <3>1. present \in SUBSET (1..i - 1) /\ i - 1 \in Nat
      BY <1>1
    <3> HIDE DEF present
    <3>2. \E j \in present : \A k \in present : k <= j
      BY <1>4, <3>1, FirstAndLast
    <3> QED BY <3>2
  <2> HIDE DEF m
  <2>2. m \in 1..i - 1 /\ m \in 1..Len(Br!Shipped) /\ Br!Shipped[m] \in Br!Ids(rs)
    BY <1>1, <2>1
  <2> DEFINE id == Br!Shipped[m]
             q == Br!indexOfRule(rs, id)
  <2>3. q \in 1..Len(rs) /\ rs[q].id = id
    <3>1. PICK k \in 1..Len(rs) : rs[k].id = id /\ id # NoId
      BY <2>2, FileRules
    <3>2. \A j \in 1..k - 1 : rs[j].id # id
      <4> SUFFICES ASSUME NEW j \in 1..k - 1, rs[j].id = id PROVE FALSE
        OBVIOUS
      <4>1. j \in 1..Len(rs) /\ j # k
        BY <1>1, <3>1
      <4> QED BY <3>1, <4>1 DEF NoSharedId
    <3>3. q = CHOOSE j \in 1..Len(rs) : rs[j].id = id /\ \A l \in 1..j - 1 : rs[l].id # id
      BY <2>2 DEF Br!indexOfRule
    <3> HIDE DEF q, id
    <3> QED BY <3>1, <3>2, <3>3
  <2>4. Br!place(rs, i) = q + 1
    BY <1>2, <1>4
  <2>5. ASSUME ShippedOrder(rs), NEW j \in 1..Len(rs), NEW a \in 1..Len(Br!Shipped), rs[j].id = Br!Shipped[a], j < q + 1
        PROVE a < i
    <3>1. CASE j = q
      <4>1. a = m
        BY <2>2, <2>3, <2>5, <3>1, ShippedOnce
      <4> QED BY <1>1, <2>2, <4>1
    <3>2. CASE j # q
      <4> HIDE DEF q
      <4>1. j < q
        BY <1>1, <2>3, <2>5, <3>2
      <4>2. a < m
        BY <2>2, <2>3, <2>5, <4>1 DEF ShippedOrder
      <4> QED BY <1>1, <2>2, <4>2
    <3> QED BY <3>1, <3>2
  <2>6. ASSUME ShippedOrder(rs), NEW j \in 1..Len(rs), NEW a \in 1..Len(Br!Shipped), rs[j].id = Br!Shipped[a], ~(j < q + 1)
        PROVE i <= a
    <3> HIDE DEF q
    <3>1. q < j
      BY <1>1, <2>3, <2>6
    <3>2. m < a
      BY <2>2, <2>3, <2>6, <3>1 DEF ShippedOrder
    <3>3. Br!Shipped[a] \in Br!Ids(rs)
      BY <1>1, <2>6, FileRules
    <3>4. a \in 1..i - 1 => a \in present
      BY <3>3
    <3>5. a \in present => a <= m
      BY <2>1
    <3> HIDE DEF present
    <3> QED BY <1>1, <2>2, <3>2, <3>4, <3>5
  <2> HIDE DEF q
  <2> QED BY <1>1, <2>3, <2>4, <2>5, <2>6
<1> QED BY <1>3, <1>4

(* Offering one more shipped rule: an id stays unique, the order stays, the *)
(* file's rules stay, and what is added was neither there nor offered       *)
(* before (mergeBuiltinRules).                                              *)
LEMMA OfferKeeps ==
    ASSUME RulesType, NoSharedId(apps), NEW i \in 1..Len(Br!Shipped), NEW rs, OfferedSoFar(rs, i - 1),
           NEW more, more = Br!offer(rs, i)
    PROVE  OfferedSoFar(more, i)
<1> DEFINE x == Br!Shipped[i]
<1>1. /\ rs \in Seq(FileRule) /\ NoSharedId(rs) /\ Len(rs) \in Nat /\ Len(Br!Shipped) \in Nat /\ i \in Nat
      /\ x \in Br!Matchers /\ x # NoId /\ x \in ShippedSet
  BY ShippedOnce, FileRules DEF OfferedSoFar, ShippedSet
<1>2. CASE x \in Br!Ids(rs) \cup seen
  <2>1. more = rs
    BY <1>2 DEF Br!offer
  <2>2. ASSUME NEW k \in 1..i PROVE Br!Shipped[k] \in Br!Ids(rs) \cup seen
    <3>1. k = i \/ k \in 1..i - 1
      BY <1>1
    <3> QED BY <1>2, <3>1 DEF OfferedSoFar
  <2> QED BY <2>1, <2>2 DEF OfferedSoFar
<1>3. CASE x \notin Br!Ids(rs) \cup seen
  <2> DEFINE at == Br!place(rs, i)
             r == Br!ShippedRule(x)
  <2>1. r.id = x /\ r.matcher = x /\ r \in FileRule
    BY <1>1 DEF Br!ShippedRule, FileRule
  <2>2. at \in 1..Len(rs) + 1 /\ at \in Nat
    BY <1>1, PlaceFits
  <2>3. more = Br!InsertAt(rs, at, r)
    BY <1>3 DEF Br!offer
  <2> HIDE DEF r
  <2>4. /\ more \in Seq(FileRule) /\ Len(more) = Len(rs) + 1 /\ more[at] = r
        /\ \A j \in 1..at - 1 : more[j] = rs[j]
        /\ \A j \in at..Len(rs) : more[j + 1] = rs[j]
    <3> HIDE DEF at
    <3> QED BY <1>1, <2>1, <2>2, <2>3, RuleInserted
  <2> DEFINE old(k) == IF k < at THEN k ELSE k - 1
             new(j) == IF j < at THEN j ELSE j + 1
  <2>5. ASSUME NEW k \in 1..Len(more) PROVE k = at \/ (old(k) \in 1..Len(rs) /\ more[k] = rs[old(k)] /\ new(old(k)) = k)
    <3> HIDE DEF at
    <3>1. CASE k < at
      <4>1. k \in 1..at - 1 /\ old(k) = k /\ k \in 1..Len(rs)
        BY <1>1, <2>2, <2>4, <3>1
      <4> QED BY <2>4, <3>1, <4>1
    <3>2. CASE k > at
      <4>1. k - 1 \in at..Len(rs) /\ old(k) = k - 1 /\ (k - 1) + 1 = k /\ k - 1 \in 1..Len(rs) /\ new(k - 1) = k
        BY <1>1, <2>2, <2>4, <3>2
      <4>2. more[(k - 1) + 1] = rs[k - 1]
        BY <2>4, <4>1
      <4> QED BY <4>1, <4>2
    <3> QED BY <1>1, <2>2, <2>4, <3>1, <3>2
  <2>6. ASSUME NEW j \in 1..Len(rs) PROVE new(j) \in 1..Len(more) /\ more[new(j)] = rs[j] /\ new(j) # at
    <3> HIDE DEF at
    <3>1. CASE j < at
      <4>1. j \in 1..at - 1 /\ new(j) = j /\ j \in 1..Len(more)
        BY <1>1, <2>2, <2>4, <3>1
      <4> QED BY <2>2, <2>4, <3>1, <4>1
    <3>2. CASE ~(j < at)
      <4>1. j \in at..Len(rs) /\ new(j) = j + 1 /\ j + 1 \in 1..Len(more) /\ j + 1 # at
        BY <1>1, <2>2, <2>4, <3>2
      <4> QED BY <2>4, <4>1
    <3> QED BY <3>1, <3>2
  <2>7. \A j, k \in 1..Len(rs) : j < k => new(j) < new(k)
    <3> HIDE DEF at
    <3> QED BY <1>1, <2>2
  <2>8. at \in 1..Len(more)
    <3> HIDE DEF at
    <3> QED BY <1>1, <2>2, <2>4
  <2>9. \A j \in 1..Len(rs) : rs[j].id # x
    BY <1>1, <1>3, FileRules
  <2> HIDE DEF new, old
  <2>10. Br!Ids(more) = Br!Ids(rs) \cup {x}
    <3>1. ASSUME NEW y \in Br!Ids(more) PROVE y \in Br!Ids(rs) \cup {x}
      <4>1. PICK k \in 1..Len(more) : more[k].id = y /\ y # NoId
        BY <2>4, FileRules
      <4>2. k = at => y = x
        BY <2>1, <2>4, <4>1
      <4>3. k # at => y \in Br!Ids(rs)
        BY <1>1, <2>5, <4>1, FileRules
      <4> QED BY <4>2, <4>3
    <3>2. ASSUME NEW y \in Br!Ids(rs) PROVE y \in Br!Ids(more)
      <4>1. PICK j \in 1..Len(rs) : rs[j].id = y /\ y # NoId
        BY <1>1, FileRules
      <4> QED BY <2>4, <2>6, <4>1, FileRules
    <3>3. x \in Br!Ids(more)
      BY <1>1, <2>1, <2>4, <2>8, FileRules
    <3> QED BY <3>1, <3>2, <3>3
  <2>11. NoSharedId(more)
    <3> SUFFICES ASSUME NEW j \in 1..Len(more), NEW k \in 1..Len(more), more[j].id = more[k].id, more[j].id # NoId PROVE j = k
      BY DEF NoSharedId
    <3>1. CASE j = at \/ k = at
      BY <2>1, <2>4, <2>5, <2>9, <3>1
    <3>2. CASE j # at /\ k # at
      <4>1. old(j) = old(k)
        BY <1>1, <2>5, <3>2 DEF NoSharedId
      <4> QED BY <2>5, <3>2, <4>1
    <3> QED BY <3>1, <3>2
  <2>12. ASSUME NEW k \in 1..i PROVE Br!Shipped[k] \in Br!Ids(more) \cup seen
    <3>1. k = i \/ k \in 1..i - 1
      BY <1>1
    <3> QED BY <2>10, <3>1 DEF OfferedSoFar
  <2>13. ASSUME ShippedOrder(rs) PROVE ShippedOrder(more)
    <3> SUFFICES ASSUME NEW j \in 1..Len(more), NEW k \in 1..Len(more), NEW a \in 1..Len(Br!Shipped), NEW b \in 1..Len(Br!Shipped),
                        j < k, more[j].id = Br!Shipped[a], more[k].id = Br!Shipped[b]
                 PROVE  a < b
      BY DEF ShippedOrder
    <3>1. \A l \in 1..Len(rs) : \A c \in 1..Len(Br!Shipped) :
             rs[l].id = Br!Shipped[c] => (IF l < at THEN c < i ELSE i <= c) /\ c # i
      BY <1>1, <2>9, <2>13, PlaceFits
    <3> HIDE DEF at
    <3>2. CASE j = at
      <4>1. a = i
        BY <2>1, <2>4, <3>2, ShippedOnce
      <4>2. k # at /\ ~(old(k) < at) /\ old(k) \in 1..Len(rs) /\ rs[old(k)].id = Br!Shipped[b]
        <5>1. k # at /\ old(k) = k - 1
          BY <1>1, <2>2, <2>4, <3>2 DEF old
        <5> QED BY <1>1, <2>2, <2>4, <2>5, <3>2, <5>1
      <4>3. i <= b /\ b # i
        BY <3>1, <4>2
      <4> QED BY <1>1, <4>1, <4>3
    <3>3. CASE k = at
      <4>1. b = i
        BY <2>1, <2>4, <3>3, ShippedOnce
      <4>2. j # at /\ old(j) < at /\ old(j) \in 1..Len(rs) /\ rs[old(j)].id = Br!Shipped[a]
        <5>1. j # at /\ old(j) = j
          BY <1>1, <2>2, <2>4, <3>3 DEF old
        <5> QED BY <1>1, <2>2, <2>4, <2>5, <3>3, <5>1
      <4>3. a < i
        BY <3>1, <4>2
      <4> QED BY <4>1, <4>3
    <3>4. CASE j # at /\ k # at
      <4>1. old(j) \in 1..Len(rs) /\ old(k) \in 1..Len(rs) /\ rs[old(j)].id = Br!Shipped[a] /\ rs[old(k)].id = Br!Shipped[b]
        BY <2>5, <3>4
      <4>2. old(j) < old(k)
        BY <1>1, <2>2, <2>4, <3>4 DEF old
      <4> QED BY <2>13, <4>1, <4>2 DEF ShippedOrder
    <3> QED BY <3>2, <3>3, <3>4
  <2>14. ~Br!Has(apps, x)
    <3>1. ASSUME Br!Has(apps, x) PROVE x \in Br!Ids(rs)
      <4>1. x \in Br!Ids(Br!adopt(apps))
        BY <1>1, <3>1, Adopted
      <4> QED BY <4>1 DEF OfferedSoFar
    <3> QED BY <1>3, <3>1
  <2>15. PICK p : Placing(p, rs)
    BY DEF OfferedSoFar
  <2> DEFINE q == [j \in 1..Len(apps) |-> new(p[j])]
  <2>16. Placing(q, more)
    <3>1. \A j \in 1..Len(apps) : p[j] \in 1..Len(rs) /\ q[j] = new(p[j])
      BY <2>15 DEF Placing
    <3>2. q \in [1..Len(apps) -> 1..Len(more)]
      BY <2>6, <3>1
    <3> HIDE DEF q, at
    <3>3. \A j, k \in 1..Len(apps) : j < k => q[j] < q[k]
      BY <2>7, <2>15, <3>1 DEF Placing
    <3>4. \A j \in 1..Len(apps) : more[q[j]].matcher = apps[j].matcher /\ more[q[j]].class = apps[j].class
      BY <2>6, <2>15, <3>1 DEF Placing
    <3>5. ASSUME NEW k \in 1..Len(more), \A j \in 1..Len(apps) : q[j] # k
          PROVE  ~Br!Has(apps, more[k].matcher) /\ more[k].matcher \notin seen
      <4>1. CASE k = at
        BY <1>3, <2>1, <2>4, <2>14, <4>1
      <4>2. CASE k # at
        <5>1. old(k) \in 1..Len(rs) /\ more[k] = rs[old(k)] /\ new(old(k)) = k
          BY <2>5, <4>2
        <5>2. \A j \in 1..Len(apps) : p[j] # old(k)
          BY <3>1, <3>5, <5>1
        <5> QED BY <2>15, <5>1, <5>2 DEF Placing
      <4> QED BY <4>1, <4>2
    <3> QED BY <3>2, <3>3, <3>4, <3>5 DEF Placing
  <2> HIDE DEF at, q
  <2> QED BY <1>1, <2>4, <2>10, <2>11, <2>12, <2>13, <2>16 DEF OfferedSoFar, ShippedSet
<1> QED BY <1>2, <1>3

(* The files of the merge are those one offer after the other makes.        *)
LEMMA OfferedInTurn ==
    ASSUME RulesType
    PROVE  /\ Br!offered[0] = Br!adopt(apps)
           /\ \A i \in 1..Len(Br!Shipped) : Br!offered[i] = Br!offer(Br!offered[i - 1], i)
<1> DEFINE n == Len(Br!Shipped)
           Turn(f, i) == IF i = 0 THEN Br!adopt(apps) ELSE Br!offer(f[i - 1], i)
           Good(k) == \E f : DOMAIN f = 0..k /\ f = [i \in 0..k |-> Turn(f, i)]
<1>1. n \in Nat
  BY ShippedOnce
<1>2. Good(0)
  <2> DEFINE f == [i \in 0..0 |-> Br!adopt(apps)]
  <2>1. DOMAIN f = 0..0 /\ f = [i \in 0..0 |-> Turn(f, i)]
    OBVIOUS
  <2> HIDE DEF f
  <2> QED BY <2>1
<1>3. ASSUME NEW k \in Nat, Good(k) PROVE Good(k + 1)
  <2>1. PICK f : DOMAIN f = 0..k /\ f = [i \in 0..k |-> Turn(f, i)]
    BY <1>3
  <2>2. \A i \in 0..k : f[i] = Turn(f, i)
    BY <2>1
  <2> DEFINE g == [i \in 0..k + 1 |-> IF i = k + 1 THEN Br!offer(f[k], k + 1) ELSE f[i]]
  <2>3. ASSUME NEW i \in 0..k + 1 PROVE g[i] = Turn(g, i)
    <3>1. CASE i = k + 1
      <4>1. g[i] = Br!offer(f[k], k + 1) /\ g[i - 1] = f[k] /\ i # 0
        BY <3>1
      <4> HIDE DEF g
      <4> QED BY <3>1, <4>1
    <3>2. CASE i = 0
      <4>1. g[i] = f[0] /\ 0 \in 0..k
        BY <3>2
      <4> HIDE DEF g
      <4> QED BY <2>2, <3>2, <4>1
    <3>3. CASE i # 0 /\ i # k + 1
      <4>1. i \in 0..k /\ i - 1 \in 0..k /\ i - 1 # k + 1 /\ i - 1 \in 0..k + 1
        BY <3>3
      <4>2. g[i] = f[i] /\ g[i - 1] = f[i - 1]
        BY <3>3, <4>1
      <4> HIDE DEF g
      <4> QED BY <2>2, <3>3, <4>1, <4>2
    <3> QED BY <3>1, <3>2, <3>3
  <2>4. DOMAIN g = 0..k + 1
    OBVIOUS
  <2>5. g = [i \in 0..k + 1 |-> g[i]]
    OBVIOUS
  <2> HIDE DEF g
  <2>6. g = [i \in 0..k + 1 |-> Turn(g, i)]
    BY <2>3, <2>5
  <2> QED BY <2>4, <2>6
<1>4. Good(n)
  <2> DEFINE Bad == {k \in Nat : ~Good(k)}
  <2> HIDE DEF Good
  <2>1. CASE Bad = {}
    BY <1>1, <2>1
  <2>2. CASE Bad # {}
    <3>1. PICK k \in Bad : \A j \in Bad : k <= j
      <4>1. Bad \in SUBSET Nat
        OBVIOUS
      <4> HIDE DEF Bad
      <4> QED BY <2>2, <4>1, LeastNumber
    <3>2. k # 0 /\ k \in Nat /\ ~Good(k)
      BY <1>2, <3>1
    <3>3. k - 1 \in Nat /\ (k - 1) + 1 = k /\ k - 1 \notin Bad
      BY <3>1, <3>2
    <3>4. Good(k - 1)
      BY <3>3
    <3> QED BY <1>3, <3>2, <3>3, <3>4
  <2> QED BY <2>1, <2>2
<1>5. PICK f : f = [i \in 0..n |-> Turn(f, i)]
  BY <1>4
<1>6. Br!offered = [i \in 0..n |-> Turn(Br!offered, i)]
  BY <1>5 DEF Br!offered
<1>7. \A i \in 0..n : Br!offered[i] = Turn(Br!offered, i)
  BY <1>6
<1>8. 0 \in 0..n /\ \A i \in 1..n : i \in 0..n /\ i # 0
  BY <1>1
<1> QED BY <1>7, <1>8

(* The whole merge: all shipped rules have been offered.                    *)
LEMMA MergeIsDone ==
    ASSUME RulesType, NoSharedId(apps), Br!mergeBuiltinRules
    PROVE  OfferedSoFar(apps', Len(Br!Shipped))
<1> DEFINE n == Len(Br!Shipped)
           Bad == {i \in 0..n : ~OfferedSoFar(Br!offered[i], i)}
<1>1. n \in Nat /\ apps \in Seq(FileRule) /\ Len(apps) \in Nat
  BY ShippedOnce, FileRules DEF RulesType
<1>2. OfferedSoFar(Br!offered[0], 0)
  <2> DEFINE rs == Br!adopt(apps)
  <2>1. /\ rs \in Seq(FileRule) /\ Len(rs) = Len(apps) /\ NoSharedId(rs) /\ Br!Ids(rs) \subseteq Br!Ids(apps) \cup ShippedSet
        /\ \A j \in 1..Len(apps) : rs[j].matcher = apps[j].matcher /\ rs[j].class = apps[j].class
    BY Adopted
  <2>2. Br!offered[0] = rs
    BY OfferedInTurn
  <2> HIDE DEF rs
  <2> DEFINE same == [j \in 1..Len(apps) |-> j]
  <2>3. \A j \in 1..Len(apps) : same[j] = j
    OBVIOUS
  <2>4. same \in [1..Len(apps) -> 1..Len(rs)]
    BY <2>1
  <2> HIDE DEF same
  <2>5. Placing(same, rs)
    BY <2>1, <2>3, <2>4 DEF Placing
  <2>6. 1..0 = {}
    OBVIOUS
  <2> QED BY <2>1, <2>2, <2>5, <2>6 DEF OfferedSoFar, ShippedSet, rs
<1>3. ASSUME NEW i \in 1..n, OfferedSoFar(Br!offered[i - 1], i - 1) PROVE OfferedSoFar(Br!offered[i], i)
  <2>1. Br!offered[i] = Br!offer(Br!offered[i - 1], i)
    BY OfferedInTurn
  <2> QED BY <1>3, <2>1, OfferKeeps
<1>4. Bad = {}
  <2> SUFFICES ASSUME Bad # {} PROVE FALSE
    OBVIOUS
  <2>1. PICK i \in Bad : \A j \in Bad : i <= j
    <3>1. Bad \in SUBSET Nat
      BY <1>1
    <3> HIDE DEF Bad
    <3> QED BY <3>1, LeastNumber
  <2>2. i \in 0..n /\ ~OfferedSoFar(Br!offered[i], i) /\ i # 0
    BY <1>2, <2>1
  <2>3. i \in 1..n /\ i - 1 \in 0..n /\ ~(i <= i - 1)
    BY <1>1, <2>2
  <2>4. i - 1 \notin Bad
    BY <2>1, <2>3
  <2>5. OfferedSoFar(Br!offered[i - 1], i - 1)
    BY <2>3, <2>4
  <2> QED BY <1>3, <2>2, <2>3, <2>5
<1>5. n \in 0..n /\ apps' = Br!offered[n]
  BY <1>1 DEF Br!mergeBuiltinRules
<1>6. OfferedSoFar(Br!offered[n], n)
  BY <1>4, <1>5
<1> QED BY <1>5, <1>6

\* Positions that grow, and those reached with the first j.
Growing(at, n, m) == at \in [1..n -> 1..m] /\ \A j, k \in 1..n : j < k => at[j] < at[k]
Reached(at, j) == {at[i] : i \in 1..j}

(* Positions that grow are as many as they are, up to any of them.          *)
LEMMA GrowingPositions ==
    ASSUME NEW n \in Nat, NEW m \in Nat, NEW at, Growing(at, n, m), NEW j \in 0..n
    PROVE  Cardinality(Reached(at, j)) = j
<1> USE DEF Growing
<1> DEFINE S == {at[i] : i \in 1..j}
           f == [i \in 1..j |-> at[i]]
<1>1. \A i \in 1..j : i \in 1..n /\ f[i] = at[i] /\ at[i] \in 1..m
  OBVIOUS
<1>2. f \in [1..j -> S] /\ \A s \in S : \E i \in 1..j : f[i] = s
  OBVIOUS
<1> HIDE DEF f
<1>3. ASSUME NEW a \in 1..j, NEW b \in 1..j, f[a] = f[b] PROVE a = b
  <2>1. /\ a \in 1..n /\ b \in 1..n /\ at[a] = at[b] /\ at[a] \in 1..m
    BY <1>1, <1>3
  <2>2. ~(a < b) /\ ~(b < a)
    BY <2>1
  <2> QED BY <2>1, <2>2
<1>4. f \in Bijection(1..j, S)
  BY <1>2, <1>3 DEF Bijection, Injection, Surjection, IsInjective
<1>5. ExistsBijection(1..j, S)
  BY <1>4 DEF ExistsBijection
<1> HIDE DEF S
<1>6. j \in Nat
  OBVIOUS
<1>7. Cardinality(S) = j
  BY <1>5, <1>6, FS_CountingElements
<1> QED BY <1>7 DEF S, Reached

(* What a merge did: nothing the file had is lost, moved against each other *)
(* or changed, what is added the file lacked and had not been offered, and  *)
(* nothing shipped is left out (mergeBuiltinRules).                         *)
LEMMA MergeMeans ==
    ASSUME RulesType, NoSharedId(apps), deleted \subseteq seen, OfferedSoFar(apps', Len(Br!Shipped))
    PROVE  Br!DeletedStaysDeleted /\ Br!EditsSurviveMerge /\ Br!NewRulesKeepOrder
<1> DEFINE n == Len(apps)
           m == Len(apps')
<1>1. /\ n \in Nat /\ m \in Nat /\ apps \in Seq(FileRule) /\ apps' \in Seq(FileRule)
      /\ \A k \in 1..m : apps'[k].id \in {NoId, apps'[k].matcher}
  BY FileRules DEF RulesType, OfferedSoFar
<1>2. PICK at : Placing(at, apps')
  BY DEF OfferedSoFar
<1>3. /\ at \in [1..n -> 1..m]
      /\ \A j, k \in 1..n : j < k => at[j] < at[k]
      /\ \A j \in 1..n : apps'[at[j]].matcher = apps[j].matcher /\ apps'[at[j]].class = apps[j].class
      /\ \A k \in 1..m : (\A j \in 1..n : at[j] # k) => ~Br!Has(apps, apps'[k].matcher) /\ apps'[k].matcher \notin seen
  BY <1>2 DEF Placing
<1>4. Br!DeletedStaysDeleted
  <2> SUFFICES ASSUME NEW x \in deleted, Br!Has(apps', x) PROVE Br!Has(apps, x)
    BY DEF Br!DeletedStaysDeleted
  <2>1. PICK k \in 1..m : apps'[k].matcher = x
    BY DEF Br!Has
  <2>2. PICK j \in 1..n : at[j] = k
    BY <1>3, <2>1
  <2> QED BY <1>3, <2>1, <2>2 DEF Br!Has
<1> DEFINE kept == {k \in 1..m : Br!Has(apps, apps'[k].matcher)}
<1>5. kept = Reached(at, n)
  <2>1. ASSUME NEW k \in kept PROVE \E i \in 1..n : at[i] = k
    BY <1>3
  <2>2. ASSUME NEW i \in 1..n PROVE at[i] \in kept
    <3>1. at[i] \in 1..m /\ apps'[at[i]].matcher = apps[i].matcher
      BY <1>3
    <3> QED BY <3>1 DEF Br!Has
  <2> QED BY <2>1, <2>2 DEF Reached
<1>6. \A S : Br!Cardinality(S) = Cardinality(S)
  BY DEF Br!Cardinality, Cardinality
<1>7. Br!Cardinality(kept) = n
  <2>1. n \in 0..n
    BY <1>1
  <2>3. Growing(at, n, m)
    BY <1>3 DEF Growing
  <2> HIDE DEF n, m, kept
  <2>2. Cardinality(Reached(at, n)) = n
    BY <1>1, <2>1, <2>3, GrowingPositions
  <2> QED BY <1>5, <1>6, <2>2
<1>8. ASSUME NEW k \in kept
      PROVE  <<apps'[k].matcher, apps'[k].class>> =
               <<apps[Br!Cardinality({l \in kept : l <= k})].matcher, apps[Br!Cardinality({l \in kept : l <= k})].class>>
  <2>1. PICK j \in 1..n : at[j] = k
    BY <1>5 DEF Reached
  <2>2. {l \in kept : l <= k} = Reached(at, j)
    <3>1. ASSUME NEW i \in 1..n PROVE at[i] <= k <=> i <= j
      <4>1. at[i] \in 1..m /\ at[j] \in 1..m /\ i \in Nat /\ j \in Nat
        BY <1>3
      <4>2. (i < j => at[i] < at[j]) /\ (j < i => at[j] < at[i])
        BY <1>3
      <4> QED BY <2>1, <4>1, <4>2
    <3>2. \A i : i \in 1..j <=> i \in 1..n /\ i <= j
      BY <1>1
    <3> HIDE DEF kept, n
    <3> QED BY <1>5, <3>1, <3>2 DEF Reached
  <2>3. j \in 0..n
    BY <1>1
  <2>4. Br!Cardinality({l \in kept : l <= k}) = j
    <3>2. Growing(at, n, m)
      BY <1>3 DEF Growing
    <3> HIDE DEF kept, n, m
    <3>1. Cardinality(Reached(at, j)) = j
      BY <1>1, <2>3, <3>2, GrowingPositions
    <3> QED BY <1>6, <2>2, <3>1
  <2> QED BY <1>3, <2>1, <2>4
<1>9. ASSUME NEW x \in Br!ToSet(Br!Shipped) \ seen PROVE Br!Has(apps', x)
  <2>1. x \in ShippedSet /\ x \notin seen
    BY ShippedOnce
  <2>2. PICK k \in 1..Len(Br!Shipped) : Br!Shipped[k] = x
    BY <2>1 DEF ShippedSet
  <2>3. x \in Br!Ids(apps')
    BY <2>1, <2>2 DEF OfferedSoFar
  <2>4. PICK j \in 1..m : apps'[j].id = x /\ x # NoId
    BY <1>1, <2>3, FileRules
  <2>5. apps'[j].matcher = x
    BY <1>1, <2>4
  <2> QED BY <2>5 DEF Br!Has
<1>10. Br!EditsSurviveMerge
  BY <1>7, <1>8, <1>9 DEF Br!EditsSurviveMerge
<1>11. Br!NewRulesKeepOrder
  <2> DEFINE pos(x) == CHOOSE k \in 1..Len(Br!Shipped) : Br!Shipped[k] = x
             inOrder(rs) == \A i, j \in 1..Len(rs) :
                 i < j /\ {rs[i].id, rs[j].id} \subseteq Br!ToSet(Br!Shipped) => pos(rs[i].id) < pos(rs[j].id)
  <2>1. \A a \in 1..Len(Br!Shipped) : pos(Br!Shipped[a]) = a
    BY ShippedOnce
  <2> HIDE DEF pos
  <2>2. ASSUME NEW rs PROVE inOrder(rs) <=> ShippedOrder(rs)
    <3>1. ASSUME inOrder(rs) PROVE ShippedOrder(rs)
      <4> SUFFICES ASSUME NEW j \in 1..Len(rs), NEW k \in 1..Len(rs), NEW a \in 1..Len(Br!Shipped), NEW b \in 1..Len(Br!Shipped),
                          j < k, rs[j].id = Br!Shipped[a], rs[k].id = Br!Shipped[b]
                   PROVE  a < b
        BY DEF ShippedOrder
      <4>1. {rs[j].id, rs[k].id} \subseteq Br!ToSet(Br!Shipped)
        BY ShippedOnce DEF ShippedSet
      <4>2. pos(rs[j].id) < pos(rs[k].id)
        BY <3>1, <4>1
      <4> QED BY <2>1, <4>2
    <3>2. ASSUME ShippedOrder(rs) PROVE inOrder(rs)
      <4> SUFFICES ASSUME NEW i \in 1..Len(rs), NEW j \in 1..Len(rs), i < j, {rs[i].id, rs[j].id} \subseteq Br!ToSet(Br!Shipped)
                   PROVE  pos(rs[i].id) < pos(rs[j].id)
        OBVIOUS
      <4>1. PICK a \in 1..Len(Br!Shipped), b \in 1..Len(Br!Shipped) : rs[i].id = Br!Shipped[a] /\ rs[j].id = Br!Shipped[b]
        BY ShippedOnce DEF ShippedSet
      <4>2. a < b
        BY <3>2, <4>1 DEF ShippedOrder
      <4> QED BY <2>1, <4>1, <4>2
    <3> QED BY <3>1, <3>2
  <2>3. inOrder(Br!adopt(apps)) => inOrder(apps')
    <3> HIDE DEF inOrder
    <3> QED BY <2>2 DEF OfferedSoFar
  <2> QED BY <2>3 DEF Br!NewRulesKeepOrder, pos
<1> QED BY <1>4, <1>10, <1>11

(* Removing a rule moves those behind it up by one.                         *)
LEMMA RuleRemoved ==
    ASSUME NEW T, NEW rs \in Seq(T), NEW at \in 1..Len(rs), NEW less, less = Br!RemoveAt(rs, at)
    PROVE  /\ less \in Seq(T) /\ Len(less) = Len(rs) - 1
           /\ \A j \in 1..at - 1 : less[j] = rs[j]
           /\ \A j \in at..Len(rs) - 1 : less[j] = rs[j + 1]
<1> DEFINE front == SubSeq(rs, 1, at - 1)
           back == SubSeq(rs, at + 1, Len(rs))
<1>1. Len(rs) \in Nat /\ at \in Nat /\ \A j \in 1..Len(rs) : rs[j] \in T
  OBVIOUS
<1>2. front \in Seq(T) /\ Len(front) = at - 1 /\ \A j \in 1..at - 1 : front[j] = rs[j]
  OBVIOUS
<1>3. back \in Seq(T) /\ Len(back) = Len(rs) - at /\ \A j \in 1..Len(rs) - at : back[j] = rs[at + j]
  OBVIOUS
<1>4. less = front \o back
  BY DEF Br!RemoveAt
<1> HIDE DEF front, back
<1>5. /\ less \in Seq(T) /\ Len(less) = (at - 1) + (Len(rs) - at)
      /\ \A j \in 1..(at - 1) + (Len(rs) - at) : less[j] = IF j <= at - 1 THEN front[j] ELSE back[j - (at - 1)]
  <2>1. /\ front \o back \in Seq(T) /\ Len(front \o back) = Len(front) + Len(back)
        /\ \A j \in 1..Len(front) + Len(back) : (front \o back)[j] = IF j <= Len(front) THEN front[j] ELSE back[j - Len(front)]
    BY <1>2, <1>3, ConcatProperties
  <2> QED BY <1>2, <1>3, <1>4, <2>1
<1>6. ASSUME NEW j \in 1..at - 1 PROVE less[j] = rs[j]
  BY <1>1, <1>2, <1>5
<1>7. ASSUME NEW j \in at..Len(rs) - 1 PROVE less[j] = rs[j + 1]
  <2>1. j \in 1..(at - 1) + (Len(rs) - at) /\ ~(j <= at - 1) /\ j - (at - 1) \in 1..Len(rs) - at /\ at + (j - (at - 1)) = j + 1
    BY <1>1
  <2> QED BY <1>3, <1>5, <2>1
<1> QED BY <1>1, <1>5, <1>6, <1>7

\* What holds between the merges and the edits: the file has no id it was not
\* offered, nor has the operator deleted one.
MergeInv ==
    /\ RulesType /\ NoSharedId(apps)
    /\ Br!Ids(apps) \subseteq seen /\ deleted \subseteq seen

(* A new install and an old file are such files.                            *)
LEMMA MergeStarts ==
    ASSUME Br!BuildsAssumption, Br!Init
    PROVE  MergeInv
<1> DEFINE first == Builds[1]
           n == Len(first)
<1>1. /\ Len(Builds) \in Nat /\ 1 \in 1..Len(Builds) /\ first \in Seq(Br!Matchers) /\ n \in Nat /\ NoId \notin Br!Matchers
      /\ \A i, j \in 1..n : first[i] = first[j] => i = j
      /\ \A i \in 1..n : first[i] \in Br!Matchers
  <2>1. Builds \in Seq(Seq(Br!Matchers)) /\ Builds # <<>> /\ NoId \notin Br!Matchers
    BY DEF Br!BuildsAssumption
  <2>2. Len(Builds) \in Nat /\ 1 \in 1..Len(Builds)
    BY <2>1
  <2>3. first \in Seq(Br!Matchers)
    BY <2>1, <2>2
  <2>4. \A i, j \in 1..n : first[i] = first[j] => i = j
    BY <2>2 DEF Br!BuildsAssumption
  <2> HIDE DEF first
  <2> QED BY <2>1, <2>2, <2>3, <2>4
<1>2. build = 1 /\ deleted = {}
  BY DEF Br!Init
<1>3. CASE /\ seen = Br!ToSet(first)
           /\ apps = [i \in 1..n |-> Br!ShippedRule(first[i])]
  <2>1. \A i \in 1..n : apps[i] = [id |-> first[i], matcher |-> first[i], class |-> "shipped"]
    BY <1>3 DEF Br!ShippedRule
  <2> HIDE DEF first, n
  <2>2. ASSUME NEW i \in 1..n PROVE apps[i] \in FileRule /\ apps[i].id = first[i]
    <3>1. first[i] \in Br!Matchers /\ apps[i] = [id |-> first[i], matcher |-> first[i], class |-> "shipped"]
      BY <1>1, <2>1
    <3> QED BY <3>1 DEF FileRule
  <2>3. apps \in Seq(FileRule) /\ Len(apps) = n
    <3>1. apps \in [1..n -> FileRule]
      BY <1>3, <2>2
    <3> QED BY <1>1, <3>1
  <2>4. seen = {first[i] : i \in 1..n}
    <3>1. DOMAIN first = 1..n
      <4>1. Len(first) = n
        BY DEF n, first
      <4> QED BY <1>1, <4>1
    <3> QED BY <1>3, <3>1 DEF Br!ToSet, first
  <2>5. NoSharedId(apps)
    BY <1>1, <2>2, <2>3 DEF NoSharedId
  <2>6. Br!Ids(apps) \subseteq seen /\ seen \subseteq Br!Matchers
    BY <1>1, <2>2, <2>3, <2>4 DEF Br!Ids
  <2> QED BY <1>1, <1>2, <2>3, <2>5, <2>6 DEF MergeInv, RulesType
<1>4. ASSUME seen = {}, NEW m \in 0..n, NEW class \in {"shipped", "edited"}, NEW at \in [1..m -> 1..n],
             apps = [i \in 1..m |-> [id |-> NoId, matcher |-> first[at[i]], class |-> class]]
      PROVE  MergeInv
  <2>1. \A i \in 1..m : apps[i] = [id |-> NoId, matcher |-> first[at[i]], class |-> class]
    BY <1>4
  <2>2. m \in Nat /\ \A i \in 1..m : at[i] \in 1..n
    BY <1>1
  <2> HIDE DEF first
  <2>3. \A i \in 1..m : first[at[i]] \in Br!Matchers
    BY <1>1, <2>2
  <2> HIDE DEF n
  <2>4. ASSUME NEW i \in 1..m PROVE apps[i] \in FileRule /\ apps[i].id = NoId
    <3>1. first[at[i]] \in Br!Matchers /\ apps[i] = [id |-> NoId, matcher |-> first[at[i]], class |-> class]
      BY <2>1, <2>3
    <3>2. class \in {"shipped", "edited", "local"}
      OBVIOUS
    <3> QED BY <3>1, <3>2 DEF FileRule
  <2>5. apps \in Seq(FileRule) /\ Len(apps) = m
    <3>1. apps \in [1..m -> FileRule]
      BY <1>4, <2>4
    <3> QED BY <2>2, <3>1
  <2>6. NoSharedId(apps)
    BY <2>4, <2>5 DEF NoSharedId
  <2>7. Br!Ids(apps) = {}
    BY <2>4, <2>5 DEF Br!Ids
  <2> QED BY <1>1, <1>2, <1>4, <2>5, <2>6, <2>7 DEF MergeInv, RulesType
<1> QED BY <1>3, <1>4 DEF Br!Init

(* A merge gives out only ids it reserved, and an edit none at all.         *)
LEMMA MergeKeeps ==
    ASSUME MergeInv, Br!Next \/ UNCHANGED rulesVars
    PROVE  /\ MergeInv'
           /\ Br!DeletedStaysDeleted /\ Br!EditsSurviveMerge /\ Br!NewRulesKeepOrder
<1>1. RulesType /\ NoSharedId(apps) /\ Br!Ids(apps) \subseteq seen /\ deleted \subseteq seen
  BY DEF MergeInv
<1>2. /\ apps \in Seq(FileRule) /\ Len(apps) \in Nat /\ NoId \notin Br!Matchers /\ seen \subseteq Br!Matchers
      /\ build \in 1..Len(Builds) /\ Len(Builds) \in Nat
      /\ \A j \in 1..Len(apps) : apps[j] \in FileRule
  <2>1. Len(Builds) \in Nat
    BY <1>1 DEF RulesType, Br!BuildsAssumption
  <2> QED BY <1>1, <2>1, ShippedOnce DEF RulesType
<1>3. Br!BuildsAssumption'
  BY <1>1 DEF RulesType, Br!BuildsAssumption, Br!Matchers
<1>4. CASE Br!mergeBuiltinRules
  <2>1. OfferedSoFar(apps', Len(Br!Shipped))
    BY <1>1, <1>4, MergeIsDone
  <2>2. /\ apps' \in Seq(FileRule) /\ NoSharedId(apps')
        /\ Br!Ids(apps') \subseteq Br!Ids(apps) \cup ShippedSet
    BY <2>1 DEF OfferedSoFar, ShippedSet
  <2>3. seen' = seen \cup ShippedSet /\ build' = build /\ deleted' = deleted
    BY <1>1, <1>4, ShippedOnce DEF Br!mergeBuiltinRules
  <2>4. ShippedSet \subseteq Br!Matchers
    <3>1. Br!Shipped \in Seq(Br!Matchers)
      BY <1>1, ShippedOnce
    <3> QED BY <3>1 DEF ShippedSet
  <2>5. RulesType'
    BY <1>2, <1>3, <2>2, <2>3, <2>4 DEF RulesType
  <2>6. MergeInv'
    BY <1>1, <2>2, <2>3, <2>5 DEF MergeInv, NoSharedId, Br!Ids
  <2> QED BY <1>1, <2>1, <2>6, MergeMeans
<1>5. ASSUME NEW rs, NEW gone, Br!Edit(rs, gone),
             rs \in Seq(FileRule), NoSharedId(rs), Br!Ids(rs) \subseteq Br!Ids(apps), gone \subseteq Br!Ids(apps)
      PROVE  MergeInv' /\ ~Br!Merging
  <2>1. /\ apps' = rs /\ deleted' = deleted \cup gone /\ seen' = seen /\ build' = build /\ merged' = merged /\ merged
    BY <1>5 DEF Br!Edit
  <2>2. RulesType'
    BY <1>2, <1>3, <1>5, <2>1 DEF RulesType
  <2>3. NoSharedId(apps)'
    BY <1>5, <2>1 DEF NoSharedId
  <2>4. Br!Ids(apps)' \subseteq seen'
    BY <1>1, <1>5, <2>1 DEF Br!Ids
  <2>5. deleted' \subseteq seen'
    BY <1>1, <1>5, <2>1
  <2>6. ~Br!Merging
    BY <2>1 DEF Br!Merging
  <2> QED BY <2>2, <2>3, <2>4, <2>5, <2>6 DEF MergeInv
<1>6. CASE Br!Delete
  <2>1. PICK i \in 1..Len(apps) : Br!Edit(Br!RemoveAt(apps, i), {apps[i].id} \ {NoId})
    BY <1>6 DEF Br!Delete
  <2> DEFINE rs == Br!RemoveAt(apps, i)
             old(j) == IF j < i THEN j ELSE j + 1
  <2>2. /\ rs \in Seq(FileRule) /\ Len(rs) = Len(apps) - 1
        /\ \A j \in 1..i - 1 : rs[j] = apps[j]
        /\ \A j \in i..Len(apps) - 1 : rs[j] = apps[j + 1]
    <3> HIDE DEF rs
    <3>1. rs = Br!RemoveAt(apps, i)
      BY DEF rs
    <3> QED BY <1>2, <3>1, RuleRemoved
  <2> HIDE DEF rs
  <2>3. ASSUME NEW j \in 1..Len(rs) PROVE old(j) \in 1..Len(apps) /\ rs[j] = apps[old(j)]
    BY <1>2, <2>2
  <2>4. ASSUME NEW j \in 1..Len(rs), NEW k \in 1..Len(rs), old(j) = old(k) PROVE j = k
    BY <1>2, <2>2, <2>4
  <2> HIDE DEF old
  <2>5. NoSharedId(rs)
    BY <1>1, <2>3, <2>4 DEF NoSharedId
  <2>6. Br!Ids(rs) \subseteq Br!Ids(apps)
    BY <2>3 DEF Br!Ids
  <2>7. {apps[i].id} \ {NoId} \subseteq Br!Ids(apps)
    BY DEF Br!Ids
  <2>8. Br!Edit(rs, {apps[i].id} \ {NoId})
    BY <2>1 DEF rs
  <2> QED BY <1>5, <2>2, <2>5, <2>6, <2>7, <2>8 DEF Br!DeletedStaysDeleted, Br!EditsSurviveMerge, Br!NewRulesKeepOrder
<1>7. CASE Br!AddLocal
  <2>1. PICK x \in Br!Matchers, i \in {1, Len(apps) + 1} : Br!Edit(Br!InsertAt(apps, i, [id |-> NoId, matcher |-> x, class |-> "local"]), {})
    BY <1>7 DEF Br!AddLocal
  <2> DEFINE r == [id |-> NoId, matcher |-> x, class |-> "local"]
             rs == Br!InsertAt(apps, i, r)
             old(j) == IF j < i THEN j ELSE j - 1
  <2>2. r \in FileRule /\ r.id = NoId
    BY DEF FileRule
  <2> HIDE DEF r
  <2>3. i \in 1..Len(apps) + 1
    BY <1>2
  <2>4. /\ rs \in Seq(FileRule) /\ Len(rs) = Len(apps) + 1 /\ rs[i] = r
        /\ \A j \in 1..i - 1 : rs[j] = apps[j]
        /\ \A j \in i..Len(apps) : rs[j + 1] = apps[j]
    <3> HIDE DEF rs
    <3>1. rs = Br!InsertAt(apps, i, r)
      BY DEF rs
    <3> QED BY <1>2, <2>2, <2>3, <3>1, RuleInserted
  <2> HIDE DEF rs
  <2>5. ASSUME NEW j \in 1..Len(rs), rs[j].id # NoId PROVE old(j) \in 1..Len(apps) /\ rs[j] = apps[old(j)] /\ j # i
    <3>1. j # i
      BY <2>2, <2>4, <2>5
    <3>2. CASE j < i
      BY <1>2, <2>3, <2>4, <3>2
    <3>3. CASE i < j
      <4>1. j - 1 \in i..Len(apps) /\ (j - 1) + 1 = j /\ old(j) = j - 1 /\ j - 1 \in 1..Len(apps)
        BY <1>2, <2>3, <2>4, <3>3
      <4> QED BY <2>4, <3>1, <4>1
    <3> QED BY <1>2, <2>3, <2>4, <3>1, <3>2, <3>3
  <2>6. ASSUME NEW j \in 1..Len(rs), NEW k \in 1..Len(rs), old(j) = old(k), j # i, k # i PROVE j = k
    BY <1>2, <2>3, <2>4, <2>6
  <2> HIDE DEF old
  <2>7. NoSharedId(rs)
    BY <1>1, <2>5, <2>6 DEF NoSharedId
  <2>8. Br!Ids(rs) \subseteq Br!Ids(apps)
    BY <2>5 DEF Br!Ids
  <2>9. Br!Edit(rs, {})
    BY <2>1 DEF rs, r
  <2> QED BY <1>5, <2>4, <2>7, <2>8, <2>9 DEF Br!DeletedStaysDeleted, Br!EditsSurviveMerge, Br!NewRulesKeepOrder
<1>8. CASE Br!ChangeClass
  <2>1. PICK i \in 1..Len(apps) : Br!Edit([apps EXCEPT ![i].class = "edited"], {})
    BY <1>8 DEF Br!ChangeClass
  <2> DEFINE rs == [apps EXCEPT ![i].class = "edited"]
  <2>2. apps \in [1..Len(apps) -> FileRule]
    BY <1>2
  <2>3. \A j \in 1..Len(apps) : rs[j] = IF j = i THEN [apps[i] EXCEPT !.class = "edited"] ELSE apps[j]
    BY <2>2
  <2>4. [apps[i] EXCEPT !.class = "edited"] \in FileRule /\ [apps[i] EXCEPT !.class = "edited"].id = apps[i].id
    BY <1>2 DEF FileRule
  <2>5. \A j \in 1..Len(apps) : rs[j] \in FileRule /\ rs[j].id = apps[j].id
    BY <1>2, <2>3, <2>4
  <2>6. rs \in Seq(FileRule) /\ Len(rs) = Len(apps)
    <3>1. DOMAIN rs = 1..Len(apps)
      BY <2>2
    <3>2. rs = [j \in 1..Len(apps) |-> rs[j]]
      BY <2>2
    <3>3. rs \in [1..Len(apps) -> FileRule]
      <4> HIDE DEF rs
      <4> QED BY <2>5, <3>2
    <3> HIDE DEF rs
    <3> QED BY <1>2, <3>3
  <2> HIDE DEF rs
  <2>7. NoSharedId(rs) /\ Br!Ids(rs) \subseteq Br!Ids(apps)
    BY <1>1, <2>5, <2>6 DEF NoSharedId, Br!Ids
  <2>8. Br!Edit(rs, {})
    BY <2>1 DEF rs
  <2> QED BY <1>5, <2>6, <2>7, <2>8 DEF Br!DeletedStaysDeleted, Br!EditsSurviveMerge, Br!NewRulesKeepOrder
<1>9. CASE Br!Restart
  <2>1. /\ apps' = apps /\ seen' = seen /\ deleted' = deleted /\ merged' = FALSE /\ merged
        /\ build' \in build..Len(Builds)
    BY <1>9 DEF Br!Restart
  <2>2. build' \in 1..Len(Builds)
    BY <1>2, <2>1
  <2>3. ~Br!Merging
    BY <2>1 DEF Br!Merging
  <2>4. RulesType'
    BY <1>2, <1>3, <2>1, <2>2 DEF RulesType
  <2>5. MergeInv'
    BY <1>1, <2>1, <2>4 DEF MergeInv, NoSharedId, Br!Ids
  <2> QED BY <2>3, <2>5 DEF Br!DeletedStaysDeleted, Br!EditsSurviveMerge, Br!NewRulesKeepOrder
<1>10. CASE UNCHANGED rulesVars
  <2>1. apps' = apps /\ seen' = seen /\ deleted' = deleted /\ merged' = merged /\ build' = build
    BY <1>10 DEF rulesVars
  <2>2. ~Br!Merging
    BY <2>1 DEF Br!Merging
  <2>3. MergeInv'
    BY <1>1, <1>2, <1>3, <2>1 DEF MergeInv, RulesType, NoSharedId, Br!Ids
  <2> QED BY <2>2, <2>3 DEF Br!DeletedStaysDeleted, Br!EditsSurviveMerge, Br!NewRulesKeepOrder
<1> QED BY <1>4, <1>6, <1>7, <1>8, <1>9, <1>10 DEF Br!Next

(* For any builds, none of which ships a rule twice, and any edits between  *)
(* their starts: a merge keeps the file's rules in their order and with     *)
(* their classes, adds only what the file neither has nor was offered, so   *)
(* nothing the operator deleted, adds it in the shipped order, and no id is *)
(* used twice (mergeBuiltinRules).                                          *)
THEOREM ShippedRulesMerged == Spec => ShippedRulesMerge
<1>1. Init => MergeInv
  BY ConstantsAssumption, MergeStarts DEF Init
<1>2. MergeInv => Br!IdsAreUnique
  BY DEF MergeInv, NoSharedId, Br!IdsAreUnique
<1>3. MergeInv' => Br!IdsAreUnique'
  BY <1>2, PTL
<1>4. MergeInv /\ [Next]_vars =>
        /\ MergeInv'
        /\ Br!DeletedStaysDeleted /\ Br!EditsSurviveMerge /\ Br!NewRulesKeepOrder
  <2> SUFFICES ASSUME MergeInv, [Next]_vars
               PROVE  /\ MergeInv'
                      /\ Br!DeletedStaysDeleted /\ Br!EditsSurviveMerge /\ Br!NewRulesKeepOrder
    OBVIOUS
  <2>1. Br!Next \/ UNCHANGED rulesVars
    BY DEF Next, CsMoves, BrMoves, HkMoves, AcMoves, CrMoves, ArMoves, AsMoves, AaMoves, vars
  <2> QED BY <2>1, MergeKeeps
<1>5. MergeInv /\ [Next]_vars =>
        /\ MergeInv'
        /\ part = "rules" =>
             /\ Br!IdsAreUnique'
             /\ Br!DeletedStaysDeleted /\ Br!EditsSurviveMerge /\ Br!NewRulesKeepOrder
  BY <1>3, <1>4
<1> QED BY <1>1, <1>5, PTL DEF Spec, ShippedRulesMerge
=============================================================================
