---------------------------- MODULE BuiltinRules ----------------------------
(***************************************************************************)
(* How the shipped application rules reach a configuration file that the   *)
(* operator edits (src/internal/config/builtin.go, mergeBuiltinRules):     *)
(* every start of a build merges its own shipped list into the file, and   *)
(* the operator adds, deletes, reorders and edits rules in between. A rule *)
(* is [id, matcher, class]; the shipped rule for a matcher has that        *)
(* matcher as its id, a local rule the id NoId.                            *)
(***************************************************************************)
EXTENDS Naturals, Sequences, SequencesExt, FiniteSets

CONSTANTS Builds,      \* the shipped lists of successive builds
          NoId, MaxEdits

Matchers == UNION {ToSet(Builds[b]) : b \in 1 .. Len(Builds)}

\* What the values of the constants have to satisfy: no build ships a rule twice.
BuildsAssumption ==
    /\ Builds \in Seq(Seq(Matchers)) /\ Builds # <<>> /\ MaxEdits \in Nat /\ NoId \notin Matchers
    /\ \A b \in 1 .. Len(Builds) : \A i, j \in 1 .. Len(Builds[b]) : Builds[b][i] = Builds[b][j] => i = j

VARIABLES apps, seen,    \* the file: Applications, BuiltinRulesSeen
          build,         \* the build that runs
          merged,        \* the build has merged its list
          deleted,       \* ghost: shipped rules the operator deleted
          edits

vars == <<apps, seen, build, merged, deleted, edits>>

Shipped == Builds[build]
ShippedRule(x) == [id |-> x, matcher |-> x, class |-> "shipped"]
Ids(rs) == {rs[i].id : i \in 1 .. Len(rs)} \ {NoId}
indexOfRule(rs, id) == IF id \in Ids(rs) THEN CHOOSE i \in 1 .. Len(rs) : rs[i].id = id /\ \A j \in 1 .. i - 1 : rs[j].id # id ELSE 0

\* The first rule without an id for a shipped matcher is that shipped rule,
\* unless the file has the id already.
adopt(rs) ==
    [i \in 1 .. Len(rs) |->
       IF /\ rs[i].id = NoId /\ rs[i].matcher \in ToSet(Shipped) \ Ids(rs)
          /\ \A j \in 1 .. i - 1 : ~(rs[j].id = NoId /\ rs[j].matcher = rs[i].matcher)
       THEN [rs[i] EXCEPT !.id = rs[i].matcher] ELSE rs[i]]

\* A shipped rule goes right after the closest earlier shipped one present.
place(rs, i) ==
    LET present == {j \in 1 .. i - 1 : Shipped[j] \in Ids(rs)}
    IN IF present = {} THEN 1 ELSE indexOfRule(rs, Shipped[CHOOSE j \in present : \A k \in present : k <= j]) + 1

\* Mutant: what the file lacks is added, whatever it was offered before.
offer_Again(rs, i) ==
    IF Shipped[i] \in Ids(rs) THEN rs ELSE InsertAt(rs, place(rs, i), ShippedRule(Shipped[i]))

offer(rs, i) ==
    IF Shipped[i] \in Ids(rs) \cup seen THEN rs ELSE InsertAt(rs, place(rs, i), ShippedRule(Shipped[i]))

\* The file after each shipped rule in turn, each placed among those already there.
offered[i \in 0 .. Len(Shipped)] == IF i = 0 THEN adopt(apps) ELSE offer(offered[i - 1], i)

mergeBuiltinRules ==
    /\ ~merged
    /\ apps' = offered[Len(Shipped)]
    /\ seen' = seen \cup ToSet(Shipped) /\ merged' = TRUE
    /\ UNCHANGED <<build, deleted, edits>>

\* A new install has the first build's list; an old file has some of its rules,
\* perhaps edited, without ids.
Init ==
    /\ build = 1 /\ merged = FALSE /\ deleted = {} /\ edits = 0
    /\ \/ /\ seen = ToSet(Builds[1])
          /\ apps = [i \in 1 .. Len(Builds[1]) |-> ShippedRule(Builds[1][i])]
       \/ /\ seen = {}
          /\ \E n \in 0 .. Len(Builds[1]), class \in {"shipped", "edited"} : \E at \in [1 .. n -> 1 .. Len(Builds[1])] :
               /\ \A i, j \in 1 .. n : i < j => at[i] < at[j]
               /\ apps = [i \in 1 .. n |-> [id |-> NoId, matcher |-> Builds[1][at[i]], class |-> class]]

\* The operator edits the file through the running service.
Edit(rs, gone) ==
    /\ merged /\ edits < MaxEdits
    /\ edits' = edits + 1 /\ apps' = rs
    /\ deleted' = deleted \cup gone
    /\ UNCHANGED <<seen, build, merged>>

Delete == \E i \in 1 .. Len(apps) : Edit(RemoveAt(apps, i), {apps[i].id} \ {NoId})
AddLocal == \E x \in Matchers, i \in {1, Len(apps) + 1} : Edit(InsertAt(apps, i, [id |-> NoId, matcher |-> x, class |-> "local"]), {})
ChangeClass == \E i \in 1 .. Len(apps) : Edit([apps EXCEPT ![i].class = "edited"], {})

\* A later build starts, or the same one again.
Restart ==
    /\ merged /\ merged' = FALSE /\ build' \in build .. Len(Builds)
    /\ UNCHANGED <<apps, seen, deleted, edits>>

Next == mergeBuiltinRules \/ Delete \/ AddLocal \/ ChangeClass \/ Restart
Spec == Init /\ [][Next]_vars

-----------------------------------------------------------------------------
Merging == ~merged /\ merged'
Has(rs, x) == \E i \in 1 .. Len(rs) : rs[i].matcher = x

(* A rule the operator deleted is not brought back, by this build or a      *)
(* later one (mergeBuiltinRules, BuiltinRulesSeen): a merge adds none that  *)
(* the operator has not written again.                                      *)
DeletedStaysDeleted ==
    Merging => \A x \in deleted : Has(apps', x) => Has(apps, x)

(* No two rules of the file share an id, or the configuration would be      *)
(* refused (mergeBuiltinRules reserves the ids before it gives any out).    *)
IdsAreUnique ==
    \A i, j \in 1 .. Len(apps) : apps[i].id = apps[j].id /\ apps[i].id # NoId => i = j

(* A merge keeps every rule of the file, with its class and in its order,   *)
(* so what was edited still decides; and it offers each shipped rule.       *)
EditsSurviveMerge ==
    Merging =>
      LET kept == {j \in 1 .. Len(apps') : Has(apps, apps'[j].matcher)}
          plain(r) == <<r.matcher, r.class>>
      IN /\ Cardinality(kept) = Len(apps)
         /\ \A j \in kept : plain(apps'[j]) = plain(apps[Cardinality({k \in kept : k <= j})])
         /\ \A x \in ToSet(Shipped) \ seen : Has(apps', x)

(* In a file whose shipped rules are in the shipped order, a new shipped    *)
(* rule comes before the shipped rules that follow it: the first match wins *)
(* as it does in a new install (mergeBuiltinRules, the insertion).          *)
NewRulesKeepOrder ==
    Merging =>
      LET pos(x) == CHOOSE k \in 1 .. Len(Shipped) : Shipped[k] = x
          inOrder(rs) == \A i, j \in 1 .. Len(rs) :
              i < j /\ {rs[i].id, rs[j].id} \subseteq ToSet(Shipped) => pos(rs[i].id) < pos(rs[j].id)
      IN inOrder(adopt(apps)) => inOrder(apps')
=============================================================================
