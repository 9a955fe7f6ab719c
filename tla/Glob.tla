-------------------------------- MODULE Glob --------------------------------
(***************************************************************************)
(* The matcher of path patterns (src/internal/classify/classify.go,        *)
(* globMatch): one pass over the text that remembers only the last star.   *)
(* Text and pattern are sequences of symbols; "*" matches any run and "?"  *)
(* any one symbol of the text.                                             *)
(***************************************************************************)
EXTENDS Naturals, Sequences

CONSTANTS Symbols, MaxText, MaxPattern

\* What the values of the constants have to satisfy.
SymbolsAssumption == Symbols \cap {"*", "?"} = {} /\ MaxText \in Nat /\ MaxPattern \in Nat

VARIABLES pattern, text, pi, si, star, mark, result, steps

vars == <<pattern, text, pi, si, star, mark, result, steps>>

None == 0
SeqsUpTo(S, n) == UNION {[1 .. k -> S] : k \in 0 .. n}

Init ==
    /\ pattern \in SeqsUpTo(Symbols \cup {"*", "?"}, MaxPattern) /\ text \in SeqsUpTo(Symbols, MaxText)
    /\ pi = 1 /\ si = 1 /\ star = None /\ mark = 1 /\ result = "running" /\ steps = 0

More == result = "running" /\ si <= Len(text)
Literal == pi <= Len(pattern) /\ pattern[pi] \in {"?", text[si]}
AtStar == pi <= Len(pattern) /\ pattern[pi] = "*"

Advance ==
    /\ More /\ Literal
    /\ pi' = pi + 1 /\ si' = si + 1 /\ UNCHANGED <<star, mark, result>>

Remember ==
    /\ More /\ ~Literal /\ AtStar
    /\ star' = pi /\ mark' = si /\ pi' = pi + 1 /\ UNCHANGED <<si, result>>

\* The last star takes one symbol more.
Backtrack ==
    /\ More /\ ~Literal /\ ~AtStar /\ star # None
    /\ pi' = star + 1 /\ mark' = mark + 1 /\ si' = mark' /\ UNCHANGED <<star, result>>

Fail ==
    /\ More /\ ~Literal /\ ~AtStar /\ star = None
    /\ result' = "no" /\ UNCHANGED <<pi, si, star, mark>>

\* The text is used up: only stars may be left of the pattern.
Finish ==
    /\ result = "running" /\ si > Len(text)
    /\ result' = IF \A i \in pi .. Len(pattern) : pattern[i] = "*" THEN "yes" ELSE "no"
    /\ UNCHANGED <<pi, si, star, mark>>

Next ==
    /\ Advance \/ Remember \/ Backtrack \/ Fail \/ Finish
    /\ steps' = steps + 1 /\ UNCHANGED <<pattern, text>>

Spec == Init /\ [][Next]_vars

-----------------------------------------------------------------------------
(* Properties.                                                             *)

\* An alignment says where in the text each symbol of the pattern begins to
\* match and where the last one ends: a star takes any run, another symbol one.
Takes(p, from, to) ==
    IF pattern[p] = "*" THEN from <= to ELSE to = from + 1 /\ pattern[p] \in {"?", text[from]}

Aligns(c, first) == c[Len(pattern) + 1] = Len(text) + 1 /\ \A p \in first .. Len(pattern) : Takes(p, c[p], c[p + 1])

Means == \E c \in [1 .. Len(pattern) + 1 -> 1 .. Len(text) + 1] : c[1] = 1 /\ Aligns(c, 1)

(* The single remembered star is enough: the pass accepts exactly the texts *)
(* the pattern describes (globMatch).                                       *)
GlobIsExact == result # "running" => (result = "yes") = Means

(* "It cannot blow up on hostile patterns": no more steps than the product  *)
(* of the two lengths (globMatch).                                          *)
StepsAreBounded == steps <= (Len(text) + 1) * (Len(pattern) + 1) + 1
=============================================================================
