------------------------------- MODULE Usage -------------------------------
(***************************************************************************)
(* What the proxy keeps of a response to read its token counts from        *)
(* (src/internal/proxy/usage.go): the first HeadBytes and, by way of a     *)
(* buffer that is compacted when it is twice too long, the last TailBytes. *)
(* The bytes of a response are numbered, and so tell where they come from. *)
(***************************************************************************)
EXTENDS Naturals, Sequences

CONSTANTS HeadBytes, TailBytes, MaxChunk, MaxBody

\* What the values of the constants have to satisfy.
UsageAssumption == {HeadBytes, TailBytes, MaxChunk, MaxBody} \subseteq Nat

VARIABLES read,        \* the number of bytes read so far
          head, tail   \* the two buffers
vars == <<read, head, tail>>

Bytes(from, to) == [i \in 1..(to - from) |-> from + i]
LastOf(s, n) == SubSeq(s, Len(s) - n + 1, Len(s))

Init == read = 0 /\ head = <<>> /\ tail = <<>>

\* The head takes what it has room for.
HeadWith(p) ==
    LET room == HeadBytes - Len(head)
    IN IF room > 0 THEN head \o SubSeq(p, 1, IF room < Len(p) THEN room ELSE Len(p)) ELSE head

TailWith(p) ==
    LET t == tail \o p IN IF Len(t) > 2 * TailBytes THEN LastOf(t, TailBytes) ELSE t

\* tap.Read and observe, with a chunk of n bytes, which may be none.
Read(n) ==
    /\ read + n <= MaxBody /\ read' = read + n
    /\ IF n = 0 THEN UNCHANGED <<head, tail>>
       ELSE LET p == Bytes(read, read + n)
            IN head' = HeadWith(p) /\ tail' = TailWith(p)

tailBytes == IF Len(tail) > TailBytes THEN LastOf(tail, TailBytes) ELSE tail

Next == \E n \in 0..MaxChunk : Read(n)
Spec == Init /\ [][Next]_vars

-----------------------------------------------------------------------------
(* Properties.                                                             *)

Least(a, b) == IF a < b THEN a ELSE b

\* However the response is cut into chunks, the windows the counts are read
\* from are its beginning and its end, with no byte missing, doubled or out of
\* order (observe, tailBytes).
WindowsAreExact ==
    /\ head = Bytes(0, Least(read, HeadBytes))
    /\ tailBytes = Bytes(read - Least(read, TailBytes), read)

\* A long completion costs no memory: what is kept never exceeds the head and
\* twice the tail, whatever the size of the chunks (the comment on the tap).
MemoryIsBounded == Len(head) <= HeadBytes /\ Len(tail) <= 2 * TailBytes
=============================================================================
