--------------------------- MODULE Serving_proofs ---------------------------
(***************************************************************************)
(* Why the proxy's books are right and its windows exact, memory comes     *)
(* back and process trees stay owned, for every set of requests, callers   *)
(* and processes, and models, windows and timeouts of every size.  The     *)
(* proxy's invariant ties the four things a release touches at different   *)
(* times, the handler's phase, the ticket, the account and the cause, to   *)
(* each other; the tap's says of its two buffers which bytes they are; the *)
(* memory's, that the reading a release is checked against is of the model *)
(* that stopped; the tree's, that what runs of a runtime is in the job of  *)
(* the instance the controller holds.                                      *)
(***************************************************************************)
EXTENDS MCServing, SequenceTheorems, TLAPS

-----------------------------------------------------------------------------
(* The proxy.                                                              *)

Held == {"forward", "stream", "blocked", "return", "release"}
Phases == Held \cup {"new", "refused", "signal", "done"}
Accounted == {"release", "signal", "done"}

ProxyType ==
    /\ open \in BOOLEAN /\ active \subseteq Requests
    /\ ctl \in {"closed", "serving", "draining", "cutting"}
    /\ phase \in [Requests -> Phases]
    /\ cause \in [Requests -> {"none", "timeout", "client", "preempted", "done"}]
    /\ status \in [Requests -> {0, 200, 400, 500, 502}]
    /\ whole \in [Requests -> BOOLEAN] /\ panicked \in [Requests -> BOOLEAN]
    /\ end \in [Requests -> {"none", "clean", "abort"}]
    /\ accounts \in [Requests -> Nat]
    /\ outcome \in [Requests -> {"none", "timeout", "force_closed", "upstream_error",
                                 "client_error", "ok"}]

\* A ticket is held for as long as the handler has one to give back.
TicketsHeld == \A r \in Requests : r \in active <=> phase[r] \in Held

\* The account is given once, between the handler's return and its release.
GivenOnce == \A r \in Requests : accounts[r] = IF phase[r] \in Accounted THEN 1 ELSE 0

\* A response is either whole or broken off, never both, and neither before
\* the handler returns.
Answered ==
    \A r \in Requests :
        IF phase[r] \in {"return", "release", "signal", "done"}
        THEN whole[r] = ~panicked[r] ELSE ~whole[r] /\ ~panicked[r]

\* What is reported and shown of a request is about how it went.
Reported ==
    \A r \in Requests :
        /\ phase[r] \notin Accounted => outcome[r] = "none"
        /\ outcome[r] \in {"ok", "client_error", "upstream_error"} => ~panicked[r]
        /\ outcome[r] \in {"timeout", "force_closed"} => panicked[r]
        /\ outcome[r] = "timeout" => cause[r] = "timeout"
        /\ phase[r] # "done" => end[r] = "none"
        /\ end[r] = "clean" => ~panicked[r]

\* Nobody comes in while a cut is under way, and whoever is at the gate is
\* still to be cancelled or has been.
CutsReach ==
    /\ ctl # "serving" => ~open
    /\ ctl = "cutting" => \A r \in active : r \in toCut \/ cause[r] # "none"
    /\ ctl = "closed" => \A r \in active : cause[r] # "none"

ProxyInv == ProxyType /\ TicketsHeld /\ GivenOnce /\ Answered /\ Reported /\ CutsReach

(* The proxy starts closed, with no request at it.                          *)
LEMMA ProxyStarts == Px!Init => ProxyInv
<1> SUFFICES ASSUME Px!Init PROVE ProxyInv
  OBVIOUS
<1> USE DEF Px!Init
<1>1. ProxyType
  BY DEF ProxyType, Phases, Held
<1>2. TicketsHeld /\ GivenOnce /\ Answered /\ Reported /\ CutsReach
  BY DEF TicketsHeld, GivenOnce, Answered, Reported, CutsReach, Held, Accounted
<1> QED BY <1>1, <1>2 DEF ProxyInv

(* The steps of the proxy, with the request each is about.                 *)
LEMMA ProxySteps ==
  ASSUME Px!Next
  PROVE  \/ Px!Open \/ Px!BeginDrain \/ Px!Woken \/ Px!ForceCloseAll \/ Px!BeginStop
         \/ \E r \in Requests :
              \/ Px!CancelOne(r) \/ Px!Refuse(r) \/ Px!admit(r) \/ Px!Timeout(r) \/ Px!HangUp(r)
              \/ Px!Respond(r) \/ Px!BodyEnds(r) \/ Px!ErrorHandler(r) \/ Px!BodyBreaks(r) \/ Px!Stall(r)
              \/ Px!Resume(r) \/ Px!Account(r) \/ Px!Release(r)
  BY DEF Px!Next, Px!Controller, Px!Handler, Px!Fail

(* What the account says: cut or timed out exactly if the handler          *)
(* panicked, and timed out only if the timer came first.                   *)
LEMMA OutcomeSays ==
  ASSUME ProxyType, NEW r \in Requests
  PROVE  /\ Px!Outcome(r) \in {"timeout", "force_closed", "upstream_error", "client_error", "ok"}
         /\ Px!Outcome(r) \in {"timeout", "force_closed"} <=> panicked[r]
         /\ Px!Outcome(r) = "timeout" => cause[r] = "timeout"
<1>1. CASE panicked[r]
  BY <1>1 DEF Px!Outcome
<1>2. CASE ~panicked[r]
  BY <1>2 DEF Px!Outcome
<1> QED BY <1>1, <1>2

(* Every step writes values of the types the fields have.                  *)
LEMMA TypeKept ==
  ASSUME ProxyInv, Px!Next
  PROVE  ProxyType'
<1> USE DEF ProxyInv, ProxyType, Held, Phases, Px!gateVars, Px!ctlVars,
           Px!respVars, Px!accVars
<1>1. CASE Px!Open
  BY <1>1 DEF Px!Open
<1>2. CASE Px!BeginDrain
  BY <1>2 DEF Px!BeginDrain
<1>3. CASE Px!Woken
  BY <1>3 DEF Px!Woken
<1>4. CASE Px!ForceCloseAll
  BY <1>4 DEF Px!ForceCloseAll
<1>5. CASE Px!BeginStop
  BY <1>5 DEF Px!BeginStop
<1>6. ASSUME NEW r \in Requests,
             Px!Refuse(r) \/ Px!admit(r) \/ Px!Stall(r) \/ Px!Resume(r)
      PROVE  ProxyType'
  BY <1>6 DEF Px!Refuse, Px!admit, Px!Stall, Px!Resume
<1>7. ASSUME NEW r \in Requests, Px!CancelOne(r) PROVE ProxyType'
  BY <1>7 DEF Px!CancelOne, Px!Cancel
<1>8. ASSUME NEW r \in Requests,
             Px!Timeout(r) \/ Px!HangUp(r)
      PROVE  ProxyType'
  BY <1>8 DEF Px!Timeout, Px!Cancel, Px!Serving, Px!HangUp
<1>9. ASSUME NEW r \in Requests, Px!Respond(r) PROVE ProxyType'
  BY <1>9 DEF Px!Respond
<1>10. ASSUME NEW r \in Requests, Px!BodyEnds(r) PROVE ProxyType'
  BY <1>10 DEF Px!BodyEnds
<1>11. ASSUME NEW r \in Requests, Px!ErrorHandler(r) PROVE ProxyType'
  <2> USE <1>11 DEF Px!ErrorHandler
  <2>1. CASE cause[r] \in {"preempted", "timeout"}
    <3>1. panicked' = [panicked EXCEPT ![r] = TRUE] /\ status' = status /\ whole' = whole
      BY <2>1
    <3> QED BY <3>1
  <2>2. CASE cause[r] \notin {"preempted", "timeout"}
    <3>1. panicked' = panicked /\ status' = [status EXCEPT ![r] = 502]
          /\ whole' = [whole EXCEPT ![r] = TRUE]
      BY <2>2
    <3> QED BY <3>1
  <2> QED BY <2>1, <2>2
<1>12. ASSUME NEW r \in Requests, Px!BodyBreaks(r) PROVE ProxyType'
  BY <1>12 DEF Px!BodyBreaks
<1>13. ASSUME NEW r \in Requests, Px!Account(r) PROVE ProxyType'
  BY <1>13, OutcomeSays DEF Px!Account
<1>14. ASSUME NEW r \in Requests, Px!Release(r) PROVE ProxyType'
  BY <1>14 DEF Px!Release, Px!release, Px!Cancel, Px!End
<1> QED BY <1>1, <1>2, <1>3, <1>4, <1>5, <1>6, <1>7, <1>8, <1>9, <1>10, <1>11,
           <1>12, <1>13, <1>14, ProxySteps

(* The ticket comes with admission and goes with the first half of the     *)
(* release, which is the only step to leave the phases that hold one.      *)
LEMMA TicketsKept ==
  ASSUME ProxyInv, Px!Next
  PROVE  TicketsHeld'
<1> USE DEF ProxyInv, ProxyType, TicketsHeld, Held, Phases, Px!gateVars,
           Px!ctlVars, Px!respVars, Px!accVars
<1>1. CASE Px!Controller
  BY <1>1 DEF Px!Controller, Px!Open, Px!BeginDrain, Px!Woken,
    Px!ForceCloseAll, Px!BeginStop
<1>2. ASSUME NEW r \in Requests, Px!CancelOne(r) PROVE TicketsHeld'
  BY <1>2 DEF Px!CancelOne, Px!Cancel
<1>3. ASSUME NEW r \in Requests,
             Px!Timeout(r) \/ Px!HangUp(r)
      PROVE  TicketsHeld'
  BY <1>3 DEF Px!Timeout, Px!Cancel, Px!Serving, Px!HangUp
<1>4. ASSUME NEW r \in Requests,
             Px!Respond(r) \/ Px!Stall(r) \/ Px!Resume(r) \/
             Px!BodyEnds(r) \/ Px!ErrorHandler(r) \/
             Px!BodyBreaks(r) \/ Px!Account(r)
      PROVE  TicketsHeld'
  BY <1>4 DEF Px!Respond, Px!Stall, Px!Resume, Px!BodyEnds, Px!ErrorHandler,
    Px!BodyBreaks, Px!Account
<1>5. ASSUME NEW r \in Requests, Px!Refuse(r) PROVE TicketsHeld'
  BY <1>5 DEF Px!Refuse
<1>6. ASSUME NEW r \in Requests, Px!admit(r) PROVE TicketsHeld'
  BY <1>6 DEF Px!admit
<1>7. ASSUME NEW r \in Requests, Px!Release(r) PROVE TicketsHeld'
  BY <1>7 DEF Px!Release, Px!release, Px!Cancel, Px!End
<1> QED BY <1>1, <1>2, <1>3, <1>4, <1>5, <1>6, <1>7, ProxySteps DEF Px!Controller

(* Only the deferred account counts, and it is run once between the return *)
(* of the handler and its release.                                         *)
LEMMA AccountsKept ==
  ASSUME ProxyInv, Px!Next
  PROVE  GivenOnce'
<1> USE DEF ProxyInv, ProxyType, GivenOnce, Accounted, Px!gateVars,
           Px!ctlVars, Px!respVars, Px!accVars
<1>1. CASE Px!Controller
  BY <1>1 DEF Px!Controller, Px!Open, Px!BeginDrain, Px!Woken,
    Px!ForceCloseAll, Px!BeginStop
<1>2. ASSUME NEW r \in Requests, Px!CancelOne(r) PROVE GivenOnce'
  BY <1>2 DEF Px!CancelOne, Px!Cancel
<1>3. ASSUME NEW r \in Requests,
             Px!Timeout(r) \/ Px!HangUp(r)
      PROVE  GivenOnce'
  BY <1>3 DEF Px!Timeout, Px!Cancel, Px!Serving, Px!HangUp
<1>4. ASSUME NEW r \in Requests,
             Px!Refuse(r) \/ Px!admit(r) \/ Px!Respond(r) \/
             Px!Stall(r) \/ Px!Resume(r) \/ Px!BodyEnds(r) \/
             Px!ErrorHandler(r) \/ Px!BodyBreaks(r)
      PROVE  GivenOnce'
  BY <1>4 DEF Px!Refuse, Px!admit, Px!Respond, Px!Stall, Px!Resume,
    Px!BodyEnds, Px!ErrorHandler, Px!BodyBreaks
<1>5. ASSUME NEW r \in Requests, Px!Account(r) PROVE GivenOnce'
  BY <1>5 DEF Px!Account
<1>6. ASSUME NEW r \in Requests, Px!Release(r) PROVE GivenOnce'
  BY <1>6 DEF Px!Release, Px!release, Px!Cancel, Px!End
<1> QED BY <1>1, <1>2, <1>3, <1>4, <1>5, <1>6, ProxySteps DEF Px!Controller

(* A handler returns with its response written to the end or with a panic, *)
(* and nothing is written after that.                                      *)
LEMMA AnswersKept ==
  ASSUME ProxyInv, Px!Next
  PROVE  Answered'
<1> USE DEF ProxyInv, ProxyType, Answered, Px!gateVars, Px!ctlVars,
           Px!respVars, Px!accVars
<1>1. CASE Px!Controller
  BY <1>1 DEF Px!Controller, Px!Open, Px!BeginDrain, Px!Woken,
    Px!ForceCloseAll, Px!BeginStop
<1>2. ASSUME NEW r \in Requests, Px!CancelOne(r) PROVE Answered'
  BY <1>2 DEF Px!CancelOne, Px!Cancel
<1>3. ASSUME NEW r \in Requests,
             Px!Timeout(r) \/ Px!HangUp(r)
      PROVE  Answered'
  BY <1>3 DEF Px!Timeout, Px!Cancel, Px!Serving, Px!HangUp
<1>4. ASSUME NEW r \in Requests,
             Px!Refuse(r) \/ Px!admit(r) \/ Px!Stall(r) \/ Px!Resume(r)
      PROVE  Answered'
  BY <1>4 DEF Px!Refuse, Px!admit, Px!Stall, Px!Resume
<1>5. ASSUME NEW r \in Requests, Px!Respond(r) PROVE Answered'
  BY <1>5 DEF Px!Respond
<1>6. ASSUME NEW r \in Requests, Px!BodyEnds(r) PROVE Answered'
  BY <1>6 DEF Px!BodyEnds
<1>7. ASSUME NEW r \in Requests, Px!ErrorHandler(r) PROVE Answered'
  <2> USE <1>7 DEF Px!ErrorHandler
  <2>1. CASE cause[r] \in {"preempted", "timeout"}
    <3>1. panicked' = [panicked EXCEPT ![r] = TRUE] /\ status' = status /\ whole' = whole
      BY <2>1
    <3> QED BY <3>1
  <2>2. CASE cause[r] \notin {"preempted", "timeout"}
    <3>1. panicked' = panicked /\ status' = [status EXCEPT ![r] = 502]
          /\ whole' = [whole EXCEPT ![r] = TRUE]
      BY <2>2
    <3> QED BY <3>1
  <2> QED BY <2>1, <2>2
<1>8. ASSUME NEW r \in Requests, Px!BodyBreaks(r) PROVE Answered'
  BY <1>8 DEF Px!BodyBreaks
<1>9. ASSUME NEW r \in Requests, Px!Account(r) PROVE Answered'
  BY <1>9 DEF Px!Account
<1>10. ASSUME NEW r \in Requests, Px!Release(r) PROVE Answered'
  BY <1>10 DEF Px!Release, Px!release, Px!Cancel, Px!End
<1> QED BY <1>1, <1>2, <1>3, <1>4, <1>5, <1>6, <1>7, <1>8, <1>9, <1>10,
           ProxySteps DEF Px!Controller

(* The account reads what the handler left, and the cause it reads is the  *)
(* first, which no later cancellation replaces.                            *)
LEMMA ReportsKept ==
  ASSUME ProxyInv, Px!Next
  PROVE  Reported'
<1> USE DEF ProxyInv, ProxyType, Reported, Answered, Accounted, Held,
           Px!gateVars, Px!ctlVars, Px!respVars, Px!accVars
<1>1. CASE Px!Controller
  BY <1>1 DEF Px!Controller, Px!Open, Px!BeginDrain, Px!Woken,
    Px!ForceCloseAll, Px!BeginStop
<1>2. ASSUME NEW r \in Requests,
             Px!Refuse(r) \/ Px!admit(r) \/ Px!Stall(r) \/
             Px!Resume(r) \/ Px!Respond(r) \/ Px!BodyEnds(r) \/
             Px!ErrorHandler(r) \/ Px!BodyBreaks(r)
      PROVE  Reported'
  BY <1>2 DEF Px!Refuse, Px!admit, Px!Stall, Px!Resume, Px!Respond,
    Px!BodyEnds, Px!ErrorHandler, Px!BodyBreaks
<1>3. ASSUME NEW r \in Requests, Px!CancelOne(r) PROVE Reported'
  BY <1>3 DEF Px!CancelOne, Px!Cancel
<1>4. ASSUME NEW r \in Requests, Px!Timeout(r) PROVE Reported'
  BY <1>4 DEF Px!Timeout, Px!Cancel, Px!Serving
<1>5. ASSUME NEW r \in Requests, Px!HangUp(r) PROVE Reported'
  BY <1>5 DEF Px!HangUp, Px!Cancel, Px!Serving
<1>6. ASSUME NEW r \in Requests, Px!Account(r) PROVE Reported'
  BY <1>6, OutcomeSays DEF Px!Account
<1>7. ASSUME NEW r \in Requests, Px!Release(r) PROVE Reported'
  BY <1>7 DEF Px!Release, Px!release, Px!Cancel, Px!End
<1> QED BY <1>1, <1>2, <1>3, <1>4, <1>5, <1>6, <1>7, ProxySteps DEF Px!Controller

(* The tickets are listed with the gate shut, so that no request can come  *)
(* in between and be missed; a ticket that goes meanwhile needs no cut.    *)
LEMMA CutsKept ==
  ASSUME ProxyInv, Px!Next
  PROVE  CutsReach'
<1> USE DEF ProxyInv, ProxyType, CutsReach, Px!gateVars, Px!ctlVars,
           Px!respVars, Px!accVars
<1>1. CASE Px!Open
  BY <1>1 DEF Px!Open
<1>2. CASE Px!BeginDrain
  BY <1>2 DEF Px!BeginDrain
<1>3. CASE Px!Woken
  BY <1>3 DEF Px!Woken
<1>4. CASE Px!ForceCloseAll
  BY <1>4 DEF Px!ForceCloseAll
<1>5. CASE Px!BeginStop
  BY <1>5 DEF Px!BeginStop
<1>6. ASSUME NEW r \in Requests,
             Px!Refuse(r) \/ Px!Respond(r) \/ Px!BodyEnds(r) \/
             Px!ErrorHandler(r) \/ Px!BodyBreaks(r) \/ Px!Stall(r) \/
             Px!Resume(r) \/ Px!Account(r)
      PROVE  CutsReach'
  BY <1>6 DEF Px!Refuse, Px!Respond, Px!BodyEnds, Px!ErrorHandler,
    Px!BodyBreaks, Px!Stall, Px!Resume, Px!Account
<1>7. ASSUME NEW r \in Requests,
             Px!Timeout(r) \/ Px!HangUp(r)
      PROVE  CutsReach'
  BY <1>7 DEF Px!Timeout, Px!Cancel, Px!Serving, Px!HangUp
<1>8. ASSUME NEW r \in Requests, Px!CancelOne(r) PROVE CutsReach'
  BY <1>8 DEF Px!CancelOne, Px!Cancel
<1>9. ASSUME NEW r \in Requests, Px!admit(r) PROVE CutsReach'
  BY <1>9 DEF Px!admit
<1>10. ASSUME NEW r \in Requests, Px!Release(r) PROVE CutsReach'
  BY <1>10 DEF Px!Release, Px!release, Px!Cancel, Px!End
<1> QED BY <1>1, <1>2, <1>3, <1>4, <1>5, <1>6, <1>7, <1>8, <1>9, <1>10,
           ProxySteps

(* A step of another part leaves the proxy as it is.                        *)
LEMMA ProxyRests ==
  ASSUME ProxyInv, UNCHANGED proxyVars
  PROVE  ProxyInv'
<1> USE DEF proxyVars
<1>1. ProxyType'
  BY DEF ProxyInv, ProxyType
<1>2. TicketsHeld' /\ GivenOnce' /\ Answered'
  BY DEF ProxyInv, TicketsHeld, GivenOnce, Answered
<1>3. Reported' /\ CutsReach'
  BY DEF ProxyInv, Reported, CutsReach
<1> QED BY <1>1, <1>2, <1>3 DEF ProxyInv

(* What the books say of a request is right in every state the invariant    *)
(* describes: whoever has an outcome has returned, and has been accounted   *)
(* for before the ticket went.                                              *)
LEMMA BooksAreRight ==
  ASSUME ProxyInv
  PROVE  /\ Px!AccountedBeforeReleased /\ Px!CutIsVisible
         /\ Px!NobodyLeftBehind /\ Px!OutcomeIsEarned
<1> USE DEF ProxyInv, ProxyType, Held, Phases, Accounted
<1>1. Px!AccountedBeforeReleased
  BY DEF Px!AccountedBeforeReleased, TicketsHeld, GivenOnce
<1>2. Px!CutIsVisible
  BY DEF Px!CutIsVisible, Reported, Answered
<1>3. Px!NobodyLeftBehind
  BY DEF Px!NobodyLeftBehind, CutsReach
<1>4. Px!OutcomeIsEarned
  BY DEF Px!OutcomeIsEarned, Reported, Answered
<1> QED BY <1>1, <1>2, <1>3, <1>4

-----------------------------------------------------------------------------
(* The usage tap.                                                          *)

\* The tail is the last n bytes read, never fewer than the window asks for.
TailIs(n) ==
    /\ n <= read /\ n <= 2 * TailBytes /\ Us!Least(read, TailBytes) <= n
    /\ tail = Us!Bytes(read - n, read)

TapInv ==
    /\ read \in Nat
    /\ head = Us!Bytes(0, Us!Least(read, HeadBytes))
    /\ \E n \in Nat : TailIs(n)

(* A run of consecutive bytes as a sequence.                                *)
LEMMA BytesAre ==
  ASSUME NEW a \in Nat, NEW b \in Nat, a <= b
  PROVE  /\ Us!Bytes(a, b) \in Seq(Nat)
         /\ Len(Us!Bytes(a, b)) = b - a
         /\ \A i \in 1..(b - a) : Us!Bytes(a, b)[i] = a + i
<1>1. b - a \in Nat
  OBVIOUS
<1>2. Us!Bytes(a, b) \in [1..(b - a) -> Nat]
  BY DEF Us!Bytes
<1> QED BY <1>1, <1>2, IsASeq, LenProperties DEF Us!Bytes

(* Two adjoining runs make one.                                             *)
LEMMA BytesJoin ==
  ASSUME NEW a \in Nat, NEW b \in Nat, NEW c \in Nat, a <= b, b <= c
  PROVE  Us!Bytes(a, b) \o Us!Bytes(b, c) = Us!Bytes(a, c)
<1> DEFINE s == Us!Bytes(a, b)
           t == Us!Bytes(b, c)
           u == Us!Bytes(a, c)
<1>1. s \in Seq(Nat) /\ Len(s) = b - a /\ \A i \in 1..(b - a) : s[i] = a + i
  BY BytesAre
<1>2. t \in Seq(Nat) /\ Len(t) = c - b /\ \A i \in 1..(c - b) : t[i] = b + i
  BY BytesAre
<1>3. u \in Seq(Nat) /\ Len(u) = c - a /\ \A i \in 1..(c - a) : u[i] = a + i
  BY BytesAre
<1> HIDE DEF s, t, u
<1>4. Len(s) + Len(t) = c - a
  BY <1>1, <1>2
<1>5. s \o t \in Seq(Nat) /\ Len(s \o t) = Len(s) + Len(t)
  BY <1>1, <1>2, ConcatProperties
<1>6. s \o t \in Seq(Nat) /\ Len(s \o t) = c - a
  BY <1>4, <1>5
<1>7. ASSUME NEW i \in 1..(c - a) PROVE (s \o t)[i] = u[i]
  <2>1. (s \o t)[i] = IF i <= Len(s) THEN s[i] ELSE t[i - Len(s)]
    BY <1>1, <1>2, <1>4, ConcatProperties
  <2>2. CASE i <= b - a
    <3>1. i \in 1..(b - a)
      BY <2>2
    <3> QED BY <1>1, <1>3, <2>1, <3>1
  <2>3. CASE ~(i <= b - a)
    <3>1. i - (b - a) \in 1..(c - b)
      BY <2>3
    <3>2. ~(i <= Len(s)) /\ i - Len(s) = i - (b - a) /\ b + (i - (b - a)) = a + i
      BY <1>1, <2>3
    <3>3. t[i - (b - a)] = b + (i - (b - a))
      BY <1>2, <3>1
    <3> QED BY <1>3, <2>1, <3>2, <3>3
  <2> QED BY <2>2, <2>3
<1>8. s \o t = u
  BY <1>3, <1>6, <1>7, SeqEqual
<1> QED BY <1>8 DEF s, t, u

\* The bytes from the first-th to the last-th of a run.
Stretch(a, b, first, last) == SubSeq(Us!Bytes(a, b), first, last)

(* A stretch of a run is a run.                                             *)
LEMMA BytesPart ==
  ASSUME NEW a \in Nat, NEW b \in Nat, NEW first \in Nat, NEW last \in Nat,
         a <= b, 1 <= first, first <= last + 1, last <= b - a
  PROVE  Stretch(a, b, first, last) = Us!Bytes(a + first - 1, a + last)
<1> DEFINE s == Us!Bytes(a, b)
           c == a + first - 1
           u == Us!Bytes(c, a + last)
<1>1. c \in Nat /\ a + last \in Nat /\ c <= a + last /\ (a + last) - c = last - first + 1
  OBVIOUS
<1>2. s \in Seq(Nat) /\ Len(s) = b - a /\ \A i \in 1..(b - a) : s[i] = a + i
  BY BytesAre
<1>3. /\ u \in Seq(Nat) /\ Len(u) = (a + last) - c
      /\ \A i \in 1..((a + last) - c) : u[i] = c + i
  <2> HIDE DEF c
  <2> QED BY <1>1, BytesAre
<1>4. \A i \in first..last : i \in 1..(b - a)
  OBVIOUS
<1> HIDE DEF s, u
<1>5. \A i \in first..last : s[i] \in Nat
  BY <1>2, <1>4
<1>6. /\ SubSeq(s, first, last) \in Seq(Nat)
      /\ Len(SubSeq(s, first, last)) = IF first <= last THEN last - first + 1 ELSE 0
      /\ \A i \in 1..(last - first + 1) : SubSeq(s, first, last)[i] = s[first + i - 1]
  BY <1>5, SubSeqProperties
<1>7. Len(SubSeq(s, first, last)) = Len(u)
  BY <1>1, <1>3, <1>6
<1>8. ASSUME NEW i \in 1..(last - first + 1) PROVE SubSeq(s, first, last)[i] = u[i]
  <2>1. SubSeq(s, first, last)[i] = s[first + i - 1]
    BY <1>6
  <2>2. first + i - 1 \in 1..(b - a) /\ a + (first + i - 1) = c + i
    OBVIOUS
  <2>3. u[i] = c + i
    BY <1>1, <1>3
  <2> QED BY <1>2, <2>1, <2>2, <2>3
<1>9. SubSeq(s, first, last) = u
  BY <1>1, <1>3, <1>6, <1>7, <1>8, SeqEqual
<1> QED BY <1>9 DEF s, u, Stretch

(* The lesser of two numbers.                                               *)
LEMMA LeastIs ==
  ASSUME NEW a \in Nat, NEW b \in Nat
  PROVE  /\ Us!Least(a, b) \in Nat /\ Us!Least(a, b) <= a /\ Us!Least(a, b) <= b
         /\ a <= b => Us!Least(a, b) = a
         /\ b <= a => Us!Least(a, b) = b
  BY DEF Us!Least

(* The last n of a run.                                                     *)
LEMMA BytesLast ==
  ASSUME NEW a \in Nat, NEW b \in Nat, NEW n \in Nat, a <= b, n <= b - a
  PROVE  Us!LastOf(Us!Bytes(a, b), n) = Us!Bytes(b - n, b)
<1>1. Len(Us!Bytes(a, b)) = b - a
  BY BytesAre
<1>2. PICK m \in Nat, e \in Nat : m = (b - a) - n + 1 /\ e = b - a
  OBVIOUS
<1>3. Us!LastOf(Us!Bytes(a, b), n) = Stretch(a, b, m, e)
  BY <1>1, <1>2 DEF Us!LastOf, Stretch
<1>4. 1 <= m /\ m <= e + 1 /\ e <= b - a /\ a + m - 1 = b - n /\ a + e = b
  BY <1>2
<1>5. Stretch(a, b, m, e) = Us!Bytes(a + m - 1, a + e)
  BY <1>4, BytesPart
<1> QED BY <1>3, <1>4, <1>5

(* The sizes are numbers, whatever they are.                                *)
LEMMA Sizes == HeadBytes \in Nat /\ TailBytes \in Nat
  BY ConstantsAssumption DEF Us!UsageAssumption

(* A chunk adds to the head what the head has room for.                     *)
LEMMA HeadGrows ==
  ASSUME TapInv, NEW n \in Nat
  PROVE  Us!HeadWith(Us!Bytes(read, read + n)) = Us!Bytes(0, Us!Least(read + n, HeadBytes))
<1> DEFINE p == Us!Bytes(read, read + n)
           l == Us!Least(read, HeadBytes)
           room == HeadBytes - l
           k == IF room < n THEN room ELSE n
<1>1. read \in Nat /\ read + n \in Nat /\ HeadBytes \in Nat
  BY Sizes DEF TapInv
<1>2. l \in Nat /\ l <= HeadBytes /\ (l = read \/ (l = HeadBytes /\ HeadBytes <= read))
  <2>1. l \in Nat /\ l <= HeadBytes
    BY <1>1, LeastIs
  <2>2. CASE read <= HeadBytes
    <3>1. l = read
      BY <1>1, <2>2, LeastIs
    <3> QED BY <2>1, <3>1
  <2>3. CASE HeadBytes <= read
    <3>1. l = HeadBytes
      BY <1>1, <2>3, LeastIs
    <3> QED BY <2>1, <2>3, <3>1
  <2> QED BY <1>1, <2>2, <2>3
<1>3. head = Us!Bytes(0, l)
  BY DEF TapInv
<1>4. Len(head) = l
  BY <1>2, <1>3, BytesAre
<1>5. Len(p) = n
  <2>1. Len(p) = (read + n) - read
    BY <1>1, BytesAre
  <2> QED BY <1>1, <2>1
<1>6. Us!HeadWith(p) = IF room > 0 THEN head \o SubSeq(p, 1, k) ELSE head
  <2> HIDE DEF p, l
  <2> QED BY <1>4, <1>5 DEF Us!HeadWith
<1> HIDE DEF l
<1>7. CASE room > 0
  <2>1. l = read
    BY <1>1, <1>2, <1>7
  <2>2. k \in Nat /\ k <= n /\ read + k = Us!Least(read + n, HeadBytes)
    BY <1>1, <1>7, <2>1 DEF Us!Least
  <2> HIDE DEF k
  <2>5. SubSeq(p, 1, k) = Us!Bytes(read, read + k)
    <3>1. PICK b \in Nat, m \in Nat : b = read + n /\ m = 1
      BY <1>1
    <3>2. read <= b /\ 1 <= m /\ m <= k + 1 /\ k <= b - read /\ read + m - 1 = read
      BY <1>1, <2>2, <3>1
    <3>3. Stretch(read, b, m, k) = Us!Bytes(read + m - 1, read + k)
      BY <1>1, <2>2, <3>2, BytesPart
    <3> QED BY <3>1, <3>2, <3>3 DEF Stretch
  <2>6. Us!Bytes(0, read) \o Us!Bytes(read, read + k) = Us!Bytes(0, read + k)
    <3>1. 0 \in Nat /\ read + k \in Nat /\ 0 <= read /\ read <= read + k
      BY <1>1, <2>2
    <3> QED BY <1>1, <3>1, BytesJoin
  <2> QED BY <1>3, <1>6, <1>7, <2>1, <2>2, <2>5, <2>6
<1>8. CASE ~(room > 0)
  <2>1. l = HeadBytes /\ Us!Least(read + n, HeadBytes) = HeadBytes
    BY <1>1, <1>2, <1>8 DEF Us!Least
  <2> QED BY <1>3, <1>6, <1>8, <2>1
<1> QED BY <1>7, <1>8

(* A chunk goes to the end of the tail, and a compaction keeps what the     *)
(* window asks for.                                                         *)
LEMMA TailGrows ==
  ASSUME TapInv, NEW n \in Nat
  PROVE  \E k \in Nat :
           /\ k <= read + n /\ k <= 2 * TailBytes /\ Us!Least(read + n, TailBytes) <= k
           /\ Us!TailWith(Us!Bytes(read, read + n)) = Us!Bytes(read + n - k, read + n)
<1> DEFINE t == tail \o Us!Bytes(read, read + n)
<1>1. read \in Nat /\ read + n \in Nat /\ TailBytes \in Nat
  BY Sizes DEF TapInv
<1>2. PICK m \in Nat : TailIs(m)
  BY DEF TapInv
<1>3. m <= read /\ m <= 2 * TailBytes /\ Us!Least(read, TailBytes) <= m
  BY <1>2 DEF TailIs
<1>4. read - m \in Nat /\ read - m <= read /\ read <= read + n /\ read - m <= read + n
  BY <1>1, <1>3
<1>5. t = Us!Bytes(read - m, read + n)
  BY <1>1, <1>2, <1>4, BytesJoin DEF TailIs
<1>6. Len(t) = m + n
  <2>1. Len(t) = (read + n) - (read - m)
    BY <1>1, <1>4, <1>5, BytesAre
  <2> QED BY <1>1, <2>1
<1>7. Us!TailWith(Us!Bytes(read, read + n))
        = IF m + n > 2 * TailBytes THEN Us!LastOf(t, TailBytes) ELSE t
  <2> HIDE DEF t
  <2> SUFFICES Us!TailWith(Us!Bytes(read, read + n))
                 = IF Len(t) > 2 * TailBytes THEN Us!LastOf(t, TailBytes) ELSE t
    BY <1>6
  <2> QED BY DEF Us!TailWith, t
<1> HIDE DEF t
<1>8. CASE m + n > 2 * TailBytes
  <2>1. TailBytes <= m + n /\ TailBytes <= 2 * TailBytes /\ m + n <= read + n
    BY <1>1, <1>3, <1>8
  <2>2. Us!Least(read + n, TailBytes) <= TailBytes
    BY <1>1, LeastIs
  <2>3. TailBytes <= (read + n) - (read - m)
    BY <1>1, <2>1
  <2>4. Us!LastOf(t, TailBytes) = Us!Bytes(read + n - TailBytes, read + n)
    BY <1>1, <1>4, <1>5, <2>3, BytesLast
  <2>5. TailBytes <= read + n
    BY <1>1, <2>1
  <2> QED BY <1>1, <1>7, <1>8, <2>1, <2>2, <2>4, <2>5
<1>9. CASE ~(m + n > 2 * TailBytes)
  <2>1. m + n \in Nat /\ m + n <= read + n /\ m + n <= 2 * TailBytes
    BY <1>1, <1>3, <1>9
  <2>2. Us!Least(read + n, TailBytes) <= m + n
    BY <1>1, <1>3 DEF Us!Least
  <2>3. read + n - (m + n) = read - m
    BY <1>1
  <2> QED BY <1>5, <1>7, <1>9, <2>1, <2>2, <2>3
<1> QED BY <1>8, <1>9

(* Reading keeps the tap's invariant, at every size of chunk.               *)
LEMMA TapKept ==
  ASSUME TapInv, Us!Next
  PROVE  TapInv'
<1>1. PICK n \in 0..MaxChunk : Us!Read(n)
  BY DEF Us!Next
<1>2. n \in Nat /\ read \in Nat /\ read' = read + n
  BY <1>1 DEF Us!Read, TapInv
<1>3. read' \in Nat
  BY <1>2
<1>4. CASE n = 0
  <2>1. read' = read /\ head' = head /\ tail' = tail
    BY <1>1, <1>2, <1>4 DEF Us!Read
  <2> QED BY <2>1 DEF TapInv, TailIs
<1>5. CASE n # 0
  <2>1. /\ head' = Us!HeadWith(Us!Bytes(read, read + n))
        /\ tail' = Us!TailWith(Us!Bytes(read, read + n))
    BY <1>1, <1>5 DEF Us!Read
  <2>2. head' = Us!Bytes(0, Us!Least(read', HeadBytes))
    BY <1>2, <2>1, HeadGrows
  <2>3. PICK k \in Nat : /\ k <= read + n /\ k <= 2 * TailBytes
                         /\ Us!Least(read + n, TailBytes) <= k
                         /\ tail' = Us!Bytes(read + n - k, read + n)
    BY <1>2, <2>1, TailGrows
  <2>4. TailIs(k)'
    BY <1>2, <2>3 DEF TailIs
  <2> QED BY <1>3, <2>2, <2>4 DEF TapInv
<1> QED BY <1>4, <1>5

(* What the counts are read from, and how much of it is kept.               *)
LEMMA WindowsAreRight ==
  ASSUME TapInv
  PROVE  Us!WindowsAreExact /\ Us!MemoryIsBounded
<1>1. read \in Nat /\ HeadBytes \in Nat /\ TailBytes \in Nat
  BY Sizes DEF TapInv
<1>2. PICK m \in Nat : TailIs(m)
  BY DEF TapInv
<1>3. /\ m <= read /\ m <= 2 * TailBytes /\ Us!Least(read, TailBytes) <= m
      /\ tail = Us!Bytes(read - m, read)
  BY <1>2 DEF TailIs
<1>4. read - m \in Nat /\ read - m <= read /\ read - (read - m) = m
  BY <1>1, <1>3
<1>5. Len(tail) = m
  BY <1>1, <1>3, <1>4, BytesAre
<1>6. Len(head) <= HeadBytes
  <2> DEFINE l == Us!Least(read, HeadBytes)
  <2>1. l \in Nat /\ l <= HeadBytes
    BY <1>1, LeastIs
  <2>2. head = Us!Bytes(0, l)
    BY DEF TapInv
  <2> HIDE DEF l
  <2>3. Len(head) = l - 0
    BY <2>1, <2>2, BytesAre
  <2> QED BY <2>1, <2>3
<1>7. Us!tailBytes = Us!Bytes(read - Us!Least(read, TailBytes), read)
  <2>1. CASE m > TailBytes
    <3>1. Us!Least(read, TailBytes) = TailBytes
      BY <1>1, <1>3, <2>1 DEF Us!Least
    <3>2. Us!LastOf(tail, TailBytes) = Us!Bytes(read - TailBytes, read)
      BY <1>1, <1>3, <1>4, <2>1, BytesLast
    <3> QED BY <1>5, <2>1, <3>1, <3>2 DEF Us!tailBytes
  <2>2. CASE ~(m > TailBytes)
    <3>1. Us!Least(read, TailBytes) = m
      BY <1>1, <1>3, <2>2 DEF Us!Least
    <3> QED BY <1>3, <1>5, <2>2, <3>1 DEF Us!tailBytes
  <2> QED BY <2>1, <2>2
<1> QED BY <1>3, <1>5, <1>6, <1>7 DEF Us!WindowsAreExact, Us!MemoryIsBounded, TapInv

(* The tap starts with nothing read.                                        *)
LEMMA TapStarts == Us!Init => TapInv
<1> SUFFICES ASSUME Us!Init PROVE TapInv
  OBVIOUS
<1>1. read = 0 /\ head = <<>> /\ tail = <<>>
  BY DEF Us!Init
<1>2. Us!Bytes(0, 0) = <<>>
  <2>1. Us!Bytes(0, 0) \in Seq(Nat) /\ Len(Us!Bytes(0, 0)) = 0 - 0
    BY BytesAre
  <2> QED BY <2>1, EmptySeq
<1>3. Us!Least(0, HeadBytes) = 0 /\ Us!Least(0, TailBytes) = 0
  BY Sizes DEF Us!Least
<1>4. TailIs(0)
  BY <1>1, <1>2, <1>3, Sizes DEF TailIs
<1> QED BY <1>1, <1>2, <1>3, <1>4 DEF TapInv

-----------------------------------------------------------------------------
(* The video memory, where other programs only take memory: what the       *)
(* promises are about.                                                     *)

VramType ==
    /\ st \in {"stopped", "loading", "ready", "preempting"}
    /\ model \in Models /\ other \in Others
    /\ {loadedSize, own, lag, footprint, baseline, loadedFor, owed} \subseteq Nat
    /\ vram \in [active : BOOLEAN, usedBefore : Nat, footprint : Nat, age : Nat]
    /\ gpu \in [conf : {"high", "degraded", "none"}, ext : Nat]
    /\ reload \in BOOLEAN /\ learned \in BOOLEAN

\* The memory in use is of the model that was loaded; what is left over from
\* before the load is owed, and stands in the baseline.
UseIsLoaded ==
    /\ own <= loadedSize /\ lag <= loadedSize + owed /\ baseline <= other + owed
    /\ st = "stopped" => own = 0
    /\ st = "ready" => own = loadedSize
    /\ st # "stopped" => lag <= owed /\ lag <= baseline

\* A runtime that is not to be reloaded runs the configured model, and what was
\* learned is at least as much as that takes, but for what was owed meanwhile.
LearnedIsModel ==
    /\ reload => st \in {"loading", "ready"} /\ footprint = 0
    /\ st \in {"loading", "ready"} /\ ~reload => model = loadedSize
    /\ footprint = 0 \/ footprint + owed >= model
    /\ footprint <= model + other

\* The figures of a check are those of the runtime that was stopped.
CheckIsOfTheStopped ==
    /\ vram.active => st = "stopped"
    /\ st = "preempting" \/ vram.active =>
         /\ vram.footprint = 0 \/ vram.footprint + owed >= loadedSize
         /\ vram.usedBefore <= loadedSize + other + owed

\* What was measured in full stands behind the memory until its check ends.
MeasuredCovers ==
    learned =>
      /\ st # "loading"
      /\ st = "ready" => footprint >= loadedSize
      /\ st = "preempting" \/ vram.active => vram.footprint >= loadedSize
      /\ st = "stopped" /\ ~vram.active => lag <= Vr!Remainder + owed
      /\ st = "stopped" /\ gpu.conf # "none" => gpu.ext <= other + Vr!Remainder + owed

VramInv ==
    /\ VramType /\ UseIsLoaded /\ LearnedIsModel /\ CheckIsOfTheStopped /\ MeasuredCovers
    /\ Vr!ReleaseIsReal

IsCheck(v) ==
    /\ v = [active |-> v.active, usedBefore |-> v.usedBefore, footprint |-> v.footprint, age |-> v.age]
    /\ v.active \in BOOLEAN /\ v.age \in Nat

\* Where others free memory too: a check hides them for as long as it runs.
SharedInv ==
    /\ st \in {"stopped", "loading", "ready", "preempting"} /\ hidden \in Nat
    /\ {own, lag, other, model, loadedSize} \subseteq Nat
    /\ IsCheck(vram)
    /\ vram.active /\ st = "stopped" => hidden <= vram.age + 1 /\ vram.age <= 1
    /\ st # "stopped" => hidden = 0
    /\ hidden <= 3

(* The sizes of memory are numbers, whatever they are.                      *)
LEMMA MemorySizes ==
  /\ Models \subseteq Nat /\ Others \subseteq Nat
  /\ Tolerance \in Nat /\ ReleaseTimeout \in Nat /\ LearnFor \in Nat
  BY ConstantsAssumption DEF Vr!VramAssumption

(* Nine tenths less than before leaves a tenth, and one for the rounding;   *)
(* a footprint that is short of the model by some leaves that much more.    *)
LEMMA ATenthRemains ==
  ASSUME NEW l \in Nat, NEW f \in Nat, NEW d \in Nat, l <= f + d
  PROVE  l - ((f * 9) \div 10) <= (l \div 10) + 1 + d
  OBVIOUS

(* More on the larger side keeps the order.                                 *)
LEMMA SumsGrow ==
  ASSUME NEW a \in Nat, NEW b \in Nat, NEW c \in Nat, a <= b
  PROVE  a <= c + b /\ a + c <= c + b /\ a <= a + c
  OBVIOUS

(* The remainder that is tolerated.                                         *)
LEMMA RemainderIs ==
  ASSUME loadedSize \in Nat
  PROVE  /\ Vr!Remainder \in Nat /\ Tolerance <= Vr!Remainder
         /\ (loadedSize \div 10) + 1 <= Vr!Remainder
<1>1. loadedSize \div 10 \in Nat
  OBVIOUS
<1> QED BY <1>1, MemorySizes DEF Vr!Remainder

(* What a result that came in changes before the step looks at the facts.   *)
LEMMA Absorb ==
  ASSUME VramType, NEW async \in {"none", "ready", "stopped"}
  PROVE  /\ Vr!Absorbed(async).st = IF async = "none" THEN st ELSE async
         /\ Vr!Absorbed(async).vram \in [active : BOOLEAN, usedBefore : Nat, footprint : Nat, age : Nat]
         /\ Vr!Absorbed(async).vram.active <=> async = "stopped" \/ vram.active
         /\ Vr!Absorbed(async).vram.usedBefore = vram.usedBefore
         /\ Vr!Absorbed(async).vram.footprint = vram.footprint
         /\ Vr!Absorbed(async).loadedFor \in Nat
<1> USE DEF VramType
<1>1. Vr!Older \in [active : BOOLEAN, usedBefore : Nat, footprint : Nat, age : Nat]
  BY MemorySizes DEF Vr!Older
<1>2. /\ Vr!Older.active = vram.active /\ Vr!Older.usedBefore = vram.usedBefore
      /\ Vr!Older.footprint = vram.footprint
  BY DEF Vr!Older
<1>3. CASE async = "none"
  BY <1>1, <1>2, <1>3, MemorySizes DEF Vr!Absorbed
<1>4. CASE async = "ready"
  BY <1>1, <1>2, <1>4 DEF Vr!Absorbed
<1>5. CASE async = "stopped"
  BY <1>5 DEF Vr!Absorbed
<1> QED BY <1>3, <1>4, <1>5

(* What the facts of a sample say of the memory in use.                     *)
LEMMA FactsSay ==
  ASSUME VramType, NEW a, NEW conf \in {"high", "degraded", "none"},
         a.st \in {"stopped", "loading", "ready", "preempting"},
         a.vram \in [active : BOOLEAN, usedBefore : Nat, footprint : Nat, age : Nat]
  PROVE  LET g == Vr!Facts(a, conf) IN
         /\ g.conf = conf /\ g.used \in Nat /\ g.own \in Nat /\ g.ext \in Nat
         /\ conf = "none" => g.used = 0
         /\ conf # "none" => g.used = own + lag + other
         /\ conf = "high" /\ a.st # "stopped" => g.own = own
         /\ conf # "none" /\ a.st = "stopped" =>
              g.ext = IF own + lag + other > Vr!Ours(a) THEN own + lag + other - Vr!Ours(a) ELSE 0
<1> DEFINE g == Vr!Facts(a, conf)
           guess == IF footprint > 0 THEN footprint ELSE model
           held == own + lag
           mine == CASE a.st = "stopped" -> 0
                     [] a.st # "stopped" /\ conf = "high" -> own
                     [] OTHER -> IF guess < held THEN guess ELSE held
           ext == held + other - mine
<1>1. /\ own \in Nat /\ lag \in Nat /\ other \in Nat /\ model \in Nat /\ footprint \in Nat
  BY MemorySizes DEF VramType
<1>2. guess \in Nat /\ held \in Nat /\ held = own + lag
  BY <1>1
<1>3. mine \in Nat /\ mine <= held
  <2>1. CASE a.st = "stopped"
    BY <1>2, <2>1
  <2>2. CASE a.st # "stopped" /\ conf = "high"
    BY <1>1, <2>2
  <2>3. CASE a.st # "stopped" /\ conf # "high"
    <3>1. mine = IF guess < held THEN guess ELSE held
      BY <2>3
    <3> HIDE DEF guess, held, mine
    <3> QED BY <1>2, <3>1
  <2> QED BY <2>1, <2>2, <2>3
<1>4. /\ a.st = "stopped" => mine = 0
      /\ a.st # "stopped" /\ conf = "high" => mine = own
  OBVIOUS
<1>5. Vr!Ours(a) \in Nat
  BY DEF Vr!Ours
<1>6. CASE conf = "none"
  BY <1>6 DEF Vr!Facts, Vr!NoFacts
<1>7. CASE conf # "none"
  <2>1. g = [conf |-> conf, used |-> held + other, own |-> mine,
             ext |-> IF ext > Vr!Ours(a) THEN ext - Vr!Ours(a) ELSE 0]
    BY <1>7 DEF Vr!Facts
  <2>2. ext \in Nat /\ (mine = 0 => ext = own + lag + other)
    <3> HIDE DEF mine
    <3> QED BY <1>1, <1>2, <1>3
  <2>3. held + other = own + lag + other /\ held + other \in Nat
    BY <1>1
  <2> HIDE DEF g, mine, ext, held
  <2>4. g.conf = conf /\ g.used = held + other /\ g.own = mine
        /\ g.ext = IF ext > Vr!Ours(a) THEN ext - Vr!Ours(a) ELSE 0
    BY <2>1
  <2>5. g.ext \in Nat
    BY <1>5, <2>2, <2>4
  <2>6. g.own \in Nat /\ (conf = "high" /\ a.st # "stopped" => g.own = own)
    BY <1>3, <1>4, <2>4
  <2>7. a.st = "stopped" =>
          g.ext = IF own + lag + other > Vr!Ours(a) THEN own + lag + other - Vr!Ours(a) ELSE 0
    <3> SUFFICES ASSUME a.st = "stopped"
                 PROVE  g.ext = IF own + lag + other > Vr!Ours(a)
                                THEN own + lag + other - Vr!Ours(a) ELSE 0
      OBVIOUS
    <3>1. ext = own + lag + other
      BY <1>4, <2>2
    <3>2. g.ext = IF ext > Vr!Ours(a) THEN ext - Vr!Ours(a) ELSE 0
      BY <2>4
    <3> QED BY <1>1, <1>5, <2>2, <3>1, <3>2
  <2> QED BY <1>7, <2>3, <2>4, <2>5, <2>6, <2>7 DEF g
<1> QED BY <1>6, <1>7

\* What the promises are about: others only take.
OthersOnlyTake == ~OthersShrink

(* The memory starts with nothing in use of ours.                           *)
LEMMA VramStarts ==
  ASSUME Vr!Init
  PROVE  VramInv
<1> USE DEF Vr!Init, Vr!NoCheck
<1>1. VramType
  <2>1. vram \in [active : BOOLEAN, usedBefore : Nat, footprint : Nat, age : Nat]
    OBVIOUS
  <2>2. gpu \in [conf : {"high", "degraded", "none"}, ext : Nat]
    OBVIOUS
  <2>3. {loadedSize, own, lag, footprint, baseline, loadedFor, owed} \subseteq Nat
    OBVIOUS
  <2>4. reload \in BOOLEAN /\ learned \in BOOLEAN
    OBVIOUS
  <2> QED BY <2>1, <2>2, <2>3, <2>4 DEF VramType
<1>2. model \in Nat /\ other \in Nat
  BY MemorySizes DEF VramType
<1>3. UseIsLoaded /\ LearnedIsModel /\ CheckIsOfTheStopped
  BY <1>2 DEF UseIsLoaded, LearnedIsModel, CheckIsOfTheStopped
<1> QED BY <1>1, <1>3 DEF VramInv, MeasuredCovers, Vr!ReleaseIsReal

(* What moves between two steps of the controller: the driver, the other    *)
(* programs, the runtime's allocation and the configuration.                *)
LEMMA VramMovesKeep ==
  ASSUME VramInv, OthersOnlyTake,
         Vr!Allocate \/ Vr!Free \/ Vr!OtherMoves \/ Vr!updateConfig
  PROVE  VramInv'
<1> USE DEF VramInv, Vr!ghosts
<1>0. /\ own \in Nat /\ lag \in Nat /\ other \in Nat /\ model \in Nat /\ footprint \in Nat
      /\ loadedSize \in Nat /\ baseline \in Nat /\ gpu.ext \in Nat
      /\ vram.footprint \in Nat /\ vram.usedBefore \in Nat /\ vram.active \in BOOLEAN
      /\ owed \in Nat
  BY MemorySizes DEF VramType
<1>1. Vr!Remainder \in Nat /\ (loadedSize' = loadedSize => Vr!Remainder' = Vr!Remainder)
  BY <1>0, RemainderIs DEF Vr!Remainder
<1>2. CASE Vr!Allocate
  <2> USE <1>2 DEF Vr!Allocate
  <2>1. VramType'
    BY <1>0 DEF VramType
  <2>2. UseIsLoaded'
    BY <1>0 DEF UseIsLoaded
  <2>3. LearnedIsModel' /\ CheckIsOfTheStopped'
    BY DEF LearnedIsModel, CheckIsOfTheStopped
  <2>4. MeasuredCovers' /\ Vr!ReleaseIsReal'
    BY <1>1 DEF MeasuredCovers, Vr!ReleaseIsReal
  <2> QED BY <2>1, <2>2, <2>3, <2>4
<1>3. CASE Vr!Free
  <2> USE <1>3 DEF Vr!Free
  <2>0. lag \div 2 \in Nat /\ lag \div 2 <= lag
    BY <1>0
  <2>1. lag' \in Nat /\ lag' <= lag
    BY <1>0, <2>0
  <2>2. VramType'
    BY <2>1 DEF VramType
  <2>3. UseIsLoaded'
    BY <1>0, <2>1 DEF UseIsLoaded
  <2>4. LearnedIsModel' /\ CheckIsOfTheStopped'
    BY DEF LearnedIsModel, CheckIsOfTheStopped
  <2>5. MeasuredCovers'
    BY <1>0, <1>1, <2>1 DEF MeasuredCovers
  <2>6. Vr!ReleaseIsReal'
    BY <1>0, <1>1, <2>1 DEF Vr!ReleaseIsReal
  <2> QED BY <2>2, <2>3, <2>4, <2>5, <2>6
<1>4. CASE Vr!OtherMoves
  <2> USE <1>4 DEF Vr!OtherMoves
  <2>1. other' \in Others /\ other' \in Nat /\ other <= other'
    BY <1>0, MemorySizes DEF OthersOnlyTake
  <2>2. VramType'
    BY <2>1 DEF VramType
  <2>3. UseIsLoaded' /\ LearnedIsModel'
    BY <1>0, <2>1 DEF UseIsLoaded, LearnedIsModel
  <2>4. CheckIsOfTheStopped'
    BY <1>0, <2>1 DEF CheckIsOfTheStopped
  <2>5. MeasuredCovers' /\ Vr!ReleaseIsReal'
    BY <1>0, <1>1, <2>1 DEF MeasuredCovers, Vr!ReleaseIsReal
  <2> QED BY <2>2, <2>3, <2>4, <2>5
<1>5. CASE Vr!updateConfig
  <2> USE <1>5 DEF Vr!updateConfig
  <2>0. /\ model' \in Models /\ footprint' = 0 /\ learned' = FALSE
        /\ reload' <=> st \in {"loading", "ready"}
        /\ reload' \in BOOLEAN
    <3>1. reload' = (st \in {"loading", "ready"})
      OBVIOUS
    <3> DEFINE running == st \in {"loading", "ready"}
    <3>2. running \in BOOLEAN
      OBVIOUS
    <3>3. reload' \in BOOLEAN /\ (reload' <=> running)
      <4> HIDE DEF running
      <4> QED BY <3>1, <3>2, Zenon DEF running
    <3> QED BY <3>3
  <2>1. VramType'
    <3>1. /\ UNCHANGED <<st, loadedSize, own, lag, other, gpu, baseline, vram, loadedFor, owed>>
          /\ footprint' \in Nat
      BY <2>0
    <3> QED BY <2>0, <3>1 DEF VramType
  <2>2. UseIsLoaded'
    BY DEF UseIsLoaded
  <2>3. LearnedIsModel'
    <3>1. model' \in Nat /\ other' \in Nat
      BY <1>0, <2>0, MemorySizes
    <3>2. footprint' <= model' + other'
      BY <2>0, <3>1
    <3> QED BY <2>0, <3>2 DEF LearnedIsModel
  <2>4. CheckIsOfTheStopped' /\ MeasuredCovers'
    BY DEF CheckIsOfTheStopped, MeasuredCovers
  <2>5. Vr!ReleaseIsReal'
    BY <1>1 DEF Vr!ReleaseIsReal
  <2> QED BY <2>1, <2>2, <2>3, <2>4, <2>5
<1> QED BY <1>2, <1>3, <1>4, <1>5

\* One step of the controller, taken apart: the result that came in, the
\* confidence and what is in use of a sample, and the choice of the policy.
StepIs(async, conf, choice, used) ==
    /\ async \in {"none", "ready", "stopped"} /\ choice \in {"none", "load", "stop"}
    /\ conf \in {"high", "degraded", "none"}
    /\ async = "ready" => st = "loading" /\ own = loadedSize
    /\ async = "stopped" => st = "preempting"
    /\ LET was == IF async = "none" THEN st ELSE async
           active_ == async = "stopped" \/ vram.active
           ours == IF active_ /\ was = "stopped" THEN vram.footprint ELSE 0
       IN /\ choice = "load" => was = "stopped" /\ conf # "none"
          /\ choice = "stop" => was \in {"loading", "ready"}
          /\ choice = "none" => ~(reload /\ was \in {"loading", "ready"})
          /\ st' = IF choice = "load" THEN "loading" ELSE IF choice = "stop" THEN "preempting" ELSE was
          /\ conf # "none" /\ was = "stopped" =>
                gpu'.ext = IF own + lag + other > ours THEN own + lag + other - ours ELSE 0
          /\ (active_ /\ choice # "stop" /\ vram' = Vr!NoCheck)
             \/ /\ choice = "stop"
                /\ vram' = [active |-> FALSE, usedBefore |-> used, footprint |-> footprint, age |-> 0]
             \/ /\ choice # "stop" /\ vram'.active = active_ /\ vram'.usedBefore = vram.usedBefore
                /\ vram'.footprint = vram.footprint
          /\ said' = "released" =>
                /\ active_ /\ choice # "stop" /\ conf # "none"
                /\ \/ used <= baseline' + Tolerance
                   \/ /\ vram.footprint > 0
                      /\ used <= vram.usedBefore - ((vram.footprint * 9) \div 10)
          /\ active_ /\ choice # "stop" /\ ~vram'.active => said' \in {"released", "not_released"}
    /\ used = IF conf = "none" THEN 0 ELSE own + lag + other
    /\ IF async = "stopped" THEN lag' = lag + own /\ own' = 0 ELSE lag' = lag /\ own' = own
    /\ gpu'.conf = conf
    /\ baseline' = IF choice = "load" THEN used ELSE baseline
    /\ loadedSize' = IF choice = "load" THEN model ELSE loadedSize
    /\ reload' = (reload /\ choice # "stop")
    /\ \/ footprint' = footprint
       \/ /\ st' = "ready" /\ footprint' > footprint
          /\ \/ conf = "high" /\ footprint' = own
             \/ conf = "degraded" /\ footprint' = used - baseline'
    /\ learned' => /\ choice # "load" /\ said' # "not_released"
                   /\ learned \/ (st' = "ready" /\ own = loadedSize /\ footprint' >= own)
    /\ model' = model /\ other' = other
    /\ owed' = IF choice = "load" /\ (footprint = 0 \/ lag' > owed) THEN lag' ELSE owed
    /\ (choice = "load" => ~vram'.active)
    /\ vram' \in [active : BOOLEAN, usedBefore : Nat, footprint : Nat, age : Nat]
    /\ gpu' \in [conf : {"high", "degraded", "none"}, ext : Nat]
    /\ loadedFor' \in Nat /\ learned' \in BOOLEAN

(* Every step of the controller is one.                                     *)
LEMMA StepTaken ==
  ASSUME VramType, Vr!Step
  PROVE  \E async \in {"none", "ready", "stopped"}, conf \in {"high", "degraded", "none"},
            choice \in {"none", "load", "stop"}, used \in Nat : StepIs(async, conf, choice, used)
<1>1. PICK async \in Vr!Results, conf \in {"high", "degraded", "none"} :
        LET a == Vr!Absorbed(async)
            g == Vr!Facts(a, conf) IN
        /\ IF async = "stopped" THEN lag' = lag + own /\ own' = 0 ELSE UNCHANGED <<lag, own>>
        /\ gpu' = [conf |-> g.conf, ext |-> g.ext]
        /\ \E choice \in Vr!Choices(a, g) :
             LET b == Vr!Acted(a, choice, g) IN
             /\ st' = b.st /\ baseline' = b.baseline /\ loadedFor' = b.loadedFor
             /\ loadedSize' = IF choice = "load" THEN model ELSE loadedSize
             /\ reload' = (reload /\ choice # "stop")
             /\ Vr!checkVRAMRelease(b, g) /\ Vr!learn(b, g)
             /\ learned' = (choice # "load" /\ said' # "not_released"
                            /\ (learned \/ (b.st = "ready" /\ b.loadedFor < LearnFor /\ conf = "high" /\ own = loadedSize)))
             /\ owed' = IF choice = "load" /\ (footprint = 0 \/ lag' > owed) THEN lag' ELSE owed
        /\ UNCHANGED <<model, other>>
  BY DEF Vr!Step
<1> DEFINE a == Vr!Absorbed(async)
           g == Vr!Facts(a, conf)
<1>2. PICK choice \in Vr!Choices(a, g) :
        LET b == Vr!Acted(a, choice, g) IN
        /\ st' = b.st /\ baseline' = b.baseline /\ loadedFor' = b.loadedFor
        /\ loadedSize' = IF choice = "load" THEN model ELSE loadedSize
        /\ reload' = (reload /\ choice # "stop")
        /\ Vr!checkVRAMRelease(b, g) /\ Vr!learn(b, g)
        /\ learned' = (choice # "load" /\ said' # "not_released"
                       /\ (learned \/ (b.st = "ready" /\ b.loadedFor < LearnFor /\ conf = "high" /\ own = loadedSize)))
        /\ owed' = IF choice = "load" /\ (footprint = 0 \/ lag' > owed) THEN lag' ELSE owed
  BY <1>1
<1> DEFINE b == Vr!Acted(a, choice, g)
           was == IF async = "none" THEN st ELSE async
           active_ == async = "stopped" \/ vram.active
           ours == IF active_ /\ was = "stopped" THEN vram.footprint ELSE 0
<1>0. /\ IF async = "stopped" THEN lag' = lag + own /\ own' = 0 ELSE UNCHANGED <<lag, own>>
      /\ gpu' = [conf |-> g.conf, ext |-> g.ext]
      /\ UNCHANGED <<model, other>>
  BY <1>1
<1>3. /\ async \in {"none", "ready", "stopped"}
      /\ async = "ready" => st = "loading" /\ own = loadedSize
      /\ async = "stopped" => st = "preempting"
  BY DEF Vr!Results
<1>4. /\ a.st = was /\ (a.vram.active <=> active_)
      /\ a.vram \in [active : BOOLEAN, usedBefore : Nat, footprint : Nat, age : Nat]
      /\ a.vram.usedBefore = vram.usedBefore /\ a.vram.footprint = vram.footprint
      /\ a.st \in {"stopped", "loading", "ready", "preempting"}
  BY <1>3, Absorb DEF VramType
<1> HIDE DEF a
<1>5. Vr!Ours(a) = ours
  BY <1>4 DEF Vr!Ours
<1>6. /\ g.conf = conf /\ g.used \in Nat /\ g.own \in Nat /\ g.ext \in Nat
      /\ conf = "none" => g.used = 0
      /\ conf # "none" => g.used = own + lag + other
      /\ conf = "high" /\ a.st # "stopped" => g.own = own
      /\ conf # "none" /\ a.st = "stopped" =>
           g.ext = IF own + lag + other > ours THEN own + lag + other - ours ELSE 0
  BY <1>4, <1>5, FactsSay
<1> HIDE DEF g
<1>7. /\ choice \in {"none", "load", "stop"}
      /\ choice = "load" => was = "stopped" /\ conf # "none"
      /\ choice = "stop" => was \in {"loading", "ready"}
      /\ choice = "none" => ~(reload /\ was \in {"loading", "ready"})
  BY <1>4, <1>6 DEF Vr!Choices
<1>8. /\ b.st = IF choice = "load" THEN "loading" ELSE IF choice = "stop" THEN "preempting" ELSE was
      /\ b.baseline = IF choice = "load" THEN g.used ELSE baseline
      /\ choice # "stop" => b.vram = a.vram
      /\ choice = "stop" =>
           b.vram = [active |-> FALSE, usedBefore |-> g.used, footprint |-> footprint, age |-> 0]
  BY <1>4, <1>7 DEF Vr!Acted
<1>9. /\ st' = b.st /\ baseline' = b.baseline
      /\ loadedSize' = IF choice = "load" THEN model ELSE loadedSize
      /\ reload' = (reload /\ choice # "stop")
      /\ Vr!checkVRAMRelease(b, g) /\ Vr!learn(b, g)
  BY <1>2
<1>23. loadedFor' \in Nat /\ learned' \in BOOLEAN
  <2>1. b.loadedFor \in Nat
    BY <1>7, Absorb, <1>3 DEF Vr!Acted, a, VramType
  <2> QED BY <1>2, <2>1
<1>10. learned' => /\ choice # "load" /\ said' # "not_released"
                   /\ learned \/ (b.st = "ready" /\ b.loadedFor < LearnFor /\ conf = "high" /\ own = loadedSize)
  BY <1>2
<1> HIDE DEF b
<1>11. /\ (b.vram.active /\ vram' = Vr!NoCheck) \/ vram' = b.vram
       /\ said' = "released" => b.vram.active /\ conf # "none" /\ Vr!Released(b, g)
       /\ b.vram.active /\ ~vram'.active => said' \in {"released", "not_released"}
  BY <1>6, <1>9 DEF Vr!checkVRAMRelease
<1>12. \/ footprint' = footprint
       \/ /\ b.st = "ready" /\ footprint' > footprint
          /\ \/ conf = "high" /\ footprint' = g.own
             \/ conf = "degraded" /\ footprint' = g.used - b.baseline
  BY <1>6, <1>9, MemorySizes DEF Vr!learn, Vr!Admitting, VramType
<1>13. /\ (active_ /\ choice # "stop" /\ vram' = Vr!NoCheck)
          \/ /\ choice = "stop"
             /\ vram' = [active |-> FALSE, usedBefore |-> g.used, footprint |-> footprint, age |-> 0]
          \/ /\ choice # "stop" /\ vram'.active = active_ /\ vram'.usedBefore = vram.usedBefore
             /\ vram'.footprint = vram.footprint
       /\ active_ /\ choice # "stop" /\ ~vram'.active => said' \in {"released", "not_released"}
  BY <1>4, <1>7, <1>8, <1>11
<1>14. said' = "released" =>
         /\ active_ /\ choice # "stop" /\ conf # "none"
         /\ \/ g.used <= baseline' + Tolerance
            \/ /\ vram.footprint > 0
               /\ g.used <= vram.usedBefore - ((vram.footprint * 9) \div 10)
  BY <1>4, <1>7, <1>8, <1>9, <1>11 DEF Vr!Released
<1>15. b.st = "ready" /\ b.loadedFor < LearnFor /\ conf = "high" /\ own = loadedSize => footprint' >= own
  BY <1>4, <1>6, <1>7, <1>8, <1>9, MemorySizes DEF Vr!learn, Vr!Admitting, VramType
<1>16. /\ gpu'.conf = conf
       /\ conf # "none" /\ was = "stopped" =>
            gpu'.ext = IF own + lag + other > ours THEN own + lag + other - ours ELSE 0
  BY <1>0, <1>4, <1>6
<1>17. st' = IF choice = "load" THEN "loading" ELSE IF choice = "stop" THEN "preempting" ELSE was
  BY <1>8, <1>9
<1>18. /\ g.used = IF conf = "none" THEN 0 ELSE own + lag + other
       /\ IF async = "stopped" THEN lag' = lag + own /\ own' = 0 ELSE lag' = lag /\ own' = own
       /\ baseline' = IF choice = "load" THEN g.used ELSE baseline
       /\ model' = model /\ other' = other
  BY <1>0, <1>6, <1>8, <1>9
<1>19. \/ footprint' = footprint
       \/ /\ st' = "ready" /\ footprint' > footprint
          /\ \/ conf = "high" /\ footprint' = own
             \/ conf = "degraded" /\ footprint' = g.used - baseline'
  BY <1>4, <1>6, <1>7, <1>8, <1>9, <1>12
<1>20. learned' => /\ choice # "load" /\ said' # "not_released"
                   /\ learned \/ (st' = "ready" /\ own = loadedSize /\ footprint' >= own)
  BY <1>9, <1>10, <1>15
<1>21. /\ vram' \in [active : BOOLEAN, usedBefore : Nat, footprint : Nat, age : Nat]
       /\ gpu' \in [conf : {"high", "degraded", "none"}, ext : Nat]
  <2>1. footprint \in Nat
    BY DEF VramType
  <2>2. b.vram \in [active : BOOLEAN, usedBefore : Nat, footprint : Nat, age : Nat]
    <3>1. CASE choice = "stop"
      <4>1. b.vram = [active |-> FALSE, usedBefore |-> g.used, footprint |-> footprint, age |-> 0]
        BY <1>8, <3>1
      <4> QED BY <1>6, <2>1, <4>1
    <3>2. CASE choice # "stop"
      BY <1>4, <1>8, <3>2
    <3> QED BY <3>1, <3>2
  <2>3. Vr!NoCheck \in [active : BOOLEAN, usedBefore : Nat, footprint : Nat, age : Nat]
    BY DEF Vr!NoCheck
  <2>4. gpu' \in [conf : {"high", "degraded", "none"}, ext : Nat]
    BY <1>0, <1>6
  <2> QED BY <1>11, <2>2, <2>3, <2>4
<1>24. choice = "load" => ~vram'.active
  <2> SUFFICES ASSUME choice = "load" PROVE ~vram'.active
    OBVIOUS
  <2>1. g.used <= b.baseline + Tolerance /\ g.conf # "none"
    BY <1>6, <1>7, <1>8, MemorySizes
  <2>2. b.vram.active => vram' = Vr!NoCheck
    BY <1>9, <2>1 DEF Vr!checkVRAMRelease, Vr!Released
  <2>3. ~b.vram.active => vram' = b.vram
    BY <1>9 DEF Vr!checkVRAMRelease
  <2> QED BY <2>2, <2>3, <1>4, <1>8 DEF Vr!NoCheck
<1>25. owed' = IF choice = "load" /\ (footprint = 0 \/ lag' > owed) THEN lag' ELSE owed
  BY <1>2
<1>22. StepIs(async, conf, choice, g.used)
  BY <1>3, <1>7, <1>9, <1>13, <1>14, <1>16, <1>17, <1>18, <1>19, <1>20, <1>21, <1>23, <1>24, <1>25 DEF StepIs
<1> QED BY <1>3, <1>6, <1>7, <1>22

(* A step keeps the memory's invariant.                                     *)
LEMMA StepKeeps ==
  ASSUME VramInv, OthersOnlyTake, Vr!Step
  PROVE  VramInv'
<1> USE DEF VramInv
<1>1. PICK async \in {"none", "ready", "stopped"}, conf \in {"high", "degraded", "none"},
           choice \in {"none", "load", "stop"}, used \in Nat : StepIs(async, conf, choice, used)
  BY StepTaken
<1>2. /\ own \in Nat /\ lag \in Nat /\ other \in Nat /\ model \in Nat /\ footprint \in Nat
      /\ loadedSize \in Nat /\ baseline \in Nat /\ gpu.ext \in Nat /\ st \in {"stopped", "loading", "ready", "preempting"}
      /\ vram.footprint \in Nat /\ vram.usedBefore \in Nat /\ vram.active \in BOOLEAN
      /\ model \in Models /\ other \in Others /\ owed \in Nat
  BY MemorySizes DEF VramType
<1>3. st' \in {"stopped", "loading", "ready", "preempting"}
  BY <1>1, <1>2 DEF StepIs
<1>4. footprint' \in Nat
  <2>1. footprint' \in Int /\ footprint' >= footprint
    <3>1. baseline' \in Nat
      BY <1>1, <1>2 DEF StepIs
    <3> QED BY <1>1, <1>2, <3>1 DEF StepIs
  <2> QED BY <1>2, <2>1
<1>5. VramType'
  <2>1. own' \in Nat /\ lag' \in Nat /\ baseline' \in Nat /\ loadedSize' \in Nat /\ loadedFor' \in Nat
    BY <1>1, <1>2 DEF StepIs
  <2>2. reload' \in BOOLEAN
    BY <1>1 DEF StepIs
  <2>3. /\ vram' \in [active : BOOLEAN, usedBefore : Nat, footprint : Nat, age : Nat]
        /\ gpu' \in [conf : {"high", "degraded", "none"}, ext : Nat]
        /\ learned' \in BOOLEAN /\ model' \in Models /\ other' \in Others
    BY <1>1, <1>2 DEF StepIs
  <2>4. owed' \in Nat
    BY <1>1, <1>2, <2>1 DEF StepIs
  <2> QED BY <1>3, <1>4, <2>1, <2>2, <2>3, <2>4 DEF VramType
<1>11. /\ owed' \in Nat /\ (choice # "load" => owed' = owed)
       /\ choice = "load" => lag' <= owed' /\ (footprint = 0 \/ owed <= owed')
  <2>1. owed' \in Nat /\ lag' \in Nat
    BY <1>5 DEF VramType
  <2>2. owed' = IF choice = "load" /\ (footprint = 0 \/ lag' > owed) THEN lag' ELSE owed
    BY <1>1 DEF StepIs
  <2> QED BY <1>2, <2>1, <2>2
<1>6. UseIsLoaded'
  <2>1. CASE choice = "load"
    <3>1. st' = "loading" /\ (async = "stopped" => st = "preempting")
          /\ used = own + lag + other /\ baseline' = used /\ other' = other
          /\ (IF async = "stopped" THEN lag' = lag + own /\ own' = 0 ELSE lag' = lag /\ own' = own)
          /\ loadedSize' = model /\ (IF async = "none" THEN st ELSE async) = "stopped"
      BY <1>1, <2>1 DEF StepIs
    <3>2. own' = 0 /\ lag' = own + lag
      BY <1>2, <3>1 DEF UseIsLoaded
    <3>3. model' = model /\ lag' <= owed'
      BY <1>1, <1>11, <2>1 DEF StepIs
    <3>4. baseline' = lag' + other' /\ st' = "loading" /\ own' = 0 /\ lag' <= owed'
          /\ lag' \in Nat /\ other' \in Nat /\ owed' \in Nat /\ loadedSize' \in Nat
      BY <1>2, <1>11, <3>1, <3>2, <3>3
    <3>5. PICK o \in Nat, l \in Nat, x \in Nat, z \in Nat :
            o = owed' /\ l = lag' /\ x = other' /\ z = loadedSize'
      BY <3>4
    <3>6. l <= o /\ l <= z + o /\ l + x <= x + o /\ l <= l + x /\ 0 <= z
      <4>1. l <= o
        BY <3>4, <3>5
      <4> QED BY <4>1, SumsGrow
    <3> QED BY <3>4, <3>5, <3>6 DEF UseIsLoaded
  <2>2. CASE choice # "load"
    <3>1. owed' = owed
      BY <1>11, <2>2
    <3> QED BY <1>1, <1>2, <2>2, <3>1 DEF StepIs, UseIsLoaded
  <2> QED BY <2>1, <2>2
<1>0. lag' \in Nat /\ lag' <= own + lag
  <2>1. CASE async = "stopped"
    <3>1. lag' = lag + own
      BY <1>1, <2>1 DEF StepIs
    <3> QED BY <1>2, <3>1
  <2>2. CASE async # "stopped"
    <3>1. lag' = lag
      BY <1>1, <2>2 DEF StepIs
    <3> QED BY <1>2, <3>1
  <2> QED BY <2>1, <2>2
<1>7. Vr!Remainder \in Nat /\ (loadedSize' = loadedSize => Vr!Remainder' = Vr!Remainder)
  BY <1>2, RemainderIs DEF Vr!Remainder
<1>8. CASE choice = "load"
  <2>0. st' = "loading" /\ st \in {"stopped", "preempting"}
    BY <1>1, <1>8 DEF StepIs
  <2>1. /\ ~vram'.active
        /\ footprint' = footprint /\ reload' = reload /\ loadedSize' = model
        /\ model' = model /\ other' = other
    <3>1. ~vram'.active
      BY <1>1, <1>8 DEF StepIs
    <3>2. /\ footprint' = footprint /\ loadedSize' = model
          /\ model' = model /\ other' = other
      BY <1>1, <1>8, <2>0 DEF StepIs
    <3>3. reload' = reload
      BY <1>1, <1>5, <1>8 DEF StepIs, VramType
    <3> QED BY <2>0, <3>1, <3>2, <3>3
  <2>4. ~learned'
    BY <1>1, <1>8 DEF StepIs
  <2>2. LearnedIsModel' /\ CheckIsOfTheStopped'
    <3>1. ~reload
      BY <2>0 DEF LearnedIsModel
    <3>2. footprint = 0 \/ (footprint + owed >= model /\ owed <= owed')
      BY <1>8, <1>11 DEF LearnedIsModel
    <3>3. footprint' = 0 \/ footprint' + owed' >= model'
      <4>1. owed' \in Nat /\ owed \in Nat /\ footprint' = footprint /\ model' = model
        BY <1>2, <1>11, <2>1
      <4>2. footprint = 0 \/ footprint + owed' >= model
        <5> SUFFICES ASSUME footprint # 0 PROVE footprint + owed' >= model
          OBVIOUS
        <5>1. PICK o \in Nat : o = owed'
          BY <4>1
        <5>2. model <= footprint + owed /\ owed <= o
          BY <3>2, <5>1
        <5>3. footprint + o >= model
          BY <1>2, <5>2
        <5> QED BY <5>1, <5>3
      <4> QED BY <4>1, <4>2
    <3>4. footprint' <= model' + other'
      BY <2>1 DEF LearnedIsModel
    <3>5. LearnedIsModel'
      BY <2>0, <2>1, <3>1, <3>3, <3>4 DEF LearnedIsModel
    <3> QED BY <2>0, <2>1, <3>5 DEF CheckIsOfTheStopped
  <2>3. MeasuredCovers' /\ Vr!ReleaseIsReal'
    BY <2>0, <2>1, <2>4 DEF MeasuredCovers, Vr!ReleaseIsReal
  <2> QED BY <1>5, <1>6, <2>2, <2>3
<1>9. CASE choice = "stop"
  <2>1. /\ st \in {"loading", "ready"} /\ async \in {"none", "ready"} /\ lag <= owed
        /\ st' = "preempting" /\ own' = own /\ lag' = lag /\ loadedSize' = loadedSize
        /\ owed' = owed
        /\ reload' = FALSE /\ footprint' = footprint /\ said' # "released"
        /\ model' = model /\ other' = other /\ (learned' => learned)
    BY <1>1, <1>2, <1>9 DEF StepIs, UseIsLoaded
  <2>2. vram' = [active |-> FALSE, usedBefore |-> used, footprint |-> footprint, age |-> 0]
    BY <1>1, <1>9 DEF StepIs
  <2>3. ~vram'.active /\ vram'.usedBefore = used /\ vram'.footprint = footprint
    BY <2>2
  <2>4. used <= loadedSize + other + owed
    BY <1>1, <1>2, <2>1 DEF StepIs, UseIsLoaded
  <2>5. LearnedIsModel'
    BY <1>2, <2>1 DEF LearnedIsModel
  <2>6. footprint = 0 \/ footprint + owed >= loadedSize
    BY <2>1 DEF LearnedIsModel
  <2>7. CheckIsOfTheStopped'
    BY <2>1, <2>3, <2>4, <2>6 DEF CheckIsOfTheStopped
  <2>8. MeasuredCovers'
    BY <2>1, <2>3 DEF MeasuredCovers
  <2>9. Vr!ReleaseIsReal'
    BY <2>1 DEF Vr!ReleaseIsReal
  <2> QED BY <1>5, <1>6, <2>5, <2>7, <2>8, <2>9
<1>10. CASE choice = "none"
  <2>1. /\ st' = IF async = "none" THEN st ELSE async
        /\ loadedSize' = loadedSize /\ model' = model /\ other' = other /\ baseline' = baseline
        /\ owed' = owed
        /\ ~(reload /\ st' \in {"loading", "ready"})
    BY <1>1, <1>2, <1>10, <1>11 DEF StepIs
  <2>2. ~reload'
    BY <1>1, <1>2, <2>1 DEF StepIs, LearnedIsModel
  <2>3. LearnedIsModel'
    <3>1. st' \in {"loading", "ready"} => model' = loadedSize'
      BY <1>1, <2>1, <2>2 DEF StepIs, LearnedIsModel
    <3>2. footprint' = footprint \/ (footprint' + owed >= model /\ footprint' <= model + other)
      <4>1. CASE st' = "ready"
        <5>1. own = loadedSize /\ model = loadedSize /\ lag <= owed /\ lag <= baseline
              /\ baseline <= other + owed
          BY <1>1, <2>1, <2>2, <3>1, <4>1 DEF StepIs, UseIsLoaded
        <5>2. used = 0 \/ used = own + lag + other
          BY <1>1, <1>2, <5>1 DEF StepIs
        <5>3. \/ footprint' = footprint
              \/ footprint' = own
              \/ footprint' = used - baseline /\ footprint' > footprint
          BY <1>1, <2>1 DEF StepIs
        <5>4. CASE footprint' = used - baseline /\ footprint' > footprint
          <6>1. used = own + lag + other
            BY <1>2, <1>4, <5>2, <5>4
          <6> QED BY <1>2, <5>1, <5>4, <6>1
        <5> QED BY <1>2, <5>1, <5>3, <5>4
      <4>2. CASE st' # "ready"
        BY <1>1, <4>2 DEF StepIs
      <4> QED BY <4>1, <4>2
    <3> QED BY <1>2, <1>4, <2>1, <2>2, <3>1, <3>2 DEF LearnedIsModel
  <2>4. CheckIsOfTheStopped'
    BY <1>1, <1>2, <1>10, <2>1 DEF StepIs, CheckIsOfTheStopped, Vr!NoCheck
  <2>7. said' = "released" => /\ lag' <= Vr!Remainder + 2 * owed
                              /\ learned => lag' <= Vr!Remainder + owed
    <3> SUFFICES ASSUME said' = "released"
                 PROVE  /\ lag' <= Vr!Remainder + 2 * owed
                        /\ learned => lag' <= Vr!Remainder + owed
      OBVIOUS
    <3>1. used = own + lag + other
      BY <1>1 DEF StepIs
    <3>2. CASE used <= baseline' + Tolerance
      <4>1. baseline <= other + owed
        BY DEF UseIsLoaded
      <4>2. own + lag <= Tolerance + owed
        BY <1>2, <2>1, <3>1, <3>2, <4>1, MemorySizes
      <4>3. lag' <= Tolerance + owed
        BY <1>0, <1>2, <4>2, MemorySizes
      <4>4. Tolerance <= Vr!Remainder
        BY <1>2, RemainderIs
      <4> QED BY <1>0, <1>2, <1>7, <4>3, <4>4, MemorySizes
    <3>3. CASE /\ vram.footprint > 0
               /\ used <= vram.usedBefore - ((vram.footprint * 9) \div 10)
      <4>1. loadedSize <= vram.footprint + owed /\ vram.usedBefore <= loadedSize + other + owed
        BY <1>1, <1>2, <3>3 DEF StepIs, CheckIsOfTheStopped
      <4>2. loadedSize - ((vram.footprint * 9) \div 10) <= (loadedSize \div 10) + 1 + owed
        BY <1>2, <4>1, ATenthRemains
      <4>3. (vram.footprint * 9) \div 10 \in Nat /\ (loadedSize \div 10) + 1 <= Vr!Remainder
        BY <1>2, RemainderIs
      <4>4. own + lag <= loadedSize + owed - ((vram.footprint * 9) \div 10)
        BY <1>2, <3>1, <3>3, <4>1, <4>3
      <4>5. PICK x \in Nat : x = (vram.footprint * 9) \div 10
        BY <4>3
      <4>6. (loadedSize \div 10) + 1 \in Nat
        BY <1>2
      <4>7. lag' <= (loadedSize \div 10) + 1 + 2 * owed
        <5>1. own + lag <= loadedSize + owed - x /\ loadedSize - x <= (loadedSize \div 10) + 1 + owed
          BY <4>2, <4>4, <4>5
        <5> QED BY <1>0, <1>2, <4>6, <5>1
      <4>8. learned => lag' <= (loadedSize \div 10) + 1 + owed
        <5> SUFFICES ASSUME learned PROVE lag' <= (loadedSize \div 10) + 1 + owed
          OBVIOUS
        <5>1. loadedSize <= vram.footprint + 0
          BY <1>1, <1>2, <3>3 DEF StepIs, MeasuredCovers
        <5>2. loadedSize - ((vram.footprint * 9) \div 10) <= (loadedSize \div 10) + 1 + 0
          BY <1>2, <5>1, ATenthRemains
        <5>3. own + lag <= loadedSize + owed - x /\ loadedSize - x <= (loadedSize \div 10) + 1
          BY <1>2, <4>4, <4>5, <4>6, <5>2
        <5> QED BY <1>0, <1>2, <4>6, <5>3
      <4> QED BY <1>0, <1>2, <1>7, <4>3, <4>6, <4>7, <4>8
    <3> QED BY <1>1, <3>2, <3>3 DEF StepIs
  <2>5. Vr!ReleaseIsReal'
    BY <1>7, <2>1, <2>7 DEF Vr!ReleaseIsReal
  <2>6. MeasuredCovers'
    <3> SUFFICES ASSUME learned' PROVE MeasuredCovers'
      BY DEF MeasuredCovers
    <3>1. st' # "loading"
      BY <1>1, <1>10, <2>1 DEF StepIs, MeasuredCovers
    <3>2. st' = "ready" => footprint' >= loadedSize'
      BY <1>1, <1>2, <1>4, <2>1 DEF StepIs, MeasuredCovers
    <3>3. st' = "preempting" \/ vram'.active => vram'.footprint >= loadedSize'
      <4> SUFFICES ASSUME st' = "preempting" \/ vram'.active
                   PROVE  vram'.footprint >= loadedSize
        BY <2>1
      <4>1. st' # "ready"
        BY <2>4 DEF CheckIsOfTheStopped
      <4>2. learned
        BY <1>1, <4>1 DEF StepIs
      <4>3. CASE vram'.active
        <5>1. vram' # Vr!NoCheck
          BY <4>3 DEF Vr!NoCheck
        <5>2. vram'.footprint = vram.footprint /\ (st = "preempting" \/ vram.active)
          BY <1>1, <1>10, <2>1, <4>3, <5>1 DEF StepIs
        <5> QED BY <4>2, <5>2 DEF MeasuredCovers
      <4>4. CASE st' = "preempting"
        <5>1. st = "preempting" /\ ~vram.active /\ async = "none"
          BY <1>1, <2>1, <4>4 DEF StepIs, CheckIsOfTheStopped
        <5>2. vram'.footprint = vram.footprint
          BY <1>1, <1>10, <5>1 DEF StepIs
        <5> QED BY <4>2, <5>1, <5>2 DEF MeasuredCovers
      <4> QED BY <4>3, <4>4
    <3>4. st' = "stopped" /\ ~vram'.active => lag' <= Vr!Remainder' + owed'
      <4> SUFFICES ASSUME st' = "stopped", ~vram'.active PROVE lag' <= Vr!Remainder + owed
        BY <1>7, <2>1
      <4>1. learned /\ said' # "not_released"
        BY <1>1 DEF StepIs
      <4>2. CASE async = "stopped" \/ vram.active
        <5>1. said' = "released"
          BY <1>1, <1>10, <4>1, <4>2 DEF StepIs
        <5> QED BY <2>7, <4>1, <5>1
      <4>3. CASE ~(async = "stopped" \/ vram.active)
        <5>1. st = "stopped" /\ lag' = lag
          BY <1>1, <2>1, <4>3 DEF StepIs
        <5> QED BY <4>1, <4>3, <5>1 DEF MeasuredCovers
      <4> QED BY <4>2, <4>3
    <3>5. st' = "stopped" /\ gpu'.conf # "none" => gpu'.ext <= other' + Vr!Remainder' + owed'
      BY <1>1, <1>2, <1>7, <1>10, <2>1 DEF StepIs, MeasuredCovers, UseIsLoaded
    <3> QED BY <3>1, <3>2, <3>3, <3>4, <3>5 DEF MeasuredCovers
  <2> QED BY <1>5, <1>6, <2>3, <2>4, <2>5, <2>6
<1> QED BY <1>8, <1>9, <1>10

(* The wait starts with nothing hidden.                                     *)
LEMMA SharedStarts ==
  ASSUME Vs!Init
  PROVE  SharedInv
  BY DEF Vs!Init, Vs!NoCheck, SharedInv, IsCheck

(* Where others free memory too, a step hides a competitor only behind a    *)
(* check that runs, which the timeout ends.                                 *)
LEMMA SharedKept ==
  ASSUME SharedInv, Vs!Next
  PROVE  SharedInv'
<1> USE DEF SharedInv
<1>1. CASE Vs!Allocate \/ Vs!Free \/ Vs!OtherMoves \/ Vs!updateConfig
  <2>1. UNCHANGED <<st, vram, hidden>>
    BY <1>1 DEF Vs!Allocate, Vs!Free, Vs!OtherMoves, Vs!updateConfig, Vs!ghosts
  <2>2. CASE Vs!Allocate \/ Vs!updateConfig
    <3>1. {own', lag', other', model', loadedSize'} \subseteq Nat
      BY <2>2 DEF Vs!Allocate, Vs!updateConfig
    <3> QED BY <2>1, <3>1
  <2>3. CASE Vs!Free \/ Vs!OtherMoves
    <3>1. lag \div 2 \in Nat
      OBVIOUS
    <3>2. {own', lag', other', model', loadedSize'} \subseteq Nat
      BY <2>3, <3>1 DEF Vs!Free, Vs!OtherMoves
    <3> QED BY <2>1, <3>2
  <2> QED BY <1>1, <2>2, <2>3
<1>2. CASE Vs!Step
  <2>1. PICK async \in Vs!Results, conf \in {"high", "degraded", "none"} :
          LET a == Vs!Absorbed(async)
              g == Vs!Facts(a, conf) IN
          /\ IF async = "stopped" THEN lag' = lag + own /\ own' = 0 ELSE UNCHANGED <<lag, own>>
          /\ \E choice \in Vs!Choices(a, g) :
               LET b == Vs!Acted(a, choice, g) IN
               /\ st' = b.st
               /\ loadedSize' = IF choice = "load" THEN model ELSE loadedSize
               /\ Vs!checkVRAMRelease(b, g)
               /\ hidden' = IF conf = "none" THEN hidden
                            ELSE IF g.ext < other /\ b.st = "stopped" THEN Vs!Capped(hidden + 1) ELSE 0
          /\ UNCHANGED <<model, other>>
    BY <1>2 DEF Vs!Step
  <2> DEFINE a == Vs!Absorbed(async)
             g == Vs!Facts(a, conf)
  <2>2. PICK choice \in Vs!Choices(a, g) :
          LET b == Vs!Acted(a, choice, g) IN
          /\ st' = b.st
          /\ loadedSize' = IF choice = "load" THEN model ELSE loadedSize
          /\ Vs!checkVRAMRelease(b, g)
          /\ hidden' = IF conf = "none" THEN hidden
                       ELSE IF g.ext < other /\ b.st = "stopped" THEN Vs!Capped(hidden + 1) ELSE 0
    BY <2>1
  <2> DEFINE b == Vs!Acted(a, choice, g)
  <2>3. {own', lag', other', model', loadedSize'} \subseteq Nat
    BY <2>1, <2>2
  <2>4. async = "none" \/ (async = "ready" /\ st = "loading") \/ (async = "stopped" /\ st = "preempting")
    BY DEF Vs!Results
  <2>5. /\ a.st = IF async = "none" THEN st ELSE async
        /\ a.vram.active <=> async = "stopped" \/ vram.active
        /\ IsCheck(a.vram)
        /\ a.vram.active /\ a.st = "stopped" =>
             IF async = "stopped" THEN a.vram.age = 0 ELSE a.vram.age = vram.age + 1
    <3>1. CASE async = "none"
      BY <3>1 DEF Vs!Absorbed, Vs!Older, IsCheck
    <3>2. CASE async = "ready"
      BY <2>4, <3>2 DEF Vs!Absorbed, Vs!Older, IsCheck
    <3>3. CASE async = "stopped"
      BY <3>3 DEF Vs!Absorbed, IsCheck
    <3> QED BY <2>4, <3>1, <3>2, <3>3
  <2>6. conf # "none" /\ a.st = "stopped" /\ ~a.vram.active => ~(g.ext < other)
    <3> HIDE DEF a
    <3> QED BY DEF Vs!Facts, Vs!Ours
  <2> HIDE DEF a
  <2>7. /\ choice \in {"none", "load", "stop"}
        /\ choice = "load" => conf # "none"
        /\ choice = "stop" => a.st \in {"loading", "ready"}
    BY DEF Vs!Choices, Vs!Facts, Vs!NoFacts
  <2> HIDE DEF g
  <2>8. /\ b.st = IF choice = "load" THEN "loading" ELSE IF choice = "stop" THEN "preempting" ELSE a.st
        /\ IsCheck(b.vram)
        /\ choice = "none" => b.vram = a.vram
    BY <2>5, <2>7 DEF Vs!Acted, IsCheck
  <2>9. /\ vram' = Vs!NoCheck \/ (vram' = b.vram /\ (b.vram.active => ~(b.vram.age > 1)))
        /\ hidden' = IF conf = "none" THEN hidden
                     ELSE IF g.ext < other /\ b.st = "stopped" THEN Vs!Capped(hidden + 1) ELSE 0
        /\ st' = b.st
    BY <2>2 DEF Vs!checkVRAMRelease, Vs!Expired
  <2> HIDE DEF b
  <2>10. st' \in {"stopped", "loading", "ready", "preempting"} /\ IsCheck(vram')
    <3>1. st' \in {"stopped", "loading", "ready", "preempting"}
      BY <2>4, <2>5, <2>7, <2>8, <2>9
    <3>2. IsCheck(Vs!NoCheck)
      BY DEF Vs!NoCheck, IsCheck
    <3> QED BY <2>8, <2>9, <3>1, <3>2
  <2>11. CASE b.st # "stopped"
    <3>1. hidden' = 0
      BY <2>4, <2>5, <2>7, <2>8, <2>9, <2>11
    <3> QED BY <2>3, <2>9, <2>10, <2>11, <3>1
  <2>12. CASE b.st = "stopped"
    <3>1. a.st = "stopped" /\ choice = "none" /\ b.vram = a.vram
      BY <2>7, <2>8, <2>12
    <3>2. CASE ~a.vram.active
      <4>1. hidden' = hidden \/ hidden' = 0
        BY <2>6, <2>9, <3>1, <3>2
      <4>2. ~vram'.active
        BY <2>9, <3>1, <3>2 DEF Vs!NoCheck
      <4> QED BY <2>3, <2>9, <2>10, <2>12, <4>1, <4>2
    <3>3. CASE a.vram.active
      <4>1. vram.age \in Nat /\ a.vram.age \in Nat
        BY <2>5 DEF IsCheck
      <4>2. hidden <= a.vram.age /\ a.vram.age <= 2
        BY <2>4, <2>5, <3>1, <3>3, <4>1
      <4>3. hidden' \in Nat /\ hidden' <= hidden + 1
        BY <2>9 DEF Vs!Capped
      <4>4. vram'.active => vram'.age = a.vram.age /\ vram'.age <= 1
        <5>1. CASE vram' = Vs!NoCheck
          BY <5>1 DEF Vs!NoCheck
        <5>2. CASE vram' = a.vram /\ ~(a.vram.age > 1)
          BY <4>1, <5>2
        <5> QED BY <2>9, <3>1, <3>3, <5>1, <5>2
      <4>5. vram'.active => hidden' <= vram'.age + 1
        BY <4>1, <4>2, <4>3, <4>4
      <4>6. hidden' <= 3
        BY <4>1, <4>2, <4>3
      <4>7. st' = "stopped"
        BY <2>9, <2>12
      <4> QED BY <2>3, <2>10, <4>3, <4>4, <4>5, <4>6, <4>7
    <3> QED BY <2>5, <3>2, <3>3
  <2> QED BY <2>11, <2>12
<1> QED BY <1>1, <1>2 DEF Vs!Next

-----------------------------------------------------------------------------
(* The process tree.                                                       *)

Accesses == {"path", "handle", "denied"}
Procs == [st : {"none", "suspended", "running", "dying"}, image : {"runtime", "namesake", "other"},
          access : Accesses, tree : {"no", "root", "child"}, job : BOOLEAN, seen : BOOLEAN]

Starting == {"assign", "resume"}
Owning == Starting \cup {"inst", "stopping", "zombie"}
InStop == {"wait", "interrupt", "kill", "root", "poll"}

TreeType ==
    /\ proc \in [PIDs -> Procs] /\ root \in PIDs \cup {0} /\ goal \in {"idle", "probe"}
    /\ pc \in Owning \cup {"down", "idle", "snap", "scan", "probe", "create"}
    /\ stop \in [Ad!Callers -> InStop \cup {"idle", "end"}]
    /\ scan \subseteq [pid : PIDs, byName : BOOLEAN]

\* What is in the job exists; what runs of a tree is in the job; and a job is
\* of the instance that is held.
JobHoldsTree ==
    \A p \in PIDs :
        /\ proc[p].job => proc[p].st # "none" /\ root # 0
        /\ proc[p].tree # "no" /\ proc[p].st = "running" => proc[p].job

\* An instance is held while its root is started, runs, or is being stopped;
\* until it runs, its job has at most the root, which is suspended.
HeldUntilGone ==
    /\ root # 0 => pc \in Owning
    /\ pc \in Starting =>
         /\ root # 0 /\ proc[root].st = "suspended"
         /\ \A p \in PIDs : proc[p].job => p = root /\ pc = "resume"

\* The loop's stop is under way exactly while the loop waits for it, and
\* Shutdown's only when no start can follow.
StopsInTheirPlace ==
    /\ stop["loop"] = "idle" <=> pc # "stopping"
    /\ stop["loop"] # "end"
    /\ stop["shutdown"] # "idle" => pc \in {"stopping", "zombie", "idle"}

TreeInv == TreeType /\ JobHoldsTree /\ HeldUntilGone /\ StopsInTheirPlace

\* A candidate is one by its path, where no process can be named and not read.
NamedByPath ==
    /\ \A p \in PIDs : proc[p].access # "handle"
    /\ \A o \in scan : ~o.byName

\* Where every path can be read and a kill that is asked for is done: a runtime
\* that was there when the start looked is to be terminated, and then is.
Leftover(p) ==
    proc[p].st \in {"suspended", "running"} /\ proc[p].image = "runtime" /\ ~proc[p].job /\ proc[p].seen
LeftoversAreListed ==
    /\ \A p \in PIDs : proc[p].access = "path"
    /\ \A p \in PIDs : Leftover(p) =>
         /\ pc = "scan" => [pid |-> p, byName |-> FALSE] \in scan
         /\ pc \notin Owning \cup {"probe", "create"}

-----------------------------------------------------------------------------
(* What the steps of the adapter do to the tree, whatever the machine      *)
(* lets the worker read and whether kills fail.                            *)

\* A process appears, ends or leaves.
Born(p, acc) ==
    /\ proc[p].st = "none" /\ proc'[p].st = "running" /\ ~proc'[p].seen /\ proc'[p].access \in acc \cup {"path"}
    /\ \/ proc'[p].tree = "no" /\ ~proc'[p].job
       \/ \E q \in PIDs : proc[q].st = "running" /\ proc[q].tree # "no" /\ proc'[p].job = proc[q].job
Dies(p) == proc[p].st # "none" /\ proc'[p] = [proc[p] EXCEPT !.st = "dying"]
Leaves(p) == proc[p].st = "dying" /\ proc'[p] = Ad!NoProc

Machine(acc) ==
    /\ UNCHANGED <<pc, goal, scan, root, stop>> /\ proc' \in [PIDs -> Procs]
    /\ \A p \in PIDs : \/ proc'[p] = proc[p] \/ Born(p, acc) \/ Leaves(p)
                       \/ proc[p].st = "running" /\ Dies(p)

Turn ==
    /\ UNCHANGED <<proc, scan, root, stop>> /\ goal' \in {"idle", "probe"}
    /\ \/ pc = "down" /\ pc' = "snap"
       \/ pc = "idle" /\ pc' = "snap" /\ stop["shutdown"] = "idle"
       \/ pc = "scan" /\ scan = {} /\ pc' = goal
       \/ pc = "probe" /\ pc' \in {"create", "idle"}
       \/ pc = "inst" /\ pc' = "zombie"

Looked(fails) ==
    /\ pc = "snap" /\ UNCHANGED <<goal, root, stop>>
    /\ proc' = [p \in PIDs |-> [proc[p] EXCEPT !.seen = Ad!Exists(p)]]
    /\ \/ /\ pc' = "scan"
          /\ scan' = {[pid |-> p, byName |-> proc[p].access # "path"] : p \in {q \in PIDs : Ad!Candidate(q)}}
       \/ fails /\ pc' = goal /\ UNCHANGED scan

Ended(fails) ==
    /\ pc = "scan" /\ UNCHANGED <<pc, goal, root, stop>>
    /\ \E o \in scan :
         /\ scan' = scan \ {o}
         /\ \/ Ad!Exists(o.pid) /\ Ad!Verified(o) /\ proc' = Ad!Dying({o.pid})
            \/ (Ad!Exists(o.pid) => fails \/ ~Ad!Verified(o)) /\ UNCHANGED proc

Started == UNCHANGED <<goal, scan, stop>> /\ (Ad!Create \/ Ad!Assign \/ Ad!Resume)

Failed ==
    /\ pc \in Starting /\ pc' = "idle" /\ root' = 0 /\ proc' = [proc EXCEPT ![root] = Ad!NoProc]
    /\ UNCHANGED <<goal, scan, stop>>

\* A stop begins, goes on, or returns to its caller.
Stops ==
    /\ UNCHANGED <<proc, goal, scan, root>>
    /\ \/ Ad!BeginStop \/ Ad!Shutdown
       \/ UNCHANGED pc /\ \E c \in Ad!Callers, to \in InStop :
                stop[c] \in InStop /\ stop' = [stop EXCEPT ![c] = to]

Kills ==
    /\ UNCHANGED <<pc, goal, scan, root>> /\ proc' = Ad!Dying(Ad!Members)
    /\ \E c \in Ad!Callers : stop[c] \in InStop /\ stop' = [stop EXCEPT ![c] = "root"]

Idles(c) ==
    /\ root' = 0 /\ pc' = IF c = "shutdown" THEN pc ELSE "idle"
    /\ stop' = [stop EXCEPT ![c] = IF c = "loop" THEN "idle" ELSE "end"]
Fails(c) ==
    /\ pc' = IF c = "shutdown" THEN pc ELSE "zombie"
    /\ stop' = [stop EXCEPT ![c] = IF c = "loop" THEN "idle" ELSE "end"]

Returned ==
    /\ UNCHANGED <<proc, goal, scan>> /\ (root' = root \/ (root' = 0 /\ Ad!Members = {}))
    /\ \E c \in Ad!Callers : stop[c] \in InStop /\ (Idles(c) \/ Fails(c))

Died == UNCHANGED goal /\ Ad!Crash

TreeMove(fails, acc) ==
    \/ Machine(acc) \/ Turn \/ Looked(fails) \/ Ended(fails) \/ Started \/ Failed
    \/ Stops \/ Kills \/ Returned \/ Died

(* The machine's steps move processes, one at a time.                       *)
LEMMA MachineMoves ==
  ASSUME TreeInv
  PROVE  /\ Ad!Spawn \/ Ad!Child \/ Ad!Exit \/ Ad!Listen \/ Ad!Bind \/ (\E p \in PIDs : Ad!Leave(p)) =>
           Machine(Access)
         /\ Af!Spawn \/ Af!Child \/ Af!Exit \/ Af!Listen \/ Af!Bind \/ (\E p \in PIDs : Af!Leave(p)) =>
                  Machine({"path", "denied"})
<1>1. proc \in [PIDs -> Procs] /\ root \in PIDs \cup {0}
  BY DEF TreeInv, TreeType
<1>2. Ad!NoProc \in Procs
  BY DEF Procs, Accesses, Ad!NoProc
<1>3. ASSUME NEW acc, acc \subseteq Accesses, NEW p \in PIDs, proc[p].st = "none", NEW q \in Procs,
             q.st = "running", ~q.seen, q.access \in acc \cup {"path"},
             \/ q.tree = "no" /\ ~q.job
             \/ \E o \in PIDs : proc[o].st = "running" /\ proc[o].tree # "no" /\ q.job = proc[o].job,
             proc' = [proc EXCEPT ![p] = q], UNCHANGED <<pc, goal, scan, root, stop>>
      PROVE  Machine(acc)
  BY <1>1, <1>3 DEF Machine, Born
<1>4. ASSUME NEW p \in PIDs, proc[p].st = "running", proc' = Ad!Dying({p}),
             UNCHANGED <<pc, goal, scan, root, stop>>,
             NEW acc
      PROVE  Machine(acc)
  <2>1. proc' \in [PIDs -> Procs]
    BY <1>1, <1>4 DEF Ad!Dying, Procs
  <2>2. \A q \in PIDs : q # p => proc'[q] = proc[q]
    BY <1>1, <1>4 DEF Ad!Dying
  <2>3. Dies(p)
    BY <1>1, <1>4 DEF Ad!Dying, Ad!Exists, Dies
  <2> QED BY <1>4, <2>1, <2>2, <2>3 DEF Machine
<1>5. ASSUME NEW p \in PIDs, proc[p].st = "dying", proc' = [proc EXCEPT ![p] = Ad!NoProc],
             UNCHANGED <<pc, goal, scan, root, stop>>, NEW acc
      PROVE  Machine(acc)
  BY <1>1, <1>2, <1>5 DEF Machine, Leaves
<1>6. ASSUME UNCHANGED <<proc, pc, goal, scan, root, stop>>, NEW acc
      PROVE  Machine(acc)
  BY <1>1, <1>6 DEF Machine
<1>7. Access \subseteq Accesses /\ Images \subseteq {"runtime", "namesake", "other"}
  BY ConstantsAssumption DEF Ad!AdapterAssumption, Accesses
<1>8. ASSUME NEW acc, acc \subseteq Accesses, NEW p \in PIDs, proc[p].st = "none", NEW i \in Images,
             NEW a \in acc,
             proc' = [proc EXCEPT ![p] = [Ad!NoProc EXCEPT !.st = "running", !.image = i, !.access = a]],
             UNCHANGED <<pc, goal, scan, root, stop>>
      PROVE  Machine(acc)
  <2> DEFINE q == [Ad!NoProc EXCEPT !.st = "running", !.image = i, !.access = a]
  <2>1. q \in Procs /\ q.st = "running" /\ ~q.seen /\ q.access = a /\ q.tree = "no" /\ ~q.job
    BY <1>2, <1>7, <1>8 DEF Procs, Ad!NoProc
  <2>2. proc' = [proc EXCEPT ![p] = q]
    BY <1>8
  <2> HIDE DEF q
  <2> QED BY <1>3, <1>8, <2>1, <2>2
<1>9. ASSUME NEW acc, acc \subseteq Accesses, NEW p \in PIDs, proc[p].st = "none", NEW o \in PIDs,
             proc[o].st = "running", proc[o].tree # "no",
             proc' = [proc EXCEPT ![p] = [Ad!NoProc EXCEPT !.st = "running", !.image = "runtime",
                                                           !.tree = "child", !.job = proc[o].job]],
             UNCHANGED <<pc, goal, scan, root, stop>>
      PROVE  Machine(acc)
  <2> DEFINE q == [Ad!NoProc EXCEPT !.st = "running", !.image = "runtime",
                          !.tree = "child", !.job = proc[o].job]
  <2>1. proc[o].job \in BOOLEAN
    BY <1>1, <1>9 DEF Procs
  <2>2. q \in Procs /\ q.st = "running" /\ ~q.seen /\ q.access = "path" /\ q.job = proc[o].job
    BY <1>2, <2>1 DEF Procs, Ad!NoProc
  <2>3. proc' = [proc EXCEPT ![p] = q]
    BY <1>9
  <2> HIDE DEF q
  <2> QED BY <1>3, <1>9, <2>2, <2>3
<1>10. Ad!Exit \/ Ad!Listen \/ Ad!Bind \/ (\E p \in PIDs : Ad!Leave(p)) => Machine(Access)
  <2>1. Ad!Exit => Machine(Access)
    BY <1>4 DEF Ad!Exit
  <2>2. Ad!Listen => Machine(Access)
    BY <1>6 DEF Ad!Listen
  <2>3. Ad!Bind => Machine(Access)
    BY <1>1, <1>4, <1>6 DEF Ad!Bind
  <2>4. ASSUME NEW p \in PIDs, Ad!Leave(p) PROVE Machine(Access)
    BY <1>5, <2>4 DEF Ad!Leave
  <2> QED BY <2>1, <2>2, <2>3, <2>4
<1>11. Ad!Spawn \/ Ad!Child => Machine(Access)
  <2>1. Ad!Spawn => Machine(Access)
    BY <1>7, <1>8 DEF Ad!Spawn, Ad!Free, Ad!Exists
  <2>2. Ad!Child => Machine(Access)
    BY <1>7, <1>9 DEF Ad!Child, Ad!Free, Ad!Exists
  <2> QED BY <2>1, <2>2
<1>12. Af!Exit \/ Af!Listen \/ Af!Bind \/ (\E p \in PIDs : Af!Leave(p)) => Machine({"path", "denied"})
  <2>1. Af!Exit => Machine({"path", "denied"})
    BY <1>4 DEF Af!Exit, Af!Dying, Ad!Dying, Af!Exists, Ad!Exists
  <2>2. Af!Listen => Machine({"path", "denied"})
    BY <1>6 DEF Af!Listen
  <2>3. Af!Bind => Machine({"path", "denied"})
    BY <1>1, <1>4, <1>6 DEF Af!Bind, Af!Dying, Ad!Dying, Af!Exists, Ad!Exists
  <2>4. ASSUME NEW p \in PIDs, Af!Leave(p) PROVE Machine({"path", "denied"})
    BY <1>5, <2>4 DEF Af!Leave, Af!NoProc, Ad!NoProc
  <2> QED BY <2>1, <2>2, <2>3, <2>4
<1>13. Af!Spawn \/ Af!Child => Machine({"path", "denied"})
  <2>1. Af!Spawn => Machine({"path", "denied"})
    BY <1>7, <1>8 DEF Af!Spawn, Af!Free, Af!Exists, Af!NoProc, Ad!NoProc, Accesses
  <2>2. Af!Child => Machine({"path", "denied"})
    BY <1>7, <1>9 DEF Af!Child, Af!Free, Af!Exists, Af!NoProc, Ad!NoProc, Accesses
  <2> QED BY <2>1, <2>2
<1> QED BY <1>10, <1>11, <1>12, <1>13

(* Every step of the adapter is one of those effects on the tree.          *)
LEMMA AdEffects ==
  ASSUME TreeInv, Ad!Next
  PROVE  TreeMove(KillMayFail, Access)
<1>1. (Ad!Spawn \/ Ad!Child \/ Ad!Exit \/ Ad!Listen \/ Ad!Bind \/ \E p \in PIDs : Ad!Leave(p)) =>
         TreeMove(KillMayFail, Access)
  BY MachineMoves DEF TreeMove
<1>2. Ad!Ready \/ Ad!CloseDone => TreeMove(KillMayFail, Access)
  BY DEF TreeMove, Machine, TreeInv, TreeType, Ad!Ready, Ad!CloseDone
<1>3. Ad!Boot \/ Ad!BeginLoad \/ Ad!Reconciled \/ Ad!Probe \/ Ad!Lost => TreeMove(KillMayFail, Access)
  BY DEF TreeMove, Turn, TreeInv, TreeType, Ad!Boot, Ad!BeginLoad, Ad!Reconciled, Ad!Probe, Ad!Lost
<1>4. Ad!Snapshot \/ Ad!SnapshotFails => TreeMove(KillMayFail, Access)
  BY DEF TreeMove, Looked, Ad!Snapshot, Ad!SnapshotFails, Ad!Exists, Ad!Candidate, Ad!Alive
<1>5. Ad!Terminate => TreeMove(KillMayFail, Access)
  BY DEF TreeMove, Ended, Ad!Terminate, Ad!Exists, Ad!Verified, Ad!Dying
<1>6. Ad!Create \/ Ad!Assign \/ Ad!Resume => TreeMove(KillMayFail, Access)
  BY DEF TreeMove, Started, Ad!Create, Ad!Assign, Ad!Resume, Ad!Free, Ad!Exists, Ad!NoProc, Ad!bounds
<1>7. Ad!StartFails => TreeMove(KillMayFail, Access)
  BY DEF TreeMove, Failed, Starting, Ad!StartFails, Ad!NoProc
<1>8. Ad!BeginStop \/ Ad!Shutdown => TreeMove(KillMayFail, Access)
  BY DEF TreeMove, Stops, Ad!BeginStop, Ad!Shutdown, Ad!bounds
<1>9. ASSUME NEW c \in Ad!Callers, Ad!StopLocked(c) \/ Ad!Interrupted(c) \/ Ad!RootExit(c)
      PROVE  TreeMove(KillMayFail, Access)
  <2>1. c \in Ad!Callers
    BY <1>9 DEF Ad!Callers
  <2>2. ASSUME NEW to \in InStop, stop[c] \in InStop, stop' = [stop EXCEPT ![c] = to],
               UNCHANGED <<proc, pc, goal, scan, root>>
        PROVE  TreeMove(KillMayFail, Access)
    BY <2>1, <2>2 DEF TreeMove, Stops
  <2>3. CASE Ad!StopLocked(c) /\ root # 0
    BY <2>2, <2>3 DEF Ad!StopLocked, InStop
  <2>4. CASE Ad!StopLocked(c) /\ root = 0
    <3>1. Idles(c) /\ stop[c] \in InStop /\ proc' = proc /\ goal' = goal /\ scan' = scan /\ root' = root
      BY <2>4 DEF Ad!StopLocked, Ad!Return, Idles, InStop
    <3> QED BY <2>1, <3>1 DEF TreeMove, Returned, Idles
  <2>5. CASE Ad!Interrupted(c)
    BY <2>2, <2>5 DEF Ad!Interrupted, Ad!At, InStop
  <2>6. CASE Ad!RootExit(c)
    BY <2>2, <2>6 DEF Ad!RootExit, Ad!At, InStop
  <2> QED BY <1>9, <2>3, <2>4, <2>5, <2>6
<1>10. ASSUME NEW c \in Ad!Callers, Ad!Kill(c)
       PROVE  TreeMove(KillMayFail, Access)
  BY <1>10 DEF TreeMove, Kills, Ad!Callers, Ad!Kill, Ad!At, Ad!Dying, Ad!Members, Ad!Exists, InStop
<1>11. ASSUME NEW c \in Ad!Callers, Ad!Verify(c) \/ Ad!Lingers(c) \/ Ad!StopFails(c)
       PROVE  TreeMove(KillMayFail, Access)
  <2>1. c \in Ad!Callers
    BY <1>11 DEF Ad!Callers
  <2>2. ASSUME stop[c] \in InStop, Idles(c) \/ Fails(c),
               root' = root \/ (root' = 0 /\ Ad!Members = {}), proc' = proc, goal' = goal, scan' = scan
        PROVE  TreeMove(KillMayFail, Access)
    BY <2>1, <2>2 DEF TreeMove, Returned
  <2>3. CASE Ad!Verify(c)
    BY <2>2, <2>3 DEF Ad!Return, Idles, Ad!Verify, Ad!Members, Ad!Exists, InStop
  <2>4. CASE Ad!Lingers(c)
    <3>1. Fails(c) /\ stop[c] \in InStop /\ proc' = proc /\ goal' = goal /\ scan' = scan /\ root' = root
      BY <2>4 DEF Ad!Lingers, Ad!Return, Fails, InStop
    <3> QED BY <2>2, <3>1 DEF Fails
  <2>5. CASE Ad!StopFails(c)
    <3>1. Fails(c) /\ stop[c] \in InStop /\ proc' = proc /\ goal' = goal /\ scan' = scan /\ root' = root
      BY <2>5 DEF Ad!StopFails, Ad!Return, Fails, InStop
    <3> QED BY <2>2, <3>1 DEF Fails
  <2> QED BY <1>11, <2>3, <2>4, <2>5
<1>12. Ad!Crash => TreeMove(KillMayFail, Access)
  BY DEF TreeMove, Died, Ad!Crash, Ad!Dying, Ad!Members, Ad!Exists, Ad!Callers, Ad!bounds
<1>13. Ad!Stopping \/ (\E c \in Ad!Callers : Ad!StopFails(c)) => TreeMove(KillMayFail, Access)
  BY <1>9, <1>10, <1>11 DEF Ad!Stopping
<1>14. Ad!Worker => TreeMove(KillMayFail, Access)
  BY <1>2, <1>3, <1>4, <1>5, <1>6 DEF Ad!Worker
<1> QED BY <1>1, <1>2, <1>3, <1>4, <1>7, <1>8, <1>12, <1>13, <1>14 DEF Ad!Next

(* Every step of the adapter is one of those effects on the tree, also where          *)
(* kills fail and processes deny access.                                    *)
LEMMA AfEffects ==
  ASSUME TreeInv, Af!Next
  PROVE  TreeMove(TRUE, {"path", "denied"})
<1>1. (Af!Spawn \/ Af!Child \/ Af!Exit \/ Af!Listen \/ Af!Bind \/ \E p \in PIDs : Af!Leave(p)) =>
         TreeMove(TRUE, {"path", "denied"})
  BY MachineMoves DEF TreeMove
<1>2. Af!Ready \/ Af!CloseDone => TreeMove(TRUE, {"path", "denied"})
  BY DEF TreeMove, Machine, TreeInv, TreeType, Af!Ready, Af!CloseDone
<1>3. Af!Boot \/ Af!BeginLoad \/ Af!Reconciled \/ Af!Probe \/ Af!Lost => TreeMove(TRUE, {"path", "denied"})
  BY DEF TreeMove, Turn, TreeInv, TreeType, Af!Boot, Af!BeginLoad, Af!Reconciled, Af!Probe, Af!Lost
<1>4. Af!Snapshot \/ Af!SnapshotFails => TreeMove(TRUE, {"path", "denied"})
  BY DEF TreeMove, Looked, Af!Snapshot, Af!SnapshotFails, Af!Exists, Af!Candidate, Af!Alive, Ad!Exists,
           Ad!Candidate, Ad!Alive
<1>5. Af!Terminate => TreeMove(TRUE, {"path", "denied"})
  BY DEF TreeMove, Ended, Af!Terminate, Af!Exists, Af!Verified, Af!Dying, Ad!Exists, Ad!Verified, Ad!Dying
<1>6. Af!Create \/ Af!Assign \/ Af!Resume => TreeMove(TRUE, {"path", "denied"})
  BY DEF TreeMove, Started, Af!Create, Af!Assign, Af!Resume, Af!Free, Af!Exists, Af!NoProc, Af!bounds,
           Ad!Create, Ad!Assign, Ad!Resume, Ad!Free, Ad!Exists, Ad!NoProc, Ad!bounds
<1>7. Af!StartFails => TreeMove(TRUE, {"path", "denied"})
  BY DEF TreeMove, Failed, Starting, Af!StartFails, Af!NoProc, Ad!NoProc
<1>8. Af!BeginStop \/ Af!Shutdown => TreeMove(TRUE, {"path", "denied"})
  BY DEF TreeMove, Stops, Af!BeginStop, Af!Shutdown, Af!bounds, Ad!BeginStop, Ad!Shutdown, Ad!bounds
<1>9. ASSUME NEW c \in Af!Callers, Af!StopLocked(c) \/ Af!Interrupted(c) \/ Af!RootExit(c)
      PROVE  TreeMove(TRUE, {"path", "denied"})
  <2>1. c \in Ad!Callers
    BY <1>9 DEF Af!Callers, Ad!Callers
  <2>2. ASSUME NEW to \in InStop, stop[c] \in InStop, stop' = [stop EXCEPT ![c] = to],
               UNCHANGED <<proc, pc, goal, scan, root>>
        PROVE  TreeMove(TRUE, {"path", "denied"})
    BY <2>1, <2>2 DEF TreeMove, Stops
  <2>3. CASE Af!StopLocked(c) /\ root # 0
    BY <2>2, <2>3 DEF Af!StopLocked, InStop
  <2>4. CASE Af!StopLocked(c) /\ root = 0
    <3>1. Idles(c) /\ stop[c] \in InStop /\ proc' = proc /\ goal' = goal /\ scan' = scan /\ root' = root
      BY <2>4 DEF Af!StopLocked, Af!Return, Idles, InStop
    <3> QED BY <2>1, <3>1 DEF TreeMove, Returned, Idles
  <2>5. CASE Af!Interrupted(c)
    BY <2>2, <2>5 DEF Af!Interrupted, Af!At, Ad!Interrupted, Ad!At, InStop
  <2>6. CASE Af!RootExit(c)
    BY <2>2, <2>6 DEF Af!RootExit, Af!At, Ad!RootExit, Ad!At, InStop
  <2> QED BY <1>9, <2>3, <2>4, <2>5, <2>6
<1>10. ASSUME NEW c \in Af!Callers, Af!Kill(c)
       PROVE  TreeMove(TRUE, {"path", "denied"})
  BY <1>10 DEF TreeMove, Kills, Af!Callers, Af!Kill, Af!At, Af!Dying, Af!Members, Af!Exists,
           Ad!Callers, Ad!Kill, Ad!At, Ad!Dying, Ad!Members, Ad!Exists, InStop
<1>11. ASSUME NEW c \in Af!Callers, Af!Verify(c) \/ Af!Lingers(c) \/ Af!StopFails(c)
       PROVE  TreeMove(TRUE, {"path", "denied"})
  <2>1. c \in Ad!Callers
    BY <1>11 DEF Af!Callers, Ad!Callers
  <2>2. ASSUME stop[c] \in InStop, Idles(c) \/ Fails(c),
               root' = root \/ (root' = 0 /\ Ad!Members = {}), proc' = proc, goal' = goal, scan' = scan
        PROVE  TreeMove(TRUE, {"path", "denied"})
    BY <2>1, <2>2 DEF TreeMove, Returned
  <2>3. CASE Af!Verify(c)
    BY <2>2, <2>3 DEF Af!Return, Idles, Af!Verify, Af!Members, Af!Exists, Ad!Members, Ad!Exists, InStop
  <2>4. CASE Af!Lingers(c)
    <3>1. Fails(c) /\ stop[c] \in InStop /\ proc' = proc /\ goal' = goal /\ scan' = scan /\ root' = root
      BY <2>4 DEF Af!Lingers, Af!Return, Fails, InStop
    <3> QED BY <2>2, <3>1 DEF Fails
  <2>5. CASE Af!StopFails(c)
    <3>1. Fails(c) /\ stop[c] \in InStop /\ proc' = proc /\ goal' = goal /\ scan' = scan /\ root' = root
      BY <2>5 DEF Af!StopFails, Af!Return, Fails, InStop
    <3> QED BY <2>2, <3>1 DEF Fails
  <2> QED BY <1>11, <2>3, <2>4, <2>5
<1>12. Af!Crash => TreeMove(TRUE, {"path", "denied"})
  BY DEF TreeMove, Died, Af!Crash, Af!Dying, Af!Members, Af!Exists, Af!Callers, Af!bounds, Ad!Crash,
           Ad!Dying, Ad!Members, Ad!Exists, Ad!Callers, Ad!bounds
<1>13. Af!Stopping \/ (\E c \in Af!Callers : Af!StopFails(c)) => TreeMove(TRUE, {"path", "denied"})
  BY <1>9, <1>10, <1>11 DEF Af!Stopping
<1>14. Af!Worker => TreeMove(TRUE, {"path", "denied"})
  BY <1>2, <1>3, <1>4, <1>5, <1>6 DEF Af!Worker
<1> QED BY <1>1, <1>2, <1>3, <1>4, <1>7, <1>8, <1>12, <1>13, <1>14 DEF Af!Next

(* The worker starts owning no tree.                                        *)
LEMMA TreeStarts == Ad!Init \/ Af!Init => TreeInv
<1> SUFFICES ASSUME Ad!Init \/ Af!Init PROVE TreeInv
  OBVIOUS
<1>1. proc = [p \in PIDs |-> Ad!NoProc] /\ pc = "down" /\ goal = "idle" /\ scan = {} /\ root = 0
  BY DEF Ad!Init, Af!Init, Ad!NoProc, Af!NoProc
<1>2. stop = [c \in Ad!Callers |-> "idle"]
  BY DEF Ad!Init, Af!Init, Ad!Callers, Af!Callers
<1>3. Ad!NoProc \in Procs
  BY DEF Procs, Accesses, Ad!NoProc
<1>4. TreeType
  BY <1>1, <1>2, <1>3 DEF TreeType
<1>5. JobHoldsTree
  BY <1>1 DEF JobHoldsTree, Ad!NoProc
<1>6. HeldUntilGone /\ StopsInTheirPlace
  BY <1>1, <1>2 DEF HeldUntilGone, StopsInTheirPlace, Starting, Ad!Callers
<1> QED BY <1>4, <1>5, <1>6 DEF TreeInv

(* Terminating a set of processes changes only whether they run.            *)
LEMMA TheDying ==
  ASSUME proc \in [PIDs -> Procs], NEW S, proc' = Ad!Dying(S)
  PROVE  /\ proc' \in [PIDs -> Procs]
         /\ \A p \in PIDs :
              /\ proc'[p].job = proc[p].job /\ proc'[p].tree = proc[p].tree /\ proc'[p].image = proc[p].image
              /\ proc'[p].access = proc[p].access /\ proc'[p].seen = proc[p].seen
              /\ proc'[p].st = IF p \in S /\ proc[p].st # "none" THEN "dying" ELSE proc[p].st
<1>1. \A p \in PIDs : proc'[p] = IF p \in S /\ proc[p].st # "none"
         THEN [proc[p] EXCEPT !.st = "dying"] ELSE proc[p]
  BY DEF Ad!Dying, Ad!Exists
<1>2. \A p \in PIDs : [proc[p] EXCEPT !.st = "dying"] \in Procs
  BY DEF Procs
<1>3. proc' = [p \in PIDs |-> proc'[p]]
  BY DEF Ad!Dying
<1>4. \A p \in PIDs : proc'[p] \in Procs
  BY <1>1, <1>2
<1>5. \A p \in PIDs :
              /\ proc'[p].job = proc[p].job /\ proc'[p].tree = proc[p].tree /\ proc'[p].image = proc[p].image
              /\ proc'[p].access = proc[p].access /\ proc'[p].seen = proc[p].seen
              /\ proc'[p].st = IF p \in S /\ proc[p].st # "none" THEN "dying" ELSE proc[p].st
  BY <1>1 DEF Procs
<1> QED BY <1>3, <1>4, <1>5

(* What moves on the machine stays inside the job it was born into.         *)
LEMMA MachineKeepsTrees ==
  ASSUME TreeInv, NEW acc, Machine(acc)
  PROVE  TreeInv'
<1>1. TreeType'
  BY DEF TreeInv, TreeType, Machine
<1>2. \A p \in PIDs : proc'[p].job => proc[p].job \/ (\E q \in PIDs : proc[q].st = "running" /\ proc[q].job)
  <2> SUFFICES ASSUME NEW p \in PIDs, proc'[p].job
               PROVE  proc[p].job \/ (\E q \in PIDs : proc[q].st = "running" /\ proc[q].job)
    OBVIOUS
  <2>1. CASE Born(p, acc)
    BY <2>1 DEF Born
  <2>2. CASE Leaves(p)
    BY <2>2 DEF Leaves, Ad!NoProc
  <2>3. CASE Dies(p)
    BY <2>3 DEF Dies, TreeInv, TreeType, Procs
  <2> QED BY <2>1, <2>2, <2>3 DEF Machine
<1>3. JobHoldsTree'
  <2> SUFFICES ASSUME NEW p \in PIDs
               PROVE  /\ proc'[p].job => proc'[p].st # "none" /\ root' # 0
                      /\ proc'[p].tree # "no" /\ proc'[p].st = "running" => proc'[p].job
    BY DEF JobHoldsTree
  <2>1. proc'[p].job => root' # 0
    BY <1>2 DEF TreeInv, JobHoldsTree, Machine
  <2>2. CASE Born(p, acc)
    BY <2>1, <2>2 DEF Born, TreeInv, JobHoldsTree
  <2>3. CASE Leaves(p)
    BY <2>3 DEF Leaves, Ad!NoProc
  <2>4. CASE Dies(p)
    BY <2>1, <2>4 DEF Dies, TreeInv, TreeType, Procs
  <2>5. CASE proc'[p] = proc[p]
    BY <2>1, <2>5 DEF TreeInv, JobHoldsTree
  <2> QED BY <2>2, <2>3, <2>4, <2>5 DEF Machine
<1>4. HeldUntilGone'
  <2>1. root' # 0 => pc' \in Owning
    BY DEF Machine, TreeInv, HeldUntilGone
  <2>2. ASSUME pc' \in Starting
        PROVE  root' # 0 /\ proc'[root].st = "suspended" /\ root \in PIDs
    <3>1. root # 0 /\ root \in PIDs /\ proc[root].st = "suspended"
      BY <2>2 DEF Machine, TreeInv, TreeType, HeldUntilGone
    <3>2. proc'[root] = proc[root]
      BY <3>1 DEF Machine, Born, Leaves
    <3> QED BY <3>1, <3>2 DEF Machine
  <2>3. ASSUME pc' \in Starting, NEW p \in PIDs, proc'[p].job
        PROVE  p = root' /\ pc' = "resume"
    <3>1. \A q \in PIDs : proc[q].job => q = root /\ pc = "resume"
      BY <2>3 DEF Machine, TreeInv, HeldUntilGone
    <3>2. ~ \E q \in PIDs : proc[q].st = "running" /\ proc[q].job
      BY <3>1, <2>3 DEF Machine, TreeInv, HeldUntilGone
    <3> QED BY <3>1, <3>2, <1>2, <2>3 DEF Machine
  <2>4. root' = root
    BY DEF Machine
  <2> QED BY <2>1, <2>2, <2>3, <2>4 DEF HeldUntilGone
<1>5. StopsInTheirPlace'
  BY DEF TreeInv, StopsInTheirPlace, Machine
<1> QED BY <1>1, <1>3, <1>4, <1>5 DEF TreeInv

(* The loop's turns and its look at the machine move nothing of a tree.     *)
LEMMA TurnKeepsTrees ==
  ASSUME TreeInv, Turn
  PROVE  TreeInv'
<1>1. TreeType'
  BY DEF TreeInv, TreeType, Turn, Owning, Starting
<1>2. JobHoldsTree'
  BY DEF TreeInv, JobHoldsTree, Turn
<1>3. HeldUntilGone'
  BY DEF TreeInv, TreeType, HeldUntilGone, Turn, Owning, Starting
<1>4. StopsInTheirPlace'
  BY DEF TreeInv, TreeType, StopsInTheirPlace, Turn
<1> QED BY <1>1, <1>2, <1>3, <1>4 DEF TreeInv

(* So does its look for leftovers.                                          *)
LEMMA LookKeepsTrees ==
  ASSUME TreeInv, NEW fails, Looked(fails)
  PROVE  TreeInv'
<1>1. proc' \in [PIDs -> Procs]
  <2>1. \A p \in PIDs : [proc[p] EXCEPT !.seen = Ad!Exists(p)] \in Procs
    BY DEF TreeInv, TreeType, Procs, Ad!Exists
  <2> QED BY <2>1 DEF Looked
<1>2. \A p \in PIDs : proc'[p].job = proc[p].job /\ proc'[p].st = proc[p].st /\ proc'[p].tree = proc[p].tree
  BY DEF TreeInv, TreeType, Looked, Procs
<1>3. scan' \subseteq [pid : PIDs, byName : BOOLEAN]
  <2>1. CASE scan' = {[pid |-> p, byName |-> proc[p].access # "path"] : p \in {q \in PIDs : Ad!Candidate(q)}}
    <3> SUFFICES ASSUME NEW o \in scan' PROVE o \in [pid : PIDs, byName : BOOLEAN]
      OBVIOUS
    <3>1. PICK p \in PIDs : o = [pid |-> p, byName |-> proc[p].access # "path"]
      BY <2>1
    <3>2. (proc[p].access # "path") \in BOOLEAN
      OBVIOUS
    <3> QED BY <3>1, <3>2
  <2> QED BY <2>1 DEF TreeInv, TreeType, Looked
<1>4. TreeType'
  BY <1>1, <1>3 DEF TreeInv, TreeType, Looked
<1>5. JobHoldsTree'
  BY <1>2 DEF TreeInv, JobHoldsTree, Looked
<1>6. root = 0 /\ root' = 0 /\ pc' \notin Starting
  BY DEF TreeInv, TreeType, HeldUntilGone, Looked, Owning, Starting
<1>7. HeldUntilGone'
  BY <1>6 DEF HeldUntilGone
<1>8. StopsInTheirPlace'
  BY DEF TreeInv, TreeType, StopsInTheirPlace, Looked
<1> QED BY <1>4, <1>5, <1>7, <1>8 DEF TreeInv

(* An end of a leftover, and the kill of a stop, take nothing out of a job. *)
LEMMA KillKeepsTrees ==
  ASSUME TreeInv, NEW S, proc' = Ad!Dying(S), UNCHANGED <<pc, goal, root>>, pc \notin Starting,
         scan' \subseteq scan,
         \/ stop' = stop
         \/ \E c \in Ad!Callers : stop[c] \in InStop /\ stop' = [stop EXCEPT ![c] = "root"]
  PROVE  TreeInv'
<1>1. TreeType' /\ JobHoldsTree'
  BY TheDying DEF TreeInv, TreeType, JobHoldsTree, InStop
<1>2. HeldUntilGone'
  BY DEF TreeInv, HeldUntilGone
<1>3. StopsInTheirPlace'
  BY DEF TreeInv, TreeType, StopsInTheirPlace, InStop, Ad!Callers
<1> QED BY <1>1, <1>2, <1>3 DEF TreeInv

(* The new root is suspended until it is in its job.                        *)
LEMMA StartKeepsTrees ==
  ASSUME TreeInv, Started
  PROVE  TreeInv'
<1>1. PIDs \subseteq Nat \ {0}
  BY ConstantsAssumption DEF Ad!AdapterAssumption
<1>2. CASE Ad!Create
  <2> DEFINE R == [Ad!NoProc EXCEPT !.st = "suspended", !.image = "runtime", !.tree = "root"]
  <2>1. R \in Procs /\ R.st = "suspended" /\ ~R.job
    BY DEF Procs, Accesses, Ad!NoProc
  <2>2. pc = "create" /\ pc' = "assign" /\ UNCHANGED <<goal, scan, stop>>
    BY <1>2 DEF Started, Ad!Create
  <2>3. PICK p \in PIDs : root' = p /\ proc' = [proc EXCEPT ![p] = R]
    BY <1>2 DEF Ad!Create, Ad!Free
  <2> HIDE DEF R
  <2>4. TreeType' /\ root' # 0 /\ proc'[p] = R /\ \A q \in PIDs : q # p => proc'[q] = proc[q]
    BY <1>1, <2>1, <2>2, <2>3 DEF TreeInv, TreeType, Owning, Starting
  <2>5. \A q \in PIDs : ~proc[q].job
    BY <2>2 DEF TreeInv, JobHoldsTree, HeldUntilGone, Owning, Starting
  <2>6. JobHoldsTree'
    <3>1. \A q \in PIDs : proc'[q].job => q # p /\ proc[q].job
      BY <2>1, <2>4
    <3>2. \A q \in PIDs : proc'[q].tree # "no" /\ proc'[q].st = "running" => proc'[q].job
      BY <2>1, <2>4 DEF TreeInv, JobHoldsTree
    <3> QED BY <2>5, <3>1, <3>2 DEF JobHoldsTree
  <2>7. HeldUntilGone'
    BY <2>1, <2>2, <2>3, <2>4, <2>5 DEF HeldUntilGone, Owning, Starting
  <2>8. StopsInTheirPlace'
    BY <2>2 DEF TreeInv, StopsInTheirPlace
  <2> QED BY <2>4, <2>6, <2>7, <2>8 DEF TreeInv
<1>3. CASE Ad!Assign \/ Ad!Resume
  <2>1. pc \in Starting /\ root \in PIDs /\ root' = root /\ UNCHANGED <<goal, scan, stop>>
    BY <1>3 DEF Started, TreeInv, TreeType, HeldUntilGone, Starting, Ad!Assign, Ad!Resume
  <2>2. /\ proc' \in [PIDs -> Procs] /\ \A q \in PIDs : q # root => proc'[q] = proc[q]
        /\ proc'[root].job /\ proc'[root].st \in {proc[root].st, "running"}
        /\ Ad!Assign => proc'[root].st = proc[root].st
    <3>1. proc \in [PIDs -> Procs] /\ proc[root] \in Procs
      BY <2>1 DEF TreeInv, TreeType
    <3>2. CASE Ad!Assign
      <4>1. proc' = [proc EXCEPT ![root] = [proc[root] EXCEPT !.job = TRUE]]
        BY <3>2 DEF Ad!Assign
      <4>2. [proc[root] EXCEPT !.job = TRUE] \in Procs
        BY <3>1 DEF Procs
      <4>3. [proc[root] EXCEPT !.job = TRUE].job /\ [proc[root] EXCEPT !.job = TRUE].st = proc[root].st
        BY <3>1 DEF Procs
      <4> QED BY <2>1, <3>1, <4>1, <4>2, <4>3
    <3>3. CASE Ad!Resume
      <4> DEFINE R == [proc[root] EXCEPT !.st = "running", !.job = TRUE]
      <4>1. proc' = [proc EXCEPT ![root] = R]
        BY <2>1, <3>1, <3>3 DEF Ad!Resume
      <4>2. R \in Procs /\ R.job /\ R.st = "running"
        BY <3>1 DEF Procs
      <4>3. ~Ad!Assign
        BY <3>3 DEF Ad!Assign, Ad!Resume
      <4> QED BY <2>1, <3>1, <4>1, <4>2, <4>3
    <3> QED BY <1>3, <3>2, <3>3
  <2>3. pc' \in {"resume", "inst"} /\ (pc' = "resume" => Ad!Assign)
    BY <1>3 DEF Ad!Assign, Ad!Resume
  <2>4. proc[root].st = "suspended" /\ root # 0 /\ \A q \in PIDs : q # root => ~proc[q].job
    BY <1>1, <2>1 DEF TreeInv, HeldUntilGone
  <2>5. TreeType'
    BY <2>1, <2>2, <2>3 DEF TreeInv, TreeType, Owning, Starting
  <2>6. JobHoldsTree'
    BY <2>1, <2>2, <2>4 DEF TreeInv, JobHoldsTree
  <2>7. HeldUntilGone'
    BY <2>1, <2>2, <2>3, <2>4 DEF HeldUntilGone, Owning, Starting
  <2>8. StopsInTheirPlace'
    BY <2>1, <2>3 DEF TreeInv, StopsInTheirPlace, Starting
  <2> QED BY <2>5, <2>6, <2>7, <2>8 DEF TreeInv
<1> QED BY <1>2, <1>3 DEF Started

(* A start that fails leaves nothing of the tree, and nothing in the job.   *)
LEMMA FailKeepsTrees ==
  ASSUME TreeInv, Failed
  PROVE  TreeInv' /\ \A p \in PIDs : ~proc'[p].job
<1>1. Ad!NoProc \in Procs /\ ~Ad!NoProc.job /\ Ad!NoProc.st = "none"
  BY DEF Procs, Accesses, Ad!NoProc
<1>2. root \in PIDs /\ \A p \in PIDs : p # root => ~proc[p].job
  BY DEF Failed, TreeInv, TreeType, HeldUntilGone
<1>3. proc' \in [PIDs -> Procs] /\ proc'[root] = Ad!NoProc /\ \A p \in PIDs : p # root => proc'[p] = proc[p]
  BY <1>1, <1>2 DEF Failed, TreeInv, TreeType
<1>4. \A p \in PIDs : ~proc'[p].job
  BY <1>1, <1>2, <1>3
<1>5. TreeType'
  BY <1>3 DEF Failed, TreeInv, TreeType
<1>6. JobHoldsTree'
  BY <1>1, <1>3, <1>4 DEF TreeInv, JobHoldsTree
<1>7. HeldUntilGone'
  BY DEF Failed, HeldUntilGone, Starting
<1>8. StopsInTheirPlace'
  BY DEF Failed, TreeInv, StopsInTheirPlace, Starting
<1> QED BY <1>4, <1>5, <1>6, <1>7, <1>8 DEF TreeInv

(* A stop that begins or goes on keeps the instance held.                   *)
LEMMA StopKeepsTrees ==
  ASSUME TreeInv, Stops
  PROVE  TreeInv'
<1>1. pc \in {"inst", "zombie", "stopping"} \/ pc' = pc
  BY DEF Stops, Ad!BeginStop, Ad!Shutdown
<1>2. JobHoldsTree'
  BY DEF TreeInv, JobHoldsTree, Stops
<1>3. CASE Ad!BeginStop \/ Ad!Shutdown
  <2>1. TreeType'
    BY <1>3 DEF TreeInv, TreeType, Stops, Ad!BeginStop, Ad!Shutdown, Owning, InStop, Ad!Callers
  <2>2. HeldUntilGone'
    BY <1>3 DEF TreeInv, HeldUntilGone, Stops, Ad!BeginStop, Ad!Shutdown, Owning, Starting
  <2>3. StopsInTheirPlace'
    BY <1>3 DEF TreeInv, TreeType, StopsInTheirPlace, Stops, Ad!BeginStop, Ad!Shutdown, Ad!Callers
  <2> QED BY <1>2, <2>1, <2>2, <2>3 DEF TreeInv
<1>4. CASE UNCHANGED pc /\ \E c \in Ad!Callers, to \in InStop :
         stop[c] \in InStop /\ stop' = [stop EXCEPT ![c] = to]
  <2>1. TreeType'
    BY <1>4 DEF TreeInv, TreeType, Stops
  <2>2. HeldUntilGone'
    BY <1>4 DEF TreeInv, HeldUntilGone, Stops
  <2>3. StopsInTheirPlace'
    BY <1>4 DEF TreeInv, TreeType, StopsInTheirPlace, InStop, Ad!Callers
  <2> QED BY <1>2, <2>1, <2>2, <2>3 DEF TreeInv
<1> QED BY <1>3, <1>4 DEF Stops

(* A stop that returns lets the instance go only if the job has no member.  *)
LEMMA ReturnKeepsTrees ==
  ASSUME TreeInv, Returned
  PROVE  TreeInv' /\ (root # 0 /\ root' = 0 => \A p \in PIDs : ~proc'[p].job)
<1>1. root' # root => \A p \in PIDs : ~proc[p].job
  BY DEF Returned, Ad!Members, Ad!Exists, TreeInv, JobHoldsTree
<1>2. PICK c \in Ad!Callers : stop[c] \in InStop /\ (Idles(c) \/ Fails(c))
  BY DEF Returned
<1>3. stop' = [stop EXCEPT ![c] = IF c = "loop" THEN "idle" ELSE "end"]
  BY <1>2 DEF Idles, Fails
<1>4. c = "shutdown" => pc' = pc
  BY <1>2 DEF Idles, Fails
<1>5. c = "loop" => pc = "stopping" /\ pc' \in {"idle", "zombie"} /\ (pc' = "idle" => root' = 0)
  BY <1>2 DEF Idles, Fails, TreeInv, StopsInTheirPlace, InStop
<1>6. c = "shutdown" => pc \in {"stopping", "zombie", "idle"}
  BY <1>2 DEF TreeInv, StopsInTheirPlace, InStop
<1>7. c \in {"loop", "shutdown"}
  BY DEF Ad!Callers
<1>8. pc' \in {"stopping", "zombie", "idle"} /\ root' \in {root, 0}
  BY <1>4, <1>5, <1>6, <1>7 DEF Returned
<1>9. TreeType'
  BY <1>3, <1>8 DEF TreeInv, TreeType, Returned, Owning, Ad!Callers
<1>10. JobHoldsTree'
  BY <1>1 DEF TreeInv, JobHoldsTree, Returned
<1>11. HeldUntilGone'
  BY <1>4, <1>5, <1>7, <1>8 DEF TreeInv, HeldUntilGone, Owning, Starting
<1>12. StopsInTheirPlace'
  <2>1. CASE c = "loop"
    BY <1>3, <1>5, <2>1 DEF TreeInv, TreeType, StopsInTheirPlace, Ad!Callers
  <2>2. CASE c = "shutdown"
    BY <1>3, <1>4, <1>6, <2>2 DEF TreeInv, TreeType, StopsInTheirPlace, Ad!Callers
  <2> QED BY <1>7, <2>1, <2>2
<1>13. root # 0 /\ root' = 0 => \A p \in PIDs : ~proc'[p].job
  BY <1>1 DEF Returned
<1> QED BY <1>9, <1>10, <1>11, <1>12, <1>13 DEF TreeInv

(* With the worker its jobs go, and with them what runs in them.            *)
LEMMA DeathKeepsTrees ==
  ASSUME TreeInv, Died
  PROVE  TreeInv'
<1> DEFINE D == Ad!Dying(Ad!Members)
<1>1. proc' = [p \in PIDs |-> [D[p] EXCEPT !.job = FALSE]]
  BY DEF Died, Ad!Crash
<1>2. \A p \in PIDs : D[p] = IF p \in Ad!Members /\ proc[p].st # "none"
         THEN [proc[p] EXCEPT !.st = "dying"] ELSE proc[p]
  BY DEF Ad!Dying, Ad!Exists
<1> HIDE DEF D
<1>3. \A p \in PIDs : D[p] \in Procs
  <2>1. \A p \in PIDs : [proc[p] EXCEPT !.st = "dying"] \in Procs /\ proc[p] \in Procs
    BY DEF TreeInv, TreeType, Procs
  <2> QED BY <1>2, <2>1
<1>4. proc' \in [PIDs -> Procs]
  <2>1. \A p \in PIDs : [D[p] EXCEPT !.job = FALSE] \in Procs
    BY <1>3 DEF Procs
  <2> QED BY <1>1, <2>1
<1>5. \A p \in PIDs : ~proc'[p].job /\ proc'[p].st = D[p].st /\ proc'[p].tree = D[p].tree
  BY <1>1, <1>3 DEF Procs
<1>6. \A p \in PIDs : D[p].tree # "no" => D[p].st # "running"
  <2> SUFFICES ASSUME NEW p \in PIDs, D[p].tree # "no", D[p].st = "running" PROVE FALSE
    OBVIOUS
  <2>1. D[p] = proc[p] /\ ~(p \in Ad!Members /\ proc[p].st # "none")
    BY <1>2 DEF TreeInv, TreeType, Procs
  <2>2. proc[p].job
    BY <2>1 DEF TreeInv, JobHoldsTree
  <2> QED BY <2>1, <2>2 DEF Ad!Members, Ad!Exists
<1>7. JobHoldsTree'
  BY <1>5, <1>6 DEF JobHoldsTree
<1>8. TreeType'
  BY <1>4 DEF TreeInv, TreeType, Died, Ad!Crash
<1>9. HeldUntilGone' /\ StopsInTheirPlace'
  BY DEF HeldUntilGone, StopsInTheirPlace, Died, Ad!Crash, Starting, Ad!Callers
<1> QED BY <1>7, <1>8, <1>9 DEF TreeInv

(* So every step keeps the invariant, and one that lets an instance go      *)
(* while the worker lives leaves nothing in the job.                        *)
LEMMA TreesKept ==
  ASSUME TreeInv, NEW fails, NEW acc, TreeMove(fails, acc)
  PROVE  TreeInv' /\ Ad!ReleasedIsEmpty
<1>1. CASE Machine(acc) \/ Turn \/ Looked(fails) \/ Started \/ Stops
  <2>1. TreeInv'
    BY <1>1, MachineKeepsTrees, TurnKeepsTrees, LookKeepsTrees, StartKeepsTrees, StopKeepsTrees
  <2>2. root' = root \/ root = 0
    <3>1. Ad!Create => root = 0
      BY DEF TreeInv, HeldUntilGone, Ad!Create, Owning, Starting
    <3> QED BY <1>1, <3>1 DEF Machine, Turn, Looked, Started, Stops, Ad!Assign, Ad!Resume
  <2> QED BY <2>1, <2>2 DEF Ad!ReleasedIsEmpty
<1>2. CASE Ended(fails) \/ Kills
  <2>1. UNCHANGED <<pc, goal, root>> /\ scan' \subseteq scan /\ pc \notin Starting
    BY <1>2 DEF Ended, Kills, TreeInv, StopsInTheirPlace, Starting, InStop, Ad!Callers
  <2>2. CASE \E S : proc' = Ad!Dying(S)
    BY <1>2, <2>1, <2>2, KillKeepsTrees DEF Ended, Kills, Ad!ReleasedIsEmpty, InStop
  <2>3. CASE UNCHANGED proc /\ Ended(fails)
    <3>1. TreeType'
      BY <2>1, <2>3 DEF TreeInv, TreeType, Ended
    <3>2. JobHoldsTree' /\ HeldUntilGone' /\ StopsInTheirPlace'
      BY <2>1, <2>3 DEF TreeInv, JobHoldsTree, HeldUntilGone, StopsInTheirPlace, Ended
    <3> QED BY <2>1, <3>1, <3>2 DEF TreeInv, Ad!ReleasedIsEmpty
  <2> QED BY <1>2, <2>2, <2>3 DEF Ended, Kills
<1>3. CASE Failed
  BY <1>3, FailKeepsTrees DEF Ad!ReleasedIsEmpty
<1>4. CASE Returned
  BY <1>4, ReturnKeepsTrees DEF Ad!ReleasedIsEmpty
<1>5. CASE Died
  BY <1>5, DeathKeepsTrees DEF Died, Ad!Crash, Ad!ReleasedIsEmpty
<1> QED BY <1>1, <1>2, <1>3, <1>4, <1>5 DEF TreeMove

(* Nothing the worker does, and nobody but who starts a process, decides    *)
(* what of it can be read.                                                  *)
LEMMA AccessIsGiven ==
  ASSUME TreeInv, NEW fails, NEW acc, TreeMove(fails, acc), NEW p \in PIDs
  PROVE  proc'[p].access \in acc \cup {"path", proc[p].access}
<1>1. proc \in [PIDs -> Procs] /\ proc[p] \in Procs /\ Ad!NoProc.access = "path"
  BY DEF TreeInv, TreeType, Ad!NoProc
<1>2. CASE Machine(acc)
  <2>1. Dies(p) => proc'[p].access = proc[p].access
    BY <1>1 DEF Dies, Procs
  <2> QED BY <1>1, <1>2, <2>1 DEF Machine, Born, Leaves
<1>3. CASE Turn \/ Stops \/ Returned
  BY <1>3 DEF Turn, Stops, Returned
<1>4. CASE Looked(fails)
  BY <1>1, <1>4 DEF Looked, Procs
<1>5. ASSUME NEW S, proc' = Ad!Dying(S) PROVE proc'[p].access = proc[p].access
  BY <1>1, <1>5, TheDying
<1>6. CASE Ended(fails) \/ Kills
  BY <1>5, <1>6 DEF Ended, Kills
<1>7. CASE Started
  <2>1. CASE Ad!Create
    BY <1>1, <2>1 DEF Ad!Create, Ad!NoProc
  <2>2. CASE Ad!Assign
    BY <1>1, <2>2 DEF Ad!Assign, Procs
  <2>3. CASE Ad!Resume
    <3>1. root \in PIDs /\ proc[root] \in Procs
      BY <1>1, <2>3 DEF Ad!Resume, TreeInv, TreeType, HeldUntilGone, Starting
    <3>2. proc' = [proc EXCEPT ![root] = [proc[root] EXCEPT !.st = "running", !.job = TRUE]]
      BY <1>1, <2>3, <3>1 DEF Ad!Resume
    <3>3. [proc[root] EXCEPT !.st = "running", !.job = TRUE].access = proc[root].access
      BY <3>1 DEF Procs
    <3> QED BY <1>1, <3>1, <3>2, <3>3
  <2> QED BY <1>7, <2>1, <2>2, <2>3 DEF Started
<1>8. CASE Failed
  BY <1>1, <1>8 DEF Failed
<1>9. CASE Died
  <2> DEFINE D == Ad!Dying(Ad!Members)
  <2>1. proc' = [q \in PIDs |-> [D[q] EXCEPT !.job = FALSE]]
    BY <1>9 DEF Died, Ad!Crash
  <2>2. D[p] \in {proc[p], [proc[p] EXCEPT !.st = "dying"]}
    BY DEF Ad!Dying
  <2> HIDE DEF D
  <2>3. [proc[p] EXCEPT !.st = "dying"] \in Procs /\ [proc[p] EXCEPT !.st = "dying"].access = proc[p].access
    BY <1>1 DEF Procs
  <2>4. D[p] \in Procs /\ D[p].access = proc[p].access
    BY <1>1, <2>2, <2>3
  <2>5. [D[p] EXCEPT !.job = FALSE].access = D[p].access
    BY <2>4 DEF Procs
  <2> QED BY <2>1, <2>4, <2>5
<1> QED BY <1>2, <1>3, <1>4, <1>6, <1>7, <1>8, <1>9 DEF TreeMove

(* Where no process can be named and not read, a kill is of the image that  *)
(* was looked for, whoever has the id by then, and never of a tree's member.*)
LEMMA OrphansOnly ==
  ASSUME TreeInv, NamedByPath, NEW fails, NEW acc, "handle" \notin acc, TreeMove(fails, acc)
  PROVE  NamedByPath' /\ Ad!KillsOnlyOrphans
<1>1. \A p \in PIDs : proc'[p].access # "handle"
  BY AccessIsGiven DEF NamedByPath
<1>2. CASE UNCHANGED scan
  BY <1>1, <1>2 DEF NamedByPath, Ad!KillsOnlyOrphans
<1>3. CASE Looked(fails)
  <2>1. \A p \in PIDs : Ad!Candidate(p) => proc[p].access = "path"
    BY DEF Ad!Candidate, NamedByPath
  <2>2. \A o \in scan' : ~o.byName
    <3>1. CASE scan' = {[pid |-> p, byName |-> proc[p].access # "path"] : p \in {q \in PIDs : Ad!Candidate(q)}}
      <4> SUFFICES ASSUME NEW o \in scan' PROVE ~o.byName
        OBVIOUS
      <4>1. PICK p \in PIDs : Ad!Candidate(p) /\ o = [pid |-> p, byName |-> proc[p].access # "path"]
        BY <3>1
      <4>2. (proc[p].access # "path") <=> FALSE
        BY <2>1, <4>1
      <4>3. o.byName <=> (proc[p].access # "path")
        BY <4>1
      <4> QED BY <4>2, <4>3
    <3> QED BY <1>3, <3>1 DEF Looked, NamedByPath
  <2> QED BY <1>1, <1>3, <2>2 DEF NamedByPath, Looked, Ad!KillsOnlyOrphans
<1>4. CASE Ended(fails)
  <2>1. PICK o \in scan : /\ scan' = scan \ {o}
                          /\ \/ Ad!Exists(o.pid) /\ Ad!Verified(o) /\ proc' = Ad!Dying({o.pid})
                             \/ UNCHANGED proc
    BY <1>4 DEF Ended
  <2>2. o.pid \in PIDs /\ ~o.byName /\ NamedByPath'
    BY <1>1, <2>1 DEF TreeInv, TreeType, NamedByPath
  <2>3. CASE UNCHANGED proc
    BY <2>2, <2>3 DEF Ad!KillsOnlyOrphans, Ad!Alive
  <2>4. CASE Ad!Verified(o) /\ proc' = Ad!Dying({o.pid})
    <3>1. proc[o.pid].image = "runtime"
      BY <2>2, <2>4 DEF Ad!Verified
    <3>2. \A p \in PIDs : ~proc[p].job
      BY <1>4 DEF Ended, TreeInv, JobHoldsTree, HeldUntilGone, Owning, Starting
    <3>3. \A p \in PIDs : p # o.pid => proc'[p] = proc[p]
      BY <2>4 DEF Ad!Dying
    <3> QED BY <2>2, <3>1, <3>2, <3>3 DEF Ad!KillsOnlyOrphans, Ad!Alive
  <2> QED BY <2>1, <2>3, <2>4
<1>5. CASE Died
  BY <1>1, <1>5 DEF Died, Ad!Crash, NamedByPath, Ad!KillsOnlyOrphans
<1> QED BY <1>2, <1>3, <1>4, <1>5 DEF TreeMove, Machine, Turn, Started, Failed, Stops, Kills, Returned

(* Where every path can be read and what is to be killed is, a runtime that *)
(* was there when the start looked is gone before the start goes on.        *)
LEMMA LeftoversGo ==
  ASSUME TreeInv, LeftoversAreListed, NEW fails, ~fails, NEW acc, acc \subseteq {"path"}, TreeMove(fails, acc)
  PROVE  LeftoversAreListed'
<1>1. \A p \in PIDs : proc'[p].access = "path"
  BY AccessIsGiven DEF LeftoversAreListed
<1>2. proc \in [PIDs -> Procs]
  BY DEF TreeInv, TreeType
<1> DEFINE Gone(p) ==
         (pc' = "scan" => [pid |-> p, byName |-> FALSE] \in scan') /\ pc' \notin Owning \cup {"probe", "create"}
<1>3. SUFFICES ASSUME NEW p \in PIDs, Leftover(p)' PROVE Gone(p)
  BY <1>1 DEF LeftoversAreListed
<1>4. Leftover(p) =>
         (pc = "scan" => [pid |-> p, byName |-> FALSE] \in scan) /\ pc \notin Owning \cup {"probe", "create"}
  BY DEF LeftoversAreListed
<1>5. CASE Machine(acc)
  <2>1. ~Born(p, acc)
    BY <1>3 DEF Born, Leftover
  <2>2. ~Leaves(p)
    BY <1>3 DEF Leaves, Leftover, Ad!NoProc
  <2>3. ~Dies(p)
    BY <1>2, <1>3 DEF Dies, Leftover, Procs
  <2> QED BY <1>3, <1>4, <1>5, <2>1, <2>2, <2>3 DEF Machine, Leftover
<1>6. CASE Turn
  <2>1. Leftover(p)
    BY <1>3, <1>6 DEF Turn, Leftover
  <2> QED BY <1>4, <1>6, <2>1 DEF Turn, Owning, Starting, TreeInv, TreeType
<1>7. CASE Looked(fails)
  <2>1. pc' = "scan" /\ scan' = {[pid |-> q, byName |-> proc[q].access # "path"]
           : q \in {o \in PIDs : Ad!Candidate(o)}}
    BY <1>7 DEF Looked
  <2>2. proc[p].image = "runtime" /\ Ad!Exists(p) /\ proc[p].access = "path"
    BY <1>2, <1>3, <1>7 DEF Looked, Leftover, LeftoversAreListed, Ad!Exists, Procs
  <2>3. Ad!Candidate(p)
    BY <1>7, <2>2 DEF Ad!Candidate, Looked, TreeInv, HeldUntilGone, Owning, Starting
  <2>4. (proc[p].access # "path") = FALSE
    BY <2>2
  <2>5. [pid |-> p, byName |-> FALSE] \in scan'
    BY <2>1, <2>3, <2>4
  <2> QED BY <2>1, <2>5 DEF Owning, Starting
<1>8. CASE Ended(fails)
  <2>1. PICK o \in scan : /\ scan' = scan \ {o}
                          /\ \/ Ad!Exists(o.pid) /\ Ad!Verified(o) /\ proc' = Ad!Dying({o.pid})
                             \/ (Ad!Exists(o.pid) => ~Ad!Verified(o)) /\ UNCHANGED proc
    BY <1>8 DEF Ended
  <2>2. pc = "scan" /\ pc' = "scan"
    BY <1>8 DEF Ended
  <2>3. Leftover(p) /\ proc'[p] = proc[p]
    BY <1>2, <1>3, <2>1 DEF Leftover, Ad!Dying, Procs
  <2>4. ASSUME o = [pid |-> p, byName |-> FALSE] PROVE FALSE
    <3>1. Ad!Exists(p) /\ Ad!Verified(o) /\ o.pid = p
      BY <2>3, <2>4 DEF Leftover, LeftoversAreListed, Ad!Exists, Ad!Verified
    <3>2. proc' = Ad!Dying({p})
      BY <2>1, <3>1
    <3>3. proc'[p].st = "dying"
      BY <1>2, <3>1, <3>2 DEF Ad!Dying, Procs
    <3> QED BY <1>3, <3>3 DEF Leftover
  <2> QED BY <1>4, <2>1, <2>2, <2>3, <2>4 DEF Owning, Starting
<1>9. CASE Started
  <2>1. pc \in {"create", "assign", "resume"}
    BY <1>9 DEF Started, Ad!Create, Ad!Assign, Ad!Resume
  <2>2. ~Leftover(p)
    BY <1>4, <2>1 DEF Owning, Starting
  <2>3. CASE Ad!Create
    BY <1>2, <1>3, <2>2, <2>3 DEF Ad!Create, Ad!NoProc, Leftover
  <2>4. CASE Ad!Assign \/ Ad!Resume
    <3>1. root \in PIDs
      BY <2>4 DEF Ad!Assign, Ad!Resume, TreeInv, TreeType, HeldUntilGone, Starting
    <3>2. proc'[root].job /\ \A q \in PIDs : q # root => proc'[q] = proc[q]
      BY <1>2, <2>4, <3>1 DEF Ad!Assign, Ad!Resume, Procs
    <3> QED BY <1>3, <2>2, <3>2 DEF Leftover
  <2> QED BY <1>9, <2>3, <2>4 DEF Started
<1>10. CASE Failed
  BY <1>10 DEF Failed, Owning, Starting
<1>11. CASE Stops \/ Returned
  <2>1. Leftover(p)
    BY <1>3, <1>11 DEF Stops, Returned, Leftover
  <2>2. pc' # "scan" \/ pc' = pc
    BY <1>11 DEF Stops, Returned, Idles, Fails, Ad!BeginStop, Ad!Shutdown
  <2>3. pc' \notin Owning \cup {"probe", "create"}
    BY <1>4, <1>11, <2>1 DEF Stops, Returned, Idles, Fails, Ad!BeginStop, Ad!Shutdown, Ad!Callers,
             Owning, Starting, TreeInv, StopsInTheirPlace, InStop
  <2> QED BY <1>4, <1>11, <2>1, <2>2, <2>3 DEF Stops, Returned
<1>12. CASE Kills
  <2>1. Leftover(p)
    BY <1>2, <1>3, <1>12 DEF Kills, Leftover, Ad!Dying, Procs
  <2> QED BY <1>4, <1>12, <2>1 DEF Kills
<1>13. CASE Died
  BY <1>13 DEF Died, Ad!Crash, Owning, Starting
<1> QED BY <1>5, <1>6, <1>7, <1>8, <1>9, <1>10, <1>11, <1>12, <1>13 DEF TreeMove

\* Others let the worker read which program they run, and what it kills dies.
ReadableMachine == Access \subseteq {"path"} /\ ~KillMayFail

TreeParts == {"adapter", "failing"}
OwnedInv == part \in TreeParts => TreeInv
FoundInv ==
    /\ part \in TreeParts => TreeInv /\ NamedByPath
    /\ part = "adapter" => LeftoversAreListed

(* A step of the serving side is one of the adapter's effects, or leaves    *)
(* the process tree as it is.                                               *)
LEMMA TreeSteps ==
  ASSUME [Next]_vars, TreeInv
  PROVE  /\ part' = part
         /\ part = "adapter" => TreeMove(KillMayFail, Access) \/ UNCHANGED adapterVars
         /\ part = "failing" => TreeMove(TRUE, {"path", "denied"}) \/ UNCHANGED adapterVars
<1>1. part' = part
  BY DEF Next, vars, PxMoves, AdMoves, VrMoves, UsMoves, VsMoves, AfMoves
<1>2. part = "adapter" => Ad!Next \/ UNCHANGED adapterVars
  BY DEF Next, vars, PxMoves, AdMoves, VrMoves, UsMoves, VsMoves, AfMoves
<1>3. part = "failing" => Af!Next \/ UNCHANGED adapterVars
  BY DEF Next, vars, PxMoves, AdMoves, VrMoves, UsMoves, VsMoves, AfMoves
<1> QED BY <1>1, <1>2, <1>3, AdEffects, AfEffects

(* A tree at rest stays as it is.                                           *)
LEMMA TreeRests ==
  ASSUME UNCHANGED adapterVars
  PROVE  /\ TreeInv => TreeInv' /\ Ad!ReleasedIsEmpty
         /\ TreeInv /\ NamedByPath => NamedByPath' /\ Ad!KillsOnlyOrphans
         /\ LeftoversAreListed => LeftoversAreListed'
<1>1. TreeInv => TreeInv' /\ Ad!ReleasedIsEmpty
  BY DEF adapterVars, TreeInv, TreeType, JobHoldsTree, HeldUntilGone, StopsInTheirPlace, Ad!ReleasedIsEmpty
<1>2. NamedByPath => NamedByPath' /\ Ad!KillsOnlyOrphans
  BY DEF adapterVars, NamedByPath, Ad!KillsOnlyOrphans
<1>3. LeftoversAreListed => LeftoversAreListed'
  BY DEF adapterVars, LeftoversAreListed, Leftover
<1> QED BY <1>1, <1>2, <1>3

(* What the invariant says of the states is what the promise does.          *)
LEMMA TreesAreHeld ==
  /\ TreeInv => Ad!NothingEscapes /\ Ad!NoneForgotten
  /\ LeftoversAreListed => Ad!OneRuntime
<1>1. TreeInv => Ad!NothingEscapes /\ Ad!NoneForgotten
  BY DEF TreeInv, JobHoldsTree, HeldUntilGone, Owning, Starting, Ad!NothingEscapes, Ad!NoneForgotten
<1>2. LeftoversAreListed => Ad!OneRuntime
  BY DEF LeftoversAreListed, Leftover, Owning, Starting, Ad!OneRuntime, Ad!Alive
<1> QED BY <1>1, <1>2

(* Whatever others run, deny and kill, and however a start or a stop fails: *)
(* nothing of the runtime runs outside the job, the controller holds every  *)
(* instance whose end is not verified, and one it lets go of has left no    *)
(* process behind (procgroup.start, Instance.Stop, onStopped).              *)
THEOREM NoTreeIsLost ==
  Spec => [][/\ part \in TreeParts =>
                  Ad!ReleasedIsEmpty /\ (Ad!NothingEscapes /\ Ad!NoneForgotten)']_vars
<1>1. Init => OwnedInv
  BY TreeStarts DEF Init, OwnedInv
<1>2. ASSUME OwnedInv, [Next]_vars
      PROVE  OwnedInv' /\ (part \in TreeParts => Ad!ReleasedIsEmpty /\ (Ad!NothingEscapes /\ Ad!NoneForgotten)')
  <2>1. part' = part
    BY <1>2 DEF Next, vars, PxMoves, AdMoves, VrMoves, UsMoves, VsMoves, AfMoves
  <2>2. ASSUME part \in TreeParts
        PROVE  TreeInv' /\ Ad!ReleasedIsEmpty
    <3>1. TreeInv
      BY <1>2, <2>2 DEF OwnedInv
    <3> QED BY <1>2, <2>2, <3>1, TreeSteps, TreesKept, TreeRests DEF TreeParts
  <2>3. (TreeInv => Ad!NothingEscapes /\ Ad!NoneForgotten)'
    BY TreesAreHeld, PTL
  <2> QED BY <2>1, <2>2, <2>3 DEF OwnedInv
<1> QED BY <1>1, <1>2, PTL DEF Spec

(* Where the path of every process can be read and a kill that is asked for *)
(* is done, which is what the promise is made for, the scan for leftovers   *)
(* also ends nothing but orphans of the runtime, although ids are reused,   *)
(* and no runtime it could have seen is alive beside the one that is held   *)
(* (Reconcile, terminate, startLoad).                                       *)
THEOREM TreesOwned == ASSUME ReadableMachine PROVE Spec => TreesAreOwned
<1>1. Init => FoundInv
  <2>1. Ad!Init => NamedByPath /\ LeftoversAreListed
    BY DEF Ad!Init, Ad!NoProc, NamedByPath, LeftoversAreListed, Leftover
  <2>2. Af!Init => NamedByPath
    BY DEF Af!Init, Af!NoProc, NamedByPath
  <2> QED BY <2>1, <2>2, TreeStarts DEF Init, FoundInv, TreeParts
<1>2. ASSUME FoundInv, [Next]_vars
      PROVE  FoundInv' /\ (/\ part \in TreeParts =>
                                /\ (Ad!NothingEscapes /\ Ad!NoneForgotten)'
                                /\ Ad!ReleasedIsEmpty /\ Ad!KillsOnlyOrphans
                           /\ part = "adapter" => Ad!OneRuntime')
  <2>1. part' = part
    BY <1>2 DEF Next, vars, PxMoves, AdMoves, VrMoves, UsMoves, VsMoves, AfMoves
  <2>2. ASSUME part = "adapter"
        PROVE  /\ TreeInv' /\ Ad!ReleasedIsEmpty /\ NamedByPath' /\ Ad!KillsOnlyOrphans
               /\ LeftoversAreListed'
    <3>1. TreeInv /\ NamedByPath /\ LeftoversAreListed
      BY <1>2, <2>2 DEF FoundInv, TreeParts
    <3>2. CASE TreeMove(KillMayFail, Access)
      BY <3>1, <3>2, TreesKept, OrphansOnly, LeftoversGo DEF ReadableMachine
    <3> QED BY <1>2, <2>2, <3>1, <3>2, TreeSteps, TreeRests
  <2>3. ASSUME part = "failing"
        PROVE  TreeInv' /\ Ad!ReleasedIsEmpty /\ NamedByPath' /\ Ad!KillsOnlyOrphans
    <3>1. TreeInv /\ NamedByPath
      BY <1>2, <2>3 DEF FoundInv, TreeParts
    <3>2. CASE TreeMove(TRUE, {"path", "denied"})
      BY <3>1, <3>2, TreesKept, OrphansOnly
    <3> QED BY <1>2, <2>3, <3>1, <3>2, TreeSteps, TreeRests
  <2>4. (TreeInv => Ad!NothingEscapes /\ Ad!NoneForgotten)' /\ (LeftoversAreListed => Ad!OneRuntime)'
    BY TreesAreHeld, PTL
  <2> QED BY <2>1, <2>2, <2>3, <2>4 DEF FoundInv, TreeParts
<1> QED BY <1>1, <1>2, PTL DEF Spec, TreesAreOwned, TreeParts

-----------------------------------------------------------------------------
(* Together, as parts of the serving side.                                 *)

MemoryInv ==
    /\ part = "vram" => VramInv
    /\ part = "shared" => SharedInv

(* A step that is not the controller's leaves the memory as it is, and one  *)
(* that is keeps the invariant of the part that moves.                      *)
LEMMA MemoryKept ==
  ASSUME [Next]_vars
  PROVE  /\ part = "shared" /\ SharedInv => part' = "shared" /\ SharedInv'
         /\ OthersOnlyTake /\ part = "vram" /\ VramInv => part' = "vram" /\ VramInv'
         /\ part' = part
<1>1. part' = part
  BY DEF Next, vars, PxMoves, AdMoves, VrMoves, UsMoves, VsMoves, AfMoves
<1>2. ASSUME part = "shared", SharedInv PROVE SharedInv'
  <2>1. Vs!Next \/ UNCHANGED vramVars
    BY <1>2 DEF Next, vars, PxMoves, AdMoves, VrMoves, UsMoves, VsMoves, AfMoves
  <2>2. UNCHANGED vramVars => SharedInv'
    BY <1>2 DEF SharedInv, vramVars
  <2> QED BY <1>2, <2>1, <2>2, SharedKept
<1>3. ASSUME OthersOnlyTake, part = "vram", VramInv PROVE VramInv'
  <2>1. Vr!Next \/ UNCHANGED vramVars
    BY <1>3 DEF Next, vars, PxMoves, AdMoves, VrMoves, UsMoves, VsMoves, AfMoves
  <2>2. CASE UNCHANGED vramVars
    <3>1. Vr!Remainder' = Vr!Remainder
      BY <2>2 DEF Vr!Remainder, vramVars
    <3> QED BY <1>3, <2>2, <3>1 DEF VramInv, VramType, UseIsLoaded, LearnedIsModel,
              CheckIsOfTheStopped, MeasuredCovers, Vr!ReleaseIsReal, vramVars
  <2>3. CASE Vr!Next
    BY <1>3, <2>3, VramMovesKeep, StepKeeps DEF Vr!Next
  <2> QED BY <2>1, <2>2, <2>3
<1> QED BY <1>1, <1>2, <1>3

(* A competitor is hidden behind memory of ours for no longer than the      *)
(* release timeout and the steps at its two ends, whatever the other        *)
(* programs do and whatever telemetry misses (observe).                     *)
THEOREM HiddenForABoundedTime == Spec => [](part = "shared" => Vs!HiddenIsBounded)
<1> DEFINE I == part = "shared" => SharedInv
<1>1. Init => I
  BY SharedStarts DEF Init
<1>2. I /\ [Next]_vars => I'
  BY MemoryKept
<1>3. I => (part = "shared" => Vs!HiddenIsBounded)
  BY DEF Vs!HiddenIsBounded, SharedInv
<1> QED BY <1>1, <1>2, <1>3, PTL DEF Spec

(* Where other programs only take memory, for models, tolerances and        *)
(* timeouts of any size and however reloads follow each other: "VRAM        *)
(* released", said of a runtime that stays stopped, is true up to what the  *)
(* loads before it did not wait for, what the driver still holds of ours is *)
(* not taken for a competitor's beyond that, and what was learned is of the *)
(* configured model (startLoad, checkVRAMRelease, observe, updateConfig).   *)
THEOREM MemoryComesBack == ASSUME OthersOnlyTake PROVE Spec => []MemoryIsGivenBack
<1>1. Init => MemoryInv
  BY SharedStarts, VramStarts DEF Init, MemoryInv
<1>2. MemoryInv /\ [Next]_vars => MemoryInv'
  BY MemoryKept DEF MemoryInv
<1>3. MemoryInv => MemoryIsGivenBack
  <2>1. VramInv => Vr!ReleaseIsReal /\ Vr!OwnIsNoCompetitor /\ Vr!FootprintIsCurrent
    BY DEF VramInv, VramType, LearnedIsModel, MeasuredCovers, Vr!OwnIsNoCompetitor,
           Vr!FootprintIsCurrent
  <2>2. SharedInv => Vs!HiddenIsBounded
    BY DEF Vs!HiddenIsBounded, SharedInv
  <2> QED BY <2>1, <2>2 DEF MemoryInv, MemoryIsGivenBack
<1> QED BY <1>1, <1>2, <1>3, PTL DEF Spec

ServingInv == ProxyInv /\ TapInv

(* A step of the proxy keeps its invariant.                                 *)
LEMMA ProxyKept ==
  ASSUME ProxyInv, Px!Next
  PROVE  ProxyInv'
  BY TypeKept, TicketsKept, AccountsKept, AnswersKept, ReportsKept, CutsKept DEF ProxyInv

(* Every step of the serving parts keeps the proxy's invariant and the      *)
(* tap's: one of the two moves, or neither.                                 *)
LEMMA ServingKept ==
  ASSUME ServingInv, [Next]_vars
  PROVE  ServingInv'
<1>1. Px!Next \/ UNCHANGED proxyVars
  BY DEF Next, vars, PxMoves, AdMoves, VrMoves, UsMoves, VsMoves, AfMoves
<1>2. Us!Next \/ UNCHANGED usageVars
  BY DEF Next, vars, PxMoves, AdMoves, VrMoves, UsMoves, VsMoves, AfMoves
<1>3. ProxyInv'
  BY <1>1, ProxyKept, ProxyRests DEF ServingInv
<1>4. UNCHANGED usageVars => TapInv'
  BY DEF ServingInv, TapInv, TailIs, usageVars
<1>5. TapInv'
  BY <1>2, <1>4, TapKept DEF ServingInv
<1> QED BY <1>3, <1>5 DEF ServingInv

(* For any number of requests and callers of any kind, the proxy accounts   *)
(* for every request before it gives up its ticket, shows a cut as a cut,   *)
(* leaves nobody behind when it cuts, and reports an outcome that was       *)
(* earned; and the windows the token counts are read from are the first     *)
(* and the last bytes of the response, whatever the size of the windows,    *)
(* the chunks and the response.                                             *)
THEOREM RequestsAccountedFor == Spec => []RequestsAreAccounted
<1>1. Init => ServingInv
  BY ProxyStarts, TapStarts DEF Init, ServingInv
<1>2. ServingInv /\ [Next]_vars => ServingInv'
  BY ServingKept
<1>3. ServingInv => RequestsAreAccounted
  BY BooksAreRight, WindowsAreRight DEF ServingInv, RequestsAreAccounted
<1> QED BY <1>1, <1>2, <1>3, PTL DEF Spec
=============================================================================
