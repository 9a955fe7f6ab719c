------------------------------- MODULE Access -------------------------------
(***************************************************************************)
(* The management API: who may call what, dashboard sign-in with one-time  *)
(* codes and session tokens, and the handlers that change state. A request *)
(* is authorised in one step and handled in later ones, so sessions may    *)
(* expire or be evicted, and the configuration may change, in between.     *)
(*                                                                         *)
(* Source: internal/api/auth.go, signin.go, handler.go, setup.go.          *)
(***************************************************************************)
EXTENDS Integers, FiniteSets

CONSTANTS
    Requests,          \* request slots: what runs concurrently
    Codes,             \* sign-in codes the tray makes
    MaxPendingCodes, MaxSessions, MaxRedeemFailure,
    CodeTTL, SessionTTL, Window,
    Offered,           \* the routes clients use in this instance
    MaxNow, MaxIssued, MaxRev, MaxMisses   \* bounds: clock, sessions, configuration writes, failed redemptions

\* What the values of the constants have to satisfy.
AccessConstants ==
    /\ {MaxPendingCodes, MaxSessions, MaxRedeemFailure, CodeTTL, SessionTTL, Window, MaxNow} \subseteq Nat \ {0}
    /\ {MaxIssued, MaxRev, MaxMisses} \subseteq Nat
    /\ Offered \subseteq {"status", "config", "put", "apps", "mode", "action", "report", "codes", "redeem"}

VARIABLES
    now,
    codes,             \* code -> when it expires, 0 when not pending
    sessions,          \* session token -> when it expires, 0 when not held
    issued,            \* how many session tokens were issued
    failures, failFrom, misses,   \* the redemption limit; ghost: when each failure was
    cfg, rev,          \* loopback trust and application rules; ghost: writes so far
    req,               \* the requests being served
    reg,               \* ghost: code -> when it was last registered, 0 when never or spent
    last               \* ghost: the request that just took effect

vars == <<now, codes, sessions, issued, failures, failFrom, misses, cfg, rev, req, reg>>

Tokens == 1..MaxIssued
Kinds == {"none", "management", "agent", "inference", "bad"}
Creds == {[kind |-> k, token |-> 0] : k \in Kinds} \cup {[kind |-> "session", token |-> t] : t \in Tokens}

\* The route table; reads that differ only in their answer share an entry.
Routes == [
    status  |-> [access |-> "read",  agent |-> TRUE],
    config  |-> [access |-> "read",  agent |-> FALSE],
    put     |-> [access |-> "write", agent |-> FALSE],
    apps    |-> [access |-> "write", agent |-> FALSE],
    mode    |-> [access |-> "mode",  agent |-> TRUE],
    action  |-> [access |-> "write", agent |-> FALSE],
    report  |-> [access |-> "write", agent |-> TRUE],
    codes   |-> [access |-> "write", agent |-> FALSE],
    redeem  |-> [access |-> "local", agent |-> FALSE]]

\* What a request carries: peer and Host as seen by trustedLoopback, where a
\* browser says it comes from and whether it is JSON where the route looks
\* at them, and the route's own argument.
Arg(route) ==
    CASE route = "mode" -> {"pause", "auto", "ai_priority"}
      [] route \in {"codes", "redeem"} -> Codes
      [] route = "put" -> BOOLEAN
      [] OTHER -> {"none"}

Request(route) ==
    [route : {route}, cred : Creds, loopback : BOOLEAN, localHost : BOOLEAN,
     from : IF route = "mode" THEN {"native", "page", "other_page"} ELSE {"native"},
     json : IF route \in {"mode", "redeem"} THEN BOOLEAN ELSE {TRUE}, arg : Arg(route)]

Idle == [stage |-> "idle"]
NoEffect == [route |-> "none"]

Init ==
    /\ now = 1 /\ codes = [c \in Codes |-> 0] /\ sessions = [t \in Tokens |-> 0] /\ issued = 0
    /\ failures = 0 /\ failFrom = 0 /\ misses = {}
    /\ cfg = [trust |-> TRUE, apps |-> 0] /\ rev = 0
    /\ req = [r \in Requests |-> Idle]
    /\ reg = [c \in Codes |-> 0] /\ last = NoEffect

-----------------------------------------------------------------------------
(* Authentication.                                                         *)

Live(t) == sessions[t] # 0 /\ now < sessions[t]

Identify(cred) ==
    IF cred.kind = "bad" \/ (cred.kind = "session" /\ ~Live(cred.token)) THEN "invalid" ELSE cred.kind

trustedLoopback(q) == q.loopback /\ q.localHost

localWriteBarrier(q) == q.json /\ q.from # "other_page"

\* The live loopback_trust setting decides about requests without a token.
Authorize(q) ==
    LET need == Routes[q.route].access
        p    == Identify(q.cred)
    IN IF need = "local" THEN trustedLoopback(q)
       ELSE \/ p = "management"
            \/ p = "session" /\ trustedLoopback(q)
            \/ p = "agent" /\ Routes[q.route].agent
            \/ /\ p = "none" /\ cfg.trust /\ trustedLoopback(q)
               /\ need = "read" \/ (need = "mode" /\ localWriteBarrier(q))

\* ValidSession removes the token it finds expired.
Forget(cred) ==
    [t \in Tokens |-> IF cred = [kind |-> "session", token |-> t] /\ ~Live(t) THEN 0 ELSE sessions[t]]

\* A request arrives and is authorised.
Arrive(r, q) ==
    /\ req[r].stage = "idle" /\ q.cred.token <= issued /\ Authorize(q)
    /\ req' = [req EXCEPT ![r] = [stage |-> "handle", q |-> q, seen |-> cfg, valid |-> Identify(q.cred)]]
    /\ sessions' = Forget(q.cred)
    /\ last' = NoEffect
    /\ UNCHANGED <<now, codes, issued, failures, failFrom, misses, cfg, rev, reg>>

\* A request that is refused has one effect at most: its expired session is
\* forgotten.
Refuse(t) ==
    /\ sessions[t] # 0 /\ ~Live(t)
    /\ sessions' = Forget([kind |-> "session", token |-> t])
    /\ last' = NoEffect
    /\ UNCHANGED <<now, codes, issued, failures, failFrom, misses, cfg, rev, req, reg>>

-----------------------------------------------------------------------------
(* Sign-in. register and redeem hold the SignIn lock.                      *)

Pending == {c \in Codes : codes[c] # 0 /\ now < codes[c]}

\* Register drops expired codes first, and refuses when too many are pending.
Register(c) ==
    IF Cardinality(Pending) >= MaxPendingCodes
    THEN codes' = [k \in Codes |-> IF k \in Pending THEN codes[k] ELSE 0] /\ UNCHANGED reg
    ELSE /\ codes' = [k \in Codes |-> IF k = c THEN now + CodeTTL ELSE IF k \in Pending THEN codes[k] ELSE 0]
         /\ reg' = [reg EXCEPT ![c] = now]

\* The session that expires first makes room: tokens are numbered as they are
\* issued, and all last equally long.
Evicted(live) == CHOOSE t \in live : \A u \in live : t <= u

Issue ==
    LET live == {t \in Tokens : Live(t)}
        kept == IF Cardinality(live) >= MaxSessions THEN live \ {Evicted(live)} ELSE live
    IN /\ issued' = issued + 1
       /\ sessions' = [t \in Tokens |-> IF t = issued' THEN now + SessionTTL
                                        ELSE IF t \in kept THEN sessions[t] ELSE 0]

\* Mutant: a redeemed code stays pending.
Redeem_Keeps(c) ==
    /\ issued < MaxIssued /\ c \in Pending
    /\ Issue /\ reg' = [reg EXCEPT ![c] = 0]
    /\ UNCHANGED <<codes, failures, failFrom, misses>>

\* Redeem: a window of failures pauses redemption; the code is removed
\* whether or not it is still good.
Redeem(c) ==
    LET over == now - failFrom > Window
        f    == IF over THEN 0 ELSE failures
        hit  == c \in Pending
    IN /\ failFrom' = IF over THEN now ELSE failFrom
       /\ IF f >= MaxRedeemFailure
          THEN failures' = f /\ UNCHANGED <<codes, sessions, issued, misses, reg>>
          ELSE /\ IF hit THEN issued < MaxIssued ELSE Cardinality(misses) < MaxMisses
               /\ codes' = [codes EXCEPT ![c] = 0]
               /\ failures' = IF hit THEN f ELSE f + 1
               /\ misses' = IF hit THEN misses ELSE misses \cup {<<now, Cardinality(misses)>>}
               /\ reg' = IF hit THEN [reg EXCEPT ![c] = 0] ELSE reg
               /\ IF hit THEN Issue ELSE UNCHANGED <<sessions, issued>>

-----------------------------------------------------------------------------
(* The handlers. A body that does not decode, an argument out of range or a *)
(* backend's refusal ends the request without effect: Reject.              *)

Done(r) == [req EXCEPT ![r] = Idle]
At(r, route) == req[r].stage = "handle" /\ req[r].q.route = route
Takes(r, principal) == [route |-> req[r].q.route, q |-> req[r].q, valid |-> req[r].valid, principal |-> principal]

Reject(r) ==
    /\ req[r].stage # "idle"
    /\ req' = Done(r)
    /\ last' = NoEffect
    /\ UNCHANGED <<now, codes, sessions, issued, failures, failFrom, misses, cfg, rev, reg>>

\* Reads, drain, reload, restart, reports: the answer or the request to the
\* controller.
Answer(r) ==
    /\ \E route \in {"status", "config", "action", "report"} : At(r, route)
    /\ req' = Done(r) /\ last' = Takes(r, "")
    /\ UNCHANGED <<now, codes, sessions, issued, failures, failFrom, misses, cfg, rev, reg>>

putConfig(r) ==
    /\ At(r, "put") /\ rev < MaxRev
    /\ cfg' = [cfg EXCEPT !.trust = req[r].q.arg] /\ rev' = rev + 1
    /\ req' = Done(r) /\ last' = Takes(r, "")
    /\ UNCHANGED <<now, codes, sessions, issued, failures, failFrom, misses, reg>>

\* The rules are put into a copy of the configuration read here, which
\* UpdateConfig writes in a later step: it undoes a write in between, and
\* nothing promises otherwise.
putApplications(r) ==
    /\ At(r, "apps")
    /\ req' = [req EXCEPT ![r].stage = "apply", ![r].seen = cfg]
    /\ last' = NoEffect
    /\ UNCHANGED <<now, codes, sessions, issued, failures, failFrom, misses, cfg, rev, reg>>

applyApplications(r) ==
    /\ req[r].stage = "apply" /\ rev < MaxRev
    /\ cfg' = [req[r].seen EXCEPT !.apps = 1 - cfg.apps] /\ rev' = rev + 1
    /\ req' = Done(r) /\ last' = [Takes(r, "") EXCEPT !.route = "apps"]
    /\ UNCHANGED <<now, codes, sessions, issued, failures, failFrom, misses, reg>>

\* The mode handler identifies the caller again: AI Priority needs a token,
\* and the audit record names who it was.
putMode(r) ==
    /\ At(r, "mode")
    /\ LET p == Identify(req[r].q.cred) IN
       /\ ~(p = "none" /\ req[r].q.arg = "ai_priority")
       /\ last' = Takes(r, p)
    /\ req' = Done(r)
    /\ sessions' = Forget(req[r].q.cred)
    /\ UNCHANGED <<now, codes, issued, failures, failFrom, misses, cfg, rev, reg>>

\* Mutant: any caller that may write mints codes, a dashboard session too.
registerSignIn_AnyWriter(r) ==
    /\ At(r, "codes")
    /\ Register(req[r].q.arg)
    /\ req' = Done(r) /\ last' = Takes(r, "")
    /\ UNCHANGED <<now, sessions, issued, failures, failFrom, misses, cfg, rev>>

\* Only the management token itself mints codes.
registerSignIn(r) ==
    /\ At(r, "codes") /\ Identify(req[r].q.cred) = "management"
    /\ Register(req[r].q.arg)
    /\ req' = Done(r) /\ last' = Takes(r, "")
    /\ UNCHANGED <<now, sessions, issued, failures, failFrom, misses, cfg, rev>>

redeemSignIn(r) ==
    /\ At(r, "redeem") /\ req[r].q.json
    /\ Redeem(req[r].q.arg)
    /\ req' = Done(r) /\ last' = Takes(r, "")
    /\ UNCHANGED <<now, cfg, rev>>

Tick ==
    /\ now < MaxNow
    /\ now' = now + 1
    /\ last' = NoEffect
    /\ UNCHANGED <<codes, sessions, issued, failures, failFrom, misses, cfg, rev, req, reg>>

Next ==
    \/ \E r \in Requests, route \in Offered : \E q \in Request(route) : Arrive(r, q)
    \/ \E r \in Requests :
          \/ Reject(r) \/ Answer(r) \/ putConfig(r) \/ putApplications(r) \/ applyApplications(r)
          \/ putMode(r) \/ registerSignIn(r) \/ redeemSignIn(r)
    \/ \E t \in Tokens : Refuse(t)
    \/ Tick

Spec == Init /\ [][Next]_vars

-----------------------------------------------------------------------------
TypeOK ==
    /\ now \in 1..MaxNow /\ codes \in [Codes -> 0..MaxNow + CodeTTL]
    /\ Cardinality(Pending) <= MaxPendingCodes
    /\ sessions \in [Tokens -> 0..MaxNow + SessionTTL] /\ issued \in 0..MaxIssued
    /\ failures \in 0..MaxMisses /\ failFrom \in 0..MaxNow
    /\ cfg \in [trust : BOOLEAN, apps : 0..1] /\ rev \in 0..MaxRev
    /\ \A r \in Requests : req[r].stage \in {"idle", "handle", "apply"}

\* ADR 0007: configuration, drain and reload need the management token or a
\* dashboard session on this PC; reports also take the agent token.
WritesNeedAToken ==
    last.route \in {"put", "apps", "action", "report"} =>
        \/ last.q.cred.kind = "management"
        \/ last.valid = "session" /\ trustedLoopback(last.q)
        \/ last.q.cred.kind = "agent" /\ last.route = "report"

\* ADR 0007, the amendment: the only tokenless write is Pause AI or Auto from
\* this PC, and never by a page from elsewhere.
TokenlessOnlyPauses ==
    last.route = "mode" /\ last.q.cred.kind \notin {"management", "agent"} /\ last.valid # "session" =>
        /\ last.q.cred.kind = "none" /\ last.q.arg \in {"pause", "auto"}
        /\ trustedLoopback(last.q) /\ last.q.json /\ last.q.from # "other_page"

\* A session is good only while it lasts: none is used at or after its expiry.
SessionsExpire ==
    \A r \in Requests : req[r].stage = "idle" /\ req'[r].stage = "handle" /\ req'[r].valid = "session" =>
      now < sessions[req'[r].q.cred.token]

\* ADR 0012: a session is issued only for a code that somebody with the
\* management token registered in the last CodeTTL, and once per registration.
SessionsComeFromCodes ==
    issued' # issued => \E c \in Codes : reg[c] # 0 /\ now < reg[c] + CodeTTL /\ reg'[c] = 0

\* Codes are minted with the management token only, never with a session, so
\* no session outlives its lifetime by renewing itself.
CodesNeedManagement ==
    last.route = "codes" => last.q.cred.kind = "management"

\* A new sign-in beats a forgotten tab: a session ends before it expires only
\* when MaxSessions newer ones are held.
NewestSessionsKept ==
    \A t \in Tokens : sessions[t] # 0 /\ sessions'[t] = 0 =>
        sessions[t] <= now \/ Cardinality({u \in Tokens : u > t /\ sessions'[u] # 0}) >= MaxSessions

\* Failed redemptions are limited: never more than two windows' worth within
\* one window's time.
GuessesLimited ==
    \A t \in 1..MaxNow : Cardinality({m \in misses : m[1] \in t..t + Window}) <= 2 * MaxRedeemFailure

=============================================================================
