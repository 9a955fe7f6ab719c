------------------------------- MODULE Proxy -------------------------------
(***************************************************************************)
(* One inference request from its arrival to its release                   *)
(* (src/internal/proxy/proxy.go) against the gate it holds a ticket of     *)
(* (gate.go), finer than in Controller: the checks before admission, the   *)
(* timer, the cancellation cause, which of them is first, the abort or the *)
(* clean end the caller sees, the account that is given of the request,    *)
(* and the two halves of a release.                                        *)
(***************************************************************************)
EXTENDS Naturals

CONSTANTS Requests,
          Callers,       \* [v1, loopback, localHost, bearer : BOOLEAN]
          TokenSet,      \* an inference token is configured
          RuntimeFails,  \* the runtime may fail a request on its own
          ClientsLeave,  \* callers may hang up
          ClientsStall   \* callers may stop reading

\* What the values of the constants have to satisfy.
ProxyAssumption ==
    /\ Callers \subseteq [v1 : BOOLEAN, loopback : BOOLEAN, localHost : BOOLEAN, bearer : BOOLEAN]
    /\ {TokenSet, RuntimeFails, ClientsLeave, ClientsStall} \subseteq BOOLEAN

VARIABLES open, active, notify,   \* the gate; notify is its channel of one
          ctl, toCut,             \* the controller; the tickets ForceCloseAll still has to cancel
          phase,                  \* of the handler of a request
          cause,                  \* the cancellation cause of its context
          status,                 \* of its statusWriter, 0 if nothing is written
          whole,                  \* its response, or an error body in its place, was written to the end
          panicked, end,          \* how the handler ends and what the caller sees of it
          accounts, outcome       \* how often RequestFinished was called, and with what

gateVars == <<open, active, notify>>
ctlVars == <<ctl, toCut>>
respVars == <<status, whole, panicked>>
accVars == <<accounts, outcome>>
vars == <<gateVars, ctlVars, phase, cause, respVars, end, accVars>>

Init ==
    /\ open = FALSE /\ active = {} /\ notify = FALSE /\ ctl = "closed" /\ toCut = {}
    /\ phase = [r \in Requests |-> "new"] /\ cause = [r \in Requests |-> "none"]
    /\ status = [r \in Requests |-> 0] /\ whole = [r \in Requests |-> FALSE]
    /\ panicked = [r \in Requests |-> FALSE] /\ end = [r \in Requests |-> "none"]
    /\ accounts = [r \in Requests |-> 0] /\ outcome = [r \in Requests |-> "none"]

-----------------------------------------------------------------------------
(* Admission.                                                              *)

authorized(c, required) ==
    IF TokenSet /\ (~c.loopback \/ required) THEN c.bearer ELSE c.localHost

\* 404, 401 and, with the gate closed, 503; required is read from the live configuration.
Refuse(r) ==
    /\ phase[r] = "new"
    /\ \E c \in Callers, required \in BOOLEAN : ~c.v1 \/ ~authorized(c, required) \/ ~open
    /\ phase' = [phase EXCEPT ![r] = "refused"]
    /\ UNCHANGED <<gateVars, ctlVars, cause, respVars, end, accVars>>

admit(r) ==
    /\ phase[r] = "new" /\ open
    /\ \E c \in Callers, required \in BOOLEAN : c.v1 /\ authorized(c, required)
    /\ active' = active \cup {r} /\ phase' = [phase EXCEPT ![r] = "forward"]
    /\ UNCHANGED <<open, notify, ctlVars, cause, respVars, end, accVars>>

-----------------------------------------------------------------------------
(* The cancellation cause: the first one stays.                            *)

Serving == {"forward", "stream", "blocked"}
Cancel(r, why) == cause' = [cause EXCEPT ![r] = IF @ = "none" THEN why ELSE @]

\* time.AfterFunc; the timer is stopped first of all when ServeHTTP has
\* returned, but its function may be under way.
Timeout(r) ==
    /\ phase[r] \in Serving \cup {"return", "release"} /\ cause[r] = "none" /\ Cancel(r, "timeout")
    /\ UNCHANGED <<gateVars, ctlVars, phase, respVars, end, accVars>>

HangUp(r) ==
    /\ ClientsLeave /\ phase[r] \in Serving /\ cause[r] = "none" /\ Cancel(r, "client")
    /\ UNCHANGED <<gateVars, ctlVars, phase, respVars, end, accVars>>

-----------------------------------------------------------------------------
(* Forwarding, in httputil.ReverseProxy.                                   *)

\* The transport gives up a round trip, or the reading of a body, whose context is cancelled.
Interrupted(r) == cause[r] # "none"

Respond(r) ==
    /\ phase[r] = "forward"
    /\ status' \in {[status EXCEPT ![r] = s] : s \in {200, 400, 500}}
    /\ phase' = [phase EXCEPT ![r] = "stream"]
    /\ UNCHANGED <<gateVars, ctlVars, cause, whole, panicked, end, accVars>>

BodyEnds(r) ==
    /\ phase[r] = "stream"
    /\ phase' = [phase EXCEPT ![r] = "return"] /\ whole' = [whole EXCEPT ![r] = TRUE]
    /\ UNCHANGED <<gateVars, ctlVars, cause, status, panicked, end, accVars>>

\* ErrorHandler: a cut aborts, anything else is a 502.
ErrorHandler(r) ==
    /\ phase[r] = "forward"
    /\ phase' = [phase EXCEPT ![r] = "return"]
    /\ IF cause[r] \in {"preempted", "timeout"}
       THEN panicked' = [panicked EXCEPT ![r] = TRUE] /\ UNCHANGED <<status, whole>>
       ELSE /\ status' = [status EXCEPT ![r] = 502] /\ whole' = [whole EXCEPT ![r] = TRUE]
            /\ UNCHANGED panicked
    /\ UNCHANGED <<gateVars, ctlVars, cause, end, accVars>>

\* A body that breaks off makes ReverseProxy panic.
BodyBreaks(r) ==
    /\ phase[r] = "stream"
    /\ phase' = [phase EXCEPT ![r] = "return"] /\ panicked' = [panicked EXCEPT ![r] = TRUE]
    /\ UNCHANGED <<gateVars, ctlVars, cause, status, whole, end, accVars>>

Fail(r) == (RuntimeFails \/ Interrupted(r)) /\ (ErrorHandler(r) \/ BodyBreaks(r))

\* A caller that does not read blocks the handler in Write, which no context
\* reaches and for which the server sets no timeout.
Stall(r) ==
    /\ ClientsStall /\ phase[r] = "stream" /\ phase' = [phase EXCEPT ![r] = "blocked"]
    /\ UNCHANGED <<gateVars, ctlVars, cause, respVars, end, accVars>>

\* It reads again, or its connection breaks.
Resume(r) ==
    /\ phase[r] = "blocked" /\ phase' = [phase EXCEPT ![r] = "stream"]
    /\ UNCHANGED <<gateVars, ctlVars, cause, respVars, end, accVars>>

-----------------------------------------------------------------------------
(* The deferred account, and the release.                                  *)

Outcome(r) ==
    IF panicked[r] THEN (IF cause[r] = "timeout" THEN "timeout" ELSE "force_closed")
    ELSE IF status[r] >= 500 THEN "upstream_error"
    ELSE IF status[r] >= 400 THEN "client_error" ELSE "ok"

Account(r) ==
    /\ phase[r] = "return" /\ phase' = [phase EXCEPT ![r] = "release"]
    /\ accounts' = [accounts EXCEPT ![r] = @ + 1] /\ outcome' = [outcome EXCEPT ![r] = Outcome(r)]
    /\ UNCHANGED <<gateVars, ctlVars, cause, respVars, end>>

\* A panic raised again after the release cuts the connection.
End(r) == end' = [end EXCEPT ![r] = IF panicked[r] THEN "abort" ELSE "clean"]

\* Mutant: the controller is woken before the ticket is gone.
release_SignalsFirst(r) ==
    \/ /\ phase[r] = "release" /\ phase' = [phase EXCEPT ![r] = "signal"]
       /\ notify' = TRUE /\ Cancel(r, "done") /\ UNCHANGED <<active, end>>
    \/ /\ phase[r] = "signal" /\ phase' = [phase EXCEPT ![r] = "done"]
       /\ active' = active \ {r} /\ End(r) /\ UNCHANGED <<notify, cause>>

\* release: the ticket goes under the lock, the signal follows outside it.
release(r) ==
    \/ /\ phase[r] = "release" /\ phase' = [phase EXCEPT ![r] = "signal"]
       /\ active' = active \ {r} /\ UNCHANGED <<notify, cause, end>>
    \/ /\ phase[r] = "signal" /\ phase' = [phase EXCEPT ![r] = "done"]
       /\ notify' = TRUE /\ Cancel(r, "done") /\ End(r) /\ UNCHANGED active

Release(r) == release(r) /\ UNCHANGED <<open, ctlVars, respVars, accVars>>

-----------------------------------------------------------------------------
(* The controller's side of the gate.                                      *)

Open ==
    /\ ctl = "closed" /\ ctl' = "serving" /\ open' = TRUE /\ notify' = TRUE
    /\ UNCHANGED <<active, toCut, phase, cause, respVars, end, accVars>>

\* Close, and a drain if it finds requests.
BeginDrain ==
    /\ ctl = "serving" /\ open' = FALSE /\ ctl' = IF active = {} THEN "closed" ELSE "draining"
    /\ UNCHANGED <<active, notify, toCut, phase, cause, respVars, end, accVars>>

\* Run, woken by the gate, and the DRAINING case of act.
Woken ==
    /\ notify /\ notify' = FALSE /\ ctl' = IF ctl = "draining" /\ active = {} THEN "closed" ELSE ctl
    /\ ctl # "cutting"
    /\ UNCHANGED <<open, active, toCut, phase, cause, respVars, end, accVars>>

\* Mutant: the tickets are listed while the gate still admits.
ForceCloseAll_WhileOpen ==
    /\ ctl \in {"serving", "draining"} /\ ctl' = "cutting" /\ toCut' = active
    /\ UNCHANGED <<gateVars, phase, cause, respVars, end, accVars>>

\* A preemption or the end of the grace period: Close, then the tickets are
\* listed under the lock and cancelled outside it.
ForceCloseAll ==
    /\ ctl \in {"serving", "draining"} /\ active # {}
    /\ open' = FALSE /\ ctl' = "cutting" /\ toCut' = active
    /\ UNCHANGED <<active, notify, phase, cause, respVars, end, accVars>>

CancelOne(r) ==
    /\ ctl = "cutting" /\ r \in toCut /\ toCut' = toCut \ {r} /\ Cancel(r, "preempted")
    /\ UNCHANGED <<gateVars, ctl, phase, respVars, end, accVars>>

\* beginStop, which closes the gate again.
BeginStop ==
    /\ ctl = "cutting" /\ toCut = {} /\ ctl' = "closed" /\ open' = FALSE
    /\ UNCHANGED <<active, notify, toCut, phase, cause, respVars, end, accVars>>

Controller == Open \/ BeginDrain \/ Woken \/ ForceCloseAll \/ BeginStop
Handler(r) ==
    \/ Refuse(r) \/ admit(r) \/ Timeout(r) \/ HangUp(r) \/ Respond(r) \/ BodyEnds(r) \/ Fail(r)
    \/ Stall(r) \/ Resume(r) \/ Account(r) \/ Release(r)

Next == Controller \/ \E r \in Requests : CancelOne(r) \/ Handler(r)

\* The timer fires, a cancelled transfer gives up, a handler that returned
\* runs its deferred calls, and the controller's loop and its step go on. No
\* caller and no runtime owes anything.
Fairness ==
    /\ WF_vars(Woken) /\ WF_vars(BeginStop)
    /\ \A r \in Requests :
         /\ WF_vars(Timeout(r)) /\ WF_vars(CancelOne(r)) /\ WF_vars(Account(r)) /\ WF_vars(Release(r))
         /\ WF_vars(Interrupted(r) /\ (ErrorHandler(r) \/ BodyBreaks(r)))

Spec == Init /\ [][Next]_vars /\ Fairness

-----------------------------------------------------------------------------
(* Properties.                                                             *)

\* A drain that ends is complete in the books: a request that left the gate,
\* which is what the controller counts, was accounted for once, whichever way
\* it ended (the deferred function of New: "Release last").
AccountedBeforeReleased ==
    \A r \in Requests : phase[r] \notin {"new", "refused"} /\ r \notin active => accounts[r] = 1

\* A truncated response never looks complete: a caller that saw a clean end
\* was sent all of a response or an error body (ErrorHandler, panic(rec)).
CutIsVisible == \A r \in Requests : end[r] = "clean" => whole[r]

\* A stop leaves no request running: once the controller goes on to stop the
\* runtime, every request still at the gate has been cancelled, although
\* requests come, finish and are cut while it closes the gate (ForceCloseAll).
NobodyLeftBehind == ctl = "closed" => \A r \in active : cause[r] # "none"

\* What is counted as served was served: the outcome ok is of a whole
\* response, and timeout only of a request the timer was first to cancel, even
\* if a preemption or a hang-up raced it (New, the recover).
OutcomeIsEarned ==
    \A r \in Requests :
        /\ outcome[r] \in {"ok", "client_error", "upstream_error"} => whole[r]
        /\ outcome[r] = "timeout" => cause[r] = "timeout"
        /\ outcome[r] \in {"timeout", "force_closed"} => ~whole[r]

\* Every admitted request ends, by the runtime, its timer or a cut, whose causes
\* race each other, unless its caller stops reading: a handler blocked in Write
\* is reached by neither, so of such a request the words of MaxDuration
\* ("bounds each request; exceeding it cuts the connection") are not true.
EveryRequestEnds == \A r \in Requests : r \in active ~> r \notin active \/ phase[r] = "blocked"

\* The end of a drain is noticed without the controller's tick, which this
\* specification leaves out: no wake-up is lost (Gate.signal, Run).
DrainEndIsNoticed == (ctl = "draining" /\ active = {}) ~> ctl # "draining"

=============================================================================
