---------------------------- MODULE Supervisor ----------------------------
(***************************************************************************)
(* The service host: the control handler Windows calls (plane.control),    *)
(* the supervising loop (plane.supervise) and the service body's event     *)
(* loop (Service.Run), which share two bounded channels, a context and one *)
(* acknowledgement channel per suspend notification.                       *)
(*                                                                         *)
(* Source: internal/winsvc/supervisor.go, winsvc.go, run_windows.go;       *)
(* internal/service/service.go (Run); internal/controller/backend.go       *)
(* (PrepareSuspend, Resumed, Shutdown) as far as the host can see them.    *)
(***************************************************************************)
EXTENDS Integers, Sequences, FiniteSets

CONSTANTS
    EventBuffer,        \* capacity of both channels (64)
    StopTimeout,        \* budget of a stop request
    ShutdownTimeout,    \* budget of a plain shutdown notification
    PreshutdownTimeout, \* budget of a pre-shutdown notification
    SuspendBudget,      \* how long a suspend notification is held
    ExitMargin,         \* what Run keeps of the deadline for its servers
    Requests,           \* bound: the control requests Windows makes
    Horizon,            \* bound: requests arrive before this instant
    MaxRequests         \* bound: control requests in one behaviour

Cmd == {"stop", "preshutdown", "shutdown", "suspend", "resume", "session",
        "interrogate", "other"}

\* What the values of the constants have to satisfy.
SupervisorConstants ==
    /\ Requests \subseteq Cmd
    /\ EventBuffer \in Nat \ {0}
    /\ {StopTimeout, ShutdownTimeout, PreshutdownTimeout, SuspendBudget} \subseteq Nat \ {0}
    /\ ExitMargin \in Nat
    /\ Horizon \in Nat /\ MaxRequests \in Nat

VARIABLES
    now,        \* the clock
    control,    \* the SCM dispatcher's thread in plane.control
    reqs,       \* plane.reqs
    sup,        \* the supervising loop: what it was asked and reported
    events,     \* the channel to the service body
    cancelled,  \* the service body's context has ended
    handler,    \* the service body's goroutine
    acks,       \* how often each suspend's Done channel was closed
    dropped,    \* an event was dropped because the channel was full
    suspending, \* the controller's power.Suspending
    live,       \* the runtime process that holds the GPU, if any
    host,       \* the machine: awake, or told to sleep
    sent        \* control requests so far

vars == <<now, control, reqs, sup, events, cancelled, handler, acks, dropped,
          suspending, live, host, sent>>

-----------------------------------------------------------------------------
(* Requests and events. A request carries the instant it was made and, for *)
(* a suspend, the identity of its Done channel (0 means none).             *)

Request == [cmd : Cmd, at : Nat, done : Nat]

Event == [kind : {"stop", "shutdown", "suspend", "resume", "session"},
          deadline : Nat, done : Nat]

NoEvent == [kind |-> "none", deadline |-> 0, done |-> 0]
NoRequest == [cmd |-> "none", at |-> 0, done |-> 0]

\* The requests whose deadline runs from the instant they were made.
Timed(cmd) == cmd \in {"stop", "preshutdown", "shutdown", "suspend"}

\* Requests without a meaning for the service (translate returns false).
Ignored(r) == r.cmd = "other"

translate(r) ==
    [kind |-> IF r.cmd = "preshutdown" THEN "shutdown" ELSE r.cmd,
     deadline |-> CASE r.cmd = "stop" -> r.at + StopTimeout
                    [] r.cmd = "preshutdown" -> r.at + PreshutdownTimeout
                    [] r.cmd = "shutdown" -> r.at + ShutdownTimeout
                    [] r.cmd = "suspend" -> r.at + SuspendBudget
                    [] OTHER -> 0,
     done |-> r.done]

MaxNow == Horizon + StopTimeout + PreshutdownTimeout + SuspendBudget + ExitMargin

Init ==
    /\ now = 0
    /\ control = [pc |-> "idle", req |-> NoRequest, until |-> 0]
    /\ reqs = <<>>
    /\ sup = [phase |-> "running", stopping |-> FALSE, deadline |-> 0, failed |-> FALSE]
    /\ events = <<>>
    /\ cancelled = FALSE
    /\ handler = [pc |-> "start", ev |-> NoEvent, deadline |-> 0, until |-> 0, err |-> FALSE]
    /\ acks = [d \in 1..MaxRequests |-> 0]
    /\ dropped = FALSE
    /\ suspending = FALSE
    /\ live = "none"
    /\ host = "awake"
    /\ sent = 0

\* A panic in the service body ends the process: nothing runs any more.
Running == handler.pc # "crashed"

-----------------------------------------------------------------------------
(* The dispatcher's thread. It serialises the requests, so one is made     *)
(* only once the previous call has returned.                               *)

\* Windows makes the next request. It resumes a machine it let sleep, and
\* may repeat a resume for a user who is present.
Broadcast(cmd) ==
    /\ Running /\ control.pc = "idle" /\ sent < MaxRequests /\ now < Horizon
    /\ cmd = "suspend" => host = "awake"
    /\ (host = "asleep") => (cmd = "resume")
    /\ sent' = sent + 1
    /\ host' = IF cmd = "suspend" THEN "asleep" ELSE "awake"
    /\ control' = [pc |-> "queue", until |-> 0,
                   req |-> [cmd |-> cmd, at |-> IF Timed(cmd) THEN now ELSE 0,
                            done |-> IF cmd = "suspend" THEN sent + 1 ELSE 0]]
    /\ UNCHANGED <<now, reqs, sup, events, cancelled, handler, acks, dropped, suspending, live>>

\* control queues the request; only a suspend is then held.
ControlQueue ==
    /\ Running /\ control.pc = "queue" /\ Len(reqs) < EventBuffer
    /\ reqs' = Append(reqs, control.req)
    /\ control' = IF control.req.done = 0
                  THEN [pc |-> "idle", req |-> NoRequest, until |-> 0]
                  ELSE [control EXCEPT !.pc = "hold", !.until = now + SuspendBudget]
    /\ UNCHANGED <<now, sup, events, cancelled, handler, acks, dropped, suspending, live, host, sent>>

\* control returns: the request is acknowledged, its budget has passed, or
\* the supervising loop has returned.
ControlReturn ==
    /\ Running
    /\ \/ control.pc = "queue" /\ sup.phase = "stopped"
       \/ /\ control.pc = "hold"
          /\ \/ acks[control.req.done] > 0
             \/ now >= control.until
             \/ sup.phase = "stopped"
    /\ control' = [pc |-> "idle", req |-> NoRequest, until |-> 0]
    /\ UNCHANGED <<now, reqs, sup, events, cancelled, handler, acks, dropped, suspending, live, host, sent>>

-----------------------------------------------------------------------------
(* The supervising loop.                                                   *)

Ack(d) == acks' = IF d = 0 THEN acks ELSE [acks EXCEPT ![d] = @ + 1]

\* deliver: a service body blocked in its select receives the event at
\* once; otherwise the event is queued, or dropped when the buffer is full.
deliver(ev) ==
    /\ handler' = IF handler.pc = "parked"
                  THEN [handler EXCEPT !.pc = "got", !.ev = ev] ELSE handler
    /\ events' = IF handler.pc # "parked" /\ Len(events) < EventBuffer
                 THEN Append(events, ev) ELSE events

Full == handler.pc # "parked" /\ Len(events) >= EventBuffer

AsksToStop(ev) == ev.kind \in {"stop", "shutdown"}

\* Mutant: the event alone tells the service body.
SuperviseStop_NoCancel(ev) ==
    /\ AsksToStop(ev) /\ ~sup.stopping
    /\ sup' = [sup EXCEPT !.phase = "stop_pending", !.stopping = TRUE, !.deadline = ev.deadline]
    /\ deliver(ev)
    /\ UNCHANGED <<cancelled, acks, dropped>>

\* A first stop or shutdown: report it, queue it, end the context.
SuperviseStop(ev) ==
    /\ AsksToStop(ev) /\ ~sup.stopping
    /\ sup' = [sup EXCEPT !.phase = "stop_pending", !.stopping = TRUE, !.deadline = ev.deadline]
    /\ deliver(ev)
    /\ cancelled' = TRUE
    /\ UNCHANGED <<acks, dropped>>

\* A later one can only shorten the deadline.
SuperviseStopAgain(ev) ==
    /\ AsksToStop(ev) /\ sup.stopping
    /\ IF ev.deadline < sup.deadline
       THEN sup' = [sup EXCEPT !.deadline = ev.deadline] /\ deliver(ev)
       ELSE UNCHANGED <<sup, events, handler>>
    /\ UNCHANGED <<cancelled, acks, dropped>>

\* A suspend while stopping is acknowledged at once.
SuperviseSuspendStopping(ev) ==
    /\ ev.kind = "suspend" /\ sup.stopping
    /\ Ack(ev.done)
    /\ UNCHANGED <<sup, events, handler, cancelled, dropped>>

\* Anything else goes to the service body; what does not fit is dropped and
\* acknowledged here.
SuperviseForward(ev) ==
    /\ ~AsksToStop(ev) /\ ~(ev.kind = "suspend" /\ sup.stopping)
    /\ deliver(ev)
    /\ dropped' = (dropped \/ Full)
    /\ Ack(IF Full THEN ev.done ELSE 0)
    /\ UNCHANGED <<sup, cancelled>>

\* One request from the queue. Interrogate repeats the last status and an
\* unknown request is skipped: neither changes anything.
Supervise ==
    /\ Running /\ sup.phase # "stopped" /\ reqs # <<>>
    /\ reqs' = Tail(reqs)
    /\ LET r == Head(reqs) IN
       IF r.cmd = "interrogate" \/ Ignored(r)
       THEN UNCHANGED <<sup, events, cancelled, handler, acks, dropped>>
       ELSE LET ev == translate(r) IN
            \/ SuperviseStop(ev)
            \/ SuperviseStopAgain(ev)
            \/ SuperviseSuspendStopping(ev)
            \/ SuperviseForward(ev)
    /\ UNCHANGED <<now, control, suspending, live, host, sent>>

\* The service body has returned: report the service stopped, as failed when
\* it returned an error nobody asked for.
SuperviseDone ==
    /\ Running /\ sup.phase # "stopped" /\ handler.pc = "returned"
    /\ sup' = [sup EXCEPT !.phase = "stopped", !.failed = handler.err /\ ~sup.stopping]
    /\ UNCHANGED <<now, control, reqs, events, cancelled, handler, acks, dropped, suspending, live, host, sent>>

-----------------------------------------------------------------------------
(* The service body.                                                       *)

\* What PrepareSuspend and Shutdown wait for: a runtime that runs or whose
\* termination is being verified. They do not wait for one that is retained
\* because its last stop failed.
Busy == live \in {"up", "verifying"}

HandlerOnly == UNCHANGED <<now, control, reqs, sup, cancelled, dropped, host, sent>>

\* Run binds its listeners. An unusable certificate closes the inference
\* listener and leaves it nil; the management listener's error path closes
\* the inference listener, and closing a nil one panics.
Start(inference, certificate, management) ==
    /\ handler.pc = "start"
    /\ handler' = CASE ~inference -> [handler EXCEPT !.pc = "returned", !.err = TRUE]
                    [] inference /\ management -> [handler EXCEPT !.pc = "select"]
                    [] inference /\ ~management /\ certificate -> [handler EXCEPT !.pc = "returned", !.err = TRUE]
                    [] OTHER -> [handler EXCEPT !.pc = "crashed"]
    /\ UNCHANGED <<events, acks, suspending, live>>
    /\ HandlerOnly

\* The select with nothing ready blocks.
Park ==
    /\ handler.pc = "select" /\ events = <<>> /\ ~cancelled
    /\ handler' = [handler EXCEPT !.pc = "parked"]
    /\ UNCHANGED <<events, acks, suspending, live>>
    /\ HandlerOnly

\* The select takes an event that is ready,
Receive ==
    /\ handler.pc = "select" /\ events # <<>>
    /\ handler' = [handler EXCEPT !.pc = "got", !.ev = Head(events)]
    /\ events' = Tail(events)
    /\ UNCHANGED <<acks, suspending, live>>
    /\ HandlerOnly

\* or the end of the context, whether or not an event is ready too. Run then
\* takes StopTimeout from now for its deadline.
SeeCancelled ==
    /\ handler.pc = "select" /\ cancelled
    /\ handler' = [handler EXCEPT !.pc = "leave", !.deadline = now + StopTimeout]
    /\ UNCHANGED <<events, acks, suspending, live>>
    /\ HandlerOnly

\* The switch on the event's kind.
Handle ==
    /\ handler.pc = "got"
    /\ LET e == handler.ev IN
       /\ handler' = CASE AsksToStop(e) -> [handler EXCEPT !.pc = "leave", !.ev = NoEvent, !.deadline = e.deadline]
                       [] e.kind = "suspend" -> [handler EXCEPT !.pc = "suspend"]
                       [] OTHER -> [handler EXCEPT !.pc = "select", !.ev = NoEvent]
       /\ suspending' = CASE e.kind = "suspend" -> TRUE
                          [] e.kind = "resume" -> FALSE
                          [] OTHER -> suspending
    /\ UNCHANGED <<events, acks, live>>
    /\ HandlerOnly

\* Mutant: the event is acknowledged without waiting for the runtime.
SuspendHandled_AckFirst ==
    /\ handler.pc = "suspend"
    /\ Ack(handler.ev.done)
    /\ handler' = [handler EXCEPT !.pc = "select", !.ev = NoEvent]
    /\ UNCHANGED <<events, suspending, live>>
    /\ HandlerOnly

\* PrepareSuspend returns when no runtime is busy or the deadline has
\* passed; the event is acknowledged either way.
SuspendHandled ==
    /\ handler.pc = "suspend"
    /\ ~Busy \/ now >= handler.ev.deadline
    /\ Ack(handler.ev.done)
    /\ handler' = [handler EXCEPT !.pc = "select", !.ev = NoEvent]
    /\ UNCHANGED <<events, suspending, live>>
    /\ HandlerOnly

\* After the loop: what is left of the deadline, less a margin for the
\* servers and never below one second, is the budget of the GPU release.
Leave ==
    /\ handler.pc = "leave"
    /\ LET left == handler.deadline - now - ExitMargin IN
       handler' = [handler EXCEPT !.pc = "release", !.until = now + (IF left < 1 THEN 1 ELSE left)]
    /\ UNCHANGED <<events, acks, suspending, live>>
    /\ HandlerOnly

\* Shutdown returns once the runtime is gone; when the budget is over it
\* stops what is left, and what survives dies with the process, in its Job
\* Object. Then the servers and the store are closed.
Release ==
    /\ handler.pc = "release"
    /\ ~Busy \/ now >= handler.until
    /\ live' = "none"
    /\ handler' = [handler EXCEPT !.pc = "returned"]
    /\ UNCHANGED <<events, acks, suspending>>
    /\ HandlerOnly

-----------------------------------------------------------------------------
(* The controller and the clock. A runtime is started only while the       *)
(* controller runs and is not suspending; once it is, or shuts down, the   *)
(* runtime is stopped, in its own time.                                    *)

ControllerRuns == handler.pc \in {"select", "parked", "got", "suspend"}

Runtime(from, to) ==
    /\ live = from /\ live' = to
    /\ UNCHANGED <<now, control, reqs, sup, events, cancelled, handler, acks, dropped, suspending, host, sent>>

RuntimeStart == ControllerRuns /\ ~suspending /\ Runtime("none", "up")

\* A stop ends with the tree verified gone, or with a retained process.
RuntimeStop ==
    /\ handler.pc = "release" \/ (ControllerRuns /\ suspending)
    /\ Runtime("up", "none") \/ Runtime("up", "zombie")

\* The controller retries a failed termination until it is verified.
ZombieRetry ==
    /\ handler.pc = "release" \/ ControllerRuns
    /\ Runtime("zombie", "verifying") \/ Runtime("verifying", "zombie") \/ Runtime("verifying", "none")

\* The clock is only advanced while a later request or a timer waits for it.
Tick ==
    /\ Running /\ now < MaxNow
    /\ \/ now < Horizon
       \/ control.pc = "hold" /\ now < control.until
       \/ handler.pc = "suspend" /\ now < handler.ev.deadline
       \/ handler.pc = "release" /\ now < handler.until
    /\ now' = now + 1
    /\ UNCHANGED <<control, reqs, sup, events, cancelled, handler, acks, dropped, suspending, live, host, sent>>

HandlerStep == Park \/ Receive \/ SeeCancelled \/ Handle \/ SuspendHandled \/ Leave \/ Release

Next ==
    \/ \E c \in Requests : Broadcast(c)
    \/ ControlQueue \/ ControlReturn
    \/ Supervise \/ SuperviseDone
    \/ \E i, c, m \in BOOLEAN : Start(i, c, m)
    \/ HandlerStep
    \/ RuntimeStart \/ RuntimeStop \/ ZombieRetry
    \/ Tick

\* Every goroutine runs and the clock moves. The runtime need not stop.
Fairness ==
    /\ WF_vars(ControlQueue) /\ WF_vars(ControlReturn)
    /\ WF_vars(Supervise) /\ WF_vars(SuperviseDone)
    /\ WF_vars(\E i, c, m \in BOOLEAN : Start(i, c, m))
    /\ WF_vars(HandlerStep)
    /\ WF_vars(Tick)

Spec == Init /\ [][Next]_vars /\ Fairness

-----------------------------------------------------------------------------
TypeOK ==
    /\ now \in 0..MaxNow
    /\ control.pc \in {"idle", "queue", "hold"}
    /\ control.req \in Request \cup {NoRequest} /\ control.until \in Nat
    /\ reqs \in Seq(Request) /\ Len(reqs) <= EventBuffer
    /\ sup.phase \in {"running", "stop_pending", "stopped"}
    /\ sup.stopping \in BOOLEAN /\ sup.failed \in BOOLEAN /\ sup.deadline \in Nat
    /\ events \in Seq(Event) /\ Len(events) <= EventBuffer
    /\ handler.pc \in {"start", "select", "parked", "got", "suspend", "leave",
                       "release", "returned", "crashed"}
    /\ handler.ev \in Event \cup {NoEvent} /\ handler.deadline \in Nat /\ handler.until \in Nat
    /\ acks \in [1..MaxRequests -> Nat]
    /\ {cancelled, dropped, suspending} \subseteq BOOLEAN /\ live \in {"none", "up", "zombie", "verifying"}
    /\ host \in {"awake", "asleep"} /\ sent \in 0..MaxRequests

\* A suspend's Done channel is closed at most once: closing it again would
\* panic. The supervising loop acknowledges what it drops or what comes while
\* stopping, the service body what it handled, and never both.
AckedOnce == \A d \in 1..MaxRequests : acks[d] <= 1

\* A suspend notification released before its budget has passed finds no
\* runtime running, unless the service is stopping anyway or the event could not
\* be queued (Event.Ack, ADR 0013).
SleepsReleased ==
    (control.pc = "hold" /\ control'.pc = "idle" /\ now < control.until)
      => (live # "up" \/ sup.stopping \/ sup.phase = "stopped" \/ dropped
            \/ now >= control.req.at + SuspendBudget)

\* Once every request was handled and none was dropped, the controller of a
\* machine that is awake is not left suspending: suspend and resume arrive in
\* order even when the suspend ran out of its budget or the resume came twice.
ResumedWhenAwake ==
    (/\ host = "awake" /\ control.pc = "idle" /\ reqs = <<>> /\ events = <<>>
     /\ handler.pc \in {"select", "parked"} /\ ~dropped)
    => ~suspending

\* A held control handler always returns, so Windows is never blocked.
ControlReturns == control.pc # "idle" ~> control.pc = "idle" \/ ~Running

\* A service asked to stop stops, however its events were lost or reordered,
\* unless its start panicked.
StopCompletes == sup.stopping ~> sup.phase = "stopped" \/ ~Running

=============================================================================
