----------------------------- MODULE MCService -----------------------------
(***************************************************************************)
(* The service around the controller: its host and the events of Windows,  *)
(* its certificate, the state it keeps across restarts, and its event      *)
(* history. They share no variables, so each is checked while the others   *)
(* are at rest: an instance picks the part that moves in its initial       *)
(* states.                                                                 *)
(***************************************************************************)
EXTENDS Integers, FiniteSets, Sequences

CONSTANTS Parts,   \* the parts that move in this instance
          EventBuffer, StopTimeout, ShutdownTimeout, PreshutdownTimeout,
          SuspendBudget, ExitMargin, Requests, Horizon, MaxRequests, Sources,
          Pairs, Validity, StoreCerts, MaxWrites, TlsNow,
          MaxCrashes, StartupCooldown, FaultCooldown, RestartNow, MaxFaults,
          MaxSets, SaveFailures, Emitters, BufferSize, MaxBatch, EventsMax,
          MaxAge, PageMax, MaxEmits, WriteFailures, MaxPrunes, Readers,
          LogNow

VARIABLES part,
          now, control, reqs, sup, events, cancelled, handler, acks, dropped,
          suspending, live, host, sent,
          file, served, mtimes, pc, got, problems, writes, store, clock,
          crashes, source, unseen,
          restartNow, boot, up, mode, timers, disk, persisted, persistPc,
          faults, sets, failures, durable,
          logNow, emitted, sending, ch, closed, batch, writer, logDropped,
          failed, returned, panicked, table, lastID, logFailures, prunes,
          page

Sv == INSTANCE Supervisor
Tl == INSTANCE TlsCert WITH MaxNow <- TlsNow
Rs == INSTANCE Restart WITH now <- restartNow, pc <- persistPc, MaxNow <- RestartNow,
        MaxFailures <- SaveFailures
Ev == INSTANCE EventLog WITH now <- logNow, dropped <- logDropped, failures <- logFailures,
        MaxNow <- LogNow, MaxFailures <- WriteFailures

\* Three certificates in the store: two in turn, and one for clients only.
MCStoreCerts == {[id |-> 1, from |-> 0, until |-> 2, match |-> TRUE, server |-> TRUE, key |-> TRUE],
                 [id |-> 2, from |-> 1, until |-> 3, match |-> TRUE, server |-> TRUE, key |-> TRUE],
                 [id |-> 3, from |-> 0, until |-> 4, match |-> TRUE, server |-> FALSE, key |-> TRUE]}

\* Of the pairs of files, the first expires, the second comes into force later,
\* and the others last.
MCValidity == [i \in Pairs |-> CASE i = 1 -> [from |-> 0, until |-> 1]
                                 [] i = 2 -> [from |-> 1, until |-> TlsNow + 1]
                                 [] OTHER -> [from |-> 0, until |-> TlsNow + 1]]

ASSUME ConstantsAssumption ==
    /\ Parts \subseteq {"supervisor", "tls", "restart", "events"}
    /\ Sv!SupervisorConstants
    /\ Tl!TlsAssumption
    /\ Rs!RestartConstants
    /\ Ev!EventLogConstants

-----------------------------------------------------------------------------
supervisorVars == <<now, control, reqs, sup, events, cancelled, handler, acks, dropped,
    suspending, live, host, sent>>
tlsVars == <<file, served, mtimes, pc, got, problems, writes, store, clock, crashes,
    source, unseen>>
restartVars == <<restartNow, boot, up, mode, timers, disk, persisted, persistPc, faults,
    sets, failures, durable>>
eventsVars == <<logNow, emitted, sending, ch, closed, batch, writer, logDropped, failed,
    returned, panicked, table, lastID, logFailures, prunes, page>>
vars == <<part, supervisorVars, tlsVars, restartVars, eventsVars>>

\* Every part starts as its module says; what it starts from is only chosen
\* for the part that moves.
Init ==
    /\ part \in Parts
    /\ Sv!Init /\ Tl!Init /\ Rs!Init /\ Ev!Init
    /\ part # "tls" => source = "files" /\ \A f \in Tl!Files : file[f].pair = 0

\* A step of one part, with the others at rest.
SvMoves(A) == part = "supervisor" /\ A /\ UNCHANGED <<part, tlsVars, restartVars, eventsVars>>
TlMoves(A) == part = "tls" /\ A /\ UNCHANGED <<part, supervisorVars, restartVars, eventsVars>>
RsMoves(A) == part = "restart" /\ A /\ UNCHANGED <<part, supervisorVars, tlsVars, eventsVars>>
EvMoves(A) == part = "events" /\ A /\ UNCHANGED <<part, supervisorVars, tlsVars, restartVars>>

Next ==
    \/ SvMoves(Sv!Next)
    \/ TlMoves(Tl!Next)
    \/ RsMoves(Rs!Next)
    \/ EvMoves(Ev!Next)

\* The fairness each module states for its part.
Fairness ==
    /\ WF_supervisorVars(part = "supervisor" /\ Sv!ControlQueue)
    /\ WF_supervisorVars(part = "supervisor" /\ Sv!ControlReturn)
    /\ WF_supervisorVars(part = "supervisor" /\ Sv!Supervise)
    /\ WF_supervisorVars(part = "supervisor" /\ Sv!SuperviseDone)
    /\ WF_supervisorVars(part = "supervisor" /\ \E i, c, m \in BOOLEAN : Sv!Start(i, c, m))
    /\ WF_supervisorVars(part = "supervisor" /\ Sv!HandlerStep)
    /\ WF_supervisorVars(part = "supervisor" /\ Sv!Tick)
    /\ WF_tlsVars(part = "tls" /\ Tl!Manager)
    /\ WF_restartVars(part = "restart" /\ Rs!Persist) /\ WF_restartVars(part = "restart" /\ Rs!Step)
    /\ WF_eventsVars(part = "events" /\ Ev!Writer) /\ WF_eventsVars(part = "events" /\ Ev!CloseReturns)

Spec == Init /\ [][Next]_vars

LiveSpec == Spec /\ Fairness

-----------------------------------------------------------------------------
(* Properties: what each part promises is stated in its module.            *)

(* Sleep and wake-up through a bounded buffer: a suspend released within   *)
(* its budget finds no runtime up unless the service is stopping or the    *)
(* event was dropped, every suspend is acknowledged at most once, and the  *)
(* controller of an awake machine is not left suspending as long as no     *)
(* event was dropped. A resume that the full buffer drops is not repeated  *)
(* and not claimed of (deliver, Event.Ack, Execute).                       *)
PowerIsHandled ==
    [][part = "supervisor" =>
         (Sv!TypeOK /\ Sv!ResumedWhenAwake /\ Sv!AckedOnce)' /\ Sv!SleepsReleased]_vars

(* The pair served is of one renewal, and in force when it is taken up,    *)
(* although its two files are replaced one after the other and while they  *)
(* are read; a bad renewal is reported once, and of the certificates in    *)
(* the store one in force is never given up for one that ends sooner       *)
(* (load, current, storeCertificate).                                      *)
CertificateIsSound ==
    [][part = "tls" => (Tl!ServedIsWhole /\ Tl!WarnedOnce)'
                       /\ Tl!TakenUpInForce /\ Tl!StoreNeverWorse]_vars

(* A restart skips no wait that was stored: Start goes on with the crash   *)
(* count and the competing use last written, and a mode that ends at a     *)
(* time or with the boot still does (store.Timers, Start).                 *)
RestartKeepsRecords ==
    [][part = "restart" => (Rs!TypeOK /\ Rs!ModeEndsOnTime)' /\ Rs!RecordsSurvive]_vars

(* A reader who pages through the event history while it grows and is      *)
(* pruned sees no event twice and misses none that stayed, and pruning     *)
(* takes an event that is young only when enough newer ones remain (Query, *)
(* Prune).                                                                 *)
PagesAreWhole == [][part = "events" => Ev!PagesAreComplete' /\ Ev!PruneKeepsNewest]_vars

(* Every event emitted is stored, dropped or failed and counted as such,   *)
(* in the order of emission; nobody sends on the closed channel, and Close *)
(* leaves nothing behind (Emit, run, Close).                               *)
EventsAreKept ==
    part = "events" =>
        /\ Ev!TypeOK /\ Ev!EveryEventAccounted /\ Ev!EmissionOrder
        /\ Ev!NoSendOnClosed /\ Ev!CloseFlushes

(* A control of Windows returns, and a stop ends the service (Execute).    *)
ControlsComplete == Sv!ControlReturns /\ Sv!StopCompletes

(* A renewed pair of files that a load read is served at last, and a       *)
(* service with a certificate of its own making serves one (current,       *)
(* ensureSelfSigned).                                                      *)
CertificatesTakeEffect == Tl!RenewalTakesEffect /\ Tl!SelfSignedServes

(* What was accepted becomes durable: a changed mode or timer is stored in *)
(* the end although saves fail, unless the service dies first, and Close   *)
(* returns although the database fails (persist, Close).                   *)
AcceptedBecomesDurable == Rs!ChangesBecomeDurable /\ Ev!CloseCompletes

(* "Recovery waits for faults ... survive a restart or the blue screen     *)
(* they guard against": after Start the wait of the last saved fault still *)
(* holds.                                                                  *)
FaultWaitSurvives == Rs!FaultWaitSurvives
=============================================================================
