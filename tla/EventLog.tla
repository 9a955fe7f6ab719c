------------------------------ MODULE EventLog ------------------------------
(***************************************************************************)
(* The event history: a sink that never blocks its callers, the writer     *)
(* behind it, the events table with its retention, and a client that pages *)
(* backwards through it over the API while all that goes on.               *)
(*                                                                         *)
(* Source: internal/store/sink.go, internal/store/events.go,               *)
(* internal/store/store.go (tx), internal/api/handler.go (events).         *)
(***************************************************************************)
EXTENDS Integers, Sequences, FiniteSets

CONSTANTS
    Emitters,      \* goroutines that emit; each has a type of event of its own
    BufferSize,    \* room in the sink's channel
    MaxBatch,      \* events one transaction writes
    EventsMax,     \* retention.events_max, 0 for no bound
    MaxAge,        \* retention.events_days, 0 for no bound
    PageMax,       \* the API's largest page
    MaxEmits,      \* bound on events emitted
    MaxFailures,   \* bound on failing transactions
    MaxPrunes,     \* bound on prunes
    Readers,       \* clients paging through the history
    MaxNow         \* bound on the clock

\* What the values of the constants have to satisfy.
EventLogConstants ==
    /\ BufferSize \in Nat \ {0} /\ MaxBatch \in Nat \ {0} /\ PageMax \in Nat \ {0}
    /\ {EventsMax, MaxAge, MaxEmits, MaxFailures, MaxPrunes} \subseteq Nat
    /\ MaxNow \in Nat \ {0}

VARIABLES
    now,
    emitted,                \* events emitted so far
    sending,                \* emitters between Emit's check and its send, under the read lock
    ch, closed,             \* the channel and whether it was closed
    batch, writer,          \* the writer's batch and where it is
    dropped, failed,        \* the counters the service reports
    returned,               \* Close has returned
    panicked,               \* a send met a closed channel
    table, lastID,          \* the rows, and the last id given out
    failures, prunes,
    page                    \* each client's paging

sinkVars == <<emitted, sending, ch, closed, batch, writer, dropped, failed, returned, panicked>>
vars == <<now, emitted, sending, ch, closed, batch, writer, dropped, failed, returned,
          panicked, table, lastID, failures, prunes, page>>

Event(e) == [from |-> e, n |-> emitted, at |-> now]
NoPage == [state |-> "idle", before |-> 0, limit |-> 0, types |-> {}, seen |-> <<>>, start |-> {}]

Init ==
    /\ now = 1 /\ emitted = 0
    /\ sending = {} /\ ch = <<>> /\ closed = FALSE
    /\ batch = <<>> /\ writer = "receive"
    /\ dropped = 0 /\ failed = 0 /\ returned = FALSE /\ panicked = FALSE
    /\ table = {} /\ lastID = 0
    /\ failures = 0 /\ prunes = 0 /\ page = [r \in Readers |-> NoPage]

-----------------------------------------------------------------------------
(* The sink.                                                               *)

\* Emit takes the read lock; after Close the event is dropped.
EmitCheck(e) ==
    /\ emitted < MaxEmits /\ e \notin sending
    /\ emitted' = emitted + 1
    /\ IF closed
       THEN dropped' = dropped + 1 /\ UNCHANGED sending
       ELSE sending' = sending \cup {e} /\ UNCHANGED dropped
    /\ UNCHANGED <<now, ch, closed, batch, writer, failed, returned, panicked,
                   table, lastID, failures, prunes, page>>

\* The send never waits: a full buffer drops the event.
EmitSend(e) ==
    /\ e \in sending
    /\ sending' = sending \ {e}
    /\ panicked' = closed
    /\ IF Len(ch) < BufferSize
       THEN ch' = Append(ch, Event(e)) /\ UNCHANGED dropped
       ELSE dropped' = dropped + 1 /\ UNCHANGED ch
    /\ UNCHANGED <<now, emitted, closed, batch, writer, failed, returned,
                   table, lastID, failures, prunes, page>>

\* Mutant: Close does not take the lock.
Close_NoLock ==
    /\ ~closed
    /\ closed' = TRUE
    /\ UNCHANGED <<now, emitted, sending, ch, batch, writer, dropped, failed, returned, panicked,
                   table, lastID, failures, prunes, page>>

\* Close waits for the emitters under the lock, then closes the channel.
Close ==
    /\ ~closed /\ sending = {}
    /\ closed' = TRUE
    /\ UNCHANGED <<now, emitted, sending, ch, batch, writer, dropped, failed, returned, panicked,
                   table, lastID, failures, prunes, page>>

CloseReturns ==
    /\ closed /\ writer = "done" /\ ~returned
    /\ returned' = TRUE
    /\ UNCHANGED <<now, emitted, sending, ch, closed, batch, writer, dropped, failed, panicked,
                   table, lastID, failures, prunes, page>>

\* The writer ranges over the channel: it ends when it is closed and empty.
WriterReceive ==
    /\ writer = "receive" /\ (closed \/ ch # <<>>)
    /\ IF ch = <<>>
       THEN writer' = "done" /\ UNCHANGED <<ch, batch>>
       ELSE writer' = "fill" /\ batch' = <<Head(ch)>> /\ ch' = Tail(ch)
    /\ UNCHANGED <<now, emitted, sending, closed, dropped, failed, returned, panicked,
                   table, lastID, failures, prunes, page>>

WriterFill ==
    /\ writer = "fill"
    /\ IF Len(batch) < MaxBatch /\ ch # <<>>
       THEN batch' = Append(batch, Head(ch)) /\ ch' = Tail(ch) /\ UNCHANGED writer
       ELSE writer' = "append" /\ UNCHANGED <<ch, batch>>
    /\ UNCHANGED <<now, emitted, sending, closed, dropped, failed, returned, panicked,
                   table, lastID, failures, prunes, page>>

\* One transaction: every event of the batch gets the next id, or none does
\* and all are counted as failed.
AppendEvents(ok) ==
    /\ writer = "append" /\ (ok \/ failures < MaxFailures)
    /\ writer' = "receive" /\ batch' = <<>>
    /\ table' = IF ok THEN table \cup {[id |-> lastID + i, ev |-> batch[i]] : i \in 1..Len(batch)} ELSE table
    /\ lastID' = IF ok THEN lastID + Len(batch) ELSE lastID
    /\ failed' = IF ok THEN failed ELSE failed + Len(batch)
    /\ failures' = IF ok THEN failures ELSE failures + 1
    /\ UNCHANGED <<now, emitted, sending, ch, closed, dropped, returned, panicked, prunes, page>>

-----------------------------------------------------------------------------
(* Retention.                                                              *)

Young(row) == MaxAge = 0 \/ row.ev.at >= now - MaxAge

\* The n rows with the largest ids (ORDER BY id DESC LIMIT n).
Newest(rows, n) == {row \in rows : Cardinality({other \in rows : other.id > row.id}) < n}

\* What is too old goes first, then all but the newest EventsMax of the rest.
Kept(t) ==
    LET young == {row \in t : Young(row)}
    IN IF EventsMax = 0 THEN young ELSE Newest(young, EventsMax)

\* One transaction; a failing one removes nothing.
PruneEvents ==
    /\ prunes < MaxPrunes
    /\ prunes' = prunes + 1
    /\ table' = Kept(table)
    /\ UNCHANGED <<now, sinkVars, lastID, failures, page>>

-----------------------------------------------------------------------------
(* A client of GET /api/v1/events.                                         *)

Ids(rows) == {row.id : row \in rows}
Matches(types, row) == types = {} \/ row.ev.from \in types
Lowest(a, b) == IF a < b THEN a ELSE b

\* What a query selects: the rows of these types, older than the cursor.
Selected(before, types) == {row \in table : (before = 0 \/ row.id < before) /\ Matches(types, row)}

\* Mutant: the store's cap is the API's largest page.
Query_NoLookAhead(before, limit, types) == Newest(Selected(before, types), Lowest(limit, PageMax))

\* Store.Events: newest first, capped at one more than the API's largest page.
Query(before, limit, types) == Newest(Selected(before, types), Lowest(limit, PageMax + 1))

\* The handler asks for one row more than the page to learn whether an older
\* page exists, and hands out the id of the page's last row as the cursor.
FetchPage(r, limit, types) ==
    LET want == Lowest(limit, PageMax)
        rows == Query(page[r].before, want + 1, types)
        more == Cardinality(rows) > want
        got  == IF more THEN Newest(rows, want) ELSE rows
    IN page' = [page EXCEPT ![r] =
          [state  |-> IF more THEN "reading" ELSE "done",
           before |-> IF more THEN CHOOSE id \in Ids(got) : \A row \in got : id <= row.id ELSE 0,
           limit  |-> limit, types |-> types,
           seen   |-> Append(page[r].seen, Ids(got)),
           start  |-> IF page[r].state = "idle" THEN Ids({row \in table : Matches(types, row)})
                      ELSE page[r].start]]

FirstPage(r) ==
    /\ page[r].state = "idle"
    /\ \E limit \in 1..PageMax + 1, types \in {{}} \cup {{e} : e \in Emitters} : FetchPage(r, limit, types)
    /\ UNCHANGED <<now, sinkVars, table, lastID, failures, prunes>>

NextPage(r) ==
    /\ page[r].state = "reading"
    /\ FetchPage(r, page[r].limit, page[r].types)
    /\ UNCHANGED <<now, sinkVars, table, lastID, failures, prunes>>

Tick ==
    /\ now < MaxNow
    /\ now' = now + 1
    /\ sending = {}
    /\ UNCHANGED <<sinkVars, table, lastID, failures, prunes, page>>

Writer == WriterReceive \/ WriterFill \/ \E ok \in BOOLEAN : AppendEvents(ok)

Next ==
    \/ \E e \in Emitters : EmitCheck(e) \/ EmitSend(e)
    \/ Close \/ CloseReturns
    \/ Writer
    \/ PruneEvents \/ Tick
    \/ \E r \in Readers : FirstPage(r) \/ NextPage(r)

Spec == Init /\ [][Next]_vars /\ WF_vars(Writer) /\ WF_vars(CloseReturns)

-----------------------------------------------------------------------------
TypeOK ==
    /\ now \in 1..MaxNow /\ emitted \in 0..MaxEmits
    /\ sending \subseteq Emitters /\ Len(ch) \in 0..BufferSize /\ Len(batch) \in 0..MaxBatch
    /\ {closed, returned, panicked} \subseteq BOOLEAN
    /\ writer \in {"receive", "fill", "append", "done"}
    /\ dropped \in 0..MaxEmits /\ failed \in 0..MaxEmits
    /\ lastID \in 0..MaxEmits /\ Ids(table) \subseteq 1..lastID
    /\ failures \in 0..MaxFailures /\ prunes \in 0..MaxPrunes

\* No event disappears unnoticed: everything emitted is stored, buffered, in
\* the writer's hands or counted by Dropped or Failed.
EveryEventAccounted ==
    emitted = lastID + Len(ch) + Len(batch) + Cardinality(sending) + dropped + failed

\* The table holds each emitter's events in the order it emitted them, so
\* paging by id is paging by time of emission.
EmissionOrder ==
    \A a, b \in table : a.id < b.id /\ a.ev.from = b.ev.from => a.ev.n < b.ev.n

\* A send never meets the closed channel, however Emit and Close interleave.
NoSendOnClosed == ~panicked

\* Close returns with nothing left behind: what was accepted is written or
\* counted as failed.
CloseFlushes == returned => ch = <<>> /\ batch = <<>> /\ sending = {}

\* Close always returns, a failing database included.
CloseCompletes == closed ~> returned

\* A client that pages to the end sees no event twice, each page older than
\* the one before, and, of the events that were there when it began, misses
\* only those the retention removed.
PagesAreComplete ==
    \A r \in Readers :
        /\ \A i, j \in 1..Len(page[r].seen) :
             i < j => \A a \in page[r].seen[i], b \in page[r].seen[j] : a > b
        /\ page[r].state = "done" => page[r].start \cap Ids(table) \subseteq UNION {page[r].seen[i] : i \in 1..Len(page[r].seen)}

\* Retention removes an event that is not too old only when EventsMax newer
\* ones that are not too old either remain.
PruneKeepsNewest ==
    \A row \in table :
      row \notin table' /\ Young(row) => Cardinality(table') = EventsMax /\ \A other \in table' : other.id > row.id
=============================================================================
