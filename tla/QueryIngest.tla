---------------------------- MODULE QueryIngest ----------------------------
(***************************************************************************)
(* Query ingest: mosdns sends batches of query events and repeats a batch  *)
(* whose answer it did not get.  Enqueue puts a batch into a bounded queue *)
(* as a whole or not at all; one writer goroutine collects events, stores  *)
(* them with their hourly aggregates in one transaction, keeps the answer  *)
(* diagnostics of the latest ones in memory and passes what is new to the  *)
(* live streams.  Retention and ClearQueryHistory delete rows beside it.   *)
(*                                                                         *)
(* Events stand for their event_id: a repeated event has the same one.     *)
(***************************************************************************)
EXTENDS Naturals, Sequences, FiniteSets, SequencesExt

CONSTANTS
    Events,         \* event ids
    Senders,        \* concurrent requests of mosdns
    Streams,        \* live stream connections
    Filters,        \* sets of events that a stream may ask for
    QueueCapacity,  \* queueCapacity
    BatchSize,      \* batchSize, of the writer
    MaxBatchEvents, \* maxBatchEvents, of a request
    StreamBuffer,   \* 256
    MaxDiagnostics, \* maxAnswerDiagnostics
    MaxSends,       \* bound on batches sent
    MaxFaults,      \* bound on crashes, stops and failed transactions
    MaxCleanups     \* bound on retention and clearing

ASSUME IngestAssumption ==
    /\ {QueueCapacity, BatchSize, MaxBatchEvents, StreamBuffer, MaxDiagnostics} \subseteq Nat \ {0}
    /\ {MaxSends, MaxFaults, MaxCleanups} \subseteq Nat
    /\ Filters \subseteq SUBSET Events

VARIABLES
    queue,     \* the channel
    enqueueMu, \* the sender that holds enqueueMu, if any
    sender,    \* sender[s]: its batch, how much of it is queued, its answer
    batch,     \* events the writer has collected and not yet inserted
    writer,    \* what the writer does next
    done,      \* the writer has been told to stop
    inserted,  \* events the transaction inserted, whose diagnostics are not yet kept
    stored,    \* the same events, not yet published
    raw,       \* dns_queries
    counted,   \* an hourly aggregate table: how often event e is in it
    forgotten, \* events of which retention has deleted the row or the count alone
    retention, \* where retain is between its DELETE statements
    diagnostics, \* answerDiagnosticsOrder, and the keys of answerDiagnostics
    stream,    \* stream[c]: a live stream
    sends, faults, cleanups

fresh    == <<inserted, stored>>
memory   == <<queue, enqueueMu, sender, batch, writer, done, fresh>>
tables   == <<raw, counted, forgotten>>
database == <<tables, retention>>
bounds   == <<sends, faults, cleanups>>
vars     == <<memory, database, diagnostics, stream, bounds>>

\* validateBatch and validateEvent let a batch of valid events pass.
Batch == UNION {[1..n -> Events] : n \in 1..MaxBatchEvents}

NoSender == [pc |-> "idle", events |-> <<>>, queued |-> 0]

NoDiagnostics == [order |-> <<>>, keys |-> {}]

\* due: what was published since the stream began and matches its filter;
\* read: what the client has received.
NoStream == [open |-> FALSE, filter |-> {}, buffer |-> <<>>, read |-> <<>>, due |-> <<>>]

\* A new process: New starts the writer.
Fresh ==
    /\ queue' = <<>> /\ enqueueMu' = {} /\ batch' = <<>>
    /\ writer' = "collect" /\ done' = FALSE /\ retention' = "idle"
    /\ inserted' = <<>> /\ stored' = <<>>
    /\ sender' = [s \in Senders |-> NoSender]
    /\ diagnostics' = NoDiagnostics
    /\ stream' = [c \in Streams |-> NoStream]

Init ==
    /\ queue = <<>> /\ enqueueMu = {} /\ batch = <<>>
    /\ writer = "collect" /\ done = FALSE /\ retention = "idle"
    /\ inserted = <<>> /\ stored = <<>>
    /\ sender = [s \in Senders |-> NoSender]
    /\ diagnostics = NoDiagnostics
    /\ stream = [c \in Streams |-> NoStream]
    /\ raw = {} /\ counted = [e \in Events |-> 0] /\ forgotten = {}
    /\ sends = 0 /\ faults = 0 /\ cleanups = 0

----------------------------------------------------------------------------
(* Enqueue                                                                 *)

\* Mutant: no lock around the capacity check and the sends.
EnterUnlocked(s) == UNCHANGED enqueueMu

Enter(s) == enqueueMu = {} /\ enqueueMu' = {s}

\* mosdns sends a batch, a new one or one it has sent before.  The capacity check:
\* the whole batch fits, or it is refused.
Enqueue(s, events) ==
    /\ ~done
    /\ sender[s] = NoSender
    /\ sends < MaxSends /\ sends' = sends + 1
    /\ Enter(s)
    /\ sender' = [sender EXCEPT ![s] =
         [pc |-> IF Len(queue) + Len(events) > QueueCapacity THEN "overloaded" ELSE "fill",
          events |-> events, queued |-> 0]]
    /\ UNCHANGED <<queue, batch, writer, done, fresh, database, diagnostics, stream, faults, cleanups>>

\* One event at a time, with the writer receiving meanwhile.
EnqueueEvent(s) ==
    /\ sender[s].pc = "fill"
    /\ sender[s].queued < Len(sender[s].events)
    /\ IF Len(queue) < QueueCapacity
       THEN /\ queue' = Append(queue, sender[s].events[sender[s].queued + 1])
            /\ sender' = [sender EXCEPT ![s].queued = @ + 1]
       ELSE /\ sender' = [sender EXCEPT ![s].pc = "overloaded"]
            /\ UNCHANGED queue
    /\ UNCHANGED <<enqueueMu, batch, writer, done, fresh, database, diagnostics, stream, bounds>>

\* The answer, accepted or overloaded; whether it arrives does not matter here,
\* for any batch may be sent again.
EnqueueReturn(s) ==
    /\ \/ sender[s].pc = "overloaded"
       \/ sender[s].pc = "fill" /\ sender[s].queued = Len(sender[s].events)
    /\ sender' = [sender EXCEPT ![s] = NoSender]
    /\ enqueueMu' = enqueueMu \ {s}
    /\ UNCHANGED <<queue, batch, writer, done, fresh, database, diagnostics, stream, bounds>>

----------------------------------------------------------------------------
(* The writer                                                              *)

\* Mutant: one more event is collected than a flush takes.
FullLate(events) == Len(events) = BatchSize + 1

Full(events) == Len(events) = BatchSize

WriterReceive ==
    /\ writer = "collect" /\ queue # <<>>
    /\ queue' = Tail(queue)
    /\ batch' = Append(batch, Head(queue))
    /\ writer' = IF Full(batch') THEN "flush" ELSE "collect"
    /\ UNCHANGED <<enqueueMu, sender, done, fresh, database, diagnostics, stream, bounds>>

\* Mutant: only a full batch is flushed.
WriterTickIdle ==
    /\ writer = "collect" /\ Len(batch) = BatchSize
    /\ writer' = "flush"
    /\ UNCHANGED <<queue, enqueueMu, sender, batch, done, fresh, database, diagnostics, stream, bounds>>

\* The ticker.
WriterTick ==
    /\ writer = "collect" /\ batch # <<>>
    /\ writer' = "flush"
    /\ UNCHANGED <<queue, enqueueMu, sender, batch, done, fresh, database, diagnostics, stream, bounds>>

\* persist has its transaction open; the database has one connection.
InTransaction == writer = "flush"

\* Mutant: an ignored event passes for an inserted one.
IsNewAlways(e) == TRUE

\* INSERT OR IGNORE inserts the row of event e.
IsNew(e) == e \notin raw \cup ToSet(inserted)

\* persist, one event.
InsertEvent ==
    /\ InTransaction /\ batch # <<>>
    /\ LET e == Head(batch)
       IN  IF IsNew(e)
           THEN inserted' = Append(inserted, e) /\ stored' = Append(stored, e)
           ELSE UNCHANGED fresh
    /\ batch' = Tail(batch)
    /\ UNCHANGED <<queue, enqueueMu, sender, writer, done, database, diagnostics, stream, bounds>>

\* aggregate, for each inserted event and in the same transaction.
Aggregate ==
    [e \in Events |-> counted[e] + Cardinality({i \in DOMAIN inserted : inserted[i] = e})]

\* persist aggregates and commits.
Persist ==
    /\ InTransaction /\ batch = <<>>
    /\ raw' = raw \cup ToSet(inserted)
    /\ counted' = Aggregate
    /\ writer' = "keep"
    /\ UNCHANGED <<queue, enqueueMu, sender, batch, done, fresh, forgotten, retention, diagnostics, stream, bounds>>

\* The flush is over: the loop goes on, or the writer has stopped.
Flushed == writer' = IF done THEN "closing" ELSE "collect"

\* persist fails at any statement: flush throws the batch away.
PersistFails ==
    /\ faults < MaxFaults /\ faults' = faults + 1
    /\ InTransaction
    /\ batch' = <<>> /\ inserted' = <<>> /\ stored' = <<>>
    /\ Flushed
    /\ UNCHANGED <<queue, enqueueMu, sender, done, database, diagnostics, stream, sends, cleanups>>

\* Mutant: an event whose diagnostics are kept is entered again.
RememberAgain(kept, e) ==
    LET all == Append(kept.order, e)
    IN  IF Len(all) <= MaxDiagnostics
        THEN [order |-> all, keys |-> kept.keys \cup {e}]
        ELSE [order |-> Tail(all), keys |-> (kept.keys \cup {e}) \ {Head(all)}]

\* The diagnostics of an event are kept: first in, first out.
Remember(kept, e) ==
    LET all == Append(kept.order, e)
    IN  IF e \in kept.keys THEN kept
        ELSE IF Len(all) <= MaxDiagnostics
        THEN [order |-> all, keys |-> kept.keys \cup {e}]
        ELSE [order |-> Tail(all), keys |-> (kept.keys \cup {e}) \ {Head(all)}]

\* Mutant: an event that finds the buffer full is left out.
OfferSkips(conn, e) ==
    IF ~conn.open \/ e \notin conn.filter THEN conn
    ELSE IF Len(conn.buffer) < StreamBuffer
    THEN [conn EXCEPT !.buffer = Append(@, e), !.due = Append(@, e)]
    ELSE [conn EXCEPT !.due = Append(@, e)]

\* publish, one event to one stream: a stream whose buffer is full is closed.
Offer(conn, e) ==
    IF ~conn.open \/ e \notin conn.filter THEN conn
    ELSE IF Len(conn.buffer) < StreamBuffer
    THEN [conn EXCEPT !.buffer = Append(@, e), !.due = Append(@, e)]
    ELSE [conn EXCEPT !.open = FALSE, !.due = Append(@, e)]

\* cacheAnswerDiagnostics, after the commit: one event, or the end of the loop.
cacheAnswerDiagnostics ==
    /\ writer = "keep"
    /\ IF inserted = <<>>
       THEN writer' = "publish" /\ UNCHANGED <<inserted, diagnostics>>
       ELSE /\ diagnostics' = Remember(diagnostics, Head(inserted))
            /\ inserted' = Tail(inserted)
            /\ UNCHANGED writer
    /\ UNCHANGED <<queue, enqueueMu, sender, batch, done, stored, database, stream, bounds>>

\* publish: one event to every stream, or the end of the loop.
publish ==
    /\ writer = "publish"
    /\ IF stored = <<>>
       THEN Flushed /\ UNCHANGED <<stored, stream>>
       ELSE /\ stream' = [c \in Streams |-> Offer(stream[c], Head(stored))]
            /\ stored' = Tail(stored)
            /\ UNCHANGED writer
    /\ UNCHANGED <<queue, enqueueMu, sender, batch, done, inserted, database, diagnostics, bounds>>

----------------------------------------------------------------------------
(* Live streams                                                            *)

\* cacheAnswerDiagnostics and publish hold mu throughout their loops.  (Who comes between
\* the two, or between the commit and the first, might as well have come before it.)
MuFree == writer \notin {"keep", "publish"}

\* The HTTP servers are down before the writer is told to stop.
Subscribe(c, filter) ==
    /\ ~done /\ MuFree
    /\ stream[c] = NoStream
    /\ stream' = [stream EXCEPT ![c] = [NoStream EXCEPT !.open = TRUE, !.filter = filter]]
    /\ UNCHANGED <<memory, database, diagnostics, bounds>>

\* The handler sends the next event to the client, also after the channel was closed.
StreamRead(c) ==
    /\ stream[c].buffer # <<>>
    /\ stream' = [stream EXCEPT ![c].read = Append(@, Head(stream[c].buffer)),
                                ![c].buffer = Tail(@)]
    /\ UNCHANGED <<memory, database, diagnostics, bounds>>

\* The client disconnects, or the handler finds the channel closed and empty.
Unsubscribe(c) ==
    /\ stream[c] # NoStream /\ MuFree
    /\ stream' = [stream EXCEPT ![c] = NoStream]
    /\ UNCHANGED <<memory, database, diagnostics, bounds>>

----------------------------------------------------------------------------
(* Deletions                                                               *)

\* There is one connection: a deletion waits for the writer's transaction.
Cleanup == ~InTransaction /\ cleanups < MaxCleanups /\ cleanups' = cleanups + 1

\* Retention has deleted the rows or the counts of these events; when both are gone there
\* is nothing left to remember.
Forget(events) ==
    forgotten' = {e \in forgotten \cup events : e \in raw' \/ counted'[e] # 0}

\* retain, hourly or from the settings page: the aggregates of hours before a limit, 90
\* days ago for one table and a year for the others, whatever rows of theirs remain.
\* Each DELETE is a transaction of its own, and the first that fails ends retain.
retain(expired) ==
    /\ Cleanup
    /\ retention = "idle" /\ writer # "stopped"
    /\ counted' = [e \in Events |-> IF e \in expired THEN 0 ELSE counted[e]]
    /\ UNCHANGED raw
    /\ Forget(expired)
    /\ retention' \in {"rows", "idle"}
    /\ UNCHANGED <<memory, diagnostics, stream, sends, faults>>

\* Then the rows older than the retention days, and the oldest ones if the database
\* comes near its limit.
retainRows(old) ==
    /\ ~InTransaction
    /\ retention # "idle"
    /\ raw' = raw \ old
    /\ UNCHANGED counted
    /\ Forget(old)
    /\ retention' \in IF retention = "rows" THEN {"size", "idle"} ELSE {"idle"}
    /\ UNCHANGED <<memory, diagnostics, stream, bounds>>

ClearTables == raw' = {} /\ counted' = [e \in Events |-> 0] /\ forgotten' = {}

\* One transaction, in a request; the HTTP servers are down before the writer is told
\* to stop.
ClearQueryHistory ==
    /\ Cleanup /\ ~done
    /\ raw # {} \/ forgotten # {}
    /\ ClearTables
    /\ UNCHANGED <<memory, retention, diagnostics, stream, sends, faults>>

----------------------------------------------------------------------------
(* Stop and crash                                                          *)

Fault == faults < MaxFaults /\ faults' = faults + 1

\* shutdown waits for the handlers.
HandlersDone == \A s \in Senders : sender[s] = NoSender

\* Close, after the HTTP servers have shut down.
Close ==
    /\ Fault
    /\ writer = "collect"
    /\ HandlersDone
    /\ writer' = "drain" /\ done' = TRUE
    /\ UNCHANGED <<queue, enqueueMu, sender, batch, fresh, database, diagnostics, stream, sends, cleanups>>

\* Mutant: the writer leaves the queue as it is.
DrainNothing == UNCHANGED <<queue, batch>>

Drained == queue' = <<>> /\ batch' = batch \o queue

\* The writer takes what is left, whatever its size, and flushes it.
Drain ==
    /\ writer = "drain"
    /\ Drained
    /\ writer' = IF batch' = <<>> THEN "closing" ELSE "flush"
    /\ UNCHANGED <<enqueueMu, sender, done, fresh, database, diagnostics, stream, bounds>>

\* The writer and maintenance have ended: Close closes the streams.
CloseStreams ==
    /\ writer = "closing" /\ retention = "idle"
    /\ writer' = "stopped"
    /\ stream' = [c \in Streams |-> [stream[c] EXCEPT !.open = FALSE]]
    /\ UNCHANGED <<queue, enqueueMu, sender, batch, done, fresh, database, diagnostics, bounds>>

\* A new process after a stop, or after a crash: memory is gone.
Restart ==
    /\ \/ writer = "stopped" /\ UNCHANGED faults
       \/ writer # "stopped" /\ Fault
    /\ Fresh
    /\ UNCHANGED <<tables, sends, cleanups>>

Flush == InsertEvent \/ Persist \/ PersistFails \/ cacheAnswerDiagnostics \/ publish

WriterStep == WriterReceive \/ WriterTick \/ Flush \/ Drain \/ CloseStreams

SenderStep(s) == EnqueueEvent(s) \/ EnqueueReturn(s)

Next ==
    \/ \E s \in Senders : (\E events \in Batch : Enqueue(s, events)) \/ SenderStep(s)
    \/ WriterStep
    \/ \E c \in Streams : (\E filter \in Filters : Subscribe(c, filter)) \/ StreamRead(c) \/ Unsubscribe(c)
    \/ \E events \in SUBSET Events : retain(events) \/ retainRows(events)
    \/ ClearQueryHistory
    \/ Close \/ Restart

Spec == Init /\ [][Next]_vars

\* Goroutines that can go on do so; everything else may stop.
FairSpec ==
    /\ Spec
    /\ WF_vars(WriterStep)
    /\ \A s \in Senders : WF_vars(SenderStep(s))

----------------------------------------------------------------------------
(* Properties                                                              *)

Stream == [open: BOOLEAN, filter: SUBSET Events, buffer: Seq(Events), read: Seq(Events),
           due: Seq(Events)]

\* Queue, writer, tables and streams have their shapes; the queue, the stream buffers, the
\* diagnostics and, except for the last one, the transactions have their bounds.
TypeOK ==
    /\ queue \in Seq(Events) /\ Len(queue) <= QueueCapacity
    /\ batch \in Seq(Events) /\ (~done => Len(batch) <= BatchSize)
    /\ inserted \in Seq(Events) /\ stored \in Seq(Events) /\ done \in BOOLEAN
    /\ enqueueMu \subseteq Senders
    /\ writer \in {"collect", "flush", "keep", "publish", "drain", "closing", "stopped"}
    /\ raw \subseteq Events /\ forgotten \subseteq Events /\ counted \in [Events -> Nat]
    /\ retention \in {"idle", "rows", "size"}
    /\ stream \in [Streams -> Stream]
    /\ \A c \in Streams : Len(stream[c].buffer) <= StreamBuffer
    /\ Len(diagnostics.order) <= MaxDiagnostics

\* Enqueue's comment: a batch is accepted or refused as a whole.  When a batch is
\* refused none of its events is in the queue, however senders and writer interleave.
RefusedIsWhole == \A s \in Senders : sender[s].pc = "overloaded" => sender[s].queued = 0

\* aggregate's comment: a repeated event_id is never counted twice.  The aggregates
\* count an event once if and only if its row is there, through repeated batches, failed
\* transactions, crashes and ClearQueryHistory, until retention removes one without the
\* other; it takes up again when retention or ClearQueryHistory has removed both.
CountedOnce ==
    \A e \in Events \ forgotten : counted[e] = IF e \in raw THEN 1 ELSE 0

\* A stream has no gaps: what the client has read and what is buffered for it is what
\* was published since it subscribed; a stream that was too slow is closed with a prefix.
StreamHasNoGaps ==
    \A c \in Streams :
        LET got == stream[c].read \o stream[c].buffer
        IN  IF stream[c].open THEN got = stream[c].due ELSE IsPrefix(got, stream[c].due)

\* The queue order and the map of answer diagnostics agree, so that eviction bounds both:
\* every entry of the order is another event and has its diagnostics in the map.
DiagnosticsAgree ==
    /\ ToSet(diagnostics.order) = diagnostics.keys
    /\ Cardinality(diagnostics.keys) = Len(diagnostics.order)

\* Close: a process that was stopped in the ordinary way has taken every accepted event
\* out of the queue and into a transaction.
StopLosesNothing ==
    writer = "stopped" => queue = <<>> /\ batch = <<>> /\ inserted = <<>> /\ stored = <<>>

\* Accepted events leave the queue and the writer's batch: they are stored, or thrown
\* away with a failed transaction, whatever the batch size.
EventuallyDrained == <>[](queue = <<>> /\ batch = <<>> /\ stored = <<>>)
=============================================================================
