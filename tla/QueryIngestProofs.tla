------------------------- MODULE QueryIngestProofs -------------------------
(***************************************************************************)
(* Proofs about QueryIngest, for any events, senders and streams and any   *)
(* capacities: a batch is queued as a whole or not at all, an ordinary     *)
(* stop leaves nothing in memory, an event is counted exactly while its    *)
(* row is there, the diagnostics agree, and the streams have no gaps.      *)
(***************************************************************************)
EXTENDS QueryIngest, FiniteSetTheorems, SequenceTheorems, TLAPS

----------------------------------------------------------------------------
(* The inductive invariant of queue, senders and writer                    *)

Sender == [pc: {"idle", "fill", "overloaded"}, events: Seq(Events), queued: Nat]

Places == {"collect", "flush", "keep", "publish", "drain", "closing", "stopped"}

Shapes ==
    /\ queue \in Seq(Events) /\ batch \in Seq(Events)
    /\ inserted \in Seq(Events) /\ stored \in Seq(Events)
    /\ writer \in Places /\ done \in BOOLEAN
    /\ enqueueMu \subseteq Senders
    /\ sender \in [Senders -> Sender]

\* Whoever is inside Enqueue holds enqueueMu.
Holds == \A s \in Senders : sender[s].pc # "idle" => enqueueMu = {s}

IdleSenders == \A s \in Senders : sender[s].pc = "idle" => sender[s] = NoSender

\* There is room for the rest of a batch that passed the capacity check.
Room ==
    \A s \in Senders : sender[s].pc = "fill" =>
        /\ sender[s].queued <= Len(sender[s].events)
        /\ Len(queue) + (Len(sender[s].events) - sender[s].queued) <= QueueCapacity

\* The queue is a channel of its capacity; the writer flushes a full batch at once.
Limits ==
    /\ Len(queue) <= QueueCapacity
    /\ ~done => Len(batch) <= BatchSize
    /\ writer = "collect" => Len(batch) < BatchSize

\* Nobody sends to a writer that stops; what it has drained it has flushed.
Stopped ==
    /\ done => \A s \in Senders : sender[s] = NoSender
    /\ done /\ writer # "drain" => queue = <<>>
    /\ writer = "collect" => ~done
    /\ writer \in {"drain", "closing", "stopped"} => done

\* What each part of the flush leaves for the next one, and nothing else.
Flushing ==
    /\ writer \notin {"collect", "drain", "flush"} => batch = <<>>
    /\ writer \notin {"flush", "keep"} => inserted = <<>>
    /\ writer \notin {"flush", "keep", "publish"} => stored = <<>>

IInv == Shapes /\ Holds /\ IdleSenders /\ Room /\ RefusedIsWhole /\ Limits /\ Stopped /\ Flushing

----------------------------------------------------------------------------
(* The actions                                                             *)

\* The bounds are numbers.
LEMMA Bounds ==
    /\ QueueCapacity \in Nat \ {0} /\ BatchSize \in Nat \ {0}
    /\ MaxDiagnostics \in Nat \ {0} /\ StreamBuffer \in Nat \ {0}
  BY IngestAssumption DEF IngestAssumption

\* The process starts with everything empty.
LEMMA InitIInv == Init => IInv
  <1> SUFFICES ASSUME Init PROVE IInv OBVIOUS
  <1>1. NoSender \in Sender /\ NoSender.pc = "idle"
    BY DEF NoSender, Sender
  <1>2. \A s \in Senders : sender[s] = NoSender BY DEF Init
  <1>5. sender \in [Senders -> Sender] /\ writer \in Places BY <1>1 DEF Init, Places
  <1>6. done \in BOOLEAN /\ enqueueMu \subseteq Senders BY Zenon DEF Init
  <1>3. Shapes BY <1>5, <1>6, EmptySeq DEF Init, Shapes
  <1>4. Limits BY Bounds DEF Init, Limits
  <1> QED
    BY <1>1, <1>2, <1>3, <1>4
       DEF Init, IInv, Holds, IdleSenders, Room, RefusedIsWhole, Stopped, Flushing

\* The writer takes from the queue and works on its batch; senders do not notice.
LEMMA WriterKeeps ==
    ASSUME IInv, UNCHANGED <<sender, enqueueMu>>,
           queue' \in Seq(Events), batch' \in Seq(Events),
           inserted' \in Seq(Events), stored' \in Seq(Events),
           writer' \in Places, done' \in BOOLEAN,
           Len(queue') <= Len(queue),
           ~done' => Len(batch') <= BatchSize,
           writer' = "collect" => Len(batch') < BatchSize,
           Stopped', Flushing'
    PROVE  IInv'
  <1>1. Shapes' BY DEF IInv, Shapes
  <1>2. Holds' /\ IdleSenders' /\ RefusedIsWhole'
    BY DEF IInv, Holds, IdleSenders, RefusedIsWhole
  <1>3. Len(queue) \in Nat /\ Len(queue') \in Nat BY DEF IInv, Shapes
  <1>4. \A s \in Senders : Len(sender[s].events) \in Nat /\ sender[s].queued \in Nat
    BY DEF IInv, Shapes, Sender
  <1>5. Room' BY <1>3, <1>4, Bounds DEF IInv, Room
  <1>6. Limits' BY <1>3, Bounds DEF IInv, Limits
  <1> QED BY <1>1, <1>2, <1>5, <1>6 DEF IInv

\* Memory stays as it is.
LEMMA IdleKeeps ==
    ASSUME IInv, UNCHANGED <<queue, enqueueMu, sender, batch, writer, done, inserted, stored>>
    PROVE  IInv'
  BY DEF IInv, Shapes, Holds, IdleSenders, Room, RefusedIsWhole, Limits, Stopped, Flushing

\* One sender changes, with the mutex in its hands afterwards or free.
LEMMA SenderKeeps ==
    ASSUME IInv, NEW s \in Senders, NEW x \in Sender,
           sender' = [sender EXCEPT ![s] = x],
           UNCHANGED <<batch, writer, done, inserted, stored>>,
           queue' \in Seq(Events), Len(queue') <= QueueCapacity,
           enqueueMu' \subseteq Senders, ~done,
           \A q \in Senders \ {s} : sender[q].pc = "idle",
           IF x.pc = "idle" THEN x = NoSender ELSE enqueueMu' = {s},
           x.pc = "overloaded" => x.queued = 0,
           x.pc = "fill" => /\ x.queued <= Len(x.events)
                            /\ Len(queue') + (Len(x.events) - x.queued) <= QueueCapacity
    PROVE  IInv'
  <1>1. /\ sender' \in [Senders -> Sender] /\ sender'[s] = x
        /\ \A q \in Senders \ {s} : sender'[q] = sender[q] /\ sender'[q].pc = "idle"
    BY DEF IInv, Shapes
  <1>2. Shapes' BY <1>1 DEF IInv, Shapes
  <1>3. Holds' BY <1>1 DEF Holds
  <1>4. IdleSenders' BY <1>1 DEF IInv, IdleSenders
  <1>5. Room' BY <1>1 DEF Room
  <1>6. RefusedIsWhole' BY <1>1 DEF RefusedIsWhole
  <1>7. Stopped' /\ Flushing' BY DEF IInv, Stopped, Flushing
  <1>8. Limits' BY DEF IInv, Limits
  <1> QED BY <1>2, <1>3, <1>4, <1>5, <1>6, <1>7, <1>8 DEF IInv

\* A sender inside Enqueue is alone there.
LEMMA Alone ==
    ASSUME IInv, NEW s \in Senders, sender[s].pc # "idle"
    PROVE  (\A q \in Senders \ {s} : sender[q].pc = "idle") /\ ~done
  BY DEF IInv, Holds, Stopped, NoSender

\* The capacity check reserves room for the batch.
LEMMA EnqueueKeeps ==
    ASSUME IInv, NEW s \in Senders, NEW events \in Batch, Enqueue(s, events)
    PROVE  IInv'
  <1> DEFINE x == [pc |-> IF Len(queue) + Len(events) > QueueCapacity THEN "overloaded" ELSE "fill",
                   events |-> events, queued |-> 0]
  <1>1. events \in Seq(Events) BY IngestAssumption DEF Batch, IngestAssumption
  <1>2. x \in Sender BY <1>1 DEF Sender
  <1>3. /\ enqueueMu = {} /\ enqueueMu' = {s}
        /\ UNCHANGED <<batch, writer, queue, done, inserted, stored>>
        /\ sender' = [sender EXCEPT ![s] = x] /\ ~done
    BY DEF Enqueue, Enter, fresh
  <1>4. \A q \in Senders \ {s} : sender[q].pc = "idle" BY <1>3 DEF IInv, Holds
  <1>5. Len(events) \in Nat /\ Len(queue) \in Nat /\ QueueCapacity \in Nat
    BY <1>1, IngestAssumption DEF IInv, Shapes, IngestAssumption
  <1>6. x.pc = "fill" => /\ x.queued <= Len(x.events)
                         /\ Len(queue') + (Len(x.events) - x.queued) <= QueueCapacity
    BY <1>3, <1>5
  <1>7. x.pc # "idle" /\ x.queued = 0 OBVIOUS
  <1>8. queue' \in Seq(Events) /\ Len(queue') <= QueueCapacity BY <1>3 DEF IInv, Shapes, Limits
  <1> HIDE DEF x
  <1> QED BY <1>2, <1>3, <1>4, <1>6, <1>7, <1>8, SenderKeeps

\* Each event finds the room that was reserved: the second refusal is never reached.
LEMMA EnqueueEventKeeps ==
    ASSUME IInv, NEW s \in Senders, EnqueueEvent(s)
    PROVE  IInv'
  <1> DEFINE x == [sender[s] EXCEPT !.queued = @ + 1]
             e == sender[s].events[sender[s].queued + 1]
  <1>1. sender[s] \in Sender /\ queue \in Seq(Events) BY DEF IInv, Shapes
  <1>2. /\ sender[s].pc = "fill" /\ sender[s].queued \in Nat /\ Len(sender[s].events) \in Nat
        /\ sender[s].queued < Len(sender[s].events) /\ sender[s].events \in Seq(Events)
    BY <1>1 DEF EnqueueEvent, Sender
  <1>3. QueueCapacity \in Nat /\ Len(queue) \in Nat
    BY <1>1, IngestAssumption DEF IngestAssumption
  <1>4. Len(queue) + (Len(sender[s].events) - sender[s].queued) <= QueueCapacity
    BY <1>2 DEF IInv, Room
  <1>5. Len(queue) < QueueCapacity BY <1>2, <1>3, <1>4
  <1>6. /\ queue' = Append(queue, e) /\ sender' = [sender EXCEPT ![s] = x]
        /\ UNCHANGED <<enqueueMu, batch, writer, done, inserted, stored>>
    BY <1>5 DEF EnqueueEvent, fresh
  <1>7. e \in Events BY <1>2
  <1>8. queue' \in Seq(Events) /\ Len(queue') = Len(queue) + 1 BY <1>1, <1>6, <1>7
  <1>13. Len(queue') <= QueueCapacity BY <1>3, <1>5, <1>8
  <1>9. /\ x \in Sender /\ x.pc = "fill" /\ x.events = sender[s].events
        /\ x.queued = sender[s].queued + 1
    BY <1>1, <1>2 DEF Sender
  <1>10. /\ x.queued <= Len(x.events)
         /\ Len(queue') + (Len(x.events) - x.queued) <= QueueCapacity
    BY <1>2, <1>3, <1>4, <1>8, <1>9
  <1>11. enqueueMu' = {s} BY <1>2, <1>6 DEF IInv, Holds
  <1>12. (\A q \in Senders \ {s} : sender[q].pc = "idle") /\ ~done BY <1>2, Alone
  <1> HIDE DEF x
  <1> QED BY <1>6, <1>8, <1>9, <1>10, <1>11, <1>12, <1>13, SenderKeeps

\* The handler returns.
LEMMA EnqueueReturnKeeps ==
    ASSUME IInv, NEW s \in Senders, EnqueueReturn(s)
    PROVE  IInv'
  <1>1. NoSender \in Sender /\ NoSender.pc = "idle" BY DEF NoSender, Sender
  <1>2. /\ sender[s].pc # "idle" /\ sender' = [sender EXCEPT ![s] = NoSender]
        /\ UNCHANGED <<queue, batch, writer, done, inserted, stored>>
        /\ enqueueMu' = enqueueMu \ {s}
    BY DEF EnqueueReturn, fresh
  <1>3. (\A q \in Senders \ {s} : sender[q].pc = "idle") /\ ~done BY <1>2, Alone
  <1>4. /\ queue' \in Seq(Events) /\ Len(queue') <= QueueCapacity
        /\ enqueueMu' \subseteq Senders
    BY <1>2 DEF IInv, Shapes, Limits
  <1> QED BY <1>1, <1>2, <1>3, <1>4, SenderKeeps

\* The loop that collects, to a full batch or the ticker.
LEMMA CollectKeeps ==
    ASSUME IInv, WriterReceive \/ WriterTick
    PROVE  IInv'
  <1>0. /\ queue \in Seq(Events) /\ batch \in Seq(Events)
        /\ inserted \in Seq(Events) /\ stored \in Seq(Events) /\ done \in BOOLEAN
        /\ Stopped /\ Flushing /\ Limits
    BY DEF IInv, Shapes
  <1>1. CASE WriterReceive
    <2>1. /\ queue # <<>> /\ queue' = Tail(queue) /\ batch' = Append(batch, Head(queue))
          /\ writer = "collect" /\ writer' = IF Len(batch') = BatchSize THEN "flush" ELSE "collect"
          /\ UNCHANGED <<enqueueMu, sender, done, inserted, stored>>
      BY <1>1 DEF WriterReceive, Full, fresh
    <2>2. /\ queue' \in Seq(Events) /\ batch' \in Seq(Events) /\ Len(queue') <= Len(queue)
          /\ Len(batch') = Len(batch) + 1 /\ Len(batch) \in Nat
      BY <1>0, <2>1
    <2>3. Len(batch) < BatchSize BY <1>0, <2>1 DEF Limits
    <2>4. Len(batch') <= BatchSize /\ (writer' = "collect" => Len(batch') < BatchSize)
      BY <2>1, <2>2, <2>3, Bounds
    <2>5. Stopped' /\ Flushing' BY <1>0, <2>1 DEF Stopped, Flushing
    <2>6. writer' \in Places BY <2>1 DEF Places
    <2> QED BY <1>0, <2>1, <2>2, <2>4, <2>5, <2>6, WriterKeeps
  <1>2. CASE WriterTick
    <2>1. /\ writer = "collect" /\ writer' = "flush"
          /\ UNCHANGED <<queue, enqueueMu, sender, batch, done, inserted, stored>>
      BY <1>2 DEF WriterTick, fresh
    <2>2. Stopped' /\ Flushing' BY <1>0, <2>1 DEF Stopped, Flushing
    <2>3. writer' \in Places BY <2>1 DEF Places
    <2>4. Len(queue') <= Len(queue) BY <1>0, <2>1
    <2> QED BY <1>0, <2>1, <2>2, <2>3, <2>4, WriterKeeps DEF Limits
  <1> QED BY <1>1, <1>2

\* The flush only shortens the batch, and hands on what it has inserted.
LEMMA FlushKeeps ==
    ASSUME IInv, Flush
    PROVE  IInv'
  <1>0. /\ queue \in Seq(Events) /\ batch \in Seq(Events)
        /\ inserted \in Seq(Events) /\ stored \in Seq(Events)
        /\ done \in BOOLEAN /\ writer \in Places
        /\ Stopped /\ Flushing /\ Limits
    BY DEF IInv, Shapes
  <1>1. ASSUME UNCHANGED <<queue, enqueueMu, sender, done>>,
               batch' \in Seq(Events), inserted' \in Seq(Events), stored' \in Seq(Events),
               Len(batch') <= Len(batch), writer' \in Places,
               writer' = "collect" => batch' = <<>>,
               Stopped', Flushing'
        PROVE  IInv'
    <2>1. Len(batch) \in Nat /\ Len(batch') \in Nat BY <1>0, <1>1
    <2>2. ~done' => Len(batch') <= BatchSize BY <1>0, <1>1, <2>1, Bounds DEF Limits
    <2>3. writer' = "collect" => Len(batch') < BatchSize
      BY <1>1, Bounds
    <2>4. Len(queue') <= Len(queue) BY <1>0, <1>1
    <2>5. queue' \in Seq(Events) /\ done' \in BOOLEAN BY <1>0, <1>1
    <2> QED BY <1>1, <2>2, <2>3, <2>4, <2>5, WriterKeeps
  <1>2. CASE InsertEvent
    <2>1. /\ writer = "flush" /\ batch # <<>> /\ batch' = Tail(batch)
          /\ UNCHANGED <<queue, enqueueMu, sender, done, writer>>
          /\ \/ inserted' = Append(inserted, Head(batch)) /\ stored' = Append(stored, Head(batch))
             \/ UNCHANGED <<inserted, stored>>
      BY <1>2 DEF InsertEvent, InTransaction, fresh
    <2>2. /\ Head(batch) \in Events /\ batch' \in Seq(Events) /\ Len(batch') <= Len(batch)
      BY <1>0, <2>1
    <2>5. /\ Append(inserted, Head(batch)) \in Seq(Events)
          /\ Append(stored, Head(batch)) \in Seq(Events)
      BY <1>0, <2>2, AppendProperties
    <2>3. inserted' \in Seq(Events) /\ stored' \in Seq(Events) BY <1>0, <2>1, <2>5
    <2>4. Stopped' /\ Flushing' BY <1>0, <2>1 DEF Stopped, Flushing
    <2> QED BY <1>0, <1>1, <2>1, <2>2, <2>3, <2>4
  <1>3. CASE Persist
    <2>1. /\ writer = "flush" /\ batch = <<>> /\ writer' = "keep"
          /\ UNCHANGED <<queue, enqueueMu, sender, done, batch, inserted, stored>>
      BY <1>3 DEF Persist, InTransaction, fresh
    <2>2. Stopped' /\ Flushing' BY <1>0, <2>1 DEF Stopped, Flushing
    <2>3. writer' \in Places BY <2>1 DEF Places
    <2>4. Len(batch') <= Len(batch) BY <1>0, <2>1
    <2> QED BY <1>0, <1>1, <2>1, <2>2, <2>3, <2>4
  <1>4. CASE PersistFails
    <2>1. /\ writer = "flush" /\ batch' = <<>> /\ inserted' = <<>> /\ stored' = <<>>
          /\ writer' = IF done THEN "closing" ELSE "collect"
          /\ UNCHANGED <<queue, enqueueMu, sender, done>>
      BY <1>4 DEF PersistFails, InTransaction, Flushed
    <2>2. Stopped' /\ Flushing' BY <1>0, <2>1 DEF Stopped, Flushing
    <2>3. writer' \in Places BY <2>1 DEF Places
    <2>4. batch' \in Seq(Events) /\ Len(batch') <= Len(batch) BY <1>0, <2>1
    <2>5. inserted' \in Seq(Events) /\ stored' \in Seq(Events) BY <2>1
    <2> QED BY <1>1, <2>1, <2>2, <2>3, <2>4, <2>5
  <1>5. CASE cacheAnswerDiagnostics
    <2>1. /\ writer = "keep" /\ UNCHANGED <<queue, enqueueMu, sender, batch, done, stored>>
          /\ \/ inserted = <<>> /\ writer' = "publish" /\ UNCHANGED inserted
             \/ inserted # <<>> /\ inserted' = Tail(inserted) /\ UNCHANGED writer
      BY <1>5 DEF cacheAnswerDiagnostics
    <2>2. Stopped' /\ Flushing' BY <1>0, <2>1 DEF Stopped, Flushing
    <2>3. writer' \in Places /\ writer' # "collect" BY <1>0, <2>1 DEF Places
    <2>4. inserted' \in Seq(Events) BY <1>0, <2>1, HeadTailProperties
    <2>5. Len(batch') <= Len(batch) BY <1>0, <2>1
    <2> QED BY <1>0, <1>1, <2>1, <2>2, <2>3, <2>4, <2>5
  <1>6. CASE publish
    <2>1. /\ writer = "publish" /\ UNCHANGED <<queue, enqueueMu, sender, batch, done, inserted>>
          /\ \/ /\ stored = <<>> /\ UNCHANGED stored
                /\ writer' = IF done THEN "closing" ELSE "collect"
             \/ stored # <<>> /\ stored' = Tail(stored) /\ UNCHANGED writer
      BY <1>6 DEF publish, Flushed
    <2>2. batch = <<>> /\ inserted = <<>> BY <1>0, <2>1 DEF Flushing
    <2>3. Stopped' /\ Flushing' BY <1>0, <2>1 DEF Stopped, Flushing
    <2>4. writer' \in Places BY <1>0, <2>1 DEF Places
    <2>5. stored' \in Seq(Events) BY <1>0, <2>1, HeadTailProperties
    <2>6. Len(batch') <= Len(batch) BY <1>0, <2>1
    <2> QED BY <1>0, <1>1, <2>1, <2>2, <2>3, <2>4, <2>5, <2>6
  <1> QED BY <1>2, <1>3, <1>4, <1>5, <1>6 DEF Flush

\* Close, the last flush and the end of the writer.
LEMMA EndKeeps ==
    ASSUME IInv, Close \/ Drain \/ CloseStreams
    PROVE  IInv'
  <1>0. /\ queue \in Seq(Events) /\ batch \in Seq(Events)
        /\ inserted \in Seq(Events) /\ stored \in Seq(Events) /\ done \in BOOLEAN
        /\ Stopped /\ Flushing /\ Limits
    BY DEF IInv, Shapes
  <1>1. CASE Close
    <2>1. /\ UNCHANGED <<queue, enqueueMu, sender, batch, inserted, stored>>
          /\ writer = "collect" /\ writer' = "drain" /\ done'
          /\ \A s \in Senders : sender[s] = NoSender
      BY <1>1 DEF Close, HandlersDone, fresh
    <2>2. Stopped' /\ Flushing' BY <1>0, <2>1 DEF Stopped, Flushing
    <2>3. writer' \in Places /\ done' \in BOOLEAN BY <1>1, <2>1 DEF Places, Close
    <2>4. Len(queue') <= Len(queue) BY <1>0, <2>1
    <2> QED BY <1>0, <2>1, <2>2, <2>3, <2>4, WriterKeeps
  <1>2. CASE Drain
    <2>1. /\ queue' = <<>> /\ batch' = batch \o queue
          /\ UNCHANGED <<enqueueMu, sender, done, inserted, stored>>
          /\ writer = "drain" /\ writer' \in {"closing", "flush"}
          /\ writer' = "closing" => batch' = <<>>
      BY <1>2 DEF Drain, Drained, fresh
    <2>2. done BY <1>0, <2>1 DEF Stopped
    <2>3. Stopped' /\ Flushing' BY <1>0, <2>1, <2>2 DEF Stopped, Flushing
    <2>4. queue' \in Seq(Events) /\ batch' \in Seq(Events) /\ Len(queue') <= Len(queue)
      BY <1>0, <2>1
    <2>5. writer' \in Places /\ writer' # "collect" BY <2>1 DEF Places
    <2> QED BY <1>0, <2>1, <2>2, <2>3, <2>4, <2>5, WriterKeeps
  <1>3. CASE CloseStreams
    <2>1. /\ UNCHANGED <<queue, enqueueMu, sender, batch, done, inserted, stored>>
          /\ writer = "closing" /\ writer' = "stopped"
      BY <1>3 DEF CloseStreams, fresh
    <2>2. Stopped' /\ Flushing' BY <1>0, <2>1 DEF Stopped, Flushing
    <2>3. writer' \in Places /\ Len(queue') <= Len(queue) BY <1>0, <2>1 DEF Places
    <2> QED BY <1>0, <2>1, <2>2, <2>3, WriterKeeps DEF Limits
  <1> QED BY <1>1, <1>2, <1>3

\* Every step: streams and deletions leave queue and senders alone, a restart empties them.
LEMMA NextKeeps == IInv /\ [Next]_vars => IInv'
  <1> SUFFICES ASSUME IInv, [Next]_vars PROVE IInv' OBVIOUS
  <1>1. ASSUME NEW s \in Senders, SenderStep(s) PROVE IInv'
    BY <1>1, EnqueueEventKeeps, EnqueueReturnKeeps DEF SenderStep
  <1>2. ASSUME UNCHANGED memory PROVE IInv' BY <1>2, IdleKeeps DEF memory, fresh
  <1>3. CASE Restart
    <2>1. /\ queue' = <<>> /\ batch' = <<>> /\ inserted' = <<>> /\ stored' = <<>>
          /\ writer' = "collect" /\ done' = FALSE /\ enqueueMu' = {}
          /\ sender' = [s \in Senders |-> NoSender]
      BY <1>3 DEF Restart, Fresh
    <2>2. NoSender \in Sender /\ NoSender.pc = "idle" BY DEF NoSender, Sender
    <2>3. \A s \in Senders : sender'[s] = NoSender BY <2>1
    <2>6. sender' \in [Senders -> Sender] /\ writer' \in Places BY <2>1, <2>2 DEF Places
    <2>7. done' \in BOOLEAN /\ enqueueMu' \subseteq Senders BY <2>1, Zenon
    <2>4. Shapes' BY <2>1, <2>6, <2>7, EmptySeq DEF Shapes
    <2>5. Limits' BY <2>1, Bounds DEF Limits
    <2> QED
      BY <2>1, <2>2, <2>3, <2>4, <2>5
         DEF IInv, Holds, IdleSenders, Room, RefusedIsWhole, Stopped, Flushing
  <1>4. CASE UNCHANGED vars BY <1>2, <1>4 DEF vars
  <1> QED
    BY <1>1, <1>2, <1>3, <1>4, EnqueueKeeps, CollectKeeps, FlushKeeps, EndKeeps
       DEF Next, WriterStep, Subscribe, StreamRead, Unsubscribe, retain, retainRows,
           ClearQueryHistory

\* The invariant holds in every state of every behaviour.
LEMMA AlwaysIInv == Spec => []IInv
  BY InitIInv, NextKeeps, PTL DEF Spec

----------------------------------------------------------------------------
(* The tables: rows and aggregates                                         *)

NoneTwice(s) == \A i, j \in 1..Len(s) : s[i] = s[j] => i = j

Tables ==
    /\ raw \subseteq Events /\ forgotten \subseteq Events /\ counted \in [Events -> Nat]
    /\ retention \in {"idle", "rows", "size"}

\* What the open transaction has inserted is new, and none of it is there twice.
Uncommitted ==
    InTransaction =>
        /\ NoneTwice(inserted)
        /\ \A i \in 1..Len(inserted) : inserted[i] \notin raw

TablesInv == Tables /\ CountedOnce /\ Uncommitted

\* An event that was not in a sequence is in it once after it was appended.
LEMMA AppendNew ==
    ASSUME NEW s \in Seq(Events), NEW e \in Events, NoneTwice(s), e \notin ToSet(s)
    PROVE  NoneTwice(Append(s, e)) /\ ToSet(Append(s, e)) = ToSet(s) \cup {e}
  <1> DEFINE t == Append(s, e)
  <1>1. /\ t \in Seq(Events) /\ Len(t) = Len(s) + 1 /\ t[Len(s) + 1] = e /\ Len(s) \in Nat
        /\ \A i \in 1..Len(s) : t[i] = s[i]
    BY AppendProperties
  <1>2. DOMAIN s = 1..Len(s) /\ DOMAIN t = 1..Len(t) BY <1>1, LenProperties
  <1>3. \A i \in 1..Len(s) : s[i] # e BY <1>2 DEF ToSet
  <1> HIDE DEF t
  <1>4. NoneTwice(t)
    <2> SUFFICES ASSUME NEW i \in 1..Len(t), NEW j \in 1..Len(t), t[i] = t[j] PROVE i = j
      BY DEF NoneTwice
    <2>1. CASE i \in 1..Len(s) /\ j \in 1..Len(s) BY <1>1, <2>1 DEF NoneTwice
    <2>2. CASE i = Len(s) + 1 /\ j \in 1..Len(s) BY <1>1, <1>3, <2>2
    <2>3. CASE j = Len(s) + 1 /\ i \in 1..Len(s) BY <1>1, <1>3, <2>3
    <2>4. i \in 1..Len(s) \/ i = Len(s) + 1 BY <1>1
    <2>5. j \in 1..Len(s) \/ j = Len(s) + 1 BY <1>1
    <2> QED BY <2>1, <2>2, <2>3, <2>4, <2>5
  <1>5. ToSet(t) \subseteq ToSet(s) \cup {e}
    <2> SUFFICES ASSUME NEW i \in 1..Len(t) PROVE t[i] \in ToSet(s) \cup {e}
      BY <1>2 DEF ToSet
    <2>1. i \in 1..Len(s) \/ i = Len(s) + 1 BY <1>1
    <2> QED BY <1>1, <1>2, <2>1 DEF ToSet
  <1>6. ToSet(s) \cup {e} \subseteq ToSet(t)
    <2>1. Len(s) + 1 \in 1..Len(t) /\ \A i \in 1..Len(s) : i \in 1..Len(t) BY <1>1
    <2> QED BY <1>1, <1>2, <2>1 DEF ToSet
  <1> QED BY <1>4, <1>5, <1>6 DEF t

\* What comes after the head of a sequence without repetitions is the rest of it.
LEMMA TailRest ==
    ASSUME NEW s \in Seq(Events), s # <<>>, NoneTwice(s)
    PROVE  /\ Tail(s) \in Seq(Events) /\ NoneTwice(Tail(s)) /\ Len(Tail(s)) = Len(s) - 1
           /\ Head(s) \in ToSet(s) /\ ToSet(Tail(s)) = ToSet(s) \ {Head(s)}
  <1> DEFINE t == Tail(s)
  <1>1. /\ t \in Seq(Events) /\ Len(t) = Len(s) - 1 /\ \A i \in 1..Len(t) : t[i] = s[i + 1]
        /\ Len(s) \in Nat \ {0} /\ Head(s) = s[1]
    BY HeadTailProperties, EmptySeq
  <1>2. DOMAIN s = 1..Len(s) /\ DOMAIN t = 1..Len(t) BY <1>1, LenProperties
  <1> HIDE DEF t
  <1>3. \A i \in 1..Len(t) : i + 1 \in 1..Len(s) /\ i + 1 # 1 BY <1>1
  <1>4. 1 \in 1..Len(s) BY <1>1
  <1>5. NoneTwice(t)
    <2> SUFFICES ASSUME NEW i \in 1..Len(t), NEW j \in 1..Len(t), t[i] = t[j] PROVE i = j
      BY DEF NoneTwice
    <2>1. i + 1 = j + 1 BY <1>1, <1>3 DEF NoneTwice
    <2> QED BY <2>1, <1>1
  <1>6. Head(s) \in ToSet(s) BY <1>1, <1>2, <1>4 DEF ToSet
  <1>7. ToSet(t) \subseteq ToSet(s) \ {Head(s)}
    <2> SUFFICES ASSUME NEW i \in 1..Len(t) PROVE t[i] \in ToSet(s) /\ t[i] # s[1]
      BY <1>1, <1>2 DEF ToSet
    <2> QED BY <1>1, <1>2, <1>3, <1>4 DEF ToSet, NoneTwice
  <1>8. ToSet(s) \ {Head(s)} \subseteq ToSet(t)
    <2> SUFFICES ASSUME NEW i \in 1..Len(s), s[i] # s[1] PROVE s[i] \in ToSet(t)
      BY <1>1, <1>2 DEF ToSet
    <2>1. i - 1 \in 1..Len(t) /\ (i - 1) + 1 = i BY <1>1
    <2>2. t[i - 1] = s[i] BY <1>1, <2>1
    <2> QED BY <1>2, <2>1, <2>2 DEF ToSet
  <1> QED BY <1>1, <1>5, <1>6, <1>7, <1>8 DEF t

\* In a sequence without repetitions an event occurs once or not at all.
LEMMA OccursOnce ==
    ASSUME NEW s \in Seq(Events), NoneTwice(s), NEW e
    PROVE  Cardinality({i \in DOMAIN s : s[i] = e}) = IF e \in ToSet(s) THEN 1 ELSE 0
  <1>1. DOMAIN s = 1..Len(s) BY LenProperties
  <1>2. CASE e \in ToSet(s)
    <2>1. PICK k \in 1..Len(s) : s[k] = e BY <1>1, <1>2 DEF ToSet
    <2>2. {i \in DOMAIN s : s[i] = e} = {k} BY <1>1, <2>1 DEF NoneTwice
    <2> QED BY <1>2, <2>2, FS_Singleton
  <1>3. CASE e \notin ToSet(s)
    <2>1. {i \in DOMAIN s : s[i] = e} = {} BY <1>3 DEF ToSet
    <2> QED BY <1>3, <2>1, FS_EmptySet
  <1> QED BY <1>2, <1>3

\* The tables begin empty.
LEMMA InitTables == Init => TablesInv
  BY DEF Init, TablesInv, Tables, CountedOnce, Uncommitted, InTransaction

\* The tables stay as they are, and no transaction begins with something inserted.
LEMMA TablesFrame ==
    ASSUME TablesInv, UNCHANGED tables, retention' \in {retention, "idle"},
           InTransaction' => inserted' = <<>> \/ (InTransaction /\ inserted' = inserted)
    PROVE  TablesInv'
  <1>1. UNCHANGED <<raw, counted, forgotten>> BY DEF tables
  <1>2. Tables' /\ CountedOnce' BY <1>1 DEF TablesInv, Tables, CountedOnce
  <1>3. Uncommitted'
    <2>1. CASE InTransaction' /\ inserted' = <<>>
      BY <2>1 DEF Uncommitted, NoneTwice
    <2>2. CASE InTransaction /\ inserted' = inserted
      BY <1>1, <2>2 DEF TablesInv, Uncommitted, NoneTwice
    <2>3. CASE ~InTransaction' BY <2>3 DEF Uncommitted
    <2> QED BY <2>1, <2>2, <2>3
  <1> QED BY <1>2, <1>3 DEF TablesInv

\* INSERT OR IGNORE leaves out what is in the table or was inserted before.
LEMMA InsertKeepsTables ==
    ASSUME IInv, TablesInv, InsertEvent
    PROVE  TablesInv'
  <1>1. /\ InTransaction /\ batch # <<>> /\ UNCHANGED <<writer, raw, counted, forgotten, retention>>
        /\ \/ IsNew(Head(batch)) /\ inserted' = Append(inserted, Head(batch))
           \/ inserted' = inserted
    BY DEF InsertEvent, database, tables, fresh
  <1>2. inserted \in Seq(Events) /\ batch \in Seq(Events) BY DEF IInv, Shapes
  <1>3. Head(batch) \in Events BY <1>1, <1>2, HeadTailProperties
  <1>4. NoneTwice(inserted) /\ \A i \in 1..Len(inserted) : inserted[i] \notin raw
    BY <1>1 DEF TablesInv, Uncommitted
  <1>5. CASE inserted' = inserted BY <1>1, <1>5, TablesFrame DEF tables, InTransaction
  <1>6. CASE IsNew(Head(batch)) /\ inserted' = Append(inserted, Head(batch))
    <2>1. Head(batch) \notin raw /\ Head(batch) \notin ToSet(inserted) BY <1>6 DEF IsNew
    <2>2. /\ NoneTwice(inserted')
          /\ ToSet(inserted') = ToSet(inserted) \cup {Head(batch)}
      BY <1>2, <1>3, <1>4, <1>6, <2>1, AppendNew
    <2>3. inserted' \in Seq(Events) BY <1>2, <1>3, <1>6, AppendProperties
    <2>4. DOMAIN inserted' = 1..Len(inserted') /\ DOMAIN inserted = 1..Len(inserted)
      BY <1>2, <2>3, LenProperties
    <2>5. \A i \in 1..Len(inserted') : inserted'[i] \notin raw
      <3> SUFFICES ASSUME NEW i \in 1..Len(inserted') PROVE inserted'[i] \notin raw OBVIOUS
      <3>1. inserted'[i] \in ToSet(inserted) \cup {Head(batch)} BY <2>2, <2>4 DEF ToSet
      <3>2. CASE inserted'[i] \in ToSet(inserted) BY <1>4, <2>4, <3>2 DEF ToSet
      <3> QED BY <2>1, <3>1, <3>2
    <2>6. Uncommitted' BY <1>1, <2>2, <2>5 DEF Uncommitted
    <2>7. Tables' /\ CountedOnce' BY <1>1 DEF TablesInv, Tables, CountedOnce
    <2> QED BY <2>6, <2>7 DEF TablesInv
  <1> QED BY <1>1, <1>5, <1>6

\* The commit makes rows and counts visible together.
LEMMA PersistKeepsTables ==
    ASSUME IInv, TablesInv, Persist
    PROVE  TablesInv'
  <1>1. /\ InTransaction /\ raw' = raw \cup ToSet(inserted) /\ counted' = Aggregate
        /\ writer' = "keep" /\ forgotten' = forgotten /\ retention' = retention
    BY DEF Persist
  <1>2. inserted \in Seq(Events) BY DEF IInv, Shapes
  <1>3. NoneTwice(inserted) /\ \A i \in 1..Len(inserted) : inserted[i] \notin raw
    BY <1>1 DEF TablesInv, Uncommitted
  <1>4. DOMAIN inserted = 1..Len(inserted) /\ \A i \in 1..Len(inserted) : inserted[i] \in Events
    BY <1>2, LenProperties
  <1>5. ToSet(inserted) \subseteq Events /\ \A e \in ToSet(inserted) : e \notin raw
    BY <1>3, <1>4 DEF ToSet
  <1>6. \A e \in Events : counted'[e] = counted[e] + IF e \in ToSet(inserted) THEN 1 ELSE 0
    BY <1>1, <1>2, <1>3, OccursOnce DEF Aggregate
  <1>7. counted' = [e \in Events |-> counted'[e]] BY <1>1 DEF Aggregate
  <1>8. /\ counted \in [Events -> Nat] /\ raw \subseteq Events /\ forgotten \subseteq Events
        /\ retention \in {"idle", "rows", "size"}
    BY DEF TablesInv, Tables
  <1>9. \A e \in Events : counted'[e] \in Nat BY <1>6, <1>8
  <1>10. Tables' BY <1>1, <1>5, <1>7, <1>8, <1>9 DEF Tables
  <1>11. CountedOnce'
    <2> SUFFICES ASSUME NEW e \in Events, e \notin forgotten
                 PROVE  counted'[e] = IF e \in raw' THEN 1 ELSE 0
      BY <1>1 DEF CountedOnce
    <2>1. counted[e] = IF e \in raw THEN 1 ELSE 0 BY DEF TablesInv, CountedOnce
    <2> QED BY <1>1, <1>5, <1>6, <2>1
  <1>12. Uncommitted' BY <1>1 DEF Uncommitted, InTransaction
  <1> QED BY <1>10, <1>11, <1>12 DEF TablesInv

\* Deletions wait for the transaction; what retention leaves of an event, its row or its
\* count, it leaves out of account.
LEMMA DeletionKeepsTables ==
    ASSUME TablesInv, NEW events \in SUBSET Events,
           retain(events) \/ retainRows(events) \/ ClearQueryHistory
    PROVE  TablesInv'
  <1>1. ~InTransaction /\ UNCHANGED writer
    BY DEF retain, retainRows, ClearQueryHistory, Cleanup, memory
  <1>2. Uncommitted' BY <1>1 DEF Uncommitted, InTransaction
  <1>3. /\ counted \in [Events -> Nat] /\ raw \subseteq Events /\ forgotten \subseteq Events
        /\ retention \in {"idle", "rows", "size"}
    BY DEF TablesInv, Tables
  <1>4. CASE retain(events) \/ retainRows(events)
    <2>1. /\ counted' \in [Events -> Nat] /\ raw' \subseteq raw
          /\ \A e \in Events \ events : counted'[e] = counted[e] /\ (e \in raw' <=> e \in raw)
          /\ forgotten' = {e \in forgotten \cup events : e \in raw' \/ counted'[e] # 0}
          /\ retention' \in {"idle", "rows", "size"}
      BY <1>3, <1>4 DEF retain, retainRows, Forget
    <2>2. Tables' BY <1>3, <2>1 DEF Tables
    <2>3. CountedOnce'
      <3> SUFFICES ASSUME NEW e \in Events, e \notin forgotten'
                   PROVE  counted'[e] = IF e \in raw' THEN 1 ELSE 0
        BY DEF CountedOnce
      <3>1. CASE e \in forgotten \cup events BY <2>1, <3>1
      <3>2. CASE e \notin forgotten \cup events
        <4>1. counted[e] = IF e \in raw THEN 1 ELSE 0 BY <3>2 DEF TablesInv, CountedOnce
        <4> QED BY <2>1, <3>2, <4>1
      <3> QED BY <3>1, <3>2
    <2> QED BY <1>2, <2>2, <2>3 DEF TablesInv
  <1>5. CASE ClearQueryHistory
    <2>1. raw' = {} /\ counted' = [e \in Events |-> 0] /\ forgotten' = {} /\ retention' = retention
      BY <1>5 DEF ClearQueryHistory, ClearTables
    <2>2. Tables' /\ CountedOnce' BY <1>3, <2>1 DEF Tables, CountedOnce
    <2> QED BY <1>2, <2>2 DEF TablesInv
  <1> QED BY <1>4, <1>5

\* Every step; a transaction begins with nothing inserted, and a restart has none.
LEMMA NextKeepsTables == IInv /\ TablesInv /\ [Next]_vars => TablesInv'
  <1> SUFFICES ASSUME IInv, TablesInv, [Next]_vars PROVE TablesInv' OBVIOUS
  <1>0. Flushing BY DEF IInv
  <1>1. ASSUME UNCHANGED database, UNCHANGED <<writer, inserted>> PROVE TablesInv'
    BY <1>1, TablesFrame DEF InTransaction, database
  <1>2. ASSUME NEW s \in Senders, (\E events \in Batch : Enqueue(s, events)) \/ SenderStep(s)
        PROVE  TablesInv'
    BY <1>1, <1>2 DEF Enqueue, SenderStep, EnqueueEvent, EnqueueReturn, fresh
  <1>3. CASE WriterReceive \/ WriterTick \/ Drain
    <2>1. UNCHANGED database /\ inserted' = inserted /\ writer \in {"collect", "drain"}
      BY <1>3 DEF WriterReceive, WriterTick, Drain, fresh
    <2>2. inserted = <<>> BY <1>0, <2>1 DEF Flushing
    <2> QED BY <2>1, <2>2, TablesFrame DEF database
  <1>4. CASE PersistFails \/ Restart
    <2>1. UNCHANGED tables /\ retention' \in {retention, "idle"} /\ inserted' = <<>>
      BY <1>4 DEF PersistFails, Restart, Fresh, database
    <2> QED BY <2>1, TablesFrame
  <1>5. CASE cacheAnswerDiagnostics
    <2>1. UNCHANGED database /\ writer' \in {"keep", "publish"} BY <1>5 DEF cacheAnswerDiagnostics
    <2> QED BY <2>1, TablesFrame DEF InTransaction, database
  <1>6. CASE publish
    <2>1. UNCHANGED database /\ writer' \in {"publish", "closing", "collect"}
      BY <1>6 DEF publish, Flushed
    <2> QED BY <2>1, TablesFrame DEF InTransaction, database
  <1>7. CASE Close \/ CloseStreams
    <2>1. UNCHANGED database /\ writer' \in {"drain", "stopped"}
      BY <1>7 DEF Close, CloseStreams
    <2> QED BY <2>1, TablesFrame DEF InTransaction, database
  <1>8. ASSUME UNCHANGED <<memory, database>> PROVE TablesInv'
    BY <1>1, <1>8 DEF memory, fresh
  <1>9. CASE ClearQueryHistory BY <1>9, DeletionKeepsTables
  <1>10. CASE UNCHANGED vars BY <1>8, <1>10 DEF vars
  <1>11. ASSUME NEW c \in Streams,
                (\E filter \in Filters : Subscribe(c, filter)) \/ StreamRead(c) \/ Unsubscribe(c)
         PROVE  TablesInv'
    BY <1>8, <1>11 DEF Subscribe, StreamRead, Unsubscribe
  <1> QED
    BY <1>2, <1>3, <1>4, <1>5, <1>6, <1>7, <1>9, <1>10, <1>11,
       InsertKeepsTables, PersistKeepsTables, DeletionKeepsTables
       DEF Next, WriterStep, Flush

\* The tables agree in every state of every behaviour.
LEMMA AlwaysTables == Spec => []TablesInv
  BY InitTables, NextKeepsTables, AlwaysIInv, PTL DEF Spec

----------------------------------------------------------------------------
(* The answer diagnostics                                                  *)

Diagnostics == [order: Seq(Events), keys: SUBSET Events]

\* The order lists every key once and is not too long.
Kept(d) ==
    /\ d \in Diagnostics
    /\ NoneTwice(d.order) /\ ToSet(d.order) = d.keys
    /\ IsFiniteSet(d.keys) /\ Cardinality(d.keys) = Len(d.order)
    /\ Len(d.order) <= MaxDiagnostics

\* No diagnostics are kept at the start.
LEMMA NoneKept == Kept(NoDiagnostics)
  <1>1. NoDiagnostics \in Diagnostics /\ NoDiagnostics.order = <<>> /\ NoDiagnostics.keys = {}
    BY EmptySeq DEF NoDiagnostics, Diagnostics
  <1>2. ToSet(<<>>) = {} BY DEF ToSet
  <1>3. NoneTwice(<<>>) BY DEF NoneTwice
  <1>4. IsFiniteSet({}) /\ Cardinality({}) = 0 BY FS_EmptySet
  <1>5. Len(<<>>) = 0 /\ 0 <= MaxDiagnostics BY Bounds
  <1> QED BY <1>1, <1>2, <1>3, <1>4, <1>5 DEF Kept

\* Entering one event keeps order and map together, whether or not the oldest leaves.
LEMMA RememberKeeps ==
    ASSUME NEW d, Kept(d), NEW e \in Events
    PROVE  Kept(Remember(d, e))
  <1>0. d.order \in Seq(Events) /\ d.keys \subseteq Events /\ Len(d.order) \in Nat
    BY DEF Kept, Diagnostics
  <1>1. CASE e \in d.keys BY <1>1 DEF Remember
  <1>2. CASE e \notin d.keys
    <2>1. PICK all : all = Append(d.order, e) OBVIOUS
    <2>2. PICK keys : keys = d.keys \cup {e} OBVIOUS
    <2>3. all \in Seq(Events) /\ all # <<>> /\ Len(all) = Len(d.order) + 1
      BY <1>0, <2>1, AppendProperties
    <2>4. NoneTwice(all) /\ ToSet(all) = keys
      BY <1>0, <1>2, <2>1, <2>2, AppendNew DEF Kept
    <2>5. IsFiniteSet(keys) /\ Cardinality(keys) = Len(all) /\ keys \subseteq Events
      BY <1>0, <1>2, <2>2, <2>3, FS_AddElement DEF Kept
    <2>6. CASE Len(all) <= MaxDiagnostics
      <3>1. Remember(d, e) = [order |-> all, keys |-> keys]
        BY <1>2, <2>1, <2>2, <2>6 DEF Remember
      <3> QED BY <2>3, <2>4, <2>5, <2>6, <3>1 DEF Kept, Diagnostics
    <2>7. CASE ~(Len(all) <= MaxDiagnostics)
      <3>1. Remember(d, e) = [order |-> Tail(all), keys |-> keys \ {Head(all)}]
        BY <1>2, <2>1, <2>2, <2>7 DEF Remember
      <3>2. /\ Tail(all) \in Seq(Events) /\ NoneTwice(Tail(all)) /\ Len(Tail(all)) = Len(all) - 1
            /\ Head(all) \in keys /\ ToSet(Tail(all)) = keys \ {Head(all)}
        BY <2>3, <2>4, TailRest
      <3>3. /\ IsFiniteSet(keys \ {Head(all)})
            /\ Cardinality(keys \ {Head(all)}) = Cardinality(keys) - 1
        BY <2>5, <3>2, FS_RemoveElement
      <3>4. Len(Tail(all)) <= MaxDiagnostics BY <1>0, <2>3, <3>2 DEF Kept
      <3> QED BY <2>5, <3>1, <3>2, <3>3, <3>4 DEF Kept, Diagnostics
    <2> QED BY <2>6, <2>7
  <1> QED BY <1>1, <1>2

\* Every step: only cacheAnswerDiagnostics and a new process touch the diagnostics.
LEMMA NextKeepsDiagnostics == IInv /\ Kept(diagnostics) /\ [Next]_vars => Kept(diagnostics)'
  <1> SUFFICES ASSUME IInv, Kept(diagnostics), [Next]_vars PROVE Kept(diagnostics')
    BY DEF Kept, Diagnostics, NoneTwice
  <1>1. CASE cacheAnswerDiagnostics
    <2>1. CASE inserted = <<>> BY <1>1, <2>1 DEF cacheAnswerDiagnostics
    <2>2. CASE inserted # <<>>
      <3>1. diagnostics' = Remember(diagnostics, Head(inserted))
        BY <1>1, <2>2 DEF cacheAnswerDiagnostics
      <3>2. inserted \in Seq(Events) BY DEF IInv, Shapes
      <3>3. Head(inserted) \in Events BY <2>2, <3>2, HeadTailProperties
      <3> QED BY <3>1, <3>3, RememberKeeps
    <2> QED BY <2>1, <2>2
  <1>2. CASE Restart BY <1>2, NoneKept DEF Restart, Fresh
  <1>3. CASE UNCHANGED diagnostics BY <1>3
  <1>4. ASSUME NEW s \in Senders, (\E events \in Batch : Enqueue(s, events)) \/ SenderStep(s)
        PROVE  UNCHANGED diagnostics
    BY <1>4 DEF Enqueue, SenderStep, EnqueueEvent, EnqueueReturn
  <1>5. CASE WriterReceive \/ WriterTick \/ Drain \/ Close \/ CloseStreams
    BY <1>3, <1>5 DEF WriterReceive, WriterTick, Drain, Close, CloseStreams
  <1>6. CASE InsertEvent \/ Persist \/ PersistFails \/ publish
    BY <1>3, <1>6 DEF InsertEvent, Persist, PersistFails, publish
  <1>7. ASSUME NEW c \in Streams,
               (\E filter \in Filters : Subscribe(c, filter)) \/ StreamRead(c) \/ Unsubscribe(c)
        PROVE  UNCHANGED diagnostics
    BY <1>7 DEF Subscribe, StreamRead, Unsubscribe
  <1>8. ASSUME NEW events \in SUBSET Events,
               retain(events) \/ retainRows(events) \/ ClearQueryHistory
        PROVE  UNCHANGED diagnostics
    BY <1>8 DEF retain, retainRows, ClearQueryHistory
  <1>9. CASE UNCHANGED vars BY <1>3, <1>9 DEF vars
  <1> QED
    BY <1>1, <1>2, <1>3, <1>4, <1>5, <1>6, <1>7, <1>8, <1>9 DEF Next, WriterStep, Flush

\* Order and map agree in every state of every behaviour.
LEMMA AlwaysKept == Spec => []Kept(diagnostics)
  <1>1. Init => Kept(diagnostics) BY NoneKept DEF Init
  <1> QED BY <1>1, NextKeepsDiagnostics, AlwaysIInv, PTL DEF Spec

----------------------------------------------------------------------------
(* The live streams                                                        *)

\* What was read and is buffered is what is due, or begins it once the stream is closed;
\* the buffer is a channel of its capacity.
Whole(conn) ==
    /\ conn \in Stream /\ Len(conn.buffer) <= StreamBuffer
    /\ LET got == conn.read \o conn.buffer
       IN  IF conn.open THEN got = conn.due ELSE IsPrefix(got, conn.due)

WholeStreams == stream \in [Streams -> Stream] /\ \A c \in Streams : Whole(stream[c])

\* A sequence begins itself, and what is got by appending to it.
LEMMA PrefixOfMore ==
    ASSUME NEW s \in Seq(Events)
    PROVE  IsPrefix(s, s) /\ \A e \in Events : IsPrefix(s, Append(s, e))
  <1>1. Len(s) \in Nat /\ \A i \in 1..Len(s) : s[i] \in Events BY LenProperties
  <1>2. IsPrefix(s, s) BY <1>1 DEF IsPrefix
  <1>3. ASSUME NEW e \in Events PROVE IsPrefix(s, Append(s, e))
    <2>1. PICK t : t = Append(s, e) OBVIOUS
    <2>2. t \in Seq(Events) /\ Len(t) = Len(s) + 1 /\ \A i \in 1..Len(s) : t[i] = s[i]
      BY <2>1, AppendProperties
    <2>3. /\ SubSeq(s, 1, Len(s)) \in Seq(Events) /\ Len(SubSeq(s, 1, Len(s))) = Len(s)
          /\ \A i \in 1..Len(s) : SubSeq(s, 1, Len(s))[i] = s[i]
      BY <1>1, SubSeqFull
    <2>4. \A i \in 1..Len(s) : t[i] \in Events BY <1>1, <2>2
    <2>5. /\ SubSeq(t, 1, Len(s)) \in Seq(Events) /\ Len(SubSeq(t, 1, Len(s))) = Len(s)
          /\ \A i \in 1..Len(s) : SubSeq(t, 1, Len(s))[i] = t[i]
      BY <1>1, <2>4, SubSeqProperties
    <2>6. SubSeq(s, 1, Len(s)) = SubSeq(t, 1, Len(s)) BY <2>2, <2>3, <2>5, SeqEqual
    <2>7. Len(s) <= Len(t) BY <1>1, <2>2
    <2> QED BY <2>1, <2>6, <2>7 DEF IsPrefix
  <1> QED BY <1>2, <1>3

\* Appending to the second of two sequences appends to both together.
LEMMA AppendToBoth ==
    ASSUME NEW a \in Seq(Events), NEW b \in Seq(Events), NEW e \in Events
    PROVE  a \o Append(b, e) = Append(a \o b, e)
  <1>1. PICK s, t : s = a \o Append(b, e) /\ t = Append(a \o b, e) OBVIOUS
  <1>2. Append(b, e) \in Seq(Events) /\ a \o b \in Seq(Events)
    BY AppendProperties, ConcatProperties
  <1>3. s \in Seq(Events) /\ t \in Seq(Events)
    BY <1>1, <1>2, AppendProperties, ConcatProperties
  <1>4. Len(s) = Len(t) BY <1>1, <1>2
  <1>5. \A i \in 1..Len(s) : s[i] = t[i] BY <1>1, <1>2
  <1> QED BY <1>1, <1>3, <1>4, <1>5, SeqEqual

\* The first of the second sequence goes to the end of the first one.
LEMMA MoveOver ==
    ASSUME NEW a \in Seq(Events), NEW b \in Seq(Events), b # <<>>
    PROVE  Append(a, Head(b)) \o Tail(b) = a \o b
  <1>1. PICK s, t : s = Append(a, Head(b)) \o Tail(b) /\ t = a \o b OBVIOUS
  <1>2. Head(b) \in Events /\ Tail(b) \in Seq(Events) BY HeadTailProperties
  <1>3. Append(a, Head(b)) \in Seq(Events) BY <1>2, AppendProperties
  <1>4. s \in Seq(Events) /\ t \in Seq(Events) BY <1>1, <1>2, <1>3, ConcatProperties
  <1>5. Len(s) = Len(t) BY <1>1, <1>2, <1>3
  <1>6. \A i \in 1..Len(s) : s[i] = t[i] BY <1>1, <1>2, <1>3
  <1> QED BY <1>1, <1>4, <1>5, <1>6, SeqEqual

\* A client that is not connected.
LEMMA NoStreamWhole == NoStream \in Stream /\ Whole(NoStream)
  <1>1. <<>> \in Seq(Events) BY EmptySeq
  <1>2. NoStream \in Stream BY <1>1 DEF NoStream, Stream
  <1>3. NoStream.read \o NoStream.buffer = <<>> /\ NoStream.due = <<>> /\ ~NoStream.open
    BY <1>1, ConcatEmptySeq DEF NoStream
  <1>4. IsPrefix(<<>>, <<>>) BY <1>1, PrefixOfMore
  <1>5. Len(NoStream.buffer) <= StreamBuffer BY Bounds DEF NoStream
  <1> QED BY <1>2, <1>3, <1>4, <1>5 DEF Whole

\* publish passes an event on or closes the stream; either way nothing is left out.
LEMMA OfferKeeps ==
    ASSUME NEW conn, Whole(conn), NEW e \in Events
    PROVE  Offer(conn, e) \in Stream /\ Whole(Offer(conn, e))
  <1>0. /\ conn \in Stream /\ conn.read \in Seq(Events) /\ conn.buffer \in Seq(Events)
        /\ conn.due \in Seq(Events) /\ conn.open \in BOOLEAN
    BY DEF Whole, Stream
  <1>1. CASE ~conn.open \/ e \notin conn.filter BY <1>0, <1>1 DEF Offer
  <1>2. CASE conn.open /\ e \in conn.filter
    <2>1. conn.read \o conn.buffer = conn.due BY <1>2 DEF Whole
    <2>2. Append(conn.due, e) \in Seq(Events) /\ Append(conn.buffer, e) \in Seq(Events)
      BY <1>0, AppendProperties
    <2>3. CASE Len(conn.buffer) < StreamBuffer
      <3>1. PICK x : x = [conn EXCEPT !.buffer = Append(@, e), !.due = Append(@, e)] OBVIOUS
      <3>2. Offer(conn, e) = x BY <1>2, <2>3, <3>1 DEF Offer
      <3>3. /\ x \in Stream /\ x.read = conn.read /\ x.buffer = Append(conn.buffer, e)
            /\ x.due = Append(conn.due, e) /\ x.open = conn.open
        BY <1>0, <2>2, <3>1 DEF Stream
      <3>4. conn.read \o Append(conn.buffer, e) = Append(conn.read \o conn.buffer, e)
        BY <1>0, AppendToBoth
      <3>7. x.read \o x.buffer = x.due BY <2>1, <3>3, <3>4
      <3>8. Len(x.buffer) <= StreamBuffer BY <1>0, <2>3, <3>3, AppendProperties, Bounds
      <3> QED BY <1>2, <3>2, <3>3, <3>7, <3>8 DEF Whole
    <2>4. CASE ~(Len(conn.buffer) < StreamBuffer)
      <3>1. PICK x : x = [conn EXCEPT !.open = FALSE, !.due = Append(@, e)] OBVIOUS
      <3>2. Offer(conn, e) = x BY <1>2, <2>4, <3>1 DEF Offer
      <3>3. /\ x \in Stream /\ x.read = conn.read /\ x.buffer = conn.buffer
            /\ x.due = Append(conn.due, e) /\ ~x.open
        BY <1>0, <2>2, <3>1 DEF Stream
      <3>4. IsPrefix(conn.due, Append(conn.due, e)) BY <1>0, PrefixOfMore
      <3>5. Len(x.buffer) <= StreamBuffer BY <3>3 DEF Whole
      <3> QED BY <2>1, <3>2, <3>3, <3>4, <3>5 DEF Whole
    <2> QED BY <2>3, <2>4
  <1> QED BY <1>1, <1>2

\* Reading moves one event from the buffer to the client.
LEMMA ReadKeeps ==
    ASSUME NEW conn, Whole(conn), conn.buffer # <<>>, NEW x,
           x = [conn EXCEPT !.read = Append(@, Head(conn.buffer)), !.buffer = Tail(@)]
    PROVE  x \in Stream /\ Whole(x)
  <1>0. /\ conn \in Stream /\ conn.read \in Seq(Events) /\ conn.buffer \in Seq(Events)
    BY DEF Whole, Stream
  <1>1. PICK h, t : h = Head(conn.buffer) /\ t = Tail(conn.buffer) OBVIOUS
  <1>2. h \in Events /\ t \in Seq(Events) BY <1>0, <1>1, HeadTailProperties
  <1>3. Append(conn.read, h) \in Seq(Events) BY <1>0, <1>2, AppendProperties
  <1>4. /\ x \in Stream /\ x.read = Append(conn.read, h) /\ x.buffer = t
        /\ x.due = conn.due /\ x.open = conn.open
    BY <1>0, <1>1, <1>2, <1>3 DEF Stream
  <1>5. Append(conn.read, h) \o t = conn.read \o conn.buffer BY <1>0, <1>1, MoveOver
  <1>9. x.read \o x.buffer = conn.read \o conn.buffer BY <1>4, <1>5
  <1>10. Len(t) = Len(conn.buffer) - 1 BY <1>0, <1>1, HeadTailProperties
  <1>11. Len(x.buffer) <= StreamBuffer BY <1>0, <1>4, <1>10, Bounds DEF Whole
  <1> QED BY <1>4, <1>9, <1>11 DEF Whole

\* Close closes a stream with what it has.
LEMMA CloseKeeps ==
    ASSUME NEW conn, Whole(conn), NEW x, x = [conn EXCEPT !.open = FALSE]
    PROVE  x \in Stream /\ Whole(x)
  <1>0. /\ conn \in Stream /\ conn.due \in Seq(Events)
    BY DEF Whole, Stream
  <1>1. /\ x \in Stream /\ x.read = conn.read /\ x.buffer = conn.buffer
        /\ x.due = conn.due /\ ~x.open
    BY <1>0 DEF Stream
  <1>2. IsPrefix(conn.due, conn.due) BY <1>0, PrefixOfMore
  <1>3. IsPrefix(x.read \o x.buffer, x.due) /\ Len(x.buffer) <= StreamBuffer
    BY <1>1, <1>2 DEF Whole
  <1> QED BY <1>1, <1>3 DEF Whole

\* One stream changes.
LEMMA StreamFrame ==
    ASSUME WholeStreams, NEW c \in Streams, NEW x \in Stream, Whole(x),
           stream' = [stream EXCEPT ![c] = x]
    PROVE  WholeStreams'
  <1>1. stream' \in [Streams -> Stream] BY DEF WholeStreams
  <1>2. \A b \in Streams : stream'[b] = IF b = c THEN x ELSE stream[b] BY DEF WholeStreams
  <1>3. \A b \in Streams : Whole(stream'[b]) BY <1>2 DEF WholeStreams
  <1>4. (\A b \in Streams : Whole(stream[b]))' BY <1>3
  <1> QED BY <1>1, <1>4 DEF WholeStreams

\* Every stream changes alike.
LEMMA AllStreams ==
    ASSUME NEW f \in [Streams -> Stream], \A c \in Streams : Whole(f[c]), stream' = f
    PROVE  WholeStreams'
  <1>1. \A b \in Streams : Whole(stream'[b]) OBVIOUS
  <1>2. (\A b \in Streams : Whole(stream[b]))' BY <1>1
  <1> QED BY <1>2 DEF WholeStreams

\* Every step: streams are touched by publish, by their clients, and by the end of a process.
LEMMA NextKeepsStreams == IInv /\ WholeStreams /\ [Next]_vars => WholeStreams'
  <1> SUFFICES ASSUME IInv, WholeStreams, [Next]_vars PROVE WholeStreams' OBVIOUS
  <1>0. stream \in [Streams -> Stream] /\ \A c \in Streams : Whole(stream[c])
    BY DEF WholeStreams
  <1>1. ASSUME UNCHANGED stream PROVE WholeStreams' BY <1>0, <1>1, AllStreams
  <1>2. CASE publish
    <2>1. CASE stored = <<>> BY <1>1, <1>2, <2>1 DEF publish
    <2>2. CASE stored # <<>>
      <3>1. PICK e : e = Head(stored) OBVIOUS
      <3>2. stream' = [c \in Streams |-> Offer(stream[c], e)] BY <1>2, <2>2, <3>1 DEF publish
      <3>3. stored \in Seq(Events) BY DEF IInv, Shapes
      <3>4. e \in Events BY <2>2, <3>1, <3>3, HeadTailProperties
      <3>5. PICK f : f = [c \in Streams |-> Offer(stream[c], e)] OBVIOUS
      <3>6. \A c \in Streams : f[c] \in Stream /\ Whole(f[c]) BY <1>0, <3>4, <3>5, OfferKeeps
      <3>7. f \in [Streams -> Stream] BY <3>5, <3>6
      <3> QED BY <3>2, <3>5, <3>6, <3>7, AllStreams
    <2> QED BY <2>1, <2>2
  <1>3. CASE CloseStreams
    <2>1. PICK f : f = [c \in Streams |-> [stream[c] EXCEPT !.open = FALSE]] OBVIOUS
    <2>2. \A c \in Streams : f[c] \in Stream /\ Whole(f[c]) BY <1>0, <2>1, CloseKeeps
    <2>3. f \in [Streams -> Stream] BY <2>1, <2>2
    <2>4. stream' = f BY <1>3, <2>1 DEF CloseStreams
    <2> QED BY <2>2, <2>3, <2>4, AllStreams
  <1>4. CASE Restart
    <2>1. PICK f : f = [c \in Streams |-> NoStream] OBVIOUS
    <2>2. stream' = f BY <1>4, <2>1 DEF Restart, Fresh
    <2>3. f \in [Streams -> Stream] /\ \A c \in Streams : Whole(f[c]) BY <2>1, NoStreamWhole
    <2> QED BY <2>2, <2>3, AllStreams
  <1>5. ASSUME NEW c \in Streams, NEW filter \in Filters, Subscribe(c, filter) PROVE WholeStreams'
    <2>1. PICK x : x = [NoStream EXCEPT !.open = TRUE, !.filter = filter] OBVIOUS
    <2>2. stream' = [stream EXCEPT ![c] = x] BY <1>5, <2>1 DEF Subscribe
    <2>3. filter \subseteq Events BY IngestAssumption DEF IngestAssumption
    <2>4. /\ x \in Stream /\ x.read = <<>> /\ x.buffer = <<>> /\ x.due = <<>> /\ x.open
      BY <2>1, <2>3, EmptySeq DEF NoStream, Stream
    <2>5. <<>> \o <<>> = <<>> BY EmptySeq, ConcatEmptySeq
    <2>6. Whole(x) BY <2>4, <2>5, Bounds DEF Whole
    <2> QED BY <2>2, <2>4, <2>6, StreamFrame
  <1>6. ASSUME NEW c \in Streams, StreamRead(c) PROVE WholeStreams'
    <2>1. PICK x : x = [stream[c] EXCEPT !.read = Append(@, Head(stream[c].buffer)), !.buffer = Tail(@)]
      OBVIOUS
    <2>2. stream[c].buffer # <<>> /\ stream' = [stream EXCEPT ![c] = x]
      BY <1>0, <1>6, <2>1 DEF StreamRead
    <2>3. x \in Stream /\ Whole(x) BY <1>0, <2>1, <2>2, ReadKeeps
    <2> QED BY <2>2, <2>3, StreamFrame
  <1>7. ASSUME NEW c \in Streams, Unsubscribe(c) PROVE WholeStreams'
    BY <1>7, NoStreamWhole, StreamFrame DEF Unsubscribe
  <1>8. ASSUME NEW s \in Senders, (\E events \in Batch : Enqueue(s, events)) \/ SenderStep(s)
        PROVE  UNCHANGED stream
    BY <1>8 DEF Enqueue, SenderStep, EnqueueEvent, EnqueueReturn
  <1>9. CASE WriterReceive \/ WriterTick \/ Drain \/ Close
    BY <1>1, <1>9 DEF WriterReceive, WriterTick, Drain, Close
  <1>10. CASE InsertEvent \/ Persist \/ PersistFails \/ cacheAnswerDiagnostics
    BY <1>1, <1>10 DEF InsertEvent, Persist, PersistFails, cacheAnswerDiagnostics
  <1>11. ASSUME NEW events \in SUBSET Events,
                retain(events) \/ retainRows(events) \/ ClearQueryHistory
         PROVE  UNCHANGED stream
    BY <1>11 DEF retain, retainRows, ClearQueryHistory
  <1>12. CASE UNCHANGED vars BY <1>1, <1>12 DEF vars
  <1> QED
    BY <1>1, <1>2, <1>3, <1>4, <1>5, <1>6, <1>7, <1>8, <1>9, <1>10, <1>11, <1>12
       DEF Next, WriterStep, Flush

\* The streams are whole in every state of every behaviour.
LEMMA AlwaysWhole == Spec => []WholeStreams
  <1>1. Init => WholeStreams BY NoStreamWhole DEF Init, WholeStreams
  <1> QED BY <1>1, NextKeepsStreams, AlwaysIInv, PTL DEF Spec

----------------------------------------------------------------------------
(* Results                                                                 *)

\* Enqueue refuses a batch only before its first event is queued: a batch that passed
\* the capacity check is queued to the end, while the writer and other senders run.
THEOREM BatchesAreWhole == Spec => []RefusedIsWhole
  <1>1. IInv => RefusedIsWhole BY DEF IInv
  <1> QED BY <1>1, AlwaysIInv, PTL

\* After Close the queue and the writer's batch are empty: every accepted event went
\* into a transaction.
THEOREM StopsAreClean == Spec => []StopLosesNothing
  <1>1. IInv => StopLosesNothing BY DEF IInv, Stopped, Flushing, StopLosesNothing
  <1> QED BY <1>1, AlwaysIInv, PTL

\* Queue, batch, diagnostics, streams and tables keep their shapes and their limits,
\* whatever the capacities are; only the batch of the last flush may be longer than
\* batchSize.
THEOREM IngestTypeCorrect == Spec => []TypeOK
  <1>1. IInv /\ TablesInv /\ Kept(diagnostics) /\ WholeStreams => TypeOK
    BY DEF IInv, Shapes, Limits, Places, TablesInv, Tables, Kept, WholeStreams, Whole, TypeOK
  <1> QED BY <1>1, AlwaysIInv, AlwaysTables, AlwaysKept, AlwaysWhole, PTL

\* An event is counted once while its row is there and not at all while it is not,
\* however often it is sent and whatever fails, until retention, whose DELETE statements
\* follow one another with anything in between, removes the row or the count alone.
THEOREM EventsAreCountedOnce == Spec => []CountedOnce
  <1>1. TablesInv => CountedOnce BY DEF TablesInv
  <1> QED BY <1>1, AlwaysTables, PTL

\* cacheAnswerDiagnostics keeps its order and its map together for every bound, so that
\* eviction bounds both.
THEOREM DiagnosticsAlwaysAgree == Spec => []DiagnosticsAgree
  <1>1. Kept(diagnostics) => DiagnosticsAgree BY DEF Kept, DiagnosticsAgree
  <1> QED BY <1>1, AlwaysKept, PTL

\* A live stream delivers what was published since it began, or a prefix of it and its
\* end, for any filter and any buffer.
THEOREM StreamsHaveNoGaps == Spec => []StreamHasNoGaps
  <1>1. WholeStreams => StreamHasNoGaps BY DEF WholeStreams, Whole, StreamHasNoGaps
  <1> QED BY <1>1, AlwaysWhole, PTL
=============================================================================
