-------------------------------- MODULE Sink --------------------------------
(***************************************************************************)
(* The ClickHouse sink of sink/clickhouse.go on a durable JetStream pull   *)
(* consumer: a message handler, a flush ticker and the shutdown path, three *)
(* goroutines that each extract the message buffer and flush it, over one  *)
(* worker pool with one job channel and one result channel.                *)
(*                                                                         *)
(* A delivery is a pair <<m, k>>: the k-th time JetStream hands out m.  The *)
(* loop of ackMessages is one step, which stops after any part of its      *)
(* messages when an ack fails; the batches of one flush are sets, the order *)
(* in which they and their messages are visited is left open.              *)
(* Worker job IDs are 1-based (the code's are 0-based).  A NAK only makes  *)
(* the redelivery earlier; how early is not modelled.                      *)
(***************************************************************************)
EXTENDS Integers, Sequences, FiniteSets

CONSTANTS
    N,               \* messages of the input stream, 1 .. N
    Kind,            \* what the mapper and the ClickHouse batch make of each
    Schema,          \* schema version of each message
    Schemas,         \* schema versions
    Workers,         \* goroutines of the worker pool
    MaxBatch,        \* maxBatchSize
    MaxDeliver,      \* NatsConsumerMaxDeliver
    RedeliverHeld,   \* may AckWait elapse while the sink holds the message?
    MaxFaults,       \* bound: errors of ClickHouse, NATS, Postgres, timeouts
    MaxStops         \* bound: shutdowns and crashes

Msgs == 1 .. N
Delivery == Msgs \X (1 .. MaxDeliver)
Flushers == {"handler", "ticker", "shutdown"}

\* good: a row; unmappable: the worker's mapping fails;
\* unappendable: the ClickHouse batch refuses the values.
Kinds == {"good", "unmappable", "unappendable"}

ASSUME SinkAssumption ==
    /\ N \in Nat
    /\ Kind \in [Msgs -> Kinds]
    /\ Schema \in [Msgs -> Schemas]
    /\ IsFiniteSet(Workers) /\ Workers # {}
    /\ MaxBatch \in Nat \ {0}
    /\ MaxDeliver \in Nat \ {0}
    /\ RedeliverHeld \in BOOLEAN
    /\ MaxFaults \in Nat
    /\ MaxStops \in Nat

VARIABLES
    dcount,        \* JetStream: deliveries of each message so far
    acked,         \* JetStream: messages acknowledged
    rows,          \* ClickHouse: rows written for each message
    dlq,           \* dead letter queue: messages stored in it
    buffer,        \* messageBuffer
    fl,            \* the flush each of the goroutines is in
    jobs,          \* workerJobChan
    work,          \* per worker: the result it has to send
    results,       \* workerResultChan
    settled,       \* deliveries this process has acked or naked
    phase,         \* where Start is
    ctx,           \* its context: live or cancelled
    alreadyExists, \* history: messages acked as duplicates in one batch
    faults,        \* faults spent
    stops          \* shutdowns and crashes spent

service == <<dcount, acked, rows, dlq>>
pool == <<jobs, work, results>>
bounds == <<faults, stops>>
vars == <<service, buffer, fl, pool, settled, phase, ctx, alreadyExists, bounds>>

PoolSize == Cardinality(Workers)
NoWork == [id |-> 0, items |-> <<>>]
Exited == [id |-> -1, items |-> <<>>]
Ms(D) == {d[1] : d \in D}
Elems(s) == {s[i] : i \in 1 .. Len(s)}
Items(r) == {r.items[i].d : i \in 1 .. Len(r.items)}

ctxDone == ctx = "cancelled"

\* The context of a flush: the handler's and the ticker's is Start's own, the
\* final flush runs on a fresh one with a deadline.
CtxDone(f) == f # "shutdown" /\ ctxDone

Fault == faults < MaxFaults /\ faults' = faults + 1

IdleFlush ==
    [pc |-> "idle", own |-> <<>>, sent |-> 0, njobs |-> 0, got |-> 0,
     res |-> <<>>, failed |-> {}, made |-> {}, batches |-> [v \in Schemas |-> {}],
     now |-> {}, allErr |-> FALSE]

\* Every delivery some part of the process still refers to.
HeldDeliveries ==
    Elems(buffer) \cup (UNION {Elems(fl[f].own) : f \in Flushers})
    \cup (UNION {Elems(jobs[i].msgs) : i \in 1 .. Len(jobs)})
    \cup (UNION {Items(work[w]) : w \in Workers})
    \cup (UNION {Items(results[i]) : i \in 1 .. Len(results)})

-----------------------------------------------------------------------------
(* Consuming and buffering                                                 *)

\* JetStream hands m out (again): new, or naked, or its AckWait has elapsed.
Deliverable(m) ==
    /\ m \notin acked /\ dcount[m] < MaxDeliver
    /\ \A n \in 1 .. m - 1 : dcount[n] > 0
    /\ \/ dcount[m] = 0 \/ RedeliverHeld
       \/ <<m, dcount[m]>> \in settled
       \/ m \notin Ms(HeldDeliveries)

\* messageHandler: append to the buffer; flush when the batch size is reached.
HandleMessage(m) ==
    /\ phase = "run" /\ fl["handler"].pc = "idle"
    /\ Deliverable(m)
    /\ dcount' = [dcount EXCEPT ![m] = @ + 1]
    /\ buffer' = Append(buffer, <<m, dcount[m] + 1>>)
    /\ fl' = IF Len(buffer) + 1 >= MaxBatch
             THEN [fl EXCEPT !["handler"] = [@ EXCEPT !.pc = "flush"]] ELSE fl
    /\ UNCHANGED <<acked, rows, dlq, pool, settled, phase, ctx, alreadyExists, bounds>>

\* Mutant: the ticker flushes full batches only.
TickFullOnly ==
    /\ phase \in {"run", "drain"} /\ fl["ticker"].pc = "idle"
    /\ Len(buffer) >= MaxBatch
    /\ fl' = [fl EXCEPT !["ticker"] = [@ EXCEPT !.pc = "flush"]]
    /\ UNCHANGED <<service, buffer, pool, settled, phase, ctx, alreadyExists, bounds>>

\* flushTickerLoop: the ticker fires.
Tick ==
    /\ phase \in {"run", "drain"} /\ fl["ticker"].pc = "idle"
    /\ buffer # <<>>
    /\ fl' = [fl EXCEPT !["ticker"] = [@ EXCEPT !.pc = "flush"]]
    /\ UNCHANGED <<service, buffer, pool, settled, phase, ctx, alreadyExists, bounds>>

\* flushBuffer takes the whole buffer under bufferMu.
ExtractBuffer(f) ==
    /\ fl[f].pc = "flush"
    /\ fl' = [fl EXCEPT ![f] =
                 IF buffer = <<>> THEN IdleFlush
                 ELSE [IdleFlush EXCEPT !.pc = "submit", !.own = buffer]]
    /\ buffer' = <<>>
    /\ UNCHANGED <<service, pool, settled, phase, ctx, alreadyExists, bounds>>

-----------------------------------------------------------------------------
(* The end of a flush that failed                                          *)

\* flushEvents hands every message of the flush to flushFailedBatch.
ToDLQ(flush) == [flush EXCEPT !.pc = "dlqAll", !.now = Elems(flush.own)]

\* sendBatch on an error of createCHBatches: NAK the flush's own messages when
\* the error is retryable, otherwise hand them all to the DLQ.
FailFlush(f, class) ==
    \/ /\ class = "retryable"
       /\ settled' = settled \cup Elems(fl[f].own)
       /\ fl' = [fl EXCEPT ![f] = IdleFlush]
    \/ /\ class = "other"
       /\ fl' = [fl EXCEPT ![f] = ToDLQ(@)]
       /\ UNCHANGED settled

\* A call failed: on the cancelled context (not retryable), or by a fault of
\* either class (a deadline counts as a network timeout, hence retryable).
CallFails(f) ==
    \/ CtxDone(f) /\ FailFlush(f, "other") /\ UNCHANGED faults
    \/ Fault /\ \E class \in {"retryable", "other"} : FailFlush(f, class)

\* Mutant: the push runs on a context of its own.
DLQPushDetached(f, e) ==
    /\ fl[f].pc \in {"dlqBatch", "dlqAll"} /\ e \in fl[f].now
    /\ e \notin settled
    /\ dlq' = dlq \cup {e[1]}
    /\ acked' = acked \cup {e[1]}
    /\ settled' = settled \cup {e}
    /\ fl' = [fl EXCEPT ![f] = [@ EXCEPT !.now = fl[f].now \ {e}]]
    /\ UNCHANGED <<dcount, rows, buffer, pool, phase, ctx, alreadyExists, bounds>>

\* flushFailedBatch, one delivery e of those it still has to push: the DLQ
\* stores it and it is acked.
DLQPush(f, e) ==
    /\ fl[f].pc \in {"dlqBatch", "dlqAll"} /\ e \in fl[f].now
    /\ ~CtxDone(f) /\ e \notin settled
    /\ dlq' = dlq \cup {e[1]}
    /\ acked' = acked \cup {e[1]}
    /\ settled' = settled \cup {e}
    /\ fl' = [fl EXCEPT ![f] = [@ EXCEPT !.now = fl[f].now \ {e}]]
    /\ UNCHANGED <<dcount, rows, buffer, pool, phase, ctx, alreadyExists, bounds>>

\* It stops at e: the push failed, or the ack did (an ack fails for ever on a
\* delivery that was acked or naked before).
DLQStops(f, e) ==
    /\ fl[f].pc \in {"dlqBatch", "dlqAll"} /\ e \in fl[f].now
    /\ \/ CtxDone(f) /\ UNCHANGED <<dlq, faults>>
       \/ Fault /\ dlq' \in {dlq, dlq \cup {e[1]}}
       \/ ~CtxDone(f) /\ e \in settled /\ dlq' = dlq \cup {e[1]} /\ UNCHANGED faults
    /\ fl' = [fl EXCEPT ![f] = [@ EXCEPT !.now = {}, !.allErr = TRUE]]
    /\ UNCHANGED <<dcount, acked, rows, buffer, pool, settled, phase, ctx,
                   alreadyExists, stops>>

\* The loop ends.  flushEvents only logs an error of pushing all messages.
DLQDone(f) ==
    /\ fl[f].pc \in {"dlqBatch", "dlqAll"} /\ fl[f].now = {}
    /\ fl' = [fl EXCEPT ![f] = IF fl[f].pc = "dlqAll" THEN IdleFlush
                               ELSE [@ EXCEPT !.pc = "send"]]
    /\ UNCHANGED <<service, buffer, pool, settled, phase, ctx, alreadyExists, bounds>>

-----------------------------------------------------------------------------
(* Worker pool: jobs out, results back                                     *)

ChunkSize(n) == IF n < PoolSize THEN 1 ELSE n \div PoolSize

\* createCHBatches sends the next chunk of its messages as a job.
SubmitJob(f) ==
    LET own  == fl[f].own
        upto == fl[f].sent + ChunkSize(Len(own))
        last == IF upto > Len(own) THEN Len(own) ELSE upto
        n    == fl[f].njobs + 1
    IN  /\ fl[f].pc = "submit" /\ phase # "closing"
        /\ Len(jobs) < PoolSize
        /\ jobs' = Append(jobs, [id |-> n, msgs |-> SubSeq(own, fl[f].sent + 1, last)])
        /\ fl' = [fl EXCEPT ![f] =
              [@ EXCEPT !.sent = last, !.njobs = n,
                        !.pc = IF last = Len(own) THEN "collect" ELSE "submit",
                        !.res = IF last = Len(own) THEN [j \in 1 .. n |-> <<>>] ELSE <<>>]]
        /\ UNCHANGED <<service, buffer, work, results, settled, phase, ctx, alreadyExists, bounds>>

SubmitCancelled(f) ==
    /\ fl[f].pc = "submit" /\ CtxDone(f)
    /\ FailFlush(f, "other")
    /\ UNCHANGED <<service, buffer, pool, phase, ctx, alreadyExists, bounds>>

\* A worker takes a job and maps its messages.  GetSinkConfig may fail, which
\* makes an error of every message of the job.
WorkerTake(w) ==
    /\ work[w] = NoWork /\ jobs # <<>>
    /\ \E configOk \in BOOLEAN :
          /\ \/ configOk /\ UNCHANGED faults
             \/ ~configOk /\ Fault
          /\ LET job == Head(jobs)
             IN  work' = [work EXCEPT ![w] =
                    [id |-> job.id,
                     items |-> [i \in 1 .. Len(job.msgs) |->
                        [d |-> job.msgs[i],
                         ok |-> configOk /\ Kind[job.msgs[i][1]] # "unmappable"]]]]
    /\ jobs' = Tail(jobs)
    /\ UNCHANGED <<service, buffer, fl, results, settled, phase, ctx, alreadyExists, stops>>

\* Mutant: the result channel has no capacity limit.
WorkerPutUnbounded(w) ==
    /\ work[w].id > 0
    /\ results' = Append(results, work[w])
    /\ work' = [work EXCEPT ![w] = NoWork]
    /\ UNCHANGED <<service, buffer, fl, jobs, settled, phase, ctx, alreadyExists, bounds>>

\* It sends the result to the one result channel, blocking while it is full.
WorkerPut(w) ==
    /\ work[w].id > 0 /\ Len(results) < PoolSize
    /\ results' = Append(results, work[w])
    /\ work' = [work EXCEPT ![w] = NoWork]
    /\ UNCHANGED <<service, buffer, fl, jobs, settled, phase, ctx, alreadyExists, bounds>>

\* createCHBatches takes whatever result comes next, its own or another's.
Collect(f) ==
    LET r == Head(results)
    IN  /\ fl[f].pc = "collect" /\ results # <<>>
        /\ results' = Tail(results)
        /\ fl' = [fl EXCEPT ![f] =
              [@ EXCEPT !.got = fl[f].got + 1,
                        !.res = [i \in DOMAIN fl[f].res |->
                                    IF i = r.id THEN r.items ELSE fl[f].res[i]],
                        !.pc = IF fl[f].got + 1 = fl[f].njobs THEN "prepare" ELSE "collect"]]
        /\ UNCHANGED <<service, buffer, jobs, work, settled, phase, ctx, alreadyExists, bounds>>

\* collectCtx ends first: cancelled, or 30 seconds (the deadline) have passed.
CollectTimeout(f) ==
    /\ fl[f].pc = "collect"
    /\ \/ CtxDone(f) /\ FailFlush(f, "other") /\ UNCHANGED faults
       \/ ~CtxDone(f) /\ Fault /\ FailFlush(f, "retryable")
    /\ UNCHANGED <<service, buffer, pool, phase, ctx, alreadyExists, stops>>

-----------------------------------------------------------------------------
(* From results to batches                                                 *)

\* The results are visited in job order; this is the one to visit next.
Visiting(f, j) ==
    /\ fl[f].pc = "prepare"
    /\ j \in DOMAIN fl[f].res /\ fl[f].res[j] # <<>>
    /\ \A i \in 1 .. j - 1 : fl[f].res[i] = <<>>

Rest(f, j) == [fl[f].res EXCEPT ![j] = Tail(@)]

Refused(it) == ~it.ok \/ Kind[it.d[1]] = "unappendable"

\* Mutant: a refused message is not pushed to the DLQ, only acked.
SkipDropped(f, j) ==
    LET it == Head(fl[f].res[j])
    IN  /\ Visiting(f, j)
        /\ Refused(it) /\ ~CtxDone(f)
        /\ fl' = [fl EXCEPT ![f] =
              [@ EXCEPT !.res = Rest(f, j), !.failed = fl[f].failed \cup {it.d},
                        !.made = fl[f].made \cup (IF it.ok THEN {Schema[it.d[1]]} ELSE {})]]
        /\ UNCHANGED <<service, buffer, pool, settled, phase, ctx, alreadyExists, bounds>>

\* The worker could not map it, or the batch refuses it: to the DLQ, and to be
\* acked with the failed messages.  After a refusal the batch is made again.
SkipToDLQ(f, j) ==
    LET it == Head(fl[f].res[j])
    IN  /\ Visiting(f, j)
        /\ Refused(it) /\ ~CtxDone(f)
        /\ dlq' = dlq \cup {it.d[1]}
        /\ fl' = [fl EXCEPT ![f] =
              [@ EXCEPT !.res = Rest(f, j), !.failed = fl[f].failed \cup {it.d},
                        !.made = fl[f].made \cup (IF it.ok THEN {Schema[it.d[1]]} ELSE {})]]
        /\ UNCHANGED <<dcount, acked, rows, buffer, pool, settled, phase, ctx,
                       alreadyExists, bounds>>

\* A call on the way fails: the DLQ push, or making the batch.
SkipFails(f, j) ==
    LET it == Head(fl[f].res[j])
    IN  /\ Visiting(f, j)
        /\ Refused(it) \/ Schema[it.d[1]] \notin fl[f].made
        /\ CallFails(f)
        /\ \/ UNCHANGED dlq
           \/ Refused(it) /\ ~CtxDone(f) /\ dlq' = dlq \cup {it.d[1]}
        /\ UNCHANGED <<dcount, acked, rows, buffer, pool, phase, ctx, alreadyExists, stops>>

\* Append to the batch of the schema version, made on first use.
AppendRow(f, j) ==
    LET it == Head(fl[f].res[j])
        v  == Schema[it.d[1]]
    IN  /\ Visiting(f, j)
        /\ it.ok /\ Kind[it.d[1]] = "good"
        /\ v \in fl[f].made \/ ~CtxDone(f)
        /\ it.d[1] \notin Ms(fl[f].batches[v])
        /\ fl' = [fl EXCEPT ![f] =
              [@ EXCEPT !.res = Rest(f, j), !.made = fl[f].made \cup {v},
                        !.batches = [fl[f].batches EXCEPT ![v] = fl[f].batches[v] \cup {it.d}]]]
        /\ UNCHANGED <<service, buffer, pool, settled, phase, ctx, alreadyExists, bounds>>

\* The batch already holds this stream sequence (ErrAlreadyExists): the
\* delivery is acked with the failed messages, before the batch is sent.
AppendAlreadyExists(f, j) ==
    LET it == Head(fl[f].res[j])
    IN  /\ Visiting(f, j)
        /\ it.ok /\ Kind[it.d[1]] = "good"
        /\ it.d[1] \in Ms(fl[f].batches[Schema[it.d[1]]])
        /\ fl' = [fl EXCEPT ![f] =
              [@ EXCEPT !.res = Rest(f, j), !.failed = fl[f].failed \cup {it.d}]]
        /\ alreadyExists' = alreadyExists \cup {it.d[1]}
        /\ UNCHANGED <<service, buffer, pool, settled, phase, ctx, bounds>>

\* ackMessages on the deliveries D: all, or some until one fails.
AckAll(D) ==
    /\ D \cap settled = {}
    /\ acked' = acked \cup Ms(D)
    /\ settled' = settled \cup D
    /\ UNCHANGED faults

AckStopped(D) ==
    \E e \in D : \E S \in SUBSET (D \ (settled \cup {e})) :
        /\ \/ e \in settled /\ UNCHANGED faults
           \/ Fault
        /\ acked' = acked \cup Ms(S)
        /\ settled' = settled \cup S

\* The end of createCHBatches acks the failed messages.
AckFailedMessages(f) ==
    /\ fl[f].pc = "prepare"
    /\ \A j \in DOMAIN fl[f].res : fl[f].res[j] = <<>>
    /\ \/ AckAll(fl[f].failed) /\ fl' = [fl EXCEPT ![f] = [@ EXCEPT !.pc = "send"]]
       \/ AckStopped(fl[f].failed) /\ fl' = [fl EXCEPT ![f] = ToDLQ(@)]
    /\ UNCHANGED <<dcount, rows, dlq, buffer, pool, phase, ctx, alreadyExists, stops>>

-----------------------------------------------------------------------------
(* Sending the batches                                                     *)

Sending(f, v) == fl[f].pc = "send" /\ fl[f].batches[v] # {}

Written(D) == [m \in Msgs |-> IF m \in Ms(D) THEN rows[m] + 1 ELSE rows[m]]

\* Mutant: the batch is kept after it was written.
SendOkKeepsBatch(f, v) ==
    /\ Sending(f, v) /\ ~CtxDone(f)
    /\ rows' = Written(fl[f].batches[v])
    /\ fl' = [fl EXCEPT ![f] = [@ EXCEPT !.pc = "ack", !.now = fl[f].batches[v]]]
    /\ UNCHANGED <<dcount, acked, dlq, buffer, pool, settled, phase, ctx,
                   alreadyExists, bounds>>

\* Send wrote the rows and reloaded the batch.
SendOk(f, v) ==
    /\ Sending(f, v) /\ ~CtxDone(f)
    /\ rows' = Written(fl[f].batches[v])
    /\ fl' = [fl EXCEPT ![f] = [@ EXCEPT !.pc = "ack", !.now = fl[f].batches[v],
                                         !.batches[v] = {}]]
    /\ UNCHANGED <<dcount, acked, dlq, buffer, pool, settled, phase, ctx,
                   alreadyExists, bounds>>

\* Send returned an error; the rows may be there all the same (a lost answer,
\* or the reload after the insert failed).  A retryable error is NAKed.
SendFailed(f, v) ==
    /\ Sending(f, v)
    /\ \/ CtxDone(f) /\ UNCHANGED faults
       \/ Fault
    /\ rows' \in {rows, Written(fl[f].batches[v])}
    /\ \/ /\ settled' = settled \cup fl[f].batches[v]
          /\ fl' = [fl EXCEPT ![f] = [@ EXCEPT !.batches[v] = {}]]
       \/ /\ UNCHANGED settled
          /\ fl' = [fl EXCEPT ![f] = [@ EXCEPT !.pc = "dlqBatch", !.now = fl[f].batches[v],
                                               !.batches[v] = {}]]
    /\ UNCHANGED <<dcount, acked, dlq, buffer, pool, phase, ctx, alreadyExists, stops>>

\* The messages of the batch just written are acked; a failure joins allErr.
AckBatch(f) ==
    /\ fl[f].pc = "ack"
    /\ \/ /\ AckAll(fl[f].now)
          /\ fl' = [fl EXCEPT ![f] = [@ EXCEPT !.pc = "send", !.now = {}]]
       \/ /\ AckStopped(fl[f].now)
          /\ fl' = [fl EXCEPT ![f] = [@ EXCEPT !.pc = "send", !.now = {}, !.allErr = TRUE]]
    /\ UNCHANGED <<dcount, rows, dlq, buffer, pool, phase, ctx, alreadyExists, stops>>

FlushDone(f) ==
    /\ fl[f].pc = "send" /\ \A v \in Schemas : fl[f].batches[v] = {}
    /\ fl' = [fl EXCEPT ![f] = IF fl[f].allErr THEN ToDLQ(@) ELSE IdleFlush]
    /\ UNCHANGED <<service, buffer, pool, settled, phase, ctx, alreadyExists, bounds>>

-----------------------------------------------------------------------------
(* Shutdown, crash, restart                                                *)

\* Stop cancels Start's context.
Stop ==
    /\ phase = "run" /\ ~ctxDone /\ stops < MaxStops
    /\ ctx' = "cancelled"
    /\ stops' = stops + 1
    /\ UNCHANGED <<service, buffer, fl, pool, settled, phase, alreadyExists, faults>>

\* handleShutdown: stop consuming, flush what is left.
HandleShutdown ==
    /\ phase = "run" /\ ctxDone
    /\ phase' = "drain"
    /\ fl' = [fl EXCEPT !["shutdown"] = [@ EXCEPT !.pc = "flush"]]
    /\ UNCHANGED <<service, buffer, pool, settled, ctx, alreadyExists, bounds>>

\* stopWorkerPool: cancel the workers, close workerJobChan, wait for them.
StopWorkerPool ==
    /\ phase = "drain" /\ fl["shutdown"].pc = "idle"
    /\ phase' = "closing"
    /\ UNCHANGED <<service, buffer, fl, pool, settled, ctx, alreadyExists, bounds>>

\* A worker sees the cancellation, or the closed and empty job channel.
WorkerExit(w) ==
    /\ phase = "closing" /\ work[w] = NoWork
    /\ work' = [work EXCEPT ![w] = Exited]
    /\ UNCHANGED <<service, buffer, fl, jobs, results, settled, phase, ctx,
                   alreadyExists, bounds>>

\* The state of the process is gone.
ProcessGone ==
    /\ buffer' = <<>>
    /\ fl' = [f \in Flushers |-> IdleFlush]
    /\ jobs' = <<>> /\ results' = <<>>
    /\ work' = [w \in Workers |-> NoWork]
    /\ settled' = {}

\* workerWg.Wait returns, Start returns, the sink process ends.
StartReturns ==
    /\ phase = "closing" /\ \A w \in Workers : work[w] = Exited
    /\ phase' = "down"
    /\ ProcessGone
    /\ UNCHANGED <<service, ctx, alreadyExists, bounds>>

\* A flush sends a job on the closed channel: the process panics.
SubmitPanics(f) ==
    /\ fl[f].pc = "submit" /\ phase = "closing"
    /\ phase' = "panicked"
    /\ ProcessGone
    /\ UNCHANGED <<service, ctx, alreadyExists, bounds>>

Crash ==
    /\ phase \in {"run", "drain", "closing"} /\ stops < MaxStops
    /\ stops' = stops + 1
    /\ phase' = "down"
    /\ ProcessGone
    /\ UNCHANGED <<service, ctx, alreadyExists, faults>>

\* SinkRunner.Start: a new sink on the same durable consumer.
Start ==
    /\ phase \in {"down", "panicked"}
    /\ phase' = "run"
    /\ ctx' = "live"
    /\ UNCHANGED <<service, buffer, fl, pool, settled, alreadyExists, bounds>>

-----------------------------------------------------------------------------
Init ==
    /\ dcount = [m \in Msgs |-> 0]
    /\ acked = {}
    /\ rows = [m \in Msgs |-> 0]
    /\ dlq = {}
    /\ buffer = <<>>
    /\ fl = [f \in Flushers |-> IdleFlush]
    /\ jobs = <<>> /\ results = <<>>
    /\ work = [w \in Workers |-> NoWork]
    /\ settled = {}
    /\ phase = "run" /\ ctx = "live"
    /\ alreadyExists = {}
    /\ faults = 0 /\ stops = 0

Flush(f) ==
    \/ ExtractBuffer(f)
    \/ SubmitJob(f) \/ SubmitCancelled(f)
    \/ Collect(f) \/ CollectTimeout(f)
    \/ \E j \in DOMAIN fl[f].res : \/ SkipToDLQ(f, j) \/ SkipFails(f, j)
                                   \/ AppendRow(f, j) \/ AppendAlreadyExists(f, j)
    \/ AckFailedMessages(f)
    \/ \E v \in Schemas : SendOk(f, v) \/ SendFailed(f, v)
    \/ AckBatch(f) \/ FlushDone(f)
    \/ \E e \in fl[f].now : DLQPush(f, e) \/ DLQStops(f, e)
    \/ DLQDone(f)
    \/ SubmitPanics(f)

Work(w) == WorkerTake(w) \/ WorkerPut(w) \/ WorkerExit(w)

Lifecycle == HandleShutdown \/ StopWorkerPool \/ StartReturns \/ Start

Next ==
    \/ \E m \in Msgs : HandleMessage(m)
    \/ Tick
    \/ \E f \in Flushers : Flush(f)
    \/ \E w \in Workers : Work(w)
    \/ Lifecycle \/ Stop \/ Crash

Spec == Init /\ [][Next]_vars

\* Every goroutine keeps running, the ticker keeps ticking, JetStream
\* redelivers, a sink that went down is started again.
Fairness ==
    /\ \A m \in Msgs : SF_vars(HandleMessage(m))
    /\ WF_vars(Tick)
    /\ \A f \in Flushers : WF_vars(Flush(f))
    /\ \A w \in Workers : WF_vars(Work(w))
    /\ WF_vars(Lifecycle)

FairSpec == Spec /\ Fairness

-----------------------------------------------------------------------------
(* Properties                                                              *)

Handed(m) == rows[m] > 0 \/ m \in dlq

Item == [d : Delivery, ok : BOOLEAN]
Job == [id : Nat, msgs : Seq(Delivery)]
Result == [id : Int, items : Seq(Item)]
FlushState ==
    [pc : {"idle", "flush", "submit", "collect", "prepare", "send", "ack",
           "dlqBatch", "dlqAll"},
     own : Seq(Delivery), sent : Nat, njobs : Nat, got : Nat,
     res : Seq(Seq(Item)), failed : SUBSET Delivery, made : SUBSET Schemas,
     batches : [Schemas -> SUBSET Delivery], now : SUBSET Delivery,
     allErr : BOOLEAN]

TypeOK ==
    /\ dcount \in [Msgs -> 0 .. MaxDeliver]
    /\ acked \in SUBSET Msgs
    /\ rows \in [Msgs -> Nat]
    /\ dlq \in SUBSET Msgs
    /\ buffer \in Seq(Delivery)
    /\ fl \in [Flushers -> FlushState]
    /\ jobs \in Seq(Job) /\ Len(jobs) <= PoolSize
    /\ work \in [Workers -> Result]
    /\ results \in Seq(Result) /\ Len(results) <= PoolSize
    /\ settled \in SUBSET Delivery
    /\ phase \in {"run", "drain", "closing", "down", "panicked"}
    /\ ctx \in {"live", "cancelled"}
    /\ alreadyExists \in SUBSET Msgs
    /\ faults \in 0 .. MaxFaults
    /\ stops \in 0 .. MaxStops

\* A message is acknowledged only when ClickHouse or the DLQ has it, whichever
\* flush took its result, except for a second delivery met in one batch.
AckedHasFate == \A m \in acked : Handed(m) \/ m \in alreadyExists

\* What makes it inductive: every message a flush is about to ack has its fate.
AckPending ==
    \A f \in Flushers :
        /\ \A d \in fl[f].failed : d[1] \in dlq \cup alreadyExists
        /\ fl[f].pc = "ack" => \A d \in fl[f].now : rows[d[1]] > 0

FateInv == TypeOK /\ AckedHasFate /\ AckPending

\* Acknowledged only after a successful write, without the exception: a message
\* that is acked and that no flush holds any more is in ClickHouse or the DLQ.
AckedIsWritten == \A m \in acked : Handed(m) \/ m \in Ms(HeldDeliveries)

\* One delivery writes at most one row: sharing the result channel, stale
\* results of a flush that gave up and rebuilt batches never write it twice.
OneRowPerDelivery == \A m \in Msgs : rows[m] <= dcount[m]

\* While nothing fails, the DLQ receives only messages that cannot be written,
\* and those never become rows, shutdowns and crashes included.
DLQOnlyBad ==
    faults = 0 => /\ \A m \in dlq : Kind[m] # "good"
                  /\ \A m \in Msgs : rows[m] > 0 => Kind[m] = "good"

\* A message whose deliveries are used up and which the sink no longer holds
\* has been written or is in the DLQ.
ExhaustedDeadLettered ==
    \A m \in Msgs :
        (dcount[m] = MaxDeliver /\ m \notin acked /\ m \notin Ms(HeldDeliveries))
            => Handed(m)

\* No flush sends on the job channel once the pool is stopped.
NoPanic == phase # "panicked"

\* A stopped sink always ends.
ShutdownCompletes == (ctxDone /\ phase = "run") ~> phase \in {"down", "panicked"}

\* Every message ends up acknowledged.
AllAcked == <>[](acked = Msgs)

=============================================================================
