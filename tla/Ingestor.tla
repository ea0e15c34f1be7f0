------------------------------ MODULE Ingestor ------------------------------
(***************************************************************************)
(* The Kafka ingestor of one topic: the consumer loop of kafka/consumer.go *)
(* and the asynchronous batch processor of ingestor/processor.go that it   *)
(* calls, publishing to a NATS JetStream stream and to the dead letter     *)
(* queue.  One consumer goroutine runs against a broker, a stream and a    *)
(* DLQ that can fail, a context that can be cancelled at any point and a   *)
(* process that can crash at any point and is started again.               *)
(*                                                                         *)
(* A batch is a sequence of records in polling order.  Indices are 1-based *)
(* (the code's are 0-based), so lastAckedIdx = 0 stands for the code's -1  *)
(* and `cursor` is the number of records the cursor has passed.  The index *)
(* slices of asyncBatchState (backpressure, dlqOnExit) are sets here: the  *)
(* order in which their elements are visited is left open.                 *)
(***************************************************************************)
EXTENDS Integers, Sequences, FiniteSets

CONSTANTS
    Partitions,    \* partitions of the topic assigned to this consumer
    LogEnd,        \* records per partition, offsets 0 .. LogEnd-1
    Kind,          \* what prepareMesssage makes of each record
    MaxPoll,       \* most records one poll returns
    PendingLimit,  \* pendingPublishesLimit of the processor
    MaxFaults,     \* bound: errors of NATS, the DLQ and the broker
    MaxStops,      \* bound: cancellations and crashes
    MaxRuns        \* bound: consumers started one after the other

Offsets == 0 .. LogEnd - 1
Record == Partitions \X Offsets

\* valid: a message to publish; invalid: to the DLQ at prepare;
\* incompatible: the schema error that stops the pipeline.
Kinds == {"valid", "invalid", "incompatible"}

ASSUME IngestorAssumption ==
    /\ Partitions # {}
    /\ LogEnd \in Nat \ {0}
    /\ Kind \in [Record -> Kinds]
    /\ MaxPoll \in Nat \ {0}
    /\ PendingLimit \in Nat \ {0}
    /\ MaxFaults \in Nat
    /\ MaxStops \in Nat
    /\ MaxRuns \in Nat \ {0}

VARIABLES
    committed,    \* broker: next offset of the group, per partition
    copies,       \* stream: how often each record has been stored
    dlq,          \* dead letter queue: the records stored in it
    pc,           \* where the consumer goroutine is
    ctx,          \* the consumer's context: live or cancelled
    position,     \* franz-go's polled cursor, per partition
    batch,        \* c.batch, the records of the poll being processed
    cached,       \* indices whose prepared message is cached
    completed,    \* indices acked or accepted by the DLQ
    backpressure, \* indices waiting for a retry
    retry,        \* those this pass over backpressure has still to visit
    futures,      \* per index: state of its pending publish
    dlqOnExit,    \* indices to DLQ on cleanup
    drain,        \* those cleanup has still to push
    cursor,       \* records of the batch the cursor has passed
    lastAckedIdx, \* contiguous completed prefix, as last computed
    savedErr,     \* cause of the cleanup: none, fatal or ctx
    runs,         \* consumers started so far
    faults,       \* faults spent
    stops         \* cancellations and crashes spent

external == <<committed, copies, dlq>>
asyncState == <<cached, completed, backpressure, retry, futures, dlqOnExit,
                drain, cursor, lastAckedIdx, savedErr>>
bounds == <<runs, faults, stops>>
vars == <<external, pc, ctx, position, batch, asyncState, bounds>>

Idx == 1 .. Len(batch)
Causes == {"none", "fatal", "ctx"}
FutureStates == {"none", "pending", "ok", "full", "err"}

\* A record is handed over once the stream or the DLQ holds it.
Handed(r) == copies[r] > 0 \/ r \in dlq

ctxDone == ctx = "cancelled"

Pending == {i \in Idx : futures[i] = "pending"}

\* An error of a service outside the process; ctx errors cost nothing.
Fault == faults < MaxFaults /\ faults' = faults + 1

-----------------------------------------------------------------------------
(* Consumer                                                                *)

\* The batches a poll may return when it moves the polled cursor to newPos:
\* every record in between once, those of a partition in offset order.
Batches(newPos) ==
    LET polled == {r \in Record : position[r[1]] <= r[2] /\ r[2] < newPos[r[1]]}
    IN  UNION {{b \in [1 .. n -> polled] :
                   /\ \A r \in polled : \E i \in 1 .. n : b[i] = r
                   /\ \A i, j \in 1 .. n :
                         (i < j /\ b[i][1] = b[j][1]) => b[i][2] < b[j][2]} :
               n \in 1 .. MaxPoll}

\* Mutant: the acked prefix of the previous batch is not reset.
FreshBatchStateKeepsPrefix(n) ==
    /\ cached' = {} /\ completed' = {} /\ backpressure' = {} /\ retry' = {}
    /\ futures' = [i \in 1 .. n |-> "none"]
    /\ dlqOnExit' = {} /\ drain' = {}
    /\ cursor' = 0
    /\ savedErr' = "none"
    /\ UNCHANGED lastAckedIdx

\* make(asyncBatchState) for a batch of n records.
FreshBatchState(n) ==
    /\ cached' = {}
    /\ completed' = {}
    /\ backpressure' = {}
    /\ retry' = {}
    /\ futures' = [i \in 1 .. n |-> "none"]
    /\ dlqOnExit' = {}
    /\ drain' = {}
    /\ cursor' = 0
    /\ lastAckedIdx' = 0
    /\ savedErr' = "none"

\* handleBatchMessages: poll, fill c.batch, call the processor.
Poll ==
    /\ pc = "poll" /\ ~ctxDone
    /\ \E newPos \in [Partitions -> 0 .. LogEnd] :
          /\ \A p \in Partitions : position[p] <= newPos[p]
          /\ newPos # position
          /\ position' = newPos
          /\ batch' \in Batches(newPos)
    /\ FreshBatchState(Len(batch'))
    /\ pc' = "cursor"
    /\ UNCHANGED <<external, ctx, bounds>>

\* A poll that times out with nothing fetched.
EmptyPoll ==
    /\ pc = "poll" /\ ~ctxDone
    /\ UNCHANGED vars

\* Mutant: the loop does not look at ctx.Done between two batches.
LoopExitMissing == pc = "poll" /\ ctxDone /\ UNCHANGED vars

\* consumeLoop sees ctx.Done between two batches and returns nil.
LoopExit ==
    /\ pc = "poll" /\ ctxDone
    /\ pc' = "down"
    /\ UNCHANGED <<external, ctx, position, batch, asyncState, bounds>>

\* The processor finished the batch: CommitUncommittedOffsets commits the
\* polled cursor.  On an error c.batch is kept and the loop ends; the broker
\* may have applied the commit all the same.
CommitBatch ==
    /\ pc = "commitBatch"
    /\ \/ /\ ~ctxDone
          /\ committed' = position
          /\ batch' = <<>>
          /\ FreshBatchState(0)
          /\ pc' = "poll"
          /\ UNCHANGED faults
       \/ /\ \/ ctxDone /\ UNCHANGED faults
             \/ ~ctxDone /\ Fault
          /\ committed' \in {committed, position}
          /\ pc' = "down"
          /\ UNCHANGED <<batch, asyncState>>
    /\ UNCHANGED <<copies, dlq, ctx, position, runs, stops>>

\* Mutant: the partial commit commits the whole polled cursor.
CommitPartialWhole ==
    /\ pc = "commitPartial"
    /\ committed' = IF lastAckedIdx = 0 THEN committed ELSE position
    /\ batch' = <<>>
    /\ FreshBatchState(0)
    /\ pc' = "down"
    /\ UNCHANGED <<copies, dlq, ctx, position, runs, faults, stops>>

\* The processor failed: CommitRecords commits the offset of lastProcessed in
\* its own partition only, on a fresh context when the error is a ctx error.
\* A commit error is only logged; the batch is dropped and the loop ends.
CommitPartial ==
    /\ pc = "commitPartial"
    /\ \/ lastAckedIdx = 0 /\ UNCHANGED <<committed, faults>>
       \/ /\ lastAckedIdx > 0
          /\ ~(savedErr = "fatal" /\ ctxDone)
          /\ LET r == batch[lastAckedIdx]
             IN  committed' = [committed EXCEPT ![r[1]] = r[2] + 1]
          /\ UNCHANGED faults
       \/ /\ lastAckedIdx > 0
          /\ \/ savedErr = "fatal" /\ ctxDone /\ UNCHANGED faults
             \/ Fault
          /\ UNCHANGED committed
    /\ batch' = <<>>
    /\ FreshBatchState(0)
    /\ pc' = "down"
    /\ UNCHANGED <<copies, dlq, ctx, position, runs, stops>>

-----------------------------------------------------------------------------
(* Batch processor                                                         *)

\* What the error of a call made under ctx is, and what it costs.
CallError ==
    \/ ctxDone /\ savedErr' = "ctx" /\ UNCHANGED faults
    \/ ~ctxDone /\ savedErr' = "fatal" /\ Fault

\* pushMsgToDLQ that returned an error may still have stored the message.
MaybeStored(r) == dlq' \in {dlq, dlq \cup {r}}

\* publishBackpressureSlice, one index of the slice: accepted, throttled
\* again, or an error that sends the index to dlqOnExit and carries the rest.
RepublishAccepted(i) ==
    /\ pc = "carry" /\ i \in retry /\ ~ctxDone
    /\ Cardinality(Pending) < PendingLimit
    /\ futures' = [futures EXCEPT ![i] = "pending"]
    /\ backpressure' = backpressure \ {i}
    /\ retry' = retry \ {i}
    /\ UNCHANGED <<external, pc, ctx, position, batch, cached, completed,
                   dlqOnExit, drain, cursor, lastAckedIdx, savedErr, bounds>>

RepublishThrottled(i) ==
    /\ pc = "carry" /\ i \in retry /\ ~ctxDone
    /\ Cardinality(Pending) >= PendingLimit
    /\ retry' = retry \ {i}
    /\ UNCHANGED <<external, pc, ctx, position, batch, cached, completed,
                   backpressure, futures, dlqOnExit, drain, cursor,
                   lastAckedIdx, savedErr, bounds>>

\* Mutant: after an error the pass goes on with the rest of the carry.
RepublishErrorGoesOn(i) ==
    /\ pc = "carry" /\ i \in retry
    /\ CallError
    /\ dlqOnExit' = dlqOnExit \cup {i}
    /\ backpressure' = backpressure \ {i}
    /\ retry' = retry \ {i}
    /\ UNCHANGED <<external, pc, ctx, position, batch, cached, completed,
                   futures, drain, cursor, lastAckedIdx, runs, stops>>

RepublishError(i) ==
    /\ pc = "carry" /\ i \in retry
    /\ CallError
    /\ dlqOnExit' = dlqOnExit \cup {i}
    /\ backpressure' = backpressure \ {i}
    /\ retry' = {}
    /\ UNCHANGED <<external, pc, ctx, position, batch, cached, completed,
                   futures, drain, cursor, lastAckedIdx, runs, stops>>

CarryPassDone ==
    /\ pc = "carry" /\ retry = {}
    /\ pc' = "cursor"
    /\ UNCHANGED <<external, ctx, position, batch, asyncState, bounds>>

\* publishFromCursor works on the record after the cursor.
next == cursor + 1
AtCursor == pc = "cursor" /\ savedErr = "none" /\ cursor < Len(batch)

\* Mutant: an incompatible record is sent to the DLQ as any invalid one.
PrepareToDLQAnyKind ==
    /\ AtCursor /\ ~ctxDone
    /\ next \notin cached /\ Kind[batch[next]] # "valid"
    /\ dlq' = dlq \cup {batch[next]}
    /\ completed' = completed \cup {next}
    /\ cursor' = next
    /\ UNCHANGED <<committed, copies, pc, ctx, position, batch, cached,
                   backpressure, retry, futures, dlqOnExit, drain,
                   lastAckedIdx, savedErr, bounds>>

\* prepareMesssage pushed the record to the DLQ inline.
PrepareToDLQ ==
    /\ AtCursor /\ ~ctxDone
    /\ next \notin cached /\ Kind[batch[next]] = "invalid"
    /\ dlq' = dlq \cup {batch[next]}
    /\ completed' = completed \cup {next}
    /\ cursor' = next
    /\ UNCHANGED <<committed, copies, pc, ctx, position, batch, cached,
                   backpressure, retry, futures, dlqOnExit, drain,
                   lastAckedIdx, savedErr, bounds>>

\* prepareMesssage failed: the inline DLQ push failed, or the schema is
\* incompatible (a signal is sent).  The record is in no slice at all.
PrepareError ==
    /\ AtCursor
    /\ next \notin cached
    /\ \/ /\ Kind[batch[next]] = "invalid"
          /\ CallError
          /\ MaybeStored(batch[next])
       \/ /\ Kind[batch[next]] = "incompatible"
          /\ savedErr' = IF ctxDone THEN "ctx" ELSE "fatal"
          /\ UNCHANGED <<dlq, faults>>
    /\ pc' = "await"
    /\ UNCHANGED <<committed, copies, ctx, position, batch, cached,
                   completed, backpressure, retry, futures, dlqOnExit, drain,
                   cursor, lastAckedIdx, runs, stops>>

\* A prepared message: just prepared, or cached by an earlier pass.
Prepared == next \in cached \/ Kind[batch[next]] = "valid"

\* Mutant: a publish that was accepted may leave the cursor where it is, so
\* that the next pass publishes the record again.
PublishAcceptedTwice ==
    /\ AtCursor /\ Prepared /\ ~ctxDone
    /\ Cardinality(Pending) < PendingLimit
    /\ cached' = cached \cup {next}
    /\ futures' = [futures EXCEPT ![next] = "pending"]
    /\ cursor' \in {cursor, next}
    /\ UNCHANGED <<external, pc, ctx, position, batch, completed,
                   backpressure, retry, dlqOnExit, drain, lastAckedIdx,
                   savedErr, bounds>>

\* Mutant: the limit on pending publishes is not checked.
PublishAcceptedUnlimited ==
    /\ AtCursor /\ Prepared /\ ~ctxDone
    /\ cached' = cached \cup {next}
    /\ futures' = [futures EXCEPT ![next] = "pending"]
    /\ cursor' = next
    /\ UNCHANGED <<external, pc, ctx, position, batch, completed,
                   backpressure, retry, dlqOnExit, drain, lastAckedIdx,
                   savedErr, bounds>>

PublishAccepted ==
    /\ AtCursor /\ Prepared /\ ~ctxDone
    /\ Cardinality(Pending) < PendingLimit
    /\ cached' = cached \cup {next}
    /\ futures' = [futures EXCEPT ![next] = "pending"]
    /\ cursor' = next
    /\ UNCHANGED <<external, pc, ctx, position, batch, completed,
                   backpressure, retry, dlqOnExit, drain, lastAckedIdx,
                   savedErr, bounds>>

\* Mutant: the cursor passes the throttled record.
PublishThrottledPasses ==
    /\ AtCursor /\ Prepared /\ ~ctxDone
    /\ Cardinality(Pending) >= PendingLimit
    /\ cached' = cached \cup {next}
    /\ cursor' = next
    /\ pc' = "await"
    /\ UNCHANGED <<external, ctx, position, batch, completed, backpressure,
                   retry, futures, dlqOnExit, drain, lastAckedIdx, savedErr,
                   bounds>>

PublishThrottled ==
    /\ AtCursor /\ Prepared /\ ~ctxDone
    /\ Cardinality(Pending) >= PendingLimit
    /\ cached' = cached \cup {next}
    /\ pc' = "await"
    /\ UNCHANGED <<external, ctx, position, batch, completed, backpressure,
                   retry, futures, dlqOnExit, drain, cursor, lastAckedIdx,
                   savedErr, bounds>>

PublishError ==
    /\ AtCursor /\ Prepared
    /\ CallError
    /\ cached' = cached \cup {next}
    /\ dlqOnExit' = dlqOnExit \cup {next}
    /\ cursor' = next
    /\ pc' = "await"
    /\ UNCHANGED <<external, ctx, position, batch, completed, backpressure,
                   retry, futures, drain, lastAckedIdx, runs, stops>>

CursorDone ==
    /\ pc = "cursor"
    /\ savedErr # "none" \/ cursor = Len(batch)
    /\ pc' = "await"
    /\ UNCHANGED <<external, ctx, position, batch, asyncState, bounds>>

\* Mutant: gaps are skipped, the prefix ends at the last completed index.
AdvanceLastAckedIdxOverGaps(done) ==
    lastAckedIdx' = CHOOSE k \in 0 .. Len(batch) :
                        /\ k = 0 \/ k \in done
                        /\ \A i \in done : i <= k

\* advanceLastAckedIdx over the indices in done.
AdvanceLastAckedIdx(done) ==
    \E k \in lastAckedIdx .. Len(batch) :
        /\ \A i \in lastAckedIdx + 1 .. k : i \in done
        /\ k = Len(batch) \/ k + 1 \notin done
        /\ lastAckedIdx' = k

\* Entry of cleanupAndReturn: what drainToDLQ is called with.
BeginCleanup(cause, onExit, carry, done) ==
    /\ savedErr' = cause
    /\ drain' = (onExit \cup (IF cause = "fatal" THEN carry ELSE {})) \ done
    /\ pc' = "drain"

\* The futures have settled: classify them, advance the acked prefix, decide.
ClassifyFutures ==
    /\ pc = "await" /\ Pending = {}
    /\ LET errs   == {i \in Idx : futures[i] = "err"}
           done   == completed \cup {i \in Idx : futures[i] = "ok"}
           carry  == backpressure \cup {i \in Idx : futures[i] = "full"}
           onExit == dlqOnExit \cup errs
           err    == IF savedErr = "none" /\ errs # {} THEN "fatal" ELSE savedErr
       IN  /\ completed' = done
           /\ backpressure' = carry
           /\ dlqOnExit' = onExit
           /\ AdvanceLastAckedIdx(done)
           /\ \/ err # "none" /\ BeginCleanup(err, onExit, carry, done)
              \/ err = "none" /\ ctxDone /\ BeginCleanup("ctx", onExit, carry, done)
              \/ /\ err = "none" /\ ~ctxDone
                 /\ cursor = Len(batch) /\ carry = {}
                 /\ pc' = "commitBatch"
                 /\ UNCHANGED <<savedErr, drain>>
              \/ /\ err = "none" /\ ~ctxDone
                 /\ cursor < Len(batch) \/ carry # {}
                 /\ pc' = "backoff"
                 /\ UNCHANGED <<savedErr, drain>>
    /\ futures' = [i \in Idx |-> "none"]
    /\ UNCHANGED <<external, ctx, position, batch, cached, retry, cursor, bounds>>

\* Mutant: the carry is not visited again.
BackoffElapsedForgetsCarry ==
    /\ pc = "backoff"
    /\ retry' = {}
    /\ pc' = "carry"
    /\ UNCHANGED <<external, ctx, position, batch, cached, completed,
                   backpressure, futures, dlqOnExit, drain, cursor,
                   lastAckedIdx, savedErr, bounds>>

\* The backoff timer fires: the next iteration starts over the carry.
BackoffElapsed ==
    /\ pc = "backoff"
    /\ retry' = backpressure
    /\ pc' = "carry"
    /\ UNCHANGED <<external, ctx, position, batch, cached, completed,
                   backpressure, futures, dlqOnExit, drain, cursor,
                   lastAckedIdx, savedErr, bounds>>

\* ctx.Done wins the select of the backoff.
BackoffCancelled ==
    /\ pc = "backoff" /\ ctxDone
    /\ BeginCleanup("ctx", dlqOnExit, backpressure, completed)
    /\ UNCHANGED <<external, ctx, position, batch, cached, completed,
                   backpressure, retry, futures, dlqOnExit, cursor,
                   lastAckedIdx, bounds>>

\* drainToDLQ.  Cleanup after a fatal error still runs on the consumer's own
\* context; after a ctx error it runs on a fresh one.
DrainCtxDone == savedErr = "fatal" /\ ctxDone

DrainPush(i) ==
    /\ pc = "drain" /\ i \in drain
    /\ ~DrainCtxDone
    /\ dlq' = dlq \cup {batch[i]}
    /\ completed' = completed \cup {i}
    /\ drain' = drain \ {i}
    /\ UNCHANGED <<committed, copies, pc, ctx, position, batch, cached,
                   backpressure, retry, futures, dlqOnExit, cursor,
                   lastAckedIdx, savedErr, bounds>>

\* A failed push ends the drain; its error is joined to the cause.
DrainError(i) ==
    /\ pc = "drain" /\ i \in drain
    /\ \/ DrainCtxDone /\ savedErr' = "ctx" /\ UNCHANGED faults
       \/ ~DrainCtxDone /\ Fault /\ UNCHANGED savedErr
    /\ MaybeStored(batch[i])
    /\ drain' = {}
    /\ UNCHANGED <<committed, copies, pc, ctx, position, batch, cached,
                   completed, backpressure, retry, futures, dlqOnExit, cursor,
                   lastAckedIdx, runs, stops>>

DrainDone ==
    /\ pc = "drain" /\ drain = {}
    /\ AdvanceLastAckedIdx(completed)
    /\ pc' = "commitPartial"
    /\ UNCHANGED <<external, ctx, position, batch, cached, completed,
                   backpressure, retry, futures, dlqOnExit, drain, cursor,
                   savedErr, bounds>>

-----------------------------------------------------------------------------
(* Stream, process                                                         *)

streamFrame == <<committed, dlq, pc, ctx, position, batch, cached,
                 completed, backpressure, retry, dlqOnExit, drain, cursor,
                 lastAckedIdx, savedErr, runs, stops>>

\* The stream stores a message and its PubAck arrives.
StreamAck(i) ==
    /\ i \in Pending /\ pc # "down"
    /\ futures' = [futures EXCEPT ![i] = "ok"]
    /\ copies' = [copies EXCEPT ![batch[i]] = @ + 1]
    /\ UNCHANGED <<streamFrame, faults>>

\* The stream is at its limit and refuses the message: backpressure.
StreamFull(i) ==
    /\ i \in Pending /\ pc # "down"
    /\ futures' = [futures EXCEPT ![i] = "full"]
    /\ UNCHANGED <<streamFrame, copies, faults>>

\* The future fails: the message was refused, or stored and its PubAck lost.
StreamError(i) ==
    /\ i \in Pending /\ pc # "down"
    /\ Fault
    /\ futures' = [futures EXCEPT ![i] = "err"]
    /\ copies' \in {copies, [copies EXCEPT ![batch[i]] = @ + 1]}
    /\ UNCHANGED streamFrame

\* Stop, or a shutdown of the runner, cancels the consumer's context.
Cancel ==
    /\ pc # "down" /\ ~ctxDone /\ stops < MaxStops
    /\ ctx' = "cancelled"
    /\ stops' = stops + 1
    /\ UNCHANGED <<external, pc, position, batch, asyncState, runs, faults>>

\* The process dies.  Any of the publishes in flight may still be stored.
Crash ==
    /\ pc # "down" /\ stops < MaxStops
    /\ stops' = stops + 1
    /\ pc' = "down"
    /\ \E sent \in SUBSET Pending :
          copies' = [r \in Record |-> IF \E i \in sent : batch[i] = r
                                      THEN copies[r] + 1 ELSE copies[r]]
    /\ batch' = <<>>
    /\ FreshBatchState(0)
    /\ UNCHANGED <<committed, dlq, ctx, position, runs, faults>>

\* Mutant: the polled cursor of the previous consumer is reused.
RestartKeepsPosition ==
    /\ pc = "down" /\ runs < MaxRuns
    /\ runs' = runs + 1
    /\ pc' = "poll"
    /\ ctx' = "live"
    /\ batch' = <<>>
    /\ FreshBatchState(0)
    /\ UNCHANGED <<external, position, faults, stops>>

\* A new consumer joins the group and resumes at the committed offsets.
Restart ==
    /\ pc = "down" /\ runs < MaxRuns
    /\ runs' = runs + 1
    /\ pc' = "poll"
    /\ ctx' = "live"
    /\ position' = committed
    /\ batch' = <<>>
    /\ FreshBatchState(0)
    /\ UNCHANGED <<external, faults, stops>>

-----------------------------------------------------------------------------
Init ==
    /\ committed = [p \in Partitions |-> 0]
    /\ copies = [r \in Record |-> 0]
    /\ dlq = {}
    /\ pc = "poll"
    /\ ctx = "live"
    /\ position = committed
    /\ batch = <<>>
    /\ cached = {} /\ completed = {} /\ backpressure = {} /\ retry = {}
    /\ futures = [i \in 1 .. 0 |-> "none"]
    /\ dlqOnExit = {} /\ drain = {}
    /\ cursor = 0 /\ lastAckedIdx = 0
    /\ savedErr = "none"
    /\ runs = 1 /\ faults = 0 /\ stops = 0

Consume == Poll \/ EmptyPoll \/ LoopExit \/ CommitBatch \/ CommitPartial

Process ==
    \/ \E i \in Idx : \/ RepublishAccepted(i)
                      \/ RepublishThrottled(i)
                      \/ RepublishError(i)
    \/ CarryPassDone
    \/ PrepareToDLQ \/ PrepareError
    \/ PublishAccepted \/ PublishThrottled \/ PublishError
    \/ CursorDone
    \/ ClassifyFutures
    \/ BackoffElapsed \/ BackoffCancelled
    \/ \E i \in Idx : DrainPush(i) \/ DrainError(i)
    \/ DrainDone

Stream == \E i \in Idx : StreamAck(i) \/ StreamFull(i) \/ StreamError(i)

Next == Consume \/ Process \/ Stream \/ Cancel \/ Crash \/ Restart

Spec == Init /\ [][Next]_vars

\* The goroutine keeps running, publishes are answered, a consumer that went
\* down is started again (the runner watcher, or the pod's restart policy), and
\* a message published again and again is not refused for ever.
Fairness ==
    /\ WF_vars(Consume)
    /\ WF_vars(Process)
    /\ WF_vars(Stream)
    /\ WF_vars(Restart)
    /\ \A i \in 1 .. MaxPoll : SF_vars(StreamAck(i))

FairSpec == Spec /\ Fairness

-----------------------------------------------------------------------------
(* Properties                                                              *)

TypeOK ==
    /\ committed \in [Partitions -> 0 .. LogEnd]
    /\ copies \in [Record -> Nat]
    /\ dlq \in SUBSET Record
    /\ pc \in {"poll", "cursor", "carry", "await", "backoff", "drain",
               "commitBatch", "commitPartial", "down"}
    /\ ctx \in {"live", "cancelled"}
    /\ position \in [Partitions -> 0 .. LogEnd]
    /\ batch \in Seq(Record)
    /\ cached \in SUBSET Idx
    /\ completed \in SUBSET Idx
    /\ backpressure \in SUBSET Idx
    /\ retry \in SUBSET backpressure
    /\ futures \in [Idx -> FutureStates]
    /\ dlqOnExit \in SUBSET Idx
    /\ drain \in SUBSET Idx
    /\ cursor \in 0 .. Len(batch)
    /\ lastAckedIdx \in 0 .. Len(batch)
    /\ savedErr \in Causes
    /\ runs \in 1 .. MaxRuns
    /\ faults \in 0 .. MaxFaults
    /\ stops \in 0 .. MaxStops

\* No loss: the broker never holds a committed offset beyond a record that is
\* neither in the stream nor in the DLQ, whatever fails, is cancelled or
\* crashes between a publish, its ack, the DLQ push and the commit.
NoLoss ==
    \A p \in Partitions : \A o \in Offsets :
        o < committed[p] => Handed(<<p, o>>)

\* The invariant handleBatchMessages calls load-bearing: between two polls the
\* polled cursor is the committed one, and during a batch it is ahead of it by
\* records of that batch only, so committing it never skips a record.
PolledCursorInBatch ==
    pc # "down" =>
        \A p \in Partitions : \A o \in Offsets :
            (committed[p] <= o /\ o < position[p]) =>
                \E i \in Idx : batch[i] = <<p, o>>

\* One consumer stores a record in the stream at most once: retries after
\* backpressure never publish again what was acked, so only a restart
\* duplicates a record.
OncePerRun == \A r \in Record : copies[r] <= runs

\* An incompatible record stops its partition: it is neither published nor sent
\* to the DLQ, and no commit ever passes it.
IncompatibleHolds ==
    \A r \in Record :
        Kind[r] = "incompatible" => ~Handed(r) /\ committed[r[1]] <= r[2]

\* While nothing fails and no schema is incompatible, the DLQ takes a valid record
\* only for a cancellation, and at most one for each: the record whose publish saw
\* the cancelled context.  The rest of the carry is left in Kafka.
CancelCostsOneRecord ==
    (faults = 0 /\ \A r \in Record : Kind[r] # "incompatible") =>
        Cardinality({r \in dlq : Kind[r] = "valid"}) <= stops

\* The processor never has more publishes in flight than its limit, over
\* retries and fresh records together.
InFlightBounded == Cardinality(Pending) <= PendingLimit

-----------------------------------------------------------------------------
(* The inductive invariant behind the safety properties above              *)

\* A running consumer's batch holds the records between the committed and the
\* polled offsets, those of a partition in order.
BatchInv ==
    pc # "down" =>
        /\ \A p \in Partitions : committed[p] <= position[p]
        /\ \A i \in Idx : /\ committed[batch[i][1]] <= batch[i][2]
                          /\ batch[i][2] < position[batch[i][1]]
        /\ \A i, j \in Idx :
              (i < j /\ batch[i][1] = batch[j][1]) => batch[i][2] < batch[j][2]
        /\ pc = "poll" => batch = <<>>

\* Every record the cursor has passed has a fate, and a completed one has been
\* handed over; a batch ready to be committed is completed.
FateInv ==
    pc # "down" =>
        /\ \A i \in completed : Handed(batch[i])
        /\ \A i \in Idx : futures[i] = "ok" => Handed(batch[i])
        /\ \A i \in 1 .. lastAckedIdx : i \in completed
        /\ \A i \in 1 .. cursor : \/ i \in completed \cup backpressure \cup dlqOnExit
                                  \/ futures[i] # "none"
        /\ savedErr = "none" => dlqOnExit = {}
        /\ pc = "commitBatch" => \A i \in Idx : i \in completed

\* A record is in flight or waiting for a retry, never both, and has then not
\* been stored by this consumer; neither has one it has not reached.
UnsentInv ==
    /\ \A r \in Record : copies[r] <= runs
    /\ pc # "down" =>
        /\ \A i \in Idx : futures[i] # "none" => i <= cursor /\ i \notin backpressure
        /\ \A i \in backpressure : i <= cursor
        /\ \A r \in Record : position[r[1]] <= r[2] => copies[r] < runs
        /\ \A i \in Idx :
              (i > cursor \/ i \in backpressure \/ futures[i] \in {"pending", "full"}) =>
                  copies[batch[i]] < runs

\* Only prepared messages are published, retried or kept for the cleanup.
PreparedInv ==
    /\ \A r \in Record : Kind[r] = "incompatible" => ~Handed(r)
    /\ pc # "down" =>
        /\ \A i \in cached : Kind[batch[i]] = "valid"
        /\ \A i \in Idx : futures[i] # "none" => i \in cached
        /\ backpressure \cup dlqOnExit \cup drain \subseteq cached

IndInv == /\ TypeOK /\ NoLoss /\ PolledCursorInBatch
          /\ BatchInv /\ FateInv /\ UnsentInv /\ PreparedInv

-----------------------------------------------------------------------------
(* Liveness, refinement                                                    *)

\* With no incompatible record, and once failures stop, every record's offset
\* is committed: the retry loop, cleanup and restart never wedge the consumer.
AllCommitted == <>[](\A p \in Partitions : committed[p] = LogEnd)

\* Close waits for the loop to end: a cancelled consumer always gets there.
ShutdownCompletes == ctxDone ~> pc = "down"

\* The consumer implements the promise of SourceHandoff to Kafka: committed
\* offsets only move forward, and only over records handed over.
Handoff == INSTANCE SourceHandoff WITH handed <- {r \in Record : Handed(r)}
ImplementsHandoff == Handoff!Spec

\* What cleanupAndReturn documents: on a cancellation a record of the carry
\* stays in Kafka, it does not move to the indices sent to the DLQ.
CarryKeptOnCancel ==
    [][ctxDone => backpressure \cap dlqOnExit' = {}]_vars

=============================================================================
