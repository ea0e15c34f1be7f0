-------------------------------- MODULE Dedup --------------------------------
(***************************************************************************)
(* The streaming component of processor/streaming_component.go with the     *)
(* processors of cmd/glassflow/dedup_component.go in their fixed order:      *)
(* filter, deduplication over BadgerDB, stateless transformation.  The       *)
(* consume callback, the flush ticker and the shutdown each take the buffer  *)
(* and process it; nothing orders two batches in flight.                     *)
(*                                                                         *)
(* A delivery is a pair <<m, k>>: the k-th time JetStream hands out m.  The  *)
(* dedup key of a message travels in the header Nats-Msg-Id, by which the    *)
(* output stream drops, within its own window, what it has stored before.    *)
(* The DLQ entry of a failed message keeps that header.                      *)
(* Time is not modelled: the keys saved outlive the behaviour.               *)
(***************************************************************************)
EXTENDS Integers, FiniteSets

CONSTANTS
  N,               \* messages of the input stream, 1 .. N
  Key,             \* Nats-Msg-Id of each message
  NoKey,           \* none: the source is not deduplicated
  Outcome,         \* what the filter and the transformation make of each
  MaxBatch,        \* maxBatchSize
  MaxDeliver,      \* NatsConsumerMaxDeliver
  WindowHolds,     \* does the output stream remember a key while a batch holds it?
  RedeliverHeld,   \* may AckWait elapse while the component holds the message?
  MaxFaults,       \* bound: errors of NATS, BadgerDB, Postgres, a full stream
  MaxStops         \* bound: shutdowns and crashes

Msgs == 1 .. N
Delivery == Msgs \X (1 .. MaxDeliver)
Keys == {Key[m] : m \in Msgs} \ {NoKey}
Flushers == {"handler", "ticker", "shutdown"}
Outcomes == {"good", "unmatched", "filterError", "transformError"}

ASSUME DedupAssumption ==
  /\ N \in Nat /\ MaxBatch \in Nat \ {0} /\ MaxDeliver \in Nat
  /\ Outcome \in [Msgs -> Outcomes]
  /\ WindowHolds \in BOOLEAN /\ RedeliverHeld \in BOOLEAN
  /\ MaxFaults \in Nat /\ MaxStops \in Nat

VARIABLES
  dcount,       \* JetStream: deliveries of each message so far
  acked,        \* JetStream: messages acknowledged
  out,          \* output stream: the deliveries stored
  window,       \* output stream: the keys it remembers
  dlq,          \* DLQ stream: the messages stored
  seen,         \* BadgerDB: the keys saved
  buffer,       \* messageBuffer
  fl,           \* the batch each flusher is processing
  phase,        \* where Start is
  interrupted,  \* history: keys stored by a batch that ended before it saved them
  faults,       \* faults spent
  stops         \* shutdowns and crashes spent

broker == <<dcount, acked>>
stores == <<out, window, dlq, seen>>
bounds == <<faults, stops>>
vars == <<broker, stores, buffer, fl, phase, interrupted, bounds>>

Ms(D) == {d[1] : d \in D}
KeysOf(D) == {Key[m] : m \in Ms(D)} \ {NoKey}
With(D, outcome) == {d \in D : Outcome[d[1]] = outcome}

IdleFlush == [pc |-> "idle", own |-> {}, msgs |-> {}, bad |-> {}, kept |-> {}, put |-> {}]
Held == buffer \cup UNION {fl[f].own : f \in Flushers}

Fault == faults < MaxFaults /\ faults' = faults + 1

\* The handler's and the ticker's batches run under the context of Start, the last one under
\* a context of its own.
CtxDone(f) == f # "shutdown" /\ phase # "run"

-----------------------------------------------------------------------------
(* Consuming and buffering *)

\* JetStream hands m out (again): new, or NAKed, or its AckWait has elapsed.
Deliverable(m) ==
  /\ m \notin acked /\ dcount[m] < MaxDeliver
  /\ \A n \in 1 .. m - 1 : dcount[n] > 0
  /\ RedeliverHeld \/ <<m, dcount[m]>> \notin Held

\* messageHandler; a message that had been pulled before the stop still arrives.
HandleMessage(m) ==
  /\ phase \in {"run", "drain"} /\ fl["handler"].pc = "idle" /\ Deliverable(m)
  /\ dcount' = [dcount EXCEPT ![m] = @ + 1]
  /\ buffer' = buffer \cup {<<m, dcount[m] + 1>>}
  /\ fl' = IF Cardinality(buffer) + 1 >= MaxBatch
           THEN [fl EXCEPT !["handler"].pc = "flush"] ELSE fl
  /\ UNCHANGED <<acked, stores, phase, interrupted, bounds>>

\* The flush ticker fires; when the context is done too, select takes either.
Tick ==
  /\ phase \in {"run", "drain"} /\ fl["ticker"].pc = "idle" /\ buffer # {}
  /\ fl' = [fl EXCEPT !["ticker"].pc = "flush"]
  /\ UNCHANGED <<broker, stores, buffer, phase, interrupted, bounds>>

-----------------------------------------------------------------------------
(* The end of a batch *)

\* ProcessBatch returns an error and NAKs its messages; a NAK that fails leaves them to AckWait.
NakBatch(f) ==
  /\ interrupted' = interrupted \cup (fl[f].put \ seen)
  /\ fl' = [fl EXCEPT ![f] = IdleFlush]

\* reader.Ack, message by message.
Ack(f) ==
  /\ fl[f].pc = "ack"
  /\ acked' = acked \cup Ms(fl[f].own)
  /\ fl' = [fl EXCEPT ![f] = IdleFlush]
  /\ UNCHANGED <<dcount, stores, buffer, phase, interrupted, bounds>>

\* One ack fails, after some; the NAKs end at the first message that was acked.
AckFails(f) ==
  /\ fl[f].pc = "ack" /\ Fault
  /\ \E D \in SUBSET fl[f].own : D # fl[f].own /\ acked' = acked \cup Ms(D)
  /\ NakBatch(f)
  /\ UNCHANGED <<dcount, stores, buffer, phase, stops>>

-----------------------------------------------------------------------------
(* The dead letter queue *)

AfterPush(flush) ==
  [flush EXCEPT !.bad = {},
     !.pc = CASE @ = "filterDLQ" -> IF flush.msgs = {} THEN "ack" ELSE "lookup"
              [] @ = "transformDLQ" -> IF flush.msgs = {} THEN "ack" ELSE "write"
              [] @ = "hardDLQ" -> IF flush.msgs = {} THEN "save" ELSE "backoff"]

Pushing(f) == fl[f].pc \in {"filterDLQ", "transformDLQ", "hardDLQ"}

\* What the DLQ stream makes of messages M: it may take one for a repetition of another with
\* the same header.
DLQStores(M) ==
  \E S \in SUBSET M :
    /\ \A m \in M \ S : Key[m] # NoKey /\ \E n \in dlq \cup S : Key[n] = Key[m]
    /\ dlq' = dlq \cup S

\* DLQMiddleware and writeFailedBatch: the failed messages are written to the DLQ.
PushToDLQ(f) ==
  /\ Pushing(f)
  /\ DLQStores(Ms(fl[f].bad))
  /\ fl' = [fl EXCEPT ![f] = AfterPush(@)]
  /\ UNCHANGED <<broker, out, window, seen, buffer, phase, interrupted, bounds>>

\* Not all of them are: the batch fails.
PushFails(f) ==
  /\ Pushing(f)
  /\ (CtxDone(f) /\ UNCHANGED faults) \/ Fault
  /\ \E M \in SUBSET Ms(fl[f].bad) : DLQStores(M)
  /\ NakBatch(f)
  /\ UNCHANGED <<broker, out, window, seen, buffer, phase, stops>>

-----------------------------------------------------------------------------
(* Filter, lookup, transformation *)

\* flushBuffer takes the buffer under bufferMu; FilterProcessor sorts it.
TakeBuffer(f) ==
  /\ fl[f].pc = "flush"
  /\ LET bad == With(buffer, "filterError")
         msgs == buffer \ (bad \cup With(buffer, "unmatched"))
     IN  fl' = [fl EXCEPT ![f] =
           IF buffer = {} THEN IdleFlush
           ELSE [IdleFlush EXCEPT !.own = buffer, !.msgs = msgs, !.bad = bad,
                   !.pc = IF bad # {} THEN "filterDLQ" ELSE IF msgs = {} THEN "ack" ELSE "lookup"]]
  /\ buffer' = {}
  /\ UNCHANGED <<broker, stores, phase, interrupted, bounds>>

\* Mutant: the lookup saves the keys at once.
LookupSaves(f) ==
  /\ fl[f].pc = "lookup" /\ ~CtxDone(f) /\ phase # "closed"
  /\ LET new == {d \in fl[f].msgs : Key[d[1]] \notin seen}
     IN  /\ fl' = [fl EXCEPT ![f].msgs = new, ![f].kept = new,
                             ![f].pc = IF new = {} THEN "ack" ELSE "transform"]
         /\ seen' = seen \cup KeysOf(new)
  /\ UNCHANGED <<broker, out, window, dlq, buffer, phase, interrupted, bounds>>

\* FilterDuplicates, a read-only transaction: two messages of the batch with one key both pass.
Lookup(f) ==
  /\ fl[f].pc = "lookup" /\ ~CtxDone(f) /\ phase # "closed"
  /\ LET new == {d \in fl[f].msgs : Key[d[1]] \notin seen}
     IN  fl' = [fl EXCEPT ![f].msgs = new, ![f].kept = new,
                          ![f].pc = IF new = {} THEN "ack" ELSE "transform"]
  /\ UNCHANGED <<broker, stores, buffer, phase, interrupted, bounds>>

Transform(f) ==
  /\ fl[f].pc = "transform"
  /\ LET bad == With(fl[f].msgs, "transformError")
     IN  fl' = [fl EXCEPT ![f].msgs = @ \ bad, ![f].bad = bad,
                          ![f].pc = IF bad # {} THEN "transformDLQ" ELSE "write"]
  /\ UNCHANGED <<broker, stores, buffer, phase, interrupted, bounds>>

-----------------------------------------------------------------------------
(* Writing *)

\* What the output stream stores of the deliveries S: one of each key it does not remember.
Storable(S) ==
  {W \in SUBSET S :
     /\ \A d \in S : Key[d[1]] = NoKey => d \in W
     /\ \A d \in W : Key[d[1]] \notin window
     /\ \A k \in KeysOf(S) \ window : \E d \in W : Key[d[1]] = k
     /\ \A d, e \in W : Key[d[1]] = Key[e[1]] => d = e \/ Key[d[1]] = NoKey}

\* BatchWriter: every message is acknowledged.
WriteBatch(f) ==
  /\ fl[f].pc = "write"
  /\ \E W \in Storable(fl[f].msgs) :
       /\ out' = out \cup W
       /\ fl' = [fl EXCEPT ![f].put = @ \cup KeysOf(W), ![f].msgs = {}, ![f].pc = "save"]
  /\ window' = window \cup KeysOf(fl[f].msgs)
  /\ UNCHANGED <<broker, dlq, seen, buffer, phase, interrupted, bounds>>

\* Some are not: the stream is full, or another error, after which a message may be stored
\* all the same; a cancelled context is such an error.
WriteFails(f) ==
  /\ fl[f].pc = "write"
  /\ \E full, hard \in SUBSET fl[f].msgs, lost \in SUBSET fl[f].msgs :
       /\ full \cup hard # {} /\ full \cap hard = {} /\ lost \subseteq hard
       /\ (CtxDone(f) /\ full = {} /\ UNCHANGED faults) \/ Fault
       /\ LET sent == fl[f].msgs \ (full \cup lost)
          IN  /\ \E W \in Storable(sent) :
                   /\ out' = out \cup W
                   /\ fl' = [fl EXCEPT ![f].put = @ \cup KeysOf(W), ![f].msgs = full,
                                       ![f].bad = hard,
                                       ![f].pc = IF hard # {} THEN "hardDLQ" ELSE "backoff"]
              /\ window' = window \cup KeysOf(sent)
  /\ UNCHANGED <<broker, dlq, seen, buffer, phase, interrupted, stops>>

\* writeWithBackpressure waits and tries the rest again, unless it is cancelled.
BackoffElapsed(f) ==
  /\ fl[f].pc = "backoff"
  /\ fl' = [fl EXCEPT ![f].pc = "write"]
  /\ UNCHANGED <<broker, stores, buffer, phase, interrupted, bounds>>

\* The output stream forgets a key: its window is over.
WindowEnds(k) ==
  /\ k \in window
  /\ WindowHolds => \A f \in Flushers : k \notin KeysOf(fl[f].own)
  /\ window' = window \ {k}
  /\ UNCHANGED <<broker, out, dlq, seen, buffer, fl, phase, interrupted, bounds>>

\* Mutant: a commit that fails is only logged.
SaveKeysLogged(f) ==
  /\ fl[f].pc = "save" /\ ~CtxDone(f) /\ phase # "closed"
  /\ \/ seen' = seen \cup KeysOf(fl[f].kept) /\ UNCHANGED faults
     \/ UNCHANGED seen /\ Fault
  /\ fl' = [fl EXCEPT ![f].pc = "ack"]
  /\ UNCHANGED <<broker, out, window, dlq, buffer, phase, interrupted, stops>>

\* The commits: SaveKeys of what the lookup let pass, one transaction.
SaveKeys(f) ==
  /\ fl[f].pc = "save" /\ ~CtxDone(f) /\ phase # "closed"
  /\ seen' = seen \cup KeysOf(fl[f].kept)
  /\ fl' = [fl EXCEPT ![f].pc = "ack"]
  /\ UNCHANGED <<broker, out, window, dlq, buffer, phase, interrupted, bounds>>

\* The batch fails in BadgerDB, in a fatal error of the transformation, or waiting.
BatchFails(f) ==
  /\ fl[f].pc \in {"lookup", "transform", "save", "backoff"}
  /\ \/ /\ fl[f].pc # "transform" /\ UNCHANGED faults
        /\ CtxDone(f) \/ (phase = "closed" /\ fl[f].pc # "backoff")
     \/ fl[f].pc # "backoff" /\ Fault
  /\ NakBatch(f)
  /\ UNCHANGED <<broker, stores, buffer, phase, stops>>

-----------------------------------------------------------------------------
(* Lifecycle *)

\* Shutdown cancels the context of Start.
Shutdown ==
  /\ phase = "run" /\ stops < MaxStops
  /\ stops' = stops + 1 /\ phase' = "drain"
  /\ UNCHANGED <<broker, stores, buffer, fl, interrupted, faults>>

\* The ticker has ended: handleShutdown flushes what is left.  The callback may still run.
FinalFlush ==
  /\ phase = "drain" /\ fl["ticker"].pc = "idle"
  /\ phase' = "final"
  /\ fl' = [fl EXCEPT !["shutdown"].pc = "flush"]
  /\ UNCHANGED <<broker, stores, buffer, interrupted, bounds>>

\* The processors are closed, BadgerDB with them.
CloseProcessors ==
  /\ phase = "final" /\ fl["shutdown"].pc = "idle"
  /\ phase' = "closed"
  /\ UNCHANGED <<broker, stores, buffer, fl, interrupted, bounds>>

\* The process is gone: after Start has returned, or before.
ProcessEnds ==
  /\ buffer' = {}
  /\ interrupted' = interrupted \cup ((UNION {fl[f].put : f \in Flushers}) \ seen)
  /\ fl' = [f \in Flushers |-> IdleFlush]
  /\ phase' = "down"

Exit == phase = "closed" /\ ProcessEnds /\ UNCHANGED <<broker, stores, bounds>>

Crash ==
  /\ phase # "down" /\ stops < MaxStops /\ stops' = stops + 1
  /\ ProcessEnds /\ UNCHANGED <<broker, stores, faults>>

Restart ==
  /\ phase = "down"
  /\ phase' = "run"
  /\ UNCHANGED <<broker, stores, buffer, fl, interrupted, bounds>>

-----------------------------------------------------------------------------
Init ==
  /\ dcount = [m \in Msgs |-> 0] /\ acked = {}
  /\ out = {} /\ window = {} /\ dlq = {} /\ seen = {}
  /\ buffer = {} /\ fl = [f \in Flushers |-> IdleFlush]
  /\ phase = "run" /\ interrupted = {} /\ faults = 0 /\ stops = 0

BatchStep(f) ==
  \/ TakeBuffer(f) \/ Lookup(f) \/ Transform(f) \/ PushToDLQ(f) \/ PushFails(f)
  \/ WriteBatch(f) \/ WriteFails(f) \/ BackoffElapsed(f) \/ SaveKeys(f) \/ BatchFails(f)
  \/ Ack(f) \/ AckFails(f)

Lifecycle == Shutdown \/ FinalFlush \/ CloseProcessors \/ Exit \/ Crash \/ Restart

Next ==
  \/ \E m \in Msgs : HandleMessage(m)
  \/ Tick
  \/ \E f \in Flushers : BatchStep(f)
  \/ \E k \in Keys : WindowEnds(k)
  \/ Lifecycle

Spec == Init /\ [][Next]_vars

-----------------------------------------------------------------------------
(* Properties *)

FlushPcs == {"idle", "flush", "filterDLQ", "lookup", "transform", "transformDLQ", "write",
             "hardDLQ", "backoff", "save", "ack"}

\* The types of the variables.
TypeOK ==
  /\ dcount \in [Msgs -> 0 .. MaxDeliver] /\ acked \subseteq Msgs /\ dlq \subseteq Msgs
  /\ out \subseteq Delivery /\ buffer \subseteq Delivery
  /\ window \subseteq Keys /\ seen \subseteq Keys /\ interrupted \subseteq Keys
  /\ fl \in [Flushers -> [pc : FlushPcs, own : SUBSET Delivery, msgs : SUBSET Delivery,
                          bad : SUBSET Delivery, kept : SUBSET Delivery, put : SUBSET Keys]]
  /\ phase \in {"run", "drain", "final", "closed", "down"}
  /\ faults \in 0 .. MaxFaults /\ stops \in 0 .. MaxStops

\* m, or a message with the key of m, is in the output stream or in the DLQ.
Landed == Ms(out) \cup dlq
Represented(m) == \E n \in Landed : n = m \/ (Key[n] = Key[m] /\ Key[m] # NoKey)
Accounted(m) == Outcome[m] = "unmatched" \/ Represented(m)

\* A message that is acknowledged was filtered out or handed on, itself or one it is a
\* duplicate of (ProcessBatch acks last).
AckedIsAccounted == \A m \in acked : Accounted(m)

\* A key is written once unless a batch that wrote it ended before SaveKeys, however batches
\* overlap and messages are redelivered (FilterDuplicates and SaveKeys are two transactions).
KeyOnce ==
  \A k \in Keys \ interrupted : \A d, e \in out : Key[d[1]] = k /\ Key[e[1]] = k => d = e

\* "no duplicates are produced even when processing fails" (docs, data flow): refuted once
\* the output stream has forgotten the key.
FailureMakesNoDuplicate ==
  \A d, e \in out : Key[d[1]] = Key[e[1]] /\ Key[d[1]] # NoKey => d = e

\* A good event is a duplicate of one that got through: refuted, SaveKeys saves the keys of
\* messages the transformation or the output stream refused.
DuplicateOfSomethingWritten ==
  \A m \in acked : Outcome[m] = "good" /\ m \notin dlq =>
    \E n \in Ms(out) : n = m \/ (Key[n] = Key[m] /\ Key[m] # NoKey)

\* "The failing message is sent to the DLQ" (docs, data flow): refuted, the DLQ stream drops
\* an entry whose header it remembers from another message.
FailingReachesDLQ ==
  \A m \in acked : Outcome[m] = "filterError" => m \in dlq

=============================================================================
