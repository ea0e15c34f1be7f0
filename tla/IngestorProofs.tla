--------------------------- MODULE IngestorProofs ---------------------------
(***************************************************************************)
(* Proofs about Ingestor for every set of partitions, every log, every     *)
(* kind of record and every bound.                                         *)
(***************************************************************************)
EXTENDS Ingestor, FiniteSetTheorems, SequenceTheorems, TLAPS

USE IngestorAssumption DEF Kinds

-----------------------------------------------------------------------------
(* The batch                                                               *)

\* A polled batch is a sequence of records; its length is its domain's.
LEMMA BatchIsSeq ==
    ASSUME NEW newPos, NEW b \in Batches(newPos)
    PROVE  /\ b \in Seq(Record)
           /\ Len(b) \in 1 .. MaxPoll
           /\ \A i \in 1 .. Len(b) :
                 position[b[i][1]] <= b[i][2] /\ b[i][2] < newPos[b[i][1]]
           /\ \A r \in Record :
                 (position[r[1]] <= r[2] /\ r[2] < newPos[r[1]]) =>
                     \E i \in 1 .. Len(b) : b[i] = r
           /\ \A i, j \in 1 .. Len(b) :
                 (i < j /\ b[i][1] = b[j][1]) => b[i][2] < b[j][2]
<1> DEFINE polled == {r \in Record : position[r[1]] <= r[2] /\ r[2] < newPos[r[1]]}
<1>1. PICK n \in 1 .. MaxPoll :
         /\ b \in [1 .. n -> polled]
         /\ \A r \in polled : \E i \in 1 .. n : b[i] = r
         /\ \A i, j \in 1 .. n : (i < j /\ b[i][1] = b[j][1]) => b[i][2] < b[j][2]
  BY Zenon DEF Batches
<1>2. n \in Nat
  BY <1>1
<1>3. b \in [1 .. n -> Record]
  BY <1>1
<1>4. b \in Seq(Record)
  BY <1>2, <1>3, SeqDef
<1>5. Len(b) = n
  BY <1>2, <1>3, <1>4, LenProperties, SMT
<1>6. \A i \in 1 .. n : b[i] \in polled
  BY <1>1
<1> QED
  BY <1>1, <1>4, <1>5, <1>6

-----------------------------------------------------------------------------
(* Type correctness                                                        *)

LEMMA TypeInit == Init => TypeOK
  BY EmptySeq DEF Init, TypeOK, Idx, Causes, FutureStates, Record

LEMMA FreshTypes ==
    ASSUME FreshBatchState(0), batch' = <<>>
    PROVE  /\ batch' \in Seq(Record)
           /\ cached' \in SUBSET Idx'
           /\ completed' \in SUBSET Idx'
           /\ backpressure' \in SUBSET Idx'
           /\ retry' \in SUBSET backpressure'
           /\ futures' \in [Idx' -> FutureStates]
           /\ dlqOnExit' \in SUBSET Idx'
           /\ drain' \in SUBSET Idx'
           /\ cursor' \in 0 .. Len(batch')
           /\ lastAckedIdx' \in 0 .. Len(batch')
           /\ savedErr' \in Causes
  BY EmptySeq DEF FreshBatchState, Idx, FutureStates, Causes

\* A fault stays within its bound.
LEMMA FaultType == ASSUME TypeOK, Fault PROVE faults' \in 0 .. MaxFaults
  BY DEF TypeOK, Fault

\* A failed call leaves a cause and a fault count of the right types.
LEMMA CallErrorType ==
    ASSUME TypeOK, CallError
    PROVE  savedErr' \in {"fatal", "ctx"} /\ faults' \in 0 .. MaxFaults
  BY FaultType DEF TypeOK, CallError

LEMMA TypeNext == TypeOK /\ [Next]_vars => TypeOK'
<1> SUFFICES ASSUME TypeOK, [Next]_vars
             PROVE  TypeOK'
  OBVIOUS
<1> USE DEF external, asyncState, bounds, ctxDone
<1>0. Len(batch) \in Nat /\ \A i \in Idx : batch[i] \in Record
  BY ElementOfSeq, LenProperties DEF TypeOK, Idx
<1>1. CASE Poll
  <2>1. PICK newPos \in [Partitions -> 0 .. LogEnd] :
           position' = newPos /\ batch' \in Batches(newPos)
    BY <1>1 DEF Poll
  <2>2. batch' \in Seq(Record) /\ Len(batch') \in Nat
    BY <2>1, BatchIsSeq
  <2> QED
    BY <1>1, <2>1, <2>2 DEF Poll, FreshBatchState, TypeOK, Idx, Causes, FutureStates
<1>2. CASE EmptyPoll \/ UNCHANGED vars
  BY <1>2 DEF EmptyPoll, vars, TypeOK, Idx
<1>3. CASE LoopExit
  BY <1>3 DEF LoopExit, TypeOK, Idx
<1>4. CASE CommitBatch
  <2>1. CASE batch' = <<>> /\ FreshBatchState(0)
    BY <1>4, <2>1, FreshTypes DEF CommitBatch, TypeOK, Fault
  <2>2. CASE UNCHANGED <<batch, asyncState>>
    <3>1. committed' \in [Partitions -> 0 .. LogEnd] /\ faults' \in 0 .. MaxFaults
      BY <1>4, FaultType DEF CommitBatch, TypeOK
    <3> QED
      BY <1>4, <2>2, <3>1 DEF CommitBatch, TypeOK, Idx
  <2> QED
    BY <1>4, <2>1, <2>2 DEF CommitBatch
<1>5. CASE CommitPartial
  <2>1. lastAckedIdx > 0 => batch[lastAckedIdx] \in Record
    BY <1>0 DEF TypeOK, Idx
  <2>2. lastAckedIdx > 0 => /\ batch[lastAckedIdx][1] \in Partitions
                            /\ batch[lastAckedIdx][2] + 1 \in 0 .. LogEnd
    BY <2>1 DEF Record, Offsets
  <2>3. committed' \in [Partitions -> 0 .. LogEnd]
    BY <1>5, <2>2 DEF CommitPartial, TypeOK
  <2>4. faults' \in 0 .. MaxFaults
    BY <1>5, FaultType DEF CommitPartial, TypeOK
  <2> QED
    BY <1>5, <2>3, <2>4, FreshTypes DEF CommitPartial, TypeOK
<1>6. ASSUME NEW i \in Idx, RepublishAccepted(i) PROVE TypeOK'
  BY <1>6 DEF RepublishAccepted, TypeOK, Idx, FutureStates
<1>7. ASSUME NEW i \in Idx, RepublishThrottled(i) PROVE TypeOK'
  BY <1>7 DEF RepublishThrottled, TypeOK, Idx
<1>8. ASSUME NEW i \in Idx, RepublishError(i) PROVE TypeOK'
  BY <1>8, CallErrorType DEF RepublishError, TypeOK, Idx, Causes
<1>9. CASE CarryPassDone
  BY <1>9 DEF CarryPassDone, TypeOK, Idx
<1>10. CASE PrepareToDLQ
  BY SMTT(30), <1>0, <1>10 DEF PrepareToDLQ, AtCursor, next, TypeOK, Idx
<1>11. CASE PrepareError
  <2>1. next \in Idx
    BY <1>0, <1>11 DEF PrepareError, AtCursor, next, TypeOK, Idx
  <2>2. savedErr' \in Causes /\ faults' \in 0 .. MaxFaults
    BY <1>11, CallErrorType DEF PrepareError, TypeOK, Causes
  <2>3. dlq' \in SUBSET Record
    BY <1>0, <1>11, <2>1 DEF PrepareError, MaybeStored, TypeOK
  <2> QED
    BY <1>11, <2>2, <2>3 DEF PrepareError, TypeOK, Idx
<1>12. CASE PublishAccepted
  <2>1. next \in Idx /\ next \in 0 .. Len(batch)
    BY <1>0, <1>12 DEF PublishAccepted, AtCursor, next, TypeOK, Idx
  <2> QED
    BY <1>0, <1>12, <2>1 DEF PublishAccepted, TypeOK, Idx, FutureStates
<1>13. CASE PublishThrottled
  BY SMTT(30), <1>0, <1>13 DEF PublishThrottled, AtCursor, next, TypeOK, Idx
<1>14. CASE PublishError
  <2>1. next \in Idx /\ next \in 0 .. Len(batch)
    BY <1>0, <1>14 DEF PublishError, AtCursor, next, TypeOK, Idx
  <2> QED
    BY <1>0, <1>14, <2>1, CallErrorType DEF PublishError, TypeOK, Idx, Causes
<1>15. CASE CursorDone
  BY <1>15 DEF CursorDone, TypeOK, Idx
<1>16. CASE ClassifyFutures
  <2>1. completed' \in SUBSET Idx /\ backpressure' \in SUBSET Idx /\ dlqOnExit' \in SUBSET Idx
    BY <1>16 DEF ClassifyFutures, TypeOK
  <2>2. backpressure \subseteq backpressure'
    BY <1>16 DEF ClassifyFutures
  <2>3. lastAckedIdx' \in 0 .. Len(batch)
    BY <1>0, <1>16 DEF ClassifyFutures, AdvanceLastAckedIdx, TypeOK
  <2>4. savedErr' \in Causes
    BY <1>16 DEF ClassifyFutures, BeginCleanup, TypeOK, Causes
  <2>5. drain' \in SUBSET Idx /\ pc' \in {"drain", "commitBatch", "backoff"}
    BY <1>16, <2>1 DEF ClassifyFutures, BeginCleanup, TypeOK
  <2>6. futures' \in [Idx -> FutureStates]
    BY <1>16 DEF ClassifyFutures, FutureStates
  <2> QED
    BY <1>16, <2>1, <2>2, <2>3, <2>4, <2>5, <2>6 DEF ClassifyFutures, TypeOK, Idx
<1>17. CASE BackoffElapsed
  BY <1>17 DEF BackoffElapsed, TypeOK, Idx
<1>18. CASE BackoffCancelled
  BY <1>18 DEF BackoffCancelled, BeginCleanup, TypeOK, Idx, Causes
<1>19. ASSUME NEW i \in Idx, DrainPush(i) PROVE TypeOK'
  BY <1>0, <1>19 DEF DrainPush, TypeOK, Idx
<1>20. ASSUME NEW i \in Idx, DrainError(i) PROVE TypeOK'
  <2>1. savedErr' \in Causes /\ faults' \in 0 .. MaxFaults
    BY <1>20, FaultType DEF DrainError, TypeOK, Causes
  <2>2. dlq' \in SUBSET Record
    BY <1>0, <1>20 DEF DrainError, MaybeStored, TypeOK
  <2> QED
    BY <1>20, <2>1, <2>2 DEF DrainError, TypeOK, Idx
<1>21. CASE DrainDone
  BY SMTT(30), <1>0, <1>21 DEF DrainDone, AdvanceLastAckedIdx, TypeOK, Idx
<1>22. ASSUME NEW i \in Idx, StreamAck(i) PROVE TypeOK'
  <2>1. copies' \in [Record -> Nat] /\ futures' \in [Idx -> FutureStates]
    BY <1>0, <1>22 DEF StreamAck, TypeOK, FutureStates
  <2> QED
    BY <1>22, <2>1 DEF StreamAck, streamFrame, TypeOK, Idx
<1>23. ASSUME NEW i \in Idx, StreamFull(i) PROVE TypeOK'
  BY <1>0, <1>23 DEF StreamFull, streamFrame, TypeOK, Idx, FutureStates
<1>24. ASSUME NEW i \in Idx, StreamError(i) PROVE TypeOK'
  <2>1. copies' \in [Record -> Nat] /\ futures' \in [Idx -> FutureStates]
    BY <1>0, <1>24 DEF StreamError, TypeOK, FutureStates
  <2> QED
    BY <1>24, <2>1, FaultType DEF StreamError, streamFrame, TypeOK, Idx
<1>25. CASE Cancel
  BY SMTT(30), <1>25 DEF Cancel, TypeOK, Idx
<1>26. CASE Crash
  <2>1. copies' \in [Record -> Nat]
    BY <1>26 DEF Crash, TypeOK
  <2> QED
    BY <1>26, <2>1, FreshTypes DEF Crash, TypeOK
<1>27. CASE Restart
  BY <1>27, FreshTypes DEF Restart, TypeOK
<1> QED
  BY <1>1, <1>2, <1>3, <1>4, <1>5, <1>6, <1>7, <1>8, <1>9, <1>10, <1>11, <1>12,
     <1>13, <1>14, <1>15, <1>16, <1>17, <1>18, <1>19, <1>20, <1>21, <1>22, <1>23,
     <1>24, <1>25, <1>26, <1>27 DEF Next, Consume, Process, Stream

\* Every reachable state of the ingestor is well typed.
THEOREM TypeCorrect == Spec => []TypeOK
  BY TypeInit, TypeNext, PTL DEF Spec

-----------------------------------------------------------------------------
(* Frames                                                                  *)

\* A step of the batch processor keeps the batch and both offsets, and runs
\* between a poll and the commit.
LEMMA ProcessFrame ==
    ASSUME Process
    PROVE  /\ UNCHANGED <<committed, position, batch, runs>>
           /\ pc \notin {"poll", "down", "commitBatch", "commitPartial"}
           /\ pc' \notin {"poll", "down"}
<1> USE DEF external, asyncState, bounds
<1>1. ASSUME NEW i \in Idx, RepublishAccepted(i) \/ RepublishThrottled(i) \/ RepublishError(i)
      PROVE  /\ UNCHANGED <<committed, position, batch, runs>>
             /\ pc = "carry" /\ pc' = "carry"
  BY <1>1 DEF RepublishAccepted, RepublishThrottled, RepublishError
<1>2. ASSUME CarryPassDone \/ CursorDone \/ BackoffElapsed
      PROVE  /\ UNCHANGED <<committed, position, batch, runs>>
             /\ pc \in {"carry", "cursor", "backoff"} /\ pc' \in {"cursor", "await", "carry"}
  BY <1>2 DEF CarryPassDone, CursorDone, BackoffElapsed
<1>3. ASSUME PrepareToDLQ \/ PrepareError \/ PublishAccepted \/ PublishThrottled \/ PublishError
      PROVE  /\ UNCHANGED <<committed, position, batch, runs>>
             /\ pc = "cursor" /\ pc' \in {"cursor", "await"}
  BY <1>3 DEF PrepareToDLQ, PrepareError, PublishAccepted, PublishThrottled, PublishError, AtCursor
<1>4. ASSUME ClassifyFutures
      PROVE  /\ UNCHANGED <<committed, position, batch, runs>>
             /\ pc = "await" /\ pc' \in {"drain", "commitBatch", "backoff"}
  BY <1>4 DEF ClassifyFutures, BeginCleanup
<1>5. ASSUME BackoffCancelled \/ DrainDone
      PROVE  /\ UNCHANGED <<committed, position, batch, runs>>
             /\ pc \in {"backoff", "drain"} /\ pc' \in {"drain", "commitPartial"}
  BY <1>5 DEF BackoffCancelled, BeginCleanup, DrainDone
<1>6. ASSUME NEW i \in Idx, DrainPush(i) \/ DrainError(i)
      PROVE  /\ UNCHANGED <<committed, position, batch, runs>>
             /\ pc = "drain" /\ pc' = "drain"
  BY <1>6 DEF DrainPush, DrainError
<1> QED
  BY <1>1, <1>2, <1>3, <1>4, <1>5, <1>6 DEF Process

\* The stream and a cancellation touch neither the batch nor the program point.
LEMMA StreamFrame ==
    ASSUME Stream \/ Cancel
    PROVE  /\ UNCHANGED <<committed, position, batch, runs, pc>>
           /\ pc # "down"
<1> USE DEF external, asyncState, bounds
<1>1. ASSUME NEW i \in Idx, StreamAck(i) \/ StreamFull(i) \/ StreamError(i)
      PROVE  /\ UNCHANGED <<committed, position, batch, runs, pc>>
             /\ pc # "down"
  BY <1>1 DEF StreamAck, StreamFull, StreamError, streamFrame
<1>2. CASE Cancel
  BY <1>2 DEF Cancel
<1> QED
  BY <1>1, <1>2 DEF Stream

\* The stream and the DLQ never give up a record.
LEMMA HandedGrows ==
    ASSUME TypeOK, [Next]_vars, NEW r \in Record
    PROVE  /\ copies[r] <= copies'[r]
           /\ Handed(r) => Handed(r)'
<1> USE DEF external, asyncState, bounds
<1>0. copies \in [Record -> Nat] /\ \A i \in Idx : batch[i] \in Record
  BY ElementOfSeq DEF TypeOK, Idx
<1> SUFFICES copies[r] <= copies'[r] /\ (r \in dlq => r \in dlq')
  BY SMTT(30), <1>0, TypeNext DEF Handed, TypeOK
<1>1. CASE UNCHANGED <<copies, dlq>>
  BY <1>0, <1>1
<1>2. ASSUME UNCHANGED copies, dlq \subseteq dlq'
      PROVE  copies[r] <= copies'[r] /\ (r \in dlq => r \in dlq')
  BY <1>0, <1>2
<1>3. ASSUME UNCHANGED dlq, NEW i \in Idx,
             copies' \in {copies, [copies EXCEPT ![batch[i]] = @ + 1]}
      PROVE  copies[r] <= copies'[r] /\ (r \in dlq => r \in dlq')
  BY <1>0, <1>3
<1>4. CASE Crash
  <2>1. UNCHANGED dlq
    BY <1>4 DEF Crash
  <2>2. copies'[r] = copies[r] \/ copies'[r] = copies[r] + 1
    BY <1>4 DEF Crash
  <2> QED
    BY <1>0, <2>1, <2>2
<1>5. CASE Consume \/ Restart \/ Cancel \/ UNCHANGED vars
  BY <1>1, <1>5 DEF Consume, Poll, EmptyPoll, LoopExit, CommitBatch, CommitPartial, Restart,
                    Cancel, vars
<1>6. CASE Process
  <2>1. ASSUME NEW i \in Idx, RepublishAccepted(i) \/ RepublishThrottled(i) \/ RepublishError(i)
        PROVE  UNCHANGED <<copies, dlq>>
    BY <2>1 DEF RepublishAccepted, RepublishThrottled, RepublishError
  <2>2. ASSUME NEW i \in Idx, DrainPush(i) \/ DrainError(i)
        PROVE  UNCHANGED copies /\ dlq \subseteq dlq'
    BY <2>2 DEF DrainPush, DrainError, MaybeStored
  <2>3. ASSUME PrepareToDLQ \/ PrepareError
        PROVE  UNCHANGED copies /\ dlq \subseteq dlq'
    BY <2>3 DEF PrepareToDLQ, PrepareError, MaybeStored
  <2>4. ASSUME \/ CarryPassDone \/ PublishAccepted \/ PublishThrottled \/ PublishError
               \/ CursorDone \/ ClassifyFutures \/ BackoffElapsed \/ BackoffCancelled
               \/ DrainDone
        PROVE  UNCHANGED <<copies, dlq>>
    BY <2>4 DEF CarryPassDone, PublishAccepted, PublishThrottled, PublishError, CursorDone,
                ClassifyFutures, BackoffElapsed, BackoffCancelled, DrainDone
  <2> QED
    BY <1>1, <1>2, <1>6, <2>1, <2>2, <2>3, <2>4 DEF Process
<1>7. CASE Stream
  <2>1. ASSUME NEW i \in Idx, StreamAck(i) \/ StreamFull(i) \/ StreamError(i)
        PROVE  /\ UNCHANGED dlq
               /\ copies' \in {copies, [copies EXCEPT ![batch[i]] = @ + 1]}
    BY <2>1 DEF StreamAck, StreamFull, StreamError, streamFrame
  <2> QED
    BY <1>3, <1>7, <2>1 DEF Stream
<1> QED
  BY <1>4, <1>5, <1>6, <1>7 DEF Next

-----------------------------------------------------------------------------
(* The batch and the offsets                                               *)

\* Between the committed and the polled offset there are records of the batch
\* only, and a poll starts where the last commit ended.
LEMMA BatchNext ==
    ASSUME TypeOK, BatchInv, PolledCursorInBatch, [Next]_vars
    PROVE  BatchInv' /\ PolledCursorInBatch'
<1> USE DEF external, asyncState, bounds
<1>0. TypeOK'
  BY TypeNext
<1>1. CASE Process \/ Stream \/ Cancel \/ EmptyPoll \/ UNCHANGED vars
  <2>1. UNCHANGED <<committed, position, batch>>
    BY <1>1, ProcessFrame, StreamFrame DEF EmptyPoll, vars
  <2>2. (pc = "down" <=> pc' = "down") /\ (pc' = "poll" => pc = "poll")
    BY <1>1, ProcessFrame, StreamFrame DEF EmptyPoll, vars
  <2> QED
    BY <2>1, <2>2 DEF BatchInv, PolledCursorInBatch, Idx
<1>2. CASE Poll
  <2>1. PICK newPos \in [Partitions -> 0 .. LogEnd] :
           /\ \A p \in Partitions : position[p] <= newPos[p]
           /\ position' = newPos
           /\ batch' \in Batches(newPos)
    BY <1>2 DEF Poll
  <2>2. pc = "poll" /\ pc' = "cursor" /\ committed' = committed
    BY <1>2 DEF Poll
  <2>3. Idx = {}
    BY <2>2, EmptySeq DEF BatchInv, Idx
  <2>4. \A p \in Partitions : committed[p] = position[p]
    <3> SUFFICES ASSUME NEW p \in Partitions, committed[p] < position[p]
                 PROVE  FALSE
      BY <2>2 DEF BatchInv, TypeOK
    <3>1. committed[p] \in Offsets
      BY DEF TypeOK, Offsets
    <3> QED
      BY <2>2, <2>3, <3>1 DEF PolledCursorInBatch, TypeOK
  <2>5. /\ batch' \in Seq(Record)
        /\ \A i \in 1 .. Len(batch') :
              position[batch'[i][1]] <= batch'[i][2] /\ batch'[i][2] < newPos[batch'[i][1]]
        /\ \A r \in Record :
              (position[r[1]] <= r[2] /\ r[2] < newPos[r[1]]) =>
                  \E i \in 1 .. Len(batch') : batch'[i] = r
        /\ \A i, j \in 1 .. Len(batch') :
              (i < j /\ batch'[i][1] = batch'[j][1]) => batch'[i][2] < batch'[j][2]
    BY <2>1, BatchIsSeq
  <2>6. \A i \in 1 .. Len(batch') : batch'[i] \in Record
    BY <2>5, ElementOfSeq
  <2>7. \A i \in 1 .. Len(batch') : batch'[i][1] \in Partitions
    BY <2>6 DEF Record
  <2>8. PolledCursorInBatch'
    <3> SUFFICES ASSUME NEW p \in Partitions, NEW o \in Offsets,
                        committed[p] <= o, o < newPos[p]
                 PROVE  \E i \in 1 .. Len(batch') : batch'[i] = <<p, o>>
      BY <2>1, <2>2 DEF PolledCursorInBatch, Idx
    <3>1. <<p, o>> \in Record /\ <<p, o>>[1] = p /\ <<p, o>>[2] = o
      BY DEF Record
    <3> QED
      BY <2>4, <2>5, <3>1
  <2>9. BatchInv'
    BY <2>1, <2>2, <2>4, <2>5, <2>7 DEF BatchInv, Idx
  <2> QED
    BY <2>8, <2>9
<1>3. CASE CommitBatch
  <2>1. CASE pc' = "down"
    BY <2>1 DEF BatchInv, PolledCursorInBatch
  <2>2. CASE pc' # "down"
    <3>1. committed' = position /\ position' = position /\ batch' = <<>>
      BY <1>3, <2>2 DEF CommitBatch
    <3>2. Idx' = {}
      BY <3>1, EmptySeq DEF Idx
    <3> QED
      BY <3>1, <3>2 DEF BatchInv, PolledCursorInBatch, TypeOK, Offsets
  <2> QED
    BY <2>1, <2>2
<1>4. CASE CommitPartial \/ LoopExit \/ Crash
  BY <1>4 DEF CommitPartial, LoopExit, Crash, BatchInv, PolledCursorInBatch
<1>5. CASE Restart
  <2>1. committed' = committed /\ position' = committed /\ batch' = <<>>
    BY <1>5 DEF Restart
  <2>2. Idx' = {}
    BY <2>1, EmptySeq DEF Idx
  <2> QED
    BY <2>1, <2>2 DEF BatchInv, PolledCursorInBatch, TypeOK, Offsets
<1> QED
  BY <1>1, <1>2, <1>3, <1>4, <1>5 DEF Next, Consume

\* Two indices of a batch never hold the same record.
LEMMA BatchInjective ==
    ASSUME TypeOK, BatchInv, pc # "down", NEW i \in Idx, NEW j \in Idx, i # j
    PROVE  batch[i] # batch[j]
<1>1. Len(batch) \in Nat /\ batch[i] \in Record /\ batch[j] \in Record
  BY ElementOfSeq, LenProperties DEF TypeOK, Idx
<1>2. batch[i][2] \in Int /\ batch[j][2] \in Int
  BY <1>1 DEF Record, Offsets
<1>3. i < j \/ j < i
  BY <1>1 DEF Idx
<1> QED
  BY <1>2, <1>3 DEF BatchInv


-----------------------------------------------------------------------------
(* The fate of the records                                                 *)

\* advanceLastAckedIdx only ever covers completed indices.
LEMMA AdvancePrefix ==
    ASSUME TypeOK, NEW done, \A i \in 1 .. lastAckedIdx : i \in done,
           AdvanceLastAckedIdx(done)
    PROVE  \A i \in 1 .. lastAckedIdx' : i \in done
<1>1. Len(batch) \in Nat
  BY LenProperties DEF TypeOK
<1>2. PICK k \in lastAckedIdx .. Len(batch) :
         (\A i \in lastAckedIdx + 1 .. k : i \in done) /\ lastAckedIdx' = k
  BY DEF AdvanceLastAckedIdx
<1> QED
  BY <1>1, <1>2 DEF TypeOK

\* With no error at all, and neither the carry nor the cursor holding a record
\* back, the settled futures complete the batch.
LEMMA SettledIsCompleted ==
    ASSUME TypeOK, FateInv, pc # "down", Pending = {}, savedErr = "none",
           {i \in Idx : futures[i] = "err"} = {},
           backpressure \cup {i \in Idx : futures[i] = "full"} = {},
           cursor = Len(batch), NEW j \in Idx
    PROVE  j \in completed \cup {i \in Idx : futures[i] = "ok"}
<1>1. j \in 1 .. cursor
  BY DEF Idx
<1>2. j \in completed \cup backpressure \cup dlqOnExit \/ futures[j] # "none"
  BY <1>1 DEF FateInv
<1>3. dlqOnExit = {} /\ backpressure = {}
  BY DEF FateInv
<1>4. futures[j] \in FutureStates
  BY DEF TypeOK
<1>5. futures[j] \notin {"pending", "err", "full"}
  BY DEF Pending
<1> QED
  BY <1>2, <1>3, <1>4, <1>5 DEF FutureStates

LEMMA FateNext ==
    ASSUME TypeOK, FateInv, [Next]_vars
    PROVE  FateInv'
<1> USE DEF external, asyncState, bounds
<1>0. Len(batch) \in Nat /\ \A i \in Idx : batch[i] \in Record
  BY ElementOfSeq, LenProperties DEF TypeOK, Idx
<1>1. \A r \in Record : Handed(r) => Handed(r)'
  BY HandedGrows
<1>2. ASSUME batch' = <<>>, FreshBatchState(0), pc' # "commitBatch"
      PROVE  FateInv'
  BY <1>2, EmptySeq DEF FateInv, FreshBatchState, Idx
<1>3. CASE Consume \/ Crash \/ Restart
  <2>1. CASE Poll
    <3>1. PICK n : FreshBatchState(n) /\ n = Len(batch')
      BY <2>1 DEF Poll
    <3>2. Len(batch') \in Nat
      BY TypeNext, LenProperties DEF TypeOK
    <3>3. /\ completed' = {} /\ dlqOnExit' = {} /\ cursor' = 0 /\ lastAckedIdx' = 0
          /\ futures' = [i \in Idx' |-> "none"]
      BY <3>1 DEF FreshBatchState, Idx
    <3>4. pc' = "cursor"
      BY <2>1 DEF Poll
    <3> QED
      BY <3>3, <3>4 DEF FateInv
  <2>2. CASE EmptyPoll
    BY <2>2 DEF EmptyPoll, vars, FateInv, Idx, Handed
  <2>3. CASE LoopExit \/ Crash \/ CommitPartial
    BY <2>3 DEF LoopExit, Crash, CommitPartial, FateInv
  <2>4. CASE CommitBatch
    BY <1>2, <2>4 DEF CommitBatch, FateInv
  <2>5. CASE Restart
    BY <1>2, <2>5 DEF Restart
  <2> QED
    BY <1>3, <2>1, <2>2, <2>3, <2>4, <2>5 DEF Consume
<1>4. CASE Process \/ Stream \/ Cancel \/ UNCHANGED vars
  <2> SUFFICES ASSUME pc' # "down"
               PROVE  FateInv'
    BY DEF FateInv
  <2>0. /\ pc # "down" /\ UNCHANGED batch /\ Idx' = Idx
        /\ completed \subseteq Idx /\ lastAckedIdx \in 0 .. Len(batch)
    BY <1>4, ProcessFrame, StreamFrame DEF vars, Idx, TypeOK
  <2>1. /\ \A i \in completed : Handed(batch[i])'
        /\ \A i \in Idx : futures[i] = "ok" => Handed(batch[i])'
    BY <1>0, <1>1, <2>0 DEF FateInv
  <2>2. ASSUME NEW i \in Idx, RepublishAccepted(i)
        PROVE  FateInv'
    BY <2>0, <2>1, <2>2 DEF RepublishAccepted, FateInv, TypeOK, Idx
  <2>3. ASSUME NEW i \in Idx, RepublishThrottled(i)
        PROVE  FateInv'
    BY <2>0, <2>1, <2>3 DEF RepublishThrottled, FateInv
  <2>4. ASSUME NEW i \in Idx, RepublishError(i)
        PROVE  FateInv'
    <3>1. savedErr' # "none"
      BY <2>4, CallErrorType DEF RepublishError
    <3> QED
      BY <2>0, <2>1, <2>4, <3>1 DEF RepublishError, FateInv
  <2>5. CASE CarryPassDone \/ CursorDone \/ BackoffElapsed
    BY <2>0, <2>1, <2>5 DEF CarryPassDone, CursorDone, BackoffElapsed, FateInv
  <2>6. CASE PrepareToDLQ
    <3>1. PICK k \in Idx : k = next
      BY <1>0, <2>6 DEF PrepareToDLQ, AtCursor, next, Idx, TypeOK
    <3>2. Handed(batch[k])'
      BY <1>0, <2>0, <2>6, <3>1 DEF PrepareToDLQ, Handed
    <3>3. \A i \in 1 .. k : i \in 1 .. cursor \/ i = k
      BY <1>0, <3>1 DEF next, TypeOK
    <3>4. /\ completed' = completed \cup {k} /\ cursor' = k
          /\ UNCHANGED <<pc, backpressure, futures, dlqOnExit, lastAckedIdx, savedErr>>
      BY <2>6, <3>1 DEF PrepareToDLQ
    <3> QED
      BY <2>0, <2>1, <3>2, <3>3, <3>4 DEF FateInv
  <2>7. CASE PrepareError
    <3>1. savedErr' # "none"
      BY <2>7, CallErrorType DEF PrepareError
    <3> QED
      BY <2>0, <2>1, <2>7, <3>1 DEF PrepareError, FateInv
  <2>8. CASE PublishAccepted
    <3>1. PICK k \in Idx : k = next
      BY <1>0, <2>8 DEF PublishAccepted, AtCursor, next, Idx, TypeOK
    <3>2. \A i \in 1 .. k : i \in 1 .. cursor \/ i = k
      BY <1>0, <3>1 DEF next, TypeOK
    <3>3. /\ futures' = [futures EXCEPT ![k] = "pending"] /\ cursor' = k
          /\ UNCHANGED <<pc, completed, backpressure, dlqOnExit, lastAckedIdx, savedErr>>
      BY <2>8, <3>1 DEF PublishAccepted
    <3>4. \A i \in Idx : futures'[i] = IF i = k THEN "pending" ELSE futures[i]
      BY <3>3 DEF TypeOK
    <3>5. \A i \in 1 .. cursor : i \in Idx
      BY <1>0 DEF Idx, TypeOK
    <3> QED
      BY <2>0, <2>1, <3>1, <3>2, <3>3, <3>4, <3>5 DEF FateInv
  <2>9. CASE PublishThrottled
    BY <2>0, <2>1, <2>9 DEF PublishThrottled, FateInv
  <2>10. CASE PublishError
    <3>1. savedErr' # "none"
      BY <2>10, CallErrorType DEF PublishError
    <3>2. \A i \in 1 .. next : i \in 1 .. cursor \/ i = next
      BY <1>0 DEF next, TypeOK
    <3> QED
      BY <2>0, <2>1, <2>10, <3>1, <3>2 DEF PublishError, FateInv
  <2>11. CASE ClassifyFutures
    <3> DEFINE errs == {i \in Idx : futures[i] = "err"}
               done == completed \cup {i \in Idx : futures[i] = "ok"}
               carry == backpressure \cup {i \in Idx : futures[i] = "full"}
    <3>1. /\ completed' = done /\ backpressure' = carry /\ dlqOnExit' = dlqOnExit \cup errs
          /\ AdvanceLastAckedIdx(done)
          /\ futures' = [i \in Idx |-> "none"]
          /\ Pending = {} /\ UNCHANGED <<batch, cursor>>
      BY <2>11 DEF ClassifyFutures
    <3>2. /\ savedErr' = "none" => savedErr = "none" /\ errs = {}
          /\ pc' = "commitBatch" => /\ savedErr = "none" /\ errs = {}
                                   /\ cursor = Len(batch) /\ carry = {}
      BY <2>11 DEF ClassifyFutures, BeginCleanup
    <3>3. \A i \in 1 .. lastAckedIdx' : i \in done
      BY <2>0, <3>1, AdvancePrefix DEF FateInv
    <3>4. \A i \in done : Handed(batch[i])'
      BY <2>1
    <3>5. \A i \in 1 .. cursor : i \in done \cup carry \cup dlqOnExit \cup errs
      <4> SUFFICES ASSUME NEW i \in 1 .. cursor
                   PROVE  i \in done \cup carry \cup dlqOnExit \cup errs
        OBVIOUS
      <4>0. i \in Idx
        BY <1>0 DEF TypeOK, Idx
      <4>1. i \in Idx /\ futures[i] \in FutureStates
        BY <4>0 DEF TypeOK
      <4>2. i \in completed \cup backpressure \cup dlqOnExit \/ futures[i] # "none"
        BY <2>0 DEF FateInv
      <4>3. futures[i] # "pending"
        BY <3>1, <4>1 DEF Pending
      <4> QED
        BY <4>1, <4>2, <4>3 DEF FutureStates
    <3>6. savedErr' = "none" => dlqOnExit' = {}
      BY <2>0, <3>1, <3>2 DEF FateInv
    <3>7. pc' = "commitBatch" => \A i \in Idx : i \in done
      BY <2>0, <3>1, <3>2, SettledIsCompleted
    <3>8. \A i \in Idx : futures'[i] = "none"
      BY <3>1
    <3> HIDE DEF done, carry, errs
    <3> QED
      BY <2>0, <3>1, <3>3, <3>4, <3>5, <3>6, <3>7, <3>8 DEF FateInv
  <2>12. CASE BackoffCancelled
    BY <2>0, <2>1, <2>12 DEF BackoffCancelled, BeginCleanup, FateInv
  <2>13. ASSUME NEW i \in Idx, DrainPush(i)
         PROVE  FateInv'
    <3>1. Handed(batch[i])'
      BY <1>0, <2>0, <2>13 DEF DrainPush, Handed
    <3> QED
      BY <2>0, <2>1, <2>13, <3>1 DEF DrainPush, FateInv
  <2>14. ASSUME NEW i \in Idx, DrainError(i)
         PROVE  FateInv'
    BY <2>0, <2>1, <2>14 DEF DrainError, DrainCtxDone, FateInv
  <2>15. CASE DrainDone
    <3>1. \A i \in 1 .. lastAckedIdx' : i \in completed
      BY <2>0, <2>15, AdvancePrefix DEF DrainDone, FateInv
    <3> QED
      BY <2>0, <2>1, <2>15, <3>1 DEF DrainDone, FateInv
  <2>16. ASSUME NEW i \in Idx, StreamAck(i)
         PROVE  FateInv'
    <3>1. Handed(batch[i])'
      BY <1>0, <2>0, <2>16 DEF StreamAck, Handed, TypeOK
    <3>2. futures' = [futures EXCEPT ![i] = "ok"]
      BY <2>16 DEF StreamAck
    <3>3. \A j \in Idx : futures'[j] = IF j = i THEN "ok" ELSE futures[j]
      BY <3>2 DEF TypeOK
    <3>4. cursor <= Len(batch)
      BY DEF TypeOK
    <3> QED
      BY <1>0, <2>0, <2>1, <2>16, <3>1, <3>3 DEF StreamAck, streamFrame, FateInv, Idx, TypeOK
  <2>17. ASSUME NEW i \in Idx, StreamFull(i) \/ StreamError(i)
         PROVE  FateInv'
    <3>1. PICK st \in {"full", "err"} : futures' = [futures EXCEPT ![i] = st]
      BY <2>17 DEF StreamFull, StreamError
    <3>2. \A j \in Idx : futures'[j] = IF j = i THEN st ELSE futures[j]
      BY <3>1 DEF TypeOK
    <3>3. UNCHANGED streamFrame
      BY <2>17 DEF StreamFull, StreamError
    <3> QED
      BY <1>0, <2>0, <2>1, <3>2, <3>3 DEF streamFrame, FateInv, Idx, TypeOK
  <2>18. CASE Cancel \/ UNCHANGED vars
    BY <2>0, <2>1, <2>18 DEF Cancel, vars, FateInv
  <2> QED
    BY <1>4, <2>2, <2>3, <2>4, <2>5, <2>6, <2>7, <2>8, <2>9, <2>10, <2>11, <2>12, <2>13,
       <2>14, <2>15, <2>16, <2>17, <2>18 DEF Process, Stream
<1> QED
  BY <1>3, <1>4 DEF Next

\* The committed offset moves over completed records only.
LEMMA NoLossNext ==
    ASSUME TypeOK, NoLoss, BatchInv, PolledCursorInBatch, FateInv, [Next]_vars
    PROVE  NoLoss'
<1> USE DEF external, asyncState, bounds
<1> SUFFICES ASSUME NEW p \in Partitions, NEW o \in Offsets, o < committed'[p]
             PROVE  Handed(<<p, o>>)'
  BY DEF NoLoss
<1>0. <<p, o>> \in Record /\ o \in Int /\ <<p, o>>[1] = p /\ <<p, o>>[2] = o
  BY DEF Record, Offsets
<1> SUFFICES Handed(<<p, o>>)
  BY <1>0, HandedGrows
<1>1. CASE o < committed[p]
  BY <1>1 DEF NoLoss
<1>2. CASE ~(o < committed[p])
  <2>1. committed'[p] # committed[p]
    BY <1>2
  <2>2. CommitBatch \/ CommitPartial
    BY <2>1, ProcessFrame, StreamFrame
       DEF Next, Consume, Poll, EmptyPoll, LoopExit, Crash, Restart, vars
  <2>3. pc # "down"
    BY <2>2 DEF CommitBatch, CommitPartial
  <2>4. CASE CommitBatch
    <3>1. committed' = position /\ \A i \in Idx : i \in completed
      BY <2>1, <2>4 DEF CommitBatch, FateInv
    <3>2. committed[p] <= o
      BY <1>0, <1>2 DEF TypeOK
    <3>3. \E i \in Idx : batch[i] = <<p, o>>
      BY <2>3, <3>1, <3>2 DEF PolledCursorInBatch
    <3> QED
      BY <2>3, <3>1, <3>3 DEF FateInv
  <2>5. CASE CommitPartial
    <3>0. Len(batch) \in Nat /\ lastAckedIdx \in 0 .. Len(batch)
      BY LenProperties DEF TypeOK
    <3>1. lastAckedIdx > 0 /\ committed' = [committed EXCEPT ![batch[lastAckedIdx][1]] =
                                               batch[lastAckedIdx][2] + 1]
      BY <2>1, <2>5 DEF CommitPartial
    <3>2. lastAckedIdx \in Idx
      BY <3>0, <3>1 DEF Idx
    <3>3. batch[lastAckedIdx] \in Record
      BY <3>2, ElementOfSeq DEF TypeOK, Idx
    <3>4. batch[lastAckedIdx][2] \in Int
      BY <3>3 DEF Record, Offsets
    <3>5. batch[lastAckedIdx][1] = p /\ o <= batch[lastAckedIdx][2]
      BY SMTT(30), <1>0, <2>1, <3>1, <3>4 DEF TypeOK
    <3>6. o < position[p] /\ committed[p] <= o
      BY SMTT(30), <1>0, <1>2, <2>3, <3>2, <3>4, <3>5 DEF BatchInv, TypeOK
    <3>7. PICK i \in Idx : batch[i] = <<p, o>>
      BY <2>3, <3>6 DEF PolledCursorInBatch
    <3>8. i <= lastAckedIdx
      <4> SUFFICES ASSUME lastAckedIdx < i
                   PROVE  FALSE
        BY <3>0 DEF Idx
      <4>1. batch[lastAckedIdx][2] < o
        BY <1>0, <2>3, <3>2, <3>5, <3>7 DEF BatchInv
      <4> QED
        BY <1>0, <3>4, <3>5, <4>1
    <3>9. i \in completed
      BY <2>3, <3>0, <3>8 DEF FateInv, Idx
    <3> QED
      BY <2>3, <3>7, <3>9 DEF FateInv
  <2> QED
    BY <2>2, <2>4, <2>5
<1> QED
  BY <1>1, <1>2


-----------------------------------------------------------------------------
(* Copies in the stream                                                    *)

\* What the stream stored belongs to an index that was in flight, so the record
\* had no copy of this run; no other index holds that record.
LEMMA StoredOnce ==
    ASSUME TypeOK, BatchInv, UnsentInv, pc # "down", NEW i \in Idx, futures[i] = "pending",
           NEW st \in {"ok", "err"}, futures' = [futures EXCEPT ![i] = st],
           copies' = [copies EXCEPT ![batch[i]] = @ + 1],
           UNCHANGED <<pc, position, batch, backpressure, cursor, runs>>
    PROVE  UnsentInv'
<1>0. \A j \in Idx : batch[j] \in Record
  BY ElementOfSeq DEF TypeOK, Idx
<1>1. copies[batch[i]] < runs /\ i <= cursor /\ i \notin backpressure
  BY DEF UnsentInv
<1>2. copies \in [Record -> Nat] /\ runs \in Int /\ cursor \in Int /\ i \in Int
  BY DEF TypeOK, Idx
<1>3. \A j \in Idx : futures'[j] = IF j = i THEN st ELSE futures[j]
  BY DEF TypeOK
<1>4. \A r \in Record : copies'[r] = IF r = batch[i] THEN copies[r] + 1 ELSE copies[r]
  BY <1>0, <1>2
<1>5. \A j \in Idx : j # i => batch[j] # batch[i]
  BY BatchInjective
<1>6. \A r \in Record : position[r[1]] <= r[2] => r # batch[i]
  <2>1. batch[i][2] < position[batch[i][1]]
    BY DEF BatchInv
  <2>2. batch[i][1] \in Partitions /\ batch[i][2] \in Int
    BY <1>0 DEF Record, Offsets
  <2> QED
    BY <2>1, <2>2 DEF TypeOK
<1>7. \A r \in Record : copies'[r] <= runs
  BY <1>1, <1>2, <1>4 DEF UnsentInv
<1>8. \A r \in Record : position[r[1]] <= r[2] => copies'[r] < runs
  BY <1>4, <1>6 DEF UnsentInv
<1>9. \A j \in Idx : (j > cursor \/ j \in backpressure \/ futures'[j] \in {"pending", "full"})
                        => copies'[batch[j]] < runs
  <2> SUFFICES ASSUME NEW j \in Idx,
                      j > cursor \/ j \in backpressure \/ futures'[j] \in {"pending", "full"}
               PROVE  copies'[batch[j]] < runs
    OBVIOUS
  <2>1. j # i
    BY <1>1, <1>2, <1>3
  <2>2. copies'[batch[j]] = copies[batch[j]]
    BY <1>0, <1>4, <1>5, <2>1
  <2> QED
    BY <1>3, <2>1, <2>2 DEF UnsentInv
<1>10. Idx' = Idx
  BY DEF Idx
<1> QED
  BY <1>3, <1>7, <1>8, <1>9, <1>10 DEF UnsentInv

LEMMA UnsentNext ==
    ASSUME TypeOK, BatchInv, UnsentInv, [Next]_vars
    PROVE  UnsentInv'
<1> USE DEF external, asyncState, bounds
<1>0. Len(batch) \in Nat /\ \A i \in Idx : batch[i] \in Record
  BY ElementOfSeq, LenProperties DEF TypeOK, Idx
<1>1. /\ copies \in [Record -> Nat] /\ runs \in Int
      /\ \A r \in Record : copies[r] \in Int /\ copies[r] <= runs
  BY DEF TypeOK, UnsentInv
<1>2. ASSUME UNCHANGED <<copies, runs>>, pc' = "down"
      PROVE  UnsentInv'
  BY <1>2 DEF UnsentInv
<1>3. ASSUME UNCHANGED <<copies, runs, pc, position, batch, backpressure, futures, cursor>>
      PROVE  UnsentInv'
  BY <1>3 DEF UnsentInv, Idx
<1>4. CASE Poll
  <2>1. PICK newPos \in [Partitions -> 0 .. LogEnd] :
           /\ \A p \in Partitions : position[p] <= newPos[p]
           /\ position' = newPos
           /\ batch' \in Batches(newPos)
    BY <1>4 DEF Poll
  <2>2. /\ batch' \in Seq(Record)
        /\ \A i \in 1 .. Len(batch') : position[batch'[i][1]] <= batch'[i][2]
    BY <2>1, BatchIsSeq
  <2>3. /\ backpressure' = {} /\ cursor' = 0 /\ futures' = [i \in 1 .. Len(batch') |-> "none"]
        /\ UNCHANGED <<copies, runs>> /\ pc # "down"
    BY <1>4 DEF Poll, FreshBatchState
  <2>4. \A i \in Idx' : batch'[i] \in Record /\ copies[batch'[i]] < runs
    BY <2>2, <2>3, ElementOfSeq DEF UnsentInv, Idx
  <2>5. \A r \in Record : newPos[r[1]] <= r[2] => position[r[1]] <= r[2]
    BY <2>1 DEF Record, Offsets, TypeOK
  <2>6. \A i \in Idx' : futures'[i] = "none"
    BY <2>3 DEF Idx
  <2> QED
    BY <2>1, <2>3, <2>4, <2>5, <2>6 DEF UnsentInv
<1>5. CASE CommitBatch
  <2>1. CASE pc' = "down"
    BY <1>2, <1>5, <2>1 DEF CommitBatch
  <2>2. CASE pc' # "down"
    <3>1. /\ batch' = <<>> /\ backpressure' = {}
          /\ UNCHANGED <<copies, runs, position>> /\ pc # "down"
      BY <1>5, <2>2 DEF CommitBatch, FreshBatchState
    <3>2. Idx' = {}
      BY <3>1, EmptySeq DEF Idx
    <3> QED
      BY <3>1, <3>2 DEF UnsentInv
  <2> QED
    BY <2>1, <2>2
<1>6. CASE CommitPartial \/ LoopExit
  BY <1>2, <1>6 DEF CommitPartial, LoopExit
<1>7. CASE Crash
  <2>1. PICK sent \in SUBSET Pending :
           copies' = [r \in Record |-> IF \E i \in sent : batch[i] = r
                                       THEN copies[r] + 1 ELSE copies[r]]
    BY <1>7 DEF Crash
  <2>2. pc # "down" /\ pc' = "down" /\ runs' = runs
    BY <1>7 DEF Crash
  <2>3. \A i \in sent : copies[batch[i]] < runs
    BY <2>1, <2>2 DEF UnsentInv, Pending
  <2>4. \A r \in Record : copies'[r] <= runs
    BY <1>1, <2>1, <2>3
  <2> QED
    BY <2>2, <2>4 DEF UnsentInv
<1>8. CASE Restart
  <2>1. /\ UNCHANGED copies /\ runs' = runs + 1 /\ batch' = <<>> /\ backpressure' = {}
    BY <1>8 DEF Restart, FreshBatchState
  <2>2. Idx' = {}
    BY <2>1, EmptySeq DEF Idx
  <2> QED
    BY <1>1, <2>1, <2>2 DEF UnsentInv
<1>9. CASE EmptyPoll \/ Cancel \/ UNCHANGED vars
  BY <1>3, <1>9 DEF EmptyPoll, Cancel, vars
<1>10. CASE Stream
  <2>1. ASSUME NEW i \in Idx, StreamAck(i)
        PROVE  UnsentInv'
    BY <2>1, StoredOnce DEF StreamAck, Pending, streamFrame
  <2>2. ASSUME NEW i \in Idx, NEW st \in {"full", "err"}, UNCHANGED <<streamFrame, copies>>,
               futures[i] = "pending", futures' = [futures EXCEPT ![i] = st]
        PROVE  UnsentInv'
    <3>1. \A j \in Idx : futures'[j] = IF j = i THEN st ELSE futures[j]
      BY <2>2 DEF TypeOK
    <3> QED
      BY <2>2, <3>1 DEF UnsentInv, streamFrame, Idx
  <2>3. ASSUME NEW i \in Idx, StreamFull(i)
        PROVE  UnsentInv'
    BY <2>2, <2>3 DEF StreamFull, Pending
  <2>4. ASSUME NEW i \in Idx, StreamError(i)
        PROVE  UnsentInv'
    <3>1. CASE copies' = copies
      BY <2>2, <2>4, <3>1 DEF StreamError, Pending
    <3>2. CASE copies' = [copies EXCEPT ![batch[i]] = @ + 1]
      BY <2>4, <3>2, StoredOnce DEF StreamError, Pending, streamFrame
    <3> QED
      BY <2>4, <3>1, <3>2 DEF StreamError
  <2> QED
    BY <1>10, <2>1, <2>3, <2>4 DEF Stream
<1>11. CASE Process
  <2>0. UNCHANGED <<position, batch, runs>> /\ pc # "down" /\ pc' # "down" /\ Idx' = Idx
    BY <1>11, ProcessFrame DEF Idx
  <2>1. ASSUME NEW i \in Idx, RepublishAccepted(i)
        PROVE  UnsentInv'
    <3>1. i \in backpressure /\ i <= cursor /\ copies[batch[i]] < runs
      BY <2>0, <2>1 DEF RepublishAccepted, TypeOK, UnsentInv
    <3>2. \A j \in Idx : futures'[j] = IF j = i THEN "pending" ELSE futures[j]
      BY <2>1 DEF RepublishAccepted, TypeOK
    <3>3. UNCHANGED <<copies, cursor>> /\ backpressure' = backpressure \ {i}
      BY <2>1 DEF RepublishAccepted
    <3> QED
      BY <2>0, <3>1, <3>2, <3>3 DEF UnsentInv
  <2>2. ASSUME NEW i \in Idx, RepublishThrottled(i)
        PROVE  UnsentInv'
    BY <1>3, <2>2 DEF RepublishThrottled
  <2>3. ASSUME NEW i \in Idx, RepublishError(i)
        PROVE  UnsentInv'
    BY <2>0, <2>3 DEF RepublishError, UnsentInv
  <2>4. ASSUME UNCHANGED <<copies, backpressure, futures>>,
               cursor' \in {cursor, cursor + 1}
        PROVE  UnsentInv'
    <3>1. cursor \in Int /\ (\A i \in Idx : i \in Int) /\ backpressure \subseteq Idx
      BY DEF TypeOK, Idx
    <3>2. \A i \in Idx : (i <= cursor => i <= cursor') /\ (i > cursor' => i > cursor)
      BY <2>4, <3>1
    <3> QED
      BY <2>0, <2>4, <3>1, <3>2 DEF UnsentInv
  <2>5. CASE CarryPassDone \/ CursorDone \/ BackoffElapsed \/ BackoffCancelled \/ DrainDone
    BY <2>4, <2>5 DEF CarryPassDone, CursorDone, BackoffElapsed, BackoffCancelled, DrainDone
  <2>6. CASE PrepareToDLQ \/ PrepareError \/ PublishThrottled \/ PublishError
    BY <2>4, <2>6 DEF PrepareToDLQ, PrepareError, PublishThrottled, PublishError, next
  <2>7. ASSUME NEW i \in Idx, DrainPush(i) \/ DrainError(i)
        PROVE  UnsentInv'
    BY <2>4, <2>7 DEF DrainPush, DrainError
  <2>8. CASE PublishAccepted
    <3>1. PICK k \in Idx : k = cursor + 1
      BY <1>0, <2>8 DEF PublishAccepted, AtCursor, Idx, TypeOK
    <3>2. /\ futures' = [futures EXCEPT ![k] = "pending"] /\ cursor' = k
          /\ UNCHANGED <<copies, backpressure>>
      BY <2>8, <3>1 DEF PublishAccepted, next
    <3>3. \A j \in Idx : futures'[j] = IF j = k THEN "pending" ELSE futures[j]
      BY <3>2 DEF TypeOK
    <3>4. cursor \in Int /\ (\A i \in Idx : i \in Int) /\ backpressure \subseteq Idx
      BY DEF TypeOK, Idx
    <3>5. k \notin backpressure /\ copies[batch[k]] < runs
      BY <2>0, <3>1, <3>4 DEF UnsentInv
    <3>6. \A i \in Idx : (i <= cursor => i <= cursor') /\ (i > cursor' => i > cursor)
      BY <3>1, <3>2, <3>4
    <3> QED
      BY <2>0, <3>1, <3>2, <3>3, <3>4, <3>5, <3>6 DEF UnsentInv
  <2>9. CASE ClassifyFutures
    <3>1. /\ backpressure' = backpressure \cup {i \in Idx : futures[i] = "full"}
          /\ futures' = [i \in Idx |-> "none"]
          /\ UNCHANGED <<copies, cursor>>
      BY <2>9 DEF ClassifyFutures
    <3>2. \A i \in Idx : futures'[i] = "none"
      BY <3>1
    <3>3. backpressure \subseteq Idx
      BY DEF TypeOK
    <3> QED
      BY <2>0, <3>1, <3>2, <3>3 DEF UnsentInv
  <2> QED
    BY <1>11, <2>1, <2>2, <2>3, <2>5, <2>6, <2>7, <2>8, <2>9 DEF Process
<1> QED
  BY <1>4, <1>5, <1>6, <1>7, <1>8, <1>9, <1>10, <1>11 DEF Next, Consume


-----------------------------------------------------------------------------
(* Kinds of records                                                        *)

\* A prepared index stays a prepared index while the batch does.
LEMMA PreparedNext ==
    ASSUME TypeOK, PreparedInv, [Next]_vars
    PROVE  PreparedInv'
<1> USE DEF external, asyncState, bounds
<1>0. /\ Len(batch) \in Nat /\ \A i \in Idx : batch[i] \in Record
      /\ cached \subseteq Idx /\ copies \in [Record -> Nat]
  BY ElementOfSeq, LenProperties DEF TypeOK, Idx
<1> DEFINE Clean == \A r \in Record : Kind[r] = "incompatible" => ~Handed(r)
<1>1. ASSUME UNCHANGED <<copies, dlq>>
      PROVE  Clean'
  BY <1>1 DEF PreparedInv, Handed
<1>2. ASSUME NEW i \in Idx, Kind[batch[i]] # "incompatible", UNCHANGED copies,
             dlq' \in {dlq, dlq \cup {batch[i]}}
      PROVE  Clean'
  BY <1>2 DEF PreparedInv, Handed
<1>3. ASSUME NEW i \in Idx, Kind[batch[i]] # "incompatible", UNCHANGED dlq,
             copies' \in {copies, [copies EXCEPT ![batch[i]] = @ + 1]}
      PROVE  Clean'
  <2>1. \A r \in Record : r # batch[i] => copies'[r] = copies[r]
    BY <1>0, <1>3
  <2> QED
    BY <1>3, <2>1 DEF PreparedInv, Handed
<1>4. ASSUME Clean', pc' = "down"
      PROVE  PreparedInv'
  BY <1>4 DEF PreparedInv
<1>5. ASSUME Clean', \E n : FreshBatchState(n), futures' \in [Idx' -> {"none"}]
      PROVE  PreparedInv'
  <2>1. \A i \in Idx' : futures'[i] = "none"
    BY <1>5
  <2>2. cached' = {} /\ backpressure' = {} /\ dlqOnExit' = {} /\ drain' = {}
    BY <1>5 DEF FreshBatchState
  <2> QED
    BY <1>5, <2>1, <2>2 DEF PreparedInv
<1>6. CASE Poll
  BY <1>1, <1>5, <1>6 DEF Poll, FreshBatchState, Idx
<1>7. CASE EmptyPoll \/ Cancel \/ UNCHANGED vars
  BY <1>7 DEF EmptyPoll, Cancel, vars, PreparedInv, Idx, Handed
<1>8. CASE LoopExit \/ CommitPartial
  BY <1>1, <1>4, <1>8 DEF LoopExit, CommitPartial
<1>9. CASE CommitBatch
  <2>1. CASE pc' = "down"
    BY <1>1, <1>4, <1>9, <2>1 DEF CommitBatch
  <2>2. CASE pc' # "down"
    BY <1>1, <1>5, <1>9, <2>2, EmptySeq DEF CommitBatch, FreshBatchState, Idx
  <2> QED
    BY <2>1, <2>2
<1>10. CASE Restart
  BY <1>1, <1>5, <1>10, EmptySeq DEF Restart, FreshBatchState, Idx
<1>11. CASE Crash
  <2>1. PICK sent \in SUBSET Pending :
           copies' = [r \in Record |-> IF \E i \in sent : batch[i] = r
                                       THEN copies[r] + 1 ELSE copies[r]]
    BY <1>11 DEF Crash
  <2>2. pc # "down" /\ pc' = "down" /\ UNCHANGED dlq
    BY <1>11 DEF Crash
  <2>3. \A i \in sent : Kind[batch[i]] = "valid"
    BY <2>1, <2>2 DEF Pending, PreparedInv
  <2>4. \A r \in Record : Kind[r] = "incompatible" => copies'[r] = copies[r]
    BY <2>1, <2>3
  <2>5. Clean'
    BY <2>2, <2>4 DEF PreparedInv, Handed
  <2> QED
    BY <1>4, <2>2, <2>5
<1>12. CASE Stream
  <2>0. UNCHANGED <<pc, batch>> /\ pc # "down" /\ Idx' = Idx
    BY <1>12, StreamFrame DEF Idx
  <2>1. ASSUME NEW i \in Idx, StreamAck(i) \/ StreamFull(i) \/ StreamError(i)
        PROVE  PreparedInv'
    <3>1. /\ futures[i] = "pending" /\ UNCHANGED streamFrame
          /\ copies' \in {copies, [copies EXCEPT ![batch[i]] = @ + 1]}
          /\ \E st \in FutureStates : futures' = [futures EXCEPT ![i] = st]
      BY <2>1 DEF StreamAck, StreamFull, StreamError, Pending, FutureStates, streamFrame
    <3>2. i \in cached /\ Kind[batch[i]] = "valid"
      BY <2>0, <3>1 DEF PreparedInv
    <3>3. \A j \in Idx : j = i \/ futures'[j] = futures[j]
      BY <3>1 DEF TypeOK
    <3>4. Clean'
      BY <1>3, <3>1, <3>2 DEF streamFrame
    <3> QED
      BY <2>0, <3>1, <3>2, <3>3, <3>4 DEF PreparedInv, streamFrame
  <2> QED
    BY <1>12, <2>1 DEF Stream
<1>13. CASE Process
  <2>0. /\ UNCHANGED batch /\ pc # "down" /\ pc' # "down" /\ Idx' = Idx
        /\ retry \subseteq backpressure
    BY <1>13, ProcessFrame DEF Idx, TypeOK
  <2>1. ASSUME NEW i \in Idx,
               RepublishAccepted(i) \/ RepublishThrottled(i) \/ RepublishError(i)
        PROVE  PreparedInv'
    <3>1. i \in cached
      BY <2>0, <2>1 DEF RepublishAccepted, RepublishThrottled, RepublishError, PreparedInv
    <3>2. /\ UNCHANGED <<copies, dlq, cached, drain>>
          /\ futures' \in {futures, [futures EXCEPT ![i] = "pending"]}
          /\ backpressure' \subseteq backpressure
          /\ dlqOnExit' \subseteq dlqOnExit \cup {i}
      BY <2>1 DEF RepublishAccepted, RepublishThrottled, RepublishError
    <3>3. \A j \in Idx : j = i \/ futures'[j] = futures[j]
      BY <3>2 DEF TypeOK
    <3> QED
      BY <1>1, <2>0, <3>1, <3>2, <3>3 DEF PreparedInv
  <2>2. CASE CarryPassDone \/ CursorDone \/ BackoffElapsed \/ DrainDone
    BY <1>1, <2>0, <2>2 DEF CarryPassDone, CursorDone, BackoffElapsed, DrainDone, PreparedInv
  <2>3. CASE PrepareToDLQ \/ PrepareError
    <3>1. PICK k \in Idx : k = cursor + 1
      BY <1>0, <2>3 DEF PrepareToDLQ, PrepareError, AtCursor, Idx, TypeOK
    <3>2. Clean'
      BY <1>1, <1>2, <2>3, <3>1 DEF PrepareToDLQ, PrepareError, MaybeStored, next
    <3> QED
      BY <2>0, <2>3, <3>2 DEF PrepareToDLQ, PrepareError, PreparedInv
  <2>4. CASE PublishAccepted \/ PublishThrottled \/ PublishError
    <3>1. PICK k \in Idx : k = cursor + 1
      BY <1>0, <2>4 DEF PublishAccepted, PublishThrottled, PublishError, AtCursor, Idx, TypeOK
    <3>2. k \in cached \/ Kind[batch[k]] = "valid"
      BY <2>4, <3>1 DEF PublishAccepted, PublishThrottled, PublishError, Prepared, next
    <3>3. /\ UNCHANGED <<copies, dlq, backpressure, drain>>
          /\ cached' = cached \cup {k}
          /\ futures' \in {futures, [futures EXCEPT ![k] = "pending"]}
          /\ dlqOnExit' \subseteq dlqOnExit \cup {k}
      BY <2>4, <3>1 DEF PublishAccepted, PublishThrottled, PublishError, next
    <3>4. \A j \in Idx : j = k \/ futures'[j] = futures[j]
      BY <3>3 DEF TypeOK
    <3> QED
      BY <1>1, <2>0, <3>1, <3>2, <3>3, <3>4 DEF PreparedInv
  <2>5. CASE ClassifyFutures
    <3>1. /\ backpressure' = backpressure \cup {i \in Idx : futures[i] = "full"}
          /\ dlqOnExit' = dlqOnExit \cup {i \in Idx : futures[i] = "err"}
          /\ futures' = [i \in Idx |-> "none"]
          /\ UNCHANGED <<copies, dlq, cached>>
      BY <2>5 DEF ClassifyFutures
    <3>2. drain' \subseteq drain \cup dlqOnExit' \cup backpressure'
      BY <2>5 DEF ClassifyFutures, BeginCleanup
    <3>3. \A i \in Idx : futures'[i] = "none"
      BY <3>1
    <3> QED
      BY <1>1, <2>0, <3>1, <3>2, <3>3 DEF PreparedInv
  <2>6. CASE BackoffCancelled
    BY <1>1, <2>0, <2>6 DEF BackoffCancelled, BeginCleanup, PreparedInv
  <2>7. ASSUME NEW i \in Idx, DrainPush(i) \/ DrainError(i)
        PROVE  PreparedInv'
    <3>1. i \in cached /\ Kind[batch[i]] = "valid"
      BY <2>0, <2>7 DEF DrainPush, DrainError, PreparedInv
    <3>2. /\ UNCHANGED <<copies, cached, futures, backpressure, dlqOnExit>>
          /\ drain' \subseteq drain
          /\ dlq' \in {dlq, dlq \cup {batch[i]}}
      BY <2>7 DEF DrainPush, DrainError, MaybeStored
    <3> QED
      BY <1>2, <2>0, <3>1, <3>2 DEF PreparedInv
  <2> QED
    BY <1>13, <2>1, <2>2, <2>3, <2>4, <2>5, <2>6, <2>7 DEF Process
<1> QED
  BY <1>6, <1>7, <1>8, <1>9, <1>10, <1>11, <1>12, <1>13 DEF Next, Consume

-----------------------------------------------------------------------------
(* Theorems                                                                *)

LEMMA IndInvInit == Init => IndInv
<1> SUFFICES ASSUME Init
             PROVE  IndInv
  OBVIOUS
<1>1. TypeOK
  BY TypeInit
<1>2. Idx = {} /\ batch = <<>> /\ completed = {} /\ backpressure = {} /\ cached = {}
      /\ dlqOnExit = {} /\ drain = {} /\ cursor = 0 /\ lastAckedIdx = 0
  BY EmptySeq DEF Init, Idx
<1>3. NoLoss /\ PolledCursorInBatch /\ BatchInv
  BY <1>2 DEF Init, NoLoss, PolledCursorInBatch, BatchInv, Offsets
<1>4. FateInv /\ UnsentInv /\ PreparedInv
  BY <1>2 DEF Init, FateInv, UnsentInv, PreparedInv, Handed
<1> QED
  BY <1>1, <1>3, <1>4 DEF IndInv

LEMMA IndInvNext == IndInv /\ [Next]_vars => IndInv'
  BY TypeNext, BatchNext, FateNext, NoLossNext, UnsentNext, PreparedNext DEF IndInv

\* The inductive invariant of the ingestor holds in every reachable state.
THEOREM Inductive == Spec => []IndInv
  BY IndInvInit, IndInvNext, PTL DEF Spec

\* No committed offset is ever beyond a record that is neither in the stream
\* nor in the DLQ, for any number of partitions, records, faults and crashes.
THEOREM NoRecordLost == Spec => []NoLoss
<1>1. IndInv => NoLoss
  BY DEF IndInv
<1> QED
  BY <1>1, Inductive, PTL

\* The invariant handleBatchMessages relies on: the polled cursor is never
\* ahead of the committed one by more than the batch being processed.
THEOREM PolledCursorSafe == Spec => []PolledCursorInBatch
<1>1. IndInv => PolledCursorInBatch
  BY DEF IndInv
<1> QED
  BY <1>1, Inductive, PTL

\* Retrying after backpressure never stores a record twice in one run.
THEOREM NoDuplicateWithinRun == Spec => []OncePerRun
<1>1. IndInv => OncePerRun
  BY DEF IndInv, UnsentInv, OncePerRun
<1> QED
  BY <1>1, Inductive, PTL

\* A record of an incompatible schema is never published, never sent to the
\* DLQ, and no commit passes it.
THEOREM IncompatibleNeverPassed == Spec => []IncompatibleHolds
<1>1. IndInv => IncompatibleHolds
  <2> SUFFICES ASSUME IndInv, NEW r \in Record, Kind[r] = "incompatible"
               PROVE  ~Handed(r) /\ committed[r[1]] <= r[2]
    BY DEF IncompatibleHolds
  <2>1. ~Handed(r)
    BY DEF IndInv, PreparedInv
  <2>2. PICK p \in Partitions, o \in Offsets : r = <<p, o>>
    BY DEF Record
  <2>3. ~(o < committed[p])
    BY <2>1, <2>2 DEF IndInv, NoLoss
  <2>4. committed[p] \in Int /\ o \in Int
    BY DEF IndInv, TypeOK, Offsets
  <2> QED
    BY <2>1, <2>2, <2>3, <2>4
<1> QED
  BY <1>1, Inductive, PTL


\* The ingestor implements the promise of the ingestion stage: every step hands
\* records over, or acknowledges offsets whose records have been handed over.
THEOREM Refinement == Spec => ImplementsHandoff
<1> USE DEF external, asyncState, bounds
<1>1. Init => Handoff!Init
  <2> SUFFICES ASSUME Init
               PROVE  Handoff!Init
    OBVIOUS
  <2>1. \A r \in Record : ~Handed(r)
    BY DEF Init, Handed
  <2>2. {r \in Record : Handed(r)} = {}
    BY <2>1
  <2> QED
    BY <2>2 DEF Init, Handoff!Init
<1>2. IndInv /\ IndInv' /\ [Next]_vars => [Handoff!Next]_(Handoff!vars)
  <2> SUFFICES ASSUME IndInv, IndInv', [Next]_vars
               PROVE  Handoff!Next
    OBVIOUS
  <2>1. {r \in Record : Handed(r)} \subseteq {r \in Record : Handed(r)}'
    BY HandedGrows DEF IndInv
  <2>2. CASE committed' = committed
    <3>1. {r \in Record : Handed(r)}' \in SUBSET Handoff!Record
      BY DEF Handoff!Record, Record, Offsets
    <3> QED
      BY <2>1, <2>2, <3>1 DEF Handoff!Next, Handoff!HandOver
  <2>3. CASE committed' # committed
    <3>1. CommitBatch \/ CommitPartial
      BY <2>3, ProcessFrame, StreamFrame
         DEF Next, Consume, Poll, EmptyPoll, LoopExit, Crash, Restart, vars
    <3>2. UNCHANGED <<copies, dlq>> /\ pc # "down"
      BY <3>1 DEF CommitBatch, CommitPartial
    <3>3. \A r \in Record : Handed(r)' <=> Handed(r)
      BY <3>2 DEF Handed
    <3>4. {r \in Record : Handed(r)}' = {r \in Record : Handed(r)}
      BY <3>3
    <3>5. committed' \in [Partitions -> 0 .. LogEnd]
      BY DEF IndInv, TypeOK
    <3>6. ASSUME NEW p \in Partitions
          PROVE  committed[p] <= committed'[p]
      <4>1. CASE CommitBatch
        BY <2>3, <3>2, <4>1 DEF CommitBatch, IndInv, BatchInv
      <4>2. CASE CommitPartial
        <5>1. lastAckedIdx > 0 /\ committed' = [committed EXCEPT ![batch[lastAckedIdx][1]] =
                                                   batch[lastAckedIdx][2] + 1]
          BY <2>3, <4>2 DEF CommitPartial
        <5>2. lastAckedIdx \in Idx
          BY <5>1, LenProperties DEF IndInv, TypeOK, Idx
        <5>3. batch[lastAckedIdx] \in Record
          BY <5>2, ElementOfSeq DEF IndInv, TypeOK, Idx
        <5>4. batch[lastAckedIdx][2] \in Int /\ batch[lastAckedIdx][1] \in Partitions
          BY <5>3 DEF Record, Offsets
        <5>5. committed[batch[lastAckedIdx][1]] <= batch[lastAckedIdx][2]
          BY <3>2, <5>2 DEF IndInv, BatchInv
        <5>6. committed \in [Partitions -> Int]
          BY DEF IndInv, TypeOK
        <5> QED
          BY <5>1, <5>4, <5>5, <5>6
      <4> QED
        BY <3>1, <4>1, <4>2
    <3>7. ASSUME NEW p \in Partitions, NEW o \in 0 .. LogEnd - 1, o < committed'[p]
          PROVE  <<p, o>> \in {r \in Record : Handed(r)}
      <4>1. o \in Offsets /\ <<p, o>> \in Record
        BY DEF Offsets, Record
      <4>2. Handed(<<p, o>>)'
        BY <3>7, <4>1 DEF IndInv, NoLoss
      <4> QED
        BY <3>3, <4>1, <4>2
    <3> QED
      BY <3>4, <3>5, <3>6, <3>7 DEF Handoff!Next, Handoff!Acknowledge
  <2> QED
    BY <2>2, <2>3
<1> QED
  BY <1>1, <1>2, Inductive, PTL DEF Spec, ImplementsHandoff, Handoff!Spec

-----------------------------------------------------------------------------
(* What a cancellation costs                                               *)

\* The valid records in the DLQ, and those the cleanup is about to put there.
Spent == {r \in dlq : Kind[r] = "valid"}
Owed == {batch[i] : i \in dlqOnExit}

CleanRun == faults = 0 /\ \A r \in Record : Kind[r] # "incompatible"

\* A run that fails for nothing but its cancellation has stopped at the first
\* error, and owes the DLQ the one record the error was about.
CostOK ==
    pc # "down" =>
        /\ savedErr # "fatal" /\ (savedErr = "none" => dlqOnExit = {})
        /\ savedErr = "none" /\ ctxDone => Cardinality(Spent) < stops
        /\ savedErr = "ctx" => /\ ctxDone /\ IsFiniteSet(Spent \cup Owed)
                               /\ Cardinality(Spent \cup Owed) <= stops
        /\ savedErr # "none" => pc # "backoff" /\ (pc = "carry" => retry = {})
        /\ drain \subseteq dlqOnExit
        /\ \A i \in Idx : futures[i] # "err"

CostInv ==
    CleanRun => IsFiniteSet(Spent) /\ Cardinality(Spent) <= stops /\ CostOK

\* A step that sends nothing to the DLQ.
LEMMA SpentSame ==
    ASSUME dlq' \in {dlq} \cup {dlq \cup {r} : r \in {s \in Record : Kind[s] = "invalid"}}
    PROVE  Spent' = Spent
  BY DEF Spent

\* A call that fails in a clean run was made under the cancelled context.
LEMMA CleanError ==
    ASSUME TypeOK, faults = 0, faults' = 0
    PROVE  ~Fault /\ (CallError => ctxDone /\ savedErr' = "ctx")
  BY DEF Fault, CallError

\* The first error of a run, about the record at index i or about none.
LEMMA FirstError ==
    ASSUME TypeOK, IsFiniteSet(Spent), CostOK, pc # "down", savedErr = "none", ctxDone,
           ctx' = ctx, savedErr' = "ctx", stops' = stops, UNCHANGED <<batch, futures, drain>>,
           Spent' = Spent, pc' # "backoff", pc' = "carry" => retry' = {},
           \/ dlqOnExit' = dlqOnExit
           \/ \E i \in Idx : dlqOnExit' = dlqOnExit \cup {i}
    PROVE  CostOK'
<1>1. dlqOnExit = {} /\ Cardinality(Spent) < stops /\ drain = {} /\ stops \in Nat
  BY DEF CostOK, TypeOK
<1>2. Cardinality(Spent) \in Nat
  BY FS_CardinalityType
<1>3. IsFiniteSet(Spent' \cup Owed') /\ Cardinality(Spent' \cup Owed') <= stops
  <2>1. CASE dlqOnExit' = {}
    <3>1. Owed' = {}
      BY <2>1 DEF Owed
    <3>2. Spent' \cup Owed' = Spent
      BY <3>1
    <3> QED
      BY <1>1, <1>2, <3>2
  <2>2. ASSUME NEW i \in Idx, dlqOnExit' = {i}
        PROVE  IsFiniteSet(Spent' \cup Owed') /\ Cardinality(Spent' \cup Owed') <= stops
    <3>1. Spent' \cup Owed' = Spent \cup {batch[i]}
      BY <2>2 DEF Owed
    <3>2. Cardinality(Spent \cup {batch[i]}) <= Cardinality(Spent) + 1
      BY <1>2, FS_AddElement
    <3>3. IsFiniteSet(Spent \cup {batch[i]}) /\ Cardinality(Spent \cup {batch[i]}) \in Nat
      BY FS_AddElement, FS_CardinalityType
    <3> DEFINE before == Cardinality(Spent)
               after == Cardinality(Spent \cup {batch[i]})
    <3>4. before < stops /\ after <= before + 1 /\ before \in Nat /\ after \in Nat
      BY <1>1, <1>2, <3>2, <3>3
    <3> HIDE DEF before, after
    <3>5. after <= stops
      BY <1>1, <3>4
    <3> QED
      BY <3>1, <3>3, <3>5 DEF after
  <2> QED
    BY <1>1, <2>1, <2>2
<1>4. drain' \subseteq dlqOnExit' /\ ctxDone'
  BY <1>1 DEF ctxDone
<1>5. \A i \in Idx' : futures'[i] # "err"
  BY DEF CostOK, Idx
<1> QED
  BY <1>3, <1>4, <1>5 DEF CostOK

\* A step that changes neither the DLQ nor what the cleanup will do with it.
LEMMA CostAlone ==
    ASSUME CostOK, UNCHANGED <<ctx, batch, dlqOnExit, savedErr, stops>>, Spent' = Spent,
           pc # "down", savedErr # "none" => pc' # "backoff" /\ (pc' = "carry" => retry' = {}),
           drain' \subseteq dlqOnExit, \A i \in Idx : futures'[i] # "err"
    PROVE  CostOK'
<1>1. Owed' = Owed /\ Idx' = Idx /\ (ctxDone' <=> ctxDone)
  BY DEF Owed, Idx, ctxDone
<1> QED
  BY <1>1 DEF CostOK

\* A run that has just begun, or goes on with the next batch.
LEMMA CostFresh ==
    ASSUME FreshBatchState(Len(batch')), ctx' = "live"
    PROVE  CostOK'
<1>1. /\ savedErr' = "none" /\ dlqOnExit' = {} /\ drain' = {}
      /\ futures' = [i \in 1 .. Len(batch') |-> "none"]
  BY DEF FreshBatchState
<1>2. \A i \in Idx' : futures'[i] # "err"
  BY <1>1 DEF Idx
<1> QED
  BY <1>1, <1>2 DEF CostOK, ctxDone

\* The cleanup of a clean run.
LEMMA CostCleanup ==
    ASSUME TypeOK, IsFiniteSet(Spent), CostOK, pc # "down", ctxDone, Spent' = Spent,
           UNCHANGED <<ctx, batch, dlqOnExit, stops>>, savedErr' = "ctx", pc' = "drain",
           drain' \subseteq dlqOnExit, \A i \in Idx : futures'[i] # "err"
    PROVE  CostOK'
<1>1. Owed' = Owed /\ Idx' = Idx /\ (ctxDone' <=> ctxDone)
  BY DEF Owed, Idx, ctxDone
<1>2. IsFiniteSet(Spent \cup Owed) /\ Cardinality(Spent \cup Owed) <= stops
  <2>1. CASE savedErr = "ctx"
    BY <2>1 DEF CostOK
  <2>2. CASE savedErr = "none"
    <3>1. Owed = {} /\ Cardinality(Spent) < stops
      BY <2>2 DEF CostOK, Owed
    <3>2. Spent \cup Owed = Spent
      BY <3>1
    <3> QED
      BY <3>1, <3>2, FS_CardinalityType DEF TypeOK
  <2> QED
    BY <2>1, <2>2 DEF CostOK, TypeOK, Causes
<1> QED
  BY <1>1, <1>2 DEF CostOK

LEMMA CostNext == TypeOK /\ CostInv /\ [Next]_vars => CostInv'
<1> SUFFICES ASSUME TypeOK, CostInv, [Next]_vars, CleanRun'
             PROVE  (IsFiniteSet(Spent) /\ Cardinality(Spent) <= stops /\ CostOK)'
  BY DEF CostInv
<1> USE DEF external, asyncState, bounds
<1>0. TypeOK' /\ faults' = 0 /\ faults = 0
  <2>1. TypeOK' /\ faults' = 0
    BY TypeNext DEF CleanRun
  <2>2. ASSUME Process \/ Stream
        PROVE  faults' = faults \/ Fault
    BY <2>2 DEF Process, Stream, RepublishAccepted, RepublishThrottled, RepublishError,
           CarryPassDone, PrepareToDLQ, PrepareError, PublishAccepted, PublishThrottled,
           PublishError, CursorDone, ClassifyFutures, BackoffElapsed, BackoffCancelled,
           DrainPush, DrainError, DrainDone, StreamAck, StreamFull, StreamError, streamFrame,
           CallError
  <2>3. ASSUME Consume \/ Cancel \/ Crash \/ Restart \/ UNCHANGED vars
        PROVE  faults' = faults \/ Fault
    BY <2>3 DEF Consume, Poll, EmptyPoll, LoopExit, CommitBatch, CommitPartial, Cancel, Crash,
           Restart, vars
  <2>4. faults' = faults \/ faults' = faults + 1
    BY <2>2, <2>3 DEF Next, Fault
  <2>5. faults \in Nat
    BY DEF TypeOK
  <2> QED
    BY <2>1, <2>4, <2>5
<1>1. CleanRun /\ IsFiniteSet(Spent) /\ Cardinality(Spent) <= stops /\ CostOK
  BY <1>0 DEF CleanRun, CostInv
<1>2. ~Fault /\ (CallError => ctxDone /\ savedErr' = "ctx")
  BY <1>0, CleanError
<1>3. Cardinality(Spent) \in Nat /\ stops \in Nat
  BY <1>1, FS_CardinalityType DEF TypeOK
<1>4. \A i \in Idx : batch[i] \in Record
  BY ElementOfSeq DEF TypeOK, Idx
<1>5. ASSUME Spent' = Spent, stops' \in {stops, stops + 1}, CostOK' PROVE
             (IsFiniteSet(Spent) /\ Cardinality(Spent) <= stops /\ CostOK)'
  BY <1>1, <1>3, <1>5
<1>6. CASE Consume
  <2>1. Spent' = Spent /\ stops' = stops
    BY <1>6 DEF Consume, Poll, EmptyPoll, LoopExit, CommitBatch, CommitPartial, vars, Spent
  <2>2. CASE pc' = "down"
    BY <1>5, <2>1, <2>2 DEF CostOK
  <2>3. CASE Poll \/ (CommitBatch /\ pc' # "down")
    <3>1. FreshBatchState(Len(batch')) /\ ctx' = ctx /\ ~ctxDone
      BY <2>3, EmptySeq DEF Poll, CommitBatch
    <3>2. ctx' = "live"
      BY <3>1 DEF TypeOK, ctxDone
    <3> QED
      BY <1>5, <2>1, <3>1, <3>2, CostFresh
  <2>4. CASE EmptyPoll
    <3>1. UNCHANGED <<ctx, batch, dlqOnExit, savedErr, stops, pc, retry, drain, futures>>
      BY <2>4 DEF EmptyPoll, vars
    <3>2. CostOK'
      BY <1>1, <3>1, <2>1 DEF CostOK, Owed, Idx, ctxDone
    <3> QED
      BY <1>5, <2>1, <3>2
  <2>5. LoopExit \/ CommitPartial => pc' = "down"
    BY DEF LoopExit, CommitPartial
  <2> QED
    BY <1>6, <2>2, <2>3, <2>4, <2>5 DEF Consume
<1>7. CASE UNCHANGED vars
  <2>1. UNCHANGED <<ctx, batch, dlqOnExit, savedErr, stops, pc, retry, drain, futures>>
        /\ Spent' = Spent
    BY <1>7 DEF vars, Spent
  <2>2. CostOK'
    BY <1>1, <2>1 DEF CostOK, Owed, Idx, ctxDone
  <2> QED
    BY <1>5, <2>1, <2>2
<1>8. CASE Cancel
  <2>1. /\ Spent' = Spent /\ stops' = stops + 1 /\ ~ctxDone /\ pc # "down" /\ ctx' = "cancelled"
        /\ UNCHANGED <<pc, batch, dlqOnExit, savedErr, retry, drain, futures>>
    BY <1>8 DEF Cancel, Spent
  <2>2. savedErr = "none"
    BY <1>1, <2>1 DEF CostOK, TypeOK, Causes
  <2>3. Cardinality(Spent') < stops'
    BY <1>1, <1>3, <2>1
  <2>4. CostOK'
    BY <1>1, <2>1, <2>2, <2>3 DEF CostOK, Idx
  <2> QED
    BY <1>5, <2>1, <2>4
<1>9. CASE Crash
  BY <1>5, <1>9 DEF Crash, Spent, CostOK
<1>10. CASE Restart
  <2>1. FreshBatchState(Len(batch')) /\ ctx' = "live" /\ Spent' = Spent /\ stops' = stops
    BY <1>10, EmptySeq DEF Restart, Spent
  <2> QED
    BY <1>5, <2>1, CostFresh
<1>11. CASE Stream
  <2>1. PICK i \in Idx : StreamAck(i) \/ StreamFull(i)
    BY <1>2, <1>11 DEF Stream, StreamError
  <2>2. /\ UNCHANGED <<ctx, batch, dlqOnExit, savedErr, stops, pc, retry, drain>>
        /\ Spent' = Spent /\ pc # "down"
        /\ futures' \in {[futures EXCEPT ![i] = "ok"], [futures EXCEPT ![i] = "full"]}
    BY <2>1 DEF StreamAck, StreamFull, streamFrame, Spent
  <2>3. \A j \in Idx : futures'[j] # "err"
    BY <1>1, <2>2 DEF CostOK, TypeOK
  <2>4. /\ drain' \subseteq dlqOnExit
        /\ savedErr # "none" => pc' # "backoff" /\ (pc' = "carry" => retry' = {})
    BY <1>1, <2>2 DEF CostOK
  <2>5. CostOK'
    BY <1>1, <2>2, <2>3, <2>4, CostAlone
  <2> QED
    BY <1>5, <2>2, <2>5
<1>12. CASE Process
  <2>0. pc # "down"
    BY <1>12, ProcessFrame
  <2>1. CASE \/ CarryPassDone \/ CursorDone \/ BackoffElapsed \/ PublishAccepted
             \/ PublishThrottled \/ DrainDone \/ PrepareToDLQ
             \/ \E i \in Idx : RepublishAccepted(i) \/ RepublishThrottled(i)
    <3>1. UNCHANGED <<ctx, batch, dlqOnExit, savedErr, stops, drain>>
      BY <2>1 DEF CarryPassDone, CursorDone, BackoffElapsed, PublishAccepted, PublishThrottled,
                  DrainDone, PrepareToDLQ, RepublishAccepted, RepublishThrottled
    <3>2. Spent' = Spent
      <4>1. CASE PrepareToDLQ
        <5>1. next \in Idx /\ Kind[batch[next]] = "invalid" /\ dlq' = dlq \cup {batch[next]}
          BY <4>1, LenProperties DEF PrepareToDLQ, AtCursor, next, TypeOK, Idx
        <5> QED
          BY <1>4, <5>1, SpentSame
      <4>2. CASE ~PrepareToDLQ
        <5>1. dlq' = dlq
          BY <2>1, <4>2 DEF CarryPassDone, CursorDone, BackoffElapsed, PublishAccepted,
                  PublishThrottled, DrainDone, RepublishAccepted, RepublishThrottled
        <5> QED
          BY <5>1 DEF Spent
      <4> QED
        BY <4>1, <4>2
    <3>3. \A j \in Idx : futures'[j] # "err"
      <4>1. \/ UNCHANGED futures
            \/ \E i : futures' = [futures EXCEPT ![i] = "pending"]
        BY <2>1 DEF CarryPassDone, CursorDone, BackoffElapsed, PublishAccepted,
                  PublishThrottled, DrainDone, PrepareToDLQ, RepublishAccepted, RepublishThrottled
      <4> QED
        BY <1>1, <2>0, <4>1 DEF CostOK, TypeOK
    <3>4. savedErr # "none" => pc' # "backoff" /\ (pc' = "carry" => retry' = {})
      <4>1. CASE BackoffElapsed
        BY <1>1, <4>1 DEF BackoffElapsed, CostOK
      <4> QED
        BY <1>1, <2>0, <2>1, <4>1
           DEF CostOK, CarryPassDone, CursorDone, PublishAccepted, PublishThrottled, DrainDone,
               PrepareToDLQ, RepublishAccepted, RepublishThrottled, AtCursor
    <3>5. drain' \subseteq dlqOnExit
      BY <1>1, <2>0, <3>1 DEF CostOK
    <3>6. CostOK'
      BY <1>1, <2>0, <3>1, <3>2, <3>3, <3>4, <3>5, CostAlone
    <3> QED
      BY <1>5, <3>1, <3>2, <3>6
  <2>2. CASE PrepareError \/ PublishError \/ \E i \in Idx : RepublishError(i)
    <3>1. savedErr = "none"
      BY <1>1, <2>0, <2>2 DEF PrepareError, PublishError, RepublishError, AtCursor, CostOK
    <3>2. next \in Idx \/ ~(PrepareError \/ PublishError)
      BY LenProperties DEF PrepareError, PublishError, AtCursor, next, TypeOK, Idx
    <3>3. CallError
      BY <1>1, <1>4, <2>2, <3>2
         DEF PrepareError, PublishError, RepublishError, CleanRun
    <3>4. Spent' = Spent
      <4>1. CASE PrepareError
        <5>1. Kind[batch[next]] = "invalid" /\ MaybeStored(batch[next])
          BY <1>1, <1>4, <3>2, <4>1 DEF PrepareError, CleanRun
        <5> QED
          BY <1>4, <3>2, <4>1, <5>1, SpentSame DEF MaybeStored
      <4>2. CASE PublishError \/ \E i \in Idx : RepublishError(i)
        BY <4>2 DEF PublishError, RepublishError, Spent
      <4> QED
        BY <2>2, <4>1, <4>2
    <3>5. /\ UNCHANGED <<ctx, stops, batch, futures, drain>>
          /\ pc' # "backoff" /\ (pc' = "carry" => retry' = {})
          /\ \/ dlqOnExit' = dlqOnExit
             \/ \E i \in Idx : dlqOnExit' = dlqOnExit \cup {i}
      BY <2>2, <3>2 DEF PrepareError, PublishError, RepublishError
    <3>6. CostOK'
      BY <1>1, <1>2, <2>0, <3>1, <3>3, <3>4, <3>5, FirstError
    <3> QED
      BY <1>5, <3>4, <3>5, <3>6
  <2>3. CASE ClassifyFutures
    <3>1. {i \in Idx : futures[i] = "err"} = {}
      BY <1>1, <2>0 DEF CostOK
    <3>2. /\ UNCHANGED <<ctx, batch, dlqOnExit, stops, retry>> /\ Spent' = Spent
          /\ futures' = [i \in Idx |-> "none"]
      BY <2>3, <3>1 DEF ClassifyFutures, Spent
    <3>3. \A i \in Idx : futures'[i] # "err"
      BY <3>2
    <3>4. CASE pc' = "drain"
      <4>1. savedErr' = "ctx" /\ drain' \subseteq dlqOnExit /\ ctxDone
        BY <1>1, <2>0, <2>3, <3>1, <3>4 DEF ClassifyFutures, BeginCleanup, CostOK, TypeOK, Causes
      <4>2. CostOK'
        BY <1>1, <2>0, <3>2, <3>3, <3>4, <4>1, CostCleanup
      <4> QED
        BY <1>5, <3>2, <4>2
    <3>5. CASE pc' # "drain"
      <4>1. UNCHANGED <<savedErr, drain>> /\ pc' # "carry" /\ savedErr = "none"
        BY <2>3, <3>1, <3>5 DEF ClassifyFutures, BeginCleanup
      <4>2. drain' \subseteq dlqOnExit
        BY <1>1, <2>0, <4>1 DEF CostOK
      <4>3. CostOK'
        BY <1>1, <2>0, <3>2, <3>3, <4>1, <4>2, CostAlone
      <4> QED
        BY <1>5, <3>2, <4>3
    <3> QED
      BY <3>4, <3>5
  <2>4. CASE BackoffCancelled
    <3>1. /\ UNCHANGED <<ctx, batch, dlqOnExit, stops, futures>> /\ Spent' = Spent
          /\ ctxDone /\ savedErr' = "ctx" /\ pc' = "drain" /\ drain' \subseteq dlqOnExit
      BY <2>4 DEF BackoffCancelled, BeginCleanup, Spent
    <3>2. \A i \in Idx : futures'[i] # "err"
      BY <1>1, <2>0, <3>1 DEF CostOK
    <3>3. CostOK'
      BY <1>1, <2>0, <3>1, <3>2, CostCleanup
    <3> QED
      BY <1>5, <3>1, <3>3
  <2>5. ASSUME NEW i \in Idx, DrainPush(i)
        PROVE  (IsFiniteSet(Spent) /\ Cardinality(Spent) <= stops /\ CostOK)'
    <3>1. /\ UNCHANGED <<ctx, batch, dlqOnExit, savedErr, stops, pc, retry, futures>>
          /\ i \in drain /\ drain' = drain \ {i} /\ dlq' = dlq \cup {batch[i]}
          /\ pc = "drain"
      BY <2>5 DEF DrainPush
    <3>2. i \in dlqOnExit /\ savedErr = "ctx" /\ ctxDone
      BY <1>1, <2>0, <3>1 DEF CostOK, TypeOK, Causes
    <3>3. Owed' = Owed /\ batch[i] \in Owed
      BY <3>1, <3>2 DEF Owed
    <3>4. Spent' \subseteq Spent \cup {batch[i]} /\ Spent \subseteq Spent'
      BY <3>1 DEF Spent
    <3>5. Spent' \cup Owed' = Spent \cup Owed
      BY <3>3, <3>4
    <3>6. IsFiniteSet(Spent')
      BY <1>1, <3>4, FS_AddElement, FS_Subset
    <3>7. IsFiniteSet(Spent \cup Owed)
      BY <1>1, <2>0, <3>2 DEF CostOK
    <3>8. Cardinality(Spent') <= stops'
      <4>1. IsFiniteSet(Spent \cup Owed) /\ Spent' \subseteq Spent \cup Owed
        BY <3>5, <3>7
      <4>2. Cardinality(Spent') <= Cardinality(Spent \cup Owed)
        BY <4>1, FS_Subset
      <4>3. Cardinality(Spent \cup Owed) <= stops
        BY <1>1, <2>0, <3>2 DEF CostOK
      <4> QED
        BY <1>3, <3>1, <3>6, <4>1, <4>2, <4>3, FS_CardinalityType
    <3>9. CostOK'
      BY <1>1, <2>0, <3>1, <3>2, <3>5 DEF CostOK, Idx, ctxDone
    <3> QED
      BY <3>6, <3>8, <3>9
  <2>6. \A i \in Idx : ~DrainError(i)
    BY <1>1, <1>2, <2>0 DEF DrainError, DrainCtxDone, CostOK
  <2> QED
    BY <1>12, <2>1, <2>2, <2>3, <2>4, <2>5, <2>6 DEF Process
<1> QED
  BY <1>6, <1>7, <1>8, <1>9, <1>10, <1>11, <1>12 DEF Next

\* Whatever the batch held when the context was cancelled, and however often it
\* is cancelled: a cancellation moves one valid record to the DLQ at most.
THEOREM CancellationIsCheap == Spec => []CancelCostsOneRecord
<1>1. Init => CostInv
  <2> SUFFICES ASSUME Init
               PROVE  CostInv
    OBVIOUS
  <2>1. Spent = {} /\ stops = 0 /\ savedErr = "none" /\ dlqOnExit = {} /\ drain = {}
        /\ ctx = "live" /\ Idx = {}
    BY EmptySeq DEF Init, Spent, Idx
  <2> QED
    BY <2>1, FS_EmptySet DEF CostInv, CostOK, ctxDone
<1>2. CostInv => CancelCostsOneRecord
  BY DEF CostInv, CleanRun, CancelCostsOneRecord, Spent
<1> QED
  BY <1>1, <1>2, CostNext, TypeCorrect, PTL DEF Spec

=============================================================================
