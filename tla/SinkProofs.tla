----------------------------- MODULE SinkProofs -----------------------------
(***************************************************************************)
(* Proofs about Sink: its type invariant, that an acknowledged message has *)
(* been written, dead-lettered, or met twice in one batch; that a delivery *)
(* writes at most one row, and that without a fault the DLQ gets only what *)
(* cannot be written.                                                      *)
(***************************************************************************)
EXTENDS Sink, SequenceTheorems, FiniteSetTheorems, TLAPS

USE SinkAssumption

LEMMA ElemsType ==
    ASSUME NEW s \in Seq(Delivery)
    PROVE  Elems(s) \in SUBSET Delivery
BY DEF Elems

LEMMA MsType ==
    ASSUME NEW D \in SUBSET Delivery
    PROVE  Ms(D) \in SUBSET Msgs
BY DEF Ms, Delivery

LEMMA PoolSizeType == PoolSize \in Nat \ {0}
BY FS_CardinalityType, FS_EmptySet DEF PoolSize

LEMMA IdleFlushType == IdleFlush \in FlushState
BY DEF IdleFlush, FlushState

LEMMA ToDLQType ==
    ASSUME NEW g \in FlushState
    PROVE  ToDLQ(g) \in FlushState
BY ElemsType DEF ToDLQ, FlushState

LEMMA DivType ==
    ASSUME NEW a \in Nat, NEW b \in Nat \ {0}
    PROVE  a \div b \in Nat
OBVIOUS

LEMMA SeqOf ==
    ASSUME NEW S, NEW n \in Nat, NEW s \in [1 .. n -> S]
    PROVE  s \in Seq(S)
BY SeqDef

LEMMA NoWorkType == NoWork \in Result
<1>1. <<>> \in Seq(Item)
  OBVIOUS
<1>2. QED
  BY <1>1 DEF NoWork, Result

LEMMA EmptyResults ==
    ASSUME NEW n \in Nat
    PROVE  [j \in 1 .. n |-> <<>>] \in Seq(Seq(Item))
<1>1. \A j \in 1 .. n : <<>> \in Seq(Item)
  OBVIOUS
<1>2. [j \in 1 .. n |-> <<>>] \in [1 .. n -> Seq(Item)]
  BY <1>1
<1>3. QED
  BY <1>2, SeqDef

\* The head of a result list and what is left of it.
LEMMA VisitingType ==
    ASSUME TypeOK, NEW f \in Flushers, NEW j, Visiting(f, j)
    PROVE  /\ j \in DOMAIN fl[f].res
           /\ Head(fl[f].res[j]) \in Item
           /\ Rest(f, j) \in Seq(Seq(Item))
<1>1. fl[f].res \in Seq(Seq(Item)) /\ j \in 1 .. Len(fl[f].res)
  BY DEF TypeOK, FlushState, Visiting
<1>2. fl[f].res[j] \in Seq(Item) /\ fl[f].res[j] # <<>>
  BY <1>1 DEF Visiting
<1>3. Head(fl[f].res[j]) \in Item /\ Tail(fl[f].res[j]) \in Seq(Item)
  BY <1>2
<1>4. Rest(f, j) \in Seq(Seq(Item))
  BY <1>1, <1>3, ExceptSeq DEF Rest
<1>5. QED
  BY <1>1, <1>3, <1>4

\* A step of one flush keeps the fate of messages, provided that what it newly
\* acks and what it is about to ack has one.
LEMMA FlushStep ==
    ASSUME FateInv, NEW f \in Flushers, NEW g \in FlushState,
           fl' = [fl EXCEPT ![f] = g],
           dlq \subseteq dlq', alreadyExists \subseteq alreadyExists',
           \A m \in Msgs : rows[m] > 0 => rows'[m] > 0,
           \A m \in acked' : m \notin acked =>
               rows'[m] > 0 \/ m \in dlq' \/ m \in alreadyExists',
           \A d \in g.failed : d[1] \in dlq' \cup alreadyExists',
           g.pc = "ack" => \A d \in g.now : rows'[d[1]] > 0
    PROVE  fl' \in [Flushers -> FlushState] /\ AckedHasFate' /\ AckPending'
<1>1. fl \in [Flushers -> FlushState] /\ acked \in SUBSET Msgs
  BY DEF FateInv, TypeOK
<1>2. AckedHasFate'
  BY <1>1 DEF FateInv, AckedHasFate, Handed
<1>3. ASSUME NEW h \in Flushers
      PROVE  /\ \A d \in fl'[h].failed : d[1] \in dlq' \cup alreadyExists'
             /\ fl'[h].pc = "ack" => \A d \in fl'[h].now : rows'[d[1]] > 0
  <2>1. CASE h = f
    BY <2>1, <1>1
  <2>2. CASE h # f
    <3>1. fl'[h] = fl[h] /\ fl[h] \in FlushState
      BY <2>2, <1>1
    <3>2. \A d \in fl[h].now : d[1] \in Msgs
      BY <3>1 DEF FlushState, Delivery
    <3>3. QED
      BY <3>1, <3>2 DEF FateInv, AckPending
  <2>3. QED
    BY <2>1, <2>2
<1>4. QED
  BY <1>1, <1>2, <1>3 DEF AckPending

\* The same for a step that leaves the flushes alone.
LEMMA OtherStep ==
    ASSUME FateInv, UNCHANGED <<fl, acked, rows, dlq, alreadyExists>>
    PROVE  AckedHasFate' /\ AckPending'
BY DEF FateInv, AckedHasFate, AckPending, Handed

LEMMA FailFlushStep ==
    ASSUME FateInv, NEW f \in Flushers, NEW c \in {"retryable", "other"}, FailFlush(f, c),
           dlq \subseteq dlq', UNCHANGED <<acked, rows, alreadyExists>>
    PROVE  /\ fl' \in [Flushers -> FlushState] /\ AckedHasFate' /\ AckPending'
           /\ settled' \in SUBSET Delivery
<1>1. fl[f] \in FlushState /\ settled \in SUBSET Delivery
  BY DEF FateInv, TypeOK
<1>2. Elems(fl[f].own) \in SUBSET Delivery
  BY <1>1, ElemsType DEF FlushState
<1>3. settled' \in SUBSET Delivery
  BY <1>1, <1>2 DEF FailFlush
<1>4. PICK g \in {IdleFlush, ToDLQ(fl[f])} : fl' = [fl EXCEPT ![f] = g]
  BY DEF FailFlush
<1>5. g \in FlushState
  BY <1>1, IdleFlushType, ToDLQType
<1>6. IdleFlush.failed = {} /\ IdleFlush.pc = "idle"
  BY DEF IdleFlush
<1>7. ToDLQ(fl[f]).failed = fl[f].failed /\ ToDLQ(fl[f]).pc = "dlqAll"
  BY <1>1 DEF ToDLQ, FlushState
<1>8. \A d \in fl[f].failed : d[1] \in dlq' \cup alreadyExists'
  BY DEF FateInv, AckPending
<1>9. QED
  BY <1>3, <1>4, <1>5, <1>6, <1>7, <1>8, FlushStep

LEMMA FaultType ==
    ASSUME TypeOK, Fault \/ UNCHANGED faults
    PROVE  faults' \in 0 .. MaxFaults
BY DEF TypeOK, Fault

-----------------------------------------------------------------------------
LEMMA FateInit == Init => FateInv
<1> SUFFICES ASSUME Init PROVE FateInv
  OBVIOUS
<1>1. TypeOK
  BY IdleFlushType, PoolSizeType, EmptySeq DEF Init, TypeOK, NoWork, Result, Msgs, Item
<1>2. QED
  BY <1>1 DEF Init, FateInv, AckedHasFate, AckPending, IdleFlush

LEMMA HandleMessageStep ==
    ASSUME FateInv, NEW m \in Msgs, HandleMessage(m)
    PROVE  FateInv'
<1> USE DEF FateInv
<1>1. fl["handler"] \in FlushState /\ "handler" \in Flushers
  BY DEF TypeOK, Flushers
<1>2. dcount' \in [Msgs -> 0 .. MaxDeliver] /\ buffer' \in Seq(Delivery)
  BY DEF HandleMessage, Deliverable, TypeOK, Delivery
<1>3. PICK g \in {fl["handler"], [fl["handler"] EXCEPT !.pc = "flush"]} :
          fl' = [fl EXCEPT !["handler"] = g]
  BY <1>1 DEF HandleMessage, TypeOK
<1>4. g \in FlushState
  BY <1>1 DEF FlushState
<1>5. /\ \A d \in g.failed : d[1] \in dlq' \cup alreadyExists'
      /\ g.pc = "ack" => \A d \in g.now : rows'[d[1]] > 0
  BY <1>1 DEF HandleMessage, AckPending, FlushState
<1>6. fl' \in [Flushers -> FlushState] /\ AckedHasFate' /\ AckPending'
  BY <1>1, <1>3, <1>4, <1>5, FlushStep DEF HandleMessage
<1>7. QED
  BY <1>2, <1>6 DEF HandleMessage, TypeOK, pool, bounds

LEMMA TickStep ==
    ASSUME FateInv, Tick
    PROVE  FateInv'
<1> USE DEF FateInv
<1> DEFINE g == [fl["ticker"] EXCEPT !.pc = "flush"]
<1>1. fl["ticker"] \in FlushState /\ "ticker" \in Flushers
  BY DEF TypeOK, Flushers
<1>2. g \in FlushState /\ g.pc = "flush" /\ g.failed = fl["ticker"].failed
  BY <1>1 DEF FlushState
<1>3. fl' \in [Flushers -> FlushState] /\ AckedHasFate' /\ AckPending'
  <2>1. fl' = [fl EXCEPT !["ticker"] = g]
    BY DEF Tick
  <2>2. UNCHANGED <<acked, rows, dlq, alreadyExists>>
    BY DEF Tick, service
  <2>3. \A d \in g.failed : d[1] \in dlq' \cup alreadyExists'
    BY <1>1, <1>2, <2>2 DEF AckPending
  <2>4. QED
    BY <1>1, <1>2, <2>1, <2>2, <2>3, FlushStep
<1>4. QED
  BY <1>3 DEF Tick, TypeOK, service, pool, bounds

LEMMA ExtractBufferStep ==
    ASSUME FateInv, NEW f \in Flushers, ExtractBuffer(f)
    PROVE  FateInv'
<1> USE DEF FateInv
<1> DEFINE h == [IdleFlush EXCEPT !.pc = "submit", !.own = buffer]
<1>1. h \in FlushState /\ h.failed = {} /\ h.pc = "submit"
  BY IdleFlushType DEF FlushState, TypeOK, IdleFlush
<1>2. IdleFlush.failed = {} /\ IdleFlush.pc = "idle"
  BY DEF IdleFlush
<1>3. PICK g \in {IdleFlush, h} : fl' = [fl EXCEPT ![f] = g]
  BY DEF ExtractBuffer
<1>4. fl' \in [Flushers -> FlushState] /\ AckedHasFate' /\ AckPending'
  <2>1. UNCHANGED <<acked, rows, dlq, alreadyExists>>
    BY DEF ExtractBuffer, service
  <2>2. g \in FlushState /\ g.failed = {} /\ g.pc # "ack"
    BY <1>1, <1>2, IdleFlushType
  <2>3. QED
    BY <1>3, <2>1, <2>2, FlushStep
<1>5. buffer' \in Seq(Delivery)
  BY DEF ExtractBuffer
<1>6. QED
  BY <1>4, <1>5 DEF ExtractBuffer, TypeOK, service, pool, bounds

LEMMA DLQPushStep ==
    ASSUME FateInv, NEW f \in Flushers, NEW e \in fl[f].now, DLQPush(f, e)
    PROVE  FateInv'
<1> USE DEF FateInv
<1> DEFINE g == [fl[f] EXCEPT !.now = fl[f].now \ {e}]
<1>1. fl[f] \in FlushState
  BY DEF TypeOK
<1>2. e \in Delivery /\ e[1] \in Msgs
  BY <1>1 DEF FlushState, Delivery
<1>3. g \in FlushState /\ g.pc = fl[f].pc /\ g.failed = fl[f].failed
  BY <1>1 DEF FlushState
<1>4. /\ fl' = [fl EXCEPT ![f] = g]
      /\ dlq' = dlq \cup {e[1]} /\ acked' = acked \cup {e[1]}
      /\ UNCHANGED <<rows, alreadyExists>> /\ g.pc # "ack"
  BY <1>3 DEF DLQPush
<1>5. \A d \in g.failed : d[1] \in dlq' \cup alreadyExists'
  BY <1>3, <1>4 DEF AckPending
<1>6. fl' \in [Flushers -> FlushState] /\ AckedHasFate' /\ AckPending'
  BY <1>3, <1>4, <1>5, FlushStep
<1>7. QED
  BY <1>2, <1>4, <1>6 DEF DLQPush, TypeOK, pool, bounds

LEMMA DLQStopsStep ==
    ASSUME FateInv, NEW f \in Flushers, NEW e \in fl[f].now, DLQStops(f, e)
    PROVE  FateInv'
<1> USE DEF FateInv
<1> DEFINE g == [fl[f] EXCEPT !.now = {}, !.allErr = TRUE]
<1>1. fl[f] \in FlushState
  BY DEF TypeOK
<1>2. e \in Delivery /\ e[1] \in Msgs
  BY <1>1 DEF FlushState, Delivery
<1>3. g \in FlushState /\ g.pc = fl[f].pc /\ g.failed = fl[f].failed
  BY <1>1 DEF FlushState
<1>4. /\ fl' = [fl EXCEPT ![f] = g]
      /\ dlq \subseteq dlq' /\ dlq' \in SUBSET Msgs
      /\ UNCHANGED <<acked, rows, alreadyExists>> /\ g.pc # "ack"
  BY <1>2, <1>3 DEF DLQStops, TypeOK
<1>5. \A d \in g.failed : d[1] \in dlq' \cup alreadyExists'
  BY <1>3, <1>4 DEF AckPending
<1>6. fl' \in [Flushers -> FlushState] /\ AckedHasFate' /\ AckPending'
  BY <1>3, <1>4, <1>5, FlushStep
<1>7. faults' \in 0 .. MaxFaults
  BY FaultType DEF DLQStops
<1>8. QED
  BY <1>4, <1>6, <1>7 DEF DLQStops, TypeOK, pool

LEMMA DLQDoneStep ==
    ASSUME FateInv, NEW f \in Flushers, DLQDone(f)
    PROVE  FateInv'
<1> USE DEF FateInv
<1> DEFINE h == [fl[f] EXCEPT !.pc = "send"]
<1>1. fl[f] \in FlushState
  BY DEF TypeOK
<1>2. h \in FlushState /\ h.pc = "send" /\ h.failed = fl[f].failed
  BY <1>1 DEF FlushState
<1>3. IdleFlush.failed = {} /\ IdleFlush.pc = "idle"
  BY DEF IdleFlush
<1>4. PICK g \in {IdleFlush, h} : fl' = [fl EXCEPT ![f] = g]
  BY DEF DLQDone
<1>5. UNCHANGED <<acked, rows, dlq, alreadyExists>>
  BY DEF DLQDone, service
<1>6. g \in FlushState /\ g.pc # "ack" /\ \A d \in g.failed : d[1] \in dlq' \cup alreadyExists'
  BY <1>2, <1>3, <1>5, IdleFlushType DEF AckPending
<1>7. fl' \in [Flushers -> FlushState] /\ AckedHasFate' /\ AckPending'
  BY <1>4, <1>5, <1>6, FlushStep
<1>8. QED
  BY <1>7 DEF DLQDone, TypeOK, service, pool, bounds

LEMMA SubmitJobStep ==
    ASSUME FateInv, NEW f \in Flushers, SubmitJob(f)
    PROVE  FateInv'
<1> USE DEF FateInv
<1> DEFINE own == fl[f].own
           upto == fl[f].sent + ChunkSize(Len(own))
           last == IF upto > Len(own) THEN Len(own) ELSE upto
           n == fl[f].njobs + 1
           res == IF last = Len(own) THEN [j \in 1 .. n |-> <<>>] ELSE <<>>
           g == [fl[f] EXCEPT !.sent = last, !.njobs = n,
                              !.pc = IF last = Len(own) THEN "collect" ELSE "submit",
                              !.res = res]
<1>1. fl[f] \in FlushState
  BY DEF TypeOK
<1>2. own \in Seq(Delivery) /\ Len(own) \in Nat /\ fl[f].sent \in Nat /\ n \in Nat
  BY <1>1 DEF FlushState
<1>3. ChunkSize(Len(own)) \in Nat
  <2>1. Len(own) \div PoolSize \in Nat
    BY <1>2, PoolSizeType, DivType
  <2>2. QED
    BY <2>1 DEF ChunkSize
<1>4. last \in Nat /\ last <= Len(own)
  BY <1>2, <1>3
<1>5. res \in Seq(Seq(Item))
  <2>1. [j \in 1 .. n |-> <<>>] \in Seq(Seq(Item))
    BY <1>2, EmptyResults
  <2>2. <<>> \in Seq(Seq(Item))
    OBVIOUS
  <2>3. QED
    BY <2>1, <2>2
<1>6. SubSeq(own, fl[f].sent + 1, last) \in Seq(Delivery)
  BY <1>2, <1>4, SubSeqProperties
<1>7. jobs' \in Seq(Job) /\ Len(jobs') <= PoolSize
  BY SMTT(30), <1>6, <1>2, PoolSizeType DEF SubmitJob, TypeOK, Job
<1>8. g \in FlushState /\ g.pc # "ack" /\ g.failed = fl[f].failed
  BY <1>1, <1>2, <1>4, <1>5 DEF FlushState
<1>9. fl' = [fl EXCEPT ![f] = g] /\ UNCHANGED <<acked, rows, dlq, alreadyExists>>
  BY DEF SubmitJob, service
<1>10. \A d \in g.failed : d[1] \in dlq' \cup alreadyExists'
  BY <1>8, <1>9 DEF AckPending
<1>11. fl' \in [Flushers -> FlushState] /\ AckedHasFate' /\ AckPending'
  BY <1>8, <1>9, <1>10, FlushStep
<1>12. QED
  BY <1>7, <1>11 DEF SubmitJob, TypeOK, service, bounds

LEMMA FailingStep ==
    ASSUME FateInv, NEW f \in Flushers, SubmitCancelled(f) \/ CollectTimeout(f)
    PROVE  FateInv'
<1> USE DEF FateInv
<1>1. PICK c \in {"retryable", "other"} : FailFlush(f, c)
  BY DEF SubmitCancelled, CollectTimeout
<1>2. UNCHANGED <<acked, rows, dlq, alreadyExists>>
  BY DEF SubmitCancelled, CollectTimeout, service
<1>3. /\ fl' \in [Flushers -> FlushState] /\ AckedHasFate' /\ AckPending'
      /\ settled' \in SUBSET Delivery
  BY <1>1, <1>2, FailFlushStep
<1>4. faults' \in 0 .. MaxFaults
  BY FaultType DEF SubmitCancelled, CollectTimeout, bounds
<1>5. QED
  BY <1>3, <1>4 DEF SubmitCancelled, CollectTimeout, TypeOK, service, pool, bounds

LEMMA WorkerTakeStep ==
    ASSUME FateInv, NEW w \in Workers, WorkerTake(w)
    PROVE  FateInv'
<1> USE DEF FateInv
<1> DEFINE job == Head(jobs)
           items(ok) == [i \in 1 .. Len(job.msgs) |->
                           [d |-> job.msgs[i], ok |-> ok /\ Kind[job.msgs[i][1]] # "unmappable"]]
<1>1. job \in Job /\ Tail(jobs) \in Seq(Job) /\ Len(Tail(jobs)) <= PoolSize
  <2>1. jobs \in Seq(Job) /\ jobs # <<>> /\ Len(jobs) <= PoolSize
    BY DEF WorkerTake, TypeOK
  <2>2. Len(jobs) \in Nat /\ Len(Tail(jobs)) = Len(jobs) - 1
    BY <2>1
  <2>3. QED
    BY <2>1, <2>2, PoolSizeType
<1>2. job.id \in Nat /\ job.msgs \in Seq(Delivery) /\ Len(job.msgs) \in Nat
  BY <1>1 DEF Job
<1>3. ASSUME NEW ok \in BOOLEAN
      PROVE  [id |-> job.id, items |-> items(ok)] \in Result
  <2>1. \A i \in 1 .. Len(job.msgs) :
           [d |-> job.msgs[i], ok |-> ok /\ Kind[job.msgs[i][1]] # "unmappable"] \in Item
    BY <1>2 DEF Item
  <2>2. items(ok) \in [1 .. Len(job.msgs) -> Item]
    BY <2>1
  <2>3. items(ok) \in Seq(Item)
    BY <2>2, <1>2, SeqOf
  <2>4. QED
    BY <2>3, <1>2 DEF Result
<1>4. \E ok \in BOOLEAN : work' = [work EXCEPT ![w] = [id |-> job.id, items |-> items(ok)]]
  BY DEF WorkerTake
<1>5. work' \in [Workers -> Result]
  BY <1>3, <1>4 DEF TypeOK
<1>6. faults' \in 0 .. MaxFaults
  BY FaultType DEF WorkerTake
<1>7. AckedHasFate' /\ AckPending'
  BY OtherStep DEF WorkerTake, service
<1>8. QED
  BY <1>1, <1>5, <1>6, <1>7 DEF WorkerTake, TypeOK, service

LEMMA WorkerPutStep ==
    ASSUME FateInv, NEW w \in Workers, WorkerPut(w)
    PROVE  FateInv'
<1> USE DEF FateInv
<1>1. work[w] \in Result /\ NoWork \in Result
  BY NoWorkType DEF TypeOK
<1>2. results' \in Seq(Result) /\ Len(results') <= PoolSize
  BY <1>1, PoolSizeType DEF WorkerPut, TypeOK
<1>3. work' \in [Workers -> Result]
  BY <1>1 DEF WorkerPut, TypeOK
<1>4. AckedHasFate' /\ AckPending'
  BY OtherStep DEF WorkerPut, service
<1>5. QED
  BY <1>2, <1>3, <1>4 DEF WorkerPut, TypeOK, service, bounds

LEMMA WorkerExitStep ==
    ASSUME FateInv, NEW w \in Workers, WorkerExit(w)
    PROVE  FateInv'
<1> USE DEF FateInv
<1>1. Exited \in Result
  BY DEF Exited, Result, Item
<1>2. work' \in [Workers -> Result]
  BY <1>1 DEF WorkerExit, TypeOK
<1>3. AckedHasFate' /\ AckPending'
  BY OtherStep DEF WorkerExit, service
<1>4. QED
  BY <1>2, <1>3 DEF WorkerExit, TypeOK, service, bounds

LEMMA CollectStep ==
    ASSUME FateInv, NEW f \in Flushers, Collect(f)
    PROVE  FateInv'
<1> USE DEF FateInv
<1> DEFINE r == Head(results)
           res == [i \in DOMAIN fl[f].res |-> IF i = r.id THEN r.items ELSE fl[f].res[i]]
           g == [fl[f] EXCEPT !.got = fl[f].got + 1, !.res = res,
                   !.pc = IF fl[f].got + 1 = fl[f].njobs THEN "prepare" ELSE "collect"]
<1>1. fl[f] \in FlushState
  BY DEF TypeOK
<1>2. r \in Result /\ Tail(results) \in Seq(Result) /\ Len(Tail(results)) <= PoolSize
  <2>1. results \in Seq(Result) /\ results # <<>> /\ Len(results) <= PoolSize
    BY DEF Collect, TypeOK
  <2>2. Len(results) \in Nat /\ Len(Tail(results)) = Len(results) - 1
    BY <2>1
  <2>3. QED
    BY <2>1, <2>2, PoolSizeType
<1>3. res \in Seq(Seq(Item))
  <2>1. fl[f].res \in Seq(Seq(Item)) /\ Len(fl[f].res) \in Nat
    BY <1>1 DEF FlushState
  <2>2. res \in [1 .. Len(fl[f].res) -> Seq(Item)]
    BY <2>1, <1>2 DEF Result
  <2>3. QED
    BY <2>1, <2>2, SeqOf
<1>4. g \in FlushState /\ g.pc # "ack" /\ g.failed = fl[f].failed
  <2>1. fl[f].got + 1 \in Nat
    BY <1>1 DEF FlushState
  <2>2. PICK p \in {"prepare", "collect"} :
            g = [fl[f] EXCEPT !.got = fl[f].got + 1, !.res = res, !.pc = p]
    OBVIOUS
  <2> HIDE DEF res, g
  <2>3. QED
    BY <1>1, <1>3, <2>1, <2>2 DEF FlushState
<1>5. fl' = [fl EXCEPT ![f] = g] /\ UNCHANGED <<acked, rows, dlq, alreadyExists>>
  BY DEF Collect, service
<1>6. \A d \in g.failed : d[1] \in dlq' \cup alreadyExists'
  BY <1>4, <1>5 DEF AckPending
<1>7. fl' \in [Flushers -> FlushState] /\ AckedHasFate' /\ AckPending'
  BY <1>4, <1>5, <1>6, FlushStep
<1>8. QED
  BY <1>2, <1>7 DEF Collect, TypeOK, service, bounds

-----------------------------------------------------------------------------
LEMMA SkipToDLQStep ==
    ASSUME FateInv, NEW f \in Flushers, NEW j, SkipToDLQ(f, j)
    PROVE  FateInv'
<1> USE DEF FateInv
<1> DEFINE it == Head(fl[f].res[j])
           more == IF it.ok THEN {Schema[it.d[1]]} ELSE {}
           g == [fl[f] EXCEPT !.res = Rest(f, j), !.failed = fl[f].failed \cup {it.d},
                              !.made = fl[f].made \cup more]
<1>1. fl[f] \in FlushState
  BY DEF TypeOK
<1>2. it \in Item /\ Rest(f, j) \in Seq(Seq(Item)) /\ fl[f].pc = "prepare"
  BY VisitingType DEF SkipToDLQ, Visiting
<1>3. it.d \in Delivery /\ it.d[1] \in Msgs /\ more \in SUBSET Schemas
  BY <1>2 DEF Item, Delivery
<1>4. g \in FlushState /\ g.pc # "ack" /\ g.failed = fl[f].failed \cup {it.d}
  BY <1>1, <1>2, <1>3 DEF FlushState
<1>5. /\ fl' = [fl EXCEPT ![f] = g] /\ dlq' = dlq \cup {it.d[1]}
      /\ UNCHANGED <<acked, rows, alreadyExists>>
  BY DEF SkipToDLQ
<1>6. \A d \in g.failed : d[1] \in dlq' \cup alreadyExists'
  BY <1>4, <1>5 DEF AckPending
<1>7. fl' \in [Flushers -> FlushState] /\ AckedHasFate' /\ AckPending'
  BY <1>4, <1>5, <1>6, FlushStep
<1>8. QED
  BY <1>3, <1>5, <1>7 DEF SkipToDLQ, TypeOK, pool, bounds

LEMMA SkipFailsStep ==
    ASSUME FateInv, NEW f \in Flushers, NEW j, SkipFails(f, j)
    PROVE  FateInv'
<1> USE DEF FateInv
<1> DEFINE it == Head(fl[f].res[j])
<1>1. it \in Item
  BY VisitingType DEF SkipFails
<1>2. it.d[1] \in Msgs
  BY <1>1 DEF Item, Delivery
<1>3. dlq \subseteq dlq' /\ dlq' \in SUBSET Msgs
  BY <1>2 DEF SkipFails, TypeOK
<1>4. PICK c \in {"retryable", "other"} : FailFlush(f, c)
  BY DEF SkipFails, CallFails
<1>5. UNCHANGED <<acked, rows, alreadyExists>>
  BY DEF SkipFails
<1>6. /\ fl' \in [Flushers -> FlushState] /\ AckedHasFate' /\ AckPending'
      /\ settled' \in SUBSET Delivery
  BY <1>3, <1>4, <1>5, FailFlushStep
<1>7. faults' \in 0 .. MaxFaults
  BY FaultType DEF SkipFails, CallFails
<1>8. QED
  BY <1>3, <1>6, <1>7 DEF SkipFails, TypeOK, pool

LEMMA AppendRowStep ==
    ASSUME FateInv, NEW f \in Flushers, NEW j, AppendRow(f, j)
    PROVE  FateInv'
<1> USE DEF FateInv
<1> DEFINE it == Head(fl[f].res[j])
           v == Schema[it.d[1]]
           b == [fl[f].batches EXCEPT ![v] = fl[f].batches[v] \cup {it.d}]
           g == [fl[f] EXCEPT !.res = Rest(f, j), !.made = fl[f].made \cup {v},
                              !.batches = b]
<1>1. fl[f] \in FlushState
  BY DEF TypeOK
<1>2. it \in Item /\ Rest(f, j) \in Seq(Seq(Item)) /\ fl[f].pc = "prepare"
  BY VisitingType DEF AppendRow, Visiting
<1>3. it.d \in Delivery /\ v \in Schemas
  BY <1>2 DEF Item, Delivery
<1>4. b \in [Schemas -> SUBSET Delivery]
  BY <1>1, <1>3 DEF FlushState
<1>5. g \in FlushState /\ g.pc # "ack" /\ g.failed = fl[f].failed
  BY <1>1, <1>2, <1>3, <1>4 DEF FlushState
<1>6. fl' = [fl EXCEPT ![f] = g] /\ UNCHANGED <<acked, rows, dlq, alreadyExists>>
  BY DEF AppendRow, service
<1>7. \A d \in g.failed : d[1] \in dlq' \cup alreadyExists'
  BY <1>5, <1>6 DEF AckPending
<1>8. fl' \in [Flushers -> FlushState] /\ AckedHasFate' /\ AckPending'
  BY <1>5, <1>6, <1>7, FlushStep
<1>9. QED
  BY <1>8 DEF AppendRow, TypeOK, service, pool, bounds

LEMMA AppendAlreadyExistsStep ==
    ASSUME FateInv, NEW f \in Flushers, NEW j, AppendAlreadyExists(f, j)
    PROVE  FateInv'
<1> USE DEF FateInv
<1> DEFINE it == Head(fl[f].res[j])
           g == [fl[f] EXCEPT !.res = Rest(f, j), !.failed = fl[f].failed \cup {it.d}]
<1>1. fl[f] \in FlushState
  BY DEF TypeOK
<1>2. it \in Item /\ Rest(f, j) \in Seq(Seq(Item)) /\ fl[f].pc = "prepare"
  BY VisitingType DEF AppendAlreadyExists, Visiting
<1>3. it.d \in Delivery /\ it.d[1] \in Msgs
  BY <1>2 DEF Item, Delivery
<1>4. g \in FlushState /\ g.pc # "ack" /\ g.failed = fl[f].failed \cup {it.d}
  BY <1>1, <1>2, <1>3 DEF FlushState
<1>5. /\ fl' = [fl EXCEPT ![f] = g] /\ alreadyExists' = alreadyExists \cup {it.d[1]}
      /\ UNCHANGED <<acked, rows, dlq>>
  BY DEF AppendAlreadyExists, service
<1>6. \A d \in g.failed : d[1] \in dlq' \cup alreadyExists'
  BY <1>4, <1>5 DEF AckPending
<1>7. fl' \in [Flushers -> FlushState] /\ AckedHasFate' /\ AckPending'
  BY <1>4, <1>5, <1>6, FlushStep
<1>8. QED
  BY <1>3, <1>5, <1>7 DEF AppendAlreadyExists, TypeOK, service, pool, bounds

\* What ackMessages acks on a set of deliveries that have a fate.
LEMMA AckType ==
    ASSUME TypeOK, NEW D \in SUBSET Delivery, AckAll(D) \/ AckStopped(D)
    PROVE  /\ acked' \in SUBSET Msgs /\ settled' \in SUBSET Delivery
           /\ faults' \in 0 .. MaxFaults
           /\ \A m \in acked' : m \notin acked => \E d \in D : m = d[1]
<1>1. CASE AckAll(D)
  BY <1>1, MsType, FaultType DEF AckAll, TypeOK, Ms
<1>2. CASE AckStopped(D)
  <2>1. PICK S \in SUBSET D : /\ acked' = acked \cup Ms(S) /\ settled' = settled \cup S
                              /\ Fault \/ UNCHANGED faults
    BY <1>2 DEF AckStopped
  <2>2. Ms(S) \in SUBSET Msgs /\ \A m \in Ms(S) : \E d \in D : m = d[1]
    BY <2>1, MsType DEF Ms
  <2>3. QED
    BY <2>1, <2>2, FaultType DEF TypeOK
<1>3. QED
  BY <1>1, <1>2

LEMMA AckFailedMessagesStep ==
    ASSUME FateInv, NEW f \in Flushers, AckFailedMessages(f)
    PROVE  FateInv'
<1> USE DEF FateInv
<1> DEFINE h == [fl[f] EXCEPT !.pc = "send"]
<1>1. fl[f] \in FlushState /\ fl[f].failed \in SUBSET Delivery
  BY DEF TypeOK, FlushState
<1>2. h \in FlushState /\ h.pc = "send" /\ h.failed = fl[f].failed
  BY <1>1 DEF FlushState
<1>3. /\ ToDLQ(fl[f]) \in FlushState
      /\ ToDLQ(fl[f]).failed = fl[f].failed /\ ToDLQ(fl[f]).pc = "dlqAll"
  BY <1>1, ToDLQType DEF ToDLQ, FlushState
<1>4. PICK g \in {h, ToDLQ(fl[f])} : fl' = [fl EXCEPT ![f] = g]
  BY DEF AckFailedMessages
<1>5. UNCHANGED <<rows, dlq, alreadyExists>>
  BY DEF AckFailedMessages
<1>6. /\ acked' \in SUBSET Msgs /\ settled' \in SUBSET Delivery
      /\ faults' \in 0 .. MaxFaults
      /\ \A m \in acked' : m \notin acked => \E d \in fl[f].failed : m = d[1]
  BY <1>1, AckType DEF AckFailedMessages
<1>7. \A d \in fl[f].failed : d[1] \in dlq' \cup alreadyExists'
  BY <1>5 DEF AckPending
<1>8. g \in FlushState /\ g.pc # "ack" /\ g.failed = fl[f].failed
  BY <1>2, <1>3, <1>4
<1>9. fl' \in [Flushers -> FlushState] /\ AckedHasFate' /\ AckPending'
  <2>1. \A m \in acked' : m \notin acked =>
               rows'[m] > 0 \/ m \in dlq' \/ m \in alreadyExists'
    BY <1>6, <1>7
  <2>2. QED
    BY <1>4, <1>5, <1>7, <1>8, <2>1, FlushStep
<1>10. QED
  BY <1>6, <1>9 DEF AckFailedMessages, TypeOK, pool

-----------------------------------------------------------------------------
\* An insert never removes rows.
LEMMA WrittenType ==
    ASSUME TypeOK, NEW D \in SUBSET Delivery
    PROVE  /\ Written(D) \in [Msgs -> Nat]
           /\ \A m \in Msgs : rows[m] > 0 => Written(D)[m] > 0
           /\ \A d \in D : Written(D)[d[1]] > 0
<1>1. rows \in [Msgs -> Nat] /\ \A m \in Msgs : rows[m] \in Nat
  BY DEF TypeOK
<1>2. \A d \in D : d[1] \in Ms(D) /\ d[1] \in Msgs
  BY DEF Ms, Delivery
<1>3. QED
  BY <1>1, <1>2 DEF Written

LEMMA SendOkStep ==
    ASSUME FateInv, NEW f \in Flushers, NEW v \in Schemas, SendOk(f, v)
    PROVE  FateInv'
<1> USE DEF FateInv
<1> DEFINE D == fl[f].batches[v]
           b == [fl[f].batches EXCEPT ![v] = {}]
           g == [fl[f] EXCEPT !.pc = "ack", !.now = D, !.batches = b]
<1>1. fl[f] \in FlushState
  BY DEF TypeOK
<1>2. D \in SUBSET Delivery /\ b \in [Schemas -> SUBSET Delivery]
  BY <1>1 DEF FlushState
<1>3. g \in FlushState /\ g.now = D /\ g.failed = fl[f].failed
  BY <1>1, <1>2 DEF FlushState
<1>4. /\ fl' = [fl EXCEPT ![f] = g] /\ rows' = Written(D)
      /\ UNCHANGED <<acked, dlq, alreadyExists>>
  BY DEF SendOk
<1>5. /\ rows' \in [Msgs -> Nat] /\ \A m \in Msgs : rows[m] > 0 => rows'[m] > 0
      /\ \A d \in D : rows'[d[1]] > 0
  BY <1>2, <1>4, WrittenType
<1>6. \A d \in g.failed : d[1] \in dlq' \cup alreadyExists'
  BY <1>3, <1>4 DEF AckPending
<1>7. fl' \in [Flushers -> FlushState] /\ AckedHasFate' /\ AckPending'
  BY <1>3, <1>4, <1>5, <1>6, FlushStep
<1>8. QED
  BY <1>5, <1>7 DEF SendOk, TypeOK, pool, bounds

LEMMA SendFailedStep ==
    ASSUME FateInv, NEW f \in Flushers, NEW v \in Schemas, SendFailed(f, v)
    PROVE  FateInv'
<1> USE DEF FateInv
<1> DEFINE D == fl[f].batches[v]
           b == [fl[f].batches EXCEPT ![v] = {}]
           g1 == [fl[f] EXCEPT !.batches = b]
           g2 == [fl[f] EXCEPT !.pc = "dlqBatch", !.now = D, !.batches = b]
<1>1. fl[f] \in FlushState /\ fl[f].pc = "send"
  BY DEF TypeOK, SendFailed, Sending
<1>2. D \in SUBSET Delivery /\ b \in [Schemas -> SUBSET Delivery]
  BY <1>1 DEF FlushState
<1>3. /\ g1 \in FlushState /\ g1.pc = "send" /\ g1.failed = fl[f].failed
      /\ g2 \in FlushState /\ g2.pc = "dlqBatch" /\ g2.failed = fl[f].failed
  BY <1>1, <1>2 DEF FlushState
<1>4. fl' = [fl EXCEPT ![f] = g1] \/ fl' = [fl EXCEPT ![f] = g2]
  BY DEF SendFailed
<1>5. /\ settled' \in {settled, settled \cup D}
      /\ rows' \in {rows, Written(D)}
      /\ UNCHANGED <<acked, dlq, alreadyExists>>
  BY DEF SendFailed
<1>6. /\ rows' \in [Msgs -> Nat] /\ \A m \in Msgs : rows[m] > 0 => rows'[m] > 0
  BY <1>2, <1>5, WrittenType DEF TypeOK
<1>7. settled' \in SUBSET Delivery /\ faults' \in 0 .. MaxFaults
  BY <1>2, <1>5, FaultType DEF SendFailed, TypeOK
<1> HIDE DEF g1, g2
<1>8. PICK g \in {g1, g2} : fl' = [fl EXCEPT ![f] = g]
  BY <1>4
<1>9. /\ g \in FlushState /\ g.pc # "ack"
      /\ \A d \in g.failed : d[1] \in dlq' \cup alreadyExists'
  BY <1>3, <1>5, <1>8 DEF AckPending
<1>10. fl' \in [Flushers -> FlushState] /\ AckedHasFate' /\ AckPending'
  BY <1>5, <1>6, <1>8, <1>9, FlushStep
<1>11. QED
  BY <1>6, <1>7, <1>10 DEF SendFailed, TypeOK, pool

LEMMA AckBatchStep ==
    ASSUME FateInv, NEW f \in Flushers, AckBatch(f)
    PROVE  FateInv'
<1> USE DEF FateInv
<1> DEFINE g1 == [fl[f] EXCEPT !.pc = "send", !.now = {}]
           g2 == [fl[f] EXCEPT !.pc = "send", !.now = {}, !.allErr = TRUE]
<1>1. fl[f] \in FlushState /\ fl[f].now \in SUBSET Delivery /\ fl[f].pc = "ack"
  BY DEF TypeOK, FlushState, AckBatch
<1>2. /\ g1 \in FlushState /\ g1.pc = "send" /\ g1.failed = fl[f].failed
      /\ g2 \in FlushState /\ g2.pc = "send" /\ g2.failed = fl[f].failed
  BY <1>1 DEF FlushState
<1>3. fl' = [fl EXCEPT ![f] = g1] \/ fl' = [fl EXCEPT ![f] = g2]
  BY DEF AckBatch
<1>4. UNCHANGED <<rows, dlq, alreadyExists>>
  BY DEF AckBatch
<1>5. /\ acked' \in SUBSET Msgs /\ settled' \in SUBSET Delivery
      /\ faults' \in 0 .. MaxFaults
      /\ \A m \in acked' : m \notin acked => \E d \in fl[f].now : m = d[1]
  BY <1>1, AckType DEF AckBatch
<1>6. \A m \in acked' : m \notin acked => rows'[m] > 0
  BY <1>1, <1>4, <1>5 DEF AckPending
<1> HIDE DEF g1, g2
<1>7. PICK g \in {g1, g2} : fl' = [fl EXCEPT ![f] = g]
  BY <1>3
<1>8. /\ g \in FlushState /\ g.pc # "ack"
      /\ \A d \in g.failed : d[1] \in dlq' \cup alreadyExists'
  BY <1>2, <1>4, <1>7 DEF AckPending
<1>9. fl' \in [Flushers -> FlushState] /\ AckedHasFate' /\ AckPending'
  BY <1>4, <1>6, <1>7, <1>8, FlushStep
<1>10. QED
  BY <1>5, <1>9 DEF AckBatch, TypeOK, pool

LEMMA FlushDoneStep ==
    ASSUME FateInv, NEW f \in Flushers, FlushDone(f)
    PROVE  FateInv'
<1> USE DEF FateInv
<1>1. fl[f] \in FlushState
  BY DEF TypeOK
<1>2. /\ ToDLQ(fl[f]) \in FlushState
      /\ ToDLQ(fl[f]).failed = fl[f].failed /\ ToDLQ(fl[f]).pc = "dlqAll"
  BY <1>1, ToDLQType DEF ToDLQ, FlushState
<1>3. IdleFlush.failed = {} /\ IdleFlush.pc = "idle"
  BY DEF IdleFlush
<1>4. PICK g \in {IdleFlush, ToDLQ(fl[f])} : fl' = [fl EXCEPT ![f] = g]
  BY DEF FlushDone
<1>5. UNCHANGED <<acked, rows, dlq, alreadyExists>>
  BY DEF FlushDone, service
<1>6. g \in FlushState /\ g.pc # "ack" /\ \A d \in g.failed : d[1] \in dlq' \cup alreadyExists'
  BY <1>2, <1>3, <1>4, <1>5, IdleFlushType DEF AckPending
<1>7. fl' \in [Flushers -> FlushState] /\ AckedHasFate' /\ AckPending'
  BY <1>4, <1>5, <1>6, FlushStep
<1>8. QED
  BY <1>7 DEF FlushDone, TypeOK, service, pool, bounds

-----------------------------------------------------------------------------
LEMMA ProcessGoneStep ==
    ASSUME FateInv, ProcessGone, UNCHANGED <<acked, rows, dlq, alreadyExists>>
    PROVE  /\ AckedHasFate' /\ AckPending'
           /\ fl' \in [Flushers -> FlushState] /\ buffer' \in Seq(Delivery)
           /\ jobs' \in Seq(Job) /\ Len(jobs') <= PoolSize
           /\ results' \in Seq(Result) /\ Len(results') <= PoolSize
           /\ work' \in [Workers -> Result] /\ settled' \in SUBSET Delivery
<1>1. fl' \in [Flushers -> FlushState] /\ work' \in [Workers -> Result]
  BY IdleFlushType, NoWorkType DEF ProcessGone
<1>2. AckPending'
  BY DEF ProcessGone, AckPending, IdleFlush
<1>3. AckedHasFate'
  BY DEF FateInv, AckedHasFate, Handed
<1>4. QED
  BY <1>1, <1>2, <1>3, PoolSizeType DEF ProcessGone

LEMMA LifecycleStep ==
    ASSUME FateInv, Lifecycle \/ Stop \/ Crash \/ \E f \in Flushers : SubmitPanics(f)
    PROVE  FateInv'
<1> USE DEF FateInv
<1>1. CASE HandleShutdown
  <2> DEFINE g == [fl["shutdown"] EXCEPT !.pc = "flush"]
  <2>1. fl["shutdown"] \in FlushState /\ "shutdown" \in Flushers
    BY DEF TypeOK, Flushers
  <2>2. g \in FlushState /\ g.pc = "flush" /\ g.failed = fl["shutdown"].failed
    BY <2>1 DEF FlushState
  <2>3. fl' = [fl EXCEPT !["shutdown"] = g] /\ UNCHANGED <<acked, rows, dlq, alreadyExists>>
    BY <1>1 DEF HandleShutdown, service
  <2>4. \A d \in g.failed : d[1] \in dlq' \cup alreadyExists'
    BY <2>1, <2>2, <2>3 DEF AckPending
  <2>5. fl' \in [Flushers -> FlushState] /\ AckedHasFate' /\ AckPending'
    BY <2>1, <2>2, <2>3, <2>4, FlushStep
  <2>6. QED
    BY <1>1, <2>5 DEF HandleShutdown, TypeOK, service, pool, bounds
<1>2. CASE StopWorkerPool
  <2>1. AckedHasFate' /\ AckPending'
    BY <1>2, OtherStep DEF StopWorkerPool, service
  <2>2. QED
    BY <1>2, <2>1 DEF StopWorkerPool, TypeOK, service, pool, bounds
<1>3. CASE Start
  <2>1. AckedHasFate' /\ AckPending'
    BY <1>3, OtherStep DEF Start, service
  <2>2. QED
    BY <1>3, <2>1 DEF Start, TypeOK, service, pool, bounds
<1>4. CASE Stop
  <2>1. AckedHasFate' /\ AckPending'
    BY <1>4, OtherStep DEF Stop, service
  <2>2. QED
    BY <1>4, <2>1 DEF Stop, TypeOK, service, pool
<1>5. CASE StartReturns \/ Crash \/ \E f \in Flushers : SubmitPanics(f)
  <2>1. /\ ProcessGone /\ UNCHANGED <<service, ctx, alreadyExists, faults>>
        /\ phase' \in {"down", "panicked"} /\ stops' \in 0 .. MaxStops
    BY <1>5 DEF StartReturns, Crash, SubmitPanics, bounds, TypeOK
  <2>2. UNCHANGED <<acked, rows, dlq, alreadyExists>>
    BY <2>1 DEF service
  <2>3. QED
    BY <2>1, <2>2, ProcessGoneStep DEF TypeOK, service
<1>6. QED
  BY <1>1, <1>2, <1>3, <1>4, <1>5 DEF Lifecycle

-----------------------------------------------------------------------------
LEMMA FlushActionStep ==
    ASSUME FateInv, NEW f \in Flushers, Flush(f)
    PROVE  FateInv'
<1>1. CASE \E j \in DOMAIN fl[f].res : \/ SkipToDLQ(f, j) \/ SkipFails(f, j)
                                      \/ AppendRow(f, j) \/ AppendAlreadyExists(f, j)
  BY <1>1, SkipToDLQStep, SkipFailsStep, AppendRowStep, AppendAlreadyExistsStep
<1>2. CASE \E v \in Schemas : SendOk(f, v) \/ SendFailed(f, v)
  BY <1>2, SendOkStep, SendFailedStep
<1>3. CASE \E e \in fl[f].now : DLQPush(f, e) \/ DLQStops(f, e)
  BY <1>3, DLQPushStep, DLQStopsStep
<1>4. CASE \/ ExtractBuffer(f) \/ SubmitJob(f) \/ SubmitCancelled(f)
           \/ Collect(f) \/ CollectTimeout(f) \/ AckFailedMessages(f)
  BY <1>4, ExtractBufferStep, SubmitJobStep, FailingStep, CollectStep,
     AckFailedMessagesStep
<1>5. CASE AckBatch(f) \/ FlushDone(f) \/ DLQDone(f) \/ SubmitPanics(f)
  BY <1>5, AckBatchStep, FlushDoneStep, DLQDoneStep, LifecycleStep
<1>6. QED
  BY <1>1, <1>2, <1>3, <1>4, <1>5 DEF Flush

LEMMA FateNext == FateInv /\ [Next]_vars => FateInv'
<1> SUFFICES ASSUME FateInv, [Next]_vars PROVE FateInv'
  OBVIOUS
<1>1. CASE \E m \in Msgs : HandleMessage(m)
  BY <1>1, HandleMessageStep
<1>2. CASE Tick
  BY <1>2, TickStep
<1>3. CASE \E f \in Flushers : Flush(f)
  BY <1>3, FlushActionStep
<1>4. CASE \E w \in Workers : Work(w)
  BY <1>4, WorkerTakeStep, WorkerPutStep, WorkerExitStep DEF Work
<1>5. CASE Lifecycle \/ Stop \/ Crash
  BY <1>5, LifecycleStep
<1>6. CASE UNCHANGED vars
  BY <1>6, OtherStep DEF FateInv, TypeOK, vars, service, pool, bounds
<1>7. QED
  BY <1>1, <1>2, <1>3, <1>4, <1>5, <1>6 DEF Next

\* FateInv holds in every reachable state of the sink, for any number of
\* messages, workers, schema versions, faults and shutdowns.
THEOREM FateInvariant == Spec => []FateInv
<1>1. QED
  BY FateInit, FateNext, PTL DEF Spec

\* Type correctness; in particular the job and the result channel never hold
\* more than the pool size.
THEOREM TypeCorrect == Spec => []TypeOK
<1>1. FateInv => TypeOK
  BY DEF FateInv
<1>2. QED
  BY <1>1, FateInvariant, PTL

\* Whatever the interleaving of the three flushing goroutines, the workers,
\* faults, shutdowns and crashes, a message is acknowledged to JetStream only if
\* it was written to ClickHouse, is in the DLQ, or came twice into one batch.
THEOREM AckedMessagesHaveFate == Spec => []AckedHasFate
<1>1. FateInv => AckedHasFate
  BY DEF FateInv
<1>2. QED
  BY <1>1, FateInvariant, PTL

-----------------------------------------------------------------------------
(* Where a delivery is: every delivery is in at most one place, which is why *)
(* no delivery is written twice and why nothing is settled before its turn.  *)

ItemSet(s) == {s[i].d : i \in 1 .. Len(s)}
UnionOf(c) == UNION {c[i] : i \in 1 .. Len(c)}

Distinct(s) == \A a, b \in 1 .. Len(s) : s[a] = s[b] => a = b
DistinctItems(s) == \A a, b \in 1 .. Len(s) : s[a].d = s[b].d => a = b
Apart(c) == \A i, j \in 1 .. Len(c) : i # j => c[i] \cap c[j] = {}

\* The part of a flush that each of its phases still owns.
Unsent(g) == IF g.pc = "submit" THEN {g.own[i] : i \in g.sent + 1 .. Len(g.own)} ELSE {}
InBatches(g) == UNION {g.batches[v] : v \in Schemas}
ToAck(g) == IF g.pc = "prepare" THEN g.failed ELSE IF g.pc = "ack" THEN g.now ELSE {}

\* The deliveries of each element of the two channels and of a list of results.
JobSets(s) == [i \in 1 .. Len(s) |-> Elems(s[i].msgs)]
ResultSets(s) == [i \in 1 .. Len(s) |-> ItemSet(s[i].items)]
ResSets(s) == [j \in 1 .. Len(s) |-> ItemSet(s[j])]

\* Until the first fault a settled delivery is one that was acked in its turn.
Quiet(S) == IF faults = 0 THEN S ELSE {}

\* The places from which a delivery can still be written, and all places.
Pipeline ==
    ({"buffer", "jobs", "results"} \X {"sink"})
        \cup ({"own", "res", "batches"} \X Flushers) \cup ({"work"} \X Workers)
Places == Pipeline \cup {<<"settled", "sink">>} \cup ({"toAck"} \X Flushers)

At(p) ==
    CASE p[1] = "buffer"  -> Elems(buffer)
      [] p[1] = "jobs"    -> UnionOf(JobSets(jobs))
      [] p[1] = "results" -> UnionOf(ResultSets(results))
      [] p[1] = "work"    -> ItemSet(work[p[2]].items)
      [] p[1] = "own"     -> Unsent(fl[p[2]])
      [] p[1] = "res"     -> UnionOf(ResSets(fl[p[2]].res))
      [] p[1] = "batches" -> InBatches(fl[p[2]])
      [] p[1] = "toAck"   -> Quiet(ToAck(fl[p[2]]))
      [] p[1] = "settled" -> Quiet(settled)

OnePlace == \A p, q \in Places : \A d \in At(p) : d \in At(q) => p = q
Known == \A p \in Places : \A d \in At(p) : d \in Delivery /\ d[2] <= dcount[d[1]]

\* Deliveries of m that can still be written, each good for one row.
InFlight == UNION {At(p) : p \in Pipeline}
Alive(m) == {k \in 1 .. MaxDeliver : <<m, k>> \in InFlight}
RowsLeft == \A m \in Msgs : rows[m] + Cardinality(Alive(m)) <= dcount[m]

\* A delivery is also in one position only of its place.
ShapeOf(g) ==
    /\ g.pc = "submit" => Distinct(g.own)
    /\ \A j \in 1 .. Len(g.res) : DistinctItems(g.res[j])
    /\ Apart(ResSets(g.res))
    /\ \A v \in Schemas : \A d \in g.batches[v] : Schema[d[1]] = v
    /\ g.pc \in {"submit", "collect"} => g.failed = {}

Shape ==
    /\ Distinct(buffer)
    /\ \A i \in 1 .. Len(jobs) : Distinct(jobs[i].msgs)
    /\ Apart(JobSets(jobs))
    /\ \A w \in Workers : DistinctItems(work[w].items)
    /\ \A i \in 1 .. Len(results) : DistinctItems(results[i].items)
    /\ Apart(ResultSets(results))
    /\ \A f \in Flushers : ShapeOf(fl[f])

PlaceInv == OnePlace /\ Known /\ RowsLeft /\ Shape

\* The deliveries X leave p for q, and nothing else moves.
Moves(X, p, q) ==
    /\ \A r \in Places : At(r)' \subseteq (IF r = q THEN At(r) \cup X ELSE At(r))
    /\ p # q => X \cap At(p)' = {}

-----------------------------------------------------------------------------
LEMMA ElemsAppend ==
    ASSUME NEW s \in Seq(Delivery), NEW e \in Delivery
    PROVE  /\ Elems(Append(s, e)) = Elems(s) \cup {e}
           /\ (Distinct(s) /\ e \notin Elems(s)) => Distinct(Append(s, e))
<1> DEFINE t == Append(s, e)
<1>1. /\ Len(s) \in Nat /\ Len(t) = Len(s) + 1 /\ t[Len(s) + 1] = e
      /\ \A i \in 1 .. Len(s) : t[i] = s[i]
  OBVIOUS
<1> HIDE DEF t
<1>2. Elems(t) = Elems(s) \cup {e}
  BY <1>1 DEF Elems
<1>3. (Distinct(s) /\ e \notin Elems(s)) => Distinct(t)
  BY <1>1 DEF Distinct, Elems
<1>4. QED
  BY <1>2, <1>3 DEF t

LEMMA AppendApart ==
    ASSUME NEW c \in Seq(SUBSET Delivery), NEW S \in SUBSET Delivery
    PROVE  /\ UnionOf(Append(c, S)) = UnionOf(c) \cup S
           /\ (Apart(c) /\ S \cap UnionOf(c) = {}) => Apart(Append(c, S))
<1> DEFINE t == Append(c, S)
<1>1. /\ Len(c) \in Nat /\ Len(t) = Len(c) + 1 /\ t[Len(c) + 1] = S
      /\ \A i \in 1 .. Len(c) : t[i] = c[i]
  OBVIOUS
<1> HIDE DEF t
<1>2. UnionOf(t) = UnionOf(c) \cup S
  BY <1>1 DEF UnionOf
<1>3. (Apart(c) /\ S \cap UnionOf(c) = {}) => Apart(t)
  <2> SUFFICES ASSUME Apart(c), S \cap UnionOf(c) = {},
                      NEW i \in 1 .. Len(t), NEW j \in 1 .. Len(t), i # j
               PROVE  t[i] \cap t[j] = {}
    BY DEF Apart
  <2>1. \A k \in 1 .. Len(c) : c[k] \cap S = {}
    BY DEF UnionOf
  <2>2. CASE i = Len(c) + 1
    BY <2>1, <2>2, <1>1
  <2>3. CASE j = Len(c) + 1
    BY <2>1, <2>3, <1>1
  <2>4. CASE i # Len(c) + 1 /\ j # Len(c) + 1
    <3>1. i \in 1 .. Len(c) /\ j \in 1 .. Len(c)
      BY <2>4, <1>1
    <3>2. QED
      BY <3>1, <1>1 DEF Apart
  <2>5. QED
    BY <2>2, <2>3, <2>4
<1>4. QED
  BY <1>2, <1>3 DEF t

LEMMA TailApart ==
    ASSUME NEW c \in Seq(SUBSET Delivery), c # <<>>, Apart(c)
    PROVE  /\ UnionOf(Tail(c)) = UnionOf(c) \ Head(c)
           /\ Head(c) \subseteq UnionOf(c) /\ Apart(Tail(c))
<1> DEFINE t == Tail(c)
<1>1. /\ Len(c) \in Nat /\ Len(c) > 0 /\ Len(t) = Len(c) - 1 /\ Head(c) = c[1]
      /\ \A i \in 1 .. Len(t) : t[i] = c[i + 1]
  OBVIOUS
<1> HIDE DEF t
<1>2. UnionOf(t) = UnionOf(c) \ Head(c)
  <2>1. ASSUME NEW x \in UnionOf(t) PROVE x \in UnionOf(c) /\ x \notin c[1]
    <3>1. PICK i \in 1 .. Len(t) : x \in t[i]
      BY DEF UnionOf
    <3>2. i + 1 \in 1 .. Len(c) /\ i + 1 # 1 /\ 1 \in 1 .. Len(c) /\ x \in c[i + 1]
      BY <1>1, <3>1
    <3>3. QED
      BY <3>2 DEF Apart, UnionOf
  <2>2. ASSUME NEW x \in UnionOf(c), x \notin c[1] PROVE x \in UnionOf(t)
    <3>1. PICK i \in 1 .. Len(c) : x \in c[i]
      BY DEF UnionOf
    <3>2. i - 1 \in 1 .. Len(t) /\ (i - 1) + 1 = i
      BY <1>1, <2>2, <3>1
    <3>3. x \in t[i - 1]
      BY <1>1, <3>1, <3>2
    <3>4. QED
      BY <3>2, <3>3 DEF UnionOf
  <2>3. QED
    BY <2>1, <2>2, <1>1
<1>3. Head(c) \subseteq UnionOf(c)
  BY <1>1 DEF UnionOf
<1>4. Apart(t)
  <2> SUFFICES ASSUME NEW i \in 1 .. Len(t), NEW j \in 1 .. Len(t), i # j
               PROVE  t[i] \cap t[j] = {}
    BY DEF Apart
  <2>1. i + 1 \in 1 .. Len(c) /\ j + 1 \in 1 .. Len(c) /\ i + 1 # j + 1
    BY <1>1
  <2>2. QED
    BY <2>1, <1>1 DEF Apart
<1>5. QED
  BY <1>2, <1>3, <1>4 DEF t

\* One set of the sequence is replaced.
Replaced(t, c, j, S) ==
    Len(t) = Len(c) /\ \A i \in 1 .. Len(c) : t[i] = IF i = j THEN S ELSE c[i]
OthersAvoid(c, j, S) == \A i \in 1 .. Len(c) : i # j => c[i] \cap S = {}

LEMMA ReplaceApart ==
    ASSUME NEW c, NEW t, NEW j, NEW S,
           Replaced(t, c, j, S), Apart(c), OthersAvoid(c, j, S)
    PROVE  UnionOf(t) \subseteq UnionOf(c) \cup S /\ Apart(t)
<1>1. UnionOf(t) \subseteq UnionOf(c) \cup S
  BY DEF UnionOf, Replaced
<1>2. Apart(t)
  BY DEF Apart, Replaced, OthersAvoid
<1>3. QED
  BY <1>1, <1>2

\* The head of a list of items without repetition.
LEMMA TailItems ==
    ASSUME NEW s \in Seq(Item), s # <<>>, DistinctItems(s)
    PROVE  /\ ItemSet(Tail(s)) = ItemSet(s) \ {Head(s).d}
           /\ Head(s).d \in ItemSet(s) /\ DistinctItems(Tail(s))
<1> DEFINE t == Tail(s)
<1>1. /\ Len(s) \in Nat /\ Len(s) > 0 /\ Len(t) = Len(s) - 1 /\ Head(s) = s[1]
      /\ \A i \in 1 .. Len(t) : t[i] = s[i + 1]
  OBVIOUS
<1> HIDE DEF t
<1>2. ItemSet(t) = ItemSet(s) \ {Head(s).d}
  <2>1. ASSUME NEW x \in ItemSet(t) PROVE x \in ItemSet(s) /\ x # s[1].d
    <3>1. PICK i \in 1 .. Len(t) : x = t[i].d
      BY DEF ItemSet
    <3>2. i + 1 \in 1 .. Len(s) /\ i + 1 # 1 /\ 1 \in 1 .. Len(s) /\ x = s[i + 1].d
      BY <1>1, <3>1
    <3>3. QED
      BY <3>2 DEF DistinctItems, ItemSet
  <2>2. ASSUME NEW x \in ItemSet(s), x # s[1].d PROVE x \in ItemSet(t)
    <3>1. PICK i \in 1 .. Len(s) : x = s[i].d
      BY DEF ItemSet
    <3>2. i - 1 \in 1 .. Len(t) /\ (i - 1) + 1 = i
      BY <1>1, <2>2, <3>1
    <3>3. x = t[i - 1].d
      BY <1>1, <3>1, <3>2
    <3>4. QED
      BY <3>2, <3>3 DEF ItemSet
  <2>3. QED
    BY <2>1, <2>2, <1>1
<1>3. Head(s).d \in ItemSet(s)
  BY <1>1 DEF ItemSet
<1>4. DistinctItems(t)
  <2> SUFFICES ASSUME NEW i \in 1 .. Len(t), NEW j \in 1 .. Len(t), t[i].d = t[j].d
               PROVE  i = j
    BY DEF DistinctItems
  <2>1. i + 1 \in 1 .. Len(s) /\ j + 1 \in 1 .. Len(s)
    BY <1>1
  <2>2. s[i + 1].d = s[j + 1].d
    BY <1>1
  <2>3. QED
    BY <2>1, <2>2 DEF DistinctItems
<1>5. QED
  BY <1>2, <1>3, <1>4 DEF t

-----------------------------------------------------------------------------
LEMMA AtValues ==
    /\ At(<<"buffer", "sink">>) = Elems(buffer)
    /\ At(<<"jobs", "sink">>) = UnionOf(JobSets(jobs))
    /\ At(<<"results", "sink">>) = UnionOf(ResultSets(results))
    /\ At(<<"settled", "sink">>) = Quiet(settled)
    /\ \A w : At(<<"work", w>>) = ItemSet(work[w].items)
    /\ \A f : /\ At(<<"own", f>>) = Unsent(fl[f])
              /\ At(<<"res", f>>) = UnionOf(ResSets(fl[f].res))
              /\ At(<<"batches", f>>) = InBatches(fl[f])
              /\ At(<<"toAck", f>>) = Quiet(ToAck(fl[f]))
BY DEF At

LEMMA AtValuesPrime ==
    /\ At(<<"buffer", "sink">>)' = Elems(buffer')
    /\ At(<<"jobs", "sink">>)' = UnionOf(JobSets(jobs'))
    /\ At(<<"results", "sink">>)' = UnionOf(ResultSets(results'))
    /\ At(<<"settled", "sink">>)' = Quiet(settled)'
    /\ \A w : At(<<"work", w>>)' = ItemSet(work'[w].items)
    /\ \A f : /\ At(<<"own", f>>)' = Unsent(fl'[f])
              /\ At(<<"res", f>>)' = UnionOf(ResSets(fl'[f].res))
              /\ At(<<"batches", f>>)' = InBatches(fl'[f])
              /\ At(<<"toAck", f>>)' = Quiet(ToAck(fl[f]))'
BY DEF At

\* The places, one kind after the other.
LEMMA PlaceCases ==
    ASSUME NEW r \in Places
    PROVE  \/ r \in {<<"buffer", "sink">>, <<"jobs", "sink">>, <<"results", "sink">>,
                     <<"settled", "sink">>}
           \/ \E w \in Workers : r = <<"work", w>>
           \/ \E f \in Flushers :
                 r \in {<<"own", f>>, <<"res", f>>, <<"batches", f>>, <<"toAck", f>>}
BY DEF Places, Pipeline

LEMMA PlacesAre ==
    /\ {<<"buffer", "sink">>, <<"jobs", "sink">>, <<"results", "sink">>} \subseteq Pipeline
    /\ \A w \in Workers : <<"work", w>> \in Pipeline
    /\ \A f \in Flushers : {<<"own", f>>, <<"res", f>>, <<"batches", f>>} \subseteq Pipeline
    /\ \A f \in Flushers : <<"toAck", f>> \in Places \ Pipeline
    /\ <<"settled", "sink">> \in Places \ Pipeline
    /\ Pipeline \subseteq Places
BY DEF Places, Pipeline

\* A move from one place to another keeps every delivery in one place.
LEMMA MovesOnePlace ==
    ASSUME OnePlace, NEW X, NEW p \in Places, NEW q \in Places, Moves(X, p, q),
           \A r \in Places : r # p => X \cap At(r) = {}
    PROVE  OnePlace'
<1> SUFFICES ASSUME NEW r \in Places, NEW s \in Places, NEW d \in At(r)', d \in At(s)'
             PROVE  r = s
  BY DEF OnePlace, Places, Pipeline
<1>1. CASE d \in X
  <2>1. ASSUME NEW t \in Places, d \in At(t)' PROVE t = q
    BY <1>1, <2>1 DEF Moves
  <2>2. QED
    BY <2>1
<1>2. CASE d \notin X
  <2>1. d \in At(r) /\ d \in At(s)
    BY <1>2 DEF Moves
  <2>2. QED
    BY <2>1 DEF OnePlace
<1>3. QED
  BY <1>1, <1>2

\* Fewer deliveries in flight, no more rows.
LEMMA RowsLeftStep ==
    ASSUME RowsLeft, TypeOK, TypeOK', InFlight' \subseteq InFlight,
           UNCHANGED <<rows, dcount>>
    PROVE  RowsLeft'
<1> SUFFICES ASSUME NEW m \in Msgs PROVE (rows[m] + Cardinality(Alive(m)) <= dcount[m])'
  BY DEF RowsLeft
<1>0. /\ Alive(m) = {k \in 1 .. MaxDeliver : <<m, k>> \in InFlight}
      /\ Alive(m)' = {k \in 1 .. MaxDeliver : <<m, k>> \in InFlight'}
  BY DEF Alive
<1>1. Alive(m)' \subseteq Alive(m)
  BY <1>0
<1>2. IsFiniteSet(Alive(m)) /\ Alive(m)' \in SUBSET Alive(m)
  <2>1. IsFiniteSet(1 .. MaxDeliver) /\ Alive(m) \subseteq 1 .. MaxDeliver
    BY FS_Interval DEF Alive
  <2>2. QED
    BY <1>1, <2>1, FS_Subset
<1>3. /\ Cardinality(Alive(m)') <= Cardinality(Alive(m))
      /\ Cardinality(Alive(m)') \in Nat /\ Cardinality(Alive(m)) \in Nat
  BY <1>2, FS_Subset, FS_CardinalityType
<1>4. Cardinality(Alive(m))' = Cardinality(Alive(m)')
  OBVIOUS
<1> DEFINE c == Cardinality(Alive(m))
           k == Cardinality(Alive(m)')
<1>5. rows[m] + c <= dcount[m] /\ k <= c /\ k \in Nat /\ c \in Nat
      /\ rows'[m] = rows[m] /\ dcount'[m] = dcount[m] /\ rows[m] \in Nat /\ dcount[m] \in Nat
  BY <1>3 DEF RowsLeft, TypeOK
<1> HIDE DEF c, k
<1>6. rows'[m] + k <= dcount'[m]
  BY <1>5
<1>7. QED
  BY <1>4, <1>6 DEF k

\* JetStream hands out one more delivery.
LEMMA RowsLeftArrival ==
    ASSUME RowsLeft, TypeOK, TypeOK', NEW m \in Msgs, NEW e, e = <<m, dcount[m] + 1>>,
           dcount' = [dcount EXCEPT ![m] = dcount[m] + 1], UNCHANGED rows,
           InFlight' \subseteq InFlight \cup {e}
    PROVE  RowsLeft'
<1> SUFFICES ASSUME NEW n \in Msgs PROVE (rows[n] + Cardinality(Alive(n)) <= dcount[n])'
  BY DEF RowsLeft
<1> DEFINE A == Alive(n)
           B == Alive(n)'
           E == IF n = m THEN {dcount[m] + 1} ELSE {}
           c == Cardinality(A)
           k == Cardinality(B)
<1>1. /\ A = {i \in 1 .. MaxDeliver : <<n, i>> \in InFlight}
      /\ B = {i \in 1 .. MaxDeliver : <<n, i>> \in InFlight'}
  BY DEF Alive
<1> HIDE DEF A, B
<1>2. B \subseteq A \cup E
  BY <1>1
<1>3. IsFiniteSet(A) /\ c \in Nat
  <2>1. IsFiniteSet(1 .. MaxDeliver) /\ A \subseteq 1 .. MaxDeliver
    BY <1>1, FS_Interval
  <2>2. IsFiniteSet(A)
    BY <2>1, FS_Subset
  <2>3. QED
    BY <2>2, FS_CardinalityType
<1>4. k \in Nat /\ k <= c + (IF n = m THEN 1 ELSE 0)
  <2>1. CASE n = m
    <3> DEFINE z == dcount[m] + 1
    <3>1. B \subseteq A \cup {z}
      BY <1>2, <2>1
    <3>2. IsFiniteSet(A \cup {z}) /\ Cardinality(A \cup {z}) \in Nat
          /\ Cardinality(A \cup {z}) <= c + 1
      <4>1. /\ IsFiniteSet(A \cup {z})
            /\ Cardinality(A \cup {z}) = c \/ Cardinality(A \cup {z}) = c + 1
        BY <1>3, FS_AddElement
      <4>2. QED
        BY <1>3, <4>1
    <3>3. IsFiniteSet(B) /\ k <= Cardinality(A \cup {z}) /\ k \in Nat
      BY <3>1, <3>2, FS_Subset, FS_CardinalityType
    <3>4. QED
      BY <1>3, <2>1, <3>2, <3>3
  <2>2. CASE n # m
    <3>1. B \subseteq A
      BY <1>2, <2>2
    <3>2. k <= c /\ k \in Nat
      BY <1>3, <3>1, FS_Subset, FS_CardinalityType
    <3>3. QED
      BY <1>3, <2>2, <3>2
  <2>3. QED
    BY <2>1, <2>2
<1>5. /\ rows[n] + c <= dcount[n] /\ rows'[n] = rows[n]
      /\ rows[n] \in Nat /\ dcount[n] \in Nat
      /\ dcount'[n] = dcount[n] + (IF n = m THEN 1 ELSE 0)
  BY DEF RowsLeft, TypeOK, A
<1>6. rows'[n] + k <= dcount'[n]
  <2> HIDE DEF c, k
  <2>1. QED
    BY <1>3, <1>4, <1>5
<1>7. Cardinality(Alive(n))' = k
  BY DEF B
<1>8. QED
  BY <1>6, <1>7

\* A move of deliveries that were in flight (or out of the pipeline altogether).
LEMMA MoveStep ==
    ASSUME OnePlace, Known, RowsLeft, TypeOK, TypeOK',
           NEW p \in Places, NEW q \in Places, p \in Pipeline \/ q \notin Pipeline,
           NEW X \in SUBSET At(p), Moves(X, p, q),
           UNCHANGED <<rows, dcount>>
    PROVE  OnePlace' /\ Known' /\ RowsLeft'
<1>1. OnePlace'
  BY MovesOnePlace DEF OnePlace
<1>2. \A r \in Places : At(r)' \subseteq At(r) \cup At(p)
  BY DEF Moves
<1>3. Known'
  BY <1>2 DEF Known, Places, Pipeline
<1>4. InFlight' \subseteq InFlight
  <2>1. CASE p \in Pipeline
    BY <1>2, <2>1, PlacesAre DEF InFlight, Pipeline
  <2>2. CASE q \notin Pipeline
    <3>1. \A r \in Pipeline : At(r)' \subseteq At(r)
      BY <2>2, PlacesAre DEF Moves
    <3>2. QED
      BY <3>1 DEF InFlight, Pipeline
  <2>3. QED
    BY <2>1, <2>2
<1>5. QED
  BY <1>1, <1>3, <1>4, RowsLeftStep

\* Deliveries that leave the pipeline may each have become a row.
LEMMA RowsLeftWrite ==
    ASSUME RowsLeft, TypeOK, TypeOK', NEW D \in SUBSET Delivery, D \subseteq InFlight,
           InFlight' \subseteq InFlight \ D, rows' \in {rows, Written(D)}, UNCHANGED dcount
    PROVE  RowsLeft'
<1> SUFFICES ASSUME NEW n \in Msgs PROVE (rows[n] + Cardinality(Alive(n)) <= dcount[n])'
  BY DEF RowsLeft
<1> DEFINE A == Alive(n)
           B == Alive(n)'
           c == Cardinality(A)
           k == Cardinality(B)
<1>1. /\ A = {i \in 1 .. MaxDeliver : <<n, i>> \in InFlight}
      /\ B = {i \in 1 .. MaxDeliver : <<n, i>> \in InFlight'}
  BY DEF Alive
<1> HIDE DEF A, B
<1>2. B \subseteq A /\ \A i \in B : <<n, i>> \notin D
  BY <1>1
<1>3. IsFiniteSet(A) /\ c \in Nat
  <2>1. IsFiniteSet(1 .. MaxDeliver) /\ A \subseteq 1 .. MaxDeliver
    BY <1>1, FS_Interval
  <2>2. IsFiniteSet(A)
    BY <2>1, FS_Subset
  <2>3. QED
    BY <2>2, FS_CardinalityType
<1>4. rows[n] + c <= dcount[n] /\ rows[n] \in Nat /\ dcount[n] \in Nat /\ dcount'[n] = dcount[n]
  BY DEF RowsLeft, TypeOK, A
<1>5. k \in Nat /\ k <= c /\ (n \in Ms(D) => k < c)
  <2>1. IsFiniteSet(B) /\ k <= c /\ k \in Nat /\ (k = c => B = A)
    <3>1. IsFiniteSet(B) /\ k <= c /\ (k = c => B = A)
      BY <1>2, <1>3, FS_Subset
    <3>2. QED
      BY <3>1, FS_CardinalityType
  <2>2. ASSUME n \in Ms(D) PROVE B # A
    <3>1. PICK d \in D : d[1] = n
      BY <2>2 DEF Ms
    <3>2. d = <<n, d[2]>> /\ d[2] \in 1 .. MaxDeliver
      BY <3>1 DEF Delivery
    <3>3. d[2] \in A /\ d[2] \notin B
      BY <1>1, <1>2, <3>1, <3>2
    <3>4. QED
      BY <3>3
  <2> HIDE DEF c, k
  <2>3. QED
    BY <1>3, <2>1, <2>2
<1>6. rows'[n] \in Nat /\ rows'[n] <= rows[n] + 1 /\ (n \notin Ms(D) => rows'[n] = rows[n])
  <2>1. Written(D)[n] = IF n \in Ms(D) THEN rows[n] + 1 ELSE rows[n]
    BY DEF Written
  <2>2. rows'[n] = rows[n] \/ rows'[n] = Written(D)[n]
    OBVIOUS
  <2>3. QED
    BY <1>4, <2>1, <2>2
<1>7. rows'[n] + k <= dcount'[n]
  <2> HIDE DEF c, k
  <2>1. rows'[n] = rows[n] \/ n \in Ms(D)
    BY <1>6
  <2>2. QED
    BY <1>3, <1>4, <1>5, <1>6, <2>1
<1>8. Cardinality(Alive(n))' = k
  BY DEF B
<1>9. QED
  BY <1>7, <1>8

\* A move out of the pipeline, with or without an insert.
LEMMA WriteStep ==
    ASSUME OnePlace, Known, RowsLeft, TypeOK, TypeOK',
           NEW p \in Pipeline, NEW q \in Places \ Pipeline,
           NEW X \in SUBSET At(p), Moves(X, p, q),
           rows' \in {rows, Written(X)}, UNCHANGED dcount
    PROVE  OnePlace' /\ Known' /\ RowsLeft'
<1>1. p \in Places /\ q \in Places /\ p # q
  BY PlacesAre
<1>2. OnePlace'
  BY <1>1, MovesOnePlace DEF OnePlace
<1>3. \A r \in Places : At(r)' \subseteq At(r) \cup At(p)
  BY DEF Moves
<1>4. Known'
  BY <1>1, <1>3 DEF Known, Places, Pipeline
<1>5. X \subseteq Delivery /\ X \subseteq InFlight
  BY <1>1 DEF Known, InFlight
<1>6. ASSUME NEW r \in Pipeline PROVE At(r)' \subseteq At(r) /\ X \cap At(r)' = {}
  <2>1. r \in Places /\ r # q
    BY PlacesAre
  <2>2. At(r)' \subseteq At(r)
    BY <2>1 DEF Moves
  <2>3. CASE r = p
    BY <1>1, <2>2, <2>3 DEF Moves
  <2>4. CASE r # p
    BY <1>1, <2>1, <2>2, <2>4 DEF OnePlace
  <2>5. QED
    BY <2>2, <2>3, <2>4
<1>7. InFlight' \subseteq InFlight \ X
  BY <1>6 DEF InFlight, Pipeline
<1>8. QED
  BY <1>2, <1>4, <1>5, <1>7, RowsLeftWrite

\* A step after which no place holds more than before.
LEMMA ShrinkStep ==
    ASSUME OnePlace, Known, RowsLeft, TypeOK, TypeOK',
           \A r \in Places : At(r)' \subseteq At(r), UNCHANGED <<rows, dcount>>
    PROVE  OnePlace' /\ Known' /\ RowsLeft'
<1>1. OnePlace'
  BY DEF OnePlace, Places, Pipeline
<1>2. Known'
  BY DEF Known, Places, Pipeline
<1>3. InFlight' \subseteq InFlight
  BY PlacesAre DEF InFlight, Pipeline
<1>4. QED
  BY <1>1, <1>2, <1>3, RowsLeftStep

-----------------------------------------------------------------------------
FaultsGrow == faults' = 0 => faults = 0

LEMMA FaultsGrowLemma ==
    ASSUME TypeOK, Fault \/ UNCHANGED faults
    PROVE  FaultsGrow
BY DEF TypeOK, Fault, FaultsGrow

FlushPlaces(f) == {<<"own", f>>, <<"res", f>>, <<"batches", f>>, <<"toAck", f>>}

\* The flush of f changes: only its own places may.
LEMMA FlushFrame ==
    ASSUME NEW f \in Flushers, NEW g, fl \in [Flushers -> FlushState],
           fl' = [fl EXCEPT ![f] = g], FaultsGrow,
           NEW r \in Places, r \notin FlushPlaces(f)
    PROVE  /\ r = <<"buffer", "sink">> /\ UNCHANGED buffer => At(r)' = At(r)
           /\ r = <<"jobs", "sink">> /\ UNCHANGED jobs => At(r)' = At(r)
           /\ r = <<"results", "sink">> /\ UNCHANGED results => At(r)' = At(r)
           /\ (r = <<"settled", "sink">> /\ (faults' = 0 => UNCHANGED settled))
                 => At(r)' \subseteq At(r)
           /\ \A w \in Workers : r = <<"work", w>> /\ UNCHANGED work => At(r)' = At(r)
           /\ \A h \in Flushers :
                 r \in FlushPlaces(h) => At(r)' \subseteq At(r)
<1>1. r = <<"buffer", "sink">> /\ UNCHANGED buffer => At(r)' = At(r)
  BY AtValues, AtValuesPrime
<1>2. r = <<"jobs", "sink">> /\ UNCHANGED jobs => At(r)' = At(r)
  BY AtValues, AtValuesPrime
<1>3. r = <<"results", "sink">> /\ UNCHANGED results => At(r)' = At(r)
  BY AtValues, AtValuesPrime
<1>4. (r = <<"settled", "sink">> /\ (faults' = 0 => UNCHANGED settled)) => At(r)' \subseteq At(r)
  BY AtValues, AtValuesPrime DEF Quiet, FaultsGrow
<1>5. \A w \in Workers : r = <<"work", w>> /\ UNCHANGED work => At(r)' = At(r)
  BY AtValues, AtValuesPrime
<1>6. ASSUME NEW h \in Flushers, r \in FlushPlaces(h)
      PROVE  At(r)' \subseteq At(r)
  <2>1. h # f
    BY <1>6 DEF FlushPlaces
  <2>2. fl'[h] = fl[h]
    BY <2>1
  <2>3. CASE r = <<"own", h>>
    BY <2>2, <2>3, AtValues, AtValuesPrime
  <2>4. CASE r = <<"res", h>>
    BY <2>2, <2>4, AtValues, AtValuesPrime
  <2>5. CASE r = <<"batches", h>>
    BY <2>2, <2>5, AtValues, AtValuesPrime
  <2>6. CASE r = <<"toAck", h>>
    BY <2>2, <2>6, AtValues, AtValuesPrime DEF Quiet, FaultsGrow
  <2>7. QED
    BY <1>6, <2>3, <2>4, <2>5, <2>6 DEF FlushPlaces
<1>7. QED
  BY <1>1, <1>2, <1>3, <1>4, <1>5, <1>6

\* The flush h keeps no more than g did.
Narrower(h, g) ==
    /\ h.pc = "submit" => g.pc = "submit" /\ h.own = g.own /\ h.sent = g.sent
    /\ h.res = g.res \/ h.res = <<>>
    /\ \A v \in Schemas : h.batches[v] \subseteq g.batches[v]
    /\ h.pc = "prepare" => g.pc = "prepare" /\ h.failed = g.failed
    /\ h.pc = "collect" => g.pc = "collect"
    /\ h.pc \in {"submit", "collect"} => h.failed = g.failed
    /\ h.pc # "ack"

LEMMA NarrowerPlaces ==
    ASSUME NEW h, NEW g, Narrower(h, g), ShapeOf(g)
    PROVE  /\ Unsent(h) \subseteq Unsent(g)
           /\ UnionOf(ResSets(h.res)) \subseteq UnionOf(ResSets(g.res))
           /\ InBatches(h) \subseteq InBatches(g)
           /\ ToAck(h) \subseteq ToAck(g)
           /\ ShapeOf(h)
<1>1. Unsent(h) \subseteq Unsent(g)
  BY DEF Unsent, Narrower
<1>2. UnionOf(ResSets(h.res)) \subseteq UnionOf(ResSets(g.res))
  <2>1. CASE h.res = g.res
    BY <2>1 DEF ResSets
  <2>2. CASE h.res = <<>>
    BY <2>2 DEF ResSets, UnionOf
  <2>3. QED
    BY <2>1, <2>2 DEF Narrower
<1>3. InBatches(h) \subseteq InBatches(g)
  BY DEF InBatches, Narrower
<1>4. ToAck(h) \subseteq ToAck(g)
  BY DEF ToAck, Narrower
<1>5. ShapeOf(h)
  <2>1. h.pc = "submit" => Distinct(h.own)
    BY DEF Narrower, ShapeOf
  <2>2. (\A j \in 1 .. Len(h.res) : DistinctItems(h.res[j])) /\ Apart(ResSets(h.res))
    <3>1. CASE h.res = g.res
      BY <3>1 DEF ShapeOf, ResSets
    <3>2. CASE h.res = <<>>
      BY <3>2 DEF ResSets, Apart
    <3>3. QED
      BY <3>1, <3>2 DEF Narrower
  <2>3. \A v \in Schemas : \A d \in h.batches[v] : Schema[d[1]] = v
    BY DEF Narrower, ShapeOf
  <2>4. h.pc \in {"submit", "collect"} => h.failed = {}
    BY DEF Narrower, ShapeOf
  <2>5. QED
    BY <2>1, <2>2, <2>3, <2>4 DEF ShapeOf
<1>6. QED
  BY <1>1, <1>2, <1>3, <1>4, <1>5

\* A step of one flush that only lets go of deliveries.
LEMMA NarrowStep ==
    ASSUME PlaceInv, TypeOK, TypeOK', NEW f \in Flushers, NEW g,
           fl' = [fl EXCEPT ![f] = g], Narrower(g, fl[f]), FaultsGrow,
           UNCHANGED <<rows, dcount, buffer, jobs, results, work>>,
           faults' = 0 => UNCHANGED settled
    PROVE  PlaceInv'
<1>1. fl \in [Flushers -> FlushState] /\ fl'[f] = g /\ ShapeOf(fl[f])
  BY DEF TypeOK, PlaceInv, Shape
<1>2. ASSUME NEW r \in Places PROVE At(r)' \subseteq At(r)
  <2>1. CASE r \in FlushPlaces(f)
    <3>1. CASE r = <<"own", f>>
      BY <1>1, <3>1, NarrowerPlaces, AtValues, AtValuesPrime
    <3>2. CASE r = <<"res", f>>
      BY <1>1, <3>2, NarrowerPlaces, AtValues, AtValuesPrime
    <3>3. CASE r = <<"batches", f>>
      BY <1>1, <3>3, NarrowerPlaces, AtValues, AtValuesPrime
    <3>4. CASE r = <<"toAck", f>>
      BY <1>1, <3>4, NarrowerPlaces, AtValues, AtValuesPrime DEF Quiet, FaultsGrow
    <3>5. QED
      BY <2>1, <3>1, <3>2, <3>3, <3>4 DEF FlushPlaces
  <2>2. CASE r \notin FlushPlaces(f)
    <3>1. CASE r \in {<<"buffer", "sink">>, <<"jobs", "sink">>, <<"results", "sink">>,
                      <<"settled", "sink">>}
      BY <1>1, <2>2, <3>1, FlushFrame
    <3>2. CASE \E w \in Workers : r = <<"work", w>>
      BY <1>1, <2>2, <3>2, FlushFrame
    <3>3. CASE \E h \in Flushers : r \in FlushPlaces(h)
      BY <1>1, <2>2, <3>3, FlushFrame
    <3>4. QED
      BY <3>1, <3>2, <3>3, PlaceCases DEF FlushPlaces
  <2>3. QED
    BY <2>1, <2>2
<1>3. OnePlace' /\ Known' /\ RowsLeft'
  BY <1>2, ShrinkStep DEF PlaceInv
<1>4. Shape'
  <2>2. \A h \in Flushers : ShapeOf(fl'[h])
    BY <1>1, NarrowerPlaces DEF PlaceInv, Shape
  <2>3. QED
    BY <2>2 DEF PlaceInv, Shape
<1>5. QED
  BY <1>3, <1>4 DEF PlaceInv

-----------------------------------------------------------------------------
(* What the phases of a flush know while nothing has failed.               *)

Dead(g) == g.pc \in {"dlqBatch", "dlqAll"} \/ g.allErr
Mapped(s) == \A i \in 1 .. Len(s) : s[i].ok <=> Kind[s[i].d[1]] # "unmappable"

\* Only a cancelled flush gives up, and only the mapping refuses a message.
Calm(f, g) ==
    (Dead(g) => CtxDone(f)) /\ \A j \in 1 .. Len(g.res) : Mapped(g.res[j])

QuietInv ==
    faults = 0 =>
        /\ \A f \in Flushers : Calm(f, fl[f])
        /\ \A w \in Workers : Mapped(work[w].items)
        /\ \A i \in 1 .. Len(results) : Mapped(results[i].items)

Down == phase \in {"down", "panicked"}
DownInv == Down => \A f \in Flushers : fl[f] = IdleFlush

GoodBatches(g) == \A v \in Schemas : \A d \in g.batches[v] : Kind[d[1]] = "good"
GoodRows == \A m \in Msgs : rows[m] > 0 => Kind[m] = "good"
BadDLQ == faults = 0 => \A m \in dlq : Kind[m] # "good"
KindInv == GoodRows /\ BadDLQ /\ \A f \in Flushers : GoodBatches(fl[f])

RestInv == QuietInv /\ DownInv /\ KindInv
SinkInv == FateInv /\ PlaceInv /\ RestInv

-----------------------------------------------------------------------------
LEMMA IdleNarrower ==
    ASSUME NEW g
    PROVE  Narrower(IdleFlush, g)
BY DEF IdleFlush, Narrower

LEMMA ToDLQNarrower ==
    ASSUME NEW g \in FlushState
    PROVE  Narrower(ToDLQ(g), g)
BY DEF ToDLQ, Narrower, FlushState

LEMMA FailFlushPlaces ==
    ASSUME PlaceInv, TypeOK, TypeOK', NEW f \in Flushers, NEW c \in {"retryable", "other"},
           FailFlush(f, c), FaultsGrow, c = "other" \/ faults' # 0,
           UNCHANGED <<rows, dcount, buffer, jobs, results, work>>
    PROVE  PlaceInv'
<1>1. fl[f] \in FlushState
  BY DEF TypeOK
<1>2. PICK g \in {IdleFlush, ToDLQ(fl[f])} : fl' = [fl EXCEPT ![f] = g]
  BY DEF FailFlush
<1>3. Narrower(g, fl[f])
  BY <1>1, IdleNarrower, ToDLQNarrower
<1>4. faults' = 0 => UNCHANGED settled
  BY DEF FailFlush
<1>5. QED
  BY <1>2, <1>3, <1>4, NarrowStep

LEMMA TickPlaces ==
    ASSUME PlaceInv, TypeOK, TypeOK', Tick \/ HandleShutdown
    PROVE  PlaceInv'
<1>1. PICK f \in Flushers : fl' = [fl EXCEPT ![f] = [fl[f] EXCEPT !.pc = "flush"]]
  BY DEF Tick, HandleShutdown, Flushers
<1> DEFINE g == [fl[f] EXCEPT !.pc = "flush"]
<1>2. fl[f] \in FlushState
  BY DEF TypeOK
<1>3. Narrower(g, fl[f])
  BY <1>2 DEF Narrower, FlushState
<1>4. UNCHANGED <<rows, dcount, buffer, jobs, results, work, settled, faults>>
  BY DEF Tick, HandleShutdown, service, pool, bounds
<1>5. QED
  BY <1>1, <1>3, <1>4, NarrowStep DEF FaultsGrow

LEMMA DLQPlaces ==
    ASSUME PlaceInv, QuietInv, TypeOK, TypeOK', NEW f \in Flushers,
           \/ \E e \in fl[f].now : DLQPush(f, e) \/ DLQStops(f, e)
           \/ DLQDone(f) \/ FlushDone(f)
    PROVE  PlaceInv'
<1>1. fl[f] \in FlushState
  BY DEF TypeOK
<1>2. CASE \E e \in fl[f].now : DLQPush(f, e)
  <2>1. PICK e \in fl[f].now : DLQPush(f, e)
    BY <1>2
  <2> DEFINE g == [fl[f] EXCEPT !.now = fl[f].now \ {e}]
  <2>2. Narrower(g, fl[f]) /\ fl' = [fl EXCEPT ![f] = g]
    BY <1>1, <2>1 DEF DLQPush, Narrower, FlushState
  <2>3. faults' = faults /\ faults # 0
    BY <2>1 DEF DLQPush, QuietInv, Calm, Dead, bounds
  <2>4. QED
    BY <2>1, <2>2, <2>3, NarrowStep DEF DLQPush, pool, FaultsGrow
<1>3. CASE \E e \in fl[f].now : DLQStops(f, e)
  <2>1. PICK e \in fl[f].now : DLQStops(f, e)
    BY <1>3
  <2> DEFINE g == [fl[f] EXCEPT !.now = {}, !.allErr = TRUE]
  <2>2. Narrower(g, fl[f]) /\ fl' = [fl EXCEPT ![f] = g]
    BY <1>1, <2>1 DEF DLQStops, Narrower, FlushState
  <2>3. FaultsGrow
    BY <2>1, FaultsGrowLemma DEF DLQStops
  <2>4. QED
    BY <2>1, <2>2, <2>3, NarrowStep DEF DLQStops, pool
<1>4. CASE DLQDone(f)
  <2> DEFINE h == [fl[f] EXCEPT !.pc = "send"]
  <2>1. PICK g \in {IdleFlush, h} : fl' = [fl EXCEPT ![f] = g]
    BY <1>4 DEF DLQDone
  <2>2. Narrower(h, fl[f])
    BY <1>1 DEF Narrower, FlushState
  <2> HIDE DEF h
  <2>3. Narrower(g, fl[f])
    BY <2>1, <2>2, IdleNarrower
  <2>4. QED
    BY <1>4, <2>1, <2>3, NarrowStep DEF DLQDone, service, pool, bounds, FaultsGrow
<1>5. CASE FlushDone(f)
  <2>1. PICK g \in {IdleFlush, ToDLQ(fl[f])} : fl' = [fl EXCEPT ![f] = g]
    BY <1>5 DEF FlushDone
  <2>2. Narrower(g, fl[f])
    BY <1>1, <2>1, IdleNarrower, ToDLQNarrower
  <2>3. QED
    BY <1>5, <2>1, <2>2, NarrowStep DEF FlushDone, service, pool, bounds, FaultsGrow
<1>6. QED
  BY <1>2, <1>3, <1>4, <1>5

LEMMA GiveUpPlaces ==
    ASSUME PlaceInv, TypeOK, TypeOK', NEW f \in Flushers,
           SubmitCancelled(f) \/ CollectTimeout(f) \/ \E j \in DOMAIN fl[f].res : SkipFails(f, j)
    PROVE  PlaceInv'
<1>1. UNCHANGED <<rows, dcount, buffer, jobs, results, work>>
  BY DEF SubmitCancelled, CollectTimeout, SkipFails, service, pool
<1>2. \E c \in {"retryable", "other"} :
         FailFlush(f, c) /\ (c = "other" \/ Fault) /\ (Fault \/ UNCHANGED faults)
  BY DEF SubmitCancelled, CollectTimeout, SkipFails, CallFails, bounds
<1>3. PICK c \in {"retryable", "other"} :
         FailFlush(f, c) /\ (c = "other" \/ Fault) /\ (Fault \/ UNCHANGED faults)
  BY <1>2
<1>4. FaultsGrow /\ (Fault => faults' # 0)
  BY <1>3, FaultsGrowLemma DEF Fault, TypeOK
<1>5. QED
  BY <1>1, <1>3, <1>4, FailFlushPlaces

-----------------------------------------------------------------------------
(* Deliveries that move from one place to another.                         *)

LEMMA ItemSetType ==
    ASSUME NEW s \in Seq(Item)
    PROVE  ItemSet(s) \in SUBSET Delivery
<1>1. \A i \in 1 .. Len(s) : s[i] \in Item
  OBVIOUS
<1>2. QED
  BY <1>1 DEF ItemSet, Item

LEMMA SeqOfSets ==
    ASSUME NEW n \in Nat, NEW c, c = [i \in 1 .. n |-> c[i]],
           \A i \in 1 .. n : c[i] \in SUBSET Delivery
    PROVE  c \in Seq(SUBSET Delivery) /\ Len(c) = n
<1>1. c \in [1 .. n -> SUBSET Delivery]
  OBVIOUS
<1>2. QED
  BY <1>1, SeqDef

LEMMA SeqOfLen ==
    ASSUME NEW S, NEW n \in Nat, NEW s \in [1 .. n -> S]
    PROVE  s \in Seq(S) /\ Len(s) = n
BY SeqDef

\* The first item of a list that has one.
LEMMA HeadIs ==
    ASSUME NEW S, NEW c \in Seq(S), c # <<>>
    PROVE  Len(c) \in Nat /\ 1 \in 1 .. Len(c) /\ Head(c) = c[1]
OBVIOUS

\* The list without its first item.
LEMMA TailIs ==
    ASSUME NEW S, NEW c \in Seq(S), c # <<>>
    PROVE  Tail(c) = [i \in 1 .. Len(c) - 1 |-> c[i + 1]]
<1> DEFINE t == Tail(c)
<1>1. /\ t \in Seq(S) /\ Len(t) = Len(c) - 1
      /\ \A i \in 1 .. Len(t) : t[i] = c[i + 1]
  OBVIOUS
<1> HIDE DEF t
<1>2. t \in [1 .. Len(t) -> S]
  BY <1>1, LenProperties
<1>3. t = [i \in 1 .. Len(c) - 1 |-> c[i + 1]]
  BY <1>1, <1>2
<1>4. QED
  BY <1>3 DEF t

LEMMA AppendIs ==
    ASSUME NEW S, NEW c \in Seq(S), NEW e \in S
    PROVE  Append(c, e) = [i \in 1 .. Len(c) + 1 |-> IF i = Len(c) + 1 THEN e ELSE c[i]]
<1> DEFINE t == Append(c, e)
<1>1. /\ t \in Seq(S) /\ Len(t) = Len(c) + 1 /\ t[Len(c) + 1] = e
      /\ \A i \in 1 .. Len(c) : t[i] = c[i]
  OBVIOUS
<1> HIDE DEF t
<1>2. t \in [1 .. Len(t) -> S] /\ Len(c) \in Nat
  BY <1>1, LenProperties
<1>3. \A i \in 1 .. Len(c) + 1 : t[i] = IF i = Len(c) + 1 THEN e ELSE c[i]
  BY <1>1, <1>2
<1>4. t = [i \in 1 .. Len(c) + 1 |-> IF i = Len(c) + 1 THEN e ELSE c[i]]
  BY <1>1, <1>2, <1>3
<1>5. QED
  BY <1>4 DEF t

\* The jobs as a sequence of sets.
LEMMA JobSetsProperties ==
    ASSUME NEW s \in Seq(Job)
    PROVE  /\ JobSets(s) \in Seq(SUBSET Delivery) /\ Len(JobSets(s)) = Len(s)
           /\ s # <<>> => /\ JobSets(s) # <<>> /\ JobSets(Tail(s)) = Tail(JobSets(s))
                          /\ Head(JobSets(s)) = Elems(Head(s).msgs)
           /\ \A j \in Job : JobSets(Append(s, j)) = Append(JobSets(s), Elems(j.msgs))
<1>1. Len(s) \in Nat /\ \A i \in 1 .. Len(s) : s[i] \in Job /\ s[i].msgs \in Seq(Delivery)
  <2>1. Len(s) \in Nat /\ \A i \in 1 .. Len(s) : s[i] \in Job
    OBVIOUS
  <2>2. QED
    BY <2>1 DEF Job
<1>2. \A i \in 1 .. Len(s) : JobSets(s)[i] = Elems(s[i].msgs) /\ JobSets(s)[i] \in SUBSET Delivery
  BY <1>1, ElemsType DEF JobSets
<1>3. JobSets(s) \in Seq(SUBSET Delivery) /\ Len(JobSets(s)) = Len(s)
  BY <1>1, <1>2, SeqOfSets DEF JobSets
<1>4. ASSUME s # <<>>
      PROVE  /\ JobSets(s) # <<>> /\ JobSets(Tail(s)) = Tail(JobSets(s))
             /\ Head(JobSets(s)) = Elems(Head(s).msgs)
  <2>1. Len(s) > 0 /\ Len(Tail(s)) = Len(s) - 1 /\ Head(s) = s[1] /\ JobSets(s) # <<>>
    BY <1>1, <1>3, <1>4
  <2>2. \A i \in 1 .. Len(Tail(s)) : Tail(s)[i] = s[i + 1] /\ i + 1 \in 1 .. Len(s)
    BY <1>4, <2>1
  <2>3. \A i \in 1 .. Len(Tail(s)) : Tail(s)[i].msgs = s[i + 1].msgs
    BY <2>2
  <2>4. JobSets(Tail(s)) = [i \in 1 .. Len(Tail(s)) |-> Elems(s[i + 1].msgs)]
    BY <2>3 DEF JobSets
  <2>5. Tail(JobSets(s)) = [i \in 1 .. Len(s) - 1 |-> JobSets(s)[i + 1]]
    BY <1>3, <2>1, TailIs
  <2>6. \A i \in 1 .. Len(s) - 1 : JobSets(s)[i + 1] = Elems(s[i + 1].msgs)
    BY <1>2, <2>1, <2>2
  <2>7. JobSets(Tail(s)) = Tail(JobSets(s))
    BY <2>1, <2>4, <2>5, <2>6
  <2>8. Head(JobSets(s)) = Elems(Head(s).msgs)
    BY <1>2, <1>3, <2>1
  <2>9. QED
    BY <2>1, <2>7, <2>8
<1>5. ASSUME NEW j \in Job
      PROVE  JobSets(Append(s, j)) = Append(JobSets(s), Elems(j.msgs))
  <2> DEFINE t == Append(s, j)
             c == Append(JobSets(s), Elems(j.msgs))
  <2>1. /\ Len(t) = Len(s) + 1 /\ t[Len(s) + 1] = j /\ \A i \in 1 .. Len(s) : t[i] = s[i]
    BY <1>1
  <2>0. Elems(j.msgs) \in SUBSET Delivery
    BY ElemsType DEF Job
  <2>2. c = [i \in 1 .. Len(s) + 1 |-> IF i = Len(s) + 1 THEN Elems(j.msgs) ELSE JobSets(s)[i]]
    BY <1>1, <1>3, <2>0, AppendIs
  <2> HIDE DEF t, c
  <2>3. JobSets(t) = [i \in 1 .. Len(s) + 1 |-> Elems(t[i].msgs)]
    BY <2>1 DEF JobSets
  <2>4. \A i \in 1 .. Len(s) + 1 :
           Elems(t[i].msgs) = IF i = Len(s) + 1 THEN Elems(j.msgs) ELSE JobSets(s)[i]
    <3>1. ASSUME NEW i \in 1 .. Len(s) + 1, i # Len(s) + 1 PROVE i \in 1 .. Len(s)
      BY <1>1, <3>1
    <3>2. QED
      BY <3>1, <1>2, <2>1
  <2>5. JobSets(t) = c
    BY <2>2, <2>3, <2>4
  <2>6. QED
    BY <2>5 DEF t, c
<1>6. QED
  BY <1>3, <1>4, <1>5

\* The results as a sequence of sets.
LEMMA ResultSetsProperties ==
    ASSUME NEW s \in Seq(Result)
    PROVE  /\ ResultSets(s) \in Seq(SUBSET Delivery) /\ Len(ResultSets(s)) = Len(s)
           /\ s # <<>> => /\ ResultSets(s) # <<>> /\ ResultSets(Tail(s)) = Tail(ResultSets(s))
                          /\ Head(ResultSets(s)) = ItemSet(Head(s).items)
           /\ \A j \in Result : ResultSets(Append(s, j)) = Append(ResultSets(s), ItemSet(j.items))
<1>1. Len(s) \in Nat /\ \A i \in 1 .. Len(s) : s[i] \in Result /\ s[i].items \in Seq(Item)
  <2>1. Len(s) \in Nat /\ \A i \in 1 .. Len(s) : s[i] \in Result
    OBVIOUS
  <2>2. QED
    BY <2>1 DEF Result
<1>2. \A i \in 1 .. Len(s) :
         /\ ResultSets(s)[i] = ItemSet(s[i].items)
         /\ ResultSets(s)[i] \in SUBSET Delivery
  BY <1>1, ItemSetType DEF ResultSets
<1>3. ResultSets(s) \in Seq(SUBSET Delivery) /\ Len(ResultSets(s)) = Len(s)
  BY <1>1, <1>2, SeqOfSets DEF ResultSets
<1>4. ASSUME s # <<>>
      PROVE  /\ ResultSets(s) # <<>> /\ ResultSets(Tail(s)) = Tail(ResultSets(s))
             /\ Head(ResultSets(s)) = ItemSet(Head(s).items)
  <2>1. Len(s) > 0 /\ Len(Tail(s)) = Len(s) - 1 /\ Head(s) = s[1] /\ ResultSets(s) # <<>>
    BY <1>1, <1>3, <1>4
  <2>2. \A i \in 1 .. Len(Tail(s)) : Tail(s)[i] = s[i + 1] /\ i + 1 \in 1 .. Len(s)
    BY <1>4, <2>1
  <2>3. \A i \in 1 .. Len(Tail(s)) : Tail(s)[i].items = s[i + 1].items
    BY <2>2
  <2>4. ResultSets(Tail(s)) = [i \in 1 .. Len(Tail(s)) |-> ItemSet(s[i + 1].items)]
    BY <2>3 DEF ResultSets
  <2>5. Tail(ResultSets(s)) = [i \in 1 .. Len(s) - 1 |-> ResultSets(s)[i + 1]]
    BY <1>3, <2>1, TailIs
  <2>6. \A i \in 1 .. Len(s) - 1 : ResultSets(s)[i + 1] = ItemSet(s[i + 1].items)
    BY <1>2, <2>1, <2>2
  <2>7. ResultSets(Tail(s)) = Tail(ResultSets(s))
    BY <2>1, <2>4, <2>5, <2>6
  <2>8. Head(ResultSets(s)) = ItemSet(Head(s).items)
    BY <1>2, <1>3, <2>1
  <2>9. QED
    BY <2>1, <2>7, <2>8
<1>5. ASSUME NEW j \in Result
      PROVE  ResultSets(Append(s, j)) = Append(ResultSets(s), ItemSet(j.items))
  <2> DEFINE t == Append(s, j)
             c == Append(ResultSets(s), ItemSet(j.items))
  <2>1. /\ Len(t) = Len(s) + 1 /\ t[Len(s) + 1] = j /\ \A i \in 1 .. Len(s) : t[i] = s[i]
    BY <1>1
  <2>0. ItemSet(j.items) \in SUBSET Delivery
    BY ItemSetType DEF Result
  <2>2. c = [i \in 1 .. Len(s) + 1 |->
               IF i = Len(s) + 1 THEN ItemSet(j.items) ELSE ResultSets(s)[i]]
    BY <1>1, <1>3, <2>0, AppendIs
  <2> HIDE DEF t, c
  <2>3. ResultSets(t) = [i \in 1 .. Len(s) + 1 |-> ItemSet(t[i].items)]
    BY <2>1 DEF ResultSets
  <2>4. \A i \in 1 .. Len(s) + 1 :
           ItemSet(t[i].items) = IF i = Len(s) + 1 THEN ItemSet(j.items) ELSE ResultSets(s)[i]
    <3>1. ASSUME NEW i \in 1 .. Len(s) + 1, i # Len(s) + 1 PROVE i \in 1 .. Len(s)
      BY <1>1, <3>1
    <3>2. QED
      BY <3>1, <1>2, <2>1
  <2>5. ResultSets(t) = c
    BY <2>2, <2>3, <2>4
  <2>6. QED
    BY <2>5 DEF t, c
<1>6. QED
  BY <1>3, <1>4, <1>5

Grows(r, q, X) == At(r)' \subseteq (IF r = q THEN At(r) \cup X ELSE At(r))

GlobalPlaces == {<<"buffer", "sink">>, <<"jobs", "sink">>, <<"results", "sink">>,
                 <<"settled", "sink">>}

LEMMA GlobalFrame ==
    ASSUME NEW q, NEW X
    PROVE  /\ UNCHANGED buffer => Grows(<<"buffer", "sink">>, q, X)
           /\ UNCHANGED jobs => Grows(<<"jobs", "sink">>, q, X)
           /\ UNCHANGED results => Grows(<<"results", "sink">>, q, X)
           /\ FaultsGrow /\ (faults' = 0 => UNCHANGED settled)
                 => Grows(<<"settled", "sink">>, q, X)
<1>1. UNCHANGED buffer => Grows(<<"buffer", "sink">>, q, X)
  BY AtValues, AtValuesPrime DEF Grows
<1>2. UNCHANGED jobs => Grows(<<"jobs", "sink">>, q, X)
  BY AtValues, AtValuesPrime DEF Grows
<1>3. UNCHANGED results => Grows(<<"results", "sink">>, q, X)
  BY AtValues, AtValuesPrime DEF Grows
<1>4. FaultsGrow /\ (faults' = 0 => UNCHANGED settled) => Grows(<<"settled", "sink">>, q, X)
  BY AtValues, AtValuesPrime DEF Grows, Quiet, FaultsGrow
<1>5. QED
  BY <1>1, <1>2, <1>3, <1>4

\* What moves in a step of the flush of f.
LEMMA FlushMoves ==
    ASSUME TypeOK, NEW f \in Flushers, NEW g, fl' = [fl EXCEPT ![f] = g],
           FaultsGrow, UNCHANGED work, NEW p, NEW q, NEW X,
           \A r \in GlobalPlaces : Grows(r, q, X),
           \A r \in FlushPlaces(f) : Grows(r, q, X),
           p # q => X \cap At(p)' = {}
    PROVE  Moves(X, p, q)
<1>1. fl \in [Flushers -> FlushState]
  BY DEF TypeOK
<1>2. ASSUME NEW r \in Places PROVE Grows(r, q, X)
  <2>1. CASE r \in GlobalPlaces
    BY <2>1
  <2>2. CASE r \in FlushPlaces(f)
    BY <2>2
  <2>3. CASE \E w \in Workers : r = <<"work", w>>
    BY <2>3, AtValues, AtValuesPrime DEF Grows
  <2>4. CASE r \notin FlushPlaces(f) /\ \E h \in Flushers : r \in FlushPlaces(h)
    BY <1>1, <2>4, FlushFrame DEF Grows
  <2>5. QED
    BY <2>1, <2>2, <2>3, <2>4, PlaceCases DEF FlushPlaces, GlobalPlaces
<1>3. QED
  BY <1>2 DEF Moves, Grows

\* What moves in a step of worker w.
LEMMA WorkMoves ==
    ASSUME TypeOK, NEW w \in Workers, NEW x, work' = [work EXCEPT ![w] = x],
           FaultsGrow, UNCHANGED fl, NEW p, NEW q, NEW X,
           \A r \in GlobalPlaces : Grows(r, q, X),
           Grows(<<"work", w>>, q, X),
           p # q => X \cap At(p)' = {}
    PROVE  Moves(X, p, q)
<1>1. ASSUME NEW r \in Places PROVE Grows(r, q, X)
  <2>1. CASE r \in GlobalPlaces
    BY <2>1
  <2>2. CASE r = <<"work", w>>
    BY <2>2
  <2>3. CASE r # <<"work", w>> /\ \E v \in Workers : r = <<"work", v>>
    <3>1. PICK v \in Workers : r = <<"work", v>>
      BY <2>3
    <3>2. v # w /\ work'[v] = work[v]
      BY <2>3, <3>1 DEF TypeOK
    <3>3. QED
      BY <3>1, <3>2, AtValues, AtValuesPrime DEF Grows
  <2>4. CASE \E h \in Flushers : r \in FlushPlaces(h)
    BY <2>4, AtValues, AtValuesPrime DEF Grows, FlushPlaces, Quiet, FaultsGrow
  <2>5. QED
    BY <2>1, <2>2, <2>3, <2>4, PlaceCases DEF FlushPlaces, GlobalPlaces
<1>2. QED
  BY <1>1 DEF Moves, Grows

\* The places of one flush, from those of its record.
LEMMA FlushGrows ==
    ASSUME NEW f \in Flushers, NEW g, fl'[f] = g, FaultsGrow, NEW q, NEW X,
           Unsent(g) \subseteq (IF q = <<"own", f>> THEN Unsent(fl[f]) \cup X ELSE Unsent(fl[f])),
           UnionOf(ResSets(g.res)) \subseteq
              (IF q = <<"res", f>> THEN UnionOf(ResSets(fl[f].res)) \cup X
                                   ELSE UnionOf(ResSets(fl[f].res))),
           InBatches(g) \subseteq
              (IF q = <<"batches", f>> THEN InBatches(fl[f]) \cup X ELSE InBatches(fl[f])),
           Quiet(ToAck(fl[f]))' \subseteq
              (IF q = <<"toAck", f>> THEN Quiet(ToAck(fl[f])) \cup X ELSE Quiet(ToAck(fl[f])))
    PROVE  \A r \in FlushPlaces(f) : Grows(r, q, X)
<1>1. Grows(<<"own", f>>, q, X)
  BY AtValues, AtValuesPrime DEF Grows
<1>2. Grows(<<"res", f>>, q, X)
  BY AtValues, AtValuesPrime DEF Grows
<1>3. Grows(<<"batches", f>>, q, X)
  BY AtValues, AtValuesPrime DEF Grows
<1>4. Grows(<<"toAck", f>>, q, X)
  BY AtValues, AtValuesPrime DEF Grows
<1>5. QED
  BY <1>1, <1>2, <1>3, <1>4 DEF FlushPlaces

LEMMA NarrowerGrows ==
    ASSUME NEW f \in Flushers, NEW g, fl'[f] = g, FaultsGrow,
           Narrower(g, fl[f]), ShapeOf(fl[f]), NEW q, NEW X
    PROVE  \A r \in FlushPlaces(f) : Grows(r, q, X)
<1>1. /\ Unsent(g) \subseteq Unsent(fl[f])
      /\ UnionOf(ResSets(g.res)) \subseteq UnionOf(ResSets(fl[f].res))
      /\ InBatches(g) \subseteq InBatches(fl[f])
      /\ ToAck(g) \subseteq ToAck(fl[f])
  BY NarrowerPlaces
<1>2. Quiet(ToAck(fl[f]))' \subseteq Quiet(ToAck(fl[f]))
  BY <1>1 DEF Quiet, FaultsGrow
<1>3. QED
  BY <1>1, <1>2, FlushGrows

LEMMA HandleMessagePlaces ==
    ASSUME PlaceInv, TypeOK, TypeOK', NEW m \in Msgs, HandleMessage(m)
    PROVE  PlaceInv'
<1> DEFINE f == "handler"
           e == <<m, dcount[m] + 1>>
           b == <<"buffer", "sink">>
<1>1. f \in Flushers /\ fl[f] \in FlushState /\ fl[f].pc = "idle"
  BY DEF TypeOK, Flushers, HandleMessage
<1>2. PICK g \in {fl[f], [fl[f] EXCEPT !.pc = "flush"]} : fl' = [fl EXCEPT ![f] = g]
  BY <1>1 DEF HandleMessage, TypeOK
<1>3. Narrower(g, fl[f]) /\ fl'[f] = g
  <2>1. Narrower(fl[f], fl[f])
    BY <1>1 DEF Narrower
  <2>2. Narrower([fl[f] EXCEPT !.pc = "flush"], fl[f])
    BY <1>1 DEF Narrower, FlushState
  <2>3. QED
    BY <1>1, <1>2, <2>1, <2>2 DEF TypeOK
<1>4. /\ buffer' = Append(buffer, e) /\ dcount' = [dcount EXCEPT ![m] = dcount[m] + 1]
      /\ UNCHANGED <<rows, jobs, work, results, settled, faults>>
  BY DEF HandleMessage, pool, bounds
<1>5. e \in Delivery /\ dcount[m] \in Nat /\ dcount[m] + 1 \in 1 .. MaxDeliver
  BY DEF HandleMessage, Deliverable, TypeOK, Delivery
<1>6. \A r \in Places : e \notin At(r)
  BY <1>5 DEF PlaceInv, Known
<1>7. ShapeOf(fl[f])
  BY <1>1 DEF PlaceInv, Shape
<1>8. FaultsGrow
  BY <1>4 DEF FaultsGrow
<1>9. Elems(buffer') = Elems(buffer) \cup {e} /\ Distinct(buffer')
  <2>1. e \notin Elems(buffer)
    BY <1>6, AtValues, PlacesAre
  <2>2. QED
    BY <1>4, <1>5, <2>1, ElemsAppend DEF TypeOK, PlaceInv, Shape
<1>10. Moves({e}, b, b)
  <2>1. \A r \in GlobalPlaces : Grows(r, b, {e})
    <3>1. Grows(b, b, {e})
      BY <1>9, AtValues, AtValuesPrime DEF Grows
    <3>2. /\ Grows(<<"jobs", "sink">>, b, {e}) /\ Grows(<<"results", "sink">>, b, {e})
          /\ Grows(<<"settled", "sink">>, b, {e})
      BY <1>4, <1>8, GlobalFrame
    <3>3. QED
      BY <3>1, <3>2 DEF GlobalPlaces
  <2>2. \A r \in FlushPlaces(f) : Grows(r, b, {e})
    BY <1>1, <1>3, <1>7, <1>8, NarrowerGrows
  <2>3. QED
    BY <1>1, <1>2, <1>4, <1>8, <2>1, <2>2, FlushMoves
<1>11. OnePlace'
  BY <1>6, <1>10, MovesOnePlace, PlacesAre DEF PlaceInv
<1>12. Known'
  <2> SUFFICES ASSUME NEW r \in Places, NEW d \in At(r)'
               PROVE  d \in Delivery /\ d[2] <= dcount'[d[1]]
    BY DEF Known, Places, Pipeline
  <2>1. d = e \/ d \in At(r)
    BY <1>10 DEF Moves
  <2>2. CASE d = e
    BY <1>4, <1>5, <2>2 DEF TypeOK
  <2>3. CASE d \in At(r)
    <3>1. d \in Delivery /\ d[2] <= dcount[d[1]] /\ d[1] \in Msgs /\ d[2] \in Nat
      BY <2>3 DEF PlaceInv, Known, Delivery
    <3>2. dcount \in [Msgs -> 0 .. MaxDeliver] /\ dcount' \in [Msgs -> 0 .. MaxDeliver]
      BY Zenon DEF TypeOK
    <3>3. dcount' = [dcount EXCEPT ![m] = dcount[m] + 1]
      BY <1>4
    <3>4. dcount[d[1]] \in Nat /\ dcount'[d[1]] \in Nat
      BY <3>1, <3>2
    <3>5. dcount[d[1]] <= dcount'[d[1]]
      BY <3>1, <3>2, <3>3, <3>4
    <3>6. QED
      BY <3>1, <3>4, <3>5
  <2>4. QED
    BY <2>1, <2>2, <2>3
<1>13. RowsLeft'
  <2>1. InFlight' \subseteq InFlight \cup {e}
    BY <1>10, PlacesAre DEF InFlight, Moves, Pipeline
  <2>2. QED
    BY <1>4, <1>5, <2>1, RowsLeftArrival DEF PlaceInv
<1>14. Shape'
  <2>1. \A h \in Flushers : ShapeOf(fl'[h])
    BY <1>1, <1>2, <1>3, <1>7, NarrowerPlaces DEF PlaceInv, Shape, TypeOK
  <2>2. QED
    BY <1>4, <1>9, <2>1 DEF PlaceInv, Shape
<1>15. QED
  BY <1>11, <1>12, <1>13, <1>14 DEF PlaceInv

LEMMA ExtractBufferPlaces ==
    ASSUME PlaceInv, TypeOK, TypeOK', NEW f \in Flushers, ExtractBuffer(f)
    PROVE  PlaceInv'
<1> DEFINE X == Elems(buffer)
           p == <<"buffer", "sink">>
           q == <<"own", f>>
           h == [IdleFlush EXCEPT !.pc = "submit", !.own = buffer]
           g == IF buffer = <<>> THEN IdleFlush ELSE h
<1>1. /\ fl' = [fl EXCEPT ![f] = g] /\ buffer' = <<>> /\ fl[f].pc = "flush"
      /\ UNCHANGED <<rows, dcount, jobs, work, results, settled, faults>>
  BY DEF ExtractBuffer, service, pool, bounds
<1>2. /\ IdleFlush.res = <<>> /\ IdleFlush.pc = "idle" /\ IdleFlush.failed = {}
      /\ \A v \in Schemas : IdleFlush.batches[v] = {}
  BY DEF IdleFlush
<1>3. /\ h.pc = "submit" /\ h.own = buffer /\ h.sent = 0 /\ h.res = <<>> /\ h.failed = {}
      /\ \A v \in Schemas : h.batches[v] = {}
  BY DEF IdleFlush
<1> HIDE DEF h
<1>4. FaultsGrow /\ fl'[f] = g
  BY <1>1 DEF FaultsGrow, TypeOK
<1>5. Unsent(g) \subseteq X
  <2>1. Unsent(h) \subseteq X
    BY <1>3 DEF Unsent, Elems
  <2>2. Unsent(IdleFlush) = {}
    BY <1>2 DEF Unsent
  <2>3. QED
    BY <2>1, <2>2
<1>6. /\ g.res = <<>> /\ (\A v \in Schemas : g.batches[v] = {})
      /\ g.pc \in {"idle", "submit"} /\ (g.pc = "submit" => g.own = buffer) /\ g.failed = {}
  BY <1>2, <1>3
<1> HIDE DEF g
<1>7. UnionOf(ResSets(g.res)) = {} /\ InBatches(g) = {} /\ ToAck(g) = {}
  BY <1>6 DEF UnionOf, ResSets, InBatches, ToAck
<1>8. ShapeOf(g)
  <2>1. g.pc = "submit" => Distinct(g.own)
    BY <1>6 DEF PlaceInv, Shape
  <2>2. QED
    BY <1>6, <2>1 DEF ShapeOf, Apart, ResSets
<1>9. Moves(X, p, q)
  <2>1. At(p)' = {} /\ At(p) = X
    BY <1>1, AtValues, AtValuesPrime DEF Elems
  <2>2. \A r \in GlobalPlaces : Grows(r, q, X)
    <3>1. Grows(p, q, X)
      BY <2>1 DEF Grows
    <3>2. /\ Grows(<<"jobs", "sink">>, q, X) /\ Grows(<<"results", "sink">>, q, X)
          /\ Grows(<<"settled", "sink">>, q, X)
      BY <1>1, <1>4, GlobalFrame
    <3>3. QED
      BY <3>1, <3>2 DEF GlobalPlaces
  <2>3. \A r \in FlushPlaces(f) : Grows(r, q, X)
    <3>1. Quiet(ToAck(fl[f]))' = {}
      BY <1>4, <1>7 DEF Quiet
    <3>2. QED
      BY <1>4, <1>5, <1>7, <3>1, FlushGrows
  <2>4. QED
    BY <1>1, <1>4, <2>1, <2>2, <2>3, FlushMoves
<1>10. OnePlace' /\ Known' /\ RowsLeft'
  <2>1. X \subseteq At(p)
    BY AtValues
  <2>2. p \in Pipeline /\ p \in Places /\ q \in Places
    BY PlacesAre
  <2>3. QED
    BY <1>1, <1>9, <2>1, <2>2, MoveStep DEF PlaceInv
<1>11. Shape'
  <2>1. \A i \in Flushers : ShapeOf(fl'[i])
    BY <1>1, <1>4, <1>8 DEF PlaceInv, Shape, TypeOK
  <2>2. Distinct(buffer')
    BY <1>1 DEF Distinct
  <2>3. QED
    BY <1>1, <2>1, <2>2 DEF PlaceInv, Shape
<1>12. QED
  BY <1>10, <1>11 DEF PlaceInv

\* A job is a stretch of the messages of its flush.
LEMMA Stretch ==
    ASSUME NEW s \in Seq(Delivery), NEW a \in Nat \ {0}, NEW b \in Nat, b <= Len(s), Distinct(s)
    PROVE  /\ Elems(SubSeq(s, a, b)) = {s[i] : i \in a .. b}
           /\ Distinct(SubSeq(s, a, b))
           /\ \A c \in Nat : c > b => {s[i] : i \in a .. b} \cap {s[i] : i \in c .. Len(s)} = {}
<1> DEFINE t == SubSeq(s, a, b)
<1>1. /\ Len(t) = (IF a <= b THEN b - a + 1 ELSE 0) /\ Len(s) \in Nat
      /\ \A i \in 1 .. Len(t) : t[i] = s[a + i - 1]
  BY SubSeqProperties
<1> HIDE DEF t
<1>2. Elems(t) = {s[i] : i \in a .. b}
  <2>1. ASSUME NEW x \in Elems(t) PROVE x \in {s[i] : i \in a .. b}
    <3>1. PICK i \in 1 .. Len(t) : x = t[i]
      BY DEF Elems
    <3>2. a + i - 1 \in a .. b /\ x = s[a + i - 1]
      BY <1>1, <3>1
    <3>3. QED
      BY <3>2
  <2>2. ASSUME NEW i \in a .. b PROVE s[i] \in Elems(t)
    <3>1. i - a + 1 \in 1 .. Len(t) /\ a + (i - a + 1) - 1 = i
      BY <1>1
    <3>2. s[i] = t[i - a + 1]
      BY <1>1, <3>1
    <3>3. QED
      BY <3>1, <3>2 DEF Elems
  <2>3. QED
    BY <2>1, <2>2
<1>3. Distinct(t)
  <2> SUFFICES ASSUME NEW i \in 1 .. Len(t), NEW j \in 1 .. Len(t), t[i] = t[j]
               PROVE  i = j
    BY DEF Distinct
  <2>1. a + i - 1 \in 1 .. Len(s) /\ a + j - 1 \in 1 .. Len(s)
    BY <1>1
  <2>2. s[a + i - 1] = s[a + j - 1]
    BY <1>1
  <2>3. a + i - 1 = a + j - 1
    BY <2>1, <2>2 DEF Distinct
  <2>4. QED
    BY <2>3
<1>4. ASSUME NEW c \in Nat, c > b
      PROVE  {s[i] : i \in a .. b} \cap {s[i] : i \in c .. Len(s)} = {}
  <2> SUFFICES ASSUME NEW i \in a .. b, NEW j \in c .. Len(s), s[i] = s[j]
               PROVE  FALSE
    OBVIOUS
  <2>1. i \in 1 .. Len(s) /\ j \in 1 .. Len(s) /\ i < j
    BY <1>1, <1>4
  <2>2. QED
    BY <2>1 DEF Distinct
<1>5. QED
  BY <1>2, <1>3, <1>4 DEF t

LEMMA SubmitJobPlaces ==
    ASSUME PlaceInv, TypeOK, TypeOK', NEW f \in Flushers, SubmitJob(f)
    PROVE  PlaceInv'
<1> DEFINE own == fl[f].own
           sent == fl[f].sent
           upto == sent + ChunkSize(Len(own))
           last == IF upto > Len(own) THEN Len(own) ELSE upto
           n == fl[f].njobs + 1
           res == IF last = Len(own) THEN [j \in 1 .. n |-> <<>>] ELSE <<>>
           g == [fl[f] EXCEPT !.sent = last, !.njobs = n,
                              !.pc = IF last = Len(own) THEN "collect" ELSE "submit",
                              !.res = res]
           job == [id |-> n, msgs |-> SubSeq(own, sent + 1, last)]
           X == Elems(SubSeq(own, sent + 1, last))
           p == <<"own", f>>
           q == <<"jobs", "sink">>
<1>1. /\ fl' = [fl EXCEPT ![f] = g] /\ fl[f].pc = "submit" /\ jobs' = Append(jobs, job)
      /\ UNCHANGED <<rows, dcount, buffer, work, results, settled, faults>>
  BY DEF SubmitJob, service, bounds
<1>2. fl[f] \in FlushState /\ ShapeOf(fl[f]) /\ Distinct(own) /\ fl[f].failed = {}
  BY <1>1 DEF TypeOK, PlaceInv, Shape, ShapeOf
<1>3. own \in Seq(Delivery) /\ Len(own) \in Nat /\ sent \in Nat /\ n \in Nat
  BY <1>2 DEF FlushState
<1>4. ChunkSize(Len(own)) \in Nat
  <2>1. Len(own) \div PoolSize \in Nat
    BY <1>3, PoolSizeType, DivType
  <2>2. QED
    BY <2>1 DEF ChunkSize
<1>5. last \in Nat /\ last <= Len(own) /\ (last < sent => last = Len(own))
  BY <1>3, <1>4
<1>6. /\ g.pc = (IF last = Len(own) THEN "collect" ELSE "submit")
      /\ g.own = own /\ g.sent = last /\ g.res = res
      /\ g.batches = fl[f].batches /\ g.failed = fl[f].failed
  BY <1>2 DEF FlushState
<1>7. Len(res) \in Nat /\ \A j \in 1 .. Len(res) : res[j] = <<>>
  BY <1>3
<1>8. fl'[f] = g /\ FaultsGrow
  BY <1>1 DEF TypeOK, FaultsGrow
<1> HIDE DEF last, res, g
<1>9. /\ X = {own[i] : i \in sent + 1 .. last} /\ Distinct(SubSeq(own, sent + 1, last))
      /\ X \cap {own[i] : i \in last + 1 .. Len(own)} = {}
  <2>1. sent + 1 \in Nat \ {0} /\ last + 1 \in Nat /\ last + 1 > last
    BY <1>3, <1>5
  <2>2. /\ X = {own[i] : i \in sent + 1 .. last} /\ Distinct(SubSeq(own, sent + 1, last))
        /\ \A c \in Nat : c > last =>
              {own[i] : i \in sent + 1 .. last} \cap {own[i] : i \in c .. Len(own)} = {}
    BY <1>2, <1>3, <1>5, <2>1, Stretch
  <2>3. QED
    BY <2>1, <2>2
<1>10. Unsent(g) \subseteq Unsent(fl[f]) /\ X \cap Unsent(g) = {} /\ X \subseteq Unsent(fl[f])
  <2>1. Unsent(fl[f]) = {own[i] : i \in sent + 1 .. Len(own)}
    BY <1>1 DEF Unsent
  <2>2. X \subseteq Unsent(fl[f])
    BY <1>3, <1>5, <1>9, <2>1
  <2>3. CASE last = Len(own)
    <3>1. Unsent(g) = {}
      BY <1>6, <2>3 DEF Unsent
    <3>2. QED
      BY <2>2, <3>1
  <2>4. CASE last # Len(own)
    <3>1. Unsent(g) = {own[i] : i \in last + 1 .. Len(own)} /\ last >= sent
      BY <1>3, <1>5, <1>6, <2>4 DEF Unsent
    <3>2. QED
      BY <1>3, <1>5, <1>9, <2>1, <2>2, <3>1
  <2>5. QED
    BY <2>3, <2>4
<1>11. UnionOf(ResSets(g.res)) = {} /\ InBatches(g) = InBatches(fl[f]) /\ ToAck(g) = {}
  BY <1>6, <1>7 DEF UnionOf, ResSets, ItemSet, InBatches, ToAck
<1>12. ShapeOf(g)
  <2>1. \A j \in 1 .. Len(g.res) : DistinctItems(g.res[j])
    BY <1>6, <1>7 DEF DistinctItems
  <2>2. Apart(ResSets(g.res))
    BY <1>6, <1>7 DEF Apart, ResSets, ItemSet
  <2>3. QED
    BY <1>2, <1>6, <2>1, <2>2 DEF ShapeOf
<1>13. /\ job \in Job /\ X \in SUBSET Delivery /\ jobs \in Seq(Job)
       /\ job.msgs = SubSeq(own, sent + 1, last)
  <2>1. SubSeq(own, sent + 1, last) \in Seq(Delivery)
    BY <1>3, <1>5, SubSeqProperties
  <2>2. QED
    BY <2>1, <1>3, ElemsType DEF Job, TypeOK
<1>14. /\ JobSets(jobs') = Append(JobSets(jobs), X)
       /\ JobSets(jobs) \in Seq(SUBSET Delivery)
  BY <1>1, <1>13, JobSetsProperties
<1>15. /\ UnionOf(JobSets(jobs')) = UnionOf(JobSets(jobs)) \cup X
       /\ Apart(JobSets(jobs'))
  <2>1. X \cap UnionOf(JobSets(jobs)) = {}
    <3>1. At(p) = Unsent(fl[f]) /\ At(q) = UnionOf(JobSets(jobs)) /\ p # q
      BY AtValues
    <3>2. p \in Places /\ q \in Places
      BY PlacesAre
    <3>3. QED
      BY <1>10, <3>1, <3>2 DEF PlaceInv, OnePlace
  <2>2. QED
    BY <1>13, <1>14, <2>1, AppendApart DEF PlaceInv, Shape
<1>16. Moves(X, p, q)
  <2>1. \A r \in GlobalPlaces : Grows(r, q, X)
    <3>1. Grows(q, q, X)
      BY <1>15, AtValues, AtValuesPrime DEF Grows
    <3>2. /\ Grows(<<"buffer", "sink">>, q, X) /\ Grows(<<"results", "sink">>, q, X)
          /\ Grows(<<"settled", "sink">>, q, X)
      BY <1>1, <1>8, GlobalFrame
    <3>3. QED
      BY <3>1, <3>2 DEF GlobalPlaces
  <2>2. \A r \in FlushPlaces(f) : Grows(r, q, X)
    <3>1. Quiet(ToAck(fl[f]))' = {}
      BY <1>8, <1>11 DEF Quiet
    <3>2. QED
      BY <1>8, <1>10, <1>11, <3>1, FlushGrows
  <2>3. X \cap At(p)' = {}
    BY <1>8, <1>10, AtValuesPrime
  <2>4. QED
    BY <1>1, <1>8, <2>1, <2>2, <2>3, FlushMoves
<1>17. OnePlace' /\ Known' /\ RowsLeft'
  <2>1. X \subseteq At(p)
    BY <1>10, AtValues
  <2>2. p \in Pipeline /\ p \in Places /\ q \in Places
    BY PlacesAre
  <2>3. QED
    BY <1>1, <1>16, <2>1, <2>2, MoveStep DEF PlaceInv
<1>18. Shape'
  <2>1. \A i \in Flushers : ShapeOf(fl'[i])
    BY <1>1, <1>8, <1>12 DEF PlaceInv, Shape, TypeOK
  <2>2. \A i \in 1 .. Len(jobs') : Distinct(jobs'[i].msgs)
    BY <1>1, <1>9, <1>13 DEF PlaceInv, Shape
  <2>3. QED
    BY <1>1, <1>15, <2>1, <2>2 DEF PlaceInv, Shape
<1>19. QED
  BY <1>17, <1>18 DEF PlaceInv

LEMMA WorkerTakePlaces ==
    ASSUME PlaceInv, TypeOK, TypeOK', NEW w \in Workers, WorkerTake(w)
    PROVE  PlaceInv'
<1> DEFINE job == Head(jobs)
           X == Elems(job.msgs)
           p == <<"jobs", "sink">>
           q == <<"work", w>>
<1>1. /\ jobs # <<>> /\ jobs' = Tail(jobs) /\ jobs \in Seq(Job)
      /\ UNCHANGED <<rows, dcount, buffer, fl, results, settled>>
  BY DEF WorkerTake, service, TypeOK
<1>2. job \in Job /\ job.msgs \in Seq(Delivery) /\ Len(job.msgs) \in Nat
  <2>1. job \in Job
    BY <1>1
  <2>2. QED
    BY <2>1 DEF Job
<1>3. PICK ok \in BOOLEAN :
         work' = [work EXCEPT ![w] =
            [id |-> job.id,
             items |-> [i \in 1 .. Len(job.msgs) |->
                [d |-> job.msgs[i], ok |-> ok /\ Kind[job.msgs[i][1]] # "unmappable"]]]]
  BY DEF WorkerTake
<1> DEFINE items == [i \in 1 .. Len(job.msgs) |->
                [d |-> job.msgs[i], ok |-> ok /\ Kind[job.msgs[i][1]] # "unmappable"]]
           x == [id |-> job.id, items |-> items]
<1>4. FaultsGrow
  BY FaultsGrowLemma DEF WorkerTake
<1>5. /\ Len(items) = Len(job.msgs)
      /\ \A i \in 1 .. Len(job.msgs) : items[i].d = job.msgs[i]
  BY <1>2
<1> HIDE DEF items
<1>6. ItemSet(items) = X
  BY <1>5 DEF ItemSet, Elems
<1>7. Distinct(job.msgs)
  BY <1>1 DEF PlaceInv, Shape
<1>8. DistinctItems(items)
  BY <1>5, <1>7 DEF Distinct, DistinctItems
<1>9. /\ JobSets(jobs) \in Seq(SUBSET Delivery) /\ JobSets(jobs) # <<>>
      /\ JobSets(jobs') = Tail(JobSets(jobs)) /\ Head(JobSets(jobs)) = X
  BY <1>1, JobSetsProperties
<1>10. /\ UnionOf(JobSets(jobs')) = UnionOf(JobSets(jobs)) \ X
       /\ X \subseteq UnionOf(JobSets(jobs)) /\ Apart(JobSets(jobs'))
  BY <1>9, TailApart DEF PlaceInv, Shape
<1>11. work' = [work EXCEPT ![w] = x] /\ work'[w].items = items
  BY <1>3 DEF items, TypeOK
<1>12. Moves(X, p, q)
  <2>1. \A r \in GlobalPlaces : Grows(r, q, X)
    <3>1. Grows(p, q, X)
      BY <1>10, AtValues, AtValuesPrime DEF Grows
    <3>2. /\ Grows(<<"buffer", "sink">>, q, X) /\ Grows(<<"results", "sink">>, q, X)
          /\ Grows(<<"settled", "sink">>, q, X)
      BY <1>1, <1>4, GlobalFrame
    <3>3. QED
      BY <3>1, <3>2 DEF GlobalPlaces
  <2>2. Grows(q, q, X)
    BY <1>6, <1>11, AtValues, AtValuesPrime DEF Grows
  <2>3. X \cap At(p)' = {}
    BY <1>10, AtValuesPrime
  <2>4. QED
    BY <1>1, <1>4, <1>11, <2>1, <2>2, <2>3, WorkMoves
<1>13. OnePlace' /\ Known' /\ RowsLeft'
  <2>1. X \subseteq At(p)
    BY <1>10, AtValues
  <2>2. p \in Pipeline /\ p \in Places /\ q \in Places
    BY PlacesAre
  <2>3. QED
    BY <1>1, <1>12, <2>1, <2>2, MoveStep DEF PlaceInv
<1>14. Shape'
  <2>1. \A i \in 1 .. Len(jobs') : Distinct(jobs'[i].msgs)
    <3>1. \A i \in 1 .. Len(jobs') : jobs'[i] = jobs[i + 1] /\ i + 1 \in 1 .. Len(jobs)
      BY <1>1
    <3>2. QED
      BY <3>1 DEF PlaceInv, Shape
  <2>2. \A v \in Workers : DistinctItems(work'[v].items)
    BY <1>8, <1>11 DEF PlaceInv, Shape, TypeOK
  <2>3. QED
    BY <1>1, <1>10, <2>1, <2>2 DEF PlaceInv, Shape
<1>15. QED
  BY <1>13, <1>14 DEF PlaceInv

LEMMA WorkerPutPlaces ==
    ASSUME PlaceInv, TypeOK, TypeOK', NEW w \in Workers, WorkerPut(w)
    PROVE  PlaceInv'
<1> DEFINE x == work[w]
           X == ItemSet(x.items)
           p == <<"work", w>>
           q == <<"results", "sink">>
<1>1. /\ results' = Append(results, x) /\ work' = [work EXCEPT ![w] = NoWork]
      /\ results \in Seq(Result) /\ x \in Result
      /\ UNCHANGED <<rows, dcount, buffer, fl, jobs, settled, faults>>
  BY DEF WorkerPut, service, bounds, TypeOK
<1>2. X \in SUBSET Delivery
  BY <1>1, ItemSetType DEF Result
<1>3. FaultsGrow /\ work'[w].items = <<>>
  BY <1>1 DEF FaultsGrow, TypeOK, NoWork
<1>4. At(p) = X /\ At(p)' = {}
  BY <1>3, AtValues, AtValuesPrime DEF ItemSet
<1>5. X \cap UnionOf(ResultSets(results)) = {}
  <2>1. At(q) = UnionOf(ResultSets(results)) /\ p # q
    BY AtValues
  <2>2. p \in Places /\ q \in Places
    BY PlacesAre
  <2>3. QED
    BY <1>4, <2>1, <2>2 DEF PlaceInv, OnePlace
<1>6. /\ ResultSets(results') = Append(ResultSets(results), X)
      /\ ResultSets(results) \in Seq(SUBSET Delivery)
  BY <1>1, ResultSetsProperties
<1>7. UnionOf(ResultSets(results')) = UnionOf(ResultSets(results)) \cup X
      /\ Apart(ResultSets(results'))
  BY <1>2, <1>5, <1>6, AppendApart DEF PlaceInv, Shape
<1>8. Moves(X, p, q)
  <2>1. \A r \in GlobalPlaces : Grows(r, q, X)
    <3>1. Grows(q, q, X)
      BY <1>7, AtValues, AtValuesPrime DEF Grows
    <3>2. /\ Grows(<<"buffer", "sink">>, q, X) /\ Grows(<<"jobs", "sink">>, q, X)
          /\ Grows(<<"settled", "sink">>, q, X)
      BY <1>1, <1>3, GlobalFrame
    <3>3. QED
      BY <3>1, <3>2 DEF GlobalPlaces
  <2>2. Grows(p, q, X)
    BY <1>4 DEF Grows
  <2>3. QED
    BY <1>1, <1>3, <1>4, <2>1, <2>2, WorkMoves
<1>9. OnePlace' /\ Known' /\ RowsLeft'
  <2>1. p \in Pipeline /\ p \in Places /\ q \in Places
    BY PlacesAre
  <2>2. QED
    BY <1>1, <1>4, <1>8, <2>1, MoveStep DEF PlaceInv
<1>10. Shape'
  <2>1. \A i \in 1 .. Len(results') : DistinctItems(results'[i].items)
    BY <1>1 DEF PlaceInv, Shape
  <2>2. \A v \in Workers : DistinctItems(work'[v].items)
    <3>1. DistinctItems(<<>>)
      BY DEF DistinctItems
    <3>2. QED
      BY <1>1, <1>3, <3>1 DEF PlaceInv, Shape, TypeOK
  <2>3. QED
    BY <1>1, <1>7, <2>1, <2>2 DEF PlaceInv, Shape
<1>11. QED
  BY <1>9, <1>10 DEF PlaceInv

\* Nothing moves when the records of the flushes, the buffer and the channels stay.
LEMMA StillPlaces ==
    ASSUME PlaceInv, TypeOK, TypeOK',
           UNCHANGED <<fl, buffer, jobs, results, rows, dcount>>, FaultsGrow,
           faults' = 0 => UNCHANGED settled,
           \A w \in Workers : work'[w] = work[w] \/ work'[w].items = <<>>
    PROVE  PlaceInv'
<1>1. ASSUME NEW r \in Places PROVE At(r)' \subseteq At(r)
  <2>1. CASE r \in GlobalPlaces
    BY <2>1, AtValues, AtValuesPrime DEF GlobalPlaces, Quiet, FaultsGrow
  <2>2. CASE \E w \in Workers : r = <<"work", w>>
    BY <2>2, AtValues, AtValuesPrime DEF ItemSet
  <2>3. CASE \E h \in Flushers : r \in FlushPlaces(h)
    BY <2>3, AtValues, AtValuesPrime DEF FlushPlaces, Quiet, FaultsGrow
  <2>4. QED
    BY <2>1, <2>2, <2>3, PlaceCases DEF FlushPlaces, GlobalPlaces
<1>2. OnePlace' /\ Known' /\ RowsLeft'
  BY <1>1, ShrinkStep DEF PlaceInv
<1>3. DistinctItems(<<>>)
  BY DEF DistinctItems
<1>4. Shape'
  BY <1>3 DEF PlaceInv, Shape
<1>5. QED
  BY <1>2, <1>4 DEF PlaceInv

LEMMA CollectPlaces ==
    ASSUME PlaceInv, TypeOK, TypeOK', NEW f \in Flushers, Collect(f)
    PROVE  PlaceInv'
<1> DEFINE x == Head(results)
           X == ItemSet(x.items)
           p == <<"results", "sink">>
           q == <<"res", f>>
           old == fl[f].res
           new == [i \in DOMAIN fl[f].res |-> IF i = x.id THEN x.items ELSE fl[f].res[i]]
           g == [fl[f] EXCEPT !.got = fl[f].got + 1, !.res = new,
                        !.pc = IF fl[f].got + 1 = fl[f].njobs THEN "prepare" ELSE "collect"]
<1>1. /\ results # <<>> /\ results' = Tail(results) /\ results \in Seq(Result)
      /\ fl' = [fl EXCEPT ![f] = g] /\ fl[f].pc = "collect"
      /\ UNCHANGED <<rows, dcount, buffer, jobs, work, settled, faults>>
  BY DEF Collect, service, bounds, TypeOK
<1>2. fl[f] \in FlushState /\ old \in Seq(Seq(Item)) /\ Len(old) \in Nat
  <2>1. fl[f] \in FlushState
    BY DEF TypeOK
  <2>2. old \in Seq(Seq(Item))
    BY <2>1 DEF FlushState
  <2>3. QED
    BY <2>1, <2>2
<1>3. x \in Result /\ x.items \in Seq(Item)
  <2>1. x \in Result
    BY <1>1
  <2>2. QED
    BY <2>1 DEF Result
<1>4. /\ g.pc \in {"prepare", "collect"} /\ g.res = new /\ g.failed = fl[f].failed
      /\ g.batches = fl[f].batches
  BY <1>2 DEF FlushState
<1>5. fl'[f] = g /\ FaultsGrow /\ ShapeOf(fl[f])
  BY <1>1 DEF TypeOK, FaultsGrow, PlaceInv, Shape
<1>19. new \in [1 .. Len(old) -> Seq(Item)]
       /\ \A i \in 1 .. Len(old) : new[i] = IF i = x.id THEN x.items ELSE old[i]
  BY <1>2, <1>3
<1> HIDE DEF g, new
<1>6. /\ new \in Seq(Seq(Item)) /\ Len(new) = Len(old)
      /\ \A i \in 1 .. Len(old) : new[i] = IF i = x.id THEN x.items ELSE old[i]
  BY <1>2, <1>19, SeqOfLen
<1>7. fl[f].failed = {}
  BY <1>1, <1>5 DEF ShapeOf
<1>8. X \in SUBSET Delivery /\ DistinctItems(x.items)
  BY <1>1, <1>3, ItemSetType DEF PlaceInv, Shape
<1>9. /\ ResultSets(results) \in Seq(SUBSET Delivery) /\ ResultSets(results) # <<>>
      /\ ResultSets(results') = Tail(ResultSets(results)) /\ Head(ResultSets(results)) = X
  BY <1>1, ResultSetsProperties
<1>10. /\ UnionOf(ResultSets(results')) = UnionOf(ResultSets(results)) \ X
       /\ X \subseteq UnionOf(ResultSets(results)) /\ Apart(ResultSets(results'))
  BY <1>9, TailApart DEF PlaceInv, Shape
<1>11. X \cap UnionOf(ResSets(old)) = {}
  <2>1. At(p) = UnionOf(ResultSets(results)) /\ At(q) = UnionOf(ResSets(old)) /\ p # q
    BY AtValues
  <2>2. p \in Places /\ q \in Places
    BY PlacesAre
  <2>3. QED
    BY <1>10, <2>1, <2>2 DEF PlaceInv, OnePlace
<1>12. UnionOf(ResSets(new)) \subseteq UnionOf(ResSets(old)) \cup X /\ Apart(ResSets(new))
  <2>1. \A i \in 1 .. Len(old) : old[i] \in Seq(Item)
    BY <1>2
  <2>2. ResSets(old) \in Seq(SUBSET Delivery) /\ Len(ResSets(old)) = Len(old)
    BY <1>2, <2>1, ItemSetType, SeqOfSets DEF ResSets
  <2>3. \A i \in 1 .. Len(new) : new[i] \in Seq(Item)
    BY <1>6
  <2>4. ResSets(new) \in Seq(SUBSET Delivery) /\ Len(ResSets(new)) = Len(old)
    BY <1>2, <1>6, <2>3, ItemSetType, SeqOfSets DEF ResSets
  <2>5. \A i \in 1 .. Len(old) : ResSets(new)[i] = IF i = x.id THEN X ELSE ResSets(old)[i]
    BY <1>6 DEF ResSets
  <2> DEFINE c == ResSets(old)
             t == ResSets(new)
  <2>6. \A i \in 1 .. Len(c) : c[i] \cap X = {}
    BY <1>11, <2>2 DEF UnionOf
  <2>7. /\ Apart(c) /\ Len(t) = Len(c)
        /\ c \in Seq(SUBSET Delivery) /\ t \in Seq(SUBSET Delivery)
    BY <1>5, <2>2, <2>4 DEF ShapeOf
  <2>8. Replaced(t, c, x.id, X) /\ OthersAvoid(c, x.id, X)
    BY <2>2, <2>4, <2>5, <2>6 DEF Replaced, OthersAvoid
  <2> HIDE DEF c, t, X
  <2>9. UnionOf(t) \subseteq UnionOf(c) \cup X /\ Apart(t)
    BY <2>7, <2>8, ReplaceApart
  <2>10. QED
    BY <2>9 DEF c, t
<1>13. Unsent(g) = {} /\ ToAck(g) = {} /\ InBatches(g) = InBatches(fl[f])
  BY <1>4, <1>7 DEF Unsent, ToAck, InBatches
<1>14. Moves(X, p, q)
  <2>1. \A r \in GlobalPlaces : Grows(r, q, X)
    <3>1. Grows(p, q, X)
      BY <1>10, AtValues, AtValuesPrime DEF Grows
    <3>2. /\ Grows(<<"buffer", "sink">>, q, X) /\ Grows(<<"jobs", "sink">>, q, X)
          /\ Grows(<<"settled", "sink">>, q, X)
      BY <1>1, <1>5, GlobalFrame
    <3>3. QED
      BY <3>1, <3>2 DEF GlobalPlaces
  <2>2. \A r \in FlushPlaces(f) : Grows(r, q, X)
    <3>1. Quiet(ToAck(fl[f]))' = {}
      BY <1>5, <1>13 DEF Quiet
    <3>2. QED
      BY <1>4, <1>5, <1>12, <1>13, <3>1, FlushGrows
  <2>3. X \cap At(p)' = {}
    BY <1>10, AtValuesPrime
  <2>4. QED
    BY <1>1, <1>5, <2>1, <2>2, <2>3, FlushMoves
<1>15. OnePlace' /\ Known' /\ RowsLeft'
  <2>1. X \subseteq At(p)
    BY <1>10, AtValues
  <2>2. p \in Pipeline /\ p \in Places /\ q \in Places
    BY PlacesAre
  <2>3. QED
    BY <1>1, <1>14, <2>1, <2>2, MoveStep DEF PlaceInv
<1>16. ShapeOf(g)
  <2>1. \A j \in 1 .. Len(new) : DistinctItems(new[j])
    BY <1>5, <1>6, <1>8 DEF ShapeOf
  <2>2. QED
    BY <1>4, <1>5, <1>7, <1>12, <2>1 DEF ShapeOf
<1>17. Shape'
  <2>1. \A i \in Flushers : ShapeOf(fl'[i])
    BY <1>1, <1>5, <1>16 DEF PlaceInv, Shape, TypeOK
  <2>2. \A i \in 1 .. Len(results') : DistinctItems(results'[i].items)
    <3>1. \A i \in 1 .. Len(results') : results'[i] = results[i + 1] /\ i + 1 \in 1 .. Len(results)
      BY <1>1
    <3>2. QED
      BY <3>1 DEF PlaceInv, Shape
  <2>3. QED
    BY <1>1, <1>10, <2>1, <2>2 DEF PlaceInv, Shape
<1>18. QED
  BY <1>15, <1>17 DEF PlaceInv

\* What visiting the next item takes out of the results of a flush.
LEMMA VisitingShape ==
    ASSUME PlaceInv, TypeOK, NEW f \in Flushers, NEW j, Visiting(f, j)
    PROVE  LET old == fl[f].res
               new == Rest(f, j)
               d == Head(fl[f].res[j]).d
           IN  /\ d \in Delivery /\ d \in UnionOf(ResSets(old))
               /\ UnionOf(ResSets(new)) \subseteq UnionOf(ResSets(old)) \ {d}
               /\ Apart(ResSets(new))
               /\ \A i \in 1 .. Len(new) : DistinctItems(new[i])
<1> DEFINE old == fl[f].res
           new == Rest(f, j)
           s == old[j]
           d == Head(s).d
           T == ItemSet(Tail(s))
<1>1. /\ old \in Seq(Seq(Item)) /\ j \in 1 .. Len(old) /\ ShapeOf(fl[f])
      /\ new \in Seq(Seq(Item)) /\ Head(s) \in Item
  BY SMTT(30), VisitingType DEF TypeOK, FlushState, PlaceInv, Shape, Visiting
<1>2. s \in Seq(Item) /\ s # <<>> /\ DistinctItems(s) /\ d \in Delivery
  BY <1>1 DEF Visiting, ShapeOf, Item
<1>3. Len(new) = Len(old) /\ \A i \in 1 .. Len(old) : new[i] = IF i = j THEN Tail(s) ELSE old[i]
  BY <1>1, <1>2 DEF Rest
<1>4. T = ItemSet(s) \ {d} /\ d \in ItemSet(s) /\ DistinctItems(Tail(s))
  BY <1>2, TailItems
<1> DEFINE c == ResSets(old)
           t == ResSets(new)
<1>5. Len(c) = Len(old) /\ Len(t) = Len(old) /\ Len(old) \in Nat
  BY <1>1, <1>3 DEF ResSets
<1>6. \A i \in 1 .. Len(old) : c[i] = ItemSet(old[i]) /\ t[i] = IF i = j THEN T ELSE c[i]
  BY <1>1, <1>3 DEF ResSets
<1>7. Apart(c)
  BY <1>1 DEF ShapeOf
<1>8. \A i \in 1 .. Len(old) : i # j => c[i] \cap ItemSet(s) = {}
  BY <1>1, <1>5, <1>6, <1>7 DEF Apart
<1>9. Replaced(t, c, j, T) /\ OthersAvoid(c, j, T)
  BY <1>4, <1>5, <1>6, <1>8 DEF Replaced, OthersAvoid
<1>10. Apart(t) /\ UnionOf(t) \subseteq UnionOf(c) \cup T
  BY <1>7, <1>9, ReplaceApart
<1>11. ItemSet(s) \subseteq UnionOf(c)
  BY <1>1, <1>5, <1>6 DEF UnionOf
<1>12. d \notin UnionOf(t)
  BY SMTT(30), <1>4, <1>5, <1>6, <1>8 DEF UnionOf
<1>13. \A i \in 1 .. Len(new) : DistinctItems(new[i])
  BY <1>1, <1>3, <1>4 DEF ShapeOf
<1>14. QED
  BY <1>2, <1>4, <1>10, <1>11, <1>12, <1>13

\* The flush of f after its next item left the results for q.
Visited(f, j, g, q) ==
    /\ g.pc = "prepare" /\ g.res = Rest(f, j)
    /\ InBatches(g) \subseteq
          (IF q = <<"batches", f>> THEN InBatches(fl[f]) \cup {Head(fl[f].res[j]).d}
                                   ELSE InBatches(fl[f]))
    /\ g.failed \subseteq
          (IF q = <<"toAck", f>> THEN fl[f].failed \cup {Head(fl[f].res[j]).d}
                                 ELSE fl[f].failed)
    /\ \A v \in Schemas : \A e \in g.batches[v] : Schema[e[1]] = v

\* The next item leaves the results of its flush for the batches or the messages
\* to be acked of the same flush.
LEMMA VisitPlaces ==
    ASSUME PlaceInv, TypeOK, TypeOK', NEW f \in Flushers, NEW j, Visiting(f, j), NEW g,
           fl' = [fl EXCEPT ![f] = g],
           NEW q \in {<<"batches", f>>, <<"toAck", f>>}, Visited(f, j, g, q),
           UNCHANGED <<rows, dcount, buffer, jobs, results, work, settled, faults>>
    PROVE  PlaceInv'
<1> DEFINE d == Head(fl[f].res[j]).d
           X == {d}
           p == <<"res", f>>
<1>1. /\ d \in Delivery /\ d \in UnionOf(ResSets(fl[f].res))
      /\ UnionOf(ResSets(g.res)) \subseteq UnionOf(ResSets(fl[f].res)) \ {d}
      /\ Apart(ResSets(g.res)) /\ \A i \in 1 .. Len(g.res) : DistinctItems(g.res[i])
  BY VisitingShape DEF Visited
<1>2. fl'[f] = g /\ FaultsGrow /\ fl[f].pc = "prepare" /\ p # q
  BY DEF TypeOK, FaultsGrow, Visiting
<1>9. /\ g.pc = "prepare" /\ g.res = Rest(f, j)
      /\ InBatches(g) \subseteq
            (IF q = <<"batches", f>> THEN InBatches(fl[f]) \cup X ELSE InBatches(fl[f]))
      /\ g.failed \subseteq
            (IF q = <<"toAck", f>> THEN fl[f].failed \cup X ELSE fl[f].failed)
      /\ \A v \in Schemas : \A e \in g.batches[v] : Schema[e[1]] = v
  BY DEF Visited
<1> HIDE DEF d
<1>3. Unsent(g) = {} /\ ToAck(g) = g.failed /\ ToAck(fl[f]) = fl[f].failed
  BY <1>2, <1>9 DEF Unsent, ToAck
<1>4. Moves(X, p, q)
  <2>1. \A r \in GlobalPlaces : Grows(r, q, X)
    BY <1>2, GlobalFrame DEF GlobalPlaces
  <2>2. \A r \in FlushPlaces(f) : Grows(r, q, X)
    <3>1. Quiet(ToAck(fl[f]))' \subseteq
             (IF q = <<"toAck", f>> THEN Quiet(ToAck(fl[f])) \cup X ELSE Quiet(ToAck(fl[f])))
      BY <1>2, <1>3, <1>9 DEF Quiet
    <3>2. InBatches(g) \subseteq
             (IF q = <<"batches", f>> THEN InBatches(fl[f]) \cup X ELSE InBatches(fl[f]))
      BY <1>9
    <3>3. q # <<"res", f>> /\ q # <<"own", f>>
      OBVIOUS
    <3>4. QED
      BY <1>1, <1>2, <1>3, <3>1, <3>2, <3>3, FlushGrows
  <2>3. X \cap At(p)' = {}
    BY <1>1, <1>2, AtValuesPrime
  <2>4. QED
    BY <1>2, <2>1, <2>2, <2>3, FlushMoves
<1>5. OnePlace' /\ Known' /\ RowsLeft'
  <2>1. X \subseteq At(p)
    BY <1>1, AtValues
  <2>2. p \in Pipeline /\ p \in Places /\ q \in Places
    BY PlacesAre
  <2>3. QED
    BY <1>4, <2>1, <2>2, MoveStep DEF PlaceInv
<1>6. ShapeOf(g)
  BY <1>1, <1>9 DEF ShapeOf
<1>7. Shape'
  <2>1. \A i \in Flushers : ShapeOf(fl'[i])
    BY <1>2, <1>6 DEF PlaceInv, Shape, TypeOK
  <2>2. QED
    BY <2>1 DEF PlaceInv, Shape
<1>8. QED
  BY <1>5, <1>7 DEF PlaceInv

LEMMA VisitsPlaces ==
    ASSUME PlaceInv, TypeOK, TypeOK', NEW f \in Flushers, NEW j \in DOMAIN fl[f].res,
           SkipToDLQ(f, j) \/ AppendRow(f, j) \/ AppendAlreadyExists(f, j)
    PROVE  PlaceInv'
<1> DEFINE it == Head(fl[f].res[j])
           v == Schema[it.d[1]]
<1>1. /\ Visiting(f, j) /\ fl[f] \in FlushState /\ ShapeOf(fl[f]) /\ fl[f].pc = "prepare"
      /\ UNCHANGED <<rows, dcount, buffer, jobs, results, work, settled, faults>>
  BY DEF SkipToDLQ, AppendRow, AppendAlreadyExists, Visiting, TypeOK, PlaceInv, Shape,
     service, pool, bounds
<1>2. \A u \in Schemas : \A e \in fl[f].batches[u] : Schema[e[1]] = u
  BY <1>1 DEF ShapeOf
<1>3. CASE SkipToDLQ(f, j)
  <2> DEFINE g == [fl[f] EXCEPT !.res = Rest(f, j), !.failed = fl[f].failed \cup {it.d},
                        !.made = fl[f].made \cup (IF it.ok THEN {v} ELSE {})]
  <2>1. fl' = [fl EXCEPT ![f] = g]
    BY <1>3 DEF SkipToDLQ
  <2>2. /\ g.pc = "prepare" /\ g.res = Rest(f, j) /\ g.failed = fl[f].failed \cup {it.d}
        /\ g.batches = fl[f].batches
    BY <1>1 DEF FlushState
  <2> HIDE DEF g
  <2>3. InBatches(g) = InBatches(fl[f])
    BY <2>2 DEF InBatches
  <2>4. Visited(f, j, g, <<"toAck", f>>)
    BY <1>2, <2>2, <2>3 DEF Visited
  <2>5. QED
    BY <1>1, <2>1, <2>4, VisitPlaces
<1>4. CASE AppendRow(f, j)
  <2> DEFINE b == [fl[f].batches EXCEPT ![v] = fl[f].batches[v] \cup {it.d}]
             g == [fl[f] EXCEPT !.res = Rest(f, j), !.made = fl[f].made \cup {v}, !.batches = b]
  <2>1. fl' = [fl EXCEPT ![f] = g]
    BY <1>4 DEF AppendRow
  <2>2. /\ g.pc = "prepare" /\ g.res = Rest(f, j) /\ g.failed = fl[f].failed
        /\ g.batches = b
    BY <1>1 DEF FlushState
  <2>3. /\ \A u \in Schemas : b[u] \subseteq fl[f].batches[u] \cup {it.d}
        /\ \A u \in Schemas : \A e \in b[u] : Schema[e[1]] = u
    BY <1>1, <1>2 DEF FlushState
  <2> HIDE DEF g, b
  <2>4. InBatches(g) \subseteq InBatches(fl[f]) \cup {it.d}
    BY <2>2, <2>3 DEF InBatches
  <2>5. Visited(f, j, g, <<"batches", f>>)
    BY <2>2, <2>3, <2>4 DEF Visited
  <2>6. QED
    BY <1>1, <2>1, <2>5, VisitPlaces
<1>5. CASE AppendAlreadyExists(f, j)
  <2> DEFINE g == [fl[f] EXCEPT !.res = Rest(f, j), !.failed = fl[f].failed \cup {it.d}]
  <2>1. fl' = [fl EXCEPT ![f] = g]
    BY <1>5 DEF AppendAlreadyExists
  <2>2. /\ g.pc = "prepare" /\ g.res = Rest(f, j) /\ g.failed = fl[f].failed \cup {it.d}
        /\ g.batches = fl[f].batches
    BY <1>1 DEF FlushState
  <2> HIDE DEF g
  <2>3. InBatches(g) = InBatches(fl[f])
    BY <2>2 DEF InBatches
  <2>4. Visited(f, j, g, <<"toAck", f>>)
    BY <1>2, <2>2, <2>3 DEF Visited
  <2>5. QED
    BY <1>1, <2>1, <2>4, VisitPlaces
<1>6. QED
  BY <1>3, <1>4, <1>5

\* An ack fails without a fault only on a delivery that was settled before.
LEMMA AckNeedsFault ==
    ASSUME PlaceInv, TypeOK, NEW f \in Flushers, fl[f].pc \in {"prepare", "ack"},
           AckStopped(ToAck(fl[f]))
    PROVE  faults' # 0 /\ FaultsGrow
<1>1. PICK e \in ToAck(fl[f]) : (e \in settled /\ UNCHANGED faults) \/ Fault
  BY DEF AckStopped
<1>2. CASE e \in settled /\ UNCHANGED faults /\ faults = 0
  <2>1. e \in At(<<"toAck", f>>) /\ e \in At(<<"settled", "sink">>)
    BY <1>1, <1>2, AtValues DEF Quiet
  <2>2. <<"toAck", f>> \in Places /\ <<"settled", "sink">> \in Places
    BY PlacesAre
  <2>3. <<"toAck", f>> = <<"settled", "sink">>
    BY <2>1, <2>2 DEF PlaceInv, OnePlace
  <2>4. QED
    BY <2>3
<1>3. CASE UNCHANGED faults /\ faults # 0
  BY <1>3 DEF FaultsGrow
<1>4. CASE Fault
  BY <1>4 DEF Fault, TypeOK, FaultsGrow
<1>5. QED
  BY <1>1, <1>2, <1>3, <1>4

\* What a flush was to ack is acked.
LEMMA AckAllPlaces ==
    ASSUME PlaceInv, TypeOK, TypeOK', NEW f \in Flushers, NEW g,
           fl' = [fl EXCEPT ![f] = g], Narrower(g, fl[f]), ToAck(g) = {},
           AckAll(ToAck(fl[f])),
           UNCHANGED <<rows, dcount, buffer, jobs, results, work>>
    PROVE  PlaceInv'
<1> DEFINE D == ToAck(fl[f])
           X == Quiet(D)
           p == <<"toAck", f>>
           q == <<"settled", "sink">>
<1>1. /\ fl'[f] = g /\ ShapeOf(fl[f]) /\ faults' = faults /\ settled' = settled \cup D
      /\ FaultsGrow
  BY DEF TypeOK, PlaceInv, Shape, AckAll, FaultsGrow
<1>2. At(p) = X /\ At(p)' = {}
  BY <1>1, AtValues, AtValuesPrime DEF Quiet
<1>3. At(q)' \subseteq At(q) \cup X
  BY <1>1, AtValues, AtValuesPrime DEF Quiet
<1> HIDE DEF X
<1>4. Moves(X, p, q)
  <2>1. \A r \in GlobalPlaces : Grows(r, q, X)
    BY <1>1, <1>3, GlobalFrame DEF GlobalPlaces, Grows
  <2>2. \A r \in FlushPlaces(f) : Grows(r, q, X)
    BY <1>1, NarrowerGrows
  <2>3. QED
    BY <1>1, <1>2, <2>1, <2>2, FlushMoves
<1>5. OnePlace' /\ Known' /\ RowsLeft'
  <2>1. p \in Places /\ q \in Places /\ q \notin Pipeline
    BY PlacesAre
  <2>2. QED
    BY <1>2, <1>4, <2>1, MoveStep DEF PlaceInv
<1>6. ShapeOf(g)
  BY <1>1, NarrowerPlaces
<1>7. Shape'
  <2>1. \A i \in Flushers : ShapeOf(fl'[i])
    BY <1>1, <1>6 DEF PlaceInv, Shape, TypeOK
  <2>2. QED
    BY <2>1 DEF PlaceInv, Shape
<1>8. QED
  BY <1>5, <1>7 DEF PlaceInv

LEMMA AckFailedMessagesPlaces ==
    ASSUME PlaceInv, TypeOK, TypeOK', NEW f \in Flushers, AckFailedMessages(f)
    PROVE  PlaceInv'
<1> DEFINE h == [fl[f] EXCEPT !.pc = "send"]
<1>1. /\ fl[f] \in FlushState /\ fl[f].pc = "prepare" /\ ToAck(fl[f]) = fl[f].failed
      /\ UNCHANGED <<rows, dcount, buffer, jobs, results, work>>
  BY DEF TypeOK, AckFailedMessages, ToAck, pool
<1>2. Narrower(h, fl[f]) /\ ToAck(h) = {}
  BY <1>1 DEF Narrower, FlushState, ToAck
<1>3. Narrower(ToDLQ(fl[f]), fl[f])
  BY <1>1, ToDLQNarrower
<1>4. CASE AckAll(fl[f].failed) /\ fl' = [fl EXCEPT ![f] = h]
  BY <1>1, <1>2, <1>4, AckAllPlaces
<1>5. CASE AckStopped(fl[f].failed) /\ fl' = [fl EXCEPT ![f] = ToDLQ(fl[f])]
  <2>1. faults' # 0 /\ FaultsGrow
    BY <1>1, <1>5, AckNeedsFault
  <2>2. QED
    BY <1>1, <1>3, <1>5, <2>1, NarrowStep
<1>6. QED
  BY <1>4, <1>5 DEF AckFailedMessages

LEMMA AckBatchPlaces ==
    ASSUME PlaceInv, TypeOK, TypeOK', NEW f \in Flushers, AckBatch(f)
    PROVE  PlaceInv'
<1> DEFINE g1 == [fl[f] EXCEPT !.pc = "send", !.now = {}]
           g2 == [fl[f] EXCEPT !.pc = "send", !.now = {}, !.allErr = TRUE]
<1>1. /\ fl[f] \in FlushState /\ fl[f].pc = "ack" /\ ToAck(fl[f]) = fl[f].now
      /\ UNCHANGED <<rows, dcount, buffer, jobs, results, work>>
  BY DEF TypeOK, AckBatch, ToAck, pool
<1>2. Narrower(g1, fl[f]) /\ ToAck(g1) = {} /\ Narrower(g2, fl[f])
  BY <1>1 DEF Narrower, FlushState, ToAck
<1>3. CASE AckAll(fl[f].now) /\ fl' = [fl EXCEPT ![f] = g1]
  BY <1>1, <1>2, <1>3, AckAllPlaces
<1>4. CASE AckStopped(fl[f].now) /\ fl' = [fl EXCEPT ![f] = g2]
  <2>1. faults' # 0 /\ FaultsGrow
    BY <1>1, <1>4, AckNeedsFault
  <2>2. QED
    BY <1>1, <1>2, <1>4, <2>1, NarrowStep
<1>5. QED
  BY <1>3, <1>4 DEF AckBatch

\* A batch leaves the batches of its flush, to be acked or to be given up.
Leaves(g, old, v, q) ==
    /\ g.batches = [old.batches EXCEPT ![v] = {}] /\ g.res = old.res
    /\ IF g.pc = "ack" THEN g.now = old.batches[v] /\ q[1] = "toAck"
                       ELSE g.pc \in {"send", "dlqBatch"} /\ q[1] = "settled"

LEMMA BatchLeaves ==
    ASSUME PlaceInv, TypeOK, TypeOK', NEW f \in Flushers, NEW v \in Schemas, NEW g,
           fl[f].pc = "send", fl' = [fl EXCEPT ![f] = g],
           NEW q \in {<<"toAck", f>>, <<"settled", "sink">>}, Leaves(g, fl[f], v, q),
           FaultsGrow,
           settled' \in {settled, settled \cup fl[f].batches[v]},
           g.pc = "ack" => UNCHANGED settled,
           rows' \in {rows, Written(fl[f].batches[v])},
           UNCHANGED <<dcount, buffer, jobs, results, work>>
    PROVE  PlaceInv'
<1> DEFINE D == fl[f].batches[v]
           p == <<"batches", f>>
<1>1. /\ fl[f] \in FlushState /\ ShapeOf(fl[f]) /\ fl'[f] = g
      /\ fl[f].batches \in [Schemas -> SUBSET Delivery]
  BY DEF TypeOK, PlaceInv, Shape, FlushState
<1>9. /\ g.batches = [fl[f].batches EXCEPT ![v] = {}] /\ g.res = fl[f].res
      /\ \/ g.pc = "ack" /\ g.now = fl[f].batches[v] /\ q = <<"toAck", f>>
         \/ g.pc \in {"send", "dlqBatch"} /\ q = <<"settled", "sink">>
  BY DEF Leaves
<1>2. D \subseteq InBatches(fl[f]) /\ D \cap InBatches(g) = {}
      /\ InBatches(g) \subseteq InBatches(fl[f])
  <2>1. \A u \in Schemas : g.batches[u] = IF u = v THEN {} ELSE fl[f].batches[u]
    BY <1>1, <1>9
  <2>2. \A u \in Schemas : u # v => fl[f].batches[u] \cap D = {}
    BY <1>1 DEF ShapeOf
  <2>3. QED
    BY <2>1, <2>2 DEF InBatches
<1>3. Unsent(g) = {} /\ UnionOf(ResSets(g.res)) = UnionOf(ResSets(fl[f].res))
      /\ ToAck(fl[f]) = {} /\ ToAck(g) \subseteq D /\ (q = <<"settled", "sink">> => ToAck(g) = {})
  BY <1>9 DEF Unsent, ToAck
<1>4. ShapeOf(g)
  <2>1. \A u \in Schemas : \A d \in g.batches[u] : Schema[d[1]] = u
    BY <1>1, <1>9 DEF ShapeOf
  <2>2. QED
    BY <1>1, <1>9, <2>1 DEF ShapeOf
<1> HIDE DEF D
<1>5. Moves(D, p, q)
  <2>1. \A r \in GlobalPlaces : Grows(r, q, D)
    <3>1. Grows(<<"settled", "sink">>, q, D)
      BY <1>9, AtValues, AtValuesPrime DEF Grows, Quiet, FaultsGrow, D
    <3>2. QED
      BY <3>1, GlobalFrame DEF GlobalPlaces
  <2>2. \A r \in FlushPlaces(f) : Grows(r, q, D)
    <3>1. Quiet(ToAck(fl[f]))' \subseteq
             (IF q = <<"toAck", f>> THEN Quiet(ToAck(fl[f])) \cup D ELSE Quiet(ToAck(fl[f])))
      BY <1>1, <1>3 DEF Quiet
    <3>2. q # <<"own", f>> /\ q # <<"res", f>> /\ q # <<"batches", f>>
      OBVIOUS
    <3>3. QED
      BY <1>1, <1>2, <1>3, <3>1, <3>2, FlushGrows
  <2>3. D \cap At(p)' = {}
    BY <1>1, <1>2, AtValuesPrime
  <2>4. QED
    BY <2>1, <2>2, <2>3, FlushMoves
<1>6. OnePlace' /\ Known' /\ RowsLeft'
  <2>1. D \subseteq At(p) /\ p \in Pipeline /\ q \in Places \ Pipeline
    BY <1>2, AtValues, PlacesAre
  <2>2. rows' \in {rows, Written(D)}
    BY DEF D
  <2>3. QED
    BY <1>5, <2>1, <2>2, WriteStep DEF PlaceInv
<1>7. Shape'
  <2>1. \A i \in Flushers : ShapeOf(fl'[i])
    BY <1>1, <1>4 DEF PlaceInv, Shape, TypeOK
  <2>2. QED
    BY <2>1 DEF PlaceInv, Shape
<1>8. QED
  BY <1>6, <1>7 DEF PlaceInv

LEMMA SendPlaces ==
    ASSUME PlaceInv, TypeOK, TypeOK', NEW f \in Flushers, NEW v \in Schemas,
           SendOk(f, v) \/ SendFailed(f, v)
    PROVE  PlaceInv'
<1> DEFINE D == fl[f].batches[v]
           b == [fl[f].batches EXCEPT ![v] = {}]
           g0 == [fl[f] EXCEPT !.pc = "ack", !.now = D, !.batches = b]
           g1 == [fl[f] EXCEPT !.batches = b]
           g2 == [fl[f] EXCEPT !.pc = "dlqBatch", !.now = D, !.batches = b]
<1>1. /\ fl[f] \in FlushState /\ fl[f].pc = "send"
      /\ UNCHANGED <<dcount, buffer, jobs, results, work>>
      /\ rows' \in {rows, Written(D)}
  BY DEF TypeOK, SendOk, SendFailed, Sending, pool
<1>2. /\ g0.pc = "ack" /\ g0.now = D /\ g0.batches = b /\ g0.res = fl[f].res
      /\ g1.pc = "send" /\ g1.batches = b /\ g1.res = fl[f].res
      /\ g2.pc = "dlqBatch" /\ g2.batches = b /\ g2.res = fl[f].res
  BY <1>1 DEF FlushState
<1>3. FaultsGrow
  <2>1. CASE SendOk(f, v)
    BY <2>1 DEF SendOk, FaultsGrow, bounds
  <2>2. CASE SendFailed(f, v)
    BY <2>2, FaultsGrowLemma DEF SendFailed
  <2>3. QED
    BY <2>1, <2>2
<1>4. CASE SendOk(f, v)
  <2>1. fl' = [fl EXCEPT ![f] = g0] /\ UNCHANGED settled
    BY <1>4 DEF SendOk
  <2>2. Leaves(g0, fl[f], v, <<"toAck", f>>)
    BY <1>2 DEF Leaves
  <2> HIDE DEF g0
  <2>3. QED
    BY <1>1, <1>3, <2>1, <2>2, BatchLeaves
<1>5. CASE SendFailed(f, v) /\ fl' = [fl EXCEPT ![f] = g1]
  <2>1. settled' \in {settled, settled \cup D}
    BY <1>5 DEF SendFailed
  <2>2. Leaves(g1, fl[f], v, <<"settled", "sink">>) /\ g1.pc # "ack"
    BY <1>2 DEF Leaves
  <2> HIDE DEF g1
  <2>3. QED
    BY <1>1, <1>3, <1>5, <2>1, <2>2, BatchLeaves
<1>6. CASE SendFailed(f, v) /\ fl' = [fl EXCEPT ![f] = g2]
  <2>1. settled' \in {settled, settled \cup D}
    BY <1>6 DEF SendFailed
  <2>2. Leaves(g2, fl[f], v, <<"settled", "sink">>) /\ g2.pc # "ack"
    BY <1>2 DEF Leaves
  <2> HIDE DEF g2
  <2>3. QED
    BY <1>1, <1>3, <1>6, <2>1, <2>2, BatchLeaves
<1>7. QED
  BY <1>4, <1>5, <1>6 DEF SendFailed

LEMMA ProcessGonePlaces ==
    ASSUME PlaceInv, TypeOK, TypeOK', ProcessGone, UNCHANGED <<rows, dcount>>
    PROVE  PlaceInv'
<1>1. /\ \A f \in Flushers : fl'[f] = IdleFlush
      /\ \A w \in Workers : work'[w].items = <<>>
      /\ buffer' = <<>> /\ jobs' = <<>> /\ results' = <<>> /\ settled' = {}
  BY DEF ProcessGone, NoWork
<1>2. /\ IdleFlush.pc = "idle" /\ IdleFlush.res = <<>>
      /\ \A v \in Schemas : IdleFlush.batches[v] = {}
  BY DEF IdleFlush
<1>3. ASSUME NEW r \in Places PROVE At(r)' = {}
  <2>1. CASE r \in GlobalPlaces
    BY <1>1, <2>1, AtValuesPrime
       DEF GlobalPlaces, Quiet, Elems, UnionOf, JobSets, ResultSets
  <2>2. CASE \E w \in Workers : r = <<"work", w>>
    BY <1>1, <2>2, AtValuesPrime DEF ItemSet
  <2>3. ASSUME NEW f \in Flushers, r \in FlushPlaces(f) PROVE At(r)' = {}
    <3>1. fl'[f] = IdleFlush
      BY <1>1
    <3>2. /\ Unsent(IdleFlush) = {} /\ UnionOf(ResSets(IdleFlush.res)) = {}
          /\ InBatches(IdleFlush) = {} /\ ToAck(IdleFlush) = {}
      BY <1>2 DEF Unsent, UnionOf, ResSets, InBatches, ToAck
    <3>3. Quiet(ToAck(fl[f]))' = {}
      BY <3>1, <3>2 DEF Quiet
    <3>4. QED
      BY <2>3, <3>1, <3>2, <3>3, AtValuesPrime DEF FlushPlaces
  <2>4. QED
    BY <2>1, <2>2, <2>3, PlaceCases DEF FlushPlaces, GlobalPlaces
<1>4. OnePlace' /\ Known' /\ RowsLeft'
  BY <1>3, ShrinkStep DEF PlaceInv
<1>5. ShapeOf(IdleFlush)
  BY <1>2 DEF ShapeOf, Apart, ResSets, IdleFlush
<1>6. DistinctItems(<<>>) /\ Distinct(<<>>)
  BY DEF DistinctItems, Distinct
<1>7. Apart(JobSets(<<>>)) /\ Apart(ResultSets(<<>>))
  BY DEF Apart, JobSets, ResultSets
<1>8. Shape'
  BY <1>1, <1>5, <1>6, <1>7 DEF Shape
<1>9. QED
  BY <1>4, <1>8 DEF PlaceInv

LEMMA PlaceInit == Init /\ TypeOK => PlaceInv
<1> SUFFICES ASSUME Init, TypeOK PROVE PlaceInv
  OBVIOUS
<1>1. /\ \A f \in Flushers : fl[f] = IdleFlush
      /\ \A w \in Workers : work[w].items = <<>>
      /\ buffer = <<>> /\ jobs = <<>> /\ results = <<>> /\ settled = {}
      /\ rows = [m \in Msgs |-> 0] /\ dcount = [m \in Msgs |-> 0]
  BY DEF Init, NoWork
<1>2. /\ IdleFlush.pc = "idle" /\ IdleFlush.res = <<>>
      /\ \A v \in Schemas : IdleFlush.batches[v] = {}
  BY DEF IdleFlush
<1>3. ASSUME NEW r \in Places PROVE At(r) = {}
  <2>1. CASE r \in GlobalPlaces
    BY <1>1, <2>1, AtValues
       DEF GlobalPlaces, Quiet, Elems, UnionOf, JobSets, ResultSets
  <2>2. CASE \E w \in Workers : r = <<"work", w>>
    BY <1>1, <2>2, AtValues DEF ItemSet
  <2>3. ASSUME NEW f \in Flushers, r \in FlushPlaces(f) PROVE At(r) = {}
    <3>1. fl[f] = IdleFlush
      BY <1>1
    <3>2. /\ Unsent(IdleFlush) = {} /\ UnionOf(ResSets(IdleFlush.res)) = {}
          /\ InBatches(IdleFlush) = {} /\ ToAck(IdleFlush) = {}
      BY <1>2 DEF Unsent, UnionOf, ResSets, InBatches, ToAck
    <3>3. Quiet(ToAck(fl[f])) = {}
      BY <3>1, <3>2 DEF Quiet
    <3>4. QED
      BY <2>3, <3>1, <3>2, <3>3, AtValues DEF FlushPlaces
  <2>4. QED
    BY <2>1, <2>2, <2>3, PlaceCases DEF FlushPlaces, GlobalPlaces
<1>4. OnePlace /\ Known
  BY <1>3 DEF OnePlace, Known
<1>5. RowsLeft
  <2>1. InFlight = {}
    BY <1>3, PlacesAre DEF InFlight
  <2>2. \A m \in Msgs : Alive(m) = {}
    BY <2>1 DEF Alive
  <2>3. Cardinality({}) = 0
    BY FS_EmptySet
  <2>4. ASSUME NEW m \in Msgs PROVE rows[m] + Cardinality(Alive(m)) <= dcount[m]
    <3>1. rows[m] = 0 /\ dcount[m] = 0 /\ Cardinality(Alive(m)) = 0
      BY <1>1, <2>2, <2>3
    <3>2. QED
      BY <3>1
  <2>5. QED
    BY <2>4 DEF RowsLeft
<1>6. ShapeOf(IdleFlush)
  BY <1>2 DEF ShapeOf, Apart, ResSets, IdleFlush
<1>7. Shape
  BY <1>1, <1>6 DEF Shape, DistinctItems, Distinct, Apart, JobSets, ResultSets
<1>8. QED
  BY <1>4, <1>5, <1>7 DEF PlaceInv

-----------------------------------------------------------------------------
(* Kinds, calm and rest.                                                   *)

\* A step of one flush.
LEMMA FlushRest ==
    ASSUME RestInv, TypeOK, NEW f \in Flushers, NEW g,
           fl' = [fl EXCEPT ![f] = g], FaultsGrow, UNCHANGED <<phase, ctx, work>>, ~Down,
           faults' = 0 => \A i \in 1 .. Len(results') : Mapped(results'[i].items),
           faults' = 0 => Calm(f, g), GoodBatches(g), GoodRows', BadDLQ'
    PROVE  RestInv'
<1>1. \A h \in Flushers : fl'[h] = IF h = f THEN g ELSE fl[h]
  BY DEF TypeOK
<1>2. QuietInv'
  <2> SUFFICES ASSUME faults' = 0
               PROVE  /\ \A h \in Flushers : Calm(h, fl[h])'
                      /\ \A w \in Workers : Mapped(work'[w].items)
                      /\ \A i \in 1 .. Len(results') : Mapped(results'[i].items)
    BY DEF QuietInv
  <2>1. faults = 0 /\ \A h \in Flushers : CtxDone(h)' <=> CtxDone(h)
    BY DEF FaultsGrow, CtxDone, ctxDone
  <2>2. \A h \in Flushers : Calm(h, fl'[h])
    BY <1>1, <2>1 DEF RestInv, QuietInv
  <2>3. \A h \in Flushers : Calm(h, fl[h])'
    BY <2>1, <2>2 DEF Calm
  <2>4. QED
    BY <2>1, <2>3 DEF RestInv, QuietInv
<1>3. DownInv'
  BY DEF DownInv, Down
<1>4. KindInv'
  BY <1>1 DEF RestInv, KindInv
<1>5. QED
  BY <1>2, <1>3, <1>4 DEF RestInv

\* A step that leaves the flushes alone.
LEMMA OtherRest ==
    ASSUME RestInv, TypeOK, UNCHANGED <<fl, rows, dlq>>, FaultsGrow,
           Down' => Down, ~Down => UNCHANGED ctx \/ ctx' = "cancelled",
           faults' = 0 => \A w \in Workers : Mapped(work'[w].items),
           faults' = 0 => \A i \in 1 .. Len(results') : Mapped(results'[i].items)
    PROVE  RestInv'
<1>1. QuietInv'
  <2> SUFFICES ASSUME faults' = 0
               PROVE  /\ \A h \in Flushers : Calm(h, fl[h])'
                      /\ \A w \in Workers : Mapped(work'[w].items)
                      /\ \A i \in 1 .. Len(results') : Mapped(results'[i].items)
    BY DEF QuietInv
  <2>1. faults = 0 /\ \A h \in Flushers : Calm(h, fl[h])
    BY DEF FaultsGrow, RestInv, QuietInv
  <2>2. \A h \in Flushers : Calm(h, fl[h])'
    <3>1. CASE Down
      <4>1. \A h \in Flushers : fl'[h] = IdleFlush
        BY <3>1 DEF RestInv, DownInv
      <4>2. ~Dead(IdleFlush) /\ IdleFlush.res = <<>>
        BY DEF Dead, IdleFlush
      <4>3. QED
        BY <4>1, <4>2 DEF Calm
    <3>2. CASE ~Down
      <4>1. \A h \in Flushers : CtxDone(h) => CtxDone(h)'
        BY <3>2 DEF CtxDone, ctxDone
      <4>2. QED
        BY <2>1, <4>1 DEF Calm
    <3>3. QED
      BY <3>1, <3>2
  <2>3. QED
    BY <2>2
<1>2. DownInv' /\ KindInv'
  BY DEF RestInv, DownInv, KindInv, GoodRows, BadDLQ, FaultsGrow
<1>3. QED
  BY <1>1, <1>2 DEF RestInv

LEMMA IdleCalm ==
    ASSUME NEW f
    PROVE  Calm(f, IdleFlush) /\ GoodBatches(IdleFlush)
BY DEF Calm, Dead, IdleFlush, GoodBatches

\* Nothing was written or dead-lettered.
LEMMA SameServices ==
    ASSUME RestInv, UNCHANGED <<rows, dlq>>, FaultsGrow
    PROVE  GoodRows' /\ BadDLQ'
BY DEF RestInv, KindInv, GoodRows, BadDLQ, FaultsGrow

\* What the flush f looked like before the step.
LEMMA CalmBefore ==
    ASSUME RestInv, FaultsGrow, NEW f \in Flushers
    PROVE  /\ GoodBatches(fl[f]) /\ (faults' = 0 => Calm(f, fl[f]))
           /\ faults' = 0 => \A i \in 1 .. Len(results) : Mapped(results[i].items)
           /\ fl[f].pc # "idle" => ~Down
BY DEF RestInv, KindInv, QuietInv, DownInv, FaultsGrow, IdleFlush

LEMMA HandleMessageRest ==
    ASSUME RestInv, TypeOK, (\E m \in Msgs : HandleMessage(m)) \/ Tick
    PROVE  RestInv'
<1>1. PICK f \in Flushers : \/ fl' = [fl EXCEPT ![f] = [fl[f] EXCEPT !.pc = "flush"]]
                            \/ fl' = fl
  BY DEF HandleMessage, Tick, Flushers
<1> DEFINE h == [fl[f] EXCEPT !.pc = "flush"]
<1>2. fl[f] \in FlushState
  BY DEF TypeOK
<1>3. /\ UNCHANGED <<phase, ctx, work, results, rows, dlq, faults>> /\ ~Down
  BY DEF HandleMessage, Tick, pool, bounds, service, Down
<1>4. FaultsGrow
  BY <1>3 DEF FaultsGrow
<1>5. h.pc = "flush" /\ h.allErr = fl[f].allErr /\ h.res = fl[f].res /\ h.batches = fl[f].batches
  BY <1>2 DEF FlushState
<1>6. GoodBatches(fl[f]) /\ (faults' = 0 => Calm(f, fl[f]))
      /\ (faults' = 0 => \A i \in 1 .. Len(results) : Mapped(results[i].items))
  BY <1>4, CalmBefore
<1> HIDE DEF h
<1>7. GoodBatches(h) /\ (faults' = 0 => Calm(f, h))
  BY <1>5, <1>6 DEF GoodBatches, Calm, Dead
<1>8. PICK g \in {fl[f], h} : fl' = [fl EXCEPT ![f] = g]
  BY <1>1, <1>2 DEF h, TypeOK
<1>9. QED
  BY <1>3, <1>4, <1>6, <1>7, <1>8, SameServices, FlushRest

\* g is what is left of the flush h, or of a flush that gave up.
Like(g, h) ==
    /\ Dead(g) => Dead(h)
    /\ \A j \in 1 .. Len(g.res) :
          g.res[j] = <<>> \/ (j \in 1 .. Len(h.res) /\ g.res[j] = h.res[j])
    /\ \A v \in Schemas : g.batches[v] \subseteq h.batches[v]

LEMMA MappedEmpty == Mapped(<<>>)
BY DEF Mapped

LEMMA LikeBefore ==
    ASSUME RestInv, FaultsGrow, NEW f \in Flushers, NEW g, Like(g, fl[f])
    PROVE  GoodBatches(g) /\ (faults' = 0 => Calm(f, g))
BY CalmBefore, MappedEmpty DEF Like, GoodBatches, Calm

\* A step of one flush that leaves the channels and the services alone.
LEMMA FlushOnly ==
    ASSUME RestInv, TypeOK, NEW f \in Flushers, NEW g,
           fl' = [fl EXCEPT ![f] = g], FaultsGrow, fl[f].pc # "idle",
           UNCHANGED <<phase, ctx, work, results, rows, dlq>>,
           faults' = 0 => Calm(f, g), GoodBatches(g)
    PROVE  RestInv'
<1>1. GoodRows' /\ BadDLQ'
  BY SameServices
<1>2. ~Down /\ (faults' = 0 => \A i \in 1 .. Len(results') : Mapped(results'[i].items))
  BY CalmBefore
<1>3. QED
  BY <1>1, <1>2, FlushRest

LEMMA GiveUpRest ==
    ASSUME RestInv, TypeOK, NEW f \in Flushers,
           SubmitCancelled(f) \/ CollectTimeout(f) \/ \E j \in DOMAIN fl[f].res : SkipFails(f, j)
    PROVE  RestInv'
<1>1. /\ UNCHANGED <<phase, ctx, work, results, rows>> /\ fl[f].pc # "idle"
      /\ fl[f] \in FlushState
  BY DEF SubmitCancelled, CollectTimeout, SkipFails, Visiting, service, pool, TypeOK
<1>2. PICK g \in {IdleFlush, ToDLQ(fl[f])} :
         /\ fl' = [fl EXCEPT ![f] = g]
         /\ \/ CtxDone(f) /\ UNCHANGED faults
            \/ Fault
  BY DEF SubmitCancelled, CollectTimeout, SkipFails, CallFails, FailFlush, bounds
<1>3. FaultsGrow /\ (faults' = 0 => CtxDone(f))
  BY <1>2, FaultsGrowLemma DEF Fault, TypeOK
<1>4. /\ ToDLQ(fl[f]).res = fl[f].res /\ ToDLQ(fl[f]).batches = fl[f].batches
  BY <1>1 DEF ToDLQ, FlushState
<1>5. GoodBatches(fl[f]) /\ (faults' = 0 => Calm(f, fl[f]))
  BY <1>3, CalmBefore
<1>6. GoodBatches(g) /\ (faults' = 0 => Calm(f, g))
  BY <1>2, <1>3, <1>4, <1>5, IdleCalm DEF Calm, GoodBatches
<1>7. GoodRows' /\ BadDLQ'
  <2>1. faults' = 0 => UNCHANGED dlq
    BY <1>3 DEF SubmitCancelled, CollectTimeout, SkipFails, service
  <2>2. QED
    BY <1>1, <1>3, <2>1 DEF RestInv, KindInv, GoodRows, BadDLQ, FaultsGrow
<1>8. ~Down /\ (faults' = 0 => \A i \in 1 .. Len(results') : Mapped(results'[i].items))
  BY <1>1, <1>3, CalmBefore
<1>9. QED
  BY <1>1, <1>2, <1>3, <1>6, <1>7, <1>8, FlushRest

LEMMA DLQRest ==
    ASSUME RestInv, TypeOK, NEW f \in Flushers,
           \/ \E e \in fl[f].now : DLQPush(f, e) \/ DLQStops(f, e)
           \/ DLQDone(f) \/ FlushDone(f)
    PROVE  RestInv'
<1>1. /\ UNCHANGED <<phase, ctx, work, results, rows>> /\ fl[f].pc # "idle"
      /\ fl[f] \in FlushState
  BY DEF DLQPush, DLQStops, DLQDone, FlushDone, service, pool, TypeOK
<1>2. FaultsGrow
  BY FaultsGrowLemma DEF DLQPush, DLQStops, DLQDone, FlushDone, bounds, FaultsGrow
<1>3. Like(IdleFlush, fl[f])
  BY DEF Like, Dead, IdleFlush
<1>4. PICK g : fl' = [fl EXCEPT ![f] = g] /\ Like(g, fl[f])
  <2>1. ASSUME NEW e \in fl[f].now, DLQPush(f, e)
        PROVE  \E g : fl' = [fl EXCEPT ![f] = g] /\ Like(g, fl[f])
    <3> DEFINE g == [fl[f] EXCEPT !.now = fl[f].now \ {e}]
    <3>1. fl' = [fl EXCEPT ![f] = g]
      BY <2>1 DEF DLQPush
    <3>2. Like(g, fl[f])
      BY <1>1 DEF Like, Dead, FlushState
    <3>3. QED
      BY <3>1, <3>2
  <2>2. ASSUME NEW e \in fl[f].now, DLQStops(f, e)
        PROVE  \E g : fl' = [fl EXCEPT ![f] = g] /\ Like(g, fl[f])
    <3> DEFINE g == [fl[f] EXCEPT !.now = {}, !.allErr = TRUE]
    <3>1. fl' = [fl EXCEPT ![f] = g] /\ fl[f].pc \in {"dlqBatch", "dlqAll"}
      BY <2>2 DEF DLQStops
    <3>2. Like(g, fl[f])
      BY <1>1, <3>1 DEF Like, Dead, FlushState
    <3>3. QED
      BY <3>1, <3>2
  <2>3. CASE DLQDone(f)
    <3> DEFINE g == [fl[f] EXCEPT !.pc = "send"]
    <3>1. fl' = [fl EXCEPT ![f] = g] \/ fl' = [fl EXCEPT ![f] = IdleFlush]
      BY <2>3 DEF DLQDone
    <3>2. Like(g, fl[f])
      BY <1>1 DEF Like, Dead, FlushState
    <3>3. QED
      BY <1>3, <3>1, <3>2
  <2>4. CASE FlushDone(f)
    <3>1. \/ fl' = [fl EXCEPT ![f] = ToDLQ(fl[f])] /\ fl[f].allErr
          \/ fl' = [fl EXCEPT ![f] = IdleFlush]
      BY <2>4 DEF FlushDone
    <3>2. fl[f].allErr => Like(ToDLQ(fl[f]), fl[f])
      BY <1>1 DEF Like, Dead, FlushState, ToDLQ
    <3>3. QED
      BY <1>3, <3>1, <3>2
  <2>5. QED
    BY <2>1, <2>2, <2>3, <2>4
<1>5. GoodBatches(g) /\ (faults' = 0 => Calm(f, g))
  BY <1>2, <1>4, LikeBefore
<1>6. faults' = 0 => UNCHANGED dlq
  <2> SUFFICES ASSUME faults' = 0 PROVE UNCHANGED dlq
    OBVIOUS
  <2>1. faults = 0 /\ Calm(f, fl[f])
    BY <1>2, CalmBefore DEF FaultsGrow
  <2>2. ASSUME NEW e \in fl[f].now, DLQPush(f, e) \/ DLQStops(f, e)
        PROVE  UNCHANGED dlq
    <3>1. CtxDone(f)
      BY <2>1, <2>2 DEF DLQPush, DLQStops, Calm, Dead
    <3>2. QED
      BY <2>1, <2>2, <3>1 DEF DLQPush, DLQStops, Fault
  <2>3. CASE DLQDone(f) \/ FlushDone(f)
    BY <2>3 DEF DLQDone, FlushDone, service
  <2>4. QED
    BY <2>2, <2>3
<1>7. GoodRows' /\ BadDLQ'
  BY <1>1, <1>2, <1>6 DEF RestInv, KindInv, GoodRows, BadDLQ, FaultsGrow
<1>8. ~Down /\ (faults' = 0 => \A i \in 1 .. Len(results') : Mapped(results'[i].items))
  BY <1>1, <1>2, CalmBefore
<1>9. QED
  BY <1>1, <1>2, <1>4, <1>5, <1>7, <1>8, FlushRest

LEMMA ExtractBufferRest ==
    ASSUME RestInv, TypeOK, NEW f \in Flushers, ExtractBuffer(f)
    PROVE  RestInv'
<1> DEFINE h == [IdleFlush EXCEPT !.pc = "submit", !.own = buffer]
<1>1. /\ UNCHANGED <<phase, ctx, work, results, rows, dlq, faults>> /\ fl[f].pc # "idle"
  BY DEF ExtractBuffer, service, pool, bounds
<1>2. Calm(f, h) /\ GoodBatches(h)
  BY DEF Calm, GoodBatches, Dead, IdleFlush
<1>3. PICK g \in {IdleFlush, h} : fl' = [fl EXCEPT ![f] = g]
  BY DEF ExtractBuffer
<1> HIDE DEF h
<1>4. Calm(f, g) /\ GoodBatches(g)
  BY <1>2, <1>3, IdleCalm
<1>5. QED
  BY <1>1, <1>3, <1>4, FlushOnly DEF FaultsGrow

LEMMA SubmitJobRest ==
    ASSUME RestInv, TypeOK, NEW f \in Flushers, SubmitJob(f)
    PROVE  RestInv'
<1>1. /\ UNCHANGED <<phase, ctx, work, results, rows, dlq, faults>> /\ fl[f].pc = "submit"
      /\ fl[f] \in FlushState
  BY DEF SubmitJob, service, bounds, TypeOK
<1> DEFINE n == fl[f].njobs + 1
           upto == fl[f].sent + ChunkSize(Len(fl[f].own))
           last == IF upto > Len(fl[f].own) THEN Len(fl[f].own) ELSE upto
           pc == IF last = Len(fl[f].own) THEN "collect" ELSE "submit"
           res == IF last = Len(fl[f].own) THEN [j \in 1 .. n |-> <<>>] ELSE <<>>
           g == [fl[f] EXCEPT !.sent = last, !.njobs = n, !.pc = pc, !.res = res]
<1>2. /\ fl' = [fl EXCEPT ![f] = g] /\ n \in Nat /\ pc \in {"submit", "collect"}
      /\ res = [j \in 1 .. n |-> <<>>] \/ res = <<>>
  BY SMTT(30), <1>1 DEF SubmitJob, FlushState
<1> HIDE DEF n, last, pc, res
<1>3. g.res = res /\ g.pc = pc /\ g.allErr = fl[f].allErr /\ g.batches = fl[f].batches
  BY <1>1 DEF FlushState
<1>4. \A j \in 1 .. Len(res) : res[j] = <<>>
  BY <1>2
<1>5. Like(g, fl[f])
  BY <1>2, <1>3, <1>4 DEF Like, Dead
<1>6. GoodBatches(g) /\ (faults' = 0 => Calm(f, g))
  BY <1>1, <1>5, LikeBefore DEF FaultsGrow
<1> HIDE DEF g
<1>7. QED
  BY <1>1, <1>2, <1>6, FlushOnly DEF FaultsGrow

LEMMA CollectRest ==
    ASSUME RestInv, TypeOK, NEW f \in Flushers, Collect(f)
    PROVE  RestInv'
<1> DEFINE r == Head(results)
           old == fl[f].res
           res == [i \in DOMAIN old |-> IF i = r.id THEN r.items ELSE old[i]]
           got == fl[f].got + 1
           pc == IF fl[f].got + 1 = fl[f].njobs THEN "prepare" ELSE "collect"
           g == [fl[f] EXCEPT !.got = got, !.res = res, !.pc = pc]
<1>1. /\ UNCHANGED <<phase, ctx, work, rows, dlq, faults>> /\ fl[f].pc = "collect"
      /\ fl[f] \in FlushState /\ fl' = [fl EXCEPT ![f] = g] /\ pc \in {"prepare", "collect"}
  BY DEF Collect, service, bounds, TypeOK
<1>2. /\ results \in Seq(Result) /\ results # <<>> /\ results' = Tail(results)
      /\ Len(results) \in Nat /\ r = results[1] /\ 1 \in 1 .. Len(results)
  BY DEF Collect, TypeOK
<1>3. results' = [i \in 1 .. Len(results) - 1 |-> results[i + 1]]
  BY <1>2, TailIs
<1>4. Len(old) \in Nat /\ DOMAIN old = 1 .. Len(old)
  BY <1>1 DEF FlushState
<1>5. res = [i \in 1 .. Len(old) |-> IF i = r.id THEN r.items ELSE old[i]]
  BY <1>4
<1> HIDE DEF res, got, pc
<1>6. g.res = res /\ g.pc = pc /\ g.allErr = fl[f].allErr /\ g.batches = fl[f].batches
  BY <1>1 DEF FlushState
<1>7. FaultsGrow
  BY <1>1 DEF FaultsGrow
<1> HIDE DEF g, r
<1>8. /\ GoodBatches(fl[f]) /\ (faults' = 0 => Calm(f, fl[f])) /\ ~Down
      /\ faults' = 0 => \A i \in 1 .. Len(results) : Mapped(results[i].items)
  BY <1>1, <1>7, CalmBefore
<1>9. GoodBatches(g)
  BY <1>6, <1>8 DEF GoodBatches
<1>10. faults' = 0 => Calm(f, g)
  <2> SUFFICES ASSUME faults' = 0 PROVE Calm(f, g)
    OBVIOUS
  <2>1. Dead(g) => CtxDone(f)
    BY <1>1, <1>6, <1>8 DEF Dead, Calm
  <2>2. /\ Len(res) = Len(old)
        /\ \A i \in 1 .. Len(old) : res[i] = IF i = r.id THEN r.items ELSE old[i]
    BY <1>4, <1>5
  <2>3. Mapped(r.items) /\ \A j \in 1 .. Len(old) : Mapped(old[j])
    BY <1>2, <1>8 DEF Calm
  <2>4. QED
    BY <1>6, <2>1, <2>2, <2>3 DEF Calm
<1>11. faults' = 0 => \A i \in 1 .. Len(results') : Mapped(results'[i].items)
  <2>1. Len(results') = Len(results) - 1
    BY <1>2
  <2>2. \A i \in 1 .. Len(results') : results'[i] = results[i + 1] /\ i + 1 \in 1 .. Len(results)
    BY <1>2, <1>3, <2>1
  <2>3. QED
    BY <1>8, <2>2
<1>12. GoodRows' /\ BadDLQ'
  BY <1>1, <1>7, SameServices
<1>13. QED
  BY <1>1, <1>7, <1>8, <1>9, <1>10, <1>11, <1>12, FlushRest

LEMMA WorkRest ==
    ASSUME RestInv, TypeOK, NEW w \in Workers, Work(w)
    PROVE  RestInv'
<1>1. /\ UNCHANGED <<fl, rows, dlq, phase, ctx>> /\ (UNCHANGED faults \/ Fault)
  BY DEF Work, WorkerTake, WorkerPut, WorkerExit, service, bounds
<1>2. FaultsGrow
  BY <1>1, FaultsGrowLemma
<1>3. faults' = 0 => /\ \A u \in Workers : Mapped(work[u].items)
                     /\ \A i \in 1 .. Len(results) : Mapped(results[i].items)
  BY <1>2 DEF FaultsGrow, RestInv, QuietInv
<1>4. Mapped(NoWork.items) /\ Mapped(Exited.items)
  BY MappedEmpty DEF NoWork, Exited
<1>5. CASE WorkerTake(w)
  <2>1. UNCHANGED results
    BY <1>5 DEF WorkerTake
  <2>2. ASSUME faults' = 0 PROVE \A u \in Workers : Mapped(work'[u].items)
    <3> DEFINE msgs == Head(jobs).msgs
               items == [i \in 1 .. Len(msgs) |->
                            [d |-> msgs[i], ok |-> TRUE /\ Kind[msgs[i][1]] # "unmappable"]]
    <3>1. ~Fault
      BY <2>2 DEF Fault, TypeOK
    <3>2. work' = [work EXCEPT ![w] = [id |-> Head(jobs).id, items |-> items]]
      BY <1>5, <3>1 DEF WorkerTake
    <3>3. Len(msgs) \in Nat
      <4>1. Head(jobs) \in Job
        BY <1>5 DEF WorkerTake, TypeOK
      <4>2. QED
        BY <4>1 DEF Job
    <3>4. Mapped(items)
      <4>1. Len(items) = Len(msgs)
        BY <3>3
      <4>2. \A i \in 1 .. Len(msgs) :
               /\ items[i].d = msgs[i]
               /\ items[i].ok <=> Kind[msgs[i][1]] # "unmappable"
        OBVIOUS
      <4>3. QED
        BY <4>1, <4>2 DEF Mapped
    <3> HIDE DEF items
    <3>5. \A u \in Workers : work'[u].items = IF u = w THEN items ELSE work[u].items
      BY <3>2 DEF TypeOK
    <3>6. QED
      BY <1>3, <2>2, <3>4, <3>5
  <2>3. QED
    BY <1>1, <1>2, <1>3, <2>1, <2>2, OtherRest DEF Down
<1>6. CASE WorkerPut(w)
  <2>1. results' = Append(results, work[w]) /\ work' = [work EXCEPT ![w] = NoWork]
    BY <1>6 DEF WorkerPut
  <2>2. results \in Seq(Result) /\ work[w] \in Result
    BY DEF TypeOK
  <2>3. results' = [i \in 1 .. Len(results) + 1 |->
                       IF i = Len(results) + 1 THEN work[w] ELSE results[i]]
    BY <2>1, <2>2, AppendIs
  <2>4. Len(results') = Len(results) + 1 /\ Len(results) \in Nat
    BY <2>1, <2>2
  <2>5. \A i \in 1 .. Len(results') :
           \/ results'[i] = work[w]
           \/ i \in 1 .. Len(results) /\ results'[i] = results[i]
    BY <2>3, <2>4
  <2>6. \A u \in Workers : work'[u] = IF u = w THEN NoWork ELSE work[u]
    BY <2>1 DEF TypeOK
  <2>7. faults' = 0 => \A i \in 1 .. Len(results') : Mapped(results'[i].items)
    BY <1>3, <2>5
  <2>8. faults' = 0 => \A u \in Workers : Mapped(work'[u].items)
    BY <1>3, <1>4, <2>6
  <2>9. QED
    BY <1>1, <1>2, <2>7, <2>8, OtherRest DEF Down
<1>7. CASE WorkerExit(w)
  <2>1. \A u \in Workers : work'[u] = IF u = w THEN Exited ELSE work[u]
    BY <1>7 DEF WorkerExit, TypeOK
  <2>2. faults' = 0 => \A u \in Workers : Mapped(work'[u].items)
    BY <1>3, <1>4, <2>1
  <2>3. UNCHANGED results
    BY <1>7 DEF WorkerExit
  <2>4. QED
    BY <1>1, <1>2, <1>3, <2>2, <2>3, OtherRest DEF Down
<1>8. QED
  BY <1>5, <1>6, <1>7 DEF Work

\* The next item of a flush: what its mapping says, and what is left.
LEMMA VisitingRest ==
    ASSUME RestInv, TypeOK, FaultsGrow, NEW f \in Flushers, NEW j, Visiting(f, j)
    PROVE  LET it == Head(fl[f].res[j])
           IN  /\ faults' = 0 => (it.ok <=> Kind[it.d[1]] # "unmappable")
               /\ faults' = 0 => \A i \in 1 .. Len(Rest(f, j)) : Mapped(Rest(f, j)[i])
<1> DEFINE old == fl[f].res
           s == old[j]
           it == Head(s)
<1>1. /\ old \in Seq(Seq(Item)) /\ j \in 1 .. Len(old) /\ s # <<>>
      /\ Rest(f, j) \in Seq(Seq(Item))
  BY SMTT(30), VisitingType DEF TypeOK, FlushState, Visiting
<1>2. s \in Seq(Item)
  BY <1>1
<1>3. Len(s) \in Nat /\ 1 \in 1 .. Len(s) /\ it = s[1]
  BY <1>1, <1>2, HeadIs
<1>4. Tail(s) = [i \in 1 .. Len(s) - 1 |-> s[i + 1]] /\ Len(Tail(s)) = Len(s) - 1
  BY <1>1, <1>2, TailIs
<1>5. Len(Rest(f, j)) = Len(old) /\ \A i \in 1 .. Len(old) :
         Rest(f, j)[i] = IF i = j THEN Tail(s) ELSE old[i]
  BY <1>1 DEF Rest
<1>6. faults' = 0 => \A i \in 1 .. Len(old) : Mapped(old[i])
  BY CalmBefore DEF Calm
<1>7. Mapped(s) => Mapped(Tail(s)) /\ (it.ok <=> Kind[it.d[1]] # "unmappable")
  BY SMTT(30), <1>3, <1>4 DEF Mapped
<1>8. QED
  BY <1>1, <1>5, <1>6, <1>7

LEMMA VisitsRest ==
    ASSUME RestInv, TypeOK, NEW f \in Flushers, NEW j \in DOMAIN fl[f].res,
           SkipToDLQ(f, j) \/ AppendRow(f, j) \/ AppendAlreadyExists(f, j)
    PROVE  RestInv'
<1> DEFINE it == Head(fl[f].res[j])
           v0 == Schema[it.d[1]]
<1>1. /\ UNCHANGED <<phase, ctx, work, results, rows, faults>> /\ Visiting(f, j)
      /\ fl[f] \in FlushState /\ fl[f].pc = "prepare"
  BY DEF SkipToDLQ, AppendRow, AppendAlreadyExists, service, pool, bounds, TypeOK, Visiting
<1>2. FaultsGrow
  BY <1>1 DEF FaultsGrow
<1>3. /\ faults' = 0 => (it.ok <=> Kind[it.d[1]] # "unmappable")
      /\ faults' = 0 => \A i \in 1 .. Len(Rest(f, j)) : Mapped(Rest(f, j)[i])
  BY <1>1, <1>2, VisitingRest
<1>4. /\ GoodBatches(fl[f]) /\ (faults' = 0 => Calm(f, fl[f])) /\ ~Down
      /\ faults' = 0 => \A i \in 1 .. Len(results') : Mapped(results'[i].items)
  BY <1>1, <1>2, CalmBefore
<1>5. ASSUME NEW g, g.pc = "prepare", g.allErr = fl[f].allErr, g.res = Rest(f, j)
      PROVE  faults' = 0 => Calm(f, g)
  BY <1>1, <1>3, <1>4, <1>5 DEF Calm, Dead
<1>6. CASE SkipToDLQ(f, j)
  <2> DEFINE failed == fl[f].failed \cup {it.d}
             made == fl[f].made \cup (IF it.ok THEN {v0} ELSE {})
             g == [fl[f] EXCEPT !.res = Rest(f, j), !.failed = failed, !.made = made]
  <2>1. fl' = [fl EXCEPT ![f] = g] /\ Refused(it) /\ dlq' = dlq \cup {it.d[1]}
    BY <1>6 DEF SkipToDLQ
  <2>2. /\ g.pc = "prepare" /\ g.allErr = fl[f].allErr /\ g.res = Rest(f, j)
        /\ g.batches = fl[f].batches
    BY <1>1 DEF FlushState
  <2> HIDE DEF g
  <2>3. GoodBatches(g)
    BY <1>4, <2>2 DEF GoodBatches
  <2>4. faults' = 0 => Kind[it.d[1]] # "good"
    BY <1>3, <2>1 DEF Refused
  <2> HIDE DEF it
  <2>5. GoodRows' /\ BadDLQ'
    BY <1>1, <2>1, <2>4 DEF RestInv, KindInv, GoodRows, BadDLQ
  <2>6. faults' = 0 => Calm(f, g)
    BY <1>5, <2>2
  <2>7. QED
    BY <1>1, <1>2, <1>4, <2>1, <2>3, <2>5, <2>6, FlushRest
<1>7. CASE AppendRow(f, j)
  <2> DEFINE made == fl[f].made \cup {v0}
             bs == [fl[f].batches EXCEPT ![v0] = fl[f].batches[v0] \cup {it.d}]
             g == [fl[f] EXCEPT !.res = Rest(f, j), !.made = made, !.batches = bs]
  <2>1. fl' = [fl EXCEPT ![f] = g] /\ Kind[it.d[1]] = "good" /\ UNCHANGED <<rows, dlq>>
    BY <1>7 DEF AppendRow, service
  <2>2. \A v \in Schemas : bs[v] \subseteq fl[f].batches[v] \cup {it.d}
    BY <1>1 DEF FlushState
  <2>3. /\ g.pc = "prepare" /\ g.allErr = fl[f].allErr /\ g.res = Rest(f, j)
        /\ g.batches = bs
    BY <1>1 DEF FlushState
  <2> HIDE DEF g, bs, it
  <2>4. GoodBatches(g)
    BY <1>4, <2>1, <2>2, <2>3 DEF GoodBatches
  <2>5. faults' = 0 => Calm(f, g)
    BY <1>5, <2>3
  <2>6. QED
    BY <1>1, <1>2, <2>1, <2>4, <2>5, FlushOnly
<1>8. CASE AppendAlreadyExists(f, j)
  <2> DEFINE failed == fl[f].failed \cup {it.d}
             g == [fl[f] EXCEPT !.res = Rest(f, j), !.failed = failed]
  <2>1. fl' = [fl EXCEPT ![f] = g] /\ UNCHANGED <<rows, dlq>>
    BY <1>8 DEF AppendAlreadyExists, service
  <2>2. /\ g.pc = "prepare" /\ g.allErr = fl[f].allErr /\ g.res = Rest(f, j)
        /\ g.batches = fl[f].batches
    BY <1>1 DEF FlushState
  <2> HIDE DEF g
  <2>3. GoodBatches(g)
    BY <1>4, <2>2 DEF GoodBatches
  <2>4. faults' = 0 => Calm(f, g)
    BY <1>5, <2>2
  <2>5. QED
    BY <1>1, <1>2, <2>1, <2>3, <2>4, FlushOnly
<1>9. QED
  BY <1>6, <1>7, <1>8

LEMMA AckRest ==
    ASSUME RestInv, PlaceInv, TypeOK, NEW f \in Flushers, AckFailedMessages(f) \/ AckBatch(f)
    PROVE  RestInv'
<1> DEFINE h1 == [fl[f] EXCEPT !.pc = "send"]
           h2 == [fl[f] EXCEPT !.pc = "send", !.now = {}]
           h3 == [fl[f] EXCEPT !.pc = "send", !.now = {}, !.allErr = TRUE]
<1>1. /\ UNCHANGED <<phase, ctx, work, results, rows, dlq>> /\ fl[f].pc \in {"prepare", "ack"}
      /\ fl[f] \in FlushState
  BY DEF AckFailedMessages, AckBatch, pool, TypeOK
<1>2. PICK g \in {h1, h2, h3, ToDLQ(fl[f])} :
        /\ fl' = [fl EXCEPT ![f] = g]
        /\ \/ UNCHANGED faults /\ g \in {h1, h2}
           \/ faults' # 0 /\ FaultsGrow
  <2>1. CASE AckFailedMessages(f) /\ AckAll(fl[f].failed) /\ fl' = [fl EXCEPT ![f] = h1]
    BY <2>1 DEF AckAll
  <2>2. CASE AckBatch(f) /\ AckAll(fl[f].now) /\ fl' = [fl EXCEPT ![f] = h2]
    BY <2>2 DEF AckAll
  <2>3. CASE /\ AckFailedMessages(f) /\ AckStopped(fl[f].failed)
             /\ fl' = [fl EXCEPT ![f] = ToDLQ(fl[f])]
    <3>1. ToAck(fl[f]) = fl[f].failed
      BY <2>3 DEF AckFailedMessages, ToAck
    <3>2. faults' # 0 /\ FaultsGrow
      BY <1>1, <2>3, <3>1, AckNeedsFault
    <3>3. QED
      BY <2>3, <3>2
  <2>4. CASE AckBatch(f) /\ AckStopped(fl[f].now) /\ fl' = [fl EXCEPT ![f] = h3]
    <3>1. ToAck(fl[f]) = fl[f].now
      BY <2>4 DEF AckBatch, ToAck
    <3>2. faults' # 0 /\ FaultsGrow
      BY <1>1, <2>4, <3>1, AckNeedsFault
    <3>3. QED
      BY <2>4, <3>2
  <2>5. QED
    BY <2>1, <2>2, <2>3, <2>4 DEF AckFailedMessages, AckBatch
<1>3. FaultsGrow
  BY <1>2 DEF FaultsGrow
<1>4. /\ \A g0 \in {h1, h2, h3, ToDLQ(fl[f])} : g0.batches = fl[f].batches
      /\ \A g0 \in {h1, h2} :
            g0.res = fl[f].res /\ g0.pc = "send" /\ g0.allErr = fl[f].allErr
  BY <1>1 DEF FlushState, ToDLQ
<1> HIDE DEF h1, h2, h3
<1>5. GoodBatches(fl[f]) /\ (faults' = 0 => Calm(f, fl[f]))
  BY <1>3, CalmBefore
<1>6. GoodBatches(g)
  BY <1>2, <1>4, <1>5 DEF GoodBatches
<1>7. faults' = 0 => Calm(f, g)
  BY <1>2, <1>4, <1>5 DEF Calm, Dead
<1>8. QED
  BY <1>1, <1>2, <1>3, <1>6, <1>7, FlushOnly

LEMMA SendRest ==
    ASSUME RestInv, TypeOK, NEW f \in Flushers, NEW v \in Schemas,
           SendOk(f, v) \/ SendFailed(f, v)
    PROVE  RestInv'
<1> DEFINE D == fl[f].batches[v]
           b == [fl[f].batches EXCEPT ![v] = {}]
           g0 == [fl[f] EXCEPT !.pc = "ack", !.now = D, !.batches = b]
           g1 == [fl[f] EXCEPT !.batches = b]
           g2 == [fl[f] EXCEPT !.pc = "dlqBatch", !.now = D, !.batches = b]
<1>1. /\ fl[f] \in FlushState /\ fl[f].pc = "send" /\ rows' \in {rows, Written(D)}
      /\ UNCHANGED <<phase, ctx, work, results, dlq>>
  BY DEF TypeOK, SendOk, SendFailed, Sending, pool
<1>2. PICK g \in {g0, g1, g2} :
        /\ fl' = [fl EXCEPT ![f] = g]
        /\ \/ UNCHANGED faults /\ (g = g0 \/ CtxDone(f))
           \/ Fault
  BY DEF SendOk, SendFailed, bounds
<1>3. FaultsGrow /\ (faults' = 0 => g = g0 \/ CtxDone(f))
  BY <1>2, FaultsGrowLemma DEF Fault, TypeOK
<1>4. /\ g0.batches = b /\ g0.res = fl[f].res /\ g0.pc = "ack" /\ g0.allErr = fl[f].allErr
      /\ g1.batches = b /\ g1.res = fl[f].res /\ g2.batches = b /\ g2.res = fl[f].res
  BY <1>1 DEF FlushState
<1>5. \A u \in Schemas : b[u] \subseteq fl[f].batches[u]
  BY <1>1 DEF FlushState
<1> HIDE DEF g0, g1, g2, b
<1>6. /\ GoodBatches(fl[f]) /\ (faults' = 0 => Calm(f, fl[f])) /\ ~Down
      /\ faults' = 0 => \A i \in 1 .. Len(results') : Mapped(results'[i].items)
  BY <1>1, <1>3, CalmBefore
<1>7. GoodBatches(g)
  BY <1>2, <1>4, <1>5, <1>6 DEF GoodBatches
<1>8. faults' = 0 => Calm(f, g)
  BY <1>1, <1>2, <1>3, <1>4, <1>6 DEF Calm, Dead
<1>9. GoodRows'
  <2>1. \A d \in D : Kind[d[1]] = "good"
    BY <1>6 DEF GoodBatches
  <2>2. \A m \in Ms(D) : Kind[m] = "good"
    BY <2>1 DEF Ms
  <2>3. ASSUME NEW m \in Msgs, rows'[m] > 0 PROVE Kind[m] = "good"
    BY <1>1, <2>2, <2>3 DEF Written, RestInv, KindInv, GoodRows, TypeOK
  <2>4. QED
    BY <2>3 DEF GoodRows
<1>10. BadDLQ'
  BY <1>1, <1>3 DEF RestInv, KindInv, BadDLQ, FaultsGrow
<1>11. QED
  BY <1>1, <1>2, <1>3, <1>6, <1>7, <1>8, <1>9, <1>10, FlushRest

LEMMA ProcessGoneRest ==
    ASSUME RestInv, TypeOK, ProcessGone, UNCHANGED <<rows, dlq, faults>>
    PROVE  RestInv'
<1>1. /\ \A f \in Flushers : fl'[f] = IdleFlush
      /\ \A w \in Workers : work'[w] = NoWork
      /\ results' = <<>>
  BY DEF ProcessGone
<1>2. \A f \in Flushers : Calm(f, fl[f])'
  BY <1>1 DEF Calm, Dead, IdleFlush
<1>3. QuietInv'
  BY <1>1, <1>2, MappedEmpty DEF QuietInv, NoWork
<1>4. DownInv'
  BY <1>1 DEF DownInv
<1>5. KindInv'
  BY <1>1, IdleCalm DEF RestInv, KindInv, GoodRows, BadDLQ
<1>6. QED
  BY <1>3, <1>4, <1>5 DEF RestInv

LEMMA HandleShutdownRest ==
    ASSUME RestInv, TypeOK, HandleShutdown
    PROVE  RestInv'
<1> DEFINE f0 == "shutdown"
           g == [fl[f0] EXCEPT !.pc = "flush"]
<1>1. /\ UNCHANGED <<ctx, work, results, rows, dlq, faults>> /\ ~Down' /\ f0 \in Flushers
      /\ fl[f0] \in FlushState /\ fl' = [fl EXCEPT ![f0] = g]
  BY DEF HandleShutdown, service, pool, bounds, Down, Flushers, TypeOK
<1>2. g.pc = "flush" /\ g.allErr = fl[f0].allErr /\ g.res = fl[f0].res
      /\ g.batches = fl[f0].batches
  BY <1>1 DEF FlushState
<1> HIDE DEF g
<1>3. \A f \in Flushers : fl'[f] = IF f = f0 THEN g ELSE fl[f]
  BY <1>1 DEF TypeOK
<1>4. GoodBatches(g) /\ (faults = 0 => Calm(f0, g))
  BY <1>1, <1>2 DEF RestInv, KindInv, QuietInv, GoodBatches, Calm, Dead
<1>5. ASSUME faults = 0 PROVE \A f \in Flushers : Calm(f, fl[f])'
  <2>1. \A f \in Flushers : Calm(f, fl'[f])
    BY <1>3, <1>4, <1>5 DEF RestInv, QuietInv
  <2>2. \A f \in Flushers : CtxDone(f)' <=> CtxDone(f)
    BY <1>1 DEF CtxDone, ctxDone
  <2>3. QED
    BY <2>1, <2>2 DEF Calm
<1>6. QuietInv'
  BY <1>1, <1>5 DEF RestInv, QuietInv
<1>7. DownInv'
  BY <1>1 DEF DownInv
<1>8. KindInv'
  BY <1>1, <1>3, <1>4 DEF RestInv, KindInv, GoodRows, BadDLQ
<1>9. QED
  BY <1>6, <1>7, <1>8 DEF RestInv

LEMMA LifecycleRest ==
    ASSUME RestInv, TypeOK, Lifecycle \/ Stop \/ Crash \/ \E f \in Flushers : SubmitPanics(f)
    PROVE  RestInv'
<1>1. CASE HandleShutdown
  BY <1>1, HandleShutdownRest
<1>2. CASE StopWorkerPool \/ Start \/ Stop
  <2>1. /\ UNCHANGED <<fl, rows, dlq, work, results, faults>>
    BY <1>2 DEF StopWorkerPool, Start, Stop, service, pool, bounds, Down
  <2>2. Down' => Down
    BY <1>2 DEF StopWorkerPool, Start, Stop, Down
  <2>3. ~Down => UNCHANGED ctx \/ ctx' = "cancelled"
    BY <1>2 DEF StopWorkerPool, Start, Stop, Down
  <2>4. faults' = 0 => /\ \A w \in Workers : Mapped(work'[w].items)
                       /\ \A i \in 1 .. Len(results') : Mapped(results'[i].items)
    BY <2>1 DEF RestInv, QuietInv
  <2>5. QED
    BY <2>1, <2>2, <2>3, <2>4, OtherRest DEF FaultsGrow
<1>3. CASE StartReturns \/ Crash \/ \E f \in Flushers : SubmitPanics(f)
  <2>1. ProcessGone /\ UNCHANGED <<rows, dlq, faults>>
    BY <1>3 DEF StartReturns, Crash, SubmitPanics, service, bounds
  <2>2. QED
    BY <2>1, ProcessGoneRest
<1>4. QED
  BY <1>1, <1>2, <1>3 DEF Lifecycle

LEMMA FlushActionRest ==
    ASSUME RestInv, PlaceInv, TypeOK, NEW f \in Flushers, Flush(f)
    PROVE  RestInv'
<1>1. CASE \/ SubmitCancelled(f) \/ CollectTimeout(f)
           \/ \E j \in DOMAIN fl[f].res : SkipFails(f, j)
  BY <1>1, GiveUpRest
<1>2. CASE \E j \in DOMAIN fl[f].res :
              SkipToDLQ(f, j) \/ AppendRow(f, j) \/ AppendAlreadyExists(f, j)
  BY <1>2, VisitsRest
<1>3. CASE \E v \in Schemas : SendOk(f, v) \/ SendFailed(f, v)
  BY <1>3, SendRest
<1>4. CASE \/ \E e \in fl[f].now : DLQPush(f, e) \/ DLQStops(f, e)
           \/ DLQDone(f) \/ FlushDone(f)
  BY <1>4, DLQRest
<1>5. CASE ExtractBuffer(f) \/ SubmitJob(f) \/ Collect(f)
  BY <1>5, ExtractBufferRest, SubmitJobRest, CollectRest
<1>6. CASE AckFailedMessages(f) \/ AckBatch(f) \/ SubmitPanics(f)
  BY <1>6, AckRest, LifecycleRest
<1>7. QED
  BY <1>1, <1>2, <1>3, <1>4, <1>5, <1>6 DEF Flush

LEMMA StutterRest ==
    ASSUME RestInv, TypeOK, UNCHANGED vars
    PROVE  RestInv'
<1>1. UNCHANGED <<fl, rows, dlq, work, results, faults, phase, ctx>>
  BY DEF vars, service, pool, bounds
<1>2. faults' = 0 => /\ \A w \in Workers : Mapped(work'[w].items)
                     /\ \A i \in 1 .. Len(results') : Mapped(results'[i].items)
  BY <1>1 DEF RestInv, QuietInv
<1>3. QED
  BY <1>1, <1>2, OtherRest DEF FaultsGrow, Down

LEMMA RestNext == RestInv /\ PlaceInv /\ TypeOK /\ [Next]_vars => RestInv'
<1> SUFFICES ASSUME RestInv, PlaceInv, TypeOK, [Next]_vars PROVE RestInv'
  OBVIOUS
<1>1. CASE (\E m \in Msgs : HandleMessage(m)) \/ Tick
  BY <1>1, HandleMessageRest
<1>2. CASE \E f \in Flushers : Flush(f)
  BY <1>2, FlushActionRest
<1>3. CASE \E w \in Workers : Work(w)
  BY <1>3, WorkRest
<1>4. CASE Lifecycle \/ Stop \/ Crash
  BY <1>4, LifecycleRest
<1>5. CASE UNCHANGED vars
  BY <1>5, StutterRest
<1>6. QED
  BY <1>1, <1>2, <1>3, <1>4, <1>5 DEF Next

-----------------------------------------------------------------------------
\* Steps at which every delivery stays where it is.
LEMMA QuietPlaces ==
    ASSUME PlaceInv, TypeOK, TypeOK',
           \/ StopWorkerPool \/ Start \/ Stop \/ (\E w \in Workers : WorkerExit(w))
           \/ UNCHANGED vars
    PROVE  PlaceInv'
<1>1. UNCHANGED <<fl, buffer, jobs, results, rows, dcount, settled, faults>>
  BY DEF StopWorkerPool, Start, Stop, WorkerExit, vars, service, pool, bounds
<1>2. \A w \in Workers : work'[w] = work[w] \/ work'[w].items = <<>>
  <2>1. CASE \E w \in Workers : WorkerExit(w)
    BY <2>1 DEF WorkerExit, Exited, TypeOK
  <2>2. CASE StopWorkerPool \/ Start \/ Stop \/ UNCHANGED vars
    BY <2>2 DEF StopWorkerPool, Start, Stop, vars, pool
  <2>3. QED
    BY <2>1, <2>2
<1>3. QED
  BY <1>1, <1>2, StillPlaces DEF FaultsGrow

LEMMA LifecyclePlaces ==
    ASSUME PlaceInv, TypeOK, TypeOK',
           Lifecycle \/ Stop \/ Crash \/ \E f \in Flushers : SubmitPanics(f)
    PROVE  PlaceInv'
<1>1. CASE HandleShutdown
  BY <1>1, TickPlaces
<1>2. CASE StopWorkerPool \/ Start \/ Stop
  BY <1>2, QuietPlaces
<1>3. CASE StartReturns \/ Crash \/ \E f \in Flushers : SubmitPanics(f)
  <2>1. ProcessGone /\ UNCHANGED <<rows, dcount>>
    BY <1>3 DEF StartReturns, Crash, SubmitPanics, service
  <2>2. QED
    BY <2>1, ProcessGonePlaces
<1>4. QED
  BY <1>1, <1>2, <1>3 DEF Lifecycle

LEMMA FlushActionPlaces ==
    ASSUME PlaceInv, QuietInv, TypeOK, TypeOK', NEW f \in Flushers, Flush(f)
    PROVE  PlaceInv'
<1>1. CASE \/ SubmitCancelled(f) \/ CollectTimeout(f)
           \/ \E j \in DOMAIN fl[f].res : SkipFails(f, j)
  BY <1>1, GiveUpPlaces
<1>2. CASE \E j \in DOMAIN fl[f].res :
              SkipToDLQ(f, j) \/ AppendRow(f, j) \/ AppendAlreadyExists(f, j)
  BY <1>2, VisitsPlaces
<1>3. CASE \E v \in Schemas : SendOk(f, v) \/ SendFailed(f, v)
  BY <1>3, SendPlaces
<1>4. CASE \/ \E e \in fl[f].now : DLQPush(f, e) \/ DLQStops(f, e)
           \/ DLQDone(f) \/ FlushDone(f)
  BY <1>4, DLQPlaces
<1>5. CASE ExtractBuffer(f) \/ SubmitJob(f) \/ Collect(f)
  BY <1>5, ExtractBufferPlaces, SubmitJobPlaces, CollectPlaces
<1>6. CASE AckFailedMessages(f) \/ AckBatch(f) \/ SubmitPanics(f)
  BY <1>6, AckFailedMessagesPlaces, AckBatchPlaces, LifecyclePlaces
<1>7. QED
  BY <1>1, <1>2, <1>3, <1>4, <1>5, <1>6 DEF Flush

LEMMA PlaceNext == PlaceInv /\ QuietInv /\ TypeOK /\ TypeOK' /\ [Next]_vars => PlaceInv'
<1> SUFFICES ASSUME PlaceInv, QuietInv, TypeOK, TypeOK', [Next]_vars PROVE PlaceInv'
  OBVIOUS
<1>1. CASE \E m \in Msgs : HandleMessage(m)
  BY <1>1, HandleMessagePlaces
<1>2. CASE Tick
  BY <1>2, TickPlaces
<1>3. CASE \E f \in Flushers : Flush(f)
  BY <1>3, FlushActionPlaces
<1>4. CASE \E w \in Workers : Work(w)
  BY <1>4, WorkerTakePlaces, WorkerPutPlaces, QuietPlaces DEF Work
<1>5. CASE Lifecycle \/ Stop \/ Crash
  BY <1>5, LifecyclePlaces
<1>6. CASE UNCHANGED vars
  BY <1>6, QuietPlaces
<1>7. QED
  BY <1>1, <1>2, <1>3, <1>4, <1>5, <1>6 DEF Next

LEMMA RestInit == Init /\ TypeOK => RestInv
<1> SUFFICES ASSUME Init, TypeOK PROVE RestInv
  OBVIOUS
<1>1. /\ \A f \in Flushers : fl[f] = IdleFlush
      /\ \A w \in Workers : work[w] = NoWork
      /\ results = <<>> /\ dlq = {} /\ \A m \in Msgs : rows[m] = 0
  BY DEF Init
<1>2. QuietInv
  BY <1>1, IdleCalm, MappedEmpty DEF QuietInv, NoWork
<1>3. DownInv /\ KindInv
  BY <1>1, IdleCalm DEF DownInv, KindInv, GoodRows, BadDLQ
<1>4. QED
  BY <1>2, <1>3 DEF RestInv

\* SinkInv holds in every reachable state of the sink: every delivery the process
\* refers to is in one place of the pipeline, and the phases of a flush know what
\* they decided, for any number of messages, workers, batches and redeliveries.
THEOREM SinkInvariant == Spec => []SinkInv
<1>1. Init => SinkInv
  BY FateInit, PlaceInit, RestInit DEF SinkInv, FateInv
<1>2. SinkInv /\ [Next]_vars => SinkInv'
  <2> SUFFICES ASSUME SinkInv, [Next]_vars PROVE SinkInv'
    OBVIOUS
  <2>1. FateInv' /\ TypeOK /\ TypeOK'
    BY FateNext DEF SinkInv, FateInv
  <2>2. PlaceInv'
    BY <2>1, PlaceNext DEF SinkInv, RestInv
  <2>3. RestInv'
    BY <2>1, RestNext DEF SinkInv
  <2>4. QED
    BY <2>1, <2>2, <2>3 DEF SinkInv
<1>3. QED
  BY <1>1, <1>2, PTL DEF Spec

\* ClickHouse gets at most one row of each delivery, whatever result the shared
\* result channel hands to which flush, and however flushes give up, are
\* cancelled or retried.
THEOREM DeliveriesWriteOneRow == Spec => []OneRowPerDelivery
<1>1. SinkInv => OneRowPerDelivery
  <2> SUFFICES ASSUME SinkInv, NEW m \in Msgs PROVE rows[m] <= dcount[m]
    BY DEF OneRowPerDelivery
  <2>1. IsFiniteSet(Alive(m))
    <3>1. IsFiniteSet(1 .. MaxDeliver) /\ Alive(m) \in SUBSET (1 .. MaxDeliver)
      BY FS_Interval DEF Alive
    <3>2. QED
      BY <3>1, FS_Subset
  <2>2. Cardinality(Alive(m)) \in Nat
    BY <2>1, FS_CardinalityType
  <2>3. rows[m] + Cardinality(Alive(m)) <= dcount[m] /\ rows[m] \in Nat /\ dcount[m] \in Nat
    BY DEF SinkInv, PlaceInv, RowsLeft, FateInv, TypeOK
  <2>4. QED
    BY <2>2, <2>3
<1>2. QED
  BY <1>1, SinkInvariant, PTL

\* Until a call fails, the DLQ gets only messages that cannot be written, and no
\* such message becomes a row, over any shutdowns, crashes and restarts.
THEOREM OnlyBadDeadLettered == Spec => []DLQOnlyBad
<1>1. SinkInv => DLQOnlyBad
  BY DEF SinkInv, RestInv, KindInv, GoodRows, BadDLQ, DLQOnlyBad
<1>2. QED
  BY <1>1, SinkInvariant, PTL

=============================================================================
