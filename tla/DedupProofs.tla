------------------------------ MODULE DedupProofs ------------------------------
(***************************************************************************)
(* Proofs about the deduplicator, for every number of messages, keys,        *)
(* outcomes, batch size, fault and stop: it acknowledges no message before   *)
(* it is accounted for, and it writes a key once unless a batch is cut off   *)
(* before it has saved its keys.                                             *)
(*                                                                         *)
(* The first inductive invariant says it of the messages of every batch that *)
(* are no longer pending in it, and of the keys by which later messages are  *)
(* dropped: those in BadgerDB and those in the window of the output stream.  *)
(* The second one follows a key from the lookup to SaveKeys.                 *)
(***************************************************************************)
EXTENDS Dedup, TLAPS

FlushState == [pc : FlushPcs, own : SUBSET Delivery, msgs : SUBSET Delivery,
               bad : SUBSET Delivery, kept : SUBSET Delivery, put : SUBSET Keys]

\* Accounted(m), of a set L of messages that landed.
AccountedIn(m, L) ==
  Outcome[m] = "unmatched" \/ \E n \in L : n = m \/ (Key[n] = Key[m] /\ Key[m] # NoKey)

\* Every message of batch x is still to be written or dead-lettered, or accounted for.
FlushOK(x, L) ==
  /\ x.msgs \subseteq x.own /\ x.kept \subseteq x.own
  /\ \A d \in x.own : d \in x.msgs \cup x.bad \/ AccountedIn(d[1], L)
  /\ \A d \in x.msgs \cup x.kept : Outcome[d[1]] # "unmatched"
  /\ x.pc \in {"lookup", "transform", "write", "backoff", "save", "ack"} => x.bad = {}
  /\ x.pc \in {"save", "ack"} => x.msgs = {}

\* TypeOK but for the batches.
RestType ==
  /\ dcount \in [Msgs -> 0 .. MaxDeliver] /\ acked \subseteq Msgs /\ dlq \subseteq Msgs
  /\ out \subseteq Delivery /\ buffer \subseteq Delivery
  /\ window \subseteq Keys /\ seen \subseteq Keys /\ interrupted \subseteq Keys
  /\ phase \in {"run", "drain", "final", "closed", "down"}
  /\ faults \in 0 .. MaxFaults /\ stops \in 0 .. MaxStops

KeyIn(k, L) == \E n \in L : Key[n] = k

DedupInv ==
  /\ TypeOK
  /\ AckedIsAccounted
  /\ \A f \in Flushers : FlushOK(fl[f], Landed)
  /\ \A k \in seen \cup window : KeyIn(k, Landed)

-----------------------------------------------------------------------------
(* What has landed stays *)

LEMMA AccountedGrows ==
  ASSUME NEW m, NEW L, NEW M, L \subseteq M, AccountedIn(m, L)
  PROVE  AccountedIn(m, M)
BY DEF AccountedIn

LEMMA FlushGrows ==
  ASSUME NEW x, NEW L, NEW M, L \subseteq M, FlushOK(x, L)
  PROVE  FlushOK(x, M)
BY AccountedGrows DEF FlushOK

LEMMA AccountedIsIn == \A m : Accounted(m) <=> AccountedIn(m, Landed)
BY DEF Accounted, AccountedIn, Represented

LEMMA IdleOK == ASSUME NEW L PROVE FlushOK(IdleFlush, L)
BY DEF FlushOK, IdleFlush

LEMMA IdleType == IdleFlush \in FlushState
BY DEF IdleFlush, FlushState, FlushPcs

\* A step that changes one batch and adds to what landed keeps the invariant of the others.
LEMMA OneFlush ==
  ASSUME DedupInv, NEW f \in Flushers, NEW x, fl' = [fl EXCEPT ![f] = x],
         Landed \subseteq Landed', FlushOK(x, Landed')
  PROVE  \A g \in Flushers : FlushOK(fl'[g], Landed')
<1> SUFFICES ASSUME NEW g \in Flushers PROVE FlushOK(fl'[g], Landed')
  OBVIOUS
<1>1. CASE g = f
  BY <1>1 DEF DedupInv, TypeOK
<1>2. CASE g # f
  <2>1. fl'[g] = fl[g]
    BY <1>2 DEF DedupInv, TypeOK
  <2> QED BY <2>1, FlushGrows DEF DedupInv
<1> QED BY <1>1, <1>2

LEMMA TypeParts == TypeOK <=> RestType /\ fl \in [Flushers -> FlushState]
BY DEF TypeOK, RestType, FlushState

\* What a step of one batch has to keep.
LEMMA StepKeeps ==
  ASSUME DedupInv, NEW f \in Flushers, NEW x \in FlushState, fl' = [fl EXCEPT ![f] = x],
         RestType', Landed \subseteq Landed', FlushOK(x, Landed'),
         \A m \in acked' : m \in acked \/ AccountedIn(m, Landed'),
         \A k \in seen' \cup window' : k \in seen \cup window \/ KeyIn(k, Landed')
  PROVE  DedupInv'
<1>1. TypeOK'
  <2>1. fl' \in [Flushers -> FlushState]
    BY TypeParts DEF DedupInv
  <2> QED BY <2>1 DEF TypeOK, RestType, FlushState
<1>2. AckedIsAccounted'
  <2> SUFFICES ASSUME NEW m \in acked' PROVE Accounted(m)'
    BY DEF AckedIsAccounted
  <2>1. AccountedIn(m, Landed')
    BY AccountedIsIn, AccountedGrows DEF DedupInv, AckedIsAccounted
  <2> QED BY <2>1 DEF Accounted, AccountedIn, Represented
<1>3. \A g \in Flushers : FlushOK(fl'[g], Landed')
  BY OneFlush
<1>4. \A k \in seen' \cup window' : KeyIn(k, Landed')
  BY DEF DedupInv, KeyIn
<1> QED BY <1>1, <1>2, <1>3, <1>4 DEF DedupInv

-----------------------------------------------------------------------------
(* The steps of a batch *)

LEMMA FlushTyped == ASSUME DedupInv, NEW f \in Flushers
  PROVE  fl[f] \in FlushState /\ FlushOK(fl[f], Landed) /\ RestType
BY TypeParts DEF DedupInv

LEMMA TakeBufferStep ==
  ASSUME DedupInv, NEW f \in Flushers, TakeBuffer(f) PROVE DedupInv'
<1> DEFINE bad == With(buffer, "filterError")
           msgs == buffer \ (bad \cup With(buffer, "unmatched"))
           x == IF buffer = {} THEN IdleFlush
                ELSE [IdleFlush EXCEPT !.own = buffer, !.msgs = msgs, !.bad = bad,
                        !.pc = IF bad # {} THEN "filterDLQ"
                               ELSE IF msgs = {} THEN "ack" ELSE "lookup"]
<1>1. fl' = [fl EXCEPT ![f] = x]
  BY DEF TakeBuffer
<1>2. x \in FlushState
  <2>1. buffer \subseteq Delivery
    BY FlushTyped DEF RestType
  <2> QED BY <2>1 DEF IdleFlush, FlushState, FlushPcs, With
<1>3. Landed' = Landed /\ RestType'
  BY FlushTyped DEF TakeBuffer, RestType, Landed, Ms, broker, stores, bounds
<1>4. FlushOK(x, Landed')
  <2>1. CASE buffer = {}
    BY <2>1, IdleOK
  <2>2. CASE buffer # {}
    BY <2>2 DEF FlushOK, IdleFlush, With, AccountedIn
  <2> QED BY <2>1, <2>2
<1> QED BY <1>1, <1>2, <1>3, <1>4, StepKeeps DEF TakeBuffer, broker, stores

LEMMA LookupStep ==
  ASSUME DedupInv, NEW f \in Flushers, Lookup(f) PROVE DedupInv'
<1> DEFINE new == {d \in fl[f].msgs : Key[d[1]] \notin seen}
           x == [fl[f] EXCEPT !.msgs = new, !.kept = new,
                              !.pc = IF new = {} THEN "ack" ELSE "transform"]
<1>1. fl' = [fl EXCEPT ![f] = x]
  BY FlushTyped, TypeParts DEF Lookup, DedupInv, FlushState
<1>2. x \in FlushState
  BY FlushTyped DEF FlushState, FlushPcs
<1>3. Landed' = Landed /\ RestType'
  BY FlushTyped DEF Lookup, RestType, Landed, Ms, broker, stores, bounds
<1>4. FlushOK(x, Landed)
  <2>1. \A d \in fl[f].msgs \ new : AccountedIn(d[1], Landed)
    <3> SUFFICES ASSUME NEW d \in fl[f].msgs \ new PROVE AccountedIn(d[1], Landed)
      OBVIOUS
    <3>1. Key[d[1]] \in seen /\ seen \subseteq Keys
      BY FlushTyped DEF RestType
    <3>2. KeyIn(Key[d[1]], Landed) /\ Key[d[1]] # NoKey
      BY <3>1 DEF DedupInv, Keys
    <3> QED BY <3>2 DEF AccountedIn, KeyIn
  <2> QED BY <2>1, FlushTyped DEF FlushOK, FlushState, Lookup
<1> QED BY <1>1, <1>2, <1>3, <1>4, StepKeeps DEF Lookup, broker, stores

LEMMA TransformStep ==
  ASSUME DedupInv, NEW f \in Flushers, Transform(f) PROVE DedupInv'
<1> DEFINE bad == With(fl[f].msgs, "transformError")
           x == [fl[f] EXCEPT !.msgs = @ \ bad, !.bad = bad,
                              !.pc = IF bad # {} THEN "transformDLQ" ELSE "write"]
<1>1. fl' = [fl EXCEPT ![f] = x]
  BY FlushTyped, TypeParts DEF Transform, DedupInv, FlushState
<1>2. x \in FlushState
  BY FlushTyped DEF FlushState, FlushPcs, With
<1>3. Landed' = Landed /\ RestType'
  BY FlushTyped DEF Transform, RestType, Landed, Ms, broker, stores, bounds
<1>4. FlushOK(x, Landed)
  BY FlushTyped DEF FlushOK, FlushState, Transform, With
<1> QED BY <1>1, <1>2, <1>3, <1>4, StepKeeps DEF Transform, broker, stores

\* The end of a batch, whatever it leaves undone.
LEMMA NakStep ==
  ASSUME DedupInv, NEW f \in Flushers, NakBatch(f), RestType', Landed \subseteq Landed',
         \A m \in acked' : m \in acked \/ AccountedIn(m, Landed'),
         \A k \in seen' \cup window' : k \in seen \cup window \/ KeyIn(k, Landed')
  PROVE  DedupInv'
BY IdleType, IdleOK, StepKeeps DEF NakBatch

LEMMA InterruptedType ==
  ASSUME DedupInv, NEW f \in Flushers, NakBatch(f) PROVE interrupted' \subseteq Keys
<1>1. fl[f].put \subseteq Keys /\ interrupted \subseteq Keys
  BY FlushTyped DEF FlushState, RestType
<1> QED BY <1>1 DEF NakBatch

\* What the DLQ stream makes of a batch.
LEMMA DLQKeeps ==
  ASSUME RestType, NEW M \in SUBSET Msgs, DLQStores(M)
  PROVE  /\ dlq' \subseteq Msgs /\ dlq \subseteq dlq'
         /\ \A m \in M : \E n \in dlq' : n = m \/ (Key[n] = Key[m] /\ Key[m] # NoKey)
BY DEF DLQStores, RestType

LEMMA BadAreMsgs == ASSUME DedupInv, NEW f \in Flushers PROVE Ms(fl[f].bad) \subseteq Msgs
BY FlushTyped DEF FlushState, Ms, Delivery

LEMMA PushToDLQStep ==
  ASSUME DedupInv, NEW f \in Flushers, PushToDLQ(f) PROVE DedupInv'
<1> DEFINE x == AfterPush(fl[f])
<1>1. fl' = [fl EXCEPT ![f] = x]
  BY FlushTyped, TypeParts DEF PushToDLQ, DedupInv
<1>2. /\ x.own = fl[f].own /\ x.msgs = fl[f].msgs /\ x.kept = fl[f].kept
      /\ x.bad = {} /\ x.put = fl[f].put /\ x \in FlushState
      /\ x.pc \in {"ack", "lookup", "write", "save", "backoff"}
      /\ x.pc \in {"save", "ack"} => x.msgs = {}
  BY FlushTyped DEF AfterPush, PushToDLQ, Pushing, FlushState, FlushPcs
<1>3. DLQStores(Ms(fl[f].bad)) /\ RestType
  BY FlushTyped DEF PushToDLQ
<1>4. /\ dlq' \subseteq Msgs /\ dlq \subseteq dlq'
      /\ \A m \in Ms(fl[f].bad) : \E n \in dlq' : n = m \/ (Key[n] = Key[m] /\ Key[m] # NoKey)
  BY <1>3, BadAreMsgs, DLQKeeps
<1>5. Landed \subseteq Landed' /\ RestType'
  BY <1>3, <1>4 DEF PushToDLQ, RestType, Landed, Ms, broker, bounds
<1>6. \A d \in fl[f].bad : AccountedIn(d[1], Landed')
  BY <1>4 DEF Ms, AccountedIn, Landed
<1>7. FlushOK(fl[f], Landed')
  BY <1>5, FlushTyped, FlushGrows
<1>8. FlushOK(x, Landed')
  BY <1>2, <1>6, <1>7 DEF FlushOK
<1> QED BY <1>1, <1>2, <1>5, <1>8, StepKeeps DEF PushToDLQ, broker

LEMMA PushFailsStep ==
  ASSUME DedupInv, NEW f \in Flushers, PushFails(f) PROVE DedupInv'
<1>1. PICK M \in SUBSET Ms(fl[f].bad) : DLQStores(M)
  BY DEF PushFails
<1>2. RestType /\ dlq' \subseteq Msgs /\ dlq \subseteq dlq'
  BY <1>1, FlushTyped, BadAreMsgs, DLQKeeps
<1>3. faults' \in 0 .. MaxFaults
  BY <1>2, DedupAssumption DEF PushFails, Fault, RestType
<1>4. Landed \subseteq Landed' /\ RestType'
  BY <1>2, <1>3, InterruptedType DEF PushFails, RestType, Landed, Ms, broker
<1> QED BY <1>4, NakStep DEF PushFails, broker

\* What the output stream makes of deliveries S: each is stored, or repeats a key it remembers
\* or stores.
LEMMA StorableKeeps ==
  ASSUME DedupInv, NEW S \in SUBSET Delivery, NEW W \in Storable(S), out' = out \cup W,
         window' = window \cup KeysOf(S), dlq' = dlq
  PROVE  /\ W \subseteq S /\ out' \subseteq Delivery /\ window' \subseteq Keys
         /\ Landed \subseteq Landed'
         /\ \A k \in KeysOf(S) : KeyIn(k, Landed')
         /\ \A d \in S : AccountedIn(d[1], Landed')
<1>1. W \subseteq S /\ Landed \subseteq Landed' /\ Ms(W) \subseteq Landed'
  BY DEF Storable, Landed, Ms
<1>2. out' \subseteq Delivery
  BY <1>1 DEF DedupInv, TypeOK
<1>3. window' \subseteq Keys
  BY DEF DedupInv, TypeOK, KeysOf, Keys, Ms, Delivery
<1>4. \A k \in KeysOf(S) : KeyIn(k, Landed')
  <2> SUFFICES ASSUME NEW k \in KeysOf(S) PROVE KeyIn(k, Landed')
    OBVIOUS
  <2>1. CASE k \in window
    BY <2>1, <1>1 DEF DedupInv, KeyIn
  <2>2. CASE k \notin window
    <3>1. PICK d \in W : Key[d[1]] = k
      BY <2>2 DEF Storable
    <3>2. d[1] \in Landed'
      BY <1>1 DEF Ms
    <3> QED BY <3>1, <3>2 DEF KeyIn
  <2> QED BY <2>1, <2>2
<1>5. \A d \in S : AccountedIn(d[1], Landed')
  <2> SUFFICES ASSUME NEW d \in S PROVE AccountedIn(d[1], Landed')
    OBVIOUS
  <2>1. CASE Key[d[1]] = NoKey
    <3>1. d \in W
      BY <2>1 DEF Storable
    <3>2. d[1] \in Landed'
      BY <3>1, <1>1 DEF Ms
    <3> QED BY <3>2 DEF AccountedIn
  <2>2. CASE Key[d[1]] # NoKey
    <3>1. Key[d[1]] \in KeysOf(S)
      BY <2>2 DEF KeysOf, Ms
    <3>2. KeyIn(Key[d[1]], Landed')
      BY <3>1, <1>4
    <3> QED BY <3>2, <2>2 DEF AccountedIn, KeyIn
  <2> QED BY <2>1, <2>2
<1> QED BY <1>1, <1>2, <1>3, <1>4, <1>5

LEMMA KeysOfType == ASSUME NEW S \in SUBSET Delivery PROVE KeysOf(S) \subseteq Keys
BY DEF KeysOf, Keys, Ms, Delivery

LEMMA WriteBatchStep ==
  ASSUME DedupInv, NEW f \in Flushers, WriteBatch(f) PROVE DedupInv'
<1> DEFINE S == fl[f].msgs
<1>1. PICK W \in Storable(S) :
        /\ out' = out \cup W
        /\ fl' = [fl EXCEPT ![f].put = @ \cup KeysOf(W), ![f].msgs = {}, ![f].pc = "save"]
  BY DEF WriteBatch
<1> DEFINE x == [fl[f] EXCEPT !.put = @ \cup KeysOf(W), !.msgs = {}, !.pc = "save"]
<1>2. fl' = [fl EXCEPT ![f] = x]
  BY <1>1, FlushTyped, TypeParts DEF DedupInv, FlushState
<1>3. S \in SUBSET Delivery /\ window' = window \cup KeysOf(S) /\ dlq' = dlq
  BY FlushTyped DEF FlushState, WriteBatch
<1> HIDE DEF S
<1>4. /\ W \subseteq S /\ out' \subseteq Delivery /\ window' \subseteq Keys
      /\ Landed \subseteq Landed'
      /\ \A k \in KeysOf(S) : KeyIn(k, Landed')
      /\ \A d \in S : AccountedIn(d[1], Landed')
  BY <1>1, <1>3, StorableKeeps
<1>5. KeysOf(W) \subseteq Keys
  BY <1>3, <1>4, KeysOfType
<1>6. x \in FlushState
  BY <1>5, FlushTyped DEF FlushState, FlushPcs
<1>7. RestType'
  BY <1>4, FlushTyped DEF WriteBatch, RestType, broker, bounds
<1>8. FlushOK(fl[f], Landed')
  BY <1>4, FlushTyped, FlushGrows
<1>9. FlushOK(x, Landed')
  BY <1>4, <1>8, FlushTyped DEF FlushOK, FlushState, WriteBatch, S
<1>10. \A k \in seen' \cup window' : k \in seen \cup window \/ KeyIn(k, Landed')
  BY <1>3, <1>4 DEF WriteBatch
<1>11. acked' = acked
  BY DEF WriteBatch, broker
<1> QED BY <1>2, <1>4, <1>6, <1>7, <1>9, <1>10, <1>11, StepKeeps

LEMMA WriteFailsStep ==
  ASSUME DedupInv, NEW f \in Flushers, WriteFails(f) PROVE DedupInv'
<1>1. PICK full \in SUBSET fl[f].msgs, hard \in SUBSET fl[f].msgs, lost \in SUBSET fl[f].msgs :
        /\ full \cup hard # {} /\ full \cap hard = {} /\ lost \subseteq hard
        /\ (CtxDone(f) /\ full = {} /\ UNCHANGED faults) \/ Fault
        /\ LET sent == fl[f].msgs \ (full \cup lost)
           IN  /\ \E W \in Storable(sent) :
                    /\ out' = out \cup W
                    /\ fl' = [fl EXCEPT ![f].put = @ \cup KeysOf(W), ![f].msgs = full,
                                        ![f].bad = hard,
                                        ![f].pc = IF hard # {} THEN "hardDLQ" ELSE "backoff"]
               /\ window' = window \cup KeysOf(sent)
  BY DEF WriteFails
<1> DEFINE S == fl[f].msgs \ (full \cup lost)
<1>2. PICK W \in Storable(S) :
        /\ out' = out \cup W
        /\ fl' = [fl EXCEPT ![f].put = @ \cup KeysOf(W), ![f].msgs = full, ![f].bad = hard,
                            ![f].pc = IF hard # {} THEN "hardDLQ" ELSE "backoff"]
  BY <1>1
<1> DEFINE x == [fl[f] EXCEPT !.put = @ \cup KeysOf(W), !.msgs = full, !.bad = hard,
                              !.pc = IF hard # {} THEN "hardDLQ" ELSE "backoff"]
<1>3. fl' = [fl EXCEPT ![f] = x]
  BY <1>2, FlushTyped, TypeParts DEF DedupInv, FlushState
<1>4. S \in SUBSET Delivery /\ window' = window \cup KeysOf(S) /\ dlq' = dlq
  BY <1>1, FlushTyped DEF FlushState, WriteFails
<1>5. \A d \in fl[f].msgs : d \in full \cup hard \/ d \in S
  BY <1>1
<1> HIDE DEF S
<1>6. /\ W \subseteq S /\ out' \subseteq Delivery /\ window' \subseteq Keys
      /\ Landed \subseteq Landed'
      /\ \A k \in KeysOf(S) : KeyIn(k, Landed')
      /\ \A d \in S : AccountedIn(d[1], Landed')
  BY <1>2, <1>4, StorableKeeps
<1>7. KeysOf(W) \subseteq Keys
  BY <1>4, <1>6, KeysOfType
<1>8. x \in FlushState
  BY <1>7, FlushTyped DEF FlushState, FlushPcs
<1>9. faults' \in 0 .. MaxFaults
  BY <1>1, FlushTyped, DedupAssumption DEF Fault, RestType
<1>10. RestType'
  BY <1>6, <1>9, FlushTyped DEF WriteFails, RestType, broker
<1>11. FlushOK(fl[f], Landed')
  BY <1>6, FlushTyped, FlushGrows
<1>12. fl[f].bad = {} /\ fl[f].pc = "write"
  BY FlushTyped DEF FlushOK, WriteFails
<1>13. FlushOK(x, Landed')
  <2>1. /\ x.own = fl[f].own /\ x.msgs = full /\ x.bad = hard /\ x.kept = fl[f].kept
        /\ x.pc = IF hard # {} THEN "hardDLQ" ELSE "backoff"
    BY FlushTyped DEF FlushState
  <2>2. \A d \in x.own : d \in x.msgs \cup x.bad \/ AccountedIn(d[1], Landed')
    BY <2>1, <1>5, <1>6, <1>11, <1>12 DEF FlushOK
  <2> QED BY <2>1, <2>2, <1>1, <1>11 DEF FlushOK
<1>14. \A k \in seen' \cup window' : k \in seen \cup window \/ KeyIn(k, Landed')
  BY <1>4, <1>6 DEF WriteFails
<1>15. acked' = acked
  BY DEF WriteFails, broker
<1> QED BY <1>3, <1>6, <1>8, <1>10, <1>13, <1>14, <1>15, StepKeeps

LEMMA BackoffElapsedStep ==
  ASSUME DedupInv, NEW f \in Flushers, BackoffElapsed(f) PROVE DedupInv'
<1> DEFINE x == [fl[f] EXCEPT !.pc = "write"]
<1>1. fl' = [fl EXCEPT ![f] = x]
  BY FlushTyped, TypeParts DEF BackoffElapsed, DedupInv
<1>2. x \in FlushState
  BY FlushTyped DEF FlushState, FlushPcs
<1>3. Landed' = Landed /\ RestType'
  BY FlushTyped DEF BackoffElapsed, RestType, Landed, Ms, broker, stores, bounds
<1>4. FlushOK(x, Landed)
  BY FlushTyped DEF FlushOK, FlushState, BackoffElapsed
<1> QED BY <1>1, <1>2, <1>3, <1>4, StepKeeps DEF BackoffElapsed, broker, stores

\* The keys saved are those of messages that have all landed, or of others with their keys.
LEMMA SaveKeysStep ==
  ASSUME DedupInv, NEW f \in Flushers, SaveKeys(f) PROVE DedupInv'
<1> DEFINE x == [fl[f] EXCEPT !.pc = "ack"]
<1>1. fl' = [fl EXCEPT ![f] = x]
  BY FlushTyped, TypeParts DEF SaveKeys, DedupInv
<1>2. x \in FlushState
  BY FlushTyped DEF FlushState, FlushPcs
<1>3. fl[f].kept \in SUBSET Delivery
  BY FlushTyped DEF FlushState
<1>4. KeysOf(fl[f].kept) \subseteq Keys
  BY <1>3, KeysOfType
<1>5. Landed' = Landed /\ RestType'
  BY <1>4, FlushTyped DEF SaveKeys, RestType, Landed, Ms, broker, bounds
<1>6. FlushOK(x, Landed)
  BY FlushTyped DEF FlushOK, FlushState, SaveKeys
<1>7. \A d \in fl[f].kept : AccountedIn(d[1], Landed) /\ Outcome[d[1]] # "unmatched"
  BY FlushTyped DEF FlushOK, SaveKeys
<1>8. \A k \in KeysOf(fl[f].kept) : KeyIn(k, Landed)
  <2> SUFFICES ASSUME NEW d \in fl[f].kept, Key[d[1]] # NoKey PROVE KeyIn(Key[d[1]], Landed)
    BY DEF KeysOf, Ms
  <2> QED BY <1>7 DEF AccountedIn, KeyIn
<1>9. \A k \in seen' \cup window' : k \in seen \cup window \/ KeyIn(k, Landed')
  BY <1>5, <1>8 DEF SaveKeys
<1> QED BY <1>1, <1>2, <1>5, <1>6, <1>9, StepKeeps DEF SaveKeys, broker

LEMMA BatchFailsStep ==
  ASSUME DedupInv, NEW f \in Flushers, BatchFails(f) PROVE DedupInv'
<1>1. faults' \in 0 .. MaxFaults
  BY FlushTyped, DedupAssumption DEF BatchFails, Fault, RestType
<1>2. Landed' = Landed /\ RestType'
  BY <1>1, FlushTyped, InterruptedType DEF BatchFails, RestType, Landed, Ms, broker, stores
<1> QED BY <1>2, NakStep DEF BatchFails, broker, stores

\* A batch about to be acknowledged has nothing pending.
LEMMA AckableAccounted ==
  ASSUME DedupInv, NEW f \in Flushers, fl[f].pc = "ack"
  PROVE  /\ \A m \in Ms(fl[f].own) : AccountedIn(m, Landed)
         /\ Ms(fl[f].own) \subseteq Msgs
<1>1. \A d \in fl[f].own : AccountedIn(d[1], Landed)
  BY FlushTyped DEF FlushOK
<1>2. fl[f].own \in SUBSET Delivery
  BY FlushTyped DEF FlushState
<1> QED BY <1>1, <1>2 DEF Ms, Delivery

LEMMA AckStep ==
  ASSUME DedupInv, NEW f \in Flushers, Ack(f) PROVE DedupInv'
<1>1. /\ \A m \in Ms(fl[f].own) : AccountedIn(m, Landed)
      /\ Ms(fl[f].own) \subseteq Msgs
  BY AckableAccounted DEF Ack
<1>2. Landed' = Landed /\ RestType'
  BY <1>1, FlushTyped DEF Ack, RestType, Landed, Ms, stores, bounds
<1>3. \A m \in acked' : m \in acked \/ AccountedIn(m, Landed')
  BY <1>1, <1>2 DEF Ack
<1>4. fl' = [fl EXCEPT ![f] = IdleFlush]
  BY DEF Ack
<1>5. seen' = seen /\ window' = window
  BY DEF Ack, stores
<1> QED BY <1>2, <1>3, <1>4, <1>5, IdleType, IdleOK, StepKeeps

LEMMA AckFailsStep ==
  ASSUME DedupInv, NEW f \in Flushers, AckFails(f) PROVE DedupInv'
<1>1. /\ \A m \in Ms(fl[f].own) : AccountedIn(m, Landed)
      /\ Ms(fl[f].own) \subseteq Msgs
  BY AckableAccounted DEF AckFails
<1>2. PICK D \in SUBSET fl[f].own : acked' = acked \cup Ms(D)
  BY DEF AckFails
<1>3. Ms(D) \subseteq Ms(fl[f].own)
  BY DEF Ms
<1>4. faults' \in 0 .. MaxFaults
  BY FlushTyped, DedupAssumption DEF AckFails, Fault, RestType
<1>5. acked' \subseteq Msgs
  BY <1>1, <1>2, <1>3, FlushTyped DEF RestType
<1>6. NakBatch(f)
  BY DEF AckFails
<1>7. Landed' = Landed /\ RestType'
  BY <1>4, <1>5, <1>6, FlushTyped, InterruptedType DEF AckFails, RestType, Landed, Ms, stores
<1>8. \A m \in acked' : m \in acked \/ AccountedIn(m, Landed')
  BY <1>1, <1>2, <1>3, <1>7
<1> QED BY <1>6, <1>7, <1>8, NakStep DEF AckFails, stores

-----------------------------------------------------------------------------
(* The other steps *)

\* A step that moves one batch on, or none, and adds to nothing.
LEMMA QuietStep ==
  ASSUME DedupInv, NEW f \in Flushers, NEW pc \in {"idle", "flush"},
         fl' = fl \/ (fl[f].pc = "idle" /\ fl' = [fl EXCEPT ![f].pc = pc]),
         RestType', acked' = acked, out' = out, dlq' = dlq, seen' = seen, window' \subseteq window
  PROVE  DedupInv'
<1> DEFINE x == IF fl' = fl THEN fl[f] ELSE [fl[f] EXCEPT !.pc = pc]
<1>1. fl' = [fl EXCEPT ![f] = x]
  BY FlushTyped, TypeParts DEF DedupInv
<1>2. x \in FlushState /\ FlushOK(x, Landed)
  BY FlushTyped DEF FlushState, FlushPcs, FlushOK
<1>3. Landed' = Landed
  BY DEF Landed, Ms
<1> QED BY <1>1, <1>2, <1>3, StepKeeps

LEMMA HandleMessageStep ==
  ASSUME DedupInv, NEW m \in Msgs, HandleMessage(m) PROVE DedupInv'
<1>1. RestType
  BY TypeParts DEF DedupInv
<1>2. dcount[m] + 1 \in 1 .. MaxDeliver
  BY <1>1, DedupAssumption DEF RestType, HandleMessage, Deliverable
<1>3. dcount' \in [Msgs -> 0 .. MaxDeliver]
  BY <1>1, <1>2 DEF RestType, HandleMessage
<1>4. buffer' \subseteq Delivery
  BY <1>1, <1>2 DEF RestType, HandleMessage, Delivery
<1>5. RestType'
  BY <1>1, <1>3, <1>4 DEF RestType, HandleMessage, stores, bounds
<1> QED BY <1>5, QuietStep DEF HandleMessage, stores, Flushers

LEMMA TickStep == ASSUME DedupInv, Tick PROVE DedupInv'
<1>1. RestType'
  BY TypeParts DEF DedupInv, Tick, RestType, broker, stores, bounds
<1> QED BY <1>1, QuietStep DEF Tick, broker, stores, Flushers

LEMMA WindowEndsStep == ASSUME DedupInv, NEW k \in Keys, WindowEnds(k) PROVE DedupInv'
<1>1. RestType'
  BY TypeParts DEF DedupInv, WindowEnds, RestType, broker, bounds
<1>2. window' \subseteq window /\ "handler" \in Flushers
  BY DEF WindowEnds, Flushers
<1> QED BY <1>1, <1>2, QuietStep DEF WindowEnds, broker

LEMMA ProcessEndsStep ==
  ASSUME DedupInv, ProcessEnds, UNCHANGED <<broker, stores>>, faults' = faults,
         stops' \in 0 .. MaxStops
  PROVE  DedupInv'
<1>1. RestType /\ fl \in [Flushers -> FlushState]
  BY TypeParts DEF DedupInv
<1>2. UNION {fl[f].put : f \in Flushers} \subseteq Keys
  BY <1>1 DEF FlushState
<1>3. interrupted' \subseteq Keys
  BY <1>1, <1>2 DEF ProcessEnds, RestType
<1>4. RestType'
  BY <1>1, <1>3 DEF RestType, ProcessEnds, broker, stores
<1>5. fl' \in [Flushers -> FlushState] /\ \A f \in Flushers : fl'[f] = IdleFlush
  BY IdleType DEF ProcessEnds
<1>6. TypeOK'
  BY <1>4, <1>5 DEF TypeOK, RestType, FlushState
<1>7. Landed' = Landed
  BY DEF Landed, Ms, stores
<1>8. AckedIsAccounted'
  BY DEF DedupInv, AckedIsAccounted, Accounted, Represented, Landed, Ms, broker, stores
<1> QED BY <1>5, <1>6, <1>7, <1>8, IdleOK DEF DedupInv, stores

LEMMA LifecycleStep == ASSUME DedupInv, Lifecycle PROVE DedupInv'
<1>1. RestType
  BY TypeParts DEF DedupInv
<1>2. CASE Shutdown
  <2>1. RestType'
    BY <1>1, <1>2, DedupAssumption DEF Shutdown, RestType, broker, stores
  <2> QED BY <1>2, <2>1, QuietStep DEF Shutdown, broker, stores, Flushers
<1>3. CASE FinalFlush
  <2> DEFINE x == [fl["shutdown"] EXCEPT !.pc = "flush"]
  <2>1. RestType'
    BY <1>1, <1>3 DEF FinalFlush, RestType, broker, stores, bounds
  <2>2. "shutdown" \in Flushers
    BY DEF Flushers
  <2>3. fl' = [fl EXCEPT !["shutdown"] = x]
    BY <1>3, <2>2, TypeParts DEF FinalFlush, DedupInv
  <2>4. x \in FlushState /\ FlushOK(x, Landed)
    BY <2>2, FlushTyped DEF FlushState, FlushPcs, FlushOK
  <2>5. Landed' = Landed
    BY <1>3 DEF FinalFlush, Landed, Ms, stores
  <2> QED BY <1>3, <2>1, <2>2, <2>3, <2>4, <2>5, StepKeeps DEF FinalFlush, broker, stores
<1>4. CASE CloseProcessors
  <2>1. RestType'
    BY <1>1, <1>4 DEF CloseProcessors, RestType, broker, stores, bounds
  <2> QED BY <1>4, <2>1, QuietStep DEF CloseProcessors, broker, stores, Flushers
<1>5. CASE Exit
  BY <1>1, <1>5, ProcessEndsStep DEF Exit, RestType, bounds
<1>6. CASE Crash
  <2>1. stops' \in 0 .. MaxStops
    BY <1>1, <1>6, DedupAssumption DEF Crash, RestType
  <2> QED BY <1>6, <2>1, ProcessEndsStep DEF Crash
<1>7. CASE Restart
  <2>1. RestType'
    BY <1>1, <1>7 DEF Restart, RestType, broker, stores, bounds
  <2> QED BY <1>7, <2>1, QuietStep DEF Restart, broker, stores, Flushers
<1> QED BY <1>2, <1>3, <1>4, <1>5, <1>6, <1>7 DEF Lifecycle

-----------------------------------------------------------------------------
(* The theorems *)

LEMMA InitDedup == Init => DedupInv
<1> SUFFICES ASSUME Init PROVE DedupInv
  OBVIOUS
<1>1. TypeOK
  <2>1. fl \in [Flushers -> FlushState]
    BY IdleType DEF Init
  <2>2. RestType
    BY DedupAssumption DEF Init, RestType
  <2> QED BY <2>1, <2>2, TypeParts
<1> QED BY <1>1, IdleOK DEF Init, DedupInv, AckedIsAccounted

LEMMA BatchStepKeeps ==
  ASSUME DedupInv, NEW f \in Flushers, BatchStep(f) PROVE DedupInv'
BY TakeBufferStep, LookupStep, TransformStep, PushToDLQStep, PushFailsStep, WriteBatchStep,
   WriteFailsStep, BackoffElapsedStep, SaveKeysStep, BatchFailsStep, AckStep, AckFailsStep
   DEF BatchStep

LEMMA StutterStep == ASSUME DedupInv, UNCHANGED vars PROVE DedupInv'
<1>1. RestType'
  BY TypeParts DEF DedupInv, vars, RestType, broker, stores, bounds
<1> QED BY <1>1, QuietStep DEF vars, broker, stores, Flushers

LEMMA NextDedup == DedupInv /\ [Next]_vars => DedupInv'
<1> SUFFICES ASSUME DedupInv, [Next]_vars PROVE DedupInv'
  OBVIOUS
<1>1. CASE Next
  BY <1>1, HandleMessageStep, TickStep, BatchStepKeeps, WindowEndsStep, LifecycleStep DEF Next
<1>2. CASE UNCHANGED vars
  BY <1>2, StutterStep
<1> QED BY <1>1, <1>2

\* The inductive invariant holds: whatever leaves a batch is accounted for, and a key by which
\* messages are dropped belongs to one that landed (the order of ProcessBatch: write, save,
\* acknowledge).
THEOREM DedupInvariant == Spec => []DedupInv
BY InitDedup, NextDedup, PTL DEF Spec

\* Every reachable state is well typed.
THEOREM DedupTypeCorrect == Spec => []TypeOK
<1>1. DedupInv => TypeOK
  BY DEF DedupInv
<1> QED BY <1>1, DedupInvariant, PTL

\* No message is acknowledged before it, or one with its key, is in the output stream or the
\* DLQ, unless the filter leaves it out (ProcessBatch, DLQMiddleware, FilterDuplicates).
THEOREM NothingAckedEarly == Spec => []AckedIsAccounted
<1>1. DedupInv => AckedIsAccounted
  BY DEF DedupInv
<1> QED BY <1>1, DedupInvariant, PTL

-----------------------------------------------------------------------------
(* A key is written once *)

\* The keys written, but for those of batches that ended before they saved them.
Known == KeysOf(out) \ interrupted

\* What a batch has written it keeps, and the output stream remembers; what it has still to
\* write is new to BadgerDB as it was looked up, so that the output stream remembers it if
\* it was written meanwhile.
KeyFlushOK(x, known, remembered, saved) ==
  /\ x.put \subseteq remembered \cap KeysOf(x.kept)
  /\ x.pc \in {"idle", "flush", "filterDLQ", "lookup", "transform", "transformDLQ"} => x.put = {}
  /\ x.pc = "ack" => x.put \subseteq saved
  /\ x.pc \in {"transform", "transformDLQ", "write", "hardDLQ", "backoff"} =>
       x.msgs \subseteq x.kept /\ KeysOf(x.msgs) \cap known \subseteq remembered

KeyInv ==
  /\ KeyOnce
  /\ Known \subseteq seen \cup UNION {fl[f].put : f \in Flushers}
  /\ \A f \in Flushers : KeyFlushOK(fl[f], Known, window, seen)
  /\ phase # "final" => fl["shutdown"].pc = "idle"

LEMMA KeysOfGrows == ASSUME NEW A, NEW B, A \subseteq B PROVE KeysOf(A) \subseteq KeysOf(B)
BY DEF KeysOf, Ms

LEMMA IdleKeyOK ==
  ASSUME NEW known, NEW remembered, NEW saved
  PROVE  KeyFlushOK(IdleFlush, known, remembered, saved)
BY DEF KeyFlushOK, IdleFlush

LEMMA KeyFlushGrows ==
  ASSUME NEW x, NEW known, NEW remembered, NEW saved, KeyFlushOK(x, known, remembered, saved),
         NEW known2, NEW remembered2, NEW saved2, remembered \subseteq remembered2,
         saved \subseteq saved2, known2 \subseteq known \cup remembered2
  PROVE  KeyFlushOK(x, known2, remembered2, saved2)
BY DEF KeyFlushOK

LEMMA ShutdownWorks ==
  ASSUME KeyInv, NEW f \in Flushers, fl[f].pc # "idle" PROVE f # "shutdown" \/ phase = "final"
BY DEF KeyInv

\* What a step of one batch has to keep.
LEMMA KeyStep ==
  ASSUME DedupInv, KeyInv, NEW f \in Flushers, NEW x \in FlushState, fl' = [fl EXCEPT ![f] = x],
         KeyOnce', window \subseteq window', seen \subseteq seen',
         interrupted \subseteq interrupted',
         Known' \subseteq Known \cup x.put,
         fl[f].put \subseteq x.put \cup seen' \cup interrupted',
         KeyFlushOK(x, Known', window', seen'),
         phase' = phase, f # "shutdown" \/ phase = "final" \/ x.pc = "idle"
  PROVE  KeyInv'
<1>1. \A g \in Flushers : fl'[g] = IF g = f THEN x ELSE fl[g]
  BY DEF DedupInv, TypeOK
<1>2. Known' \subseteq Known \cup window'
  BY DEF KeyFlushOK
<1>3. \A g \in Flushers : KeyFlushOK(fl'[g], Known', window', seen')
  BY <1>1, <1>2, KeyFlushGrows DEF KeyInv
<1>4. Known' \subseteq seen' \cup UNION {fl'[g].put : g \in Flushers}
  <2> SUFFICES ASSUME NEW k \in Known', k \notin seen' PROVE \E g \in Flushers : k \in fl'[g].put
    OBVIOUS
  <2>1. CASE k \in x.put
    BY <2>1, <1>1
  <2>2. CASE k \notin x.put
    <3>1. k \in Known /\ k \notin interrupted'
      BY <2>2 DEF Known
    <3>2. PICK g \in Flushers : k \in fl[g].put
      BY <3>1 DEF KeyInv
    <3>3. g # f
      BY <2>2, <3>1, <3>2
    <3> QED BY <3>2, <3>3, <1>1
  <2> QED BY <2>1, <2>2
<1>5. phase' # "final" => fl'["shutdown"].pc = "idle"
  BY <1>1 DEF KeyInv, Flushers
<1> QED BY <1>3, <1>4, <1>5 DEF KeyInv

\* The same of a step that writes nothing.
LEMMA KeyKept ==
  ASSUME DedupInv, KeyInv, NEW f \in Flushers, NEW x \in FlushState, fl' = [fl EXCEPT ![f] = x],
         out' = out, window' = window, seen \subseteq seen', interrupted \subseteq interrupted',
         fl[f].put \subseteq x.put \cup seen' \cup interrupted',
         KeyFlushOK(x, Known, window, seen'),
         phase' = phase, f # "shutdown" \/ phase = "final" \/ x.pc = "idle"
  PROVE  KeyInv'
<1>1. Known' \subseteq Known
  BY DEF Known, KeysOf, Ms
<1>2. KeyOnce'
  BY DEF KeyInv, KeyOnce
<1>3. KeyFlushOK(x, Known', window', seen')
  BY <1>1, KeyFlushGrows
<1> QED BY <1>1, <1>2, <1>3, KeyStep

LEMMA NakKeys ==
  ASSUME DedupInv, KeyInv, NEW f \in Flushers, fl[f].pc # "idle", NakBatch(f),
         UNCHANGED <<out, window, seen, phase>>
  PROVE  KeyInv'
BY IdleType, IdleKeyOK, KeyKept, ShutdownWorks DEF NakBatch

LEMMA TakeBufferKeys ==
  ASSUME DedupInv, KeyInv, NEW f \in Flushers, TakeBuffer(f) PROVE KeyInv'
<1> DEFINE bad == With(buffer, "filterError")
           msgs == buffer \ (bad \cup With(buffer, "unmatched"))
           x == IF buffer = {} THEN IdleFlush
                ELSE [IdleFlush EXCEPT !.own = buffer, !.msgs = msgs, !.bad = bad,
                        !.pc = IF bad # {} THEN "filterDLQ"
                               ELSE IF msgs = {} THEN "ack" ELSE "lookup"]
<1>1. fl' = [fl EXCEPT ![f] = x]
  BY DEF TakeBuffer
<1>2. x \in FlushState
  BY TypeParts DEF DedupInv, RestType, IdleFlush, FlushState, FlushPcs, With
<1>3. x.put = {} /\ x.pc \in {"idle", "filterDLQ", "ack", "lookup"}
  BY DEF IdleFlush
<1>4. KeyFlushOK(x, Known, window, seen')
  BY <1>3 DEF KeyFlushOK
<1>5. fl[f].put = {} /\ fl[f].pc # "idle"
  BY DEF KeyInv, KeyFlushOK, TakeBuffer
<1> QED BY <1>1, <1>2, <1>4, <1>5, KeyKept, ShutdownWorks DEF TakeBuffer, stores

\* What BadgerDB does not know is not known to have been written, or the output stream still
\* remembers it.
LEMMA LookupKeys ==
  ASSUME DedupInv, KeyInv, NEW f \in Flushers, Lookup(f) PROVE KeyInv'
<1> DEFINE new == {d \in fl[f].msgs : Key[d[1]] \notin seen}
           x == [fl[f] EXCEPT !.msgs = new, !.kept = new,
                              !.pc = IF new = {} THEN "ack" ELSE "transform"]
<1>1. fl' = [fl EXCEPT ![f] = x]
  BY FlushTyped, TypeParts DEF Lookup, DedupInv, FlushState
<1>2. x \in FlushState
  BY FlushTyped DEF FlushState, FlushPcs
<1>3. fl[f].put = {} /\ fl[f].pc # "idle"
  BY DEF KeyInv, KeyFlushOK, Lookup
<1>4. x.put = {} /\ x.msgs = new /\ x.kept = new /\ x.pc \in {"ack", "transform"}
  BY <1>3, FlushTyped DEF FlushState
<1>5. KeysOf(new) \cap Known \subseteq window
  <2>1. KeysOf(new) \cap seen = {}
    BY DEF KeysOf, Ms
  <2> QED BY <2>1 DEF KeyInv, KeyFlushOK
<1>6. KeyFlushOK(x, Known, window, seen)
  BY <1>4, <1>5 DEF KeyFlushOK
<1> QED BY <1>1, <1>2, <1>3, <1>6, KeyKept, ShutdownWorks DEF Lookup, stores

LEMMA TransformKeys ==
  ASSUME DedupInv, KeyInv, NEW f \in Flushers, Transform(f) PROVE KeyInv'
<1> DEFINE bad == With(fl[f].msgs, "transformError")
           x == [fl[f] EXCEPT !.msgs = @ \ bad, !.bad = bad,
                              !.pc = IF bad # {} THEN "transformDLQ" ELSE "write"]
<1>1. fl' = [fl EXCEPT ![f] = x]
  BY FlushTyped, TypeParts DEF Transform, DedupInv, FlushState
<1>2. x \in FlushState
  BY FlushTyped DEF FlushState, FlushPcs, With
<1>3. /\ x.msgs \subseteq fl[f].msgs /\ x.kept = fl[f].kept /\ x.put = fl[f].put
      /\ x.pc \in {"transformDLQ", "write"}
  BY FlushTyped DEF FlushState
<1>4. KeysOf(x.msgs) \subseteq KeysOf(fl[f].msgs)
  BY <1>3, KeysOfGrows
<1>5. KeyFlushOK(x, Known, window, seen)
  BY <1>3, <1>4 DEF KeyInv, KeyFlushOK, Transform
<1>6. fl[f].pc # "idle"
  BY DEF Transform
<1> QED BY <1>1, <1>2, <1>3, <1>5, <1>6, KeyKept, ShutdownWorks DEF Transform, stores

LEMMA PushToDLQKeys ==
  ASSUME DedupInv, KeyInv, NEW f \in Flushers, PushToDLQ(f) PROVE KeyInv'
<1> DEFINE x == AfterPush(fl[f])
<1>1. fl' = [fl EXCEPT ![f] = x]
  BY FlushTyped, TypeParts DEF PushToDLQ, DedupInv
<1>2. /\ x.msgs = fl[f].msgs /\ x.kept = fl[f].kept /\ x.put = fl[f].put /\ x \in FlushState
      /\ \/ fl[f].pc \in {"filterDLQ", "transformDLQ"} /\ x.pc = "ack"
         \/ fl[f].pc = "filterDLQ" /\ x.pc = "lookup"
         \/ fl[f].pc \in {"transformDLQ", "hardDLQ"} /\ x.pc \in {"write", "save", "backoff"}
  BY FlushTyped DEF AfterPush, PushToDLQ, Pushing, FlushState, FlushPcs
<1>3. KeyFlushOK(x, Known, window, seen)
  BY <1>2 DEF KeyInv, KeyFlushOK
<1>4. fl[f].pc # "idle"
  BY DEF PushToDLQ, Pushing
<1> QED BY <1>1, <1>2, <1>3, <1>4, KeyKept, ShutdownWorks DEF PushToDLQ

\* Of a key that is known the output stream stores nothing: the batch's own key is one it
\* remembers.
LEMMA WriteKeys ==
  ASSUME DedupInv, KeyInv, NEW f \in Flushers, NEW S \in SUBSET fl[f].msgs,
         NEW W \in Storable(S), NEW x \in FlushState, fl[f].pc = "write",
         fl' = [fl EXCEPT ![f] = x], out' = out \cup W, window' = window \cup KeysOf(S),
         x.put = fl[f].put \cup KeysOf(W), x.kept = fl[f].kept, x.msgs \subseteq fl[f].msgs,
         x.pc \in {"save", "hardDLQ", "backoff"}, UNCHANGED <<seen, interrupted, phase>>
  PROVE  KeyInv'
<1>1. W \subseteq S /\ KeysOf(W) \subseteq KeysOf(S)
  BY KeysOfGrows DEF Storable
<1>2. KeyFlushOK(fl[f], Known, window, seen)
  BY DEF KeyInv
<1>3. KeysOf(S) \subseteq KeysOf(fl[f].msgs) /\ KeysOf(x.msgs) \subseteq KeysOf(fl[f].msgs)
  BY KeysOfGrows
<1>4. fl[f].msgs \subseteq fl[f].kept /\ KeysOf(fl[f].msgs) \cap Known \subseteq window
  BY <1>2 DEF KeyFlushOK
<1>5. Known' \subseteq Known \cup KeysOf(W)
  BY DEF Known, KeysOf, Ms
<1>6. KeyOnce'
  <2> SUFFICES ASSUME NEW k \in Keys \ interrupted, NEW d \in out \cup W, NEW e \in out \cup W,
                      Key[d[1]] = k, Key[e[1]] = k
               PROVE  d = e
    BY DEF KeyOnce
  <2>1. k # NoKey
    BY DEF Keys
  <2>2. ASSUME NEW a \in out, NEW b \in W, Key[a[1]] = k, Key[b[1]] = k PROVE FALSE
    <3>1. k \in Known
      BY <2>1, <2>2 DEF Known, KeysOf, Ms
    <3>2. k \in KeysOf(fl[f].msgs)
      BY <2>1, <2>2, <1>1 DEF KeysOf, Ms
    <3>3. k \notin window
      BY <2>2 DEF Storable
    <3> QED BY <3>1, <3>2, <3>3, <1>4
  <2>3. CASE d \in out /\ e \in out
    BY <2>3 DEF KeyInv, KeyOnce
  <2>4. CASE d \in W /\ e \in W
    BY <2>1, <2>4 DEF Storable
  <2> QED BY <2>2, <2>3, <2>4
<1>7. KeysOf(fl[f].msgs) \subseteq KeysOf(x.kept)
  BY <1>4, KeysOfGrows
<1>8. KeyFlushOK(x, Known', window', seen')
  <2>1. x.put \subseteq window' \cap KeysOf(x.kept)
    BY <1>1, <1>2, <1>3, <1>7 DEF KeyFlushOK
  <2>2. KeysOf(x.msgs) \cap Known' \subseteq window'
    BY <1>1, <1>3, <1>4, <1>5
  <2> QED BY <2>1, <2>2, <1>4 DEF KeyFlushOK
<1> QED BY <1>5, <1>6, <1>8, KeyStep, ShutdownWorks

LEMMA WriteBatchKeys ==
  ASSUME DedupInv, KeyInv, NEW f \in Flushers, WriteBatch(f) PROVE KeyInv'
<1>1. PICK W \in Storable(fl[f].msgs) :
        /\ out' = out \cup W
        /\ fl' = [fl EXCEPT ![f].put = @ \cup KeysOf(W), ![f].msgs = {}, ![f].pc = "save"]
  BY DEF WriteBatch
<1> DEFINE x == [fl[f] EXCEPT !.put = @ \cup KeysOf(W), !.msgs = {}, !.pc = "save"]
<1>2. fl' = [fl EXCEPT ![f] = x]
  BY <1>1, FlushTyped, TypeParts DEF DedupInv, FlushState
<1>3. W \subseteq fl[f].msgs /\ fl[f].msgs \in SUBSET Delivery
  BY FlushTyped DEF FlushState, Storable
<1>4. KeysOf(W) \subseteq Keys
  BY <1>3, KeysOfType
<1>5. /\ x \in FlushState /\ x.put = fl[f].put \cup KeysOf(W) /\ x.kept = fl[f].kept
      /\ x.msgs = {} /\ x.pc = "save"
  BY <1>4, FlushTyped DEF FlushState, FlushPcs
<1> HIDE DEF x
<1> QED BY <1>1, <1>2, <1>5, WriteKeys DEF WriteBatch

LEMMA WriteFailsKeys ==
  ASSUME DedupInv, KeyInv, NEW f \in Flushers, WriteFails(f) PROVE KeyInv'
<1>1. PICK full \in SUBSET fl[f].msgs, hard \in SUBSET fl[f].msgs, lost \in SUBSET fl[f].msgs :
        LET sent == fl[f].msgs \ (full \cup lost)
        IN  /\ \E W \in Storable(sent) :
                 /\ out' = out \cup W
                 /\ fl' = [fl EXCEPT ![f].put = @ \cup KeysOf(W), ![f].msgs = full,
                                     ![f].bad = hard,
                                     ![f].pc = IF hard # {} THEN "hardDLQ" ELSE "backoff"]
            /\ window' = window \cup KeysOf(sent)
  BY DEF WriteFails
<1> DEFINE S == fl[f].msgs \ (full \cup lost)
<1>2. PICK W \in Storable(S) :
        /\ out' = out \cup W
        /\ fl' = [fl EXCEPT ![f].put = @ \cup KeysOf(W), ![f].msgs = full, ![f].bad = hard,
                            ![f].pc = IF hard # {} THEN "hardDLQ" ELSE "backoff"]
  BY <1>1
<1> DEFINE x == [fl[f] EXCEPT !.put = @ \cup KeysOf(W), !.msgs = full, !.bad = hard,
                              !.pc = IF hard # {} THEN "hardDLQ" ELSE "backoff"]
<1>3. fl' = [fl EXCEPT ![f] = x]
  BY <1>2, FlushTyped, TypeParts DEF DedupInv, FlushState
<1>4. W \subseteq fl[f].msgs /\ fl[f].msgs \in SUBSET Delivery
  BY FlushTyped DEF FlushState, Storable
<1>5. KeysOf(W) \subseteq Keys
  BY <1>4, KeysOfType
<1>6. /\ x \in FlushState /\ x.put = fl[f].put \cup KeysOf(W) /\ x.kept = fl[f].kept
      /\ x.msgs = full /\ x.pc \in {"hardDLQ", "backoff"}
  BY <1>4, <1>5, FlushTyped DEF FlushState, FlushPcs
<1>7. window' = window \cup KeysOf(S) /\ S \in SUBSET fl[f].msgs
  BY <1>1
<1> HIDE DEF x, S
<1> QED BY <1>2, <1>3, <1>6, <1>7, WriteKeys DEF WriteFails

LEMMA BackoffElapsedKeys ==
  ASSUME DedupInv, KeyInv, NEW f \in Flushers, BackoffElapsed(f) PROVE KeyInv'
<1> DEFINE x == [fl[f] EXCEPT !.pc = "write"]
<1>1. fl' = [fl EXCEPT ![f] = x]
  BY FlushTyped, TypeParts DEF BackoffElapsed, DedupInv
<1>2. x \in FlushState
  BY FlushTyped DEF FlushState, FlushPcs
<1>3. KeyFlushOK(x, Known, window, seen) /\ x.put = fl[f].put /\ fl[f].pc # "idle"
  BY FlushTyped DEF KeyInv, KeyFlushOK, BackoffElapsed, FlushState
<1> QED BY <1>1, <1>2, <1>3, KeyKept, ShutdownWorks DEF BackoffElapsed, stores

LEMMA SaveKeysKeys ==
  ASSUME DedupInv, KeyInv, NEW f \in Flushers, SaveKeys(f) PROVE KeyInv'
<1> DEFINE x == [fl[f] EXCEPT !.pc = "ack"]
<1>1. fl' = [fl EXCEPT ![f] = x]
  BY FlushTyped, TypeParts DEF SaveKeys, DedupInv
<1>2. x \in FlushState
  BY FlushTyped DEF FlushState, FlushPcs
<1>3. /\ x.put = fl[f].put /\ x.kept = fl[f].kept /\ x.pc = "ack" /\ fl[f].pc # "idle"
      /\ fl[f].put \subseteq window \cap KeysOf(fl[f].kept)
  BY FlushTyped DEF KeyInv, KeyFlushOK, SaveKeys, FlushState
<1>4. KeyFlushOK(x, Known, window, seen')
  BY <1>3 DEF KeyFlushOK, SaveKeys
<1> QED BY <1>1, <1>2, <1>3, <1>4, KeyKept, ShutdownWorks DEF SaveKeys

LEMMA AckKeys ==
  ASSUME DedupInv, KeyInv, NEW f \in Flushers, Ack(f) PROVE KeyInv'
<1>1. fl[f].put \subseteq seen /\ fl[f].pc # "idle"
  BY DEF KeyInv, KeyFlushOK, Ack
<1> QED BY <1>1, IdleType, IdleKeyOK, KeyKept, ShutdownWorks DEF Ack, stores

LEMMA BatchKeys ==
  ASSUME DedupInv, KeyInv, NEW f \in Flushers, BatchStep(f) PROVE KeyInv'
<1>1. CASE PushFails(f) \/ BatchFails(f) \/ AckFails(f)
  BY <1>1, NakKeys DEF PushFails, Pushing, BatchFails, AckFails, stores
<1> QED BY <1>1, TakeBufferKeys, LookupKeys, TransformKeys, PushToDLQKeys, WriteBatchKeys,
           WriteFailsKeys, BackoffElapsedKeys, SaveKeysKeys, AckKeys DEF BatchStep

\* A batch begins, or none does anything.
LEMMA BeginKeys ==
  ASSUME DedupInv, KeyInv, NEW f \in Flushers,
         fl' = fl \/ (fl[f].pc = "idle" /\ fl' = [fl EXCEPT ![f].pc = "flush"]),
         UNCHANGED <<out, window, seen, interrupted, phase>>, f # "shutdown"
  PROVE  KeyInv'
<1> DEFINE x == IF fl' = fl THEN fl[f] ELSE [fl[f] EXCEPT !.pc = "flush"]
<1>1. fl' = [fl EXCEPT ![f] = x]
  BY FlushTyped, TypeParts DEF DedupInv
<1>2. x \in FlushState /\ KeyFlushOK(x, Known, window, seen) /\ x.put = fl[f].put
  BY FlushTyped DEF FlushState, FlushPcs, KeyInv, KeyFlushOK
<1> QED BY <1>1, <1>2, KeyKept

\* The window of a key ends when no batch holds the key.
LEMMA WindowEndsKeys ==
  ASSUME WindowHolds, DedupInv, KeyInv, NEW k \in Keys, WindowEnds(k) PROVE KeyInv'
<1>1. window' = window \ {k} /\ UNCHANGED <<out, seen, interrupted, fl, phase>>
  BY DEF WindowEnds
<1>2. Known' = Known /\ KeyOnce'
  BY <1>1 DEF Known, KeysOf, Ms, KeyInv, KeyOnce
<1>3. ASSUME NEW f \in Flushers PROVE KeyFlushOK(fl[f], Known, window \ {k}, seen)
  <2>1. k \notin KeysOf(fl[f].own)
    BY DEF WindowEnds
  <2>2. fl[f].kept \subseteq fl[f].own /\ fl[f].msgs \subseteq fl[f].own
    BY FlushTyped DEF FlushOK
  <2>3. k \notin KeysOf(fl[f].kept) /\ k \notin KeysOf(fl[f].msgs)
    BY <2>1, <2>2, KeysOfGrows
  <2> QED BY <2>3 DEF KeyInv, KeyFlushOK
<1> QED BY <1>1, <1>2, <1>3 DEF KeyInv

LEMMA ProcessEndsKeys ==
  ASSUME DedupInv, KeyInv, ProcessEnds, UNCHANGED stores PROVE KeyInv'
<1>1. UNCHANGED <<out, window, seen>> /\ \A f \in Flushers : fl'[f] = IdleFlush
  BY DEF stores, ProcessEnds
<1>2. Known \subseteq seen \cup interrupted'
  BY DEF KeyInv, ProcessEnds
<1>3. Known' \subseteq seen /\ KeyOnce'
  BY <1>1, <1>2 DEF Known, KeysOf, Ms, ProcessEnds, KeyInv, KeyOnce
<1>4. fl'["shutdown"].pc = "idle"
  BY <1>1 DEF IdleFlush, Flushers
<1> QED BY <1>1, <1>3, <1>4, IdleKeyOK DEF KeyInv

LEMMA LifecycleKeys == ASSUME DedupInv, KeyInv, Lifecycle PROVE KeyInv'
<1>1. CASE Exit \/ Crash
  BY <1>1, ProcessEndsKeys DEF Exit, Crash
<1>2. CASE Shutdown \/ CloseProcessors \/ Restart
  <2>1. UNCHANGED <<out, window, seen, interrupted, fl>>
    BY <1>2 DEF Shutdown, CloseProcessors, Restart, stores
  <2>2. Known' = Known /\ KeyOnce'
    BY <2>1 DEF Known, KeysOf, Ms, KeyInv, KeyOnce
  <2>3. fl["shutdown"].pc = "idle"
    BY <1>2 DEF Shutdown, CloseProcessors, Restart, KeyInv
  <2> QED BY <2>1, <2>2, <2>3 DEF KeyInv
<1>3. CASE FinalFlush
  <2>1. UNCHANGED <<out, window, seen, interrupted>> /\ phase' = "final"
    BY <1>3 DEF FinalFlush, stores
  <2>2. Known' = Known /\ KeyOnce'
    BY <2>1 DEF Known, KeysOf, Ms, KeyInv, KeyOnce
  <2>3. fl["shutdown"].pc = "idle" /\ fl["shutdown"].put = {}
    BY <1>3 DEF FinalFlush, KeyInv, KeyFlushOK, Flushers
  <2>4. \A f \in Flushers :
          /\ fl'[f].put = fl[f].put
          /\ KeyFlushOK(fl'[f], Known, window, seen)
    <3> SUFFICES ASSUME NEW f \in Flushers
                 PROVE  fl'[f].put = fl[f].put /\ KeyFlushOK(fl'[f], Known, window, seen)
      OBVIOUS
    <3>1. fl'[f] = IF f = "shutdown" THEN [fl[f] EXCEPT !.pc = "flush"] ELSE fl[f]
      BY <1>3, TypeParts DEF FinalFlush, DedupInv
    <3> QED BY <2>3, <3>1, FlushTyped DEF KeyInv, KeyFlushOK, FlushState
  <2> QED BY <2>1, <2>2, <2>4 DEF KeyInv
<1> QED BY <1>1, <1>2, <1>3 DEF Lifecycle

LEMMA InitKeys == Init => KeyInv
BY IdleKeyOK DEF Init, KeyInv, KeyOnce, Known, KeysOf, Ms, IdleFlush, Flushers

LEMMA NextKeys == ASSUME WindowHolds, DedupInv, KeyInv, [Next]_vars PROVE KeyInv'
<1>1. CASE \E m \in Msgs : HandleMessage(m)
  BY <1>1, BeginKeys DEF HandleMessage, stores, Flushers
<1>2. CASE Tick
  BY <1>2, BeginKeys DEF Tick, stores, Flushers
<1>3. CASE UNCHANGED vars
  BY <1>3, BeginKeys DEF vars, stores, Flushers
<1> QED BY <1>1, <1>2, <1>3, BatchKeys, WindowEndsKeys, LifecycleKeys DEF Next

\* As long as the output stream's window outlasts a batch that holds a key, a key is written
\* once unless a batch that wrote it ended before SaveKeys, however many batches, redeliveries,
\* faults and stops there are (FilterDuplicates, the message id of BatchWriter, SaveKeys).
THEOREM KeysWrittenOnce == ASSUME WindowHolds PROVE Spec => []KeyOnce
<1>1. Init => DedupInv /\ KeyInv
  BY InitDedup, InitKeys
<1>2. DedupInv /\ KeyInv /\ [Next]_vars => DedupInv' /\ KeyInv'
  BY NextDedup, NextKeys
<1>3. KeyInv => KeyOnce
  BY DEF KeyInv
<1> QED BY <1>1, <1>2, <1>3, PTL DEF Spec

=============================================================================
