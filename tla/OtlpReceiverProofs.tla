------------------------- MODULE OtlpReceiverProofs -------------------------
(***************************************************************************)
(* Proofs about the calls of the OTLP receiver, for every number of calls,  *)
(* messages, slots, attempts and faults: a call answered with success has   *)
(* every message in the stream, and only a lost answer stores one twice.    *)
(***************************************************************************)
EXTENDS OtlpReceiver, TLAPS

\* The messages that call x, whose publications are f, has still to publish or may publish
\* again.
OpenOf(x, f) ==
  IF x.pc \in {"idle", "lookup", "fetch", "store", "headers"} THEN x.msgs
  ELSE IF x.pc = "done" THEN {}
  ELSE x.todo \cup x.failed \cup {m \in x.chunk : f[m] \notin {"stored", "ok"}}

\* Chunks are published in turn, and only the publications of one are awaited.
Orderly(x, f) ==
  /\ x.pc \notin {"publish", "await", "done"} => x.failed = {}
  /\ x.pc # "await" => x.chunk = {}
  /\ x.pc # "done" => x.answer = "none"
  /\ x.todo \cap x.failed = {} /\ x.chunk \cap (x.todo \cup x.failed) = {}
  /\ \A m \in Batch : f[m] # "none" => m \in x.chunk

\* Message m is in the stream, which holds it n[m] times, or its id has been seen.
Kept(x, n, seen, m) == n[m] > 0 \/ (x.ids[m] # Empty /\ x.ids[m] \in seen)

\* What is not open is in the stream, and once but for the answers u that were not heard.
Accounted(x, f, n, u, seen) ==
  /\ x.pc # "done" \/ x.answer = "ok" =>
       \A m \in Batch : m \in OpenOf(x, f) \/ Kept(x, n, seen, m)
  /\ \A m \in Batch : n[m] <= u[m] + (IF m \in OpenOf(x, f) THEN 0 ELSE 1)

CallOK(x, f, n, u, seen) == Orderly(x, f) /\ Accounted(x, f, n, u, seen)

ReceiverInv ==
  /\ ReceiverTypeOK
  /\ \A c \in Calls : CallOK(call[c], future[c], copies[c], unheard[c], idsSeen)

\* ReceiverTypeOK but for the calls, their publications and the stream.
RestOK ==
  /\ config \in Versions /\ cache \in [version : Versions, fresh : BOOLEAN]
  /\ adrift \in [Calls -> [Batch -> SUBSET ((1 .. MaxAttempts) \X Ids)]]
  /\ callFaults \in 0 .. MaxCallFaults /\ leaves \in 0 .. MaxLeaves
  /\ cacheExpiries \in 0 .. MaxCacheExpiries

Answers == {"none", "sent", "stored", "ok", "full", "other"}

-----------------------------------------------------------------------------
(* What every step shares *)

LEMMA Typed ==
  ASSUME ReceiverInv
  PROVE  /\ RestOK /\ idsSeen \subseteq Ids
         /\ \A c \in Calls :
              /\ call[c] \in CallState /\ future[c] \in [Batch -> Answers]
              /\ copies[c] \in [Batch -> Nat] /\ unheard[c] \in [Batch -> Nat]
              /\ CallOK(call[c], future[c], copies[c], unheard[c], idsSeen)
BY DEF ReceiverInv, ReceiverTypeOK, RestOK, Answers

LEMMA FieldIsId == \A c \in Calls, m \in Batch : FieldValue[c][m] \in Ids
BY DEF Ids

\* A step of one call, or of the stream with one of its messages.
LEMMA OneCall ==
  ASSUME ReceiverInv, RestOK', NEW c \in Calls, NEW x \in CallState,
         NEW f \in [Batch -> Answers], NEW n \in [Batch -> Nat], NEW u \in [Batch -> Nat],
         call' = [call EXCEPT ![c] = x], future' = [future EXCEPT ![c] = f],
         copies' = [copies EXCEPT ![c] = n], unheard' = [unheard EXCEPT ![c] = u],
         idsSeen \subseteq idsSeen', idsSeen' \subseteq Ids,
         CallOK(x, f, n, u, idsSeen')
  PROVE  ReceiverInv'
<1>1. ReceiverTypeOK'
  BY DEF ReceiverInv, ReceiverTypeOK, RestOK, Answers
<1>2. \A d \in Calls : CallOK(call'[d], future'[d], copies'[d], unheard'[d], idsSeen')
  <2> SUFFICES ASSUME NEW d \in Calls
               PROVE  CallOK(call'[d], future'[d], copies'[d], unheard'[d], idsSeen')
    OBVIOUS
  <2>1. CASE d = c
    <3>1. call'[d] = x /\ future'[d] = f /\ copies'[d] = n /\ unheard'[d] = u
      BY <2>1 DEF ReceiverInv, ReceiverTypeOK
    <3> QED BY <3>1
  <2>2. CASE d # c
    <3>1. /\ call'[d] = call[d] /\ future'[d] = future[d] /\ copies'[d] = copies[d]
          /\ unheard'[d] = unheard[d]
      BY <2>2 DEF ReceiverInv, ReceiverTypeOK
    <3>2. CallOK(call[d], future[d], copies[d], unheard[d], idsSeen)
      BY DEF ReceiverInv
    <3>3. CallOK(call[d], future[d], copies[d], unheard[d], idsSeen')
      BY <3>2 DEF CallOK, Accounted, Kept
    <3> QED BY <3>1, <3>3
  <2> QED BY <2>1, <2>2
<1> QED BY <1>1, <1>2 DEF ReceiverInv

\* A step of a call that publishes nothing.
LEMMA CallMoves ==
  ASSUME ReceiverInv, RestOK', NEW c \in Calls, NEW x \in CallState,
         call' = [call EXCEPT ![c] = x], UNCHANGED <<future, copies, idsSeen, unheard>>,
         CallOK(x, future[c], copies[c], unheard[c], idsSeen)
  PROVE  ReceiverInv'
<1>1. /\ future' = [future EXCEPT ![c] = future[c]] /\ copies' = [copies EXCEPT ![c] = copies[c]]
      /\ unheard' = [unheard EXCEPT ![c] = unheard[c]]
  BY DEF ReceiverInv, ReceiverTypeOK
<1> QED BY <1>1, Typed, OneCall

\* A call of which as much is open, with the same ids.
LEMMA AsOpen ==
  ASSUME NEW x, NEW y, NEW f, NEW g, NEW n, NEW u, NEW seen,
         Accounted(x, f, n, u, seen), OpenOf(y, g) = OpenOf(x, f), y.ids = x.ids,
         x.pc # "done"
  PROVE  Accounted(y, g, n, u, seen)
BY DEF Accounted, Kept

\* A call that is over, and was not answered with success.
LEMMA NotAccepted ==
  ASSUME NEW x, NEW y, NEW f, NEW n \in [Batch -> Nat], NEW u \in [Batch -> Nat], NEW seen,
         Accounted(x, f, n, u, seen), y.pc = "done", y.answer # "ok"
  PROVE  Accounted(y, f, n, u, seen)
<1>1. OpenOf(y, f) = {}
  BY DEF OpenOf
<1> SUFFICES ASSUME NEW m \in Batch PROVE n[m] <= u[m] + 1
  BY <1>1 DEF Accounted
<1>2. n[m] \in Nat /\ u[m] \in Nat /\ n[m] <= u[m] + (IF m \in OpenOf(x, f) THEN 0 ELSE 1)
  BY DEF Accounted
<1> QED BY <1>2

\* The error of a call that has published nothing since its last attempt.
LEMMA Answered ==
  ASSUME ReceiverInv, RestOK', NEW c \in Calls, NEW a \in {"overloaded", "notFound", "error"},
         call[c].chunk = {}, call[c].todo \cap call[c].failed = {},
         call' = [call EXCEPT ![c] = Answer(c, a)],
         UNCHANGED <<future, copies, idsSeen, unheard>>
  PROVE  ReceiverInv'
<1> DEFINE x == Answer(c, a)
<1>1. x \in CallState /\ x.pc = "done" /\ x.answer = a /\ x.chunk = {}
      /\ x.todo = call[c].todo /\ x.failed = call[c].failed
  BY ZenonT(40), Typed DEF Answer, CallState
<1> HIDE DEF x
<1>2. Orderly(x, future[c])
  BY <1>1, Typed DEF CallOK, Orderly
<1>3. Accounted(x, future[c], copies[c], unheard[c], idsSeen)
  BY <1>1, Typed, NotAccepted DEF CallOK
<1>4. call' = [call EXCEPT ![c] = x]
  BY DEF x
<1> QED BY <1>1, <1>2, <1>3, <1>4, CallMoves DEF CallOK

-----------------------------------------------------------------------------
(* The steps before a call publishes *)

Early == {"idle", "lookup", "fetch", "store", "headers"}

LEMMA Prepares ==
  ASSUME ReceiverInv, RestOK', NEW c \in Calls, NEW x \in CallState,
         call[c].pc \in Early, x.pc \in Early, x.msgs = call[c].msgs, x.ids = call[c].ids,
         x.todo = call[c].todo, x.failed = {}, x.chunk = call[c].chunk,
         x.answer = call[c].answer, call' = [call EXCEPT ![c] = x],
         UNCHANGED <<future, copies, idsSeen, unheard>>
  PROVE  ReceiverInv'
<1>1. CallOK(call[c], future[c], copies[c], unheard[c], idsSeen)
  BY Typed
<1>2. Orderly(x, future[c])
  BY <1>1 DEF CallOK, Orderly, Early
<1>3. OpenOf(x, future[c]) = OpenOf(call[c], future[c]) /\ call[c].pc # "done"
  BY DEF OpenOf, Early
<1>4. Accounted(x, future[c], copies[c], unheard[c], idsSeen)
  BY <1>1, <1>3, AsOpen DEF CallOK
<1> QED BY <1>2, <1>4, CallMoves DEF CallOK

LEMMA EarlyCall ==
  ASSUME ReceiverInv, NEW c \in Calls, call[c].pc \in Early
  PROVE  /\ call[c] \in CallState /\ call[c].failed = {} /\ call[c].chunk = {}
         /\ call[c].answer = "none"
BY Typed DEF CallOK, Orderly, Early

LEMMA AcceptCallStep ==
  ASSUME ReceiverInv, NEW c \in Calls, AcceptCall(c) PROVE ReceiverInv'
<1> DEFINE x == [call[c] EXCEPT !.pc = "lookup"]
<1>1. call[c].pc \in Early /\ RestOK'
  BY Typed DEF AcceptCall, At, Early, RestOK
<1>2. call' = [call EXCEPT ![c] = x] \/ call' = [call EXCEPT ![c] = Answer(c, "overloaded")]
  BY DEF AcceptCall, Answer
<1>3. CASE call' = [call EXCEPT ![c] = x]
  <2>1. x \in CallState /\ x.pc = "lookup" /\ x.msgs = call[c].msgs /\ x.ids = call[c].ids
        /\ x.todo = call[c].todo /\ x.failed = {} /\ x.chunk = call[c].chunk
        /\ x.answer = call[c].answer
    BY <1>1, EarlyCall DEF CallState
  <2>2. x.pc \in Early
    BY <2>1 DEF Early
  <2> HIDE DEF x
  <2> QED BY <1>1, <1>3, <2>1, <2>2, Prepares DEF AcceptCall
<1>4. CASE call' = [call EXCEPT ![c] = Answer(c, "overloaded")]
  BY <1>1, <1>4, EarlyCall, Answered DEF AcceptCall
<1> QED BY <1>2, <1>3, <1>4

LEMMA LookupWriterStep ==
  ASSUME ReceiverInv, NEW c \in Calls, LookupWriter(c) PROVE ReceiverInv'
<1> DEFINE x == IF cache.fresh THEN [call[c] EXCEPT !.pc = "headers", !.version = cache.version]
                               ELSE [call[c] EXCEPT !.pc = "fetch"]
<1>1. call[c].pc \in Early /\ RestOK' /\ cache.version \in Versions
  BY Typed DEF LookupWriter, At, Early, RestOK
<1>2. call' = [call EXCEPT ![c] = x]
  BY DEF LookupWriter
<1>3. x \in CallState /\ x.pc \in Early /\ x.msgs = call[c].msgs /\ x.ids = call[c].ids
      /\ x.todo = call[c].todo /\ x.failed = {} /\ x.chunk = call[c].chunk
      /\ x.answer = call[c].answer
  <2>1. CASE cache.fresh
    BY ZenonT(40), <1>1, <2>1, EarlyCall DEF CallState, Early
  <2>2. CASE ~cache.fresh
    BY <1>1, <2>2, EarlyCall DEF CallState, Early
  <2> QED BY <2>1, <2>2
<1> HIDE DEF x
<1> QED BY <1>1, <1>2, <1>3, Prepares DEF LookupWriter

LEMMA FetchStep ==
  ASSUME ReceiverInv, NEW c \in Calls, Fetch(c) PROVE ReceiverInv'
<1> DEFINE x == [call[c] EXCEPT !.pc = "store", !.version = config]
<1>1. call[c].pc \in Early /\ RestOK' /\ config \in Versions
  BY Typed DEF Fetch, At, Early, RestOK
<1>2. CASE config # Gone
  <2>1. x \in CallState /\ x.pc \in Early /\ x.msgs = call[c].msgs /\ x.ids = call[c].ids
        /\ x.todo = call[c].todo /\ x.failed = {} /\ x.chunk = call[c].chunk
        /\ x.answer = call[c].answer
    BY <1>1, EarlyCall DEF CallState, Early
  <2>2. call' = [call EXCEPT ![c] = x]
    BY <1>2 DEF Fetch
  <2> HIDE DEF x
  <2> QED BY <1>1, <2>1, <2>2, Prepares DEF Fetch
<1>3. CASE config = Gone
  BY <1>1, <1>3, EarlyCall, Answered DEF Fetch
<1> QED BY <1>2, <1>3

\* The next attempt begins with the messages that are given to it.
LEMMA TriedAgain ==
  ASSUME ReceiverTypeOK, NEW c \in Calls, call[c].attempt < MaxAttempts,
         NEW a, NEW msgs \in SUBSET Batch
  PROVE  LET x == TryAgain(c, a, msgs) IN
         /\ x \in CallState /\ x.pc = "lookup" /\ x.msgs = msgs /\ x.failed = {}
         /\ x.ids = call[c].ids /\ x.todo = call[c].todo /\ x.chunk = call[c].chunk
         /\ x.answer = call[c].answer
<1>1. call[c] \in CallState /\ call[c].attempt + 1 \in 1 .. MaxAttempts
  BY ReceiverAssumption DEF ReceiverTypeOK, CallState
<1> QED BY <1>1 DEF TryAgain, CallState

LEMMA FetchFailsStep ==
  ASSUME ReceiverInv, NEW c \in Calls, FetchFails(c) PROVE ReceiverInv'
<1> DEFINE x == TryAgain(c, "error", call[c].msgs)
<1>1. call[c].pc \in Early /\ RestOK'
  BY Typed, ReceiverAssumption DEF FetchFails, At, Early, RestOK, CallFault
<1>2. call' = [call EXCEPT ![c] = x]
  BY DEF FetchFails
<1>3. CASE call[c].attempt < MaxAttempts
  <2>1. call[c].msgs \in SUBSET Batch /\ ReceiverTypeOK
    BY Typed DEF CallState, ReceiverInv
  <2>2. x \in CallState /\ x.pc = "lookup" /\ x.msgs = call[c].msgs /\ x.ids = call[c].ids
        /\ x.todo = call[c].todo /\ x.failed = {} /\ x.chunk = call[c].chunk
        /\ x.answer = call[c].answer
    BY <1>3, <2>1, TriedAgain
  <2> HIDE DEF x
  <2> QED BY <1>1, <1>2, <2>2, Prepares DEF FetchFails, Early
<1>4. CASE ~(call[c].attempt < MaxAttempts)
  <2>1. x = Answer(c, "error")
    BY <1>4 DEF TryAgain
  <2> QED BY <1>1, <1>2, <2>1, EarlyCall, Answered DEF FetchFails
<1> QED BY <1>3, <1>4

LEMMA StoreStep ==
  ASSUME ReceiverInv, NEW c \in Calls, Store(c) PROVE ReceiverInv'
<1> DEFINE x == IF cache.fresh THEN [call[c] EXCEPT !.pc = "headers", !.version = cache.version]
                               ELSE [call[c] EXCEPT !.pc = "headers"]
<1>1. call[c].pc \in Early /\ cache.version \in Versions
  BY Typed DEF Store, At, Early, RestOK
<1>2. call[c].version \in Versions
  BY Typed DEF CallState
<1>3. RestOK'
  <2>1. cache' = cache \/ cache' = [version |-> call[c].version, fresh |-> TRUE]
    BY DEF Store
  <2>2. cache' \in [version : Versions, fresh : BOOLEAN]
    <3>1. CASE cache' = cache
      BY <3>1, Typed DEF RestOK
    <3>2. CASE cache' = [version |-> call[c].version, fresh |-> TRUE]
      <4> HIDE DEF x
      <4> QED BY <1>2, <3>2
    <3> QED BY <2>1, <3>1, <3>2
  <2>3. UNCHANGED <<config, adrift, callFaults, leaves, cacheExpiries>>
    BY DEF Store
  <2> QED BY <2>2, <2>3, Typed DEF RestOK
<1>4. call' = [call EXCEPT ![c] = x]
  <2>1. call \in [Calls -> CallState] /\ call[c] \in CallState
    BY DEF ReceiverInv, ReceiverTypeOK
  <2>2. CASE cache.fresh
    <3>1. x = [[call[c] EXCEPT !.pc = "headers"] EXCEPT !.version = cache.version]
      BY <2>1, <2>2 DEF CallState
    <3> QED BY <2>1, <2>2, <3>1 DEF Store, CallState
  <2>3. CASE ~cache.fresh
    BY <2>1, <2>3 DEF Store
  <2> QED BY <2>2, <2>3
<1>5. x \in CallState /\ x.pc \in Early /\ x.msgs = call[c].msgs /\ x.ids = call[c].ids
      /\ x.todo = call[c].todo /\ x.failed = {} /\ x.chunk = call[c].chunk
      /\ x.answer = call[c].answer
  <2>1. CASE cache.fresh
    BY ZenonT(40), <1>1, <2>1, EarlyCall DEF CallState, Early
  <2>2. CASE ~cache.fresh
    BY <1>1, <2>2, EarlyCall DEF CallState, Early
  <2> QED BY <2>1, <2>2
<1> HIDE DEF x
<1> QED BY <1>1, <1>3, <1>4, <1>5, Prepares DEF Store

\* Only ids of messages that are open are set.
LEMMA SetHeadersStep ==
  ASSUME ReceiverInv, NEW c \in Calls, SetHeaders(c) PROVE ReceiverInv'
<1> DEFINE sent == call[c].msgs
           ids == [m \in Batch |-> IF m \in sent THEN FieldValue[c][m] ELSE call[c].ids[m]]
           Ready(s) == [call[c] EXCEPT !.pc = "publish", !.todo = sent, !.ids = s]
<1>1. call[c].pc = "headers" /\ call[c].pc \in Early /\ RestOK' /\ call[c] \in CallState
  BY Typed DEF SetHeaders, At, Early, RestOK
<1>2. ids \in [Batch -> Ids] /\ call[c].ids \in [Batch -> Ids]
  BY <1>1, FieldIsId DEF CallState
<1>3. \/ call' = [call EXCEPT ![c] = Ready(call[c].ids)]
      \/ call' = [call EXCEPT ![c] = Ready(ids)]
      \/ call' = [call EXCEPT ![c] = Answer(c, "error")]
  <2>1. CASE ~Deduplicates[call[c].version]
    <3>1. Ready(call[c].ids) = [call[c] EXCEPT !.pc = "publish", !.todo = sent]
      BY <1>1 DEF CallState
    <3> QED BY <2>1, <3>1 DEF SetHeaders
  <2>2. CASE Deduplicates[call[c].version]
    BY <2>2 DEF SetHeaders
  <2> QED BY <2>1, <2>2
<1>4. ASSUME NEW s \in [Batch -> Ids], \A m \in Batch : m \in sent \/ s[m] = call[c].ids[m],
             call' = [call EXCEPT ![c] = Ready(s)]
      PROVE  ReceiverInv'
  <2> DEFINE x == Ready(s)
  <2>1. x \in CallState /\ x.pc = "publish" /\ x.todo = sent /\ x.ids = s
        /\ x.failed = {} /\ x.chunk = {} /\ x.answer = "none"
    BY <1>1, <1>4, EarlyCall DEF CallState
  <2>2. call' = [call EXCEPT ![c] = x]
    BY <1>4
  <2> HIDE DEF x
  <2>3. CallOK(call[c], future[c], copies[c], unheard[c], idsSeen)
    BY Typed
  <2>4. Orderly(x, future[c])
    BY <1>1, <2>1, <2>3 DEF CallOK, Orderly
  <2>5. OpenOf(x, future[c]) = sent /\ OpenOf(call[c], future[c]) = sent
    BY <1>1, <2>1 DEF OpenOf, Early
  <2>6. Accounted(x, future[c], copies[c], unheard[c], idsSeen)
    BY <1>1, <1>4, <2>1, <2>3, <2>5 DEF CallOK, Accounted, Kept
  <2> QED BY <1>1, <2>1, <2>2, <2>4, <2>6, CallMoves DEF CallOK, SetHeaders
<1>5. CASE call' = [call EXCEPT ![c] = Ready(call[c].ids)]
  <2> HIDE DEF Ready
  <2> QED BY <1>2, <1>4, <1>5
<1>6. CASE call' = [call EXCEPT ![c] = Ready(ids)]
  <2>1. \A m \in Batch : m \in sent \/ ids[m] = call[c].ids[m]
    OBVIOUS
  <2> HIDE DEF Ready, ids
  <2> QED BY <1>2, <1>4, <1>6, <2>1
<1>7. CASE call' = [call EXCEPT ![c] = Answer(c, "error")]
  BY <1>1, <1>7, EarlyCall, Answered DEF SetHeaders
<1> QED BY <1>3, <1>5, <1>6, <1>7

-----------------------------------------------------------------------------
(* The steps that write *)

LEMMA OpenWhileWriting ==
  ASSUME NEW x, NEW f, x.pc \in {"publish", "await"}
  PROVE  OpenOf(x, f) = x.todo \cup x.failed \cup {m \in x.chunk : f[m] \notin {"stored", "ok"}}
BY DEF OpenOf

LEMMA PublishChunkStep ==
  ASSUME ReceiverInv, NEW c \in Calls, PublishChunk(c) PROVE ReceiverInv'
<1>1. PICK chunk \in Chunks(call[c].todo), refused \in SUBSET call[c].todo :
        /\ refused \subseteq chunk
        /\ IF refused = {} THEN UNCHANGED callFaults ELSE CallFault
        /\ call' = [call EXCEPT
             ![c].todo = @ \ chunk, ![c].chunk = chunk \ refused, ![c].failed = @ \cup refused,
             ![c].cause = IF @ = "none" /\ refused # {} THEN "other" ELSE @,
             ![c].pc = IF chunk \ refused = {} THEN "publish" ELSE "await"]
        /\ future' = [future EXCEPT
             ![c] = [m \in Batch |-> IF m \in chunk \ refused THEN "sent" ELSE @[m]]]
  BY DEF PublishChunk
<1> DEFINE sent == chunk \ refused
           pc == IF sent = {} THEN "publish" ELSE "await"
           cause == IF call[c].cause = "none" /\ refused # {} THEN "other" ELSE call[c].cause
           x == [call[c] EXCEPT !.todo = call[c].todo \ chunk, !.chunk = sent,
                                !.failed = call[c].failed \cup refused, !.cause = cause,
                                !.pc = pc]
           f == [m \in Batch |-> IF m \in sent THEN "sent" ELSE future[c][m]]
<1>2. call \in [Calls -> CallState] /\ call[c] \in CallState /\ call[c].pc = "publish"
      /\ chunk \subseteq call[c].todo /\ future[c] \in [Batch -> Answers]
      /\ CallOK(call[c], future[c], copies[c], unheard[c], idsSeen)
  BY Typed DEF ReceiverInv, ReceiverTypeOK, PublishChunk, At, Chunks
<1>3. call' = [call EXCEPT ![c] = x]
  BY <1>1, <1>2 DEF CallState
<1>4. cause \in {"none", "full", "other", "left"} /\ pc \in {"publish", "await"}
      /\ (pc # "await" => sent = {}) /\ sent \subseteq Batch
  BY <1>2 DEF CallState
<1> HIDE DEF sent, pc, cause
<1>5. /\ x \in CallState /\ x.pc = pc /\ x.todo = call[c].todo \ chunk /\ x.chunk = sent
      /\ x.failed = call[c].failed \cup refused /\ x.ids = call[c].ids
      /\ x.answer = call[c].answer
  BY <1>2, <1>4 DEF CallState
<1>6. f \in [Batch -> Answers] /\ \A m \in Batch : f[m] = IF m \in sent THEN "sent"
                                                                      ELSE future[c][m]
  BY <1>2 DEF Answers
<1>7. future' = [future EXCEPT ![c] = f]
  BY <1>1 DEF sent
<1> HIDE DEF x, f
<1>8. \A m \in Batch : future[c][m] = "none"
  BY <1>2 DEF CallOK, Orderly
<1>9. Orderly(x, f)
  <2>1. /\ call[c].chunk = {} /\ call[c].answer = "none" /\ call[c].todo \cap call[c].failed = {}
    BY <1>2 DEF CallOK, Orderly
  <2>2. x.todo \cap x.failed = {} /\ x.chunk \cap (x.todo \cup x.failed) = {}
    <3>1. refused \subseteq chunk /\ chunk \subseteq call[c].todo
      BY <1>1, <1>2
    <3> QED BY <1>5, <2>1, <3>1 DEF sent
  <2>3. \A m \in Batch : f[m] # "none" => m \in x.chunk
    BY <1>5, <1>6, <1>8
  <2> QED BY <1>4, <1>5, <2>1, <2>2, <2>3 DEF Orderly
<1>10. OpenOf(x, f) = OpenOf(call[c], future[c])
  <2>1. OpenOf(call[c], future[c]) = call[c].todo \cup call[c].failed
    BY <1>2, OpenWhileWriting DEF CallOK, Orderly
  <2>2. {m \in x.chunk : f[m] \notin {"stored", "ok"}} = sent
    BY <1>4, <1>5, <1>6
  <2>3. OpenOf(x, f) = x.todo \cup x.failed \cup sent
    BY <1>4, <1>5, <2>2, OpenWhileWriting
  <2> QED BY <1>1, <1>2, <1>5, <2>1, <2>3 DEF sent
<1>11. Accounted(x, f, copies[c], unheard[c], idsSeen)
  BY <1>2, <1>5, <1>10, AsOpen DEF CallOK
<1>12. RestOK'
  <2>1. callFaults' \in 0 .. MaxCallFaults
    <3>1. callFaults \in 0 .. MaxCallFaults
      BY Typed DEF RestOK
    <3>2. callFaults' = callFaults \/ CallFault
      BY <1>1
    <3> QED BY <3>1, <3>2, ReceiverAssumption DEF CallFault
  <2>2. UNCHANGED <<config, cache, adrift, leaves, cacheExpiries>>
    BY DEF PublishChunk
  <2> QED BY <2>1, <2>2, Typed DEF RestOK
<1>13. UNCHANGED <<copies, idsSeen, unheard>>
  BY DEF PublishChunk
<1>14. /\ copies' = [copies EXCEPT ![c] = copies[c]]
       /\ unheard' = [unheard EXCEPT ![c] = unheard[c]]
  BY <1>13 DEF ReceiverInv, ReceiverTypeOK
<1> QED BY <1>3, <1>5, <1>6, <1>7, <1>9, <1>11, <1>12, <1>13, <1>14, Typed, OneCall DEF CallOK

\* The cause of a failed attempt is one of the answers.
LEMMA CauseTyped ==
  ASSUME ReceiverInv, NEW c \in Calls, NEW early \in {"none", "left"},
         \A m \in Batch : future[c][m] \in Unanswered => early = "left",
         NEW cause \in FirstCause(c, early)
  PROVE  cause \in {"none", "full", "other", "left"}
<1>1. call[c] \in CallState /\ future[c] \in [Batch -> Answers] /\ call[c].chunk \subseteq Batch
      /\ \A m \in call[c].chunk : future[c][m] \in Answers
  BY Typed DEF CallState
<1>2. CASE Failures(c) = {} \/ call[c].cause # "none"
  BY <1>1, <1>2 DEF FirstCause, CallState
<1>3. CASE ~(Failures(c) = {} \/ call[c].cause # "none")
  <2>1. PICK m \in Failures(c) :
          cause = IF future[c][m] \in Unanswered THEN early ELSE future[c][m]
    BY <1>3 DEF FirstCause
  <2>2. m \in Batch /\ future[c][m] \in Answers \ {"ok"}
    BY <1>1, <2>1 DEF Failures
  <2> QED BY <2>1, <2>2 DEF Answers, Unanswered
<1> QED BY <1>2, <1>3

\* The failures of a chunk are kept with the failures before; what was stored unheard is among
\* them.
LEMMA ChunkEnds ==
  ASSUME ReceiverInv, RestOK', NEW c \in Calls, NEW early \in {"none", "left"}, At(c, "await"),
         \A m \in Batch : future[c][m] \in Unanswered => early = "left",
         Collected(c, early), NEW u \in [Batch -> Nat],
         \A m \in Batch : u[m] = unheard[c][m] + (IF future[c][m] = "stored" THEN 1 ELSE 0),
         unheard' = [unheard EXCEPT ![c] = u], UNCHANGED <<copies, idsSeen>>
  PROVE  ReceiverInv'
<1>1. PICK cause \in FirstCause(c, early) :
        call' = [call EXCEPT ![c].failed = @ \cup Failures(c), ![c].cause = cause,
                             ![c].chunk = {}, ![c].pc = "publish"]
  BY DEF Collected
<1> DEFINE x == [call[c] EXCEPT !.failed = call[c].failed \cup Failures(c), !.cause = cause,
                                !.chunk = {}, !.pc = "publish"]
           f == [m \in Batch |-> "none"]
<1>2. /\ call \in [Calls -> CallState] /\ call[c] \in CallState /\ call[c].pc = "await"
      /\ future[c] \in [Batch -> Answers] /\ copies[c] \in [Batch -> Nat]
      /\ unheard[c] \in [Batch -> Nat]
      /\ CallOK(call[c], future[c], copies[c], unheard[c], idsSeen)
  BY Typed DEF ReceiverInv, ReceiverTypeOK, At
<1>3. cause \in {"none", "full", "other", "left"} /\ Failures(c) \subseteq Batch
  BY <1>2, CauseTyped DEF Failures, CallState
<1>4. call' = [call EXCEPT ![c] = x]
  BY <1>1, <1>2 DEF CallState
<1>5. /\ x \in CallState /\ x.pc = "publish" /\ x.todo = call[c].todo /\ x.chunk = {}
      /\ x.failed = call[c].failed \cup Failures(c) /\ x.ids = call[c].ids
      /\ x.answer = call[c].answer
  BY <1>2, <1>3 DEF CallState
<1>6. f \in [Batch -> Answers] /\ \A m \in Batch : f[m] = "none"
  BY DEF Answers
<1>7. future' = [future EXCEPT ![c] = f]
  BY DEF Collected
<1> HIDE DEF x, f
<1>8. Orderly(x, f)
  BY <1>2, <1>5, <1>6 DEF CallOK, Orderly, Failures
<1> DEFINE before == OpenOf(call[c], future[c])
           after == OpenOf(x, f)
<1>9. /\ before = call[c].todo \cup call[c].failed
                    \cup {m \in call[c].chunk : future[c][m] \notin {"stored", "ok"}}
      /\ after = call[c].todo \cup call[c].failed \cup Failures(c)
  BY <1>2, <1>5, OpenWhileWriting
<1>10. \A m \in Batch : future[c][m] = "stored" => m \in call[c].chunk
  BY <1>2 DEF CallOK, Orderly
<1>11. \A m \in Batch : IF future[c][m] = "stored" THEN m \in after
                                                   ELSE (m \in after) = (m \in before)
  <2> SUFFICES ASSUME NEW m \in Batch
               PROVE  IF future[c][m] = "stored" THEN m \in after
                                                 ELSE (m \in after) = (m \in before)
    OBVIOUS
  <2> HIDE DEF before, after
  <2>1. CASE future[c][m] = "stored"
    BY <1>9, <1>10, <2>1 DEF Failures
  <2>2. CASE future[c][m] # "stored"
    BY <1>9, <2>2 DEF Failures
  <2> QED BY <2>1, <2>2
<1>12. Accounted(x, f, copies[c], u, idsSeen)
  <2>1. Accounted(call[c], future[c], copies[c], unheard[c], idsSeen)
    BY <1>2 DEF CallOK
  <2>2. ASSUME NEW m \in Batch PROVE m \in after \/ Kept(x, copies[c], idsSeen, m)
    <3>1. m \in before \/ Kept(call[c], copies[c], idsSeen, m)
      BY <1>2, <2>1 DEF Accounted
    <3> HIDE DEF before, after
    <3> QED BY <1>5, <1>11, <3>1 DEF Kept
  <2>3. ASSUME NEW m \in Batch
        PROVE  copies[c][m] <= u[m] + (IF m \in after THEN 0 ELSE 1)
    <3>1. copies[c][m] <= unheard[c][m] + (IF m \in before THEN 0 ELSE 1)
      BY <2>1 DEF Accounted
    <3>2. copies[c][m] \in Nat /\ unheard[c][m] \in Nat
      BY <1>2
    <3> HIDE DEF before, after
    <3>3. CASE future[c][m] = "stored"
      BY <1>11, <3>1, <3>2, <3>3
    <3>4. CASE future[c][m] # "stored"
      BY <1>11, <3>1, <3>2, <3>4
    <3> QED BY <3>3, <3>4
  <2> QED BY <2>2, <2>3 DEF Accounted
<1>13. copies' = [copies EXCEPT ![c] = copies[c]]
  BY DEF ReceiverInv, ReceiverTypeOK
<1> QED BY <1>2, <1>4, <1>5, <1>6, <1>7, <1>8, <1>12, <1>13, Typed, OneCall DEF CallOK

LEMMA CollectChunkStep ==
  ASSUME ReceiverInv, NEW c \in Calls, CollectChunk(c) PROVE ReceiverInv'
<1>1. /\ At(c, "await") /\ \A m \in Batch : future[c][m] \notin Unanswered
      /\ Collected(c, "none") /\ UNCHANGED <<copies, idsSeen, unheard>>
  BY DEF CollectChunk
<1>2. RestOK'
  BY Typed DEF CollectChunk, RestOK
<1>3. \A m \in Batch : unheard[c][m] = unheard[c][m] + (IF future[c][m] = "stored" THEN 1 ELSE 0)
  BY <1>1, Typed DEF Unanswered
<1>4. unheard[c] \in [Batch -> Nat] /\ unheard' = [unheard EXCEPT ![c] = unheard[c]]
  BY <1>1 DEF ReceiverInv, ReceiverTypeOK
<1> QED BY <1>1, <1>2, <1>3, <1>4, ChunkEnds

LEMMA AbandonChunkStep ==
  ASSUME ReceiverInv, NEW c \in Calls, AbandonChunk(c) PROVE ReceiverInv'
<1> DEFINE u == [m \in Batch |-> IF future[c][m] = "stored" THEN unheard[c][m] + 1
                                                             ELSE unheard[c][m]]
           a == [m \in Batch |-> IF future[c][m] = "sent"
                   THEN adrift[c][m] \cup {<<call[c].attempt, call[c].ids[m]>>}
                   ELSE adrift[c][m]]
<1>1. /\ At(c, "await") /\ Collected(c, "left") /\ UNCHANGED <<copies, idsSeen>>
      /\ unheard' = [unheard EXCEPT ![c] = u] /\ adrift' = [adrift EXCEPT ![c] = a]
  BY DEF AbandonChunk
<1>2. /\ u \in [Batch -> Nat]
      /\ \A m \in Batch : u[m] = unheard[c][m] + (IF future[c][m] = "stored" THEN 1 ELSE 0)
  BY Typed
<1>3. a \in [Batch -> SUBSET ((1 .. MaxAttempts) \X Ids)]
  <2>1. call[c].attempt \in 1 .. MaxAttempts /\ call[c].ids \in [Batch -> Ids]
    BY Typed DEF CallState
  <2>2. adrift[c] \in [Batch -> SUBSET ((1 .. MaxAttempts) \X Ids)]
    BY Typed DEF RestOK
  <2> QED BY <2>1, <2>2
<1> HIDE DEF u, a
<1>4. RestOK'
  BY <1>1, <1>3, Typed DEF AbandonChunk, RestOK
<1> QED BY <1>1, <1>2, <1>4, ChunkEnds

\* What is tried again is what failed, and a call without failures is done.
LEMMA EndAttemptStep ==
  ASSUME ReceiverInv, NEW c \in Calls, EndAttempt(c) PROVE ReceiverInv'
<1>1. /\ call[c] \in CallState /\ call[c].pc = "publish" /\ call[c].todo = {}
      /\ call[c].failed \in SUBSET Batch /\ ReceiverTypeOK
      /\ CallOK(call[c], future[c], copies[c], unheard[c], idsSeen)
      /\ config \in Versions
  BY Typed DEF EndAttempt, At, CallState, ReceiverInv, RestOK
<1>2. call[c].chunk = {} /\ call[c].answer = "none"
  BY <1>1 DEF CallOK, Orderly
<1>3. OpenOf(call[c], future[c]) = call[c].failed
  BY <1>1, <1>2, OpenWhileWriting
<1>4. RestOK' /\ UNCHANGED <<future, copies, idsSeen, unheard>>
  <2>1. NoEntry \in [version : Versions, fresh : BOOLEAN]
    BY ReceiverAssumption DEF NoEntry, Versions, Gone
  <2>2. cache' = cache \/ cache' = NoEntry
    BY DEF EndAttempt
  <2>3. UNCHANGED <<config, adrift, callFaults, leaves, cacheExpiries>>
    BY DEF EndAttempt
  <2> QED BY <2>1, <2>2, <2>3, Typed DEF EndAttempt, RestOK
<1>5. CASE call[c].failed = {}
  <2> DEFINE x == Answer(c, "ok")
  <2>1. x \in CallState /\ x.pc = "done" /\ x.answer = "ok" /\ x.chunk = {}
        /\ x.todo = {} /\ x.failed = {} /\ x.ids = call[c].ids
    BY <1>1, <1>2, <1>5 DEF Answer, CallState
  <2>2. call' = [call EXCEPT ![c] = x]
    BY <1>5 DEF EndAttempt
  <2> HIDE DEF x
  <2>3. Orderly(x, future[c])
    BY <1>1, <1>2, <2>1 DEF CallOK, Orderly
  <2>4. OpenOf(x, future[c]) = OpenOf(call[c], future[c])
    BY <1>3, <1>5, <2>1 DEF OpenOf
  <2>5. Accounted(x, future[c], copies[c], unheard[c], idsSeen)
    BY <1>1, <2>1, <2>4, AsOpen DEF CallOK
  <2> QED BY <1>4, <2>1, <2>2, <2>3, <2>5, CallMoves DEF CallOK
<1>6. CASE call[c].failed # {}
  <2> DEFINE next == IF call[c].cause = "full"
                     THEN TryAgain(c, "overloaded", call[c].failed) ELSE Answer(c, "error")
             x == [next EXCEPT !.failedAt = config]
  <2>1. call' = [call EXCEPT ![c] = x]
    BY <1>6 DEF EndAttempt
  <2>2. CASE call[c].cause = "full" /\ call[c].attempt < MaxAttempts
    <3>1. /\ next \in CallState /\ next.pc = "lookup" /\ next.msgs = call[c].failed
          /\ next.failed = {} /\ next.ids = call[c].ids /\ next.todo = {} /\ next.chunk = {}
          /\ next.answer = "none"
      BY <1>1, <1>2, <2>2, TriedAgain
    <3> HIDE DEF next
    <3>2. /\ x \in CallState /\ x.pc = "lookup" /\ x.msgs = call[c].failed
          /\ x.failed = {} /\ x.ids = call[c].ids /\ x.todo = {} /\ x.chunk = {}
          /\ x.answer = "none"
      BY <1>1, <3>1 DEF CallState
    <3> HIDE DEF x
    <3>3. Orderly(x, future[c])
      BY <1>1, <1>2, <3>2 DEF CallOK, Orderly
    <3>4. OpenOf(x, future[c]) = OpenOf(call[c], future[c])
      BY <1>3, <3>2 DEF OpenOf
    <3>5. Accounted(x, future[c], copies[c], unheard[c], idsSeen)
      BY <1>1, <3>2, <3>4, AsOpen DEF CallOK
    <3> QED BY <1>4, <2>1, <3>2, <3>3, <3>5, CallMoves DEF CallOK
  <2>3. CASE ~(call[c].cause = "full" /\ call[c].attempt < MaxAttempts)
    <3>1. next = Answer(c, "overloaded") \/ next = Answer(c, "error")
      BY <2>3 DEF TryAgain
    <3>2. PICK a \in {"overloaded", "error"} : next = Answer(c, a)
      BY <3>1
    <3>3. /\ next \in CallState /\ next.pc = "done" /\ next.answer = a /\ next.todo = {}
          /\ next.failed = call[c].failed /\ next.chunk = {}
      BY <1>1, <1>2, <3>2 DEF Answer, CallState
    <3> HIDE DEF next
    <3>4. /\ x \in CallState /\ x.pc = "done" /\ x.answer = a /\ x.todo = {}
          /\ x.failed = call[c].failed /\ x.chunk = {}
      BY <1>1, <3>3 DEF CallState
    <3> HIDE DEF x
    <3>5. Orderly(x, future[c])
      BY <1>1, <1>2, <3>4 DEF CallOK, Orderly
    <3>6. Accounted(x, future[c], copies[c], unheard[c], idsSeen)
      BY <1>1, <3>4, Typed, NotAccepted DEF CallOK
    <3> QED BY <1>4, <2>1, <3>4, <3>5, <3>6, CallMoves DEF CallOK
  <2> QED BY <2>2, <2>3
<1> QED BY <1>5, <1>6

\* The client leaves the call as it is.
LEMMA ClientLeavesStep ==
  ASSUME ReceiverInv, NEW c \in Calls, ClientLeaves(c) PROVE ReceiverInv'
<1> DEFINE x == [call[c] EXCEPT !.left = TRUE]
<1>1. /\ call[c] \in CallState /\ call[c].pc # "done"
      /\ CallOK(call[c], future[c], copies[c], unheard[c], idsSeen)
  BY Typed DEF ClientLeaves, InProgress
<1>2. call' = [call EXCEPT ![c] = x]
  BY DEF ClientLeaves
<1>3. x \in CallState
  BY <1>1 DEF CallState
<1>4. /\ x.pc = call[c].pc /\ x.todo = call[c].todo /\ x.chunk = call[c].chunk
      /\ x.failed = call[c].failed /\ x.ids = call[c].ids /\ x.msgs = call[c].msgs
      /\ x.answer = call[c].answer
  BY <1>1 DEF CallState
<1> HIDE DEF x
<1>5. Orderly(x, future[c])
  BY <1>1, <1>4 DEF CallOK, Orderly
<1>6. OpenOf(x, future[c]) = OpenOf(call[c], future[c])
  BY <1>4 DEF OpenOf
<1>7. Accounted(x, future[c], copies[c], unheard[c], idsSeen)
  BY <1>1, <1>4, <1>6, AsOpen DEF CallOK
<1>8. RestOK'
  <2>1. leaves \in 0 .. MaxLeaves /\ leaves < MaxLeaves /\ leaves' = leaves + 1
    BY Typed DEF ClientLeaves, RestOK
  <2>2. leaves' \in 0 .. MaxLeaves
    BY <2>1, ReceiverAssumption
  <2> QED BY <2>2, Typed DEF ClientLeaves, RestOK
<1> QED BY <1>2, <1>3, <1>5, <1>7, <1>8, CallMoves DEF CallOK, ClientLeaves

-----------------------------------------------------------------------------
(* The steps of the stream *)

\* A publication under way is open until it is stored.
LEMMA UnderWay ==
  ASSUME ReceiverInv, NEW c \in Calls, NEW m \in Batch, future[c][m] # "none", NEW g
  PROVE  /\ call[c].pc = "await" /\ m \in call[c].chunk
         /\ m \in OpenOf(call[c], g) <=> g[m] \notin {"stored", "ok"}
<1>1. Orderly(call[c], future[c]) /\ call[c] \in CallState
  BY Typed DEF CallOK
<1>2. m \in call[c].chunk /\ call[c].pc = "await" /\ m \notin call[c].todo \cup call[c].failed
  BY <1>1 DEF Orderly
<1> QED BY <1>2, OpenWhileWriting

\* Something happens to one message of a call.
Elsewhere(m, f, g) == \A d \in Batch \ {m} : f[d] = g[d]

AccountedAt(x, f, n, u, seen, m) ==
  /\ x.pc # "done" \/ x.answer = "ok" => m \in OpenOf(x, f) \/ Kept(x, n, seen, m)
  /\ n[m] <= u[m] + (IF m \in OpenOf(x, f) THEN 0 ELSE 1)

LEMMA StreamMoves ==
  ASSUME ReceiverInv, RestOK', NEW c \in Calls, NEW m \in Batch,
         NEW f \in [Batch -> Answers], NEW n \in [Batch -> Nat], NEW u \in [Batch -> Nat],
         call' = call, future' = [future EXCEPT ![c] = f],
         copies' = [copies EXCEPT ![c] = n], unheard' = [unheard EXCEPT ![c] = u],
         idsSeen \subseteq idsSeen', idsSeen' \subseteq Ids,
         Elsewhere(m, f, future[c]), Elsewhere(m, n, copies[c]), Elsewhere(m, u, unheard[c]),
         f[m] # "none" => future[c][m] # "none", AccountedAt(call[c], f, n, u, idsSeen', m)
  PROVE  ReceiverInv'
<1> DEFINE x == call[c]
<1>1. x \in CallState /\ CallOK(x, future[c], copies[c], unheard[c], idsSeen)
  BY Typed
<1>2. call' = [call EXCEPT ![c] = x]
  BY DEF ReceiverInv, ReceiverTypeOK
<1> HIDE DEF x
<1>3. \A d \in Batch \ {m} : (d \in OpenOf(x, f)) = (d \in OpenOf(x, future[c]))
  BY DEF OpenOf, Elsewhere
<1>4. Orderly(x, f)
  BY <1>1 DEF CallOK, Orderly, Elsewhere
<1>5. Accounted(x, f, n, u, idsSeen')
  <2>1. ASSUME x.pc # "done" \/ x.answer = "ok", NEW d \in Batch
        PROVE  d \in OpenOf(x, f) \/ Kept(x, n, idsSeen', d)
    <3>1. CASE d = m
      BY <2>1, <3>1 DEF x, AccountedAt
    <3>2. CASE d # m
      BY <1>1, <1>3, <2>1, <3>2 DEF CallOK, Accounted, Kept, Elsewhere
    <3> QED BY <3>1, <3>2
  <2>2. ASSUME NEW d \in Batch PROVE n[d] <= u[d] + (IF d \in OpenOf(x, f) THEN 0 ELSE 1)
    <3>1. CASE d = m
      BY <3>1 DEF x, AccountedAt
    <3>2. CASE d # m
      BY <1>1, <1>3, <3>2 DEF CallOK, Accounted, Elsewhere
    <3> QED BY <3>1, <3>2
  <2> QED BY <2>1, <2>2 DEF Accounted
<1> QED BY <1>1, <1>2, <1>4, <1>5, OneCall DEF CallOK

\* A message that arrives is stored, or one with its id was.
LEMMA ArrivesOnce ==
  ASSUME ReceiverInv, NEW c \in Calls, NEW m \in Batch, NEW id \in Ids, Arrives(c, m, id)
  PROVE  /\ idsSeen \subseteq idsSeen' /\ idsSeen' \subseteq Ids
         /\ \E n \in [Batch -> Nat] :
              /\ copies' = [copies EXCEPT ![c] = n]
              /\ \A d \in Batch \ {m} : n[d] = copies[c][d]
              /\ n[m] \in {copies[c][m], copies[c][m] + 1}
              /\ n[m] > 0 \/ (id # Empty /\ id \in idsSeen')
<1>1. copies \in [Calls -> [Batch -> Nat]] /\ copies[c] \in [Batch -> Nat] /\ idsSeen \subseteq Ids
  BY Typed DEF ReceiverInv, ReceiverTypeOK
<1>2. CASE id # Empty /\ id \in idsSeen
  <2>1. copies' = [copies EXCEPT ![c] = copies[c]] /\ idsSeen' = idsSeen
    BY <1>1, <1>2 DEF Arrives
  <2> QED BY <1>1, <1>2, <2>1
<1>3. CASE ~(id # Empty /\ id \in idsSeen)
  <2> DEFINE n == [copies[c] EXCEPT ![m] = copies[c][m] + 1]
  <2>1. copies' = [copies EXCEPT ![c] = n] /\ idsSeen' = idsSeen \cup ({id} \ {Empty})
    BY <1>3 DEF Arrives
  <2>2. n \in [Batch -> Nat] /\ n[m] = copies[c][m] + 1 /\ n[m] > 0
        /\ \A d \in Batch \ {m} : n[d] = copies[c][d]
    BY <1>1
  <2> HIDE DEF n
  <2> QED BY <1>1, <2>1, <2>2
<1> QED BY <1>2, <1>3

\* The publication of message m comes to a.
LEMMA FutureIs ==
  ASSUME ReceiverInv, NEW c \in Calls, NEW m \in Batch, NEW a \in Answers
  PROVE  LET f == [future[c] EXCEPT ![m] = a] IN
         /\ f \in [Batch -> Answers] /\ f[m] = a
         /\ \A d \in Batch \ {m} : f[d] = future[c][d]
BY Typed

LEMMA StreamStoresStep ==
  ASSUME ReceiverInv, NEW c \in Calls, NEW m \in Batch, StreamStores(c, m) PROVE ReceiverInv'
<1> DEFINE f == [future[c] EXCEPT ![m] = "stored"]
           id == call[c].ids[m]
<1>1. f \in [Batch -> Answers] /\ f[m] = "stored" /\ \A d \in Batch \ {m} : f[d] = future[c][d]
  BY FutureIs DEF Answers
<1>2. future' = [future EXCEPT ![c] = f] /\ future[c][m] = "sent" /\ Arrives(c, m, id)
      /\ UNCHANGED <<call, unheard>> /\ unheard' = [unheard EXCEPT ![c] = unheard[c]]
  BY DEF StreamStores, ReceiverInv, ReceiverTypeOK
<1> HIDE DEF f
<1>3. id \in Ids /\ copies[c] \in [Batch -> Nat] /\ unheard[c] \in [Batch -> Nat]
  BY Typed DEF CallState
<1>4. PICK n \in [Batch -> Nat] :
        /\ copies' = [copies EXCEPT ![c] = n]
        /\ \A d \in Batch \ {m} : n[d] = copies[c][d]
        /\ n[m] \in {copies[c][m], copies[c][m] + 1}
        /\ n[m] > 0 \/ (id # Empty /\ id \in idsSeen')
  BY <1>2, <1>3, ArrivesOnce
<1>5. idsSeen \subseteq idsSeen' /\ idsSeen' \subseteq Ids
  BY <1>2, <1>3, ArrivesOnce
<1>6. m \in OpenOf(call[c], future[c]) /\ m \notin OpenOf(call[c], f)
  BY <1>1, <1>2, UnderWay
<1>7. copies[c][m] <= unheard[c][m]
  BY <1>3, <1>6, Typed DEF CallOK, Accounted
<1>8. n[m] <= unheard[c][m] + (IF m \in OpenOf(call[c], f) THEN 0 ELSE 1)
  BY <1>3, <1>4, <1>6, <1>7
<1>9. Kept(call[c], n, idsSeen', m)
  BY <1>4 DEF Kept
<1>10. RestOK'
  BY Typed DEF StreamStores, RestOK
<1>11. AccountedAt(call[c], f, n, unheard[c], idsSeen', m)
  BY <1>8, <1>9 DEF AccountedAt
<1>12. /\ Elsewhere(m, f, future[c]) /\ Elsewhere(m, n, copies[c])
       /\ Elsewhere(m, unheard[c], unheard[c])
  BY <1>1, <1>4 DEF Elsewhere
<1> QED BY <1>1, <1>2, <1>3, <1>4, <1>5, <1>10, <1>11, <1>12, StreamMoves

\* The answer to a publication that is not stored by it, or a lost one, or one that is heard.
LEMMA PublicationEnds ==
  ASSUME ReceiverInv, RestOK', NEW c \in Calls, NEW m \in Batch, NEW a \in Answers,
         future[c][m] # "none", UNCHANGED <<call, copies, idsSeen>>,
         future' = [future EXCEPT ![c] = [future[c] EXCEPT ![m] = a]],
         NEW u \in [Batch -> Nat], unheard' = [unheard EXCEPT ![c] = u],
         Elsewhere(m, u, unheard[c]),
         \/ u[m] = unheard[c][m] /\ (a \in {"stored", "ok"} <=> future[c][m] \in {"stored", "ok"})
         \/ u[m] = unheard[c][m] + 1 /\ a \notin {"stored", "ok"}
  PROVE  ReceiverInv'
<1> DEFINE f == [future[c] EXCEPT ![m] = a]
<1>1. f \in [Batch -> Answers] /\ f[m] = a /\ \A d \in Batch \ {m} : f[d] = future[c][d]
  BY FutureIs
<1>2. future' = [future EXCEPT ![c] = f]
  OBVIOUS
<1> HIDE DEF f
<1>3. copies[c] \in [Batch -> Nat] /\ unheard[c] \in [Batch -> Nat] /\ idsSeen \subseteq Ids
      /\ Accounted(call[c], future[c], copies[c], unheard[c], idsSeen)
  BY Typed DEF CallOK
<1>4. copies' = [copies EXCEPT ![c] = copies[c]]
  BY DEF ReceiverInv, ReceiverTypeOK
<1>5. /\ m \in OpenOf(call[c], future[c]) <=> future[c][m] \notin {"stored", "ok"}
      /\ m \in OpenOf(call[c], f) <=> a \notin {"stored", "ok"}
      /\ call[c].pc = "await"
  BY <1>1, UnderWay
<1>6. /\ m \in OpenOf(call[c], future[c]) \/ Kept(call[c], copies[c], idsSeen, m)
      /\ copies[c][m] <= unheard[c][m] + (IF m \in OpenOf(call[c], future[c]) THEN 0 ELSE 1)
  BY <1>3, <1>5 DEF Accounted
<1>7. m \in OpenOf(call[c], f) \/ Kept(call[c], copies[c], idsSeen, m)
  BY <1>5, <1>6
<1>8. copies[c][m] <= u[m] + (IF m \in OpenOf(call[c], f) THEN 0 ELSE 1)
  BY <1>3, <1>5, <1>6
<1>9. AccountedAt(call[c], f, copies[c], u, idsSeen', m)
  BY <1>7, <1>8 DEF AccountedAt
<1>10. Elsewhere(m, f, future[c]) /\ Elsewhere(m, copies[c], copies[c])
  BY <1>1 DEF Elsewhere
<1>11. idsSeen \subseteq idsSeen' /\ idsSeen' \subseteq Ids
  BY <1>3
<1> QED BY <1>1, <1>2, <1>3, <1>4, <1>9, <1>10, <1>11, StreamMoves

LEMMA AnswerSteps ==
  ASSUME ReceiverInv, NEW c \in Calls, NEW m \in Batch, AckIsHeard(c, m) \/ StreamRefuses(c, m)
  PROVE  ReceiverInv'
<1>1. /\ unheard[c] \in [Batch -> Nat] /\ UNCHANGED <<call, copies, idsSeen, unheard>>
      /\ unheard' = [unheard EXCEPT ![c] = unheard[c]] /\ Elsewhere(m, unheard[c], unheard[c])
  BY Typed DEF AckIsHeard, StreamRefuses, ReceiverInv, ReceiverTypeOK, Elsewhere
<1>2. callFaults' \in 0 .. MaxCallFaults
  <2>1. callFaults \in 0 .. MaxCallFaults
    BY Typed DEF RestOK
  <2>2. callFaults' = callFaults \/ CallFault
    BY DEF AckIsHeard, StreamRefuses
  <2> QED BY <2>1, <2>2, ReceiverAssumption DEF CallFault
<1>3. RestOK'
  BY <1>2, Typed DEF AckIsHeard, StreamRefuses, RestOK
<1>4. PICK a \in Answers :
        /\ future' = [future EXCEPT ![c] = [future[c] EXCEPT ![m] = a]] /\ future[c][m] # "none"
        /\ a \in {"stored", "ok"} <=> future[c][m] \in {"stored", "ok"}
  <2>1. CASE AckIsHeard(c, m)
    <3>1. future' = [future EXCEPT ![c] = [future[c] EXCEPT ![m] = "ok"]]
          /\ future[c][m] = "stored"
      BY <2>1 DEF AckIsHeard
    <3> QED BY <3>1 DEF Answers
  <2>2. CASE StreamRefuses(c, m)
    <3>1. future' = [future EXCEPT ![c] = [future[c] EXCEPT ![m] = "full"]]
          /\ future[c][m] = "sent"
      BY <2>2 DEF StreamRefuses
    <3> QED BY <3>1 DEF Answers
  <2> QED BY <2>1, <2>2
<1> QED BY <1>1, <1>3, <1>4, PublicationEnds

LEMMA PublicationFailsStep ==
  ASSUME ReceiverInv, NEW c \in Calls, NEW m \in Batch, PublicationFails(c, m)
  PROVE  ReceiverInv'
<1>1. /\ future[c][m] \in {"sent", "stored"} /\ UNCHANGED <<call, copies, idsSeen>>
      /\ future' = [future EXCEPT ![c] = [future[c] EXCEPT ![m] = "other"]]
      /\ "other" \in Answers
  BY DEF PublicationFails, Answers
<1>2. RestOK'
  <2>1. callFaults \in 0 .. MaxCallFaults
    BY Typed DEF RestOK
  <2>2. callFaults' = callFaults \/ CallFault
    BY DEF PublicationFails
  <2>3. callFaults' \in 0 .. MaxCallFaults
    BY <2>1, <2>2, ReceiverAssumption DEF CallFault
  <2> QED BY <2>3, Typed DEF PublicationFails, RestOK
<1>3. unheard[c] \in [Batch -> Nat]
  BY Typed
<1>4. CASE future[c][m] = "stored"
  <2> DEFINE u == [unheard[c] EXCEPT ![m] = unheard[c][m] + 1]
  <2>1. unheard' = [unheard EXCEPT ![c] = u]
    BY <1>4 DEF PublicationFails
  <2>2. u \in [Batch -> Nat] /\ u[m] = unheard[c][m] + 1 /\ Elsewhere(m, u, unheard[c])
    BY <1>3 DEF Elsewhere
  <2> HIDE DEF u
  <2>3. future[c][m] # "none" /\ "other" \notin {"stored", "ok"}
    BY <1>4
  <2> QED BY <1>1, <1>2, <2>1, <2>2, <2>3, PublicationEnds
<1>5. CASE future[c][m] = "sent"
  <2>1. unheard' = [unheard EXCEPT ![c] = unheard[c]]
    BY <1>5 DEF PublicationFails, ReceiverInv, ReceiverTypeOK
  <2>2. future[c][m] # "none" /\ future[c][m] \notin {"stored", "ok"}
        /\ "other" \notin {"stored", "ok"} /\ Elsewhere(m, unheard[c], unheard[c])
    BY <1>5 DEF Elsewhere
  <2> QED BY <1>1, <1>2, <1>3, <2>1, <2>2, PublicationEnds
<1> QED BY <1>1, <1>4, <1>5

\* What nobody waits for is counted among the unheard when it arrives.
LEMMA AdriftEndsStep ==
  ASSUME ReceiverInv, NEW c \in Calls, NEW m \in Batch, AdriftEnds(c, m) PROVE ReceiverInv'
<1>1. PICK p \in adrift[c][m] :
        /\ adrift' = [adrift EXCEPT ![c][m] = @ \ {p}]
        /\ \/ UNCHANGED <<copies, idsSeen, unheard>>
           \/ Arrives(c, m, p[2]) /\ unheard' = [unheard EXCEPT ![c][m] = @ + 1]
  BY DEF AdriftEnds
<1>2. /\ adrift \in [Calls -> [Batch -> SUBSET ((1 .. MaxAttempts) \X Ids)]]
      /\ p[2] \in Ids /\ UNCHANGED <<call, future>>
      /\ future[c] \in [Batch -> Answers] /\ copies[c] \in [Batch -> Nat]
      /\ unheard[c] \in [Batch -> Nat] /\ call[c] \in CallState /\ idsSeen \subseteq Ids
      /\ Accounted(call[c], future[c], copies[c], unheard[c], idsSeen)
  BY Typed DEF AdriftEnds, RestOK, CallOK
<1>3. RestOK'
  <2>1. adrift' \in [Calls -> [Batch -> SUBSET ((1 .. MaxAttempts) \X Ids)]]
    BY <1>1, <1>2
  <2>2. UNCHANGED <<config, cache, callFaults, leaves, cacheExpiries>>
    BY DEF AdriftEnds
  <2> QED BY <2>1, <2>2, Typed DEF RestOK
<1>4. future' = [future EXCEPT ![c] = future[c]]
  BY <1>2 DEF ReceiverInv, ReceiverTypeOK
<1>5. CASE UNCHANGED <<copies, idsSeen, unheard>>
  <2>1. call' = [call EXCEPT ![c] = call[c]]
    BY <1>2 DEF ReceiverInv, ReceiverTypeOK
  <2> QED BY <1>2, <1>3, <1>5, <2>1, Typed, CallMoves
<1>6. CASE Arrives(c, m, p[2]) /\ unheard' = [unheard EXCEPT ![c][m] = @ + 1]
  <2> DEFINE u == [unheard[c] EXCEPT ![m] = unheard[c][m] + 1]
  <2>1. unheard' = [unheard EXCEPT ![c] = u]
    BY <1>6
  <2>2. u \in [Batch -> Nat] /\ u[m] = unheard[c][m] + 1 /\ Elsewhere(m, u, unheard[c])
    BY <1>2 DEF Elsewhere
  <2> HIDE DEF u
  <2>3. PICK n \in [Batch -> Nat] :
          /\ copies' = [copies EXCEPT ![c] = n]
          /\ \A d \in Batch \ {m} : n[d] = copies[c][d]
          /\ n[m] \in {copies[c][m], copies[c][m] + 1}
    BY <1>2, <1>6, ArrivesOnce
  <2>4. idsSeen \subseteq idsSeen' /\ idsSeen' \subseteq Ids
    BY <1>2, <1>6, ArrivesOnce
  <2>5. copies[c][m] <= unheard[c][m] + (IF m \in OpenOf(call[c], future[c]) THEN 0 ELSE 1)
    BY <1>2 DEF Accounted
  <2>6. n[m] <= u[m] + (IF m \in OpenOf(call[c], future[c]) THEN 0 ELSE 1)
    BY <1>2, <2>2, <2>3, <2>5
  <2>7. call[c].pc # "done" \/ call[c].answer = "ok" =>
          m \in OpenOf(call[c], future[c]) \/ Kept(call[c], n, idsSeen', m)
    BY <1>2, <2>3, <2>4 DEF Accounted, Kept
  <2>8. AccountedAt(call[c], future[c], n, u, idsSeen', m)
    BY <2>6, <2>7 DEF AccountedAt
  <2>9. Elsewhere(m, n, copies[c]) /\ Elsewhere(m, future[c], future[c])
    BY <2>3 DEF Elsewhere
  <2> QED BY <1>2, <1>3, <1>4, <2>1, <2>2, <2>3, <2>4, <2>8, <2>9, StreamMoves
<1> QED BY <1>1, <1>5, <1>6

-----------------------------------------------------------------------------
(* The steps of the others *)

LEMMA NobodyMoves ==
  ASSUME ReceiverInv, RestOK', UNCHANGED <<call, future, copies, idsSeen, unheard>>
  PROVE  ReceiverInv'
BY DEF ReceiverInv, ReceiverTypeOK, RestOK

LEMMA OtherSteps ==
  ASSUME ReceiverInv, CacheExpires \/ ConfigChanges \/ UNCHANGED receiverVars PROVE ReceiverInv'
<1>1. CASE CacheExpires
  <2>1. cacheExpiries \in 0 .. MaxCacheExpiries /\ cache \in [version : Versions, fresh : BOOLEAN]
    BY Typed DEF RestOK
  <2>2. cacheExpiries' \in 0 .. MaxCacheExpiries
    BY <1>1, <2>1, ReceiverAssumption DEF CacheExpires
  <2>3. cache' \in [version : Versions, fresh : BOOLEAN]
    BY <1>1, <2>1 DEF CacheExpires
  <2>4. RestOK'
    BY <1>1, <2>2, <2>3, Typed DEF CacheExpires, RestOK
  <2> QED BY <1>1, <2>4, NobodyMoves DEF CacheExpires
<1>2. CASE ConfigChanges
  <2>1. config' \in Versions
    BY <1>2, Typed, ReceiverAssumption DEF ConfigChanges, RestOK, Versions, Gone
  <2>2. RestOK'
    BY <1>2, <2>1, Typed DEF ConfigChanges, RestOK
  <2> QED BY <1>2, <2>2, NobodyMoves DEF ConfigChanges
<1>3. CASE UNCHANGED receiverVars
  <2>1. RestOK'
    BY <1>3, Typed DEF receiverVars, RestOK
  <2> QED BY <1>3, <2>1, NobodyMoves DEF receiverVars
<1> QED BY <1>1, <1>2, <1>3

-----------------------------------------------------------------------------
(* The theorems *)

LEMMA ReceiverStarts == ReceiverInit => ReceiverInv
<1> SUFFICES ASSUME ReceiverInit PROVE ReceiverInv
  OBVIOUS
<1> DEFINE x == [pc |-> "idle", left |-> FALSE, attempt |-> 1, version |-> Gone, msgs |-> Batch,
                 ids |-> [m \in Batch |-> Empty], todo |-> {}, chunk |-> {}, failed |-> {},
                 cause |-> "none", failedAt |-> Gone, answer |-> "none"]
<1>1. Gone \in Versions /\ 1 \in Versions /\ 1 \in 1 .. MaxAttempts /\ Empty \in Ids
  BY ReceiverAssumption DEF Gone, Versions, Ids
<1>2. call = [c \in Calls |-> x]
  BY DEF ReceiverInit
<1>3. x \in CallState /\ x.pc = "idle" /\ x.failed = {} /\ x.chunk = {} /\ x.todo = {}
      /\ x.answer = "none" /\ x.msgs = Batch
  BY <1>1 DEF CallState
<1> HIDE DEF x
<1>4. ReceiverTypeOK
  <2>1. call \in [Calls -> CallState]
    BY <1>2, <1>3
  <2>2. cache \in [version : Versions, fresh : BOOLEAN] /\ config \in Versions
    BY <1>1 DEF ReceiverInit, NoEntry
  <2>3. /\ future \in [Calls -> [Batch -> {"none", "sent", "stored", "ok", "full", "other"}]]
        /\ adrift \in [Calls -> [Batch -> SUBSET ((1 .. MaxAttempts) \X Ids)]]
        /\ copies \in [Calls -> [Batch -> Nat]] /\ unheard \in [Calls -> [Batch -> Nat]]
        /\ idsSeen = {}
    BY DEF ReceiverInit
  <2>4. /\ callFaults \in 0 .. MaxCallFaults /\ leaves \in 0 .. MaxLeaves
        /\ cacheExpiries \in 0 .. MaxCacheExpiries
    BY ReceiverAssumption DEF ReceiverInit
  <2> QED BY <2>1, <2>2, <2>3, <2>4 DEF ReceiverTypeOK
<1>5. ASSUME NEW c \in Calls
      PROVE  CallOK(call[c], future[c], copies[c], unheard[c], idsSeen)
  <2>1. /\ call[c] = x /\ OpenOf(x, future[c]) = Batch
        /\ \A m \in Batch : /\ future[c][m] = "none" /\ copies[c][m] = 0 /\ unheard[c][m] = 0
    BY <1>2, <1>3 DEF ReceiverInit, OpenOf
  <2>2. Orderly(x, future[c])
    BY <1>3, <2>1 DEF Orderly
  <2>3. Accounted(x, future[c], copies[c], unheard[c], idsSeen)
    BY <2>1 DEF Accounted
  <2> QED BY <2>1, <2>2, <2>3 DEF CallOK
<1> QED BY <1>4, <1>5 DEF ReceiverInv

LEMMA ReceiverSteps == ReceiverInv /\ [ReceiverNext]_receiverVars => ReceiverInv'
<1> SUFFICES ASSUME ReceiverInv, [ReceiverNext]_receiverVars PROVE ReceiverInv'
  OBVIOUS
<1>1. ASSUME NEW c \in Calls, CallStep(c) PROVE ReceiverInv'
  BY <1>1, AcceptCallStep, LookupWriterStep, FetchStep, FetchFailsStep, StoreStep,
     SetHeadersStep, PublishChunkStep, CollectChunkStep, AbandonChunkStep, EndAttemptStep,
     ClientLeavesStep DEF CallStep
<1>2. ASSUME NEW c \in Calls, NEW m \in Batch, StreamStep(c, m) PROVE ReceiverInv'
  BY <1>2, StreamStoresStep, AnswerSteps, PublicationFailsStep, AdriftEndsStep DEF StreamStep
<1> QED BY <1>1, <1>2, OtherSteps DEF ReceiverNext

\* The inductive invariant of the calls: the messages a call has still to publish account for
\* what the stream does not hold (sendBatch, WriteBatch).
THEOREM ReceiverInvariant == ReceiverSpec => []ReceiverInv
BY ReceiverStarts, ReceiverSteps, PTL DEF ReceiverSpec

\* The variables keep their types: attempts stay within the limit of retry.Do, and the cache and
\* the calls hold versions of the configuration.
THEOREM ReceiverTypeCorrect == ReceiverSpec => []ReceiverTypeOK
<1>1. ReceiverInv => ReceiverTypeOK
  BY DEF ReceiverInv
<1> QED BY <1>1, ReceiverInvariant, PTL

\* A call that is answered with success has all its messages in the stream, and no message is
\* stored twice unless an answer about it was lost.
THEOREM AnswersAreTrue == ReceiverSpec => []AnsweredAsStored
<1>1. ReceiverInv => AnsweredAsStored
  <2> SUFFICES ASSUME ReceiverInv, NEW c \in Calls, NEW m \in Batch
               PROVE  /\ call[c].answer = "ok" => StoredOrSeen(c, m)
                      /\ copies[c][m] <= 1 + unheard[c][m]
    BY DEF AnsweredAsStored
  <2>1. /\ Orderly(call[c], future[c])
        /\ Accounted(call[c], future[c], copies[c], unheard[c], idsSeen)
        /\ copies[c][m] \in Nat /\ unheard[c][m] \in Nat
    BY Typed DEF CallOK
  <2>2. ASSUME call[c].answer = "ok" PROVE StoredOrSeen(c, m)
    <3>1. OpenOf(call[c], future[c]) = {}
      BY <2>1, <2>2 DEF Orderly, OpenOf
    <3> QED BY <2>1, <2>2, <3>1 DEF Accounted, Kept, StoredOrSeen
  <2>3. copies[c][m] <= unheard[c][m] + (IF m \in OpenOf(call[c], future[c]) THEN 0 ELSE 1)
    BY <2>1 DEF Accounted
  <2> QED BY <2>1, <2>2, <2>3
<1> QED BY <1>1, ReceiverInvariant, PTL
=============================================================================
