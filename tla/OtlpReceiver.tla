---------------------------- MODULE OtlpReceiver ----------------------------
(***************************************************************************)
(* Export calls to one pipeline in the OTLP receiver:                      *)
(* otlp-receiver/server/processor/processor.go over                        *)
(* batch/nats/nats_batch_writer.go.  A call flattens its request into      *)
(* messages, takes a slot, gets the writer of the pipeline out of a cache  *)
(* or from the API, publishes chunk by chunk and publishes again what the  *)
(* full stream refused.  The handlers of HTTP and gRPC pass its answer on. *)
(*                                                                         *)
(* Environment: the API with the configuration of the pipeline, which is   *)
(* edited and deleted; JetStream, which stores, drops as a duplicate or    *)
(* refuses a message and whose answer may be lost; the client, which may   *)
(* leave before it is answered.  Calls to other pipelines use the same     *)
(* slots and the same JetStream context.                                   *)
(*                                                                         *)
(* The messages of a call are sets: which of them go into a chunk, and      *)
(* which failure of a chunk comes first, is left open.                      *)
(***************************************************************************)
EXTENDS Integers, Sequences, FiniteSets

CONSTANTS
  Calls,
  BatchSize,      \* messages of a call
  ChunkSize,      \* messages published before their answers are awaited
  MaxConcurrent,  \* slots
  MaxAttempts,    \* 5 in the code
  Deduplicates,   \* by version of the configuration: is routing by the deduplication field?
  FieldValue,     \* by call and message: the value of that field
  Empty,          \* the field is missing
  MaxCallFaults,  \* bound: refusals, errors, answers lost
  MaxLeaves,      \* bound: clients that leave
  MaxCacheExpiries     \* bound: cache entries that expire

Gone == 0
Batch == 1 .. BatchSize

ASSUME ReceiverAssumption ==
  /\ BatchSize \in Nat /\ ChunkSize \in Nat \ {0}
  /\ MaxConcurrent \in Nat /\ MaxAttempts \in Nat \ {0}
  /\ Deduplicates \in Seq(BOOLEAN) /\ Deduplicates # <<>>
  /\ MaxCallFaults \in Nat /\ MaxLeaves \in Nat /\ MaxCacheExpiries \in Nat

VARIABLES
  config,      \* API: version of the configuration, or Gone
  cache,       \* natsWriterCache of the pipeline: version and whether it is still fresh
  call,        \* the goroutine of each call
  future,      \* the publication of each message under way
  adrift,      \* publications nobody waits for any more: attempt and message id
  copies,      \* stream: how often each message is stored
  idsSeen,     \* stream: message ids it has seen
  unheard,     \* answers of the stream that nobody got
  callFaults, leaves, cacheExpiries

receiverVars == <<config, cache, call, future, adrift, copies, idsSeen, unheard, callFaults, leaves,
                  cacheExpiries>>

NoEntry == [version |-> Gone, fresh |-> FALSE]

InProgress == {c \in Calls : call[c].pc \notin {"idle", "done"}}
At(c, pc) == call[c].pc = pc
CallFault == callFaults < MaxCallFaults /\ callFaults' = callFaults + 1

Answer(c, a) == [call[c] EXCEPT !.pc = "done", !.answer = a]

\* retry.Do: the next attempt, or the error of the last one.
TryAgain(c, a, msgs) ==
  IF call[c].attempt < MaxAttempts
    THEN [call[c] EXCEPT !.pc = "lookup", !.attempt = @ + 1, !.msgs = msgs,
                         !.failed = {}, !.cause = "none"]
    ELSE Answer(c, a)

ReceiverInit ==
  /\ config = 1 /\ cache = NoEntry
  /\ call = [c \in Calls |->
       [pc |-> "idle", left |-> FALSE, attempt |-> 1, version |-> Gone, msgs |-> Batch,
        ids |-> [m \in Batch |-> Empty], todo |-> {}, chunk |-> {}, failed |-> {},
        cause |-> "none", failedAt |-> Gone, answer |-> "none"]]
  /\ future = [c \in Calls |-> [m \in Batch |-> "none"]]
  /\ adrift = [c \in Calls |-> [m \in Batch |-> {}]]
  /\ copies = [c \in Calls |-> [m \in Batch |-> 0]] /\ unheard = copies /\ idsSeen = {}
  /\ callFaults = 0 /\ leaves = 0 /\ cacheExpiries = 0

-----------------------------------------------------------------------------
(* The writer of the pipeline *)

\* acquire does not wait.  Other pipelines' calls hold any number of the slots.
AcceptCall(c) ==
  /\ At(c, "idle")
  /\ \E others \in 0 .. MaxConcurrent - Cardinality(InProgress) :
       call' = [call EXCEPT ![c] = IF Cardinality(InProgress) + others < MaxConcurrent
                                   THEN [@ EXCEPT !.pc = "lookup"]
                                   ELSE Answer(c, "overloaded")]
  /\ UNCHANGED <<config, cache, future, adrift, copies, idsSeen, unheard, callFaults, leaves,
                 cacheExpiries>>

\* The cache is read under the read lock.
LookupWriter(c) ==
  /\ At(c, "lookup")
  /\ call' = [call EXCEPT ![c] = IF cache.fresh
                                 THEN [@ EXCEPT !.pc = "headers", !.version = cache.version]
                                 ELSE [@ EXCEPT !.pc = "fetch"]]
  /\ UNCHANGED <<config, cache, future, adrift, copies, idsSeen, unheard, callFaults, leaves,
                 cacheExpiries>>

\* GetOTLPConfig reads the pipeline; no pipeline is no reason to try again.
Fetch(c) ==
  /\ At(c, "fetch") /\ ~call[c].left
  /\ call' = [call EXCEPT ![c] = IF config = Gone
                                 THEN Answer(c, "notFound")
                                 ELSE [@ EXCEPT !.pc = "store", !.version = config]]
  /\ UNCHANGED <<config, cache, future, adrift, copies, idsSeen, unheard, callFaults, leaves,
                 cacheExpiries>>

\* The API is not reached, or the client has left; any other error is one.
FetchFails(c) ==
  /\ At(c, "fetch")
  /\ IF call[c].left THEN UNCHANGED callFaults ELSE CallFault
  /\ call' = [call EXCEPT ![c] = TryAgain(c, "error", call[c].msgs)]
  /\ UNCHANGED <<config, cache, future, adrift, copies, idsSeen, unheard, leaves, cacheExpiries>>

\* What was fetched is stored, unless another call has stored an entry by now.
Store(c) ==
  /\ At(c, "store")
  /\ IF cache.fresh
       THEN /\ call' = [call EXCEPT ![c].pc = "headers", ![c].version = cache.version]
            /\ UNCHANGED cache
       ELSE /\ cache' = [version |-> call[c].version, fresh |-> TRUE]
            /\ call' = [call EXCEPT ![c].pc = "headers"]
  /\ UNCHANGED <<config, future, adrift, copies, idsSeen, unheard, callFaults, leaves,
                 cacheExpiries>>

\* Message ids are set when the configuration deduplicates, and stay set if the next one does not.
SetHeaders(c) ==
  LET Field == FieldValue[c]
      sent == call[c].msgs IN
  /\ At(c, "headers")
  /\ call' = [call EXCEPT ![c] =
       IF ~Deduplicates[call[c].version]
         THEN [@ EXCEPT !.pc = "publish", !.todo = call[c].msgs]
       ELSE IF \E m \in sent : Field[m] = Empty THEN Answer(c, "error")
       ELSE [@ EXCEPT !.pc = "publish", !.todo = call[c].msgs,
                      !.ids = [m \in Batch |-> IF m \in sent THEN Field[m] ELSE call[c].ids[m]]]]
  /\ UNCHANGED <<config, cache, future, adrift, copies, idsSeen, unheard, callFaults, leaves,
                 cacheExpiries>>

-----------------------------------------------------------------------------
(* Writing *)

\* The next messages to publish: a chunk, or what is left.
Chunks(msgs) ==
  {C \in SUBSET msgs : Cardinality(C) = ChunkSize \/ (C = msgs /\ Cardinality(C) < ChunkSize)}

\* A chunk is published.  Some messages may fail at once, when the connection is closed or too
\* many publications are outstanding.
PublishChunk(c) ==
  /\ At(c, "publish") /\ call[c].todo # {}
  /\ \E chunk \in Chunks(call[c].todo), refused \in SUBSET call[c].todo :
       LET sent == chunk \ refused IN
       /\ refused \subseteq chunk
       /\ IF refused = {} THEN UNCHANGED callFaults ELSE CallFault
       /\ call' = [call EXCEPT
            ![c].todo = @ \ chunk, ![c].chunk = sent, ![c].failed = @ \cup refused,
            ![c].cause = IF @ = "none" /\ refused # {} THEN "other" ELSE @,
            ![c].pc = IF sent = {} THEN "publish" ELSE "await"]
       /\ future' = [future EXCEPT ![c] = [m \in Batch |-> IF m \in sent THEN "sent" ELSE @[m]]]
  /\ UNCHANGED <<config, cache, adrift, copies, idsSeen, unheard, leaves, cacheExpiries>>

Unanswered == {"sent", "stored"}
Failures(c) == {m \in call[c].chunk : future[c][m] # "ok"}

\* What an attempt fails with: its first failure, which is `early` when there is no answer yet.
FirstCause(c, early) ==
  IF Failures(c) = {} \/ call[c].cause # "none" THEN {call[c].cause}
  ELSE {IF future[c][m] \in Unanswered THEN early ELSE future[c][m] : m \in Failures(c)}

\* Mutant: only the failures of the last chunk are reported.
CollectedLastOnly(c, early) ==
  /\ \E cause \in FirstCause(c, early) :
       call' = [call EXCEPT ![c].failed = Failures(c), ![c].cause = cause, ![c].chunk = {},
                            ![c].pc = "publish"]
  /\ future' = [future EXCEPT ![c] = [m \in Batch |-> "none"]]

\* The failures of the chunk are reported beside those of the chunks before.
Collected(c, early) ==
  /\ \E cause \in FirstCause(c, early) :
       call' = [call EXCEPT ![c].failed = @ \cup Failures(c), ![c].cause = cause, ![c].chunk = {},
                            ![c].pc = "publish"]
  /\ future' = [future EXCEPT ![c] = [m \in Batch |-> "none"]]

\* PublishAsyncComplete.  It waits for the publications of all calls, those of other pipelines
\* included, so for the call's own and for some time after that.
CollectChunk(c) ==
  /\ At(c, "await") /\ \A m \in Batch : future[c][m] \notin Unanswered
  /\ Collected(c, "none")
  /\ UNCHANGED <<config, cache, adrift, copies, idsSeen, unheard, callFaults, leaves,
                 cacheExpiries>>

\* The client has left: what has no answer counts as failed, and may be stored all the same.
AbandonChunk(c) ==
  /\ At(c, "await") /\ call[c].left
  /\ Collected(c, "left")
  /\ adrift' = [adrift EXCEPT ![c] =
       [m \in Batch |-> IF future[c][m] = "sent"
                       THEN @[m] \cup {<<call[c].attempt, call[c].ids[m]>>} ELSE @[m]]]
  /\ unheard' = [unheard EXCEPT ![c] =
       [m \in Batch |-> IF future[c][m] = "stored" THEN @[m] + 1 ELSE @[m]]]
  /\ UNCHANGED <<config, cache, copies, idsSeen, callFaults, leaves, cacheExpiries>>

\* All chunks are written.  After a failure the cached writer is dropped and the failed messages
\* are what is left; the first of their errors decides whether they are tried again.
EndAttempt(c) ==
  /\ At(c, "publish") /\ call[c].todo = {}
  /\ IF call[c].failed = {}
       THEN call' = [call EXCEPT ![c] = Answer(c, "ok")] /\ UNCHANGED cache
       ELSE /\ cache' = NoEntry
            /\ LET next == IF call[c].cause = "full"
                           THEN TryAgain(c, "overloaded", call[c].failed)
                           ELSE Answer(c, "error") IN
               call' = [call EXCEPT ![c] = [next EXCEPT !.failedAt = config]]
  /\ UNCHANGED <<config, future, adrift, copies, idsSeen, unheard, callFaults, leaves,
                 cacheExpiries>>

-----------------------------------------------------------------------------
(* JetStream *)

\* A message whose id the stream has seen is acknowledged and not stored.
Arrives(c, m, id) ==
  IF id # Empty /\ id \in idsSeen
    THEN UNCHANGED <<copies, idsSeen>>
    ELSE /\ copies' = [copies EXCEPT ![c][m] = @ + 1]
         /\ idsSeen' = idsSeen \cup ({id} \ {Empty})

StreamStores(c, m) ==
  /\ future[c][m] = "sent"
  /\ Arrives(c, m, call[c].ids[m])
  /\ future' = [future EXCEPT ![c][m] = "stored"]
  /\ UNCHANGED <<config, cache, call, adrift, unheard, callFaults, leaves, cacheExpiries>>

AckIsHeard(c, m) ==
  /\ future[c][m] = "stored"
  /\ future' = [future EXCEPT ![c][m] = "ok"]
  /\ UNCHANGED <<config, cache, call, adrift, copies, idsSeen, unheard, callFaults, leaves,
                 cacheExpiries>>

\* The stream is full.
StreamRefuses(c, m) ==
  /\ future[c][m] = "sent" /\ CallFault
  /\ future' = [future EXCEPT ![c][m] = "full"]
  /\ UNCHANGED <<config, cache, call, adrift, copies, idsSeen, unheard, leaves, cacheExpiries>>

\* The connection is lost before or after the message was stored, or the stream is gone.
PublicationFails(c, m) ==
  /\ future[c][m] \in {"sent", "stored"}
  /\ IF config = Gone THEN UNCHANGED callFaults ELSE CallFault
  /\ unheard' = IF future[c][m] = "stored" THEN [unheard EXCEPT ![c][m] = @ + 1] ELSE unheard
  /\ future' = [future EXCEPT ![c][m] = "other"]
  /\ UNCHANGED <<config, cache, call, adrift, copies, idsSeen, leaves, cacheExpiries>>

\* A publication nobody waits for arrives or is lost.
AdriftEnds(c, m) ==
  /\ \E p \in adrift[c][m] :
       /\ adrift' = [adrift EXCEPT ![c][m] = @ \ {p}]
       /\ \/ UNCHANGED <<copies, idsSeen, unheard>>
          \/ Arrives(c, m, p[2]) /\ unheard' = [unheard EXCEPT ![c][m] = @ + 1]
  /\ UNCHANGED <<config, cache, call, future, callFaults, leaves, cacheExpiries>>

-----------------------------------------------------------------------------
(* Client and API *)

\* The context of the call ends: the client gives up or its deadline passes.
ClientLeaves(c) ==
  /\ c \in InProgress /\ ~call[c].left /\ leaves < MaxLeaves
  /\ leaves' = leaves + 1
  /\ call' = [call EXCEPT ![c].left = TRUE]
  /\ UNCHANGED <<config, cache, future, adrift, copies, idsSeen, unheard, callFaults,
                 cacheExpiries>>

\* natsWriterCacheTTL has passed.
CacheExpires ==
  /\ cache.fresh /\ cacheExpiries < MaxCacheExpiries
  /\ cacheExpiries' = cacheExpiries + 1
  /\ cache' = [cache EXCEPT !.fresh = FALSE]
  /\ UNCHANGED <<config, call, future, adrift, copies, idsSeen, unheard, callFaults, leaves>>

\* The pipeline is edited, or deleted.
ConfigChanges ==
  /\ config # Gone
  /\ config' \in ({config + 1} \cap DOMAIN Deduplicates) \cup {Gone}
  /\ UNCHANGED <<cache, call, future, adrift, copies, idsSeen, unheard, callFaults, leaves,
                 cacheExpiries>>

-----------------------------------------------------------------------------
CallStep(c) ==
  \/ AcceptCall(c) \/ LookupWriter(c) \/ Fetch(c) \/ FetchFails(c) \/ Store(c) \/ SetHeaders(c)
  \/ PublishChunk(c) \/ CollectChunk(c) \/ AbandonChunk(c) \/ EndAttempt(c)
  \/ ClientLeaves(c)

StreamStep(c, m) ==
  \/ StreamStores(c, m) \/ AckIsHeard(c, m) \/ StreamRefuses(c, m)
  \/ PublicationFails(c, m) \/ AdriftEnds(c, m)

ReceiverNext ==
  \/ \E c \in Calls : CallStep(c) \/ \E m \in Batch : StreamStep(c, m)
  \/ CacheExpires \/ ConfigChanges

ReceiverSpec == ReceiverInit /\ [][ReceiverNext]_receiverVars

-----------------------------------------------------------------------------
(* Properties *)

Ids == {FieldValue[c][m] : c \in Calls, m \in Batch} \cup {Empty}
Versions == Gone .. Len(Deduplicates)

CallState ==
  [pc : {"idle", "lookup", "fetch", "store", "headers", "publish", "await", "done"},
   left : BOOLEAN, attempt : 1 .. MaxAttempts, version : Versions, failedAt : Versions,
   msgs : SUBSET Batch, todo : SUBSET Batch, chunk : SUBSET Batch, failed : SUBSET Batch,
   ids : [Batch -> Ids], cause : {"none", "full", "other", "left"},
   answer : {"none", "ok", "overloaded", "notFound", "error"}]

\* The types of the variables.
ReceiverTypeOK ==
  /\ config \in Versions /\ cache \in [version : Versions, fresh : BOOLEAN]
  /\ call \in [Calls -> CallState]
  /\ future \in [Calls -> [Batch -> {"none", "sent", "stored", "ok", "full", "other"}]]
  /\ adrift \in [Calls -> [Batch -> SUBSET ((1 .. MaxAttempts) \X Ids)]]
  /\ copies \in [Calls -> [Batch -> Nat]] /\ unheard \in [Calls -> [Batch -> Nat]]
  /\ idsSeen \subseteq Ids
  /\ callFaults \in 0 .. MaxCallFaults /\ leaves \in 0 .. MaxLeaves
  /\ cacheExpiries \in 0 .. MaxCacheExpiries

\* A call answered with success has every message in the stream, or one with its id, and no message
\* is stored more often than answers about it were lost: what is published again is what failed
\* (sendBatch, WriteBatch).
StoredOrSeen(c, m) ==
  LET id == call[c].ids[m] IN copies[c][m] > 0 \/ (id # Empty /\ id \in idsSeen)

AnsweredAsStored ==
  \A c \in Calls : \A m \in Batch :
    /\ call[c].answer = "ok" => StoredOrSeen(c, m)
    /\ copies[c][m] <= 1 + unheard[c][m]

\* Refuted: after a failure the writer is made from a configuration read after it.  Another call
\* that fetched before stores the older one (getWriterConfig).
RetryUsesNewer ==
  \A c \in Calls :
    ~(/\ call[c].pc \in {"headers", "publish", "await"}
      /\ call[c].attempt > 1
      /\ call[c].version < call[c].failedAt)

\* Refuted: a call that is refused because of a full stream has stored nothing.  A client that
\* sends it again, as Retry-After asks, repeats what was stored.
RefusedIsNotStored ==
  \A c \in Calls : call[c].answer = "overloaded" => \A m \in Batch : copies[c][m] = 0

=============================================================================
