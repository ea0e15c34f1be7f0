--------------------------------- MODULE Join ---------------------------------
(***************************************************************************)
(* The temporal join of join/temporal.go in the component of               *)
(* component/join.go: two subscribers, each with one event at a time, whose *)
(* handlers take turns (handleMu) over two key-value buckets.               *)
(*                                                                         *)
(* A right event replaces the value of its key.  A left event is joined     *)
(* with that value; without one it is stored under a uuid of its own and    *)
(* the uuid is added to the list of the key.  Here the uuid of a left event *)
(* is its delivery, <<event, count>>: a handler makes a new one each time.  *)
(* Every call to NATS is a step, since the process may die or the call fail *)
(* at each of them; an event whose handler fails is left to its AckWait.    *)
(***************************************************************************)
EXTENDS Integers, FiniteSets

CONSTANTS
  Lefts, Rights,   \* events of the two input streams
  JoinKey,         \* the join key of each event
  JoinKeys,        \* the join keys
  NoRight,         \* no value in the right bucket
  MaxTries,        \* NatsConsumerMaxDeliver
  MaxExpired,      \* bound: entries that reach their TTL
  MaxFailures      \* bound: calls that fail, stops and crashes

Events == Lefts \cup Rights
Sides == {"left", "right"}
Of(side) == IF side = "left" THEN Lefts ELSE Rights
Uuids == Lefts \X (1 .. MaxTries)

ASSUME JoinAssumption ==
  /\ Lefts \cap Rights = {} /\ NoRight \notin Rights
  /\ JoinKey \in [Events -> JoinKeys]
  /\ MaxTries \in Nat /\ MaxExpired \in Nat /\ MaxFailures \in Nat

VARIABLES
  tries,       \* JetStream: deliveries of each event so far
  done,        \* JetStream: events acknowledged
  rightKV,     \* right bucket: the value of each key
  uuidList,    \* left bucket: the list of uuids of each key
  entry,       \* left bucket: the uuids that still have their event
  joined,      \* results stream: how often each left event was joined
  handler,     \* the event each subscriber is handling
  expired,     \* left events whose entry reached its TTL
  expiries,    \* entries of either bucket that did
  failures     \* failures spent

input == <<tries, done>>
buckets == <<rightKV, uuidList, entry>>
joinVars == <<input, buckets, joined, handler, expired, expiries, failures>>

None == [pc |-> "none"]
Busy(side) == handler[side] # None
Holding(side) == Busy(side) /\ handler[side].pc # "lock"     \* handleMu

Fail == failures < MaxFailures /\ failures' = failures + 1

Goto(side, pc) == handler' = [handler EXCEPT ![side].pc = pc]

-----------------------------------------------------------------------------
(* Subscribers *)

\* Subscribe: Next hands out an event that is not acknowledged; the handler waits for handleMu.
Receive(side, e) ==
  /\ ~Busy(side) /\ e \in Of(side) \ done /\ tries[e] < MaxTries
  /\ tries' = [tries EXCEPT ![e] = @ + 1]
  /\ handler' = [handler EXCEPT ![side] = [pc |-> "lock", e |-> e, todo |-> {}, sent |-> {}]]
  /\ UNCHANGED <<done, buckets, joined, expired, expiries, failures>>

\* Mutant: a mutex for each subscriber.
LockOwn(side) ==
  /\ Busy(side) /\ handler[side].pc = "lock"
  /\ Goto(side, IF side = "left" THEN "getRight" ELSE "putRight")
  /\ UNCHANGED <<input, buckets, joined, expired, expiries, failures>>

\* The handler gets handleMu.
Lock(side) ==
  /\ Busy(side) /\ \A s \in Sides : ~Holding(s)
  /\ Goto(side, IF side = "left" THEN "getRight" ELSE "putRight")
  /\ UNCHANGED <<input, buckets, joined, expired, expiries, failures>>

\* A call fails, after it took effect or before: the handler returns without an ack.
Return(side) == handler' = [handler EXCEPT ![side] = None]

HandlerFails(side) ==
  /\ Holding(side) /\ Fail /\ Return(side)
  /\ UNCHANGED <<input, buckets, joined, expired, expiries>>

AckEvent(side) ==
  /\ Busy(side) /\ handler[side].pc = "ack"
  /\ done' = done \cup {handler[side].e}
  /\ Return(side)
  /\ UNCHANGED <<tries, buckets, joined, expired, expiries, failures>>

\* The process stops or dies.
ProcessStops ==
  /\ Fail /\ handler' = [side \in Sides |-> None]
  /\ UNCHANGED <<input, buckets, joined, expired, expiries>>

-----------------------------------------------------------------------------
(* Left events: HandleLeftStreamEvents *)

Left(pc) == handler["left"].pc = pc
LeftKey == JoinKey[handler["left"].e]
LeftUuid == <<handler["left"].e, tries[handler["left"].e]>>

\* The value of the key decides.
GetRight ==
  /\ Left("getRight")
  /\ Goto("left", IF rightKV[LeftKey] # NoRight THEN "publish" ELSE "getList")
  /\ UNCHANGED <<input, buckets, joined, expired, expiries, failures>>

PublishLeft ==
  /\ Left("publish")
  /\ joined' = [joined EXCEPT ![handler["left"].e] = @ + 1]
  /\ Goto("left", "ack")
  /\ UNCHANGED <<input, buckets, expired, expiries, failures>>

\* storeToLeftStreamBuffer: read the list, store the event, write the list.
GetList ==
  /\ Left("getList")
  /\ handler' = [handler EXCEPT !["left"].pc = "putEntry", !["left"].todo = uuidList[LeftKey]]
  /\ UNCHANGED <<input, buckets, joined, expired, expiries, failures>>

PutEntry ==
  /\ Left("putEntry")
  /\ entry' = entry \cup {LeftUuid}
  /\ Goto("left", "putList")
  /\ UNCHANGED <<input, rightKV, uuidList, joined, expired, expiries, failures>>

PutList ==
  /\ Left("putList")
  /\ uuidList' = [uuidList EXCEPT ![LeftKey] = handler["left"].todo \cup {LeftUuid}]
  /\ Goto("left", "ack")
  /\ UNCHANGED <<input, rightKV, entry, joined, expired, expiries, failures>>

-----------------------------------------------------------------------------
(* Right events: HandleRightStreamEvents *)

Right(pc) == handler["right"].pc = pc
RightKey == JoinKey[handler["right"].e]

PutRight ==
  /\ Right("putRight")
  /\ rightKV' = [rightKV EXCEPT ![RightKey] = handler["right"].e]
  /\ Goto("right", "getList")
  /\ UNCHANGED <<input, uuidList, entry, joined, expired, expiries, failures>>

\* getFromleftStreamBuffer: the list, then each of its events in turn.
GetUuids ==
  /\ Right("getList")
  /\ handler' = [handler EXCEPT !["right"].pc = "each", !["right"].todo = uuidList[RightKey]]
  /\ UNCHANGED <<input, buckets, joined, expired, expiries, failures>>

\* One that has expired is passed over.
SkipExpired(u) ==
  /\ Right("each") /\ u \in handler["right"].todo \ entry
  /\ handler' = [handler EXCEPT !["right"].todo = @ \ {u}]
  /\ UNCHANGED <<input, buckets, joined, expired, expiries, failures>>

PublishJoined(u) ==
  /\ Right("each") /\ u \in handler["right"].todo \cap entry
  /\ joined' = [joined EXCEPT ![u[1]] = @ + 1]
  /\ handler' = [handler EXCEPT !["right"].pc = "delete", !["right"].todo = @ \ {u},
                                !["right"].sent = {u}]
  /\ UNCHANGED <<input, buckets, expired, expiries, failures>>

\* Mutant: the entries are left to the deletion of the list.
KeepEntry ==
  /\ Right("delete")
  /\ handler' = [handler EXCEPT !["right"].pc = "each", !["right"].sent = {}]
  /\ UNCHANGED <<input, buckets, joined, expired, expiries, failures>>

DeleteEntry ==
  /\ Right("delete")
  /\ entry' = entry \ handler["right"].sent
  /\ handler' = [handler EXCEPT !["right"].pc = "each", !["right"].sent = {}]
  /\ UNCHANGED <<input, rightKV, uuidList, joined, expired, expiries, failures>>

\* The list goes last; that its deletion failed is only logged.
DeleteList ==
  /\ Right("each") /\ handler["right"].todo = {}
  /\ \/ uuidList' = [uuidList EXCEPT ![RightKey] = {}] /\ UNCHANGED failures
     \/ UNCHANGED uuidList /\ Fail
  /\ Goto("right", "ack")
  /\ UNCHANGED <<input, rightKV, entry, joined, expired, expiries>>

-----------------------------------------------------------------------------
(* Time to live *)

Expire == expiries < MaxExpired /\ expiries' = expiries + 1

EntryExpires(u) ==
  /\ u \in entry /\ Expire
  /\ entry' = entry \ {u} /\ expired' = expired \cup {u[1]}
  /\ UNCHANGED <<input, rightKV, uuidList, joined, handler, failures>>

RightExpires(k) ==
  /\ rightKV[k] # NoRight /\ Expire
  /\ rightKV' = [rightKV EXCEPT ![k] = NoRight]
  /\ UNCHANGED <<input, uuidList, entry, joined, handler, expired, failures>>

-----------------------------------------------------------------------------
JoinInit ==
  /\ tries = [e \in Events |-> 0] /\ done = {}
  /\ rightKV = [k \in JoinKeys |-> NoRight] /\ uuidList = [k \in JoinKeys |-> {}] /\ entry = {}
  /\ joined = [l \in Lefts |-> 0]
  /\ handler = [side \in Sides |-> None]
  /\ expired = {} /\ expiries = 0 /\ failures = 0

HandleLeft == GetRight \/ PublishLeft \/ GetList \/ PutEntry \/ PutList

HandleRight ==
  \/ PutRight \/ GetUuids \/ DeleteEntry \/ DeleteList
  \/ \E u \in Uuids : SkipExpired(u) \/ PublishJoined(u)

JoinNext ==
  \/ \E side \in Sides :
       \/ \E e \in Of(side) : Receive(side, e)
       \/ Lock(side) \/ HandlerFails(side) \/ AckEvent(side)
  \/ HandleLeft \/ HandleRight
  \/ ProcessStops
  \/ \E u \in Uuids : EntryExpires(u)
  \/ \E k \in JoinKeys : RightExpires(k)

JoinSpec == JoinInit /\ [][JoinNext]_joinVars

-----------------------------------------------------------------------------
(* Properties *)

Pcs == {"lock", "getRight", "publish", "getList", "putEntry", "putList", "putRight", "each",
        "delete", "ack"}

Handling == [pc : Pcs, e : Events, todo : SUBSET Uuids, sent : SUBSET Uuids]

\* The types of the variables; one handler at a time holds handleMu.
JoinTypeOK ==
  /\ tries \in [Events -> 0 .. MaxTries] /\ done \subseteq Events
  /\ rightKV \in [JoinKeys -> Rights \cup {NoRight}]
  /\ uuidList \in [JoinKeys -> SUBSET Uuids] /\ entry \subseteq Uuids
  /\ joined \in [Lefts -> Nat]
  /\ handler \in [Sides -> Handling \cup {None}]
  /\ \A side \in Sides : Busy(side) =>
       handler[side].e \in Of(side) \ done /\ tries[handler[side].e] > 0
  /\ ~(Holding("left") /\ Holding("right"))
  /\ expired \subseteq Lefts /\ expiries \in 0 .. MaxExpired /\ failures \in 0 .. MaxFailures

\* A left event waits under its key.
Waiting(l) == \E u \in entry \cap uuidList[JoinKey[l]] : u[1] = l

\* Some right event of the key has come and is not acknowledged: it comes again, or it was
\* delivered too often and the next one of the key joins what it left.
RightPending(k) == \E r \in Rights \ done : tries[r] > 0 /\ JoinKey[r] = k

\* An acknowledged left event was joined, or outlived its window, or waits for a right event
\* that is still to come: none passes it by (storeToLeftStreamBuffer, getFromleftStreamBuffer
\* under handleMu).
LeftIsKept ==
  \A l \in Lefts \cap done :
    \/ joined[l] > 0 \/ l \in expired
    \/ Waiting(l) /\ (rightKV[JoinKey[l]] = NoRight \/ RightPending(JoinKey[l]))

\* The outputs beyond the first of each left event, up to one more than the failures.
Repeated == {r \in Lefts \X (2 .. MaxFailures + 2) : r[2] <= joined[r[1]]}

\* Whatever a failure interrupts, at any call of either handler, the retries repeat one output
\* at most: joined events leave the buffer one by one (getFromleftStreamBuffer).
FailureRepeatsOne == Cardinality(Repeated) <= failures

\* The right value kept is the newest one handled (events are numbered in the order of their
\* stream): refuted, a failed right event is put again after later ones.
NewestRightIsKept ==
  \A r \in Rights \cap done : rightKV[JoinKey[r]] # NoRight => r <= rightKV[JoinKey[r]]

=============================================================================
