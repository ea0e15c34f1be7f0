------------------------------ MODULE JoinProofs ------------------------------
(***************************************************************************)
(* Proofs about the join, for every number of events, keys, deliveries,     *)
(* failures and entries that expire: no right event passes by a left event  *)
(* that waits, and a failure makes the join repeat one output at most.      *)
(***************************************************************************)
EXTENDS Join, FiniteSetTheorems, TLAPS

\* What the left handler knows of the two buckets while it holds handleMu.
LeftOK ==
  LET h == handler["left"] IN
  Busy("left") =>
    /\ h.pc \in {"getList", "putEntry", "putList"} => rightKV[LeftKey] = NoRight
    /\ h.pc \in {"putEntry", "putList"} => h.todo = uuidList[LeftKey]
    /\ h.pc = "putList" => LeftUuid \in entry \/ h.e \in expired
    /\ h.pc = "ack" =>
         \/ joined[h.e] > 0 \/ h.e \in expired
         \/ LeftUuid \in entry \cap uuidList[LeftKey] /\ rightKV[LeftKey] = NoRight

\* What the right handler has passed it has joined.
RightOK ==
  LET h == handler["right"] IN
  Busy("right") =>
    /\ h.pc \in {"each", "delete", "ack"} =>
         \A u \in entry \cap uuidList[RightKey] :
           joined[u[1]] > 0 \/ (h.pc # "ack" /\ u \in h.todo)
    /\ h.pc = "delete" => \A u \in h.sent : joined[u[1]] > 0

JoinInv == JoinTypeOK /\ LeftOK /\ RightOK /\ LeftIsKept

-----------------------------------------------------------------------------
(* Types *)

\* JoinTypeOK but for the input streams and the handlers.
RestOK ==
  /\ rightKV \in [JoinKeys -> Rights \cup {NoRight}]
  /\ uuidList \in [JoinKeys -> SUBSET Uuids] /\ entry \subseteq Uuids
  /\ joined \in [Lefts -> Nat]
  /\ expired \subseteq Lefts /\ expiries \in 0 .. MaxExpired /\ failures \in 0 .. MaxFailures

LEMMA RestTyped == JoinTypeOK => RestOK
BY DEF JoinTypeOK, RestOK

LEMMA HandlingIsBusy == ASSUME NEW x \in Handling PROVE x # None
BY DEF Handling, None, Pcs

\* The event of a busy handler.
LEMMA Handled ==
  ASSUME JoinTypeOK, NEW side \in Sides, Busy(side)
  PROVE  /\ handler[side] \in Handling
         /\ handler[side].e \in Of(side) \ done /\ handler[side].e \in Events
         /\ tries[handler[side].e] \in 1 .. MaxTries
         /\ JoinKey[handler[side].e] \in JoinKeys
<1>1. handler[side] \in Handling /\ handler[side].e \in Of(side) \ done
  BY DEF JoinTypeOK, Busy
<1>2. handler[side].e \in Events
  BY <1>1 DEF Of, Events
<1> QED BY <1>1, <1>2, JoinAssumption DEF JoinTypeOK

LEMMA LeftHandled ==
  ASSUME JoinTypeOK, Busy("left")
  PROVE  /\ handler["left"] \in Handling
         /\ handler["left"].e \in Lefts \ done
         /\ LeftKey \in JoinKeys /\ LeftUuid \in Uuids
<1>1. "left" \in Sides
  BY DEF Sides
<1> QED BY <1>1, Handled DEF Of, LeftKey, LeftUuid, Uuids

LEMMA RightHandled ==
  ASSUME JoinTypeOK, Busy("right")
  PROVE  /\ handler["right"] \in Handling
         /\ handler["right"].e \in Rights \ done
         /\ tries[handler["right"].e] > 0
         /\ RightKey \in JoinKeys
<1>1. "right" \in Sides /\ Of("right") = Rights
  BY DEF Sides, Of
<1>2. tries[handler["right"].e] \in 1 .. MaxTries
  BY <1>1, Handled
<1> QED BY <1>1, <1>2, Handled, JoinAssumption DEF RightKey

\* A handler that holds handleMu, or gets it, goes on with its event.
LEMMA MoveType ==
  ASSUME JoinTypeOK, NEW side \in Sides, Busy(side), NEW x \in Handling,
         x.e = handler[side].e, handler' = [handler EXCEPT ![side] = x],
         Holding(side) \/ \A s \in Sides : ~Holding(s),
         RestOK', UNCHANGED input
  PROVE  /\ JoinTypeOK' /\ handler'[side] = x
         /\ \A s \in Sides \ {side} : handler'[s] = handler[s] /\ ~Holding(s) /\ ~Holding(s)'
<1>1. handler' \in [Sides -> Handling \cup {None}]
  BY DEF JoinTypeOK
<1>2. handler'[side] = x /\ \A s \in Sides \ {side} : handler'[s] = handler[s]
  BY DEF JoinTypeOK
<1>3. \A s \in Sides \ {side} : ~Holding(s) /\ ~Holding(s)'
  <2> SUFFICES ASSUME NEW s \in Sides \ {side} PROVE ~Holding(s) /\ ~Holding(s)'
    OBVIOUS
  <2>1. ~Holding(s)
    BY DEF JoinTypeOK, Sides
  <2> QED BY <1>2, <2>1 DEF Holding, Busy
<1>4. \A s \in Sides : Busy(s)' =>
        handler'[s].e \in Of(s) \ done' /\ tries'[handler'[s].e] > 0
  <2> SUFFICES ASSUME NEW s \in Sides, Busy(s)'
               PROVE  handler'[s].e \in Of(s) \ done' /\ tries'[handler'[s].e] > 0
    OBVIOUS
  <2>1. Busy(s) /\ handler'[s].e = handler[s].e
    BY <1>2 DEF Busy
  <2> QED BY <2>1 DEF JoinTypeOK, input
<1>5. ~(Holding("left")' /\ Holding("right")')
  BY <1>3 DEF Sides
<1>6. JoinTypeOK'
  BY <1>1, <1>4, <1>5 DEF JoinTypeOK, RestOK, input
<1> QED BY <1>2, <1>3, <1>6

\* A handler returns: its event is acknowledged or it is not.
LEMMA ReturnType ==
  ASSUME JoinTypeOK, NEW side \in Sides, Return(side), RestOK', tries' = tries,
         done' = done \/ (Busy(side) /\ done' = done \cup {handler[side].e})
  PROVE  /\ JoinTypeOK' /\ handler'[side] = None
         /\ \A s \in Sides \ {side} : handler'[s] = handler[s]
<1>1. handler' \in [Sides -> Handling \cup {None}]
  BY DEF JoinTypeOK, Return
<1>2. handler'[side] = None /\ \A s \in Sides \ {side} : handler'[s] = handler[s]
  BY DEF JoinTypeOK, Return
<1>3. done' \subseteq Events
  BY Handled DEF JoinTypeOK
<1>4. \A s \in Sides : Busy(s)' =>
        handler'[s].e \in Of(s) \ done' /\ tries'[handler'[s].e] > 0
  <2> SUFFICES ASSUME NEW s \in Sides, Busy(s)'
               PROVE  handler'[s].e \in Of(s) \ done' /\ tries'[handler'[s].e] > 0
    OBVIOUS
  <2>1. s # side /\ Busy(s) /\ handler'[s] = handler[s]
    BY <1>2 DEF Busy
  <2>2. handler[s].e \in Of(s) \ done /\ tries[handler[s].e] > 0
    BY <2>1 DEF JoinTypeOK
  <2>3. Busy(side) => handler[side].e \in Of(side)
    BY Handled
  <2>4. Of(s) \cap Of(side) = {}
    BY <2>1, JoinAssumption DEF Of, Sides
  <2> QED BY <2>1, <2>2, <2>3, <2>4
<1>5. ~(Holding("left")' /\ Holding("right")')
  BY <1>2 DEF Holding, Busy, JoinTypeOK, Sides
<1>6. JoinTypeOK'
  BY <1>1, <1>3, <1>4, <1>5 DEF JoinTypeOK, RestOK
<1> QED BY <1>2, <1>6

-----------------------------------------------------------------------------
(* Left events are kept *)

\* What a step has to leave of a left event that waits.
LEMMA KeptStep ==
  ASSUME LeftIsKept, JoinTypeOK, done' = done,
         \A r \in Rights : tries[r] > 0 => tries'[r] > 0,
         \A l \in Lefts : joined[l] > 0 => joined'[l] > 0, expired \subseteq expired',
         \A l \in Lefts \cap done : \A u \in entry \cap uuidList[JoinKey[l]] :
           u[1] = l => \/ u \in entry' \cap uuidList'[JoinKey[l]]
                       \/ joined'[l] > 0 \/ l \in expired',
         \A k \in JoinKeys : \/ rightKV'[k] \in {rightKV[k], NoRight}
                             \/ \E r \in Rights \ done : tries'[r] > 0 /\ JoinKey[r] = k
  PROVE  LeftIsKept'
<1> SUFFICES ASSUME NEW l \in Lefts \cap done, ~(joined'[l] > 0), l \notin expired'
             PROVE  Waiting(l)' /\ (rightKV'[JoinKey[l]] = NoRight \/ RightPending(JoinKey[l])')
  BY DEF LeftIsKept
<1>1. JoinKey[l] \in JoinKeys
  BY JoinAssumption DEF Events
<1>2. Waiting(l) /\ (rightKV[JoinKey[l]] = NoRight \/ RightPending(JoinKey[l]))
  BY DEF LeftIsKept
<1>3. Waiting(l)'
  BY <1>2 DEF Waiting
<1>4. RightPending(JoinKey[l]) => RightPending(JoinKey[l])'
  BY DEF RightPending
<1> QED BY <1>1, <1>2, <1>3, <1>4 DEF RightPending

\* A step that leaves the buckets and the outputs alone.
LEMMA KeptAlone ==
  ASSUME LeftIsKept, JoinTypeOK, UNCHANGED <<done, buckets, joined, expired>>,
         \A r \in Rights : tries[r] > 0 => tries'[r] > 0
  PROVE  LeftIsKept'
BY KeptStep DEF buckets

-----------------------------------------------------------------------------
(* The steps of the subscribers *)

LEMMA ReceiveStep ==
  ASSUME JoinInv, NEW side \in Sides, NEW e \in Of(side), Receive(side, e) PROVE JoinInv'
<1> DEFINE x == [pc |-> "lock", e |-> e, todo |-> {}, sent |-> {}]
<1>1. JoinTypeOK /\ e \in Events \ done /\ tries[e] \in 0 .. MaxTries /\ tries[e] < MaxTries
  BY DEF JoinInv, JoinTypeOK, Receive, Of, Events, Sides
<1>2. tries' = [tries EXCEPT ![e] = tries[e] + 1] /\ tries[e] + 1 \in 0 .. MaxTries
  BY <1>1, JoinAssumption DEF Receive
<1>3. x \in Handling
  BY <1>1 DEF Handling, Pcs
<1>4. handler' = [handler EXCEPT ![side] = x]
  BY DEF Receive
<1>5. handler' \in [Sides -> Handling \cup {None}]
  BY <1>1, <1>3, <1>4 DEF JoinTypeOK
<1>6. handler'[side] = x /\ \A s \in Sides \ {side} : handler'[s] = handler[s]
  BY <1>1, <1>4 DEF JoinTypeOK
<1>7. tries' \in [Events -> 0 .. MaxTries] /\ tries'[e] > 0
      /\ \A d \in Events \ {e} : tries'[d] = tries[d]
  BY <1>1, <1>2 DEF JoinTypeOK
<1>8. \A d \in Events : tries[d] > 0 => tries'[d] > 0
  BY <1>7
<1>9. \A s \in Sides : Busy(s)' =>
        handler'[s].e \in Of(s) \ done' /\ tries'[handler'[s].e] > 0
  <2> SUFFICES ASSUME NEW s \in Sides, Busy(s)'
               PROVE  handler'[s].e \in Of(s) \ done' /\ tries'[handler'[s].e] > 0
    OBVIOUS
  <2>1. CASE s = side
    BY <2>1, <1>1, <1>6, <1>7 DEF Receive
  <2>2. CASE s # side
    <3>1. Busy(s) /\ handler'[s] = handler[s]
      BY <2>2, <1>6 DEF Busy
    <3> QED BY <3>1, <1>1, <1>8, Handled DEF JoinTypeOK, Receive
  <2> QED BY <2>1, <2>2
<1>10. ~(Holding("left")' /\ Holding("right")')
  BY <1>6 DEF Holding, Busy, Sides
<1>11. RestOK'
  BY <1>1, RestTyped DEF Receive, RestOK, buckets
<1>12. JoinTypeOK'
  BY <1>1, <1>5, <1>7, <1>9, <1>10, <1>11 DEF JoinTypeOK, RestOK, Receive
<1>13. LeftIsKept'
  BY <1>1, <1>8, KeptAlone DEF Receive, JoinInv, Events
<1>14. LeftOK'
  <2>1. CASE side = "left"
    BY <2>1, <1>6 DEF LeftOK
  <2>2. CASE side # "left"
    <3>1. side = "right" /\ handler'["left"] = handler["left"]
      BY <2>2, <1>6 DEF Sides
    <3>2. Busy("left") => tries'[handler["left"].e] = tries[handler["left"].e]
      <4> SUFFICES ASSUME Busy("left") PROVE handler["left"].e \in Events \ {e}
        BY <1>7
      <4> QED BY <1>1, <3>1, LeftHandled, JoinAssumption DEF Of, Events
    <3> QED BY <3>1, <3>2 DEF LeftOK, JoinInv, Busy, LeftKey, LeftUuid, Receive, buckets
  <2> QED BY <2>1, <2>2
<1>15. RightOK'
  <2>1. CASE side = "right"
    BY <2>1, <1>6 DEF RightOK
  <2>2. CASE side # "right"
    <3>1. handler'["right"] = handler["right"]
      BY <2>2, <1>6 DEF Sides
    <3> QED BY <3>1 DEF RightOK, JoinInv, Busy, RightKey, Receive, buckets
  <2> QED BY <2>1, <2>2
<1> QED BY <1>12, <1>13, <1>14, <1>15 DEF JoinInv

LEMMA LockStep == ASSUME JoinInv, NEW side \in Sides, Lock(side) PROVE JoinInv'
<1> DEFINE x == [handler[side] EXCEPT !.pc = IF side = "left" THEN "getRight" ELSE "putRight"]
<1>1. JoinTypeOK /\ Busy(side)
  BY DEF JoinInv, Lock
<1>2. x \in Handling /\ x.e = handler[side].e
  BY <1>1, Handled DEF Handling, Pcs
<1>3. handler' = [handler EXCEPT ![side] = x]
  BY <1>1 DEF Lock, Goto, JoinTypeOK
<1>4. RestOK'
  BY <1>1, RestTyped DEF Lock, RestOK, buckets
<1>5. /\ JoinTypeOK' /\ handler'[side] = x
      /\ \A s \in Sides \ {side} : handler'[s] = handler[s] /\ ~Holding(s)'
  BY <1>1, <1>2, <1>3, <1>4, MoveType DEF Lock
<1>6. x.pc = IF side = "left" THEN "getRight" ELSE "putRight"
  BY <1>1, Handled DEF Handling
<1>7. LeftIsKept'
  BY <1>1, KeptAlone DEF Lock, JoinInv, input
<1> HIDE DEF x
<1>8. LeftOK' /\ RightOK'
  <2>1. CASE side = "left"
    <3>1. ~Holding("right")' /\ handler'["left"].pc = "getRight"
      BY <1>5, <1>6, <2>1 DEF Sides
    <3> QED BY <3>1 DEF LeftOK, RightOK, Holding
  <2>2. CASE side = "right"
    <3>1. ~Holding("left")' /\ handler'["right"].pc = "putRight"
      BY <1>5, <1>6, <2>2 DEF Sides
    <3> QED BY <3>1 DEF LeftOK, RightOK, Holding
  <2> QED BY <2>1, <2>2 DEF Sides
<1> QED BY <1>5, <1>7, <1>8 DEF JoinInv

\* The handlers that went, and nothing else.
LEMMA GoneStep ==
  ASSUME JoinInv, JoinTypeOK', UNCHANGED <<input, buckets, joined, expired>>,
         \A s \in Sides : handler'[s] \in {handler[s], None}
  PROVE  JoinInv'
<1>1. LeftIsKept'
  BY KeptAlone DEF JoinInv, input
<1>2. LeftOK'
  BY DEF LeftOK, JoinInv, Busy, LeftKey, LeftUuid, buckets, input, Sides
<1>3. RightOK'
  BY DEF RightOK, JoinInv, Busy, RightKey, buckets, Sides
<1> QED BY <1>1, <1>2, <1>3 DEF JoinInv

LEMMA HandlerFailsStep == ASSUME JoinInv, NEW side \in Sides, HandlerFails(side) PROVE JoinInv'
<1>1. RestOK'
  BY JoinAssumption DEF HandlerFails, Fail, JoinInv, JoinTypeOK, RestOK, buckets
<1>2. JoinTypeOK' /\ \A s \in Sides : handler'[s] \in {handler[s], None}
  BY <1>1, ReturnType DEF HandlerFails, JoinInv, input
<1> QED BY <1>2, GoneStep DEF HandlerFails

LEMMA ProcessStopsStep == ASSUME JoinInv, ProcessStops PROVE JoinInv'
<1>1. \A s \in Sides : handler'[s] = None
  BY DEF ProcessStops
<1>2. RestOK'
  BY JoinAssumption DEF ProcessStops, Fail, JoinInv, JoinTypeOK, RestOK, buckets
<1>3. handler' \in [Sides -> Handling \cup {None}] /\ \A s \in Sides : ~Busy(s)'
  BY <1>1 DEF ProcessStops, Busy
<1>4. ~Holding("left")'
  BY <1>3 DEF Holding, Sides
<1>5. JoinTypeOK'
  BY <1>2, <1>3, <1>4 DEF ProcessStops, JoinInv, JoinTypeOK, RestOK, input
<1> QED BY <1>1, <1>5, GoneStep DEF ProcessStops

\* A left event that is acknowledged was joined or waits; a right one has joined all that wait.
LEMMA AckEventStep == ASSUME JoinInv, NEW side \in Sides, AckEvent(side) PROVE JoinInv'
<1>1. JoinTypeOK /\ Busy(side) /\ handler[side].pc = "ack"
  BY DEF JoinInv, AckEvent
<1>2. RestOK'
  BY <1>1, RestTyped DEF AckEvent, RestOK, buckets
<1>3. JoinTypeOK' /\ \A s \in Sides : handler'[s] \in {handler[s], None}
  BY <1>1, <1>2, ReturnType DEF AckEvent
<1>4. LeftOK'
  BY <1>3 DEF LeftOK, JoinInv, Busy, LeftKey, LeftUuid, buckets, AckEvent, Sides
<1>5. RightOK'
  BY <1>3 DEF RightOK, JoinInv, Busy, RightKey, buckets, AckEvent, Sides
<1>6. LeftIsKept'
  <2> SUFFICES ASSUME NEW l \in Lefts, l \in done', ~(joined[l] > 0), l \notin expired
               PROVE  /\ Waiting(l)
                      /\ rightKV[JoinKey[l]] = NoRight \/ RightPending(JoinKey[l])'
    BY DEF LeftIsKept, AckEvent, Waiting, buckets
  <2>1. CASE side = "left"
    <3>1. handler["left"].e \in Lefts /\ done' = done \cup {handler["left"].e}
      BY <1>1, <2>1, LeftHandled DEF AckEvent
    <3>2. RightPending(JoinKey[l]) => RightPending(JoinKey[l])'
      BY <3>1, JoinAssumption DEF RightPending, AckEvent
    <3>3. CASE l \in done
      BY <3>2, <3>3 DEF JoinInv, LeftIsKept
    <3>4. CASE l = handler["left"].e
      <4>1. LeftUuid \in entry \cap uuidList[LeftKey] /\ rightKV[LeftKey] = NoRight
        BY <1>1, <2>1, <3>4 DEF JoinInv, LeftOK
      <4>2. LeftUuid[1] = l /\ LeftKey = JoinKey[l]
        BY <3>4 DEF LeftUuid, LeftKey
      <4> QED BY <4>1, <4>2 DEF Waiting
    <3> QED BY <3>1, <3>3, <3>4
  <2>2. CASE side = "right"
    <3>1. handler["right"].e \in Rights /\ done' = done \cup {handler["right"].e}
      BY <1>1, <2>2, RightHandled DEF AckEvent
    <3>2. l \in done
      BY <3>1, JoinAssumption
    <3>3. Waiting(l) /\ (rightKV[JoinKey[l]] = NoRight \/ RightPending(JoinKey[l]))
      BY <3>2 DEF JoinInv, LeftIsKept
    <3>4. JoinKey[l] # RightKey
      <4>1. PICK u \in entry \cap uuidList[JoinKey[l]] : u[1] = l
        BY <3>3 DEF Waiting
      <4> QED BY <4>1, <1>1, <2>2 DEF JoinInv, RightOK
    <3>5. RightPending(JoinKey[l]) => RightPending(JoinKey[l])'
      BY <3>1, <3>4 DEF RightPending, AckEvent, RightKey
    <3> QED BY <3>3, <3>5
  <2> QED BY <2>1, <2>2 DEF Sides
<1> QED BY <1>3, <1>4, <1>5, <1>6 DEF JoinInv

-----------------------------------------------------------------------------
(* The steps of the left handler *)

\* A step of the left handler, which holds handleMu: the right one knows nothing yet.
LEMMA LeftMoves ==
  ASSUME JoinInv, Busy("left"), handler["left"].pc # "lock", NEW x \in Handling,
         x.e = handler["left"].e, handler' = [handler EXCEPT !["left"] = x],
         RestOK', UNCHANGED input
  PROVE  JoinTypeOK' /\ handler'["left"] = x /\ RightOK'
<1>1. "left" \in Sides /\ "right" \in Sides \ {"left"} /\ Holding("left")
  BY DEF Sides, Holding
<1>2. JoinTypeOK' /\ handler'["left"] = x /\ ~Holding("right")'
  BY <1>1, MoveType DEF JoinInv
<1>3. RightOK'
  BY <1>2 DEF RightOK, Holding
<1> QED BY <1>2, <1>3

LEMMA LeftStands ==
  ASSUME JoinInv, NEW pc \in Pcs, pc # "lock", Left(pc)
  PROVE  /\ JoinTypeOK /\ RestOK /\ Busy("left") /\ handler["left"].pc # "lock"
         /\ handler["left"] \in Handling /\ handler["left"].e \in Lefts \ done
         /\ LeftKey \in JoinKeys /\ LeftUuid \in Uuids
<1>1. Busy("left")
  BY DEF Left, Busy, None, Pcs
<1> QED BY <1>1, LeftHandled, RestTyped DEF JoinInv, Left

LEMMA GetRightStep == ASSUME JoinInv, GetRight PROVE JoinInv'
<1> DEFINE x == [handler["left"] EXCEPT !.pc = IF rightKV[LeftKey] # NoRight
                                                THEN "publish" ELSE "getList"]
<1>1. /\ JoinTypeOK /\ RestOK /\ Busy("left") /\ handler["left"].pc # "lock"
      /\ handler["left"] \in Handling
  BY LeftStands DEF GetRight, Pcs
<1>2. /\ x \in Handling /\ x.e = handler["left"].e
      /\ x.pc = IF rightKV[LeftKey] # NoRight THEN "publish" ELSE "getList"
  BY <1>1 DEF Handling, Pcs
<1>3. handler' = [handler EXCEPT !["left"] = x] /\ RestOK'
  BY <1>1 DEF GetRight, Goto, JoinTypeOK, RestOK, buckets
<1> HIDE DEF x
<1>4. JoinTypeOK' /\ handler'["left"] = x /\ RightOK'
  BY <1>1, <1>2, <1>3, LeftMoves DEF GetRight
<1>5. LeftOK'
  BY <1>2, <1>4 DEF LeftOK, GetRight, LeftKey, buckets
<1>6. LeftIsKept'
  BY <1>1, KeptAlone DEF GetRight, JoinInv, input
<1> QED BY <1>4, <1>5, <1>6 DEF JoinInv

LEMMA PublishLeftStep == ASSUME JoinInv, PublishLeft PROVE JoinInv'
<1> DEFINE x == [handler["left"] EXCEPT !.pc = "ack"]
           l == handler["left"].e
<1>1. /\ JoinTypeOK /\ RestOK /\ Busy("left") /\ handler["left"].pc # "lock"
      /\ handler["left"] \in Handling /\ l \in Lefts
  BY LeftStands DEF PublishLeft, Pcs
<1>2. x \in Handling /\ x.e = l /\ x.pc = "ack"
  BY <1>1 DEF Handling, Pcs
<1>3. handler' = [handler EXCEPT !["left"] = x]
  BY <1>1 DEF PublishLeft, Goto, JoinTypeOK
<1>4. /\ joined' \in [Lefts -> Nat]
      /\ \A n \in Lefts : joined'[n] = IF n = l THEN joined[l] + 1 ELSE joined[n]
  BY <1>1 DEF PublishLeft, RestOK
<1>5. RestOK' /\ joined'[l] > 0 /\ \A n \in Lefts : joined[n] > 0 => joined'[n] > 0
  BY <1>1, <1>4 DEF PublishLeft, RestOK, buckets
<1> HIDE DEF x
<1>6. JoinTypeOK' /\ handler'["left"] = x /\ RightOK'
  BY <1>1, <1>2, <1>3, <1>5, LeftMoves DEF PublishLeft
<1>7. LeftOK'
  BY <1>2, <1>5, <1>6 DEF LeftOK
<1>8. LeftIsKept'
  BY <1>1, <1>5, KeptStep DEF PublishLeft, JoinInv, input, buckets
<1> QED BY <1>6, <1>7, <1>8 DEF JoinInv

LEMMA GetListStep == ASSUME JoinInv, GetList PROVE JoinInv'
<1> DEFINE x == [handler["left"] EXCEPT !.pc = "putEntry", !.todo = uuidList[LeftKey]]
<1>1. /\ JoinTypeOK /\ RestOK /\ Busy("left") /\ handler["left"].pc # "lock"
      /\ handler["left"] \in Handling /\ LeftKey \in JoinKeys
  BY LeftStands DEF GetList, Pcs
<1>2. uuidList[LeftKey] \in SUBSET Uuids
  BY <1>1 DEF RestOK
<1>3. x \in Handling /\ x.e = handler["left"].e /\ x.pc = "putEntry" /\ x.todo = uuidList[LeftKey]
  BY <1>1, <1>2 DEF Handling, Pcs
<1>4. handler' = [handler EXCEPT !["left"] = x] /\ RestOK'
  BY <1>1 DEF GetList, JoinTypeOK, RestOK, buckets, Handling
<1> HIDE DEF x
<1>5. JoinTypeOK' /\ handler'["left"] = x /\ RightOK'
  BY <1>1, <1>3, <1>4, LeftMoves DEF GetList
<1>6. rightKV[LeftKey] = NoRight
  BY <1>1 DEF JoinInv, LeftOK, GetList, Left
<1>7. LeftOK'
  BY <1>3, <1>5, <1>6 DEF LeftOK, GetList, LeftKey, buckets
<1>8. LeftIsKept'
  BY <1>1, KeptAlone DEF GetList, JoinInv, input
<1> QED BY <1>5, <1>7, <1>8 DEF JoinInv

LEMMA PutEntryStep == ASSUME JoinInv, PutEntry PROVE JoinInv'
<1> DEFINE x == [handler["left"] EXCEPT !.pc = "putList"]
<1>1. /\ JoinTypeOK /\ RestOK /\ Busy("left") /\ handler["left"].pc # "lock"
      /\ handler["left"] \in Handling /\ LeftUuid \in Uuids
  BY LeftStands DEF PutEntry, Pcs
<1>2. /\ x \in Handling /\ x.e = handler["left"].e /\ x.pc = "putList"
      /\ x.todo = handler["left"].todo
  BY <1>1 DEF Handling, Pcs
<1>3. handler' = [handler EXCEPT !["left"] = x] /\ RestOK' /\ entry \subseteq entry'
  BY <1>1 DEF PutEntry, Goto, JoinTypeOK, RestOK
<1> HIDE DEF x
<1>4. JoinTypeOK' /\ handler'["left"] = x /\ RightOK'
  BY <1>1, <1>2, <1>3, LeftMoves DEF PutEntry
<1>5. rightKV[LeftKey] = NoRight /\ x.todo = uuidList[LeftKey]
  BY <1>1, <1>2 DEF JoinInv, LeftOK, PutEntry, Left
<1>6. LeftKey' = LeftKey /\ LeftUuid' = LeftUuid /\ LeftUuid \in entry'
  BY <1>2, <1>4 DEF LeftKey, LeftUuid, PutEntry, input
<1>7. LeftOK'
  BY <1>2, <1>4, <1>5, <1>6 DEF LeftOK, PutEntry
<1>8. LeftIsKept'
  BY <1>1, <1>3, KeptStep DEF PutEntry, JoinInv, input
<1> QED BY <1>4, <1>7, <1>8 DEF JoinInv

LEMMA PutListStep == ASSUME JoinInv, PutList PROVE JoinInv'
<1> DEFINE x == [handler["left"] EXCEPT !.pc = "ack"]
           list == uuidList[LeftKey] \cup {LeftUuid}
<1>1. /\ JoinTypeOK /\ RestOK /\ Busy("left") /\ handler["left"].pc # "lock"
      /\ handler["left"] \in Handling /\ LeftUuid \in Uuids /\ LeftKey \in JoinKeys
  BY LeftStands DEF PutList, Pcs
<1>2. x \in Handling /\ x.e = handler["left"].e /\ x.pc = "ack"
  BY <1>1 DEF Handling, Pcs
<1>3. /\ rightKV[LeftKey] = NoRight /\ handler["left"].todo = uuidList[LeftKey]
      /\ LeftUuid \in entry \/ x.e \in expired
  BY <1>1, <1>2 DEF JoinInv, LeftOK, PutList, Left
<1>4. uuidList' = [uuidList EXCEPT ![LeftKey] = list] /\ list \in SUBSET Uuids
  BY <1>1, <1>3 DEF PutList, RestOK
<1>5. /\ uuidList' \in [JoinKeys -> SUBSET Uuids]
      /\ \A k \in JoinKeys : uuidList[k] \subseteq uuidList'[k]
  BY <1>1, <1>4 DEF RestOK
<1>6. handler' = [handler EXCEPT !["left"] = x] /\ RestOK' /\ LeftUuid \in uuidList'[LeftKey]
  BY <1>1, <1>4, <1>5 DEF PutList, Goto, JoinTypeOK, RestOK
<1> HIDE DEF x, list
<1>7. JoinTypeOK' /\ handler'["left"] = x /\ RightOK'
  BY <1>1, <1>2, <1>6, LeftMoves DEF PutList
<1>8. LeftKey' = LeftKey /\ LeftUuid' = LeftUuid
  BY <1>2, <1>7 DEF LeftKey, LeftUuid, PutList, input
<1>9. LeftOK'
  BY <1>2, <1>3, <1>6, <1>7, <1>8 DEF LeftOK, PutList
<1>10. \A l \in Lefts : uuidList[JoinKey[l]] \subseteq uuidList'[JoinKey[l]]
  BY <1>5, JoinAssumption DEF Events
<1>11. LeftIsKept'
  BY <1>1, <1>10, KeptStep DEF PutList, JoinInv, input
<1> QED BY <1>7, <1>9, <1>11 DEF JoinInv

-----------------------------------------------------------------------------
(* The steps of the right handler *)

LEMMA RightMoves ==
  ASSUME JoinInv, Busy("right"), handler["right"].pc # "lock", NEW x \in Handling,
         x.e = handler["right"].e, handler' = [handler EXCEPT !["right"] = x],
         RestOK', UNCHANGED input
  PROVE  JoinTypeOK' /\ handler'["right"] = x /\ LeftOK' /\ RightKey' = RightKey
<1>1. "right" \in Sides /\ "left" \in Sides \ {"right"} /\ Holding("right")
  BY DEF Sides, Holding
<1>2. JoinTypeOK' /\ handler'["right"] = x /\ ~Holding("left")'
  BY <1>1, MoveType DEF JoinInv
<1>3. LeftOK'
  BY <1>2 DEF LeftOK, Holding
<1> QED BY <1>2, <1>3 DEF RightKey

LEMMA RightStands ==
  ASSUME JoinInv, NEW pc \in Pcs, pc # "lock", Right(pc)
  PROVE  /\ JoinTypeOK /\ RestOK /\ Busy("right") /\ handler["right"].pc # "lock"
         /\ handler["right"] \in Handling /\ handler["right"].e \in Rights \ done
         /\ tries[handler["right"].e] > 0 /\ RightKey \in JoinKeys
<1>1. Busy("right")
  BY DEF Right, Busy, None, Pcs
<1> QED BY <1>1, RightHandled, RestTyped DEF JoinInv, Right

LEMMA PutRightStep == ASSUME JoinInv, PutRight PROVE JoinInv'
<1> DEFINE x == [handler["right"] EXCEPT !.pc = "getList"]
           r == handler["right"].e
<1>1. /\ JoinTypeOK /\ RestOK /\ Busy("right") /\ handler["right"].pc # "lock"
      /\ handler["right"] \in Handling /\ r \in Rights \ done
      /\ tries[r] > 0 /\ RightKey \in JoinKeys
  BY RightStands DEF PutRight, Pcs
<1>2. x \in Handling /\ x.e = r /\ x.pc = "getList"
  BY <1>1 DEF Handling, Pcs
<1>3. handler' = [handler EXCEPT !["right"] = x] /\ RestOK'
  BY <1>1 DEF PutRight, Goto, JoinTypeOK, RestOK
<1>4. \A k \in JoinKeys : rightKV'[k] = rightKV[k] \/ (k = JoinKey[r] /\ tries'[r] > 0)
  BY <1>1 DEF PutRight, RestOK, RightKey, input
<1> HIDE DEF x
<1>5. JoinTypeOK' /\ handler'["right"] = x /\ LeftOK'
  BY <1>1, <1>2, <1>3, RightMoves DEF PutRight
<1>6. RightOK'
  BY <1>2, <1>5 DEF RightOK
<1>7. LeftIsKept'
  BY <1>1, <1>4, KeptStep DEF PutRight, JoinInv, input
<1> QED BY <1>5, <1>6, <1>7 DEF JoinInv

LEMMA GetUuidsStep == ASSUME JoinInv, GetUuids PROVE JoinInv'
<1> DEFINE x == [handler["right"] EXCEPT !.pc = "each", !.todo = uuidList[RightKey]]
<1>1. /\ JoinTypeOK /\ RestOK /\ Busy("right") /\ handler["right"].pc # "lock"
      /\ handler["right"] \in Handling /\ RightKey \in JoinKeys
  BY RightStands DEF GetUuids, Pcs
<1>2. uuidList[RightKey] \in SUBSET Uuids
  BY <1>1 DEF RestOK
<1>3. x \in Handling /\ x.e = handler["right"].e /\ x.pc = "each" /\ x.todo = uuidList[RightKey]
  BY <1>1, <1>2 DEF Handling, Pcs
<1>4. handler' = [handler EXCEPT !["right"] = x] /\ RestOK'
  BY <1>1 DEF GetUuids, JoinTypeOK, RestOK, buckets, Handling
<1> HIDE DEF x
<1>5. JoinTypeOK' /\ handler'["right"] = x /\ LeftOK' /\ RightKey' = RightKey
  BY <1>1, <1>3, <1>4, RightMoves DEF GetUuids
<1>6. RightOK'
  BY <1>3, <1>5 DEF RightOK, GetUuids, buckets
<1>7. LeftIsKept'
  BY <1>1, KeptAlone DEF GetUuids, JoinInv, input
<1> QED BY <1>5, <1>6, <1>7 DEF JoinInv

LEMMA SkipExpiredStep == ASSUME JoinInv, NEW u \in Uuids, SkipExpired(u) PROVE JoinInv'
<1> DEFINE x == [handler["right"] EXCEPT !.todo = @ \ {u}]
<1>1. /\ JoinTypeOK /\ RestOK /\ Busy("right") /\ handler["right"].pc # "lock"
      /\ handler["right"] \in Handling
  BY RightStands DEF SkipExpired, Pcs
<1>2. /\ x \in Handling /\ x.e = handler["right"].e /\ x.pc = "each"
      /\ x.todo = handler["right"].todo \ {u} /\ u \notin entry
  BY <1>1 DEF Handling, SkipExpired, Right
<1>3. handler' = [handler EXCEPT !["right"] = x] /\ RestOK'
  BY <1>1 DEF SkipExpired, JoinTypeOK, RestOK, buckets
<1> HIDE DEF x
<1>4. JoinTypeOK' /\ handler'["right"] = x /\ LeftOK' /\ RightKey' = RightKey
  BY <1>1, <1>2, <1>3, RightMoves DEF SkipExpired
<1>5. \A v \in entry \cap uuidList[RightKey] :
        joined[v[1]] > 0 \/ v \in handler["right"].todo
  BY <1>1 DEF JoinInv, RightOK, SkipExpired, Right
<1>6. RightOK'
  BY <1>2, <1>4, <1>5 DEF RightOK, SkipExpired, buckets
<1>7. LeftIsKept'
  BY <1>1, KeptAlone DEF SkipExpired, JoinInv, input
<1> QED BY <1>4, <1>6, <1>7 DEF JoinInv

LEMMA PublishJoinedStep == ASSUME JoinInv, NEW u \in Uuids, PublishJoined(u) PROVE JoinInv'
<1> DEFINE x == [handler["right"] EXCEPT !.pc = "delete", !.todo = @ \ {u}, !.sent = {u}]
<1>1. /\ JoinTypeOK /\ RestOK /\ Busy("right") /\ handler["right"].pc # "lock"
      /\ handler["right"] \in Handling /\ u[1] \in Lefts
  BY RightStands DEF PublishJoined, Pcs, Uuids
<1>2. /\ x \in Handling /\ x.e = handler["right"].e /\ x.pc = "delete"
      /\ x.todo = handler["right"].todo \ {u} /\ x.sent = {u}
  BY <1>1 DEF Handling, Pcs
<1>3. handler' = [handler EXCEPT !["right"] = x]
  BY <1>1 DEF PublishJoined, JoinTypeOK, Handling
<1>4. /\ joined' \in [Lefts -> Nat]
      /\ \A n \in Lefts : joined'[n] = IF n = u[1] THEN joined[n] + 1 ELSE joined[n]
  BY <1>1 DEF PublishJoined, RestOK
<1>5. RestOK' /\ joined'[u[1]] > 0 /\ \A n \in Lefts : joined[n] > 0 => joined'[n] > 0
  BY <1>1, <1>4 DEF PublishJoined, RestOK, buckets
<1> HIDE DEF x
<1>6. JoinTypeOK' /\ handler'["right"] = x /\ LeftOK' /\ RightKey' = RightKey
  BY <1>1, <1>2, <1>3, <1>5, RightMoves DEF PublishJoined
<1>7. \A v \in entry \cap uuidList[RightKey] :
        v[1] \in Lefts /\ (joined[v[1]] > 0 \/ v \in handler["right"].todo)
  BY <1>1 DEF JoinInv, RightOK, PublishJoined, Right, RestOK, Uuids
<1>8. RightOK'
  BY <1>2, <1>5, <1>6, <1>7 DEF RightOK, PublishJoined, buckets
<1>9. LeftIsKept'
  BY <1>1, <1>5, KeptStep DEF PublishJoined, JoinInv, input, buckets
<1> QED BY <1>6, <1>8, <1>9 DEF JoinInv

LEMMA DeleteEntryStep == ASSUME JoinInv, DeleteEntry PROVE JoinInv'
<1> DEFINE x == [handler["right"] EXCEPT !.pc = "each", !.sent = {}]
           sent == handler["right"].sent
<1>1. /\ JoinTypeOK /\ RestOK /\ Busy("right") /\ handler["right"].pc # "lock"
      /\ handler["right"] \in Handling
  BY RightStands DEF DeleteEntry, Pcs
<1>2. /\ x \in Handling /\ x.e = handler["right"].e /\ x.pc = "each"
      /\ x.todo = handler["right"].todo
  BY <1>1 DEF Handling, Pcs
<1>3. handler' = [handler EXCEPT !["right"] = x] /\ RestOK' /\ entry' = entry \ sent
  BY <1>1 DEF DeleteEntry, JoinTypeOK, RestOK, Handling
<1>4. /\ \A u \in sent : joined[u[1]] > 0
      /\ \A v \in entry \cap uuidList[RightKey] :
           joined[v[1]] > 0 \/ v \in handler["right"].todo
  BY <1>1 DEF JoinInv, RightOK, DeleteEntry, Right
<1> HIDE DEF x
<1>5. JoinTypeOK' /\ handler'["right"] = x /\ LeftOK' /\ RightKey' = RightKey
  BY <1>1, <1>2, <1>3, RightMoves DEF DeleteEntry
<1>6. RightOK'
  BY <1>2, <1>3, <1>4, <1>5 DEF RightOK, DeleteEntry
<1>7. LeftIsKept'
  BY <1>1, <1>3, <1>4, KeptStep DEF DeleteEntry, JoinInv, input
<1> QED BY <1>5, <1>6, <1>7 DEF JoinInv

LEMMA DeleteListStep == ASSUME JoinInv, DeleteList PROVE JoinInv'
<1> DEFINE x == [handler["right"] EXCEPT !.pc = "ack"]
<1>1. /\ JoinTypeOK /\ RestOK /\ Busy("right") /\ handler["right"].pc # "lock"
      /\ handler["right"] \in Handling /\ RightKey \in JoinKeys
  BY RightStands DEF DeleteList, Pcs
<1>2. x \in Handling /\ x.e = handler["right"].e /\ x.pc = "ack"
  BY <1>1 DEF Handling, Pcs
<1>3. /\ uuidList' \in [JoinKeys -> SUBSET Uuids]
      /\ \A k \in JoinKeys : uuidList'[k] = uuidList[k] \/ (k = RightKey /\ uuidList'[k] = {})
  BY <1>1 DEF DeleteList, RestOK
<1>4. handler' = [handler EXCEPT !["right"] = x] /\ RestOK'
  BY <1>1, <1>3, JoinAssumption DEF DeleteList, Goto, JoinTypeOK, RestOK, Fail
<1>5. \A v \in entry \cap uuidList[RightKey] : joined[v[1]] > 0
  BY <1>1 DEF JoinInv, RightOK, DeleteList, Right
<1> HIDE DEF x
<1>6. JoinTypeOK' /\ handler'["right"] = x /\ LeftOK' /\ RightKey' = RightKey
  BY <1>1, <1>2, <1>4, RightMoves DEF DeleteList
<1>7. RightOK'
  BY <1>1, <1>2, <1>3, <1>5, <1>6 DEF RightOK, DeleteList
<1>8. \A l \in Lefts : JoinKey[l] \in JoinKeys
  BY JoinAssumption DEF Events
<1>9. LeftIsKept'
  BY <1>1, <1>3, <1>5, <1>8, KeptStep DEF DeleteList, JoinInv, input
<1> QED BY <1>6, <1>7, <1>9 DEF JoinInv

-----------------------------------------------------------------------------
(* Time to live *)

LEMMA EntryExpiresStep == ASSUME JoinInv, NEW u \in Uuids, EntryExpires(u) PROVE JoinInv'
<1>1. JoinTypeOK'
  BY JoinAssumption DEF JoinInv, JoinTypeOK, EntryExpires, Expire, input, Uuids, Busy, Holding
<1>2. entry' = entry \ {u} /\ expired' = expired \cup {u[1]}
  BY DEF EntryExpires
<1>3. LeftOK'
  <2>1. UNCHANGED <<handler, tries, rightKV, uuidList, joined>>
    BY DEF EntryExpires, input
  <2>2. LeftUuid[1] = handler["left"].e
    BY DEF LeftUuid
  <2> QED BY <1>2, <2>1, <2>2 DEF JoinInv, LeftOK, Busy, LeftKey, LeftUuid
<1>4. RightOK'
  BY <1>2 DEF JoinInv, RightOK, EntryExpires, Busy, RightKey
<1>5. LeftIsKept'
  BY <1>2, KeptStep DEF JoinInv, EntryExpires, input
<1> QED BY <1>1, <1>3, <1>4, <1>5 DEF JoinInv

LEMMA RightExpiresStep == ASSUME JoinInv, NEW k \in JoinKeys, RightExpires(k) PROVE JoinInv'
<1>1. JoinTypeOK'
  BY JoinAssumption DEF JoinInv, JoinTypeOK, RightExpires, Expire, input, Busy, Holding
<1>2. \A j \in JoinKeys : rightKV'[j] \in {rightKV[j], NoRight}
  BY DEF RightExpires, JoinInv, JoinTypeOK
<1>3. LeftOK'
  <2>1. Busy("left") => LeftKey \in JoinKeys
    BY LeftHandled DEF JoinInv
  <2> QED BY <1>2, <2>1 DEF JoinInv, LeftOK, RightExpires, Busy, LeftKey, LeftUuid, input
<1>4. RightOK'
  BY DEF JoinInv, RightOK, RightExpires, Busy, RightKey
<1>5. LeftIsKept'
  BY <1>2, KeptStep DEF JoinInv, RightExpires, input
<1> QED BY <1>1, <1>3, <1>4, <1>5 DEF JoinInv

-----------------------------------------------------------------------------
(* The theorems *)

LEMMA InitJoin == JoinInit => JoinInv
BY JoinAssumption
   DEF JoinInit, JoinInv, JoinTypeOK, LeftOK, RightOK, LeftIsKept, Busy, Holding, Sides

LEMMA NextJoin == JoinInv /\ [JoinNext]_joinVars => JoinInv'
<1> SUFFICES ASSUME JoinInv, [JoinNext]_joinVars PROVE JoinInv'
  OBVIOUS
<1>1. CASE UNCHANGED joinVars
  <2>1. JoinTypeOK'
    BY <1>1 DEF JoinInv, JoinTypeOK, joinVars, input, buckets, Busy, Holding
  <2> QED BY <1>1, <2>1, GoneStep DEF joinVars
<1>2. CASE HandleLeft
  BY <1>2, GetRightStep, PublishLeftStep, GetListStep, PutEntryStep, PutListStep DEF HandleLeft
<1>3. CASE HandleRight
  BY <1>3, PutRightStep, GetUuidsStep, SkipExpiredStep, PublishJoinedStep, DeleteEntryStep,
     DeleteListStep DEF HandleRight
<1> QED BY <1>1, <1>2, <1>3, ReceiveStep, LockStep, HandlerFailsStep, AckEventStep,
           ProcessStopsStep, EntryExpiresStep, RightExpiresStep DEF JoinNext

\* The inductive invariant: what each handler knows of the buckets while it holds handleMu.
THEOREM JoinInvariant == JoinSpec => []JoinInv
BY InitJoin, NextJoin, PTL DEF JoinSpec

\* Every reachable state is well typed, and one handler at a time holds handleMu.
THEOREM JoinTypeCorrect == JoinSpec => []JoinTypeOK
<1>1. JoinInv => JoinTypeOK
  BY DEF JoinInv
<1> QED BY <1>1, JoinInvariant, PTL

\* No right event passes by a left event that was acknowledged unjoined: it waits until a right
\* event of its key comes, or its window is over (storeToLeftStreamBuffer and
\* getFromleftStreamBuffer under handleMu).
THEOREM LeftEventsAreKept == JoinSpec => []LeftIsKept
<1>1. JoinInv => LeftIsKept
  BY DEF JoinInv
<1> QED BY <1>1, JoinInvariant, PTL

-----------------------------------------------------------------------------
(* Counting outputs *)

\* Sets of pairs whose first components are left events: n more than there are left events.
LeftsOf(T) == {t[1] : t \in T}
Excess(T, n) == IsFiniteSet(T) /\ Cardinality(T) <= Cardinality(LeftsOf(T)) + n

LEMMA LeftsAreFewer ==
  ASSUME NEW T, IsFiniteSet(T)
  PROVE  /\ IsFiniteSet(LeftsOf(T)) /\ Cardinality(LeftsOf(T)) <= Cardinality(T)
         /\ Cardinality(T) \in Nat /\ Cardinality(LeftsOf(T)) \in Nat
<1> DEFINE f == [t \in T |-> t[1]]
<1>1. f \in Surjection(T, LeftsOf(T))
  BY DEF Surjection, LeftsOf
<1> QED BY <1>1, FS_Surjection, FS_CardinalityType

LEMMA ExcessSub ==
  ASSUME NEW T, NEW n \in Nat, Excess(T, n), NEW U \in SUBSET T PROVE Excess(U, n)
<1>1. IsFiniteSet(T) /\ IsFiniteSet(U) /\ IsFiniteSet(T \ U) /\ T \cap U = U
  BY FS_Subset, FS_Difference DEF Excess
<1>2. Cardinality(T \ U) = Cardinality(T) - Cardinality(U)
  BY <1>1, FS_Difference
<1>3. LeftsOf(T) = LeftsOf(U) \cup LeftsOf(T \ U)
  BY DEF LeftsOf
<1>4. Cardinality(LeftsOf(T)) <= Cardinality(LeftsOf(U)) + Cardinality(LeftsOf(T \ U))
  <2> DEFINE A == LeftsOf(U) B == LeftsOf(T \ U)
  <2>1. IsFiniteSet(A) /\ IsFiniteSet(B)
    BY <1>1, LeftsAreFewer
  <2> HIDE DEF A, B
  <2>2. Cardinality(A \cap B) \in Nat
    BY <2>1, FS_Intersection, FS_CardinalityType
  <2>3. Cardinality(A \cup B) = Cardinality(A) + Cardinality(B) - Cardinality(A \cap B)
    BY <2>1, FS_Union
  <2>4. Cardinality(A) \in Nat /\ Cardinality(B) \in Nat
    BY <2>1, FS_CardinalityType
  <2>5. Cardinality(A \cup B) <= Cardinality(A) + Cardinality(B)
    BY <2>2, <2>3, <2>4
  <2> QED BY <1>3, <2>5 DEF A, B
<1> QED BY <1>1, <1>2, <1>4, LeftsAreFewer DEF Excess

LEMMA ExcessAdd ==
  ASSUME NEW T, NEW n \in Nat, Excess(T, n), NEW a, NEW U \in SUBSET (T \cup {a})
  PROVE  Excess(U, n + 1)
<1>1. /\ IsFiniteSet(T \cup {a})
      /\ Cardinality(T \cup {a}) \in {Cardinality(T), Cardinality(T) + 1}
  BY FS_AddElement DEF Excess
<1>2. IsFiniteSet(T) /\ LeftsOf(T) \subseteq LeftsOf(T \cup {a})
  BY DEF LeftsOf, Excess
<1>3. Cardinality(LeftsOf(T)) <= Cardinality(LeftsOf(T \cup {a}))
  BY <1>1, <1>2, LeftsAreFewer, FS_Subset
<1>4. Excess(T \cup {a}, n + 1)
  BY <1>1, <1>2, <1>3, LeftsAreFewer DEF Excess
<1> QED BY <1>4, ExcessSub

LEMMA ExcessNew ==
  ASSUME NEW T, NEW n \in Nat, Excess(T, n), NEW a, a[1] \notin LeftsOf(T),
         NEW U \in SUBSET (T \cup {a})
  PROVE  Excess(U, n)
<1>1. /\ IsFiniteSet(T) /\ IsFiniteSet(T \cup {a})
      /\ Cardinality(T \cup {a}) \in {Cardinality(T), Cardinality(T) + 1}
  BY FS_AddElement DEF Excess
<1>2. LeftsOf(T \cup {a}) = LeftsOf(T) \cup {a[1]}
  BY DEF LeftsOf
<1>3. Cardinality(LeftsOf(T \cup {a})) = Cardinality(LeftsOf(T)) + 1
  BY ZenonT(40), <1>1, <1>2, LeftsAreFewer, FS_AddElement
<1>4. Excess(T \cup {a}, n)
  BY <1>1, <1>3, LeftsAreFewer DEF Excess
<1> QED BY <1>4, ExcessSub

LEMMA ExcessSwap ==
  ASSUME NEW T, NEW n \in Nat, Excess(T, n), NEW a \in T, NEW b, b[1] = a[1],
         NEW U \in SUBSET ((T \ {a}) \cup {b})
  PROVE  Excess(U, n)
<1> DEFINE V == (T \ {a}) \cup {b}
<1>1. CASE b \in T
  BY <1>1, ExcessSub
<1>2. CASE b \notin T
  <2>1. /\ IsFiniteSet(T) /\ IsFiniteSet(T \ {a})
        /\ Cardinality(T \ {a}) = Cardinality(T) - 1
    BY FS_RemoveElement DEF Excess
  <2>2. IsFiniteSet(V) /\ Cardinality(V) = Cardinality(T)
    BY SMTT(30), <1>2, <2>1, FS_AddElement, FS_CardinalityType
  <2>3. LeftsOf(V) = LeftsOf(T)
    BY DEF LeftsOf
  <2>4. Excess(V, n)
    BY <2>2, <2>3 DEF Excess
  <2> QED BY <2>4, ExcessSub
<1> QED BY <1>1, <1>2

\* Leave out a part without which no left event is missing: it is not larger than the excess.
LEMMA ExcessRest ==
  ASSUME NEW T, NEW n \in Nat, Excess(T, n), NEW R \in SUBSET T, LeftsOf(T) \subseteq LeftsOf(T \ R)
  PROVE  Cardinality(R) <= n
<1>1. IsFiniteSet(T) /\ IsFiniteSet(R) /\ IsFiniteSet(T \ R) /\ T \cap R = R
  BY FS_Subset, FS_Difference DEF Excess
<1>2. Cardinality(T \ R) = Cardinality(T) - Cardinality(R)
  BY <1>1, FS_Difference
<1>3. Cardinality(LeftsOf(T)) <= Cardinality(LeftsOf(T \ R))
  BY <1>1, LeftsAreFewer, FS_Subset
<1> QED BY <1>1, <1>2, <1>3, LeftsAreFewer DEF Excess


\* The outputs there are (positive), and those there may still be without a failure: of the
\* entries (negative) and of the left events that are delivered and not handled (0).
Unsent == {u \in entry : ~(Busy("right") /\ u \in handler["right"].sent)}

Unhandled ==
  {l \in Lefts \ done :
     tries[l] > 0 /\ ~(/\ Busy("left") /\ handler["left"].e = l
                       /\ handler["left"].pc \in {"putList", "ack"})}

Outputs ==
  {t \in Lefts \X Int : \/ t[2] \in 1 .. joined[t[1]]
                        \/ t[2] = 0 /\ t[1] \in Unhandled
                        \/ <<t[1], -t[2]>> \in Unsent}

\* An event that was not delivered has left nothing.
Undelivered ==
  \A l \in Lefts : tries[l] = 0 => joined[l] = 0 /\ \A u \in entry : u[1] # l

\* One entry at a time is joined and not yet deleted.
SentOK ==
  Busy("right") => /\ handler["right"].pc # "delete" => handler["right"].sent = {}
                   /\ \E u : handler["right"].sent \subseteq {u}

OutputInv == Excess(Outputs, failures) /\ Undelivered /\ SentOK

LEMMA OutputTyped ==
  ASSUME JoinInv
  PROVE  /\ failures \in Nat /\ Unsent \subseteq Uuids /\ Unhandled \subseteq Lefts
         /\ joined \in [Lefts -> Nat]
BY DEF JoinInv, JoinTypeOK, Unsent, Unhandled

\* The outputs after a step are among these.
LEMMA OutputsWithin ==
  ASSUME NEW T,
         \A l \in Lefts : /\ \A i \in 1 .. joined'[l] : <<l, i>> \in T
                          /\ l \in Unhandled' => <<l, 0>> \in T,
         \A u \in Unsent' : <<u[1], -u[2]>> \in T
  PROVE  Outputs' \in SUBSET T
<1> SUFFICES ASSUME NEW l \in Lefts, NEW i \in Int, <<l, i>> \in Outputs' PROVE <<l, i>> \in T
  BY DEF Outputs
<1>1. CASE i \in 1 .. joined'[l]
  BY <1>1
<1>2. CASE i = 0 /\ l \in Unhandled'
  BY <1>2
<1>3. CASE <<l, -i>> \in Unsent'
  <2>1. -(-i) = i
    OBVIOUS
  <2> QED BY <1>3, <2>1
<1> QED BY <1>1, <1>2, <1>3 DEF Outputs

\* What there is before the step.
LEMMA OutputsAre ==
  ASSUME JoinInv
  PROVE  /\ \A l \in Lefts : /\ \A i \in 1 .. joined[l] : <<l, i>> \in Outputs
                             /\ l \in Unhandled => <<l, 0>> \in Outputs
         /\ \A u \in Unsent : <<u[1], -u[2]>> \in Outputs
<1>1. ASSUME NEW l \in Lefts, NEW i \in 1 .. joined[l] PROVE <<l, i>> \in Outputs
  BY OutputTyped DEF Outputs
<1>2. ASSUME NEW l \in Lefts, l \in Unhandled PROVE <<l, 0>> \in Outputs
  BY <1>2 DEF Outputs
<1>3. ASSUME NEW u \in Unsent PROVE <<u[1], -u[2]>> \in Outputs
  <2>1. u \in Uuids /\ u[1] \in Lefts /\ u[2] \in Int /\ u = <<u[1], u[2]>>
    BY OutputTyped, JoinAssumption DEF Uuids
  <2>2. -(-u[2]) = u[2] /\ -u[2] \in Int
    BY <2>1
  <2> QED BY <1>3, <2>1, <2>2 DEF Outputs
<1> QED BY <1>1, <1>2, <1>3

\* A step that adds nothing.
LEMMA OutputsStay ==
  ASSUME JoinInv, OutputInv, joined' = joined, Unsent' \subseteq Unsent,
         Unhandled' \subseteq Unhandled, failures' \in Nat, failures' >= failures
  PROVE  Excess(Outputs', failures')
<1>1. Outputs' \in SUBSET Outputs
  BY OutputsAre, OutputsWithin
<1>2. Excess(Outputs', failures)
  BY <1>1, ExcessSub, OutputTyped DEF OutputInv
<1> QED BY <1>1, <1>2, OutputTyped, LeftsAreFewer DEF Excess

\* A failure makes one output possible again.
LEMMA OutputsFail ==
  ASSUME JoinInv, OutputInv, joined' = joined, failures' = failures + 1, NEW a,
         \A l \in Unhandled' \ Unhandled : <<l, 0>> = a,
         \A u \in Unsent' \ Unsent : <<u[1], -u[2]>> = a
  PROVE  Excess(Outputs', failures')
<1>1. Unhandled' \subseteq Lefts
  BY DEF Unhandled
<1>2. Outputs' \in SUBSET (Outputs \cup {a})
  BY <1>1, OutputsAre, OutputsWithin
<1> QED BY <1>2, ExcessAdd, OutputTyped DEF OutputInv

\* Outputs with one exchanged: of the components of a pair one is different.
LEMMA OutputsSwap ==
  ASSUME JoinInv, OutputInv, failures' = failures, NEW a \in Outputs, NEW b, b[1] = a[1],
         \A l \in Lefts : /\ \A i \in 1 .. joined'[l] :
                               <<l, i>> = b \/ (i <= joined[l] /\ <<l, i>> # a)
                          /\ l \in Unhandled' => l \in Unhandled /\ <<l, 0>> # a,
         \A u \in Unsent' : <<u[1], -u[2]>> = b \/ (u \in Unsent /\ <<u[1], -u[2]>> # a)
  PROVE  Excess(Outputs', failures')
<1> DEFINE T == (Outputs \ {a}) \cup {b}
<1>1. ASSUME NEW l \in Lefts, NEW i \in 1 .. joined'[l] PROVE <<l, i>> \in T
  <2>1. CASE <<l, i>> = b
    BY <2>1
  <2>2. CASE i <= joined[l] /\ <<l, i>> # a
    <3>1. joined[l] \in Nat /\ i \in 1 .. joined[l]
      BY <2>2, OutputTyped
    <3> QED BY <2>2, <3>1, OutputsAre
  <2> QED BY <2>1, <2>2
<1>2. ASSUME NEW l \in Lefts, l \in Unhandled' PROVE <<l, 0>> \in T
  BY <1>2, OutputsAre
<1>3. ASSUME NEW u \in Unsent' PROVE <<u[1], -u[2]>> \in T
  BY <1>3, OutputsAre
<1> HIDE DEF T
<1>4. Outputs' \in SUBSET T
  BY <1>1, <1>2, <1>3, OutputsWithin
<1> QED BY <1>4, ExcessSwap, OutputTyped DEF OutputInv, T

-----------------------------------------------------------------------------
(* The outputs of each step *)

LEMMA ReceiveOutputs ==
  ASSUME JoinInv, OutputInv, NEW side \in Sides, NEW e \in Of(side), Receive(side, e)
  PROVE  OutputInv'
<1>1. /\ tries \in [Events -> 0 .. MaxTries] /\ e \in Events /\ MaxTries \in Nat
      /\ handler \in [Sides -> Handling \cup {None}] /\ side \in Sides
  BY JoinAssumption DEF JoinInv, JoinTypeOK, Of, Events, Sides
<1>2. /\ \A d \in Events : tries'[d] = IF d = e THEN tries[e] + 1 ELSE tries[d]
      /\ tries'[e] > 0
  BY <1>1 DEF Receive
<1>3. /\ handler'[side] = [pc |-> "lock", e |-> e, todo |-> {}, sent |-> {}]
      /\ \A s \in Sides \ {side} : handler'[s] = handler[s]
  BY <1>1 DEF Receive
<1>4. UNCHANGED <<done, entry, joined, failures>> /\ ~Busy(side) /\ e \notin done
  BY DEF Receive, buckets
<1>5. Undelivered'
  <2> SUFFICES ASSUME NEW l \in Lefts, tries'[l] = 0
               PROVE  joined[l] = 0 /\ \A u \in entry : u[1] # l
    BY <1>4 DEF Undelivered
  <2>1. tries[l] = 0
    BY <1>1, <1>2 DEF Events
  <2> QED BY <2>1 DEF OutputInv, Undelivered
<1>6. SentOK' /\ Unsent' = Unsent
  <2>1. CASE side = "right"
    <3>1. handler'["right"].sent = {} /\ ~Busy("right")
      BY <1>3, <1>4, <2>1
    <3> QED BY <1>4, <3>1 DEF SentOK, Unsent
  <2>2. CASE side = "left"
    <3>1. handler'["right"] = handler["right"]
      BY <1>3, <2>2 DEF Sides
    <3> QED BY <1>4, <3>1 DEF SentOK, Unsent, OutputInv, Busy
  <2> QED BY <2>1, <2>2 DEF Sides
<1>7. Unhandled' \subseteq Unhandled \cup {e}
  <2> SUFFICES ASSUME NEW l \in Unhandled', l # e PROVE l \in Unhandled
    OBVIOUS
  <2>1. l \in Lefts \ done /\ tries[l] > 0
    BY <1>2, <1>4 DEF Unhandled, Events
  <2>2. CASE side = "left"
    BY <1>4, <2>1, <2>2 DEF Unhandled
  <2>3. CASE side = "right"
    <3>1. handler'["left"] = handler["left"]
      BY <1>3, <2>3 DEF Sides
    <3> QED BY <2>1, <3>1 DEF Unhandled, Busy
  <2> QED BY <2>2, <2>3 DEF Sides
<1>8. Excess(Outputs', failures')
  <2>1. CASE Unhandled' \subseteq Unhandled
    BY <1>4, <1>6, <2>1, OutputTyped, OutputsStay
  <2>2. CASE ~(Unhandled' \subseteq Unhandled)
    <3>1. e \in Lefts /\ e \notin Unhandled /\ side = "left"
      BY <1>7, <2>2, JoinAssumption DEF Unhandled, Of, Sides
    <3>2. tries[e] = 0
      BY <1>1, <1>4, <3>1 DEF Unhandled
    <3>3. joined[e] = 0 /\ \A u \in entry : u[1] # e
      BY <3>1, <3>2 DEF OutputInv, Undelivered
    <3>4. e \notin LeftsOf(Outputs)
      <4> SUFFICES ASSUME NEW t \in Outputs, t[1] = e PROVE FALSE
        BY DEF LeftsOf
      <4>1. t[2] \notin 1 .. joined[e]
        BY <3>3
      <4>2. <<t[1], -t[2]>> \notin Unsent
        BY <3>3 DEF Unsent
      <4> QED BY <3>1, <4>1, <4>2 DEF Outputs
    <3>5. Outputs' \in SUBSET (Outputs \cup {<<e, 0>>})
      BY <1>4, <1>6, <1>7, OutputsAre, OutputsWithin
    <3> QED BY <1>4, <3>4, <3>5, ExcessNew, OutputTyped DEF OutputInv
  <2> QED BY <2>1, <2>2
<1> QED BY <1>5, <1>6, <1>8 DEF OutputInv

\* A step of the left handler that leaves the outputs and the entries alone.
LEMMA LeftQuiet ==
  ASSUME JoinInv, OutputInv, Busy("left"), handler'["right"] = handler["right"],
         Busy("left")' => /\ handler'["left"].e = handler["left"].e
                          /\ handler["left"].pc \in {"putList", "ack"}
                               => handler'["left"].pc \in {"putList", "ack"},
         ~Busy("left")' => handler["left"].e \in done',
         UNCHANGED <<tries, entry, joined, failures>>, done \subseteq done'
  PROVE  OutputInv'
<1>1. Unsent' = Unsent /\ SentOK' /\ Undelivered'
  BY DEF Unsent, OutputInv, SentOK, Undelivered, Busy
<1>2. Unhandled' \subseteq Unhandled
  BY DEF Unhandled
<1> QED BY <1>1, <1>2, OutputTyped, OutputsStay DEF OutputInv

\* A step of the right handler that leaves them alone.
LEMMA RightQuiet ==
  ASSUME JoinInv, OutputInv, handler'["left"] = handler["left"],
         SentOK', Unsent' \subseteq Unsent, entry' \subseteq entry,
         UNCHANGED <<tries, joined>>, done \subseteq done',
         failures' \in Nat, failures' >= failures
  PROVE  OutputInv'
<1>1. Undelivered'
  BY DEF OutputInv, Undelivered
<1>2. Unhandled' \subseteq Unhandled
  BY DEF Unhandled, Busy
<1> QED BY <1>1, <1>2, OutputTyped, OutputsStay DEF OutputInv

LEMMA HandlerTyped == JoinInv => handler \in [Sides -> Handling \cup {None}]
BY DEF JoinInv, JoinTypeOK

LEMMA LeftOutputs ==
  ASSUME JoinInv, OutputInv, GetRight \/ GetList \/ PutList \/ (AckEvent("left"))
  PROVE  OutputInv'
<1>1. Busy("left") /\ handler["left"] \in Handling /\ "left" \in Sides /\ "right" \in Sides
  BY HandlerTyped DEF GetRight, GetList, PutList, AckEvent, Left, Busy, None, Sides
<1>2. CASE GetRight \/ GetList \/ PutList
  <2>1. /\ handler'["right"] = handler["right"] /\ handler'["left"].e = handler["left"].e
        /\ handler'["left"].pc \in Pcs
        /\ handler["left"].pc \in {"putList", "ack"} => handler'["left"].pc = "ack"
    <3>1. CASE GetRight
      BY <1>1, <3>1, HandlerTyped DEF GetRight, Goto, Left, Handling, Pcs
    <3>2. CASE GetList
      BY <1>1, <3>2, HandlerTyped DEF GetList, Left, Handling, Pcs
    <3>3. CASE PutList
      BY <1>1, <3>3, HandlerTyped DEF PutList, Goto, Left, Handling, Pcs
    <3> QED BY <1>2, <3>1, <3>2, <3>3
  <2>2. Busy("left")'
    BY <2>1 DEF Busy, None, Pcs
  <2>3. UNCHANGED <<tries, done, entry, joined, failures>>
    BY <1>2 DEF GetRight, GetList, PutList, input, buckets
  <2> QED BY <1>1, <2>1, <2>2, <2>3, LeftQuiet
<1>5. CASE AckEvent("left")
  <2>1. handler'["left"] = None /\ handler'["right"] = handler["right"]
    BY <1>1, <1>5, HandlerTyped DEF AckEvent, Return
  <2>2. ~Busy("left")'
    BY <2>1 DEF Busy
  <2> QED BY <1>1, <1>5, <2>1, <2>2, LeftQuiet DEF AckEvent, buckets
<1> QED BY <1>2, <1>5

LEMMA PublishLeftOutputs == ASSUME JoinInv, OutputInv, PublishLeft PROVE OutputInv'
<1> DEFINE l == handler["left"].e
           a == <<l, 0>>
           b == <<l, joined[l] + 1>>
<1>1. /\ JoinTypeOK /\ Busy("left") /\ handler["left"] \in Handling /\ l \in Lefts \ done
      /\ "left" \in Sides /\ "right" \in Sides
  BY LeftStands DEF PublishLeft, Pcs, Sides
<1>2. tries[l] > 0 /\ handler["left"].pc = "publish"
  BY <1>1 DEF JoinTypeOK, PublishLeft, Left
<1>3. /\ handler'["left"].pc = "ack" /\ handler'["left"].e = l
      /\ handler'["right"] = handler["right"] /\ Busy("left")'
  BY <1>1, HandlerTyped DEF PublishLeft, Goto, Handling, Busy, None
<1>4. UNCHANGED <<done, tries, entry, failures>>
  BY DEF PublishLeft, input, buckets
<1>5. \A n \in Lefts : joined'[n] = IF n = l THEN joined[l] + 1 ELSE joined[n]
  BY OutputTyped DEF PublishLeft
<1>6. SentOK' /\ Unsent' = Unsent
  BY <1>3, <1>4 DEF OutputInv, SentOK, Unsent, Busy
<1>7. Undelivered'
  BY <1>1, <1>2, <1>4, <1>5 DEF OutputInv, Undelivered
<1>8. l \in Unhandled /\ l \notin Unhandled' /\ Unhandled' \subseteq Unhandled
  BY <1>1, <1>2, <1>3, <1>4 DEF Unhandled
<1>9. a \in Outputs /\ b[1] = a[1]
  BY <1>1, <1>8, OutputsAre
<1>10. ASSUME NEW n \in Lefts, NEW i \in 1 .. joined'[n]
       PROVE  <<n, i>> = b \/ (i <= joined[n] /\ <<n, i>> # a)
  <2>1. joined[n] \in Nat /\ joined'[n] \in Nat
    BY <1>1, <1>5, OutputTyped
  <2> QED BY <1>5, <2>1
<1>11. ASSUME NEW u \in Unsent' PROVE u \in Unsent /\ <<u[1], -u[2]>> # a
  <2>1. u \in Unsent /\ u[2] \in 1 .. MaxTries
    BY <1>6, OutputTyped DEF Uuids
  <2>2. -u[2] # 0
    BY <2>1, JoinAssumption
  <2> QED BY <2>1, <2>2
<1> HIDE DEF a, b
<1>12. \A n \in Unhandled' : <<n, 0>> # a
  BY <1>8 DEF a
<1>13. Excess(Outputs', failures')
  BY <1>4, <1>8, <1>9, <1>10, <1>11, <1>12, OutputsSwap
<1> QED BY <1>6, <1>7, <1>13 DEF OutputInv

LEMMA PutEntryOutputs == ASSUME JoinInv, OutputInv, PutEntry PROVE OutputInv'
<1> DEFINE l == handler["left"].e
           a == <<l, 0>>
           b == <<l, -tries[l]>>
<1>1. /\ JoinTypeOK /\ Busy("left") /\ handler["left"] \in Handling /\ l \in Lefts \ done
      /\ "left" \in Sides /\ "right" \in Sides
  BY LeftStands DEF PutEntry, Pcs, Sides
<1>2. tries[l] > 0 /\ handler["left"].pc = "putEntry" /\ LeftUuid = <<l, tries[l]>>
  BY <1>1 DEF JoinTypeOK, PutEntry, Left, LeftUuid
<1>3. /\ handler'["left"].pc = "putList" /\ handler'["left"].e = l
      /\ handler'["right"] = handler["right"] /\ Busy("left")'
  BY <1>1, HandlerTyped DEF PutEntry, Goto, Handling, Busy, None
<1>4. UNCHANGED <<done, tries, joined, failures>> /\ entry' = entry \cup {<<l, tries[l]>>}
  BY <1>2 DEF PutEntry, input
<1>5. SentOK' /\ Unsent' \subseteq Unsent \cup {<<l, tries[l]>>}
  BY <1>3, <1>4 DEF OutputInv, SentOK, Unsent, Busy
<1>6. Undelivered'
  BY <1>1, <1>2, <1>4 DEF OutputInv, Undelivered
<1>7. l \in Unhandled /\ l \notin Unhandled' /\ Unhandled' \subseteq Unhandled
  BY <1>1, <1>2, <1>3, <1>4 DEF Unhandled
<1>8. a \in Outputs /\ b[1] = a[1]
  BY <1>1, <1>7, OutputsAre
<1>9. ASSUME NEW n \in Lefts, NEW i \in 1 .. joined'[n]
      PROVE  i <= joined[n] /\ <<n, i>> # a
  <2>1. joined[n] \in Nat /\ joined'[n] = joined[n]
    BY <1>4, OutputTyped
  <2> QED BY <2>1
<1>10. ASSUME NEW u \in Unsent'
       PROVE  <<u[1], -u[2]>> = b \/ (u \in Unsent /\ <<u[1], -u[2]>> # a)
  <2>1. CASE u = <<l, tries[l]>>
    BY <2>1
  <2>2. CASE u \in Unsent
    <3>1. u[2] \in 1 .. MaxTries
      BY <2>2, OutputTyped DEF Uuids
    <3>2. -u[2] # 0
      BY <3>1, JoinAssumption
    <3> QED BY <2>2, <3>2
  <2> QED BY <1>5, <2>1, <2>2
<1> HIDE DEF a, b
<1>11. \A n \in Unhandled' : <<n, 0>> # a
  BY <1>7 DEF a
<1>12. Excess(Outputs', failures')
  BY <1>4, <1>7, <1>8, <1>9, <1>10, <1>11, OutputsSwap
<1> QED BY <1>5, <1>6, <1>12 DEF OutputInv

LEMMA RightOutputs ==
  ASSUME JoinInv, OutputInv,
         PutRight \/ GetUuids \/ DeleteList \/ (\E u \in Uuids : SkipExpired(u))
  PROVE  OutputInv'
<1>1. Busy("right") /\ handler["right"] \in Handling /\ "left" \in Sides /\ "right" \in Sides
  BY HandlerTyped DEF PutRight, GetUuids, DeleteList, SkipExpired, Right, Busy, None, Sides
<1>2. /\ handler'["left"] = handler["left"] /\ handler["right"].pc # "delete"
      /\ handler'["right"].sent = handler["right"].sent
      /\ handler'["right"].pc \in Pcs \ {"delete"}
  <2>1. CASE PutRight
    BY <1>1, <2>1, HandlerTyped DEF PutRight, Goto, Right, Handling, Pcs
  <2>2. CASE GetUuids
    BY <1>1, <2>2, HandlerTyped DEF GetUuids, Right, Handling, Pcs
  <2>3. CASE DeleteList
    BY <1>1, <2>3, HandlerTyped DEF DeleteList, Goto, Right, Handling, Pcs
  <2>4. CASE \E u \in Uuids : SkipExpired(u)
    BY <1>1, <2>4, HandlerTyped DEF SkipExpired, Right, Handling, Pcs
  <2> QED BY <2>1, <2>2, <2>3, <2>4
<1>3. Busy("right")'
  BY <1>2 DEF Busy, None, Pcs
<1>4. UNCHANGED <<tries, done, entry, joined>> /\ failures' \in Nat /\ failures' >= failures
  BY OutputTyped DEF PutRight, GetUuids, DeleteList, SkipExpired, input, buckets, Fail
<1>5. Unsent' = Unsent /\ SentOK'
  BY <1>1, <1>2, <1>3, <1>4 DEF Unsent, SentOK, OutputInv
<1> QED BY <1>2, <1>4, <1>5, RightQuiet

\* The entry that goes is the one whose output was counted.
LEMMA DeleteEntryOutputs == ASSUME JoinInv, OutputInv, DeleteEntry PROVE OutputInv'
<1>1. Busy("right") /\ handler["right"] \in Handling /\ "left" \in Sides /\ "right" \in Sides
  BY HandlerTyped DEF DeleteEntry, Right, Busy, None, Sides
<1>2. /\ handler'["left"] = handler["left"] /\ handler'["right"].sent = {}
      /\ entry' = entry \ handler["right"].sent
  BY <1>1, HandlerTyped DEF DeleteEntry, Handling
<1>3. UNCHANGED <<tries, done, joined, failures>>
  BY DEF DeleteEntry, input
<1>4. Unsent' \subseteq Unsent /\ SentOK'
  BY <1>2 DEF Unsent, SentOK
<1> QED BY <1>2, <1>3, <1>4, OutputTyped, RightQuiet

\* A left event is joined by the entry it waits in: the possible output is one that there is.
LEMMA PublishJoinedOutputs ==
  ASSUME JoinInv, OutputInv, NEW u \in Uuids, PublishJoined(u) PROVE OutputInv'
<1> DEFINE l == u[1]
           a == <<u[1], -u[2]>>
           b == <<u[1], joined[u[1]] + 1>>
<1>1. /\ Busy("right") /\ handler["right"] \in Handling /\ l \in Lefts
      /\ "left" \in Sides /\ "right" \in Sides
  BY HandlerTyped DEF PublishJoined, Right, Busy, None, Sides, Uuids
<1>2. handler["right"].sent = {} /\ u \in entry
  BY <1>1 DEF OutputInv, SentOK, PublishJoined, Right
<1>3. /\ handler'["right"].pc = "delete" /\ handler'["right"].sent = {u}
      /\ handler'["left"] = handler["left"]
  BY <1>1, HandlerTyped DEF PublishJoined, Handling
<1>4. UNCHANGED <<done, tries, entry, failures>>
  BY DEF PublishJoined, input, buckets
<1>5. \A n \in Lefts : joined'[n] = IF n = l THEN joined[l] + 1 ELSE joined[n]
  BY OutputTyped DEF PublishJoined
<1>6. Busy("right")'
  BY <1>3 DEF Busy, None
<1>7. SentOK' /\ Unsent' = Unsent \ {u} /\ u \in Unsent
  BY <1>2, <1>3, <1>4, <1>6 DEF SentOK, Unsent
<1>8. Undelivered'
  BY <1>2, <1>4, <1>5 DEF OutputInv, Undelivered
<1>9. Unhandled' = Unhandled
  BY <1>3, <1>4 DEF Unhandled, Busy
<1>10. a \in Outputs /\ b[1] = a[1]
  BY <1>7, OutputsAre
<1>11. u[2] \in 1 .. MaxTries /\ MaxTries \in Nat
  BY JoinAssumption DEF Uuids
<1>12. ASSUME NEW n \in Lefts, NEW i \in 1 .. joined'[n]
       PROVE  <<n, i>> = b \/ (i <= joined[n] /\ <<n, i>> # a)
  <2>1. joined[n] \in Nat /\ joined'[n] \in Nat
    BY <1>1, <1>5, OutputTyped
  <2> QED BY <1>5, <1>11, <2>1
<1>13. ASSUME NEW v \in Unsent' PROVE v \in Unsent /\ <<v[1], -v[2]>> # a
  <2>1. v \in Uuids /\ v \in Unsent /\ v # u
    BY <1>7, OutputTyped
  <2>2. v = <<v[1], v[2]>> /\ u = <<u[1], u[2]>> /\ v[2] \in 1 .. MaxTries
    BY <2>1 DEF Uuids
  <2>3. v[1] = u[1] => -v[2] # -u[2]
    BY <2>1, <2>2, <1>11
  <2> QED BY <2>1, <2>3
<1> HIDE DEF b
<1>14. \A n \in Unhandled' : <<n, 0>> # a /\ n \in Unhandled
  <2>1. -u[2] # 0
    BY <1>11
  <2> QED BY <1>9, <2>1
<1> HIDE DEF a
<1>15. Excess(Outputs', failures')
  BY <1>4, <1>10, <1>12, <1>13, <1>14, OutputsSwap
<1> QED BY <1>7, <1>8, <1>15 DEF OutputInv

LEMMA AckRightOutputs == ASSUME JoinInv, OutputInv, AckEvent("right") PROVE OutputInv'
<1>1. /\ "left" \in Sides /\ "right" \in Sides /\ Busy("right") /\ handler["right"].pc = "ack"
  BY DEF AckEvent, Sides
<1>2. handler'["left"] = handler["left"] /\ handler'["right"] = None
  BY <1>1, HandlerTyped DEF AckEvent, Return
<1>3. handler["right"].sent = {}
  BY <1>1 DEF OutputInv, SentOK
<1>4. UNCHANGED <<tries, entry, joined, failures>> /\ done \subseteq done'
  BY DEF AckEvent, buckets
<1>5. SentOK' /\ Unsent' \subseteq Unsent
  BY <1>2, <1>3, <1>4 DEF SentOK, Unsent, Busy
<1> QED BY <1>2, <1>4, <1>5, OutputTyped, RightQuiet

\* Handlers that go: the one that held handleMu leaves its event, or one entry, for later.
LEMMA FailOutputs ==
  ASSUME JoinInv, OutputInv, HandlerFails("left") \/ HandlerFails("right") \/ ProcessStops
  PROVE  OutputInv'
<1>1. /\ UNCHANGED <<tries, done, entry, joined>> /\ failures' = failures + 1
      /\ "left" \in Sides /\ "right" \in Sides
  BY DEF HandlerFails, ProcessStops, Fail, input, buckets, Sides
<1>2. /\ handler'["left"] \in {handler["left"], None}
      /\ handler'["right"] \in {handler["right"], None}
      /\ HandlerFails("left") => handler'["right"] = handler["right"]
      /\ HandlerFails("right") => handler'["left"] = handler["left"]
  BY <1>1, HandlerTyped DEF HandlerFails, ProcessStops, Return
<1>3. SentOK' /\ Undelivered'
  BY <1>1, <1>2 DEF OutputInv, SentOK, Undelivered, Busy
<1>4. \A l \in Unhandled' \ Unhandled :
        l = handler["left"].e /\ Busy("left") /\ handler["left"].pc \in {"putList", "ack"}
  BY <1>1, <1>2 DEF Unhandled, Busy
<1>5. \A u \in Unsent' \ Unsent : Busy("right") /\ u \in handler["right"].sent
  BY <1>1, <1>2 DEF Unsent, Busy
<1>6. \E a : /\ \A l \in Unhandled' \ Unhandled : <<l, 0>> = a
             /\ \A u \in Unsent' \ Unsent : <<u[1], -u[2]>> = a
  <2>1. CASE Holding("left")
    <3>1. ~Holding("right")
      BY <2>1 DEF JoinInv, JoinTypeOK
    <3>2. Busy("right") => handler["right"].sent = {}
      BY <3>1 DEF Holding, OutputInv, SentOK
    <3>3. Unsent' \ Unsent = {}
      BY <1>5, <3>2
    <3>4. \A l \in Unhandled' \ Unhandled : <<l, 0>> = <<handler["left"].e, 0>>
      BY <1>4
    <3> QED BY <3>3, <3>4
  <2>2. CASE ~Holding("left")
    <3>1. Unhandled' \ Unhandled = {}
      BY <1>4, <2>2 DEF Holding
    <3>2. Busy("right") => \E u : handler["right"].sent \subseteq {u}
      BY DEF OutputInv, SentOK
    <3>3. CASE ~Busy("right")
      BY <1>5, <3>1, <3>3
    <3>4. CASE Busy("right")
      <4>1. PICK u : handler["right"].sent \subseteq {u}
        BY <3>2, <3>4
      <4>2. \A v \in Unsent' \ Unsent : <<v[1], -v[2]>> = <<u[1], -u[2]>>
        BY <1>5, <4>1
      <4> QED BY <3>1, <4>2
    <3> QED BY <3>3, <3>4
  <2> QED BY <2>1, <2>2
<1>7. Excess(Outputs', failures')
  BY <1>1, <1>6, OutputsFail
<1> QED BY <1>3, <1>7 DEF OutputInv

LEMMA OtherOutputs ==
  ASSUME JoinInv, OutputInv,
         \/ \E side \in Sides : Lock(side)
         \/ \E u \in Uuids : EntryExpires(u)
         \/ \E k \in JoinKeys : RightExpires(k)
         \/ UNCHANGED joinVars
  PROVE  OutputInv'
<1>1. UNCHANGED <<tries, done, joined, failures>> /\ entry' \subseteq entry
  BY DEF Lock, EntryExpires, RightExpires, joinVars, input, buckets
<1>2. \A s \in Sides : \/ handler'[s] = handler[s]
                       \/ /\ Busy(s) /\ Busy(s)'
                          /\ handler[s].pc \notin {"putList", "ack", "delete"}
                          /\ handler'[s].e = handler[s].e /\ handler'[s].sent = handler[s].sent
  <2>1. CASE \E side \in Sides : Lock(side)
    <3>1. PICK side \in Sides : Lock(side)
      BY <2>1
    <3>2. Busy(side) /\ handler[side] \in Handling /\ handler[side].pc = "lock"
      BY <3>1, HandlerTyped DEF Lock, Holding, Busy
    <3>3. /\ \A s \in Sides \ {side} : handler'[s] = handler[s]
          /\ handler'[side].e = handler[side].e /\ handler'[side].sent = handler[side].sent
          /\ handler'[side].pc \in {"getRight", "putRight"}
      BY <3>1, <3>2, HandlerTyped DEF Lock, Goto, Handling
    <3>4. Busy(side)'
      BY <3>3 DEF Busy, None
    <3> QED BY <3>2, <3>3, <3>4
  <2> QED BY <2>1 DEF EntryExpires, RightExpires, joinVars
<1>3. SentOK' /\ Unsent' \subseteq Unsent /\ Unhandled' \subseteq Unhandled
  <2>1. "left" \in Sides /\ "right" \in Sides
    BY DEF Sides
  <2>2. SentOK'
    BY <1>2, <2>1 DEF SentOK, OutputInv, Busy
  <2>3. Unsent' \subseteq Unsent
    BY <1>1, <1>2, <2>1 DEF Unsent, Busy
  <2>4. Unhandled' \subseteq Unhandled
    BY <1>1, <1>2, <2>1 DEF Unhandled, Busy
  <2> QED BY <2>2, <2>3, <2>4
<1>4. Undelivered'
  BY <1>1 DEF OutputInv, Undelivered
<1> QED BY <1>1, <1>3, <1>4, OutputTyped, OutputsStay DEF OutputInv

LEMMA InitOutputs == JoinInit => OutputInv
<1> SUFFICES ASSUME JoinInit PROVE OutputInv
  OBVIOUS
<1>1. Outputs = {}
  <2> SUFFICES ASSUME NEW t \in Outputs PROVE FALSE
    OBVIOUS
  <2>1. t[1] \in Lefts /\ joined[t[1]] = 0
    BY DEF Outputs, JoinInit
  <2>2. t[2] \notin 1 .. joined[t[1]]
    BY <2>1
  <2>3. Unhandled = {} /\ Unsent = {}
    BY DEF JoinInit, Unhandled, Unsent, Events
  <2> QED BY <2>2, <2>3 DEF Outputs
<1>2. LeftsOf({}) = {} /\ failures = 0
  BY DEF LeftsOf, JoinInit
<1>3. Excess(Outputs, failures)
  BY <1>1, <1>2, FS_EmptySet DEF Excess
<1> QED BY <1>3 DEF JoinInit, OutputInv, Undelivered, SentOK, Busy, Sides

LEMMA NextOutputs == ASSUME JoinInv, OutputInv, [JoinNext]_joinVars PROVE OutputInv'
<1>1. \A side \in Sides : AckEvent(side) \/ HandlerFails(side) => OutputInv'
  BY LeftOutputs, AckRightOutputs, FailOutputs DEF Sides
<1>2. HandleLeft => OutputInv'
  BY LeftOutputs, PublishLeftOutputs, PutEntryOutputs DEF HandleLeft
<1>3. HandleRight => OutputInv'
  BY RightOutputs, PublishJoinedOutputs, DeleteEntryOutputs DEF HandleRight
<1> QED BY <1>1, <1>2, <1>3, ReceiveOutputs, FailOutputs, OtherOutputs DEF JoinNext

\* The first output of each left event is not repeated.
LEMMA RepeatedIsExcess == ASSUME JoinInv, OutputInv PROVE FailureRepeatsOne
<1>1. /\ joined \in [Lefts -> Nat] /\ failures \in Nat /\ MaxFailures \in Nat
      /\ Excess(Outputs, failures)
  BY OutputTyped, JoinAssumption DEF OutputInv
<1>2. Repeated \in SUBSET Outputs
  <2> SUFFICES ASSUME NEW r \in Repeated PROVE r \in Outputs
    OBVIOUS
  <2>1. /\ r \in Lefts \X Int /\ r[1] \in Lefts
        /\ r[2] \in 2 .. MaxFailures + 2 /\ r[2] <= joined[r[1]]
    BY <1>1 DEF Repeated
  <2>2. r[2] \in 1 .. joined[r[1]]
    BY <1>1, <2>1
  <2> QED BY <2>1, <2>2 DEF Outputs
<1>3. LeftsOf(Outputs) \subseteq LeftsOf(Outputs \ Repeated)
  <2> SUFFICES ASSUME NEW t \in Outputs PROVE \E v \in Outputs \ Repeated : v[1] = t[1]
    BY DEF LeftsOf
  <2>1. CASE t \in Repeated
    <3>1. t[1] \in Lefts /\ 1 \in 1 .. joined[t[1]]
      BY <1>1, <2>1 DEF Repeated
    <3>2. <<t[1], 1>> \in Outputs
      BY <3>1, OutputsAre
    <3>3. <<t[1], 1>> \notin Repeated
      BY DEF Repeated
    <3> QED BY <3>2, <3>3
  <2>2. CASE t \notin Repeated
    BY <2>2
  <2> QED BY <2>1, <2>2
<1> QED BY <1>1, <1>2, <1>3, ExcessRest DEF FailureRepeatsOne

\* However often handlers fail or the process stops, and at whatever call, the join has sent at
\* most one output more than once for each of these failures (getFromleftStreamBuffer deletes
\* each entry as it is joined).
THEOREM FailuresRepeatOne == JoinSpec => []FailureRepeatsOne
<1>1. JoinInit => JoinInv /\ OutputInv
  BY InitJoin, InitOutputs
<1>2. JoinInv /\ OutputInv /\ [JoinNext]_joinVars => JoinInv' /\ OutputInv'
  BY NextJoin, NextOutputs
<1>3. JoinInv /\ OutputInv => FailureRepeatsOne
  BY RepeatedIsExcess
<1> QED BY <1>1, <1>2, <1>3, PTL DEF JoinSpec

=============================================================================
