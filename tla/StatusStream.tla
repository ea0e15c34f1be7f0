---------------------------- MODULE StatusStream ----------------------------
(***************************************************************************)
(* Live pipeline statuses in the web UI: one browser tab (the SSE manager   *)
(* of services/pipeline-sse-manager.ts, driven by the hooks of              *)
(* hooks/usePipelineStateSSE.ts) and the streams the UI server opens for it *)
(* (app/ui-api/pipeline/status/stream/route.ts).                            *)
(*                                                                         *)
(* A connection is a slot of Conns: its browser side is source[c], its      *)
(* server side stream[c].  The two sides learn of each other late: a source *)
(* closed by the tab is cancelled on the server some time after.            *)
(***************************************************************************)
EXTENDS Naturals, Sequences, FiniteSets

CONSTANTS
  Pipelines,             \* the pipeline ids a page can watch
  StreamStatuses,        \* the statuses the API's health endpoint reports
  NoStatus,              \* no status known, or a failed health request
  Conns,                 \* slots for EventSource connections
  NoConn,                \* the tab holds no EventSource
  MaxReconnectAttempts,  \* DEFAULT_SSE_CONFIG.maxReconnectAttempts
  MaxStrayTimers,        \* bound: reconnect timers whose id was overwritten
  MaxBuffered            \* bound: events sent and not yet delivered, per stream

ASSUME StreamAssumption ==
  /\ NoConn \notin Conns
  /\ MaxReconnectAttempts \in Nat /\ MaxStrayTimers \in Nat /\ MaxBuffered \in Nat

VARIABLES
  serverCache,   \* pipelineStatusCache of route.ts: one map for all streams
  writer,        \* history: the stream that wrote each entry of serverCache
  stream,        \* the server side of each connection
  source,        \* readyState of each EventSource: none, connecting, open
  tab,           \* the fields of the SSE manager of the tab, and its page
  openedHidden   \* history: the tab has connected while it was hidden

streamVars == <<serverCache, writer, stream, source, tab, openedHidden>>

NoStatuses == [p \in Pipelines |-> NoStatus]

\* The server side of a connection before it is opened and after its tasks ended.
\*   todo, batch     ids still to be fetched by start(), statuses fetched so far
\*   polling         ids the running poll has still to fetch
\*   sent            history: the last status sent for each id
\*   chan            events written and not yet delivered
FreeStream ==
  [phase |-> "free", ids |-> {}, todo |-> {}, batch |-> NoStatuses,
   polling |-> {}, sent |-> NoStatuses, chan |-> <<>>]

\* GET with ?pipelineIds=...: start() begins with the first of the ids.
NewStream(ids) == [FreeStream EXCEPT !.phase = "starting", !.ids = ids, !.todo = ids]

StreamInit ==
  /\ serverCache = NoStatuses
  /\ writer = [p \in Pipelines |-> NoConn]
  /\ stream = [c \in Conns |-> FreeStream]
  /\ source = [c \in Conns |-> "none"]
  /\ tab \in [cur: {NoConn}, state: {"disconnected"}, subs: {{}}, cache: {NoStatuses},
              attempts: {0}, timer: {FALSE}, stray: {0}, heartbeat: {FALSE},
              fallback: {FALSE}, hidden: BOOLEAN]
  /\ openedHidden = FALSE

-----------------------------------------------------------------------------
(* The server *)

\* What a health request may answer: any status, since the pipeline may change it
\* at any time before the answer, or nothing when the request fails or times out.
Health == StreamStatuses \union {NoStatus}

Active(c) == stream[c].phase \in {"starting", "polling"}

\* sendEvent: nothing is written once the stream is inactive.
Send(s, update) ==
  IF s.phase = "cancelled" THEN s
  ELSE [s EXCEPT !.chan = Append(@, update),
                 !.sent = [p \in Pipelines |->
                             IF update[p] = NoStatus THEN @[p] ELSE update[p]]]

\* start(): the await of the next initial status, stored in the cache at once.
\* A cancelled stream runs on: nothing checks isStreamActive here.
StartFetch(c) ==
  /\ stream[c].todo # {}
  /\ \E p \in stream[c].todo : \E h \in Health :
       /\ stream' = [stream EXCEPT ![c].todo = @ \ {p}, ![c].batch[p] = h]
       /\ IF h = NoStatus
            THEN UNCHANGED <<serverCache, writer>>
            ELSE /\ serverCache' = [serverCache EXCEPT ![p] = h]
                 /\ writer' = [writer EXCEPT ![p] = c]
  /\ UNCHANGED <<source, tab, openedHidden>>

\* start(), its end: the batch is sent if it is not empty, the timers are started.
StartSend(c) ==
  /\ stream[c].phase = "starting"
  /\ stream[c].todo = {}
  /\ Len(stream[c].chan) < MaxBuffered
  /\ LET s == [stream[c] EXCEPT !.phase = "polling"]
     IN  stream' = [stream EXCEPT
                      ![c] = IF s.batch = NoStatuses THEN s ELSE Send(s, s.batch)]
  /\ UNCHANGED <<serverCache, writer, source, tab, openedHidden>>

\* The poll timer of an active stream: all its ids are to be fetched again.
PollTick(c) ==
  /\ stream[c].phase = "polling"
  /\ stream[c].polling = {}
  /\ stream' = [stream EXCEPT ![c].polling = stream[c].ids]
  /\ UNCHANGED <<serverCache, writer, source, tab, openedHidden>>

\* Mutant: a status that changed is stored but not sent.
PollAnswerSilent(c) ==
  /\ Len(stream[c].chan) < MaxBuffered
  /\ \E p \in stream[c].polling, h \in Health :
       /\ stream' = [stream EXCEPT ![c].polling = IF Active(c) THEN @ \ {p} ELSE {}]
       /\ IF h \in {NoStatus, serverCache[p]}
            THEN UNCHANGED <<serverCache, writer>>
            ELSE /\ serverCache' = [serverCache EXCEPT ![p] = h]
                 /\ writer' = [writer EXCEPT ![p] = c]
  /\ UNCHANGED <<source, tab, openedHidden>>

\* A request of the running poll is answered.  Only a status that differs from the
\* cache all streams share is stored and sent.  A stream cancelled during the request
\* still stores the answer, and breaks off the loop before the next one.
PollAnswer(c) ==
  /\ Len(stream[c].chan) < MaxBuffered
  /\ \E p \in stream[c].polling, h \in Health :
       LET s == [stream[c] EXCEPT !.polling = IF Active(c) THEN @ \ {p} ELSE {}]
       IN  IF h \in {NoStatus, serverCache[p]}
             THEN /\ stream' = [stream EXCEPT ![c] = s]
                  /\ UNCHANGED <<serverCache, writer>>
             ELSE /\ stream' = [stream EXCEPT ![c] = Send(s, [NoStatuses EXCEPT ![p] = h])]
                  /\ serverCache' = [serverCache EXCEPT ![p] = h]
                  /\ writer' = [writer EXCEPT ![p] = c]
  /\ UNCHANGED <<source, tab, openedHidden>>

\* Mutant: the stream of a client that went away stays active.
CancelKeepsActive(c) ==
  /\ source[c] = "none"
  /\ Active(c)
  /\ stream' = [stream EXCEPT ![c].chan = <<>>]
  /\ UNCHANGED <<serverCache, writer, source, tab, openedHidden>>

\* cancel(): the server notices that the client closed the connection.
Cancel(c) ==
  /\ source[c] = "none"
  /\ Active(c)
  /\ stream' = [stream EXCEPT ![c].phase = "cancelled", ![c].chan = <<>>]
  /\ UNCHANGED <<serverCache, writer, source, tab, openedHidden>>

\* History: what the stream of a slot wrote is no longer its own once it is over.
Disowned(c) == [p \in Pipelines |-> IF writer[p] = c THEN NoConn ELSE writer[p]]

\* The last task of a cancelled stream has ended: its timers clear themselves.
StreamEnds(c) ==
  /\ stream[c].phase = "cancelled"
  /\ stream[c].todo = {} /\ stream[c].polling = {}
  /\ stream' = [stream EXCEPT ![c] = FreeStream]
  /\ writer' = Disowned(c)
  /\ UNCHANGED <<serverCache, source, tab, openedHidden>>

-----------------------------------------------------------------------------
(* The SSE manager of the tab *)

OpenSources == {c \in Conns : source[c] # "none"}

\* Mutant: the source is forgotten, not closed.
CloseCurrentNot(t) == source

\* The source this.eventSource points to is closed.
CloseCurrent(t) == IF t.cur = NoConn THEN source ELSE [source EXCEPT ![t.cur] = "none"]

\* Mutant: the reconnect timer is not cleared.
DisconnectedKeepsTimer(t) ==
  [t EXCEPT !.cur = NoConn, !.heartbeat = FALSE, !.state = "disconnected"]

\* disconnect()
Disconnected(t) ==
  [t EXCEPT !.cur = NoConn, !.timer = FALSE, !.heartbeat = FALSE, !.state = "disconnected"]

\* connect(), from the manager state t and the source states e.  It does not look
\* at this.eventSource: a source it still points to is left open.
Connect(t, e) ==
  IF t.subs = {} \/ t.fallback
    THEN /\ tab' = t
         /\ source' = e
         /\ UNCHANGED <<stream, openedHidden>>
    ELSE \E c \in {d \in Conns : e[d] = "none" /\ stream[d].phase = "free"} :
           /\ tab' = [t EXCEPT !.cur = c, !.state = "connecting"]
           /\ source' = [e EXCEPT ![c] = "connecting"]
           /\ stream' = [stream EXCEPT ![c] = NewStream(t.subs)]
           /\ openedHidden' = (openedHidden \/ t.hidden)

\* reconnect()
Reconnect(t) == Connect(Disconnected(t), CloseCurrent(t))

\* Mutant: no reconnect is scheduled.
ConnectionErrorWithoutTimer(t) ==
  LET a == IF t.attempts < MaxReconnectAttempts THEN t.attempts + 1 ELSE t.attempts
      closed == [t EXCEPT !.cur = NoConn, !.heartbeat = FALSE, !.attempts = a]
  IN  IF a >= MaxReconnectAttempts
        THEN [closed EXCEPT !.state = "error", !.fallback = TRUE]
        ELSE [closed EXCEPT !.state = "reconnecting"]

\* handleConnectionError(): also reached from a source that is not the current one.
\* attempts is only compared with the maximum, so it saturates there.
ConnectionError(t) ==
  LET a == IF t.attempts < MaxReconnectAttempts THEN t.attempts + 1 ELSE t.attempts
      closed == [t EXCEPT !.cur = NoConn, !.heartbeat = FALSE, !.attempts = a]
  IN  IF a >= MaxReconnectAttempts
        THEN [closed EXCEPT !.state = "error", !.fallback = TRUE]
        ELSE [closed EXCEPT !.state = "reconnecting", !.timer = TRUE,
                            !.stray = IF t.timer /\ @ < MaxStrayTimers THEN @ + 1 ELSE @]

\* usePipelineMonitoringSSE on mount: subscribe(ids).
MountMonitoring ==
  /\ tab.subs = {}
  /\ \E ids \in SUBSET Pipelines \ {{}} : Reconnect([tab EXCEPT !.subs = ids])
  /\ UNCHANGED <<serverCache, writer>>

\* unsubscribe(ids) of all ids: cached statuses are dropped, the source closed.
Unsubscribed(t) == Disconnected([t EXCEPT !.subs = {}, !.cache = NoStatuses])

\* The effect's cleanup on unmount.
UnmountMonitoring ==
  /\ tab.subs # {}
  /\ tab' = Unsubscribed(tab)
  /\ source' = CloseCurrent(tab)
  /\ UNCHANGED <<serverCache, writer, stream, openedHidden>>

\* The ids of the page change: React runs the cleanup with the old ids, then the
\* effect with the new ones, which subscribes to all of them anew.
ChangeIds ==
  /\ tab.subs # {}
  /\ \E ids \in SUBSET Pipelines \ {{}, tab.subs} :
       Connect([Unsubscribed(tab) EXCEPT !.subs = ids], CloseCurrent(tab))
  /\ UNCHANGED <<serverCache, writer>>

\* onopen of a source, whichever it is.
OnOpen(c) ==
  /\ source[c] = "connecting"
  /\ Active(c)
  /\ source' = [source EXCEPT ![c] = "open"]
  /\ tab' = [tab EXCEPT !.state = "connected", !.attempts = 0, !.heartbeat = TRUE]
  /\ UNCHANGED <<serverCache, writer, stream, openedHidden>>

\* handleStatusUpdate and handleBatchUpdate: the update goes to the cache and the
\* listeners whether or not its source is the current one.
Deliver(c) ==
  /\ source[c] = "open"
  /\ stream[c].chan # <<>>
  /\ LET update == Head(stream[c].chan)
     IN  tab' = [tab EXCEPT !.cache = [p \in Pipelines |->
                   IF update[p] = NoStatus THEN @[p] ELSE update[p]]]
  /\ stream' = [stream EXCEPT ![c].chan = Tail(@)]
  /\ UNCHANGED <<serverCache, writer, source, openedHidden>>

\* onerror of a source: the connection failed.  The manager closes its current
\* source; if the failed one is another, the browser reconnects that by itself.
OnError(c) ==
  /\ source[c] # "none"
  /\ IF c = tab.cur
       THEN /\ source' = CloseCurrent(tab)
            /\ UNCHANGED <<stream, writer>>
       ELSE /\ stream[c].polling = {} /\ stream[c].todo = {}
            /\ source' = [CloseCurrent(tab) EXCEPT ![c] = "connecting"]
            /\ stream' = [stream EXCEPT ![c] = NewStream(@.ids)]
            /\ writer' = Disowned(c)
  /\ tab' = ConnectionError(tab)
  /\ UNCHANGED <<serverCache, openedHidden>>

\* The heartbeat check finds no heartbeat within heartbeatTimeout (a stalled
\* connection, or the server's clock behind: lastHeartbeat is a server timestamp).
HeartbeatTimeout ==
  /\ tab.heartbeat
  /\ tab' = ConnectionError(tab)
  /\ source' = CloseCurrent(tab)
  /\ UNCHANGED <<serverCache, writer, stream, openedHidden>>

\* The timeout set by handleConnectionError: connect().
ReconnectTimer ==
  /\ tab.timer
  /\ Connect([tab EXCEPT !.timer = FALSE], source)
  /\ UNCHANGED <<serverCache, writer>>

\* A timeout whose id a second handleConnectionError overwrote.
StrayTimer ==
  /\ tab.stray > 0
  /\ Connect([tab EXCEPT !.stray = @ - 1], source)
  /\ UNCHANGED <<serverCache, writer>>

\* resetFallback of useSSEFallbackState: the flag is reset, reconnect().
ResetFallback ==
  /\ tab.fallback
  /\ Reconnect([tab EXCEPT !.fallback = FALSE, !.attempts = 0])
  /\ UNCHANGED <<serverCache, writer>>

\* visibilitychange to hidden: disconnect().
TabHidden ==
  /\ ~tab.hidden
  /\ tab' = Disconnected([tab EXCEPT !.hidden = TRUE])
  /\ source' = CloseCurrent(tab)
  /\ UNCHANGED <<serverCache, writer, stream, openedHidden>>

\* visibilitychange to visible: connect() if there is anything to watch.
TabVisible ==
  /\ tab.hidden
  /\ Connect([tab EXCEPT !.hidden = FALSE], source)
  /\ UNCHANGED <<serverCache, writer>>

-----------------------------------------------------------------------------
ServerStep(c) ==
  \/ StartFetch(c) \/ StartSend(c) \/ PollAnswer(c)
  \/ Cancel(c) \/ StreamEnds(c)

StreamNext ==
  \/ \E c \in Conns : ServerStep(c) \/ PollTick(c) \/ OnOpen(c) \/ Deliver(c) \/ OnError(c)
  \/ MountMonitoring \/ UnmountMonitoring \/ ChangeIds \/ HeartbeatTimeout
  \/ ReconnectTimer \/ StrayTimer \/ ResetFallback \/ TabHidden \/ TabVisible

StreamSpec == StreamInit /\ [][StreamNext]_streamVars

\* Timers fire, requests are answered or time out (REQUEST_TIMEOUT_MS), delivered
\* events are handled: the steps nothing but the runtime is needed for.
StreamFairness ==
  /\ \A c \in Conns :
       /\ WF_streamVars(StartFetch(c)) /\ WF_streamVars(StartSend(c))
       /\ WF_streamVars(PollAnswer(c))
       /\ WF_streamVars(Cancel(c)) /\ WF_streamVars(StreamEnds(c))
       /\ WF_streamVars(OnOpen(c)) /\ WF_streamVars(Deliver(c))
  /\ WF_streamVars(ReconnectTimer)
FairStreamSpec == StreamSpec /\ StreamFairness

-----------------------------------------------------------------------------
(* Properties *)

\* The types of the variables.
StreamTypeOK ==
  /\ serverCache \in [Pipelines -> StreamStatuses \union {NoStatus}]
  /\ writer \in [Pipelines -> Conns \union {NoConn}]
  /\ source \in [Conns -> {"none", "connecting", "open"}]
  /\ \A c \in Conns :
       /\ stream[c].phase \in {"free", "starting", "polling", "cancelled"}
       /\ stream[c].todo \subseteq stream[c].ids
       /\ stream[c].polling \subseteq stream[c].ids
       /\ Len(stream[c].chan) <= MaxBuffered
  /\ tab.cur \in Conns \union {NoConn}
  /\ tab.state \in {"disconnected", "connecting", "connected", "reconnecting", "error"}
  /\ tab.attempts \in 0..MaxReconnectAttempts
  /\ tab.stray \in 0..MaxStrayTimers

\* "Single EventSource connection per browser tab" (pipeline-sse-manager.ts:8): two
\* sources are open at once only in a tab that connected while it was hidden,
\* because connect() on the way back to visible forgets the source it finds.
SingleEventSource == Cardinality(OpenSources) > 1 => openedHidden

\* A status the manager holds belongs to a pipeline some mounted component watches:
\* unsubscribing drops it, and no late event of a closed source brings it back.
NoGhostStatus == ~openedHidden => \A p \in Pipelines \ tab.subs : tab.cache[p] = NoStatus

\* "connected" is shown only while the current source is open and the heartbeat
\* check runs that would notice its silence.
ConnectedIsWatched ==
  ~openedHidden /\ tab.state = "connected" =>
    tab.cur # NoConn /\ source[tab.cur] = "open" /\ tab.heartbeat

\* A reconnect timer is pending exactly in the state "reconnecting", when no source
\* is open, and its id is known: leaving the page or hiding the tab cancels it.
TimerWhileReconnecting ==
  ~openedHidden =>
    /\ tab.timer <=> tab.state = "reconnecting"
    /\ tab.timer => OpenSources = {}
    /\ tab.stray = 0

\* What the manager shows agrees with what it does: a known status is one it watches, a
\* connection it claims is open, alone and watched, a pending reconnect is announced (all
\* but in a tab that connected while it was hidden).
TabConsistent ==
  SingleEventSource /\ NoGhostStatus /\ ConnectedIsWatched /\ TimerWhileReconnecting

\* What a polling stream told its client about a pipeline differs from the shared
\* cache only when another stream wrote that entry.
UnsentIsAnothers ==
  \A c \in Conns, p \in Pipelines :
    stream[c].phase = "polling" /\ writer[p] = c => stream[c].sent[p] = serverCache[p]

\* "the server polls the backend and broadcasts changes to all connected clients"
\* (route.ts:5): once no stream is starting or ending, the cached status of a pipeline has
\* been sent to every stream that asked for it and got a status at its start.
BroadcastToAll ==
  (\A c \in Conns : stream[c].phase \in {"free", "polling"})
    => \A c \in Conns, p \in Pipelines :
         stream[c].phase = "polling" /\ stream[c].sent[p] # NoStatus
           => stream[c].sent[p] = serverCache[p]

\* A stream whose client went away ends: no poll timer survives it.
StreamsEnd == \A c \in Conns : (Active(c) /\ source[c] = "none") ~> stream[c].phase = "free"

\* A visible page that watches something gets its connection back, unless it has
\* given up for good (the fallback flag), is hidden or watches nothing.
Reconnects ==
  (tab.state \in {"connecting", "reconnecting"})
    ~> \/ tab.state = "connected" \/ tab.fallback
       \/ tab.hidden \/ tab.subs = {}
=============================================================================
