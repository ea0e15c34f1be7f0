-------------------------- MODULE PipelineTracking --------------------------
(***************************************************************************)
(* Operations on pipelines in the web UI: the menus that offer them         *)
(* (utils/pipeline-actions.ts), the handlers that run them                  *)
(* (modules/pipelines/usePipelineListOperations.ts and PipelineDetailsHeader)*)
(* and the polling they start (services/pipeline-state-manager.ts and       *)
(* services/pipeline-status-manager.ts).                                    *)
(*                                                                         *)
(* A tracker is one polling loop.  The manager's map holds at most one per  *)
(* pipeline, but a tracker that was replaced or stopped while its health    *)
(* request was under way lives on until that request is answered.           *)
(***************************************************************************)
EXTENDS Naturals, FiniteSets

CONSTANTS
  TrackedPipelines,
  Trackers,        \* slots for tracker objects
  NoTracker,
  MaxErrors,       \* MAX_ERROR_COUNT
  MaxTicks(_),     \* timer ticks an operation's tracker lives: its maxDurationMinutes
  OperationBounds  \* bounds: sets of [ops, pages], the operations started in a behaviour
                   \* and the times its page is replaced

ASSUME TrackingAssumption == NoTracker \notin Trackers /\ MaxErrors \in Nat \ {0}

Operations == {"stop", "resume", "terminate", "delete", "edit", "rename"}

PipelineStatuses ==
  {"starting", "active", "resuming", "stopping", "stopped", "terminating", "failed"}

Transitional == {"stopping", "resuming", "terminating"}

VARIABLES
  backend,        \* the status the API has for each pipeline, "gone" when deleted
  shown,          \* the status the page shows: the last one streamed to it
  listed,         \* the status the page was loaded with: pipeline.status
  trackedBy,      \* the manager's map: pipeline -> tracker
  tracker,        \* the tracker objects
  pipelineState,  \* the state manager's map: pipeline -> status
  requests,       \* the handlers under way: sets of [op, phase, retry, orphan, was]
  loading,        \* pipelineOperations[p].isLoading of the mounted page
  retryOffered,   \* the operation an error toast offers to retry, if any
  sync,           \* the backend sync under way: the ids it saw, the ids it misses
  left,           \* how many operations and page replacements the bounds still allow
  seen            \* history, per pipeline: "late", a tracker no longer in the map handled an
                  \* answer; "gaveUp", a tracker ended before a final status; "wentBack", a
                  \* failed handler restored a transitional status; "retried", by a toast

trackingVars == <<backend, shown, listed, trackedBy, tracker, pipelineState, requests, loading,
          retryOffered, sync, left, seen>>

FreeTracker ==
  [pipe |-> NoTracker, op |-> "none", phase |-> "free", active |-> FALSE,
   answer |-> "none", current |-> "none", errors |-> 0, ticks |-> 0]

NoSync == [ids |-> {}, missing |-> {}, read |-> FALSE]

TrackingInit ==
  /\ backend \in [TrackedPipelines -> {"active", "stopped"}]
  /\ shown = backend
  /\ listed = backend
  /\ trackedBy = [p \in TrackedPipelines |-> NoTracker]
  /\ tracker = [k \in Trackers |-> FreeTracker]
  /\ pipelineState = [p \in TrackedPipelines |-> "none"]
  /\ requests = [p \in TrackedPipelines |-> {}]
  /\ loading = [p \in TrackedPipelines |-> FALSE]
  /\ retryOffered = [p \in TrackedPipelines |-> "none"]
  /\ sync = NoSync
  /\ left \in OperationBounds
  /\ seen = [p \in TrackedPipelines |-> {}]

-----------------------------------------------------------------------------
(* The menus: getBaseActionConfig *)

\* The statuses in which an action is disabled.
DisabledIn(action) ==
  CASE action \in {"edit", "rename"} -> {"starting", "pausing", "stopping"}
    [] action = "terminate" -> {"failed", "terminating", "stopped", "terminated"}
    [] action = "delete" -> {"starting", "active", "paused", "pausing", "stopping", "terminating"}
    [] action = "stop" -> {"stopped", "stopping", "starting", "resuming", "terminating",
                           "terminated", "failed"}
    [] action = "resume" -> {"active", "starting", "resuming", "stopping", "terminating"}

\* shouldShowAction, outside demo mode.
Enabled(action, status) == status \notin DisabledIn(action)

-----------------------------------------------------------------------------
(* The status manager *)

Final(s) == s \in {"stopped", "failed"}

\* Mutant: only the timer is cleared; a loop that waits for an answer goes on.
DestroyedKeepsActive(k) == IF k.phase = "timer" THEN FreeTracker ELSE k

\* destroyTracker: the timer is cleared; a request under way is not.
Destroyed(k) ==
  IF k.phase = "timer" THEN FreeTracker ELSE [k EXCEPT !.active = FALSE]

\* stopTracking(p), applied to the tracker objects and to the map.
Stopped(t, map, p) ==
  IF map[p] = NoTracker THEN t ELSE [t EXCEPT ![map[p]] = Destroyed(@)]
Unmapped(map, p) == [map EXCEPT ![p] = NoTracker]

\* trackPipeline(p): the tracker of the pipeline is replaced by a new one.
TrackPipeline(p, op) ==
  \E k \in {j \in Trackers : \/ tracker[j].phase = "free"
                             \/ j = trackedBy[p] /\ tracker[j].phase = "timer"} :
    /\ tracker' = [Stopped(tracker, trackedBy, p) EXCEPT
         ![k] = [FreeTracker EXCEPT !.pipe = p, !.op = op, !.phase = "timer", !.active = TRUE]]
    /\ trackedBy' = [trackedBy EXCEPT ![p] = k]

\* Mutant: the elapsed time is not looked at.
TickForEver(k) ==
  /\ tracker[k].phase = "timer"
  /\ tracker' = [tracker EXCEPT ![k].phase = "asked"]
  /\ UNCHANGED <<left, backend, shown, listed, trackedBy, pipelineState, requests, loading,
                 retryOffered, sync, seen>>

\* The timer of a tracker: it gives up after its maximal duration, or asks again.
Tick(k) ==
  /\ tracker[k].phase = "timer"
  /\ LET t == [tracker EXCEPT ![k].ticks = @ + 1]
         p == tracker[k].pipe
     IN  IF t[k].ticks >= MaxTicks(t[k].op)
           THEN /\ tracker' = Stopped(t, trackedBy, p)
                /\ trackedBy' = Unmapped(trackedBy, p)
                /\ seen' = [seen EXCEPT ![p] = @ \union {"gaveUp"}]
           ELSE /\ tracker' = [t EXCEPT ![k].phase = "asked"]
                /\ UNCHANGED <<trackedBy, seen>>
  /\ UNCHANGED <<left, backend, shown, listed, pipelineState, requests, loading, retryOffered,
                 sync>>

\* The API answers the health request, or the request fails.
HealthAnswers(k) ==
  /\ tracker[k].phase = "asked"
  /\ \E a \in {"error"} \union ({backend[tracker[k].pipe]} \ {"gone"}) :
       tracker' = [tracker EXCEPT ![k].phase = "answered", ![k].answer = a]
  /\ UNCHANGED <<left, backend, shown, listed, trackedBy, pipelineState, requests, loading,
                 retryOffered, sync, seen>>

\* Mutant: one error more than the limit is tolerated.
HandleAnswerOneMore(k) ==
  /\ tracker[k].phase = "answered"
  /\ LET p == tracker[k].pipe
         a == tracker[k].answer
         t == IF a = "error" THEN [tracker EXCEPT ![k].errors = @ + 1]
                             ELSE [tracker EXCEPT ![k].errors = 0, ![k].current = a]
         ends == IF a = "error" THEN t[k].errors > MaxErrors ELSE Final(a)
     IN  /\ trackedBy' = IF ends THEN Unmapped(trackedBy, p) ELSE trackedBy
         /\ tracker' = [(IF ends THEN Stopped(t, trackedBy, p) ELSE t) EXCEPT
              ![k] = IF @.active THEN [@ EXCEPT !.phase = "timer", !.answer = "none"]
                     ELSE FreeTracker]
  /\ UNCHANGED <<left, backend, shown, listed, pipelineState, requests, loading, retryOffered,
                 sync, seen>>

\* performStatusCheck after its await.  It does not ask whether the tracker is still
\* active: a final answer or too many errors stop whatever tracker the map holds now.
HandleAnswer(k) ==
  /\ tracker[k].phase = "answered"
  /\ LET p == tracker[k].pipe
         a == tracker[k].answer
         t == IF a = "error" THEN [tracker EXCEPT ![k].errors = @ + 1]
                             ELSE [tracker EXCEPT ![k].errors = 0, ![k].current = a]
         ends == IF a = "error" THEN t[k].errors >= MaxErrors ELSE Final(a)
         u == IF ends THEN Stopped(t, trackedBy, p) ELSE t
         map == IF ends THEN Unmapped(trackedBy, p) ELSE trackedBy
     IN  /\ trackedBy' = map
         /\ tracker' = [u EXCEPT ![k] = IF @.active
                                          THEN [@ EXCEPT !.phase = "timer", !.answer = "none"]
                                          ELSE FreeTracker]
         /\ pipelineState' = [pipelineState EXCEPT
              ![p] = IF a # "error" /\ a # tracker[k].current THEN a ELSE @]
         /\ seen' = [seen EXCEPT ![p] = @ \union (IF tracker[k].active THEN {} ELSE {"late"})
                                          \union (IF ends /\ a = "error" THEN {"gaveUp"} ELSE {})]
  /\ UNCHANGED <<left, backend, shown, listed, requests, loading, retryOffered, sync>>

\* detectOrphanedPipelines: the tracked ids are read before the list is fetched.
SyncStart ==
  /\ sync = NoSync
  /\ \E p \in TrackedPipelines : trackedBy[p] # NoTracker
  /\ sync' = [NoSync EXCEPT !.ids = {p \in TrackedPipelines : trackedBy[p] # NoTracker}]
  /\ UNCHANGED <<left, backend, shown, listed, trackedBy, tracker, pipelineState, requests, loading,
                 retryOffered, seen>>

\* The API lists its pipelines, or the request fails and the sync is over.
SyncAnswers ==
  /\ sync.ids # {} /\ ~sync.read
  /\ \/ sync' = [sync EXCEPT !.missing = {p \in sync.ids : backend[p] = "gone"}, !.read = TRUE]
     \/ sync' = NoSync
  /\ UNCHANGED <<left, backend, shown, listed, trackedBy, tracker, pipelineState, requests, loading,
                 retryOffered, seen>>

\* The trackers of the ids that are missing in the list are stopped.
SyncHandle ==
  /\ sync.read
  /\ tracker' = [k \in Trackers |->
       IF \E p \in sync.missing : trackedBy[p] = k THEN Destroyed(tracker[k]) ELSE tracker[k]]
  /\ trackedBy' = [p \in TrackedPipelines |->
                     IF p \in sync.missing THEN NoTracker ELSE trackedBy[p]]
  /\ seen' = [p \in TrackedPipelines |->
                seen[p] \union (IF p \in sync.missing THEN {"gaveUp"} ELSE {})]
  /\ sync' = NoSync
  /\ UNCHANGED <<left, backend, shown, listed, pipelineState, requests, loading, retryOffered>>

-----------------------------------------------------------------------------
(* The operations *)

\* reportStop, reportResume, reportTerminate, reportDelete: the optimistic status.
Optimistic(op) ==
  CASE op \in {"stop", "edit"} -> "stopping"
    [] op = "resume" -> "resuming"
    [] op = "terminate" -> "terminating"
    [] op = "delete" -> "stopped"

\* Mutant: a resumed pipeline is not tracked.
TrackedButResume(op) == op \in {"stop", "edit", "terminate"}

\* shouldTrackOperation; an edit from the list reports a stop.
Tracked(op) == op \in {"stop", "edit", "resume", "terminate"}

\* revertOptimisticUpdate, with the status the handler's catch block passes it.
Reverted(r) ==
  CASE r.op \in {"stop", "edit"} -> "active"
    [] r.op = "resume" -> "stopped"
    [] OTHER -> r.was

\* The part of a handler before its await: report the operation, send the request.
Report(p, op, retry) ==
  /\ left.ops > 0
  /\ left' = [left EXCEPT !.ops = @ - 1]
  /\ [op |-> op, phase |-> "sent", retry |-> retry, orphan |-> FALSE, was |-> listed[p]]
       \notin requests[p]
  /\ requests' = [requests EXCEPT ![p] = @ \union
       {[op |-> op, phase |-> "sent", retry |-> retry, orphan |-> FALSE, was |-> listed[p]]}]
  /\ loading' = [loading EXCEPT ![p] = TRUE]
  /\ pipelineState' = IF op = "rename" THEN pipelineState
                      ELSE [pipelineState EXCEPT ![p] = Optimistic(op)]
  /\ IF Tracked(op) THEN TrackPipeline(p, IF op = "edit" THEN "stop" ELSE op)
                    ELSE UNCHANGED <<tracker, trackedBy>>

\* A menu item is chosen, its modal confirmed: handleStopConfirm, handleResume,
\* handleTerminateConfirm, handleDelete, handleEditConfirm, handleRenameConfirm.
\* Only an active pipeline is stopped for an edit (handleEdit).
Start(p, op) ==
  /\ ~loading[p]
  /\ Enabled(op, shown[p])
  /\ op = "edit" => shown[p] = "active"
  /\ Report(p, op, FALSE)
  /\ listed' = IF op = "edit" THEN [listed EXCEPT ![p] = "stopping"] ELSE listed
  /\ UNCHANGED <<backend, shown, retryOffered, sync, seen>>

\* "Try again" on the toast of a failed stop or delete: whatever is under way by then.
Retry(p) ==
  /\ retryOffered[p] # "none"
  /\ Report(p, retryOffered[p], TRUE)
  /\ retryOffered' = [retryOffered EXCEPT ![p] = "none"]
  /\ seen' = [seen EXCEPT ![p] = @ \union {"retried"}]
  /\ UNCHANGED <<backend, shown, listed, sync>>

\* The status with which the API carries out an operation; "none": it refuses.
CarriedOut(op, s) ==
  CASE op \in {"stop", "edit"} /\ s = "active" -> "stopping"
    [] op = "resume" /\ s \in {"stopped", "failed"} -> "resuming"
    [] op = "terminate" /\ s \in {"active", "stopping", "resuming"} -> "terminating"
    [] op = "delete" /\ s \in {"stopped", "failed"} -> "gone"
    [] op = "rename" /\ s # "gone" -> s
    [] OTHER -> "none"

\* The API carries out or refuses a request; the answer of one it carried out may
\* be lost, which the handler takes for a failure.
Respond(p, r) ==
  /\ r \in requests[p] /\ r.phase = "sent"
  /\ LET s == CarriedOut(r.op, backend[p])
     IN  \/ /\ s # "none"
            /\ backend' = [backend EXCEPT ![p] = s]
            /\ \E ph \in {"ok", "failed"} :
                 requests' = [requests EXCEPT ![p] = (@ \ {r}) \union {[r EXCEPT !.phase = ph]}]
         \/ /\ UNCHANGED backend
            /\ requests' = [requests EXCEPT ![p] = (@ \ {r}) \union {[r EXCEPT !.phase = "failed"]}]
  /\ UNCHANGED <<left, shown, listed, trackedBy, tracker, pipelineState, loading, retryOffered,
                 sync, seen>>

\* Mutant: the flag is cleared after a success only.
FinishClearsOnSuccess(p, r) ==
  /\ r \in requests[p] /\ r.phase \in {"ok", "failed"}
  /\ requests' = [requests EXCEPT ![p] = @ \ {r}]
  /\ loading' = IF r.orphan \/ r.phase = "failed" THEN loading ELSE [loading EXCEPT ![p] = FALSE]
  /\ UNCHANGED <<left, backend, shown, listed, trackedBy, tracker, pipelineState, retryOffered,
                 sync, seen>>

\* The handler's catch block, if the request failed, and its finally block.  A retried
\* stop reverts nothing.  setState on a page that is gone has no effect.
Finish(p, r) ==
  /\ r \in requests[p] /\ r.phase \in {"ok", "failed"}
  /\ requests' = [requests EXCEPT ![p] = @ \ {r}]
  /\ loading' = IF r.orphan THEN loading ELSE [loading EXCEPT ![p] = FALSE]
  /\ pipelineState' =
       IF r.phase = "ok" \/ r.op = "rename" \/ (r.op = "stop" /\ r.retry)
         THEN pipelineState
         ELSE [pipelineState EXCEPT ![p] = Reverted(r)]
  /\ retryOffered' =
       IF r.phase = "failed" /\ r.op \in {"stop", "delete"} /\ (r.op = "delete" \/ ~r.retry)
         THEN [retryOffered EXCEPT ![p] = r.op] ELSE retryOffered
  /\ listed' = IF r.op = "edit" /\ ~r.orphan
                 THEN [listed EXCEPT ![p] = IF r.phase = "ok" THEN "stopped" ELSE r.was] ELSE listed
  /\ seen' = IF pipelineState' # pipelineState /\ r.was \in Transitional
               THEN [seen EXCEPT ![p] = @ \union {"wentBack"}] ELSE seen
  /\ UNCHANGED <<left, backend, shown, trackedBy, tracker, sync>>

\* The page is replaced (navigation, or a refresh of the list, which unmounts it):
\* its loading flags are lost, its handlers run on.  The new one loads the pipelines.
PageReplaced ==
  /\ left.pages > 0
  /\ left' = [left EXCEPT !.pages = @ - 1]
  /\ loading' = [p \in TrackedPipelines |-> FALSE]
  /\ requests' = [p \in TrackedPipelines |-> {[r EXCEPT !.orphan = TRUE] : r \in requests[p]}]
  /\ listed' = [p \in TrackedPipelines |-> IF backend[p] = "gone" THEN listed[p] ELSE backend[p]]
  /\ shown' = listed'
  /\ UNCHANGED <<backend, trackedBy, tracker, pipelineState, retryOffered, sync, seen>>

\* The backend completes a transition, or the pipeline fails.
BackendProceeds(p) ==
  /\ backend' = [backend EXCEPT ![p] =
       CASE backend[p] = "stopping" -> "stopped"
         [] backend[p] = "resuming" -> "active"
         [] backend[p] = "terminating" -> "stopped"
         [] backend[p] = "active" -> "failed"
         [] OTHER -> backend[p]]
  /\ backend' # backend
  /\ UNCHANGED <<left, shown, listed, trackedBy, tracker, pipelineState, requests, loading,
                 retryOffered, sync, seen>>

\* The status stream brings the page up to date.
StatusShown(p) ==
  /\ backend[p] # "gone" /\ shown[p] # backend[p]
  /\ shown' = [shown EXCEPT ![p] = backend[p]]
  /\ UNCHANGED <<left, backend, listed, trackedBy, tracker, pipelineState, requests, loading,
                 retryOffered, sync, seen>>

-----------------------------------------------------------------------------
TrackingNext ==
  \/ \E k \in Trackers : Tick(k) \/ HealthAnswers(k) \/ HandleAnswer(k)
  \/ SyncStart \/ SyncAnswers \/ SyncHandle \/ PageReplaced
  \/ \E p \in TrackedPipelines :
       \/ \E op \in Operations : Start(p, op)
       \/ Retry(p) \/ BackendProceeds(p) \/ StatusShown(p)
       \/ \E r \in requests[p] : Respond(p, r) \/ Finish(p, r)

TrackingSpec == TrackingInit /\ [][TrackingNext]_trackingVars

\* Timers fire, requests are answered or time out, and handlers run to their end.
TrackingFairness ==
  /\ \A k \in Trackers :
       /\ WF_trackingVars(Tick(k)) /\ WF_trackingVars(HealthAnswers(k))
       /\ WF_trackingVars(HandleAnswer(k))
  /\ \A p \in TrackedPipelines :
       /\ WF_trackingVars(\E r \in requests[p] : Respond(p, r))
       /\ WF_trackingVars(\E r \in requests[p] : Finish(p, r))
FairTrackingSpec == TrackingSpec /\ TrackingFairness

-----------------------------------------------------------------------------
(* Properties *)

\* The types of the variables.
TrackingTypeOK ==
  /\ backend \in [TrackedPipelines -> PipelineStatuses \union {"gone"}]
  /\ shown \in [TrackedPipelines -> PipelineStatuses]
  /\ trackedBy \in [TrackedPipelines -> Trackers \union {NoTracker}]
  /\ \A k \in Trackers :
       /\ tracker[k].phase \in {"free", "timer", "asked", "answered"}
       /\ tracker[k].errors \in 0..(MaxErrors - 1)
  /\ pipelineState \in [TrackedPipelines -> PipelineStatuses \union {"none"}]
  /\ loading \in [TrackedPipelines -> BOOLEAN]
  /\ sync.missing \subseteq sync.ids

\* The polling loops that go on are exactly those of the manager's map: replacing or
\* stopping a tracker leaves no loop behind, whatever its request was doing.
OneLoopPerPipeline ==
  \A k \in Trackers :
    tracker[k].active <=>
      /\ tracker[k].phase # "free"
      /\ \E p \in TrackedPipelines : trackedBy[p] = k /\ tracker[k].pipe = p

\* The polling loops are those of the map, and a status that only announces a transition is
\* backed by a tracker that will replace it, unless a tracker gave up, an answer came to one
\* already replaced, or a failed handler went back to the transition its page was loaded with.
TransitionIsFollowed ==
  /\ OneLoopPerPipeline
  /\ \A p \in TrackedPipelines :
       pipelineState[p] \in Transitional /\ seen[p] \intersect {"late", "gaveUp", "wentBack"} = {}
         => trackedBy[p] # NoTracker

\* Polling ends: by a final status, by errors or by the maximal duration of an operation.
LoopsEnd == \A p \in TrackedPipelines : trackedBy[p] # NoTracker ~> trackedBy[p] = NoTracker

\* No operation leaves its row loading for ever.
LoadingEnds == \A p \in TrackedPipelines : loading[p] ~> ~loading[p]

\* "These operations have transitions that need tracking" (pipeline-state-manager.ts:149):
\* while a resumed pipeline has not become active, and its tracker did not give up on
\* time or errors, it is tracked.
ResumeIsTracked ==
  \A p \in TrackedPipelines :
    backend[p] = "resuming" /\ "gaveUp" \notin seen[p] => trackedBy[p] # NoTracker
=============================================================================
