---------------------------- MODULE LocalPipeline ----------------------------
(***************************************************************************)
(* The control plane of a local deployment: PipelineService                *)
(* (internal/service/pipeline.go) reads and writes the status of a         *)
(* pipeline in Postgres, LocalOrchestrator (internal/orchestrator/         *)
(* docker.go) starts, stops, resumes and watches the runners of the one    *)
(* active pipeline under the mutex d.m.                                    *)
(*                                                                         *)
(* Runners are numbered in the order SetupPipeline starts them: the        *)
(* ingestors 1..NI, then the join if there is one, then the sink, number   *)
(* N.  A runner (service/*_runner.go) holds its current component and the  *)
(* channel doneCh, which Start makes anew and the component closes when    *)
(* it ends.                                                                *)
(*                                                                         *)
(* The control is kept whole.  Of the data only one bit is kept: whether   *)
(* the consumer of the join, or of the sink, still has messages pending.   *)
(***************************************************************************)
EXTENDS Integers, FiniteSets

CONSTANTS
    Pipelines,      \* ids of pipelines
    Clients,        \* concurrent API requests
    Cleaners,       \* goroutines `go d.StopPipeline` and the one of a SIGTERM
    Watchers,       \* goroutines of startRunnerWatcher, each used once
    Nobody,         \* no goroutine; also context.Background
    NoPipeline,     \* d.id = ""
    NI,             \* ingestor runners (topics and replicas)
    HasJoin,        \* pi.Join.Enabled
    Ops,            \* the operations clients ask for
    MaxRequests,    \* bound on API requests
    MaxFaults,      \* bound on errors of Postgres, NATS, Kafka or ClickHouse
    MaxFailures,    \* bound on components that end by themselves
    MaxCrashes      \* bound on ends of the process

ASSUME NamesAssumption ==
    /\ NoPipeline \notin Pipelines
    /\ Nobody \notin Clients \cup Cleaners \cup Watchers
    /\ Clients \cap Cleaners = {}
    /\ Watchers \cap (Clients \cup Cleaners) = {}

ASSUME BoundsAssumption ==
    /\ NI \in Nat \ {0}
    /\ HasJoin \in BOOLEAN
    /\ Ops \subseteq {"create", "stop", "terminate", "resume", "edit",
                      "resources", "delete"}
    /\ {MaxRequests, MaxFaults, MaxFailures, MaxCrashes} \subseteq Nat

VARIABLES
    db,         \* the pipelines table: status of each pipeline, or "absent"
    phase,      \* the API process: "up", "draining" after SIGTERM, "down"
    id,         \* d.id, the active pipeline
    mu,         \* holder of d.m
    rn,         \* the runners
    watcher,    \* the watcher goroutines
    wcur,       \* whose cancel function d.watcherCancel holds
    req,        \* API requests and cleaners: program counter and arguments
    pend,       \* consumers of a pipeline that have messages pending
    requests, faults, failures, crashes

vars == <<db, phase, id, mu, rn, watcher, wcur, req, pend,
          requests, faults, failures, crashes>>

counters == <<requests, faults, failures, crashes>>

N == NI + (IF HasJoin THEN 1 ELSE 0) + 1
Runners == 1..N
IsIngestor(x) == x <= NI
IsJoin(x) == NI < x /\ x < N
Procs == Clients \cup Cleaners

Statuses == {"Created", "Running", "Resuming", "Stopping", "Stopped",
             "Terminating", "Failed"}

\* done: doneCh is nil, open and held by a running component, closed, or dead:
\* made by a Start that failed, so nobody will ever close it.
\* orphans: components that run although the runner has started another one.
RunnerStates ==
    [ref : BOOLEAN, done : {"nil", "open", "closed", "dead"},
     own : {"none", "running", "finished"}, ctx : Watchers \cup {Nobody},
     orphans : SUBSET [pid : Pipelines \cup {NoPipeline},
                       ctx : Watchers \cup {Nobody}]]

Labels == {"idle", "write", "resources", "check", "lock", "setup", "watchers",
           "pause", "done", "resume", "ok", "err"}

ReqStates ==
    [pc : Labels,
     op : {"none", "create", "stop", "terminate", "resume", "edit",
           "resources", "delete", "cleanup", "exit"},
     pid : Pipelines \cup {NoPipeline}, k : 1..(N + 1)]

WatcherStates ==
    [pc : {"new", "idle", "lock", "check", "gone"}, cancelled : BOOLEAN,
     k : 1..(N + 1)]

\* Every variable keeps its type: the program counters, the runner records and
\* the database rows hold nothing else than what the code can write.
TypeOK ==
    /\ db \in [Pipelines -> Statuses \cup {"absent"}]
    /\ phase \in {"up", "draining", "down"}
    /\ id \in Pipelines \cup {NoPipeline}
    /\ mu \in Procs \cup Watchers \cup {Nobody}
    /\ rn \in [Runners -> RunnerStates]
    /\ watcher \in [Watchers -> WatcherStates]
    /\ wcur \in Watchers \cup {Nobody}
    /\ req \in [Procs -> ReqStates]
    /\ pend \in [Pipelines -> SUBSET Runners]
    /\ requests \in Nat /\ faults \in Nat /\ failures \in Nat /\ crashes \in Nat

-----------------------------------------------------------------------------
(* Status validation, internal/status/validation.go *)

StatusValidationMatrix ==
    [Created     |-> {"Running", "Terminating", "Failed"},
     Running     |-> {"Stopping", "Terminating", "Failed"},
     Resuming    |-> {"Running", "Terminating", "Failed"},
     Stopping    |-> {"Stopped", "Terminating", "Failed"},
     Stopped     |-> {"Resuming", "Failed"},
     Terminating |-> {"Stopped", "Failed"},
     Failed      |-> {"Resuming"}]

IsTransitionalStatus(s) == s \in {"Resuming", "Stopping", "Terminating"}

\* Mutant: the matrix is not consulted.
ValidateOnlyDifferent(s, operation) == s # operation

ValidatePipelineOperation(s, operation) ==
    /\ s # operation
    /\ IsTransitionalStatus(s) => operation = "Terminating"
    /\ operation \in StatusValidationMatrix[s]

\* The status an operation writes before it calls the orchestrator.
Target(op) ==
    CASE op = "create" -> "Running"
      [] op = "stop" -> "Stopping"
      [] op = "terminate" -> "Terminating"
      [] op = "resume" -> "Resuming"
      [] OTHER -> "Created"

Accepted(op, s) ==
    CASE op = "create" -> s = "absent"
      [] op \in {"edit", "resources", "delete"} -> s \in {"Stopped", "Failed"}
      [] OTHER -> s # "absent" /\ ValidatePipelineOperation(s, Target(op))

-----------------------------------------------------------------------------
(* Helpers *)

Idle == [pc |-> "idle", op |-> "none", pid |-> NoPipeline, k |-> 1]

Goto(c, l) == req' = [req EXCEPT ![c].pc = l]
GotoAt(c, l, i) == req' = [req EXCEPT ![c].pc = l, ![c].k = i]
Return(c) == req' = [req EXCEPT ![c] = Idle]

Fault == faults < MaxFaults /\ faults' = faults + 1
NoFault == faults' = faults

Unlock(c, l) == mu' = Nobody /\ Goto(c, l)

\* Runner.Start that succeeds: a component under context ctx and a new doneCh.
\* A component that is still running is forgotten, not stopped.
Launch(r, ctx) ==
    [ref |-> TRUE, done |-> "open", own |-> "running", ctx |-> ctx,
     orphans |-> r.orphans \cup
        (IF r.own = "running" THEN {[pid |-> id, ctx |-> r.ctx]} ELSE {})]

\* Runner.Start that fails: doneCh is new, the component is the old one.
LaunchFails(r) == [r EXCEPT !.ref = TRUE, !.done = "dead"]

\* A component ends and closes the doneCh it was given.
Ended(r) ==
    [r EXCEPT !.own = IF r.own = "running" THEN "finished" ELSE r.own,
              !.done = IF r.own = "running" /\ r.done = "open"
                       THEN "closed" ELSE r.done]

NewRunner == [ref |-> FALSE, done |-> "nil", own |-> "none", ctx |-> Nobody,
              orphans |-> {}]
NewWatcher == [pc |-> "new", cancelled |-> FALSE, k |-> 1]

\* Some component of runner x works for the active pipeline.
Active(x) ==
    /\ id # NoPipeline
    /\ rn[x].own = "running" \/ \E o \in rn[x].orphans : o.pid = id

-----------------------------------------------------------------------------
(* PipelineService: the part of a request before the orchestrator *)

\* GetPipeline and the validation of the operation. What is written later rests
\* on the status read here.
Receive(c, op, p) ==
    /\ phase = "up" /\ req[c].pc = "idle" /\ requests < MaxRequests
    /\ Accepted(op, db[p])
    /\ req' = [req EXCEPT ![c] =
            [pc |-> CASE op = "delete" -> "lock"
                      [] op = "resources" -> "check"
                      [] OTHER -> "write",
             op |-> op, pid |-> p, k |-> 1]]
    /\ requests' = requests + 1
    /\ UNCHANGED <<db, phase, id, mu, rn, watcher, wcur, pend,
                   faults, failures, crashes>>

\* InsertPipeline wants no row, UpdatePipelineStatus and UpdatePipeline want one.
RowFits(c) == (req[c].op = "create") <=> (db[req[c].pid] = "absent")

WriteStatus(c) ==
    /\ req[c].pc = "write" /\ RowFits(c)
    /\ db' = [db EXCEPT ![req[c].pid] = Target(req[c].op)]
    /\ Goto(c, CASE req[c].op = "create" -> "resources"
                 [] req[c].op = "edit" -> "check"
                 [] OTHER -> "lock")
    /\ UNCHANGED <<phase, id, mu, rn, watcher, wcur, pend, counters>>

WriteFails(c) ==
    /\ req[c].pc = "write"
    /\ Return(c)
    /\ (~RowFits(c) /\ NoFault) \/ Fault
    /\ UNCHANGED <<db, phase, id, mu, rn, watcher, wcur, pend,
                   requests, failures, crashes>>

\* UpsertPipelineResources of CreatePipeline; when it fails the row stays.
UpsertResources(c) ==
    /\ req[c].pc = "resources"
    /\ (Goto(c, "lock") /\ NoFault) \/ (Return(c) /\ Fault)
    /\ UNCHANGED <<db, phase, id, mu, rn, watcher, wcur, pend,
                   requests, failures, crashes>>

\* EditPipeline looks at d.id, releases d.m and takes it again in SetupPipeline.
EditCheck(c) ==
    /\ req[c].pc = "check" /\ mu = Nobody
    /\ Goto(c, IF id = req[c].pid THEN "lock" ELSE "err")
    /\ UNCHANGED <<db, phase, id, mu, rn, watcher, wcur, pend, counters>>

-----------------------------------------------------------------------------
(* LocalOrchestrator.SetupPipeline *)

SetupLock(c) ==
    /\ req[c].pc = "lock" /\ req[c].op \in {"create", "edit", "resources"}
    /\ mu = Nobody
    /\ \/ /\ id # NoPipeline            \* quota reached
          /\ Goto(c, "err")
          /\ UNCHANGED <<id, mu>>
       \/ /\ id = NoPipeline
          /\ id' = req[c].pid
          /\ mu' = c
          /\ GotoAt(c, "setup", 1)
    /\ UNCHANGED <<db, phase, rn, watcher, wcur, pend, counters>>

StartRunner(c) ==
    /\ req[c].pc = "setup" /\ req[c].k <= N
    /\ rn' = [rn EXCEPT ![req[c].k] = Launch(rn[req[c].k], Nobody)]
    /\ GotoAt(c, "setup", req[c].k + 1)
    /\ UNCHANGED <<db, phase, id, mu, watcher, wcur, pend, counters>>

\* An error of the ingestion streams or of the join block is assigned to an err
\* that shadows the one the deferred function looks at: nothing is cleaned up.
SetupFailsQuietly(c) ==
    /\ req[c].pc = "setup" /\ (req[c].k = 1 \/ IsJoin(req[c].k))
    /\ Fault
    /\ \/ rn' = rn
       \/ /\ IsJoin(req[c].k)
          /\ rn' = [rn EXCEPT ![req[c].k] = LaunchFails(rn[req[c].k])]
    /\ Unlock(c, "err")
    /\ UNCHANGED <<db, phase, id, watcher, wcur, pend,
                   requests, failures, crashes>>

\* The other errors start `go d.StopPipeline`. An ingestor that does not start
\* is not appended to d.ingestorRunners; the sink runner is already in d.
SetupFails(c, s) ==
    /\ req[c].pc = "setup" /\ req[c].k <= N /\ ~IsJoin(req[c].k)
    /\ req[s].pc = "idle"
    /\ Fault
    /\ rn' = IF IsIngestor(req[c].k) THEN rn
             ELSE [rn EXCEPT ![N] = LaunchFails(rn[N])]
    /\ mu' = Nobody
    /\ req' = [req EXCEPT ![c].pc = "err",
                          ![s] = [pc |-> "lock", op |-> "cleanup",
                                  pid |-> req[c].pid, k |-> 1]]
    /\ UNCHANGED <<db, phase, id, watcher, wcur, pend,
                   requests, failures, crashes>>

\* startRunnerWatcher: d.watcherCancel now cancels this watcher and no other.
StartWatcher(w) ==
    /\ watcher[w].pc = "new"
    /\ watcher' = [watcher EXCEPT ![w].pc = "idle"]
    /\ wcur' = w

SetupDone(c, w) ==
    /\ req[c].pc = "setup" /\ req[c].k = N + 1
    /\ StartWatcher(w)
    /\ Unlock(c, "ok")
    /\ UNCHANGED <<db, phase, id, rn, pend, counters>>

-----------------------------------------------------------------------------
(* LocalOrchestrator.StopPipeline, also for terminate, delete, cleanup, exit *)

StopLock(c) ==
    /\ req[c].pc = "lock"
    /\ req[c].op \in {"stop", "terminate", "delete", "cleanup", "exit"}
    /\ mu = Nobody
    /\ \/ /\ id # req[c].pid            \* mismatched pipeline id
          /\ Goto(c, "err")
          /\ UNCHANGED <<mu, watcher>>
       \/ /\ id = req[c].pid
          /\ mu' = c
          /\ watcher' = [w \in Watchers |->
                IF w = wcur THEN [watcher[w] EXCEPT !.cancelled = TRUE]
                ELSE watcher[w]]
          /\ Goto(c, "watchers")
    /\ UNCHANGED <<db, phase, id, rn, wcur, pend, counters>>

\* d.watcherWG.Wait, with d.m held: it returns when every watcher has returned.
WatchersGone(c) ==
    /\ req[c].pc = "watchers"
    /\ wcur = Nobody \/ \A w \in Watchers : watcher[w].pc \in {"new", "gone"}
    /\ GotoAt(c, "pause", 1)
    /\ UNCHANGED <<db, phase, id, mu, rn, watcher, wcur, pend, counters>>

SkipRunner(c) ==
    /\ req[c].pc = "pause" /\ req[c].k <= N
    /\ ~rn[req[c].k].ref
    /\ GotoAt(c, "pause", req[c].k + 1)
    /\ UNCHANGED <<db, phase, id, mu, rn, watcher, wcur, pend, counters>>

\* Mutant: pending messages are not waited for.
ShutdownAtOnce(c) ==
    /\ req[c].pc = "pause" /\ req[c].k <= N
    /\ rn[req[c].k].ref
    /\ rn' = [rn EXCEPT ![req[c].k] = Ended(rn[req[c].k])]
    /\ Goto(c, "done")
    /\ UNCHANGED <<db, phase, id, mu, watcher, wcur, pend, counters>>

\* The pending messages of the join and of the sink are waited for; an ingestor
\* is shut down at once.
Shutdown(c) ==
    /\ req[c].pc = "pause" /\ req[c].k <= N
    /\ rn[req[c].k].ref
    /\ req[c].k \notin pend[req[c].pid]
    /\ rn' = [rn EXCEPT ![req[c].k] = Ended(rn[req[c].k])]
    /\ Goto(c, "done")
    /\ UNCHANGED <<db, phase, id, mu, watcher, wcur, pend, counters>>

\* <-runner.Done()
AwaitDone(c) ==
    /\ req[c].pc = "done"
    /\ rn[req[c].k].done = "closed"
    /\ GotoAt(c, "pause", req[c].k + 1)
    /\ UNCHANGED <<db, phase, id, mu, rn, watcher, wcur, pend, counters>>

\* Mutant: after the timeout the stop goes on with the next runner.
PauseTimeoutIgnored(c) ==
    /\ req[c].pc = "pause" /\ req[c].k \in (NI + 1)..N
    /\ rn[req[c].k].ref /\ req[c].k \in pend[req[c].pid]
    /\ GotoAt(c, "pause", req[c].k + 1)
    /\ UNCHANGED <<db, phase, id, mu, rn, watcher, wcur, pend, counters>>

\* Mutant: the wait for pending messages has no bound.
PauseNoTimeout(c) ==
    /\ req[c].pc = "pause" /\ req[c].k \in (NI + 1)..N
    /\ Fault
    /\ Unlock(c, "err")
    /\ UNCHANGED <<db, phase, id, rn, watcher, wcur, pend,
                   requests, failures, crashes>>

\* waitForPendingMessagesToClear gives up after 30 tries. A check that fails (no
\* such consumer, NATS error) counts as pending. d.id and the runners are kept.
PauseTimeout(c) ==
    /\ req[c].pc = "pause" /\ req[c].k \in (NI + 1)..N
    /\ rn[req[c].k].ref
    /\ \/ /\ req[c].k \in pend[req[c].pid] \/ rn[req[c].k].done = "dead"
          /\ NoFault
       \/ Fault
    /\ Unlock(c, "err")
    /\ UNCHANGED <<db, phase, id, rn, watcher, wcur, pend,
                   requests, failures, crashes>>

\* terminatePipelineComponents: forget the pipeline and its runners, delete its
\* streams and what is in them.
Terminate(c) ==
    /\ req[c].pc = "pause" /\ req[c].k = N + 1
    /\ id' = NoPipeline
    /\ rn' = [x \in Runners |-> [rn[x] EXCEPT !.ref = FALSE]]
    /\ pend' = [pend EXCEPT ![req[c].pid] = {}]
    /\ Unlock(c, "ok")
    /\ UNCHANGED <<db, phase, watcher, wcur, counters>>

-----------------------------------------------------------------------------
(* LocalOrchestrator.ResumePipeline *)

\* Sink, join, ingestors: the runner started in step i.
ResumeOrder(i) == IF i <= N - NI THEN N + 1 - i ELSE i - (N - NI)

ResumeLock(c) ==
    /\ req[c].pc = "lock" /\ req[c].op = "resume"
    /\ mu = Nobody
    /\ \/ /\ id # req[c].pid
          /\ Goto(c, "err")
          /\ mu' = mu
       \/ /\ id = req[c].pid
          /\ mu' = c
          /\ GotoAt(c, "resume", 1)
    /\ UNCHANGED <<db, phase, id, rn, watcher, wcur, pend, counters>>

ResumeRunner(c) ==
    /\ req[c].pc = "resume" /\ req[c].k <= N
    /\ LET x == ResumeOrder(req[c].k) IN
          rn' = IF rn[x].ref THEN [rn EXCEPT ![x] = Launch(rn[x], Nobody)] ELSE rn
    /\ GotoAt(c, "resume", req[c].k + 1)
    /\ UNCHANGED <<db, phase, id, mu, watcher, wcur, pend, counters>>

ResumeFails(c) ==
    /\ req[c].pc = "resume" /\ req[c].k <= N
    /\ LET x == ResumeOrder(req[c].k) IN
          /\ rn[x].ref
          /\ rn' = [rn EXCEPT ![x] = LaunchFails(rn[x])]
    /\ Fault
    /\ Unlock(c, "err")
    /\ UNCHANGED <<db, phase, id, watcher, wcur, pend,
                   requests, failures, crashes>>

ResumeDone(c, w) ==
    /\ req[c].pc = "resume" /\ req[c].k = N + 1
    /\ StartWatcher(w)
    /\ Unlock(c, "ok")
    /\ UNCHANGED <<db, phase, id, rn, pend, counters>>


-----------------------------------------------------------------------------
(* PipelineService: the part of a request after the orchestrator *)

\* Mutant: a stop that failed is recorded as done.
FinalAlwaysStopped(op, l, s) ==
    IF op \in {"stop", "terminate"} /\ s # "absent" THEN "Stopped" ELSE s

\* The row after the last write of an operation, s being the row before it. A
\* status is only written to a row that exists; create undoes its insert.
Final(op, l, s) ==
    CASE op \in {"stop", "terminate"} /\ l = "ok" /\ s # "absent" -> "Stopped"
      [] op = "stop" /\ l = "err" /\ s # "absent" -> "Failed"
      [] op = "resume" /\ l = "ok" /\ s # "absent" -> "Running"
      [] op = "create" /\ l = "err" -> "absent"
      [] op = "delete" /\ l = "ok" -> "absent"
      [] OTHER -> s

Finish(c) ==
    /\ req[c].pc \in {"ok", "err"} /\ req[c].op # "exit"
    /\ \/ /\ db' = [p \in Pipelines |-> IF p = req[c].pid
                        THEN Final(req[c].op, req[c].pc, db[p]) ELSE db[p]]
          /\ NoFault
       \/ /\ req[c].op # "cleanup"
          /\ Fault
          /\ db' = db
    /\ Return(c)
    /\ UNCHANGED <<phase, id, mu, rn, watcher, wcur, pend,
                   requests, failures, crashes>>

-----------------------------------------------------------------------------
(* The watcher: watchRunners, checkAndRestartRunners, restartRunner *)

\* select between ctx.Done and the ticker: when both are ready either is taken.
WatcherTick(w) ==
    /\ watcher[w].pc = "idle"
    /\ watcher' = [watcher EXCEPT ![w].pc = "lock"]
    /\ UNCHANGED <<db, phase, id, mu, rn, wcur, req, pend, counters>>

WatcherReturn(w) ==
    /\ watcher[w].pc = "idle" /\ watcher[w].cancelled
    /\ watcher' = [watcher EXCEPT ![w].pc = "gone"]
    /\ UNCHANGED <<db, phase, id, mu, rn, wcur, req, pend, counters>>

\* Mutant: the watcher looks at the runners without d.m.
WatcherUnlocked(w) ==
    /\ watcher[w].pc = "lock" /\ id # NoPipeline
    /\ watcher' = [watcher EXCEPT ![w].pc = "check", ![w].k = 1]
    /\ UNCHANGED <<db, phase, id, mu, rn, wcur, req, pend, counters>>

WatcherLock(w) ==
    /\ watcher[w].pc = "lock" /\ mu = Nobody
    /\ \/ /\ id = NoPipeline
          /\ watcher' = [watcher EXCEPT ![w].pc = "idle"]
          /\ mu' = mu
       \/ /\ id # NoPipeline
          /\ watcher' = [watcher EXCEPT ![w].pc = "check", ![w].k = 1]
          /\ mu' = w
    /\ UNCHANGED <<db, phase, id, rn, wcur, req, pend, counters>>

\* The runner whose turn it is has failed, and the watcher is not cancelled.
Restarts(w) ==
    LET x == watcher[w].k IN
    /\ watcher[w].pc = "check" /\ x <= N
    /\ rn[x].ref /\ rn[x].done = "closed" /\ ~watcher[w].cancelled

NextRunner(w) == watcher' = [watcher EXCEPT ![w].k = watcher[w].k + 1]

\* The new component runs under the watcher's context.
RestartRunner(w) ==
    /\ Restarts(w)
    /\ \/ /\ rn' = [rn EXCEPT ![watcher[w].k] = Launch(rn[watcher[w].k], w)]
          /\ NoFault
       \/ /\ rn' = [rn EXCEPT ![watcher[w].k] = LaunchFails(rn[watcher[w].k])]
          /\ Fault
    /\ NextRunner(w)
    /\ UNCHANGED <<db, phase, id, mu, wcur, req, pend,
                   requests, failures, crashes>>

\* Mutant: the watcher does not stop at the last runner.
WatcherOverruns(w) ==
    /\ watcher[w].pc = "check" /\ ~Restarts(w)
    /\ NextRunner(w)
    /\ UNCHANGED <<db, phase, id, mu, rn, wcur, req, pend, counters>>

WatcherSkips(w) ==
    /\ watcher[w].pc = "check" /\ watcher[w].k <= N /\ ~Restarts(w)
    /\ NextRunner(w)
    /\ UNCHANGED <<db, phase, id, mu, rn, wcur, req, pend, counters>>

WatcherUnlock(w) ==
    /\ watcher[w].pc = "check" /\ watcher[w].k = N + 1
    /\ watcher' = [watcher EXCEPT ![w].pc = "idle"]
    /\ mu' = Nobody
    /\ UNCHANGED <<db, phase, id, rn, wcur, req, pend, counters>>

-----------------------------------------------------------------------------
(* The components *)

Cancelled(ctx) == ctx \in Watchers /\ watcher[ctx].cancelled

\* An ingestor or a sink whose context is cancelled ends. The join has a context
\* of its own: it stays, and each of its messages fails on the cancelled one.
ComponentCancelled(x) ==
    /\ ~IsJoin(x)
    /\ \/ /\ rn[x].own = "running" /\ Cancelled(rn[x].ctx)
          /\ rn' = [rn EXCEPT ![x] = Ended(rn[x])]
       \/ \E o \in rn[x].orphans :
            /\ Cancelled(o.ctx)
            /\ rn' = [rn EXCEPT ![x].orphans = rn[x].orphans \ {o}]
    /\ UNCHANGED <<db, phase, id, mu, watcher, wcur, req, pend, counters>>

\* A component ends by itself: an error of its Kafka or NATS client.
ComponentFails(x) ==
    /\ failures < MaxFailures /\ failures' = failures + 1
    /\ rn[x].own = "running"
    /\ rn' = [rn EXCEPT ![x] = Ended(rn[x])]
    /\ UNCHANGED <<db, phase, id, mu, watcher, wcur, req, pend,
                   requests, faults, crashes>>

\* An ingestor publishes to the stream of the join, or of the sink.
Publish(x) ==
    /\ IsIngestor(x) /\ Active(x)
    /\ pend' = [pend EXCEPT ![id] = pend[id] \cup {NI + 1}]
    /\ UNCHANGED <<db, phase, id, mu, rn, watcher, wcur, req, counters>>

\* Some component of runner x works under a context that is not cancelled.
Live(x) ==
    \/ rn[x].own = "running" /\ ~Cancelled(rn[x].ctx)
    \/ \E o \in rn[x].orphans : o.pid = id /\ ~Cancelled(o.ctx)

\* The join or the sink acknowledges what was pending; the join may publish.
Consume(x) ==
    /\ ~IsIngestor(x) /\ Active(x) /\ x \in pend[id]
    /\ IsJoin(x) => Live(x)
    /\ \E out \in SUBSET {y \in Runners : IsJoin(x) /\ y = N} :
          pend' = [pend EXCEPT ![id] = (pend[id] \ {x}) \cup out]
    /\ UNCHANGED <<db, phase, id, mu, rn, watcher, wcur, req, counters>>

-----------------------------------------------------------------------------
(* The process *)

\* Everything but the database and the streams is gone.
ProcessGone ==
    /\ phase' = "down"
    /\ id' = NoPipeline
    /\ mu' = Nobody
    /\ rn' = [x \in Runners |-> NewRunner]
    /\ watcher' = [w \in Watchers |-> NewWatcher]
    /\ wcur' = Nobody
    /\ req' = [c \in Procs |-> Idle]
    /\ UNCHANGED <<db, pend>>

Crash ==
    /\ phase # "down" /\ crashes < MaxCrashes
    /\ crashes' = crashes + 1
    /\ ProcessGone
    /\ UNCHANGED <<requests, faults, failures>>

\* SIGTERM: mainEtl stops the active pipeline, without touching its status.
Sigterm(s) ==
    /\ phase = "up" /\ mu = Nobody /\ id # NoPipeline /\ req[s].pc = "idle"
    /\ crashes < MaxCrashes /\ crashes' = crashes + 1
    /\ phase' = "draining"
    /\ req' = [req EXCEPT ![s] = [pc |-> "lock", op |-> "exit", pid |-> id, k |-> 1]]
    /\ UNCHANGED <<db, id, mu, rn, watcher, wcur, pend,
                   requests, faults, failures>>

Exit(s) ==
    /\ req[s].op = "exit" /\ req[s].pc \in {"ok", "err"}
    /\ ProcessGone
    /\ UNCHANGED counters

\* CleanUpPipelines, before the API is served. It stops at the first error.
CleanUp(p) == IF db[p] \in {"absent", "Stopped", "Failed"} THEN db[p] ELSE "Stopped"

Restart ==
    /\ phase = "down"
    /\ phase' = "up"
    /\ \E cleaned \in SUBSET Pipelines :
          /\ db' = [p \in Pipelines |-> IF p \in cleaned THEN CleanUp(p) ELSE db[p]]
          /\ (cleaned = Pipelines /\ NoFault) \/ (cleaned # Pipelines /\ Fault)
    /\ UNCHANGED <<id, mu, rn, watcher, wcur, req, pend,
                   requests, failures, crashes>>

-----------------------------------------------------------------------------

Init ==
    /\ db = [p \in Pipelines |-> "absent"]
    /\ phase = "up"
    /\ id = NoPipeline
    /\ mu = Nobody
    /\ rn = [x \in Runners |-> NewRunner]
    /\ watcher = [w \in Watchers |-> NewWatcher]
    /\ wcur = Nobody
    /\ req = [c \in Procs |-> Idle]
    /\ pend = [p \in Pipelines |-> {}]
    /\ requests = 0 /\ faults = 0 /\ failures = 0 /\ crashes = 0

Lock(c) == EditCheck(c) \/ SetupLock(c) \/ StopLock(c) \/ ResumeLock(c)

SetUp(c) ==
    \/ StartRunner(c)
    \/ SetupFailsQuietly(c)
    \/ \E s \in Cleaners : SetupFails(c, s)
    \/ \E w \in Watchers : SetupDone(c, w)

StopSteps(c) ==
    \/ WatchersGone(c)
    \/ SkipRunner(c)
    \/ Shutdown(c)
    \/ AwaitDone(c)
    \/ PauseTimeout(c)
    \/ Terminate(c)

Resume(c) ==
    \/ ResumeRunner(c)
    \/ ResumeFails(c)
    \/ \E w \in Watchers : ResumeDone(c, w)

\* The steps of a request, or of a cleaner, that do not wait for d.m.
Advance(c) ==
    \/ WriteStatus(c) \/ WriteFails(c) \/ UpsertResources(c)
    \/ SetUp(c) \/ StopSteps(c) \/ Resume(c) \/ Finish(c)

Watch(w) ==
    \/ WatcherTick(w) \/ WatcherReturn(w) \/ WatcherLock(w)
    \/ RestartRunner(w) \/ WatcherSkips(w) \/ WatcherUnlock(w)

Component(x) ==
    ComponentCancelled(x) \/ ComponentFails(x) \/ Publish(x) \/ Consume(x)

Process == Crash \/ Restart \/ \E s \in Cleaners : Sigterm(s) \/ Exit(s)

Next ==
    \/ \E c \in Clients, op \in Ops, p \in Pipelines : Receive(c, op, p)
    \/ \E c \in Procs : Lock(c) \/ Advance(c)
    \/ \E w \in Watchers : Watch(w)
    \/ \E x \in Runners : Component(x)
    \/ Process

Spec == Init /\ [][Next]_vars

\* Goroutines run; sync.Mutex hands the lock over in bounded time (its
\* starvation mode), hence strong fairness of taking it.
Fairness ==
    /\ \A c \in Procs : WF_vars(Advance(c)) /\ SF_vars(Lock(c))
    /\ \A w \in Watchers : WF_vars(Watch(w)) /\ SF_vars(WatcherLock(w))
    /\ \A x \in Runners : WF_vars(ComponentCancelled(x))
    /\ \A s \in Cleaners : WF_vars(Exit(s))
    /\ WF_vars(Restart)

FairSpec == Spec /\ Fairness


-----------------------------------------------------------------------------
(* Properties *)

Holds(c) == req[c].pc \in {"setup", "watchers", "pause", "done", "resume"}

\* Only the holder of d.m is between Lock and Unlock.
MutexInv ==
    /\ \A c \in Procs : Holds(c) <=> mu = c
    /\ \A w \in Watchers : (watcher[w].pc = "check") <=> mu = w

\* A request knows its pipeline; the holder of d.m works on the active one.
ActiveInv ==
    /\ \A c \in Procs : req[c].pc # "idle" => req[c].pid \in Pipelines
    /\ \A c \in Procs : Holds(c) => id = req[c].pid
    /\ \A w \in Watchers : watcher[w].pc = "check" => id # NoPipeline
    /\ \A c \in Procs : req[c].pc = "done" => req[c].k \in Runners

\* The runners StopPipeline has got past.
Paused(c, x) ==
    \/ req[c].pc = "pause" /\ x < req[c].k
    \/ req[c].pc = "done" /\ x <= req[c].k

\* A component that a runner owns is the one of a runner the orchestrator holds.
OwnedInv == \A x \in Runners : rn[x].own = "running" => rn[x].ref

\* A runner that StopPipeline has shut down does not run again before the stop is
\* over, whatever the watcher, a failure or another request does meanwhile.
PausedStaysDown ==
    \A c \in Procs, x \in Runners : Paused(c, x) => rn[x].own # "running"

\* When no pipeline is active the orchestrator holds no runner and the components
\* it last started have ended: clearing d.id (terminatePipelineComponents) never
\* abandons a component that a runner still owned.
NothingRunsWhenIdle ==
    id = NoPipeline => \A x \in Runners : ~rn[x].ref /\ rn[x].own # "running"

\* What is preserved by every step, and why NothingRunsWhenIdle holds: a component
\* that a runner owns is one of a referenced runner, a runner that was shut down
\* stays down as long as the stop holds d.m, and d.id is cleared when the last one
\* is down.
StopInv ==
    /\ TypeOK
    /\ MutexInv
    /\ ActiveInv
    /\ PausedStaysDown
    /\ OwnedInv
    /\ NothingRunsWhenIdle

\* Requests for one pipeline come one after the other: nothing in the code sees to it, the
\* clients have to.
OneRequestPerPipeline ==
    \A c, d \in Clients :
       c # d /\ req[c].pc # "idle" /\ req[d].pc # "idle" => req[c].pid # req[d].pid

\* The clean-up of a set-up that failed does not come between EditPipeline's look at d.id and
\* its SetupPipeline, when new resources are set up for the same pipeline.
NoCleanupDuringEdit ==
    \A c \in Clients, s \in Cleaners :
       req[c].op = "resources" /\ req[c].pc = "lock" /\ req[s].op = "cleanup"
          => req[s].pid # req[c].pid

\* A graceful stop loses nothing: when the streams of a completely set up
\* pipeline are deleted by StopPipeline, no consumer has messages pending.
DrainedStop ==
    [][\A p \in Pipelines :
          (id = p /\ id' # p /\ phase' # "down" /\ \A x \in Runners : rn[x].ref)
             => pend[p] = {}]_vars

\* A pipeline shown as Stopped is not the active pipeline, even when a write of
\* its status was lost or the process was killed between two steps of a request.
StoppedIsInactive == \A p \in Pipelines : db[p] = "Stopped" => id # p

\* A status only changes the way StatusValidationMatrix allows; the exceptions are
\* the insertion and deletion of the row, EditPipeline (it writes Created) and
\* CleanUpPipelines at start-up.
StatusFollowsMatrix ==
    [][phase = "down" \/ \A p \in Pipelines :
          \/ db'[p] \in {db[p], "absent", "Created"} \/ db[p] = "absent"
          \/ db'[p] \in StatusValidationMatrix[db[p]]]_vars

\* The two ways in which a request blocks for ever with d.m held: a watcher waits
\* for d.m while StopPipeline waits for the watcher; doneCh was made by a Start
\* that failed.
Wedged ==
    \E c \in Procs :
       \/ req[c].pc = "watchers" /\ \E w \in Watchers : watcher[w].pc = "lock"
       \/ req[c].pc = "done" /\ rn[req[c].k].done = "dead"

\* Every request returns, unless the orchestrator is wedged in one of the two
\* known ways: nothing else (the drain of pending messages, a failed start, a
\* concurrent request, a failing component) keeps a request from returning.
Answered == \A c \in Clients : (req[c].pc # "idle") ~> (req[c].pc = "idle" \/ Wedged)


-----------------------------------------------------------------------------
(* What the documentation and the comments promise and the code does not keep *)

\* Transitional states are temporary: every request returns, so a pipeline leaves
\* Stopping, Terminating and Resuming by itself.
RequestsReturn == \A c \in Clients : (req[c].pc # "idle") ~> (req[c].pc = "idle")

\* A stopped pipeline can be resumed and deleted: the orchestrator does not turn
\* down an operation whose status transition the service has accepted.
AcceptedIsCarriedOut ==
    [][\A c \in Clients :
          (req[c].op \in {"resume", "delete"} /\ req[c].pc = "lock") => req'[c].pc # "err"]_vars

\* A set-up that failed is cleaned up: when no goroutine is at work the active
\* pipeline has a row in the database, so somebody can stop it.
FailedSetupIsCleanedUp ==
    (\A c \in Procs : req[c].pc = "idle") => (id = NoPipeline \/ db[id] # "absent")

\* A pipeline shown as Stopped has no component left that runs.
StoppedMeansStopped ==
    \A p \in Pipelines, x \in Runners :
       db[p] = "Stopped" => \A o \in rn[x].orphans : o.pid # p

\* StopPipeline lets the join and the sink process what is pending before it shuts
\* them down: their context is not cancelled while they are waited for.
DrainUndisturbed ==
    \A c \in Procs :
       (req[c].pc = "pause" /\ req[c].k \in (NI + 1)..N /\ rn[req[c].k].own = "running")
          => ~Cancelled(rn[req[c].k].ctx)

\* The watcher restarts a runner that has failed: while a watcher is at work, a
\* runner whose component has ended runs again.
Watched == \E w \in Watchers : watcher[w].pc \in {"idle", "lock", "check"}
                                /\ ~watcher[w].cancelled
FailedIsRestarted ==
    \A x \in Runners :
       (Watched /\ rn[x].ref /\ rn[x].own = "finished")
          ~> (rn[x].own = "running" \/ ~Watched)
=============================================================================
