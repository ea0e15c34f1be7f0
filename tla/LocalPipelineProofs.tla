------------------------- MODULE LocalPipelineProofs -------------------------
(***************************************************************************)
(* Proofs about LocalPipeline: its type invariant, that the orchestrator   *)
(* never forgets a component it still owns, and, while the requests for a  *)
(* pipeline come one after the other, that the status in the database      *)
(* follows the matrix and agrees with d.id, and that a stop drains.        *)
(***************************************************************************)
EXTENDS LocalPipeline, TLAPS

USE NamesAssumption, BoundsAssumption

LEMMA NType == N \in Nat /\ N > NI /\ NI \in Runners /\ N \in Runners
<1>1. CASE HasJoin
  BY <1>1 DEF N, Runners
<1>2. CASE ~HasJoin
  BY <1>2 DEF N, Runners
<1>3. QED
  BY <1>1, <1>2

LEMMA LaunchType ==
    ASSUME NEW r \in RunnerStates, NEW ctx \in Watchers \cup {Nobody}, TypeOK
    PROVE  /\ Launch(r, ctx) \in RunnerStates
           /\ Launch(r, ctx).ref
BY DEF Launch, RunnerStates, TypeOK

LEMMA LaunchFailsType ==
    ASSUME NEW r \in RunnerStates
    PROVE  /\ LaunchFails(r) \in RunnerStates
           /\ LaunchFails(r).ref
           /\ LaunchFails(r).own = r.own
BY DEF LaunchFails, RunnerStates

LEMMA EndedType ==
    ASSUME NEW r \in RunnerStates
    PROVE  /\ Ended(r) \in RunnerStates
           /\ Ended(r).ref = r.ref
           /\ Ended(r).own # "running"
BY DEF Ended, RunnerStates

LEMMA ConstType ==
    /\ NewRunner \in RunnerStates /\ ~NewRunner.ref /\ NewRunner.own = "none"
    /\ NewWatcher \in WatcherStates /\ NewWatcher.pc = "new"
    /\ Idle \in ReqStates /\ Idle.pc = "idle"
BY NType DEF NewRunner, RunnerStates, NewWatcher, WatcherStates, Idle, ReqStates, Labels

\* What a step of process c does to the program counters.
LEMMA GotoFacts ==
    ASSUME TypeOK, NEW c \in Procs, NEW l \in Labels, Goto(c, l)
    PROVE  /\ req' \in [Procs -> ReqStates]
           /\ req'[c].pc = l /\ req'[c].k = req[c].k /\ req'[c].pid = req[c].pid
           /\ req'[c].op = req[c].op
           /\ \A d \in Procs : d # c => req'[d] = req[d]
BY DEF Goto, TypeOK, ReqStates

LEMMA GotoAtFacts ==
    ASSUME TypeOK, NEW c \in Procs, NEW l \in Labels, NEW i \in 1..(N + 1),
           GotoAt(c, l, i)
    PROVE  /\ req' \in [Procs -> ReqStates]
           /\ req'[c].pc = l /\ req'[c].k = i /\ req'[c].pid = req[c].pid
           /\ req'[c].op = req[c].op
           /\ \A d \in Procs : d # c => req'[d] = req[d]
<1> DEFINE q == [req[c] EXCEPT !.pc = l, !.k = i]
<1>1. req \in [Procs -> ReqStates] /\ req[c] \in ReqStates
  BY DEF TypeOK
<1>2. q \in ReqStates /\ q.pc = l /\ q.k = i /\ q.pid = req[c].pid /\ q.op = req[c].op
  BY <1>1 DEF ReqStates
<1>3. req' = [req EXCEPT ![c] = q]
  BY <1>1 DEF GotoAt
<1> HIDE DEF q
<1>4. QED
  BY <1>1, <1>2, <1>3

LEMMA ReturnFacts ==
    ASSUME TypeOK, NEW c \in Procs, Return(c)
    PROVE  /\ req' \in [Procs -> ReqStates]
           /\ req'[c] = Idle /\ req'[c].pc = "idle"
           /\ \A d \in Procs : d # c => req'[d] = req[d]
BY ConstType DEF Return, TypeOK

LEMMA FaultType == ASSUME TypeOK, Fault \/ NoFault PROVE faults' \in Nat
BY DEF Fault, NoFault, TypeOK


-----------------------------------------------------------------------------
(* Requests *)

LEMMA ReceiveStep ==
    ASSUME StopInv, NEW c \in Clients, NEW op \in Ops, NEW p \in Pipelines,
           Receive(c, op, p)
    PROVE  StopInv'
<1> DEFINE q == [pc |-> CASE op = "delete" -> "lock"
                      [] op = "resources" -> "check"
                      [] OTHER -> "write",
                 op |-> op, pid |-> p, k |-> 1]
<1>1. q \in ReqStates /\ q.pc \in {"lock", "check", "write"} /\ q.pid = p
  BY NType DEF ReqStates, Labels
<1>2. c \in Procs /\ req' = [req EXCEPT ![c] = q]
  BY DEF Receive, Procs
<1>3. /\ req' \in [Procs -> ReqStates] /\ req'[c] = q
      /\ \A d \in Procs : d # c => req'[d] = req[d]
  <2> HIDE DEF q
  <2>1. QED
    BY <1>1, <1>2 DEF StopInv, TypeOK
<1> HIDE DEF q
<1>4. TypeOK'
  BY <1>3 DEF Receive, StopInv, TypeOK
<1>5. QED
  BY <1>1, <1>2, <1>3, <1>4 DEF Receive, StopInv, MutexInv, ActiveInv, PausedStaysDown,
     Paused, Holds, OwnedInv, NothingRunsWhenIdle

LEMMA TargetType ==
    ASSUME NEW op
    PROVE  Target(op) \in Statuses
BY DEF Target, Statuses

LEMMA WriteStatusStep ==
    ASSUME StopInv, NEW c \in Procs, WriteStatus(c)
    PROVE  StopInv'
<1> DEFINE l == CASE req[c].op = "create" -> "resources"
                 [] req[c].op = "edit" -> "check"
                 [] OTHER -> "lock"
<1>1. l \in {"resources", "check", "lock"} /\ l \in Labels
  BY DEF Labels
<1>2. Goto(c, l)
  BY DEF WriteStatus
<1> HIDE DEF l
<1>3. /\ req' \in [Procs -> ReqStates]
      /\ req'[c].pc = l /\ req'[c].pid = req[c].pid
      /\ \A d \in Procs : d # c => req'[d] = req[d]
  BY <1>1, <1>2, GotoFacts DEF StopInv
<1>4. TypeOK'
  BY <1>3, TargetType DEF WriteStatus, StopInv, TypeOK, counters
<1>5. QED
  BY <1>1, <1>3, <1>4 DEF WriteStatus, StopInv, MutexInv, ActiveInv, PausedStaysDown,
     Paused, Holds, OwnedInv, NothingRunsWhenIdle

LEMMA WriteFailsStep ==
    ASSUME StopInv, NEW c \in Procs, WriteFails(c)
    PROVE  StopInv'
<1>1. /\ req' \in [Procs -> ReqStates]
      /\ req'[c].pc = "idle"
      /\ \A d \in Procs : d # c => req'[d] = req[d]
  BY ReturnFacts DEF StopInv, WriteFails
<1>2. TypeOK'
  BY <1>1, FaultType DEF WriteFails, StopInv, TypeOK
<1>3. QED
  BY <1>1, <1>2 DEF WriteFails, StopInv, MutexInv, ActiveInv, PausedStaysDown,
     Paused, Holds, OwnedInv, NothingRunsWhenIdle

LEMMA UpsertResourcesStep ==
    ASSUME StopInv, NEW c \in Procs, UpsertResources(c)
    PROVE  StopInv'
<1>1. /\ req' \in [Procs -> ReqStates]
      /\ req'[c].pc = "idle" \/ (req'[c].pc = "lock" /\ req'[c].pid = req[c].pid)
      /\ \A d \in Procs : d # c => req'[d] = req[d]
  BY ReturnFacts, GotoFacts DEF StopInv, UpsertResources, Labels
<1>2. TypeOK'
  BY <1>1, FaultType DEF UpsertResources, StopInv, TypeOK
<1>3. QED
  BY <1>1, <1>2 DEF UpsertResources, StopInv, MutexInv, ActiveInv, PausedStaysDown,
     Paused, Holds, OwnedInv, NothingRunsWhenIdle

LEMMA EditCheckStep ==
    ASSUME StopInv, NEW c \in Procs, EditCheck(c)
    PROVE  StopInv'
<1>1. /\ req' \in [Procs -> ReqStates]
      /\ req'[c].pc \in {"lock", "err"} /\ req'[c].pid = req[c].pid
      /\ \A d \in Procs : d # c => req'[d] = req[d]
  BY GotoFacts DEF StopInv, EditCheck, Labels
<1>2. TypeOK'
  BY <1>1 DEF EditCheck, StopInv, TypeOK, counters
<1>3. QED
  BY <1>1, <1>2 DEF EditCheck, StopInv, MutexInv, ActiveInv, PausedStaysDown,
     Paused, Holds, OwnedInv, NothingRunsWhenIdle

LEMMA FinalType ==
    ASSUME NEW op, NEW l, NEW s \in Statuses \cup {"absent"}
    PROVE  Final(op, l, s) \in Statuses \cup {"absent"}
BY DEF Final, Statuses

LEMMA FinishStep ==
    ASSUME StopInv, NEW c \in Procs, Finish(c)
    PROVE  StopInv'
<1>1. /\ req' \in [Procs -> ReqStates]
      /\ req'[c].pc = "idle"
      /\ \A d \in Procs : d # c => req'[d] = req[d]
  BY ReturnFacts DEF StopInv, Finish
<1>2. db' \in [Pipelines -> Statuses \cup {"absent"}]
  BY FinalType DEF Finish, StopInv, TypeOK
<1>3. TypeOK'
  BY <1>1, <1>2, FaultType DEF Finish, StopInv, TypeOK
<1>4. QED
  BY <1>1, <1>3 DEF Finish, StopInv, MutexInv, ActiveInv, PausedStaysDown,
     Paused, Holds, OwnedInv, NothingRunsWhenIdle


-----------------------------------------------------------------------------
(* SetupPipeline *)

\* The holder of d.m is alone: no other process and no watcher is inside.
LEMMA HolderAlone ==
    ASSUME StopInv, NEW c \in Procs, Holds(c)
    PROVE  /\ mu = c
           /\ id = req[c].pid /\ id \in Pipelines
           /\ \A d \in Procs : d # c => ~Holds(d)
           /\ \A w \in Watchers : watcher[w].pc # "check"
<1>1. c \notin Watchers /\ mu = c
  BY DEF Procs, StopInv, MutexInv
<1>2. QED
  BY <1>1 DEF Holds, StopInv, MutexInv, ActiveInv

LEMMA NobodyIsNoProcess == Nobody \notin Procs /\ \A c \in Procs : c \notin Watchers
BY DEF Procs

LEMMA SetupLockStep ==
    ASSUME StopInv, NEW c \in Procs, SetupLock(c)
    PROVE  StopInv'
<1>1. CASE id # NoPipeline
  <2>1. /\ req' \in [Procs -> ReqStates]
        /\ req'[c].pc = "err" /\ req'[c].pid = req[c].pid
        /\ \A d \in Procs : d # c => req'[d] = req[d]
    BY <1>1, GotoFacts DEF StopInv, SetupLock, Labels
  <2>2. TypeOK'
    BY <1>1, <2>1 DEF SetupLock, StopInv, TypeOK, counters
  <2>3. QED
    BY <1>1, <2>1, <2>2 DEF SetupLock, StopInv, MutexInv, ActiveInv, PausedStaysDown,
       Paused, Holds, OwnedInv, NothingRunsWhenIdle
<1>2. CASE id = NoPipeline
  <2>1. /\ req' \in [Procs -> ReqStates]
        /\ req'[c].pc = "setup" /\ req'[c].pid = req[c].pid
        /\ \A d \in Procs : d # c => req'[d] = req[d]
    BY <1>2, GotoAtFacts, NType DEF StopInv, SetupLock, Labels
  <2>2. /\ mu = Nobody /\ mu' = c /\ id' = req[c].pid /\ id' \in Pipelines
        /\ UNCHANGED <<db, phase, rn, watcher, wcur, pend, counters>>
    BY <1>2 DEF SetupLock, StopInv, ActiveInv
  <2>3. TypeOK'
    BY <2>1, <2>2 DEF StopInv, TypeOK, counters
  <2>4. \A d \in Procs : ~Holds(d)
    BY <2>2, NobodyIsNoProcess DEF StopInv, MutexInv
  <2>5. \A w \in Watchers : watcher[w].pc # "check"
    BY <2>2 DEF StopInv, MutexInv
  <2>6. MutexInv' /\ ActiveInv'
    BY <2>1, <2>2, <2>4, <2>5, NobodyIsNoProcess DEF StopInv, MutexInv, ActiveInv, Holds
  <2>7. PausedStaysDown' /\ OwnedInv' /\ NothingRunsWhenIdle'
    BY <2>1, <2>2, <2>4 DEF StopInv, PausedStaysDown, Paused, Holds, OwnedInv,
       NothingRunsWhenIdle
  <2>8. QED
    BY <2>3, <2>6, <2>7 DEF StopInv
<1>3. QED
  BY <1>1, <1>2

\* Steps of the holder of d.m that keep d.m and are not past any runner.
LEMMA HolderStarts ==
    ASSUME StopInv, NEW c \in Procs, Holds(c),
           NEW x \in Runners, NEW r \in RunnerStates,
           rn' = [rn EXCEPT ![x] = r], r.own = "running" => r.ref,
           TypeOK', ~Holds(c)' \/ req'[c].pc \in {"setup", "resume"},
           mu' = IF Holds(c)' THEN c ELSE Nobody,
           req'[c].pid = req[c].pid,
           \A d \in Procs : d # c => req'[d].pc = req[d].pc \/ ~Holds(d)',
           \A d \in Procs : d # c => (req'[d] = req[d] \/ (req'[d].pid \in Pipelines)),
           \A w \in Watchers : watcher'[w].pc = "check" => watcher[w].pc = "check",
           id' = id
    PROVE  StopInv'
<1>1. /\ mu = c /\ id = req[c].pid /\ id \in Pipelines
      /\ \A d \in Procs : d # c => ~Holds(d)
      /\ \A w \in Watchers : watcher[w].pc # "check"
  BY HolderAlone
<1>2. \A d \in Procs : d # c => ~Holds(d)'
  BY <1>1 DEF Holds
<1>3. MutexInv'
  BY <1>1, <1>2, NobodyIsNoProcess DEF MutexInv
<1>4. ActiveInv'
  BY <1>1, <1>2 DEF StopInv, ActiveInv, Holds
<1>5. PausedStaysDown'
  BY <1>2 DEF PausedStaysDown, Paused, Holds
<1>6. OwnedInv'
  BY DEF StopInv, OwnedInv, TypeOK
<1>7. NothingRunsWhenIdle'
  BY <1>1 DEF NothingRunsWhenIdle
<1>8. QED
  BY <1>3, <1>4, <1>5, <1>6, <1>7 DEF StopInv

LEMMA StartRunnerStep ==
    ASSUME StopInv, NEW c \in Procs, StartRunner(c)
    PROVE  StopInv'
<1> DEFINE x == req[c].k
           r == Launch(rn[x], Nobody)
<1>0. x \in Runners /\ x + 1 \in 1..(N + 1) /\ Holds(c)
  BY NType DEF StartRunner, StopInv, TypeOK, ReqStates, Runners, Holds
<1>1. r \in RunnerStates /\ r.ref
  BY <1>0, LaunchType DEF StopInv, TypeOK
<1>2. /\ rn' = [rn EXCEPT ![x] = r]
      /\ UNCHANGED <<db, phase, id, mu, watcher, wcur, pend, counters>>
  BY DEF StartRunner
<1>3. /\ req' \in [Procs -> ReqStates]
      /\ req'[c].pc = "setup" /\ req'[c].pid = req[c].pid
      /\ \A d \in Procs : d # c => req'[d] = req[d]
  BY <1>0, GotoAtFacts DEF StopInv, StartRunner, Labels
<1> HIDE DEF x, r
<1>4. TypeOK'
  BY <1>0, <1>1, <1>2, <1>3 DEF StopInv, TypeOK, counters
<1>5. mu' = c /\ Holds(c)' /\ id' = id /\ watcher' = watcher
  BY <1>0, <1>2, <1>3, HolderAlone DEF Holds
<1>6. QED
  BY <1>0, <1>1, <1>2, <1>3, <1>4, <1>5, HolderStarts DEF StopInv, ActiveInv, Holds


LEMMA SameRunners ==
    ASSUME StopInv, rn' = rn
    PROVE  /\ rn' = [rn EXCEPT ![N] = rn[N]]
           /\ rn[N] \in RunnerStates /\ N \in Runners
           /\ rn[N].own = "running" => rn[N].ref
BY NType DEF StopInv, TypeOK, OwnedInv

LEMMA SetupFailsQuietlyStep ==
    ASSUME StopInv, NEW c \in Procs, SetupFailsQuietly(c)
    PROVE  StopInv'
<1>1. /\ req' \in [Procs -> ReqStates]
      /\ req'[c].pc = "err" /\ req'[c].pid = req[c].pid
      /\ \A d \in Procs : d # c => req'[d] = req[d]
  BY GotoFacts DEF StopInv, SetupFailsQuietly, Unlock, Labels
<1>2. /\ Holds(c) /\ ~Holds(c)' /\ mu' = Nobody /\ faults' \in Nat
      /\ UNCHANGED <<db, phase, id, watcher, wcur, pend, requests, failures, crashes>>
  BY <1>1, FaultType DEF SetupFailsQuietly, Holds, Unlock, StopInv
<1>3. CASE rn' = rn
  <2>1. TypeOK'
    BY <1>1, <1>2, <1>3 DEF StopInv, TypeOK
  <2>2. QED
    BY <1>1, <1>2, <1>3, <2>1, SameRunners, HolderStarts DEF StopInv, ActiveInv, Holds
<1>4. CASE rn' = [rn EXCEPT ![req[c].k] = LaunchFails(rn[req[c].k])] /\ IsJoin(req[c].k)
  <2> DEFINE x == req[c].k
             r == LaunchFails(rn[x])
  <2>1. x \in Runners
    BY <1>4, NType DEF IsJoin, StopInv, TypeOK, ReqStates, Runners
  <2>2. r \in RunnerStates /\ r.ref
    BY <2>1, LaunchFailsType DEF StopInv, TypeOK
  <2>3. rn' = [rn EXCEPT ![x] = r]
    BY <1>4
  <2> HIDE DEF x, r
  <2>4. TypeOK'
    BY <1>1, <1>2, <2>1, <2>2, <2>3 DEF StopInv, TypeOK
  <2>5. QED
    BY <1>1, <1>2, <2>1, <2>2, <2>3, <2>4, HolderStarts DEF StopInv, ActiveInv, Holds
<1>5. QED
  BY <1>3, <1>4 DEF SetupFailsQuietly

LEMMA SetupFailsStep ==
    ASSUME StopInv, NEW c \in Procs, NEW s \in Cleaners, SetupFails(c, s)
    PROVE  StopInv'
<1> DEFINE q == [pc |-> "lock", op |-> "cleanup", pid |-> req[c].pid, k |-> 1]
<1>1. s \in Procs /\ s # c /\ Holds(c) /\ ~Holds(s)
  BY DEF SetupFails, Procs, Holds
<1>2. req[c].pid \in Pipelines
  BY <1>1 DEF StopInv, ActiveInv, SetupFails
<1>3. q \in ReqStates /\ q.pc = "lock" /\ q.pid \in Pipelines
  BY <1>2, NType DEF ReqStates, Labels
<1>4. /\ req' = [req EXCEPT ![c].pc = "err", ![s] = q]
      /\ mu' = Nobody
      /\ UNCHANGED <<db, phase, id, watcher, wcur, pend, requests, failures, crashes>>
      /\ rn' = rn \/ rn' = [rn EXCEPT ![N] = LaunchFails(rn[N])]
  BY DEF SetupFails
<1>5. faults' \in Nat
  BY FaultType DEF SetupFails, StopInv
<1> HIDE DEF q
<1>6. /\ req' \in [Procs -> ReqStates]
      /\ req'[c].pc = "err" /\ req'[c].pid = req[c].pid /\ req'[s] = q
      /\ \A d \in Procs : d \notin {c, s} => req'[d] = req[d]
  BY <1>1, <1>3, <1>4 DEF StopInv, TypeOK, ReqStates, Labels
<1>7. /\ ~Holds(c)'
      /\ \A d \in Procs : d # c => req'[d].pc = req[d].pc \/ ~Holds(d)'
      /\ \A d \in Procs : d # c => (req'[d] = req[d] \/ req'[d].pid \in Pipelines)
  BY <1>3, <1>6 DEF Holds
<1>8. CASE rn' = rn
  <2>1. TypeOK'
    BY <1>4, <1>5, <1>6, <1>8 DEF StopInv, TypeOK
  <2>2. QED
    BY <1>1, <1>4, <1>6, <1>7, <1>8, <2>1, SameRunners, HolderStarts
<1>9. CASE rn' = [rn EXCEPT ![N] = LaunchFails(rn[N])]
  <2> DEFINE r == LaunchFails(rn[N])
  <2>1. r \in RunnerStates /\ r.ref /\ N \in Runners
    BY NType, LaunchFailsType DEF StopInv, TypeOK
  <2>2. rn' = [rn EXCEPT ![N] = r]
    BY <1>9
  <2> HIDE DEF r
  <2>3. TypeOK'
    BY <1>4, <1>5, <1>6, <2>1, <2>2 DEF StopInv, TypeOK
  <2>4. QED
    BY <1>1, <1>4, <1>6, <1>7, <2>1, <2>2, <2>3, HolderStarts
<1>10. QED
  BY <1>4, <1>8, <1>9

LEMMA StartWatcherFacts ==
    ASSUME StopInv, NEW w \in Watchers, StartWatcher(w)
    PROVE  /\ watcher' \in [Watchers -> WatcherStates] /\ wcur' \in Watchers
           /\ \A v \in Watchers : watcher'[v].pc = "check" => watcher[v].pc = "check"
BY DEF StartWatcher, StopInv, TypeOK, WatcherStates

\* The last step of a set-up and of a resume: the watcher starts, d.m is released.
LEMMA StartDone ==
    ASSUME StopInv, NEW c \in Procs, NEW w \in Watchers,
           Holds(c), StartWatcher(w), Unlock(c, "ok"),
           UNCHANGED <<db, phase, id, rn, pend, counters>>
    PROVE  StopInv'
<1>1. /\ req' \in [Procs -> ReqStates]
      /\ req'[c].pc = "ok" /\ req'[c].pid = req[c].pid
      /\ \A d \in Procs : d # c => req'[d] = req[d]
  BY GotoFacts DEF StopInv, Unlock, Labels
<1>2. ~Holds(c)' /\ mu' = Nobody
  BY <1>1 DEF Unlock, Holds
<1>3. TypeOK'
  BY <1>1, <1>2, StartWatcherFacts DEF StopInv, TypeOK, counters
<1>4. QED
  BY <1>1, <1>2, <1>3, StartWatcherFacts, SameRunners, HolderStarts
     DEF StopInv, ActiveInv, Holds

LEMMA SetupDoneStep ==
    ASSUME StopInv, NEW c \in Procs, NEW w \in Watchers, SetupDone(c, w)
    PROVE  StopInv'
BY StartDone DEF SetupDone, Holds

-----------------------------------------------------------------------------
(* ResumePipeline *)

LEMMA ResumeLockStep ==
    ASSUME StopInv, NEW c \in Procs, ResumeLock(c)
    PROVE  StopInv'
<1>0. /\ mu = Nobody /\ req[c].pc = "lock" /\ \A d \in Procs : ~Holds(d)
      /\ \A w \in Watchers : watcher[w].pc # "check"
      /\ UNCHANGED <<db, phase, id, rn, watcher, wcur, pend, counters>>
  BY NobodyIsNoProcess DEF ResumeLock, StopInv, MutexInv
<1>1. CASE id # req[c].pid
  <2>1. /\ req' \in [Procs -> ReqStates] /\ mu' = mu
        /\ req'[c].pc = "err" /\ req'[c].pid = req[c].pid
        /\ \A d \in Procs : d # c => req'[d] = req[d]
    BY <1>1, GotoFacts DEF StopInv, ResumeLock, Labels
  <2>2. TypeOK'
    BY <1>0, <2>1 DEF StopInv, TypeOK, counters
  <2>3. QED
    BY <1>0, <2>1, <2>2 DEF StopInv, MutexInv, ActiveInv, PausedStaysDown,
       Paused, Holds, OwnedInv, NothingRunsWhenIdle
<1>2. CASE id = req[c].pid
  <2>1. /\ req' \in [Procs -> ReqStates] /\ mu' = c
        /\ req'[c].pc = "resume" /\ req'[c].pid = req[c].pid
        /\ \A d \in Procs : d # c => req'[d] = req[d]
    BY <1>2, GotoAtFacts, NType DEF StopInv, ResumeLock, Labels
  <2>2. TypeOK'
    BY <1>0, <2>1 DEF StopInv, TypeOK, counters
  <2>3. MutexInv' /\ ActiveInv'
    BY <1>0, <1>2, <2>1, NobodyIsNoProcess DEF StopInv, MutexInv, ActiveInv, Holds
  <2>4. PausedStaysDown' /\ OwnedInv' /\ NothingRunsWhenIdle'
    BY <1>0, <2>1 DEF StopInv, PausedStaysDown, Paused, Holds, OwnedInv,
       NothingRunsWhenIdle
  <2>5. QED
    BY <2>2, <2>3, <2>4 DEF StopInv
<1>3. QED
  BY <1>1, <1>2

LEMMA ResumeOrderType ==
    ASSUME NEW i \in 1..N
    PROVE  ResumeOrder(i) \in Runners
BY NType DEF ResumeOrder, Runners

LEMMA ResumeRunnerStep ==
    ASSUME StopInv, NEW c \in Procs, ResumeRunner(c)
    PROVE  StopInv'
<1> DEFINE x == ResumeOrder(req[c].k)
           r == IF rn[x].ref THEN Launch(rn[x], Nobody) ELSE rn[x]
<1>0. req[c].k \in 1..N /\ req[c].k + 1 \in 1..(N + 1) /\ Holds(c)
  BY NType DEF ResumeRunner, StopInv, TypeOK, ReqStates, Holds
<1>1. x \in Runners
  BY <1>0, ResumeOrderType
<1>2. r \in RunnerStates /\ (r.own = "running" => r.ref)
  BY <1>1, LaunchType DEF StopInv, TypeOK, OwnedInv
<1>3. /\ rn' = [rn EXCEPT ![x] = r]
      /\ UNCHANGED <<db, phase, id, mu, watcher, wcur, pend, counters>>
  BY <1>1 DEF ResumeRunner, StopInv, TypeOK
<1>4. /\ req' \in [Procs -> ReqStates]
      /\ req'[c].pc = "resume" /\ req'[c].pid = req[c].pid
      /\ \A d \in Procs : d # c => req'[d] = req[d]
  BY <1>0, GotoAtFacts DEF StopInv, ResumeRunner, Labels
<1> HIDE DEF x, r
<1>5. TypeOK'
  BY <1>1, <1>2, <1>3, <1>4 DEF StopInv, TypeOK, counters
<1>6. mu' = c /\ Holds(c)'
  BY <1>0, <1>3, <1>4, HolderAlone DEF Holds
<1>7. QED
  BY <1>0, <1>1, <1>2, <1>3, <1>4, <1>5, <1>6, HolderStarts DEF StopInv, ActiveInv, Holds

LEMMA ResumeFailsStep ==
    ASSUME StopInv, NEW c \in Procs, ResumeFails(c)
    PROVE  StopInv'
<1> DEFINE x == ResumeOrder(req[c].k)
           r == LaunchFails(rn[x])
<1>0. req[c].k \in 1..N /\ Holds(c)
  BY NType DEF ResumeFails, StopInv, TypeOK, ReqStates, Holds
<1>1. x \in Runners
  BY <1>0, ResumeOrderType
<1>2. r \in RunnerStates /\ r.ref
  BY <1>1, LaunchFailsType DEF StopInv, TypeOK
<1>3. /\ rn' = [rn EXCEPT ![x] = r]
      /\ mu' = Nobody
      /\ UNCHANGED <<db, phase, id, watcher, wcur, pend, requests, failures, crashes>>
  BY DEF ResumeFails, Unlock
<1>4. /\ req' \in [Procs -> ReqStates]
      /\ req'[c].pc = "err" /\ req'[c].pid = req[c].pid
      /\ \A d \in Procs : d # c => req'[d] = req[d]
  BY GotoFacts DEF StopInv, ResumeFails, Unlock, Labels
<1>5. faults' \in Nat
  BY FaultType DEF ResumeFails, StopInv
<1> HIDE DEF x, r
<1>6. TypeOK'
  BY <1>1, <1>2, <1>3, <1>4, <1>5 DEF StopInv, TypeOK
<1>7. ~Holds(c)'
  BY <1>4 DEF Holds
<1>8. QED
  BY <1>0, <1>1, <1>2, <1>3, <1>4, <1>6, <1>7, HolderStarts DEF StopInv, ActiveInv, Holds

LEMMA ResumeDoneStep ==
    ASSUME StopInv, NEW c \in Procs, NEW w \in Watchers, ResumeDone(c, w)
    PROVE  StopInv'
BY StartDone DEF ResumeDone, Holds


-----------------------------------------------------------------------------
(* StopPipeline *)

LEMMA CancelType ==
    ASSUME NEW v \in WatcherStates
    PROVE  /\ [v EXCEPT !.cancelled = TRUE] \in WatcherStates
           /\ [v EXCEPT !.cancelled = TRUE].pc = v.pc
BY DEF WatcherStates

LEMMA StopLockStep ==
    ASSUME StopInv, NEW c \in Procs, StopLock(c)
    PROVE  StopInv'
<1>0. /\ mu = Nobody /\ req[c].pc = "lock" /\ \A d \in Procs : ~Holds(d)
      /\ \A w \in Watchers : watcher[w].pc # "check"
      /\ UNCHANGED <<db, phase, id, rn, wcur, pend, counters>>
  BY NobodyIsNoProcess DEF StopLock, StopInv, MutexInv
<1>1. CASE id # req[c].pid
  <2>1. /\ req' \in [Procs -> ReqStates] /\ mu' = mu /\ watcher' = watcher
        /\ req'[c].pc = "err" /\ req'[c].pid = req[c].pid
        /\ \A d \in Procs : d # c => req'[d] = req[d]
    BY <1>1, GotoFacts DEF StopInv, StopLock, Labels
  <2>2. TypeOK'
    BY <1>0, <2>1 DEF StopInv, TypeOK, counters
  <2>3. QED
    BY <1>0, <2>1, <2>2 DEF StopInv, MutexInv, ActiveInv, PausedStaysDown,
       Paused, Holds, OwnedInv, NothingRunsWhenIdle
<1>2. CASE id = req[c].pid
  <2>1. /\ req' \in [Procs -> ReqStates] /\ mu' = c
        /\ req'[c].pc = "watchers" /\ req'[c].pid = req[c].pid
        /\ \A d \in Procs : d # c => req'[d] = req[d]
    BY <1>2, GotoFacts DEF StopInv, StopLock, Labels
  <2>2. /\ watcher' \in [Watchers -> WatcherStates]
        /\ \A w \in Watchers : watcher'[w].pc = watcher[w].pc
    <3>1. \A w \in Watchers : watcher[w] \in WatcherStates
      BY DEF StopInv, TypeOK
    <3>2. watcher' = [w \in Watchers |->
                        IF w = wcur THEN [watcher[w] EXCEPT !.cancelled = TRUE]
                        ELSE watcher[w]]
      BY <1>2 DEF StopLock
    <3>3. QED
      BY <3>1, <3>2, CancelType
  <2>3. TypeOK'
    BY <1>0, <2>1, <2>2 DEF StopInv, TypeOK, counters
  <2>4. MutexInv' /\ ActiveInv'
    BY <1>0, <1>2, <2>1, <2>2, NobodyIsNoProcess DEF StopInv, MutexInv, ActiveInv, Holds
  <2>5. PausedStaysDown' /\ OwnedInv' /\ NothingRunsWhenIdle'
    BY <1>0, <2>1 DEF StopInv, PausedStaysDown, Paused, Holds, OwnedInv,
       NothingRunsWhenIdle
  <2>6. QED
    BY <2>3, <2>4, <2>5 DEF StopInv
<1>3. QED
  BY <1>1, <1>2

\* Steps of a stop that keep d.m: the runners got past are down.
LEMMA StopContinues ==
    ASSUME StopInv, NEW c \in Procs, Holds(c), Holds(c)',
           UNCHANGED <<db, phase, id, mu, watcher, wcur, pend, counters>>,
           req' \in [Procs -> ReqStates], req'[c].pid = req[c].pid,
           req'[c].pc = "done" => req'[c].k \in Runners,
           \A d \in Procs : d # c => req'[d] = req[d],
           rn' \in [Runners -> RunnerStates],
           \A x \in Runners : rn'[x].own = "running" =>
                rn[x].own = "running" /\ rn'[x].ref /\ ~Paused(c, x)',
           \A x \in Runners : rn'[x].ref => rn[x].ref
    PROVE  StopInv'
<1>1. TypeOK'
  BY DEF StopInv, TypeOK, counters
<1>2. MutexInv' /\ ActiveInv'
  BY DEF StopInv, MutexInv, ActiveInv, Holds
<1>3. OwnedInv' /\ NothingRunsWhenIdle'
  BY DEF StopInv, OwnedInv, NothingRunsWhenIdle
<1>4. PausedStaysDown'
  BY DEF StopInv, PausedStaysDown, Paused
<1>5. QED
  BY <1>1, <1>2, <1>3, <1>4 DEF StopInv

LEMMA WatchersGoneStep ==
    ASSUME StopInv, NEW c \in Procs, WatchersGone(c)
    PROVE  StopInv'
<1>1. /\ req' \in [Procs -> ReqStates]
      /\ req'[c].pc = "pause" /\ req'[c].k = 1 /\ req'[c].pid = req[c].pid
      /\ \A d \in Procs : d # c => req'[d] = req[d]
  BY GotoAtFacts, NType DEF StopInv, WatchersGone, Labels
<1>2. Holds(c) /\ Holds(c)'
  BY <1>1 DEF WatchersGone, Holds
<1>3. \A x \in Runners : ~Paused(c, x)'
  BY <1>1, NType DEF Paused, Runners
<1>4. QED
  BY <1>1, <1>2, <1>3, StopContinues DEF WatchersGone, StopInv, TypeOK, OwnedInv

\* The runner at hand is down and is got past.
LEMMA NextPaused ==
    ASSUME StopInv, NEW c \in Procs, req[c].pc \in {"pause", "done"},
           req[c].k \in Runners, rn[req[c].k].own # "running",
           GotoAt(c, "pause", req[c].k + 1),
           UNCHANGED <<db, phase, id, mu, rn, watcher, wcur, pend, counters>>
    PROVE  StopInv'
<1>0. req[c].k \in 1..N /\ req[c].k + 1 \in 1..(N + 1)
  BY NType DEF Runners
<1>1. /\ req' \in [Procs -> ReqStates]
      /\ req'[c].pc = "pause" /\ req'[c].k = req[c].k + 1 /\ req'[c].pid = req[c].pid
      /\ \A d \in Procs : d # c => req'[d] = req[d]
  BY <1>0, GotoAtFacts DEF StopInv, Labels
<1>2. Holds(c) /\ Holds(c)'
  BY <1>1 DEF Holds
<1>3. ASSUME NEW x \in Runners, Paused(c, x)' PROVE rn[x].own # "running"
  <2>1. x < req[c].k + 1
    BY <1>1, <1>3 DEF Paused
  <2>2. CASE x = req[c].k
    BY <2>2
  <2>3. CASE x # req[c].k
    <3>1. x < req[c].k
      BY <1>0, <2>1, <2>3, NType DEF Runners
    <3>2. QED
      BY <1>0, <3>1, NType DEF StopInv, PausedStaysDown, Paused, Runners
  <2>4. QED
    BY <2>2, <2>3
<1>4. QED
  BY <1>1, <1>2, <1>3, StopContinues DEF StopInv, TypeOK, OwnedInv

LEMMA SkipRunnerStep ==
    ASSUME StopInv, NEW c \in Procs, SkipRunner(c)
    PROVE  StopInv'
<1>1. req[c].k \in Runners
  BY NType DEF SkipRunner, StopInv, TypeOK, ReqStates, Runners
<1>2. rn[req[c].k].own # "running"
  BY <1>1 DEF SkipRunner, StopInv, OwnedInv
<1>3. QED
  BY <1>1, <1>2, NextPaused DEF SkipRunner

LEMMA AwaitDoneStep ==
    ASSUME StopInv, NEW c \in Procs, AwaitDone(c)
    PROVE  StopInv'
<1>1. req[c].k \in Runners
  BY DEF AwaitDone, StopInv, ActiveInv
<1>2. rn[req[c].k].own # "running"
  BY <1>1, NType DEF AwaitDone, StopInv, PausedStaysDown, Paused, Runners
<1>3. QED
  BY <1>1, <1>2, NextPaused DEF AwaitDone

LEMMA ShutdownStep ==
    ASSUME StopInv, NEW c \in Procs, Shutdown(c)
    PROVE  StopInv'
<1> DEFINE k == req[c].k
           r == Ended(rn[k])
<1>1. k \in Runners /\ k \in Nat
  BY NType DEF Shutdown, StopInv, TypeOK, ReqStates, Runners
<1>2. r \in RunnerStates /\ r.ref = rn[k].ref /\ r.own # "running"
  BY <1>1, EndedType DEF StopInv, TypeOK
<1>3. /\ rn' = [rn EXCEPT ![k] = r]
      /\ UNCHANGED <<db, phase, id, mu, watcher, wcur, pend, counters>>
  BY DEF Shutdown
<1>4. /\ req' \in [Procs -> ReqStates]
      /\ req'[c].pc = "done" /\ req'[c].k = k /\ req'[c].pid = req[c].pid
      /\ \A d \in Procs : d # c => req'[d] = req[d]
  BY GotoFacts DEF StopInv, Shutdown, Labels
<1>5. Holds(c) /\ Holds(c)' /\ req[c].pc = "pause" /\ req'[c].k \in Runners
  BY <1>1, <1>4 DEF Shutdown, Holds
<1> HIDE DEF r
<1>6. rn' \in [Runners -> RunnerStates] /\ rn'[k] = r
      /\ \A x \in Runners : x # k => rn'[x] = rn[x]
  BY <1>1, <1>2, <1>3 DEF StopInv, TypeOK
<1>7. ASSUME NEW x \in Runners, rn'[x].own = "running"
      PROVE  rn[x].own = "running" /\ rn'[x].ref /\ ~Paused(c, x)'
  <2>1. x # k /\ rn'[x] = rn[x]
    BY <1>2, <1>6, <1>7
  <2>2. ~(x < k)
    BY <1>5, <1>7, <2>1 DEF StopInv, PausedStaysDown, Paused
  <2>3. ~(x <= k)
    BY <1>1, <2>1, <2>2, NType DEF Runners
  <2>4. QED
    BY <1>4, <1>7, <2>1, <2>3 DEF StopInv, OwnedInv, Paused
<1>8. \A x \in Runners : rn'[x].ref => rn[x].ref
  BY <1>2, <1>6
<1>9. QED
  BY <1>3, <1>4, <1>5, <1>6, <1>7, <1>8, StopContinues

LEMMA PauseTimeoutStep ==
    ASSUME StopInv, NEW c \in Procs, PauseTimeout(c)
    PROVE  StopInv'
<1>1. /\ req' \in [Procs -> ReqStates]
      /\ req'[c].pc = "err" /\ req'[c].pid = req[c].pid
      /\ \A d \in Procs : d # c => req'[d] = req[d]
  BY GotoFacts DEF StopInv, PauseTimeout, Unlock, Labels
<1>2. /\ Holds(c) /\ ~Holds(c)' /\ mu' = Nobody /\ faults' \in Nat
      /\ UNCHANGED <<db, phase, id, rn, watcher, wcur, pend,
                     requests, failures, crashes>>
  BY <1>1, FaultType DEF PauseTimeout, Holds, Unlock, StopInv
<1>3. TypeOK'
  BY <1>1, <1>2 DEF StopInv, TypeOK
<1>4. QED
  BY <1>1, <1>2, <1>3, SameRunners, HolderStarts DEF StopInv, ActiveInv, Holds

LEMMA ForgetType ==
    ASSUME NEW r \in RunnerStates
    PROVE  /\ [r EXCEPT !.ref = FALSE] \in RunnerStates
           /\ [r EXCEPT !.ref = FALSE].own = r.own
           /\ ~[r EXCEPT !.ref = FALSE].ref
BY DEF RunnerStates

LEMMA TerminateStep ==
    ASSUME StopInv, NEW c \in Procs, Terminate(c)
    PROVE  StopInv'
<1>1. /\ req' \in [Procs -> ReqStates]
      /\ req'[c].pc = "ok" /\ req'[c].pid = req[c].pid
      /\ \A d \in Procs : d # c => req'[d] = req[d]
  BY GotoFacts DEF StopInv, Terminate, Unlock, Labels
<1>2. /\ Holds(c) /\ ~Holds(c)' /\ mu' = Nobody /\ id' = NoPipeline
      /\ req[c].pc = "pause" /\ req[c].k = N + 1
      /\ rn' = [x \in Runners |-> [rn[x] EXCEPT !.ref = FALSE]]
      /\ pend' = [pend EXCEPT ![req[c].pid] = {}]
      /\ UNCHANGED <<db, phase, watcher, wcur, counters>>
  BY <1>1 DEF Terminate, Holds, Unlock
<1>3. \A x \in Runners : rn[x] \in RunnerStates
  BY DEF StopInv, TypeOK
<1>4. /\ rn' \in [Runners -> RunnerStates]
      /\ \A x \in Runners : rn'[x].own = rn[x].own /\ ~rn'[x].ref
  BY <1>2, <1>3, ForgetType
<1>5. \A x \in Runners : rn[x].own # "running"
  <2>1. \A x \in Runners : x < N + 1
    BY NType DEF Runners
  <2>2. QED
    BY <1>2, <2>1 DEF StopInv, PausedStaysDown, Paused
<1>6. pend' \in [Pipelines -> SUBSET Runners]
  BY <1>2 DEF StopInv, TypeOK
<1>7. TypeOK'
  BY <1>1, <1>2, <1>4, <1>6 DEF StopInv, TypeOK, counters
<1>8. /\ \A d \in Procs : ~Holds(d)'
      /\ \A w \in Watchers : watcher[w].pc # "check"
  BY <1>1, <1>2, HolderAlone DEF Holds
<1>9. MutexInv' /\ ActiveInv'
  BY <1>1, <1>2, <1>8, NobodyIsNoProcess DEF StopInv, MutexInv, ActiveInv, Holds
<1>10. PausedStaysDown' /\ OwnedInv' /\ NothingRunsWhenIdle'
  BY <1>4, <1>5 DEF PausedStaysDown, OwnedInv, NothingRunsWhenIdle
<1>11. QED
  BY <1>7, <1>9, <1>10 DEF StopInv


-----------------------------------------------------------------------------
(* Watchers *)

\* Steps of a watcher outside d.m.
LEMMA WatcherOutside ==
    ASSUME StopInv, NEW w \in Watchers, NEW l \in {"idle", "lock", "gone"},
           watcher[w].pc # "check",
           watcher' = [watcher EXCEPT ![w].pc = l],
           UNCHANGED <<db, phase, id, mu, rn, wcur, req, pend, counters>>
    PROVE  StopInv'
<1>1. /\ watcher' \in [Watchers -> WatcherStates] /\ watcher'[w].pc = l
      /\ \A u \in Watchers : u # w => watcher'[u] = watcher[u]
  BY DEF StopInv, TypeOK, WatcherStates
<1>2. TypeOK'
  BY <1>1 DEF StopInv, TypeOK, counters
<1>3. QED
  BY <1>1, <1>2 DEF StopInv, MutexInv, ActiveInv, PausedStaysDown, Paused, Holds,
     OwnedInv, NothingRunsWhenIdle

LEMMA WatcherTickStep ==
    ASSUME StopInv, NEW w \in Watchers, WatcherTick(w)
    PROVE  StopInv'
BY WatcherOutside DEF WatcherTick

LEMMA WatcherReturnStep ==
    ASSUME StopInv, NEW w \in Watchers, WatcherReturn(w)
    PROVE  StopInv'
BY WatcherOutside DEF WatcherReturn

LEMMA WatcherLockStep ==
    ASSUME StopInv, NEW w \in Watchers, WatcherLock(w)
    PROVE  StopInv'
<1>1. CASE id = NoPipeline
  BY <1>1, WatcherOutside DEF WatcherLock
<1>2. CASE id # NoPipeline
  <2>1. /\ mu = Nobody /\ mu' = w /\ watcher[w].pc = "lock"
        /\ watcher' = [watcher EXCEPT ![w].pc = "check", ![w].k = 1]
        /\ UNCHANGED <<db, phase, id, rn, wcur, req, pend, counters>>
    BY <1>2 DEF WatcherLock
  <2>2. 1 \in 1..(N + 1)
    BY NType
  <2>3. /\ watcher' \in [Watchers -> WatcherStates] /\ watcher'[w].pc = "check"
        /\ \A u \in Watchers : u # w => watcher'[u] = watcher[u]
    BY ZenonT(40), <2>1, <2>2 DEF StopInv, TypeOK, WatcherStates
  <2>4. TypeOK'
    BY <2>1, <2>3 DEF StopInv, TypeOK, counters
  <2>5. /\ \A c \in Procs : ~Holds(c) /\ c # w
        /\ \A u \in Watchers : watcher[u].pc # "check"
    BY <2>1, NobodyIsNoProcess DEF StopInv, MutexInv
  <2>6. MutexInv' /\ ActiveInv'
    BY <1>2, <2>1, <2>3, <2>5 DEF StopInv, MutexInv, ActiveInv, Holds
  <2>7. PausedStaysDown' /\ OwnedInv' /\ NothingRunsWhenIdle'
    BY <2>1 DEF StopInv, PausedStaysDown, Paused, OwnedInv, NothingRunsWhenIdle
  <2>8. QED
    BY <2>4, <2>6, <2>7 DEF StopInv
<1>3. QED
  BY <1>1, <1>2

\* While a watcher is inside d.m, nobody stops a pipeline and one is active.
LEMMA WatcherAlone ==
    ASSUME StopInv, NEW w \in Watchers, watcher[w].pc = "check"
    PROVE  /\ mu = w /\ id # NoPipeline
           /\ \A c \in Procs : ~Holds(c)
BY NobodyIsNoProcess DEF StopInv, MutexInv, ActiveInv

LEMMA RestartRunnerStep ==
    ASSUME StopInv, NEW w \in Watchers, RestartRunner(w)
    PROVE  StopInv'
<1> DEFINE x == watcher[w].k
<1>1. x \in Runners /\ x + 1 \in 1..(N + 1) /\ watcher[w].pc = "check"
  BY NType DEF RestartRunner, Restarts, StopInv, TypeOK, WatcherStates, Runners
<1>2. PICK r \in RunnerStates : r.ref /\ rn' = [rn EXCEPT ![x] = r]
  <2>1. /\ Launch(rn[x], w) \in RunnerStates /\ Launch(rn[x], w).ref
        /\ LaunchFails(rn[x]) \in RunnerStates /\ LaunchFails(rn[x]).ref
    BY <1>1, LaunchType, LaunchFailsType DEF StopInv, TypeOK
  <2>2. QED
    BY <2>1 DEF RestartRunner
<1>3. /\ watcher' = [watcher EXCEPT ![w].k = x + 1]
      /\ UNCHANGED <<db, phase, id, mu, wcur, req, pend, requests, failures, crashes>>
  BY DEF RestartRunner, NextRunner
<1>4. faults' \in Nat
  BY FaultType DEF RestartRunner, StopInv
<1> HIDE DEF x
<1>5. /\ watcher' \in [Watchers -> WatcherStates]
      /\ \A u \in Watchers : watcher'[u].pc = watcher[u].pc
  BY <1>1, <1>3 DEF StopInv, TypeOK, WatcherStates
<1>6. TypeOK'
  BY <1>1, <1>2, <1>3, <1>4, <1>5 DEF StopInv, TypeOK
<1>7. MutexInv' /\ ActiveInv'
  BY <1>3, <1>5 DEF StopInv, MutexInv, ActiveInv, Holds
<1>8. PausedStaysDown' /\ OwnedInv' /\ NothingRunsWhenIdle'
  BY <1>1, <1>2, <1>3, WatcherAlone DEF StopInv, TypeOK, PausedStaysDown, Paused, Holds,
     OwnedInv, NothingRunsWhenIdle
<1>9. QED
  BY <1>6, <1>7, <1>8 DEF StopInv

LEMMA WatcherSkipsStep ==
    ASSUME StopInv, NEW w \in Watchers, WatcherSkips(w)
    PROVE  StopInv'
<1>1. watcher[w].k + 1 \in 1..(N + 1)
  BY NType DEF WatcherSkips, StopInv, TypeOK, WatcherStates
<1>2. /\ watcher' = [watcher EXCEPT ![w].k = watcher[w].k + 1]
      /\ UNCHANGED <<db, phase, id, mu, rn, wcur, req, pend, counters>>
  BY DEF WatcherSkips, NextRunner
<1>3. /\ watcher' \in [Watchers -> WatcherStates]
      /\ \A u \in Watchers : watcher'[u].pc = watcher[u].pc
  BY <1>1, <1>2 DEF StopInv, TypeOK, WatcherStates
<1>4. TypeOK'
  BY <1>2, <1>3 DEF StopInv, TypeOK, counters
<1>5. QED
  BY <1>2, <1>3, <1>4 DEF StopInv, MutexInv, ActiveInv, PausedStaysDown, Paused, Holds,
     OwnedInv, NothingRunsWhenIdle

LEMMA WatcherUnlockStep ==
    ASSUME StopInv, NEW w \in Watchers, WatcherUnlock(w)
    PROVE  StopInv'
<1>1. /\ watcher[w].pc = "check" /\ mu' = Nobody
      /\ watcher' = [watcher EXCEPT ![w].pc = "idle"]
      /\ UNCHANGED <<db, phase, id, rn, wcur, req, pend, counters>>
  BY DEF WatcherUnlock
<1>2. /\ watcher' \in [Watchers -> WatcherStates] /\ watcher'[w].pc = "idle"
      /\ \A u \in Watchers : u # w => watcher'[u] = watcher[u]
  BY <1>1 DEF StopInv, TypeOK, WatcherStates
<1>3. TypeOK'
  BY <1>1, <1>2 DEF StopInv, TypeOK, counters
<1>4. mu = w /\ \A c \in Procs : ~Holds(c)
  BY <1>1, WatcherAlone
<1>5. \A u \in Watchers : watcher'[u].pc # "check"
  BY <1>2, <1>4 DEF StopInv, MutexInv
<1>6. MutexInv' /\ ActiveInv'
  BY <1>1, <1>4, <1>5, NobodyIsNoProcess DEF StopInv, MutexInv, ActiveInv, Holds
<1>7. PausedStaysDown' /\ OwnedInv' /\ NothingRunsWhenIdle'
  BY <1>1 DEF StopInv, PausedStaysDown, Paused, OwnedInv, NothingRunsWhenIdle
<1>8. QED
  BY <1>3, <1>6, <1>7 DEF StopInv

-----------------------------------------------------------------------------
(* Components *)

\* A component that ends, or an orphan that does, breaks nothing.
LEMMA ComponentEnds ==
    ASSUME StopInv, NEW x \in Runners, NEW r \in RunnerStates,
           rn' = [rn EXCEPT ![x] = r],
           r.ref = rn[x].ref, r.own = "running" => rn[x].own = "running",
           TypeOK', UNCHANGED <<id, mu, watcher, req>>
    PROVE  StopInv'
<1>1. /\ \A y \in Runners : rn'[y].own = "running" => rn[y].own = "running"
      /\ \A y \in Runners : rn'[y].ref = rn[y].ref
  BY DEF StopInv, TypeOK
<1>2. MutexInv' /\ ActiveInv'
  BY DEF StopInv, MutexInv, ActiveInv, Holds
<1>3. PausedStaysDown' /\ OwnedInv' /\ NothingRunsWhenIdle'
  BY <1>1 DEF StopInv, PausedStaysDown, Paused, OwnedInv, NothingRunsWhenIdle
<1>4. QED
  BY <1>2, <1>3 DEF StopInv

LEMMA ComponentCancelledStep ==
    ASSUME StopInv, NEW x \in Runners, ComponentCancelled(x)
    PROVE  StopInv'
<1>1. PICK r \in RunnerStates :
        /\ rn' = [rn EXCEPT ![x] = r]
        /\ r.ref = rn[x].ref /\ (r.own = "running" => rn[x].own = "running")
  <2>1. rn[x] \in RunnerStates
    BY DEF StopInv, TypeOK
  <2>2. CASE rn' = [rn EXCEPT ![x] = Ended(rn[x])]
    BY <2>1, <2>2, EndedType
  <2>3. CASE \E o \in rn[x].orphans :
               rn' = [rn EXCEPT ![x].orphans = rn[x].orphans \ {o}]
    <3>1. PICK o \in rn[x].orphans :
               rn' = [rn EXCEPT ![x].orphans = rn[x].orphans \ {o}]
      BY <2>3
    <3> DEFINE r == [rn[x] EXCEPT !.orphans = rn[x].orphans \ {o}]
    <3>2. r \in RunnerStates /\ r.ref = rn[x].ref /\ r.own = rn[x].own
      BY <2>1 DEF RunnerStates
    <3>3. rn' = [rn EXCEPT ![x] = r]
      BY <3>1
    <3> HIDE DEF r
    <3>4. QED
      BY <3>2, <3>3
  <2>4. QED
    BY <2>2, <2>3 DEF ComponentCancelled
<1>2. UNCHANGED <<db, phase, id, mu, watcher, wcur, req, pend, counters>>
  BY DEF ComponentCancelled
<1>3. TypeOK'
  BY <1>1, <1>2 DEF StopInv, TypeOK, counters
<1>4. QED
  BY <1>1, <1>2, <1>3, ComponentEnds

LEMMA ComponentFailsStep ==
    ASSUME StopInv, NEW x \in Runners, ComponentFails(x)
    PROVE  StopInv'
<1> DEFINE r == Ended(rn[x])
<1>1. r \in RunnerStates /\ r.ref = rn[x].ref /\ r.own # "running"
  BY EndedType DEF StopInv, TypeOK
<1>2. /\ rn' = [rn EXCEPT ![x] = r]
      /\ failures' = failures + 1
      /\ UNCHANGED <<db, phase, id, mu, watcher, wcur, req, pend,
                     requests, faults, crashes>>
  BY DEF ComponentFails
<1> HIDE DEF r
<1>3. TypeOK'
  BY <1>1, <1>2 DEF StopInv, TypeOK
<1>4. QED
  BY <1>1, <1>2, <1>3, ComponentEnds

\* Messages come and go.
LEMMA DataStep ==
    ASSUME StopInv, NEW x \in Runners, Publish(x) \/ Consume(x)
    PROVE  StopInv'
<1>1. UNCHANGED <<db, phase, id, mu, rn, watcher, wcur, req, counters>>
  BY DEF Publish, Consume
<1>2. NI + 1 \in Runners
  BY NType DEF Runners
<1>3. pend' \in [Pipelines -> SUBSET Runners]
  <2>1. CASE Publish(x)
    BY <1>2, <2>1 DEF Publish, StopInv, TypeOK
  <2>2. CASE Consume(x)
    <3>1. PICK out \in SUBSET Runners :
             pend' = [pend EXCEPT ![id] = (pend[id] \ {x}) \cup out]
      BY <2>2 DEF Consume
    <3>2. id \in Pipelines
      BY <2>2 DEF Consume, Active, StopInv, TypeOK
    <3>3. (pend[id] \ {x}) \cup out \in SUBSET Runners
      BY <3>2 DEF StopInv, TypeOK
    <3>4. QED
      BY <3>1, <3>2, <3>3 DEF StopInv, TypeOK
  <2>3. QED
    BY <2>1, <2>2
<1>4. TypeOK'
  BY <1>1, <1>3 DEF StopInv, TypeOK, counters
<1>5. QED
  BY <1>1, <1>4 DEF StopInv, MutexInv, ActiveInv, PausedStaysDown, Paused, Holds,
     OwnedInv, NothingRunsWhenIdle


-----------------------------------------------------------------------------
(* The process *)

LEMMA ProcessGoneStep ==
    ASSUME StopInv, ProcessGone, {requests', faults', failures', crashes'} \subseteq Nat
    PROVE  StopInv'
<1>1. TypeOK'
  BY ConstType DEF ProcessGone, StopInv, TypeOK
<1>2. MutexInv' /\ ActiveInv'
  BY ConstType, NobodyIsNoProcess DEF ProcessGone, MutexInv, ActiveInv, Holds
<1>3. PausedStaysDown' /\ OwnedInv' /\ NothingRunsWhenIdle'
  BY ConstType DEF ProcessGone, PausedStaysDown, OwnedInv, NothingRunsWhenIdle
<1>4. QED
  BY <1>1, <1>2, <1>3 DEF StopInv

LEMMA SigtermStep ==
    ASSUME StopInv, NEW s \in Cleaners, Sigterm(s)
    PROVE  StopInv'
<1> DEFINE q == [pc |-> "lock", op |-> "exit", pid |-> id, k |-> 1]
<1>1. s \in Procs /\ ~Holds(s) /\ id \in Pipelines
  BY DEF Sigterm, Procs, Holds, StopInv, TypeOK
<1>2. q \in ReqStates /\ q.pc = "lock" /\ q.pid \in Pipelines
  BY <1>1, NType DEF ReqStates, Labels
<1>3. /\ req' = [req EXCEPT ![s] = q]
      /\ phase' = "draining" /\ crashes' = crashes + 1
      /\ UNCHANGED <<db, id, mu, rn, watcher, wcur, pend, requests, faults, failures>>
  BY DEF Sigterm
<1> HIDE DEF q
<1>4. /\ req' \in [Procs -> ReqStates] /\ req'[s] = q
      /\ \A d \in Procs : d # s => req'[d] = req[d]
  BY <1>1, <1>2, <1>3 DEF StopInv, TypeOK
<1>5. TypeOK'
  BY <1>3, <1>4 DEF StopInv, TypeOK
<1>6. QED
  BY <1>1, <1>2, <1>3, <1>4, <1>5 DEF StopInv, MutexInv, ActiveInv, PausedStaysDown,
     Paused, Holds, OwnedInv, NothingRunsWhenIdle

LEMMA RestartStep ==
    ASSUME StopInv, Restart
    PROVE  StopInv'
<1>1. UNCHANGED <<id, mu, rn, watcher, wcur, req, pend, requests, failures, crashes>>
  BY DEF Restart
<1>2. db' \in [Pipelines -> Statuses \cup {"absent"}]
  <2>1. \A p \in Pipelines : CleanUp(p) \in Statuses \cup {"absent"}
    BY DEF CleanUp, Statuses, StopInv, TypeOK
  <2>2. QED
    BY <2>1 DEF Restart, StopInv, TypeOK
<1>3. faults' \in Nat
  BY FaultType DEF Restart, StopInv
<1>4. TypeOK'
  BY <1>1, <1>2, <1>3 DEF Restart, StopInv, TypeOK
<1>5. QED
  BY <1>1, <1>4 DEF StopInv, MutexInv, ActiveInv, PausedStaysDown, Paused, Holds,
     OwnedInv, NothingRunsWhenIdle

LEMMA ProcessStep ==
    ASSUME StopInv, Process
    PROVE  StopInv'
<1>1. CASE Crash
  BY <1>1, ProcessGoneStep DEF Crash, StopInv, TypeOK
<1>2. ASSUME NEW s \in Cleaners, Exit(s) PROVE StopInv'
  BY <1>2, ProcessGoneStep DEF Exit, counters, StopInv, TypeOK
<1>3. QED
  BY <1>1, <1>2, SigtermStep, RestartStep DEF Process

-----------------------------------------------------------------------------
(* The theorems *)

LEMMA InitStep == Init => StopInv
<1> SUFFICES ASSUME Init PROVE StopInv
  OBVIOUS
<1>1. TypeOK
  BY ConstType DEF Init, TypeOK
<1>2. MutexInv /\ ActiveInv
  BY ConstType, NobodyIsNoProcess DEF Init, MutexInv, ActiveInv, Holds
<1>3. PausedStaysDown /\ OwnedInv /\ NothingRunsWhenIdle
  BY ConstType DEF Init, PausedStaysDown, OwnedInv, NothingRunsWhenIdle
<1>4. QED
  BY <1>1, <1>2, <1>3 DEF StopInv

LEMMA StutterStep ==
    ASSUME StopInv, UNCHANGED vars
    PROVE  StopInv'
BY DEF vars, counters, StopInv, TypeOK, MutexInv, ActiveInv, PausedStaysDown, Paused,
   Holds, OwnedInv, NothingRunsWhenIdle

LEMMA RequestStep ==
    ASSUME StopInv, NEW c \in Procs, Lock(c) \/ Advance(c)
    PROVE  StopInv'
<1>1. CASE Lock(c)
  BY <1>1, EditCheckStep, SetupLockStep, StopLockStep, ResumeLockStep DEF Lock
<1>2. CASE SetUp(c)
  BY <1>2, StartRunnerStep, SetupFailsQuietlyStep, SetupFailsStep, SetupDoneStep DEF SetUp
<1>3. CASE StopSteps(c)
  BY <1>3, WatchersGoneStep, SkipRunnerStep, ShutdownStep, AwaitDoneStep,
     PauseTimeoutStep, TerminateStep DEF StopSteps
<1>4. CASE Resume(c)
  BY <1>4, ResumeRunnerStep, ResumeFailsStep, ResumeDoneStep DEF Resume
<1>5. QED
  BY <1>1, <1>2, <1>3, <1>4, WriteStatusStep, WriteFailsStep, UpsertResourcesStep,
     FinishStep DEF Advance

LEMMA WatchStep ==
    ASSUME StopInv, NEW w \in Watchers, Watch(w)
    PROVE  StopInv'
BY WatcherTickStep, WatcherReturnStep, WatcherLockStep, RestartRunnerStep,
   WatcherSkipsStep, WatcherUnlockStep DEF Watch

LEMMA ComponentStep ==
    ASSUME StopInv, NEW x \in Runners, Component(x)
    PROVE  StopInv'
BY ComponentCancelledStep, ComponentFailsStep, DataStep DEF Component

\* The inductive invariant: d.m is held by whoever is between Lock and Unlock, its
\* holder works on the active pipeline, and a runner that StopPipeline has shut
\* down stays down until d.m is released.
THEOREM StopInvariant == Spec => []StopInv
<1>1. StopInv /\ [Next]_vars => StopInv'
  <2> SUFFICES ASSUME StopInv, [Next]_vars PROVE StopInv'
    OBVIOUS
  <2>1. CASE Next
    BY <2>1, ReceiveStep, RequestStep, WatchStep, ComponentStep, ProcessStep DEF Next
  <2>2. CASE UNCHANGED vars
    BY <2>2, StutterStep
  <2>3. QED
    BY <2>1, <2>2
<1>2. QED
  BY InitStep, <1>1, PTL DEF Spec

\* Every variable keeps its type, whatever the numbers of pipelines, requests,
\* watchers and runners.
THEOREM TypeCorrect == Spec => []TypeOK
<1>1. StopInv => TypeOK
  BY DEF StopInv
<1>2. QED
  BY StopInvariant, <1>1, PTL

\* When no pipeline is active no runner is held and no component that a runner
\* owned runs: terminatePipelineComponents abandons nothing.
THEOREM NothingIsAbandoned == Spec => []NothingRunsWhenIdle
<1>1. StopInv => NothingRunsWhenIdle
  BY DEF StopInv
<1>2. QED
  BY StopInvariant, <1>1, PTL

-----------------------------------------------------------------------------
(* The row of a pipeline, while its requests come one after the other *)

Setups == {"create", "edit", "resources"}
Stops == {"stop", "terminate", "delete", "cleanup", "exit"}

\* The operations whose program has this label.
OpsAt(l) ==
    CASE l = "idle" -> {"none"}
      [] l = "write" -> {"create", "stop", "terminate", "resume", "edit"}
      [] l = "resources" -> {"create"}
      [] l = "check" -> {"edit", "resources"}
      [] l = "setup" -> Setups
      [] l = "resume" -> {"resume"}
      [] l \in {"watchers", "pause", "done"} -> Stops
      [] OTHER -> Setups \cup Stops \cup {"resume"}

WorkInv ==
    /\ \A c \in Procs : req[c].op \in OpsAt(req[c].pc)
    /\ \A c \in Clients : req[c].op \notin {"cleanup", "exit"}
    /\ \A s \in Cleaners : req[s].op \in {"none", "cleanup", "exit"}
    /\ \A s \in Cleaners : req[s].op = "exit" => phase = "draining"
    /\ phase = "down" => id = NoPipeline /\ \A c \in Procs : req[c].pc = "idle"

\* The row d of a pipeline that request r is about, i being the active pipeline: until it is
\* written it is the one that was validated, then it is what the request has written.
RowOK(r, d, i) ==
    /\ r.pc = "write" => Accepted(r.op, d[r.pid])
    /\ r.pc \notin {"idle", "write"} =>
          d[r.pid] \in IF r.op \in {"resources", "delete"} THEN {"Stopped", "Failed"}
                       ELSE {Target(r.op)}
    /\ r.pc \in {"lock", "setup"} /\ r.op = "resources" => d[r.pid] = "Failed"
    /\ r.pc = "ok" /\ r.op \in Stops => i # r.pid

RowInv == \A c \in Clients : RowOK(req[c], db, id)

StatusInv == WorkInv /\ RowInv /\ StoppedIsInactive

\* A step of process c, which is under way, touches the row of its own pipeline only.
LEMMA RowStep ==
    ASSUME StopInv, StatusInv, OneRequestPerPipeline, NEW c \in Procs,
           req[c].pc # "idle", phase' = phase,
           \A d \in Procs : d # c => req'[d] = req[d],
           req'[c].op \in OpsAt(req'[c].pc), req'[c].op \in {req[c].op, "none"},
           \A p \in Pipelines : p # req[c].pid => db'[p] = db[p],
           c \in Clients \/ db' = db,
           id' \in {id, NoPipeline} \/ (c \in Clients /\ id' = req[c].pid),
           c \in Clients => RowOK(req'[c], db', id'),
           StoppedIsInactive'
    PROVE  StatusInv'
<1>1. phase # "down"
  BY DEF StatusInv, WorkInv
<1>2. WorkInv'
  BY <1>1 DEF StatusInv, WorkInv, Procs
<1>3. ASSUME NEW d \in Clients PROVE RowOK(req'[d], db', id')
  <2>1. CASE d = c
    BY <2>1
  <2>2. CASE d # c
    <3>1. req'[d] = req[d] /\ RowOK(req[d], db, id)
      BY <2>2 DEF Procs, StatusInv, RowInv
    <3>2. CASE req[d].pc = "idle"
      BY <3>1, <3>2 DEF RowOK
    <3>3. CASE req[d].pc # "idle"
      <4>1. req[d].pid \in Pipelines
        BY <3>3 DEF StopInv, ActiveInv, Procs
      <4>2. c \in Clients => req[d].pid # req[c].pid
        BY <2>2, <3>3 DEF OneRequestPerPipeline
      <4>3. db'[req[d].pid] = db[req[d].pid]
        BY <4>1, <4>2
      <4>4. id' = id \/ id' # req[d].pid
        BY <4>1, <4>2
      <4> QED BY <3>1, <4>3, <4>4 DEF RowOK
    <3> QED BY <3>2, <3>3
  <2> QED BY <2>1, <2>2
<1> QED BY <1>2, <1>3 DEF StatusInv, RowInv

\* A step that leaves the rows and the active pipeline alone.
LEMMA RowMove ==
    ASSUME StopInv, StatusInv, OneRequestPerPipeline, NEW c \in Procs,
           req[c].pc \notin {"idle", "write"}, UNCHANGED <<db, id, phase>>,
           \A d \in Procs : d # c => req'[d] = req[d],
           req'[c].op = req[c].op, req'[c].pid = req[c].pid,
           req'[c].pc \notin {"idle", "write"}, req'[c].op \in OpsAt(req'[c].pc),
           req'[c].pc = "ok" => req[c].op \notin Stops,
           (req'[c].pc \in {"lock", "setup"} /\ req[c].op = "resources") =>
              (req[c].pc \in {"lock", "setup"} \/ db[req[c].pid] # "Stopped")
    PROVE  StatusInv'
<1>1. ASSUME c \in Clients PROVE RowOK(req'[c], db', id')
  <2>1. RowOK(req[c], db, id)
    BY <1>1 DEF StatusInv, RowInv
  <2> QED BY <2>1 DEF RowOK
<1>2. StoppedIsInactive'
  BY DEF StatusInv, StoppedIsInactive
<1> QED BY <1>1, <1>2, RowStep

\* A request returns: its row may have got its last status.
LEMMA RowReturn ==
    ASSUME StopInv, StatusInv, OneRequestPerPipeline, NEW c \in Procs,
           req[c].pc # "idle", UNCHANGED <<id, phase>>, Return(c),
           \A p \in Pipelines : p # req[c].pid => db'[p] = db[p],
           c \in Clients \/ db' = db,
           StoppedIsInactive'
    PROVE  StatusInv'
<1>1. req'[c] = Idle /\ \A d \in Procs : d # c => req'[d] = req[d]
  BY ReturnFacts DEF StopInv
<1>2. /\ req'[c].op \in OpsAt(req'[c].pc) /\ req'[c].op \in {req[c].op, "none"}
      /\ RowOK(req'[c], db', id')
  BY <1>1 DEF Idle, OpsAt, RowOK
<1> QED BY <1>1, <1>2, RowStep

-----------------------------------------------------------------------------
(* The service *)

LEMMA ReceiveRow ==
    ASSUME StopInv, StatusInv, OneRequestPerPipeline,
           NEW c \in Clients, NEW op \in Ops, NEW p \in Pipelines, Receive(c, op, p)
    PROVE  StatusInv'
<1> DEFINE q == [pc |-> CASE op = "delete" -> "lock"
                      [] op = "resources" -> "check"
                      [] OTHER -> "write",
                 op |-> op, pid |-> p, k |-> 1]
<1>1. /\ req' = [req EXCEPT ![c] = q] /\ c \in Procs /\ phase = "up" /\ Accepted(op, db[p])
      /\ UNCHANGED <<db, phase, id>>
  BY DEF Receive, Procs
<1>2. op \in {"create", "stop", "terminate", "resume", "edit", "resources", "delete"}
  BY BoundsAssumption
<1>3. /\ q.pc = (CASE op = "delete" -> "lock" [] op = "resources" -> "check" [] OTHER -> "write")
      /\ q.op = op /\ q.pid = p
  OBVIOUS
<1>4. q.op \in OpsAt(q.pc) /\ q.op \notin {"cleanup", "exit"} /\ q.pc # "idle"
  BY <1>2, <1>3 DEF OpsAt, Setups, Stops
<1>5. RowOK(q, db, id)
  BY <1>1, <1>2, <1>3 DEF RowOK, Accepted
<1> HIDE DEF q
<1>6. req'[c] = q /\ \A d \in Procs : d # c => req'[d] = req[d]
  BY <1>1 DEF StopInv, TypeOK
<1>7. WorkInv'
  BY <1>1, <1>4, <1>6 DEF StatusInv, WorkInv, Procs
<1>8. RowInv' /\ StoppedIsInactive'
  BY <1>1, <1>5, <1>6 DEF StatusInv, RowInv, Procs, StoppedIsInactive
<1> QED BY <1>7, <1>8 DEF StatusInv

LEMMA TargetIs ==
    ASSUME NEW op
    PROVE  Target(op) \notin {"Stopped", "Failed", "absent"}
BY DEF Target

LEMMA WriteStatusRow ==
    ASSUME StopInv, StatusInv, OneRequestPerPipeline, NEW c \in Procs, WriteStatus(c)
    PROVE  StatusInv'
<1> DEFINE l == CASE req[c].op = "create" -> "resources"
                 [] req[c].op = "edit" -> "check"
                 [] OTHER -> "lock"
<1>1. req[c].op \in {"create", "stop", "terminate", "resume", "edit"} /\ req[c].pc = "write"
  BY DEF WriteStatus, StatusInv, WorkInv, OpsAt
<1>2. /\ l \in {"resources", "check", "lock"} /\ l \in Labels /\ req[c].op \in OpsAt(l)
      /\ l = "resources" \/ l = "check" \/ l = "lock"
  BY <1>1 DEF Labels, OpsAt, Setups, Stops
<1>3. Goto(c, l) /\ db' = [db EXCEPT ![req[c].pid] = Target(req[c].op)] /\ UNCHANGED <<phase, id>>
  BY DEF WriteStatus
<1> HIDE DEF l
<1>4. /\ req'[c].pc = l /\ req'[c].pid = req[c].pid /\ req'[c].op = req[c].op
      /\ \A d \in Procs : d # c => req'[d] = req[d]
  BY <1>2, <1>3, GotoFacts DEF StopInv
<1>5. c \in Clients
  BY <1>1 DEF StatusInv, WorkInv, Procs
<1>6. /\ req[c].pid \in Pipelines /\ db'[req[c].pid] = Target(req[c].op)
      /\ \A p \in Pipelines : p # req[c].pid => db'[p] = db[p]
  BY <1>1, <1>3 DEF StopInv, TypeOK, ActiveInv
<1>7. RowOK(req'[c], db', id')
  BY <1>1, <1>2, <1>4, <1>6 DEF RowOK
<1>8. StoppedIsInactive'
  BY <1>3, <1>6, TargetIs DEF StatusInv, StoppedIsInactive
<1> QED BY <1>1, <1>2, <1>3, <1>4, <1>5, <1>6, <1>7, <1>8, RowStep

LEMMA WriteFailsRow ==
    ASSUME StopInv, StatusInv, OneRequestPerPipeline, NEW c \in Procs, WriteFails(c)
    PROVE  StatusInv'
<1>1. req[c].pc # "idle" /\ Return(c) /\ UNCHANGED <<db, phase, id>>
  BY DEF WriteFails
<1>2. StoppedIsInactive'
  BY <1>1 DEF StatusInv, StoppedIsInactive
<1> QED BY <1>1, <1>2, RowReturn

LEMMA UpsertResourcesRow ==
    ASSUME StopInv, StatusInv, OneRequestPerPipeline, NEW c \in Procs, UpsertResources(c)
    PROVE  StatusInv'
<1>1. req[c].pc = "resources" /\ req[c].op = "create" /\ UNCHANGED <<db, phase, id>>
  BY DEF UpsertResources, StatusInv, WorkInv, OpsAt
<1>2. StoppedIsInactive'
  BY <1>1 DEF StatusInv, StoppedIsInactive
<1>3. CASE Return(c)
  BY <1>1, <1>2, <1>3, RowReturn
<1>4. CASE Goto(c, "lock")
  <2>1. /\ req'[c].pc = "lock" /\ req'[c].pid = req[c].pid /\ req'[c].op = req[c].op
        /\ \A d \in Procs : d # c => req'[d] = req[d]
    BY <1>4, GotoFacts DEF StopInv, Labels
  <2>2. req'[c].op \in OpsAt(req'[c].pc)
    BY <1>1, <2>1 DEF OpsAt, Setups
  <2> QED BY <1>1, <2>1, <2>2, RowMove
<1> QED BY <1>3, <1>4 DEF UpsertResources

LEMMA EditCheckRow ==
    ASSUME StopInv, StatusInv, OneRequestPerPipeline, NEW c \in Procs, EditCheck(c)
    PROVE  StatusInv'
<1>1. req[c].pc = "check" /\ req[c].op \in {"edit", "resources"} /\ UNCHANGED <<db, phase, id>>
  BY DEF EditCheck, StatusInv, WorkInv, OpsAt
<1>2. PICK l \in {"lock", "err"} : Goto(c, l) /\ (l = "lock" => id = req[c].pid)
  BY DEF EditCheck
<1>3. /\ req'[c].pc = l /\ req'[c].pid = req[c].pid /\ req'[c].op = req[c].op
      /\ \A d \in Procs : d # c => req'[d] = req[d]
  BY <1>2, GotoFacts DEF StopInv, Labels
<1>4. req'[c].op \in OpsAt(req'[c].pc)
  BY <1>1, <1>2, <1>3 DEF OpsAt, Setups
<1>5. l = "lock" => db[req[c].pid] # "Stopped"
  BY <1>1, <1>2 DEF StatusInv, StoppedIsInactive, StopInv, ActiveInv
<1> QED BY <1>1, <1>2, <1>3, <1>4, <1>5, RowMove

\* What an operation records at its end does not show a pipeline as stopped that is active.
LEMMA FinishRow ==
    ASSUME StopInv, StatusInv, OneRequestPerPipeline, NEW c \in Procs, Finish(c)
    PROVE  StatusInv'
<1>1. /\ req[c].pc \in {"ok", "err"} /\ Return(c) /\ UNCHANGED <<phase, id>>
      /\ req[c].pid \in Pipelines
  BY DEF Finish, StopInv, ActiveInv
<1>2. CASE db' = db
  <2>1. StoppedIsInactive'
    BY <1>1, <1>2 DEF StatusInv, StoppedIsInactive
  <2> QED BY <1>1, <1>2, <2>1, RowReturn
<1>3. CASE db' = [p \in Pipelines |-> IF p = req[c].pid
                        THEN Final(req[c].op, req[c].pc, db[p]) ELSE db[p]]
  <2>1. CASE c \in Clients
    <3>1. \A p \in Pipelines : p # req[c].pid => db'[p] = db[p]
      BY <1>3
    <3>2. db'[req[c].pid] = Final(req[c].op, req[c].pc, db[req[c].pid])
      BY <1>1, <1>3
    <3>3. db'[req[c].pid] = "Stopped" => id # req[c].pid
      <4>1. RowOK(req[c], db, id)
        BY <2>1 DEF StatusInv, RowInv
      <4>2. db[req[c].pid] = "Stopped" => id # req[c].pid
        BY <1>1 DEF StatusInv, StoppedIsInactive
      <4> QED BY <1>1, <3>2, <4>1, <4>2 DEF Final, RowOK, Stops
    <3>4. StoppedIsInactive'
      BY <1>1, <3>1, <3>3 DEF StatusInv, StoppedIsInactive
    <3> QED BY <1>1, <2>1, <3>1, <3>4, RowReturn
  <2>2. CASE c \notin Clients
    <3>1. req[c].op \in {"none", "cleanup", "exit"}
      BY <2>2 DEF StatusInv, WorkInv, Procs
    <3>2. \A s : Final(req[c].op, req[c].pc, s) = s
      BY <3>1 DEF Final
    <3>3. db' = db
      BY <1>3, <3>2 DEF StopInv, TypeOK
    <3> QED BY <1>2, <3>3
  <2> QED BY <2>1, <2>2
<1> QED BY <1>2, <1>3 DEF Finish

-----------------------------------------------------------------------------
(* The orchestrator *)

\* A request goes on to a label that only its own program can reach.
LEMMA GotoRow ==
    ASSUME StopInv, StatusInv, OneRequestPerPipeline, NEW c \in Procs,
           NEW l \in Labels \ {"idle", "write", "lock"}, NEW i \in 1..(N + 1),
           Goto(c, l) \/ GotoAt(c, l, i), UNCHANGED <<db, id, phase>>,
           req[c].pc \notin {"idle", "write"}, req[c].op \in OpsAt(l),
           l = "ok" => req[c].op \notin Stops, l = "setup" => req[c].pc = "setup"
    PROVE  StatusInv'
<1>1. /\ req'[c].pc = l /\ req'[c].pid = req[c].pid /\ req'[c].op = req[c].op
      /\ \A d \in Procs : d # c => req'[d] = req[d]
  BY GotoFacts, GotoAtFacts DEF StopInv
<1> QED BY <1>1, RowMove

LEMMA NextLabel ==
    ASSUME StopInv, NEW c \in Procs, req[c].k \in 1..N
    PROVE  req[c].k + 1 \in 1..(N + 1)
BY NType

LEMMA OpOf ==
    ASSUME StatusInv, NEW c \in Procs
    PROVE  req[c].op \in OpsAt(req[c].pc)
BY DEF StatusInv, WorkInv

LEMMA SetupLockRow ==
    ASSUME StopInv, StatusInv, OneRequestPerPipeline, NEW c \in Procs, SetupLock(c)
    PROVE  StatusInv'
<1>1. /\ req[c].pc = "lock" /\ req[c].op \in Setups /\ UNCHANGED <<db, phase>>
      /\ req[c].pid \in Pipelines /\ 1 \in 1..(N + 1)
  BY NType DEF SetupLock, Setups, StopInv, ActiveInv
<1>2. CASE id # NoPipeline
  <2>1. Goto(c, "err") /\ id' = id
    BY <1>2 DEF SetupLock
  <2>2. req[c].op \in OpsAt("err")
    BY <1>1 DEF OpsAt
  <2> QED BY <1>1, <2>1, <2>2, GotoRow DEF Labels
<1>3. CASE id = NoPipeline
  <2>1. GotoAt(c, "setup", 1) /\ id' = req[c].pid
    BY <1>3 DEF SetupLock
  <2>2. /\ req'[c].pc = "setup" /\ req'[c].pid = req[c].pid /\ req'[c].op = req[c].op
        /\ \A d \in Procs : d # c => req'[d] = req[d]
    BY <1>1, <2>1, GotoAtFacts DEF StopInv, Labels
  <2>3. c \in Clients
    BY <1>1 DEF StatusInv, WorkInv, Procs, Setups
  <2>4. RowOK(req[c], db, id)
    BY <2>3 DEF StatusInv, RowInv
  <2>5. RowOK(req'[c], db', id')
    BY <1>1, <2>2, <2>4 DEF RowOK
  <2>6. db[req[c].pid] # "Stopped"
    BY <1>1, <2>4, TargetIs DEF RowOK, Setups
  <2>7. StoppedIsInactive'
    BY <1>1, <2>1, <2>6 DEF StoppedIsInactive
  <2>8. req[c].op \in OpsAt("setup")
    BY <1>1 DEF OpsAt
  <2> QED BY <1>1, <2>1, <2>2, <2>3, <2>5, <2>7, <2>8, RowStep
<1> QED BY <1>2, <1>3

LEMMA StartRunnerRow ==
    ASSUME StopInv, StatusInv, OneRequestPerPipeline, NEW c \in Procs, StartRunner(c)
    PROVE  StatusInv'
<1>1. req[c].pc = "setup" /\ req[c].k \in 1..N /\ UNCHANGED <<db, phase, id>>
  BY NType DEF StartRunner, StopInv, TypeOK, ReqStates
<1>2. GotoAt(c, "setup", req[c].k + 1) /\ req[c].k + 1 \in 1..(N + 1)
  BY <1>1, NextLabel DEF StartRunner
<1> QED BY <1>1, <1>2, OpOf, GotoRow DEF Labels

LEMMA SetupEndsRow ==
    ASSUME StopInv, StatusInv, OneRequestPerPipeline, NEW c \in Procs,
           SetupFailsQuietly(c) \/ \E w \in Watchers : SetupDone(c, w)
    PROVE  StatusInv'
<1>1. /\ req[c].pc = "setup" /\ UNCHANGED <<db, phase, id>> /\ 1 \in 1..(N + 1)
      /\ Goto(c, "err") \/ Goto(c, "ok")
  BY NType DEF SetupFailsQuietly, SetupDone, Unlock
<1>2. req[c].op \in Setups
  BY <1>1, OpOf DEF OpsAt
<1>3. req[c].op \in OpsAt("err") /\ req[c].op \in OpsAt("ok") /\ req[c].op \notin Stops
  BY <1>2 DEF OpsAt, Setups, Stops
<1> QED BY <1>1, <1>3, GotoRow DEF Labels

LEMMA SetupFailsRow ==
    ASSUME StopInv, StatusInv, NEW c \in Procs, NEW s \in Cleaners, SetupFails(c, s)
    PROVE  StatusInv'
<1> DEFINE q == [pc |-> "lock", op |-> "cleanup", pid |-> req[c].pid, k |-> 1]
<1>1. /\ s \in Procs /\ s # c /\ req[c].pc = "setup" /\ UNCHANGED <<db, phase, id>>
      /\ req' = [req EXCEPT ![c].pc = "err", ![s] = q]
  BY DEF SetupFails, Procs
<1>2. req[c].op \in Setups
  BY <1>1, OpOf DEF OpsAt
<1>3. q.pc = "lock" /\ q.op = "cleanup" /\ q.op \in OpsAt("lock") /\ req[c].op \in OpsAt("err")
  BY <1>2 DEF OpsAt, Stops
<1> HIDE DEF q
<1>4. /\ req'[c].pc = "err" /\ req'[c].pid = req[c].pid /\ req'[c].op = req[c].op
      /\ req'[s] = q /\ \A d \in Procs : d \notin {c, s} => req'[d] = req[d]
  BY <1>1 DEF StopInv, TypeOK, ReqStates
<1>5. phase # "down" /\ c \in Clients /\ s \notin Clients
  BY <1>1, <1>2 DEF StatusInv, WorkInv, Procs, Setups
<1>6. WorkInv'
  BY ZenonT(40), <1>1, <1>3, <1>4, <1>5 DEF StatusInv, WorkInv, Procs
<1>7. RowInv'
  <2>1. RowOK(req'[c], db', id')
    BY ZenonT(40), <1>1, <1>2, <1>4, <1>5 DEF StatusInv, RowInv, RowOK, Setups, Stops
  <2> QED BY <1>1, <1>4, <1>5, <2>1 DEF StatusInv, RowInv, Procs
<1>8. StoppedIsInactive'
  BY <1>1 DEF StatusInv, StoppedIsInactive
<1> QED BY <1>6, <1>7, <1>8 DEF StatusInv

LEMMA StopLockRow ==
    ASSUME StopInv, StatusInv, OneRequestPerPipeline, NEW c \in Procs, StopLock(c)
    PROVE  StatusInv'
<1>1. /\ req[c].pc = "lock" /\ req[c].op \in Stops /\ UNCHANGED <<db, phase, id>>
      /\ Goto(c, "err") \/ Goto(c, "watchers")
  BY NType DEF StopLock, Stops
<1>2. req[c].op \in OpsAt("err") /\ req[c].op \in OpsAt("watchers") /\ 1 \in 1..(N + 1)
  BY <1>1, NType DEF OpsAt
<1> QED BY <1>1, <1>2, GotoRow DEF Labels

\* The steps of a stop that end neither it nor the pipeline.
LEMMA StopGoesOnRow ==
    ASSUME StopInv, StatusInv, OneRequestPerPipeline, NEW c \in Procs,
           WatchersGone(c) \/ SkipRunner(c) \/ Shutdown(c) \/ AwaitDone(c) \/ PauseTimeout(c)
    PROVE  StatusInv'
<1>1. req[c].pc \in {"watchers", "pause", "done"} /\ UNCHANGED <<db, phase, id>>
  BY DEF WatchersGone, SkipRunner, Shutdown, AwaitDone, PauseTimeout
<1>2. req[c].op \in Stops
  BY <1>1, OpOf DEF OpsAt
<1>3. req[c].op \in OpsAt("pause") /\ req[c].op \in OpsAt("done") /\ req[c].op \in OpsAt("err")
  BY <1>2 DEF OpsAt
<1>4. PICK l \in {"pause", "done", "err"}, i \in 1..(N + 1) : Goto(c, l) \/ GotoAt(c, l, i)
  <2>1. CASE WatchersGone(c)
    BY <2>1, NType DEF WatchersGone
  <2>2. CASE SkipRunner(c)
    <3>1. req[c].k + 1 \in 1..(N + 1)
      BY <2>2, NType DEF SkipRunner, StopInv, TypeOK, ReqStates
    <3> QED BY <2>2, <3>1 DEF SkipRunner
  <2>3. CASE Shutdown(c) \/ PauseTimeout(c)
    BY <2>3, NType DEF Shutdown, PauseTimeout, Unlock
  <2>4. CASE AwaitDone(c)
    <3>1. req[c].k + 1 \in 1..(N + 1)
      BY <2>4, NType DEF AwaitDone, StopInv, ActiveInv, Runners
    <3> QED BY <2>4, <3>1 DEF AwaitDone
  <2> QED BY <2>1, <2>2, <2>3, <2>4
<1>5. l \in Labels \ {"idle", "write", "lock"} /\ l \notin {"ok", "setup"}
  BY DEF Labels
<1> QED BY <1>1, <1>3, <1>4, <1>5, GotoRow

LEMMA TerminateRow ==
    ASSUME StopInv, StatusInv, OneRequestPerPipeline, NEW c \in Procs, Terminate(c)
    PROVE  StatusInv'
<1>1. /\ req[c].pc = "pause" /\ id' = NoPipeline /\ Goto(c, "ok") /\ UNCHANGED <<db, phase>>
      /\ req[c].pid \in Pipelines
  BY DEF Terminate, Unlock, StopInv, ActiveInv
<1>2. /\ req'[c].pc = "ok" /\ req'[c].pid = req[c].pid /\ req'[c].op = req[c].op
      /\ \A d \in Procs : d # c => req'[d] = req[d]
  BY <1>1, GotoFacts DEF StopInv, Labels
<1>3. req[c].op \in OpsAt("ok")
  BY <1>1, OpOf DEF OpsAt
<1>4. c \in Clients => RowOK(req'[c], db', id')
  BY <1>1, <1>2 DEF StatusInv, RowInv, RowOK
<1>5. StoppedIsInactive'
  BY <1>1 DEF StoppedIsInactive
<1> QED BY <1>1, <1>2, <1>3, <1>4, <1>5, RowStep

LEMMA ResumeRow ==
    ASSUME StopInv, StatusInv, OneRequestPerPipeline, NEW c \in Procs,
           ResumeLock(c) \/ Resume(c)
    PROVE  StatusInv'
<1>1. /\ req[c].pc \in {"lock", "resume"} /\ req[c].op = "resume"
      /\ UNCHANGED <<db, phase, id>>
  BY OpOf DEF ResumeLock, Resume, ResumeRunner, ResumeFails, ResumeDone, OpsAt
<1>2. /\ req[c].op \in OpsAt("resume") /\ req[c].op \in OpsAt("err")
      /\ req[c].op \in OpsAt("ok") /\ req[c].op \notin Stops
  BY <1>1 DEF OpsAt, Stops
<1>3. PICK l \in {"resume", "ok", "err"}, i \in 1..(N + 1) : Goto(c, l) \/ GotoAt(c, l, i)
  <2>1. CASE ResumeLock(c)
    BY <2>1, NType DEF ResumeLock
  <2>2. CASE ResumeRunner(c)
    <3>1. req[c].k + 1 \in 1..(N + 1)
      BY <2>2, NType DEF ResumeRunner, StopInv, TypeOK, ReqStates
    <3> QED BY <2>2, <3>1 DEF ResumeRunner
  <2>3. CASE ResumeFails(c) \/ \E w \in Watchers : ResumeDone(c, w)
    BY <2>3, NType DEF ResumeFails, ResumeDone, Unlock
  <2> QED BY <2>1, <2>2, <2>3 DEF Resume
<1>4. l \in Labels \ {"idle", "write", "lock"} /\ l # "setup"
  BY DEF Labels
<1> QED BY <1>1, <1>2, <1>3, <1>4, GotoRow

-----------------------------------------------------------------------------
(* The process *)

LEMMA SigtermRow ==
    ASSUME StopInv, StatusInv, NEW s \in Cleaners, Sigterm(s)
    PROVE  StatusInv'
<1> DEFINE q == [pc |-> "lock", op |-> "exit", pid |-> id, k |-> 1]
<1>1. /\ s \in Procs /\ s \notin Clients /\ phase = "up" /\ phase' = "draining"
      /\ UNCHANGED <<db, id>> /\ req' = [req EXCEPT ![s] = q]
  BY DEF Sigterm, Procs
<1>2. q.pc = "lock" /\ q.op = "exit" /\ q.op \in OpsAt("lock")
  BY DEF OpsAt, Stops
<1> HIDE DEF q
<1>3. req'[s] = q /\ \A d \in Procs : d # s => req'[d] = req[d]
  BY <1>1 DEF StopInv, TypeOK
<1>4. WorkInv'
  BY <1>1, <1>2, <1>3 DEF StatusInv, WorkInv, Procs
<1>5. RowInv' /\ StoppedIsInactive'
  BY <1>1, <1>3 DEF StatusInv, RowInv, Procs, StoppedIsInactive
<1> QED BY <1>4, <1>5 DEF StatusInv

LEMMA ProcessGoneRow ==
    ASSUME StopInv, StatusInv, ProcessGone
    PROVE  StatusInv'
<1>1. /\ \A c \in Procs : req'[c].pc = "idle" /\ req'[c].op = "none"
      /\ id' = NoPipeline /\ phase' = "down"
  BY DEF ProcessGone, Idle
<1>2. WorkInv'
  BY <1>1 DEF WorkInv, OpsAt, Procs
<1>3. RowInv' /\ StoppedIsInactive'
  BY <1>1 DEF RowInv, RowOK, Procs, StoppedIsInactive
<1> QED BY <1>2, <1>3 DEF StatusInv

LEMMA RestartRow ==
    ASSUME StopInv, StatusInv, Restart
    PROVE  StatusInv'
<1>1. /\ \A c \in Procs : req[c].pc = "idle" /\ req[c].op = "none"
      /\ id = NoPipeline /\ phase' = "up" /\ UNCHANGED <<id, req>>
  <2>1. phase = "down" /\ phase' = "up" /\ UNCHANGED <<id, req>>
    BY DEF Restart
  <2>2. id = NoPipeline /\ \A c \in Procs : req[c].pc = "idle"
    BY <2>1 DEF StatusInv, WorkInv
  <2>3. OpsAt("idle") = {"none"}
    BY DEF OpsAt
  <2> QED BY <2>1, <2>2, <2>3, OpOf
<1>2. WorkInv'
  BY <1>1 DEF WorkInv, OpsAt, Procs
<1>3. RowInv' /\ StoppedIsInactive'
  BY <1>1 DEF RowInv, RowOK, Procs, StoppedIsInactive
<1> QED BY <1>2, <1>3 DEF StatusInv

LEMMA RowsUnchanged ==
    ASSUME StatusInv, UNCHANGED <<db, phase, id, req>>
    PROVE  StatusInv'
BY DEF StatusInv, WorkInv, RowInv, StoppedIsInactive

-----------------------------------------------------------------------------
(* The rows and the matrix *)

LEMMA StatusRequest ==
    ASSUME StopInv, StatusInv, OneRequestPerPipeline, NEW c \in Procs, Lock(c) \/ Advance(c)
    PROVE  StatusInv'
<1>1. CASE Lock(c)
  BY <1>1, EditCheckRow, SetupLockRow, StopLockRow, ResumeRow DEF Lock
<1>2. CASE SetUp(c)
  BY <1>2, StartRunnerRow, SetupEndsRow, SetupFailsRow DEF SetUp
<1>3. CASE StopSteps(c)
  BY <1>3, StopGoesOnRow, TerminateRow DEF StopSteps
<1> QED
  BY <1>1, <1>2, <1>3, ResumeRow, WriteStatusRow, WriteFailsRow, UpsertResourcesRow,
     FinishRow DEF Advance

LEMMA StatusElsewhere ==
    ASSUME StopInv, StatusInv,
           (\E w \in Watchers : Watch(w)) \/ (\E x \in Runners : Component(x)) \/ Process
    PROVE  StatusInv'
<1>1. CASE \E w \in Watchers : Watch(w)
  <2>1. UNCHANGED <<db, phase, id, req>>
    BY <1>1 DEF Watch, WatcherTick, WatcherReturn, WatcherLock, RestartRunner, WatcherSkips,
       WatcherUnlock
  <2> QED BY <2>1, RowsUnchanged
<1>2. CASE \E x \in Runners : Component(x)
  <2>1. UNCHANGED <<db, phase, id, req>>
    BY <1>2 DEF Component, ComponentCancelled, ComponentFails, Publish, Consume
  <2> QED BY <2>1, RowsUnchanged
<1>3. CASE Process
  BY <1>3, ProcessGoneRow, SigtermRow, RestartRow DEF Process, Crash, Exit
<1> QED BY <1>1, <1>2, <1>3

LEMMA StatusStep ==
    ASSUME StopInv, StatusInv, OneRequestPerPipeline, [Next]_vars
    PROVE  StatusInv'
<1>1. CASE UNCHANGED vars
  BY <1>1, RowsUnchanged DEF vars
<1>2. CASE Next
  BY <1>2, ReceiveRow, StatusRequest, StatusElsewhere DEF Next
<1> QED BY <1>1, <1>2

LEMMA StatusInit == Init => StatusInv
BY DEF Init, StatusInv, WorkInv, RowInv, RowOK, StoppedIsInactive, Idle, OpsAt, Procs

\* While the requests for a pipeline come one after the other, its row says what its request
\* has validated or written, and a pipeline shown as stopped is not the active one.
THEOREM StatusInvariant == Spec /\ []OneRequestPerPipeline => []StatusInv
<1> QED BY StatusInit, StatusStep, StopInvariant, PTL DEF Spec

\* A pipeline shown as Stopped is not the active pipeline, for any number of clients, as long
\* as the requests for one pipeline come one after the other.
THEOREM StoppedPipelineIsInactive == Spec /\ []OneRequestPerPipeline => []StoppedIsInactive
<1>1. StatusInv => StoppedIsInactive
  BY DEF StatusInv
<1> QED BY <1>1, StatusInvariant, PTL

RowFollowsMatrix ==
    phase = "down" \/ \A p \in Pipelines :
        \/ db'[p] \in {db[p], "absent", "Created"} \/ db[p] = "absent"
        \/ db'[p] \in StatusValidationMatrix[db[p]]

LEMMA SameRows ==
    ASSUME db' = db
    PROVE  RowFollowsMatrix
BY DEF RowFollowsMatrix

LEMMA WriteFollowsMatrix ==
    ASSUME StopInv, StatusInv, NEW c \in Procs, WriteStatus(c)
    PROVE  RowFollowsMatrix
<1>1. /\ req[c].op \in {"create", "stop", "terminate", "resume", "edit"} /\ req[c].pc = "write"
      /\ db' = [db EXCEPT ![req[c].pid] = Target(req[c].op)]
  BY DEF WriteStatus, StatusInv, WorkInv, OpsAt
<1>2. c \in Clients
  BY <1>1 DEF StatusInv, WorkInv, Procs
<1>3. Accepted(req[c].op, db[req[c].pid])
  BY <1>1, <1>2 DEF StatusInv, RowInv, RowOK
<1>4. CASE req[c].op = "create"
  BY <1>1, <1>3, <1>4 DEF RowFollowsMatrix, StopInv, TypeOK, Accepted
<1>5. CASE req[c].op = "edit"
  BY <1>1, <1>5 DEF RowFollowsMatrix, StopInv, TypeOK, Target
<1>6. CASE req[c].op \in {"stop", "terminate", "resume"}
  <2>1. Target(req[c].op) \in StatusValidationMatrix[db[req[c].pid]]
    BY <1>3, <1>6 DEF Accepted, ValidatePipelineOperation
  <2> QED BY <1>1, <2>1 DEF RowFollowsMatrix, StopInv, TypeOK
<1> QED BY <1>1, <1>4, <1>5, <1>6

LEMMA FinalFollowsMatrix ==
    ASSUME NEW op \in {"create", "stop", "terminate", "resume", "edit", "resources", "delete"},
           NEW l \in {"ok", "err"},
           NEW s \in IF op \in {"resources", "delete"} THEN {"Stopped", "Failed"}
                     ELSE {Target(op)}
    PROVE  Final(op, l, s) \in {s, "absent"} \cup StatusValidationMatrix[s]
<1>1. CASE op = "stop"
  BY <1>1 DEF Target, Final, StatusValidationMatrix
<1>2. CASE op = "terminate"
  BY <1>2 DEF Target, Final, StatusValidationMatrix
<1>3. CASE op = "resume"
  BY <1>3 DEF Target, Final, StatusValidationMatrix
<1>4. CASE op \notin {"stop", "terminate", "resume"}
  BY <1>4 DEF Final
<1> QED BY <1>1, <1>2, <1>3, <1>4

LEMMA FinishFollowsMatrix ==
    ASSUME StopInv, StatusInv, NEW c \in Procs, Finish(c)
    PROVE  RowFollowsMatrix
<1> DEFINE p == req[c].pid
<1>1. req[c].pc \in {"ok", "err"} /\ p \in Pipelines /\ req[c].op # "none"
  BY DEF Finish, StopInv, ActiveInv, StatusInv, WorkInv, OpsAt, Setups, Stops
<1>2. CASE db' = db
  BY <1>2, SameRows
<1>3. CASE db' = [q \in Pipelines |-> IF q = p
                        THEN Final(req[c].op, req[c].pc, db[q]) ELSE db[q]]
  <2>1. CASE c \in Clients
    <3>1. req[c].op \in {"create", "stop", "terminate", "resume", "edit", "resources", "delete"}
      BY <1>1, <2>1 DEF StatusInv, WorkInv, StopInv, TypeOK, ReqStates
    <3>2. db[p] \in IF req[c].op \in {"resources", "delete"} THEN {"Stopped", "Failed"}
                    ELSE {Target(req[c].op)}
      BY <1>1, <2>1 DEF StatusInv, RowInv, RowOK
    <3>3. Final(req[c].op, req[c].pc, db[p]) \in
             {db[p], "absent"} \cup StatusValidationMatrix[db[p]]
      BY <1>1, <3>1, <3>2, FinalFollowsMatrix
    <3> QED BY <1>3, <3>3 DEF RowFollowsMatrix
  <2>2. CASE c \notin Clients
    <3>1. req[c].op \in {"cleanup", "exit"}
      BY <1>1, <2>2 DEF StatusInv, WorkInv, Procs
    <3>2. \A s : Final(req[c].op, req[c].pc, s) = s
      BY <3>1 DEF Final
    <3> QED BY <1>3, <3>2 DEF RowFollowsMatrix
  <2> QED BY <2>1, <2>2
<1> QED BY <1>2, <1>3 DEF Finish

LEMMA StepFollowsMatrix ==
    ASSUME StopInv, StatusInv, [Next]_vars
    PROVE  RowFollowsMatrix
<1>1. ASSUME NEW c \in Procs, Lock(c) \/ Advance(c) PROVE RowFollowsMatrix
  <2>1. CASE Lock(c) \/ SetUp(c) \/ StopSteps(c) \/ Resume(c) \/ WriteFails(c)
             \/ UpsertResources(c)
    <3>1. db' = db
      BY <2>1 DEF Lock, EditCheck, SetupLock, StopLock, ResumeLock, SetUp, StartRunner,
         SetupFailsQuietly, SetupFails, SetupDone, StopSteps, WatchersGone, SkipRunner,
         Shutdown, AwaitDone, PauseTimeout, Terminate, Resume, ResumeRunner, ResumeFails,
         ResumeDone, WriteFails, UpsertResources
    <3> QED BY <3>1, SameRows
  <2> QED BY <1>1, <2>1, WriteFollowsMatrix, FinishFollowsMatrix DEF Advance
<1>2. ASSUME NEW w \in Watchers, Watch(w) PROVE db' = db
  BY <1>2 DEF Watch, WatcherTick, WatcherReturn, WatcherLock, RestartRunner, WatcherSkips,
     WatcherUnlock
<1>3. ASSUME NEW x \in Runners, Component(x) PROVE db' = db
  BY <1>3 DEF Component, ComponentCancelled, ComponentFails, Publish, Consume
<1>4. CASE Process
  BY <1>4, SameRows DEF Process, Crash, Exit, ProcessGone, Sigterm, Restart, RowFollowsMatrix
<1>5. ASSUME NEW c \in Clients, NEW op \in Ops, NEW p \in Pipelines, Receive(c, op, p)
      PROVE  db' = db
  BY <1>5 DEF Receive
<1>6. CASE UNCHANGED vars
  BY <1>6, SameRows DEF vars
<1> QED BY <1>1, <1>2, <1>3, <1>4, <1>5, <1>6, SameRows DEF Next

\* A status only changes the way StatusValidationMatrix allows, for any number of clients, as
\* long as the requests for one pipeline come one after the other.
THEOREM StatusesFollowMatrix == Spec /\ []OneRequestPerPipeline => StatusFollowsMatrix
<1>1. StopInv /\ StatusInv /\ [Next]_vars => [RowFollowsMatrix]_vars
  BY StepFollowsMatrix
<1>2. StatusFollowsMatrix <=> [][RowFollowsMatrix]_vars
  BY DEF StatusFollowsMatrix, RowFollowsMatrix
<1> QED BY <1>1, <1>2, StatusInvariant, StopInvariant, PTL DEF Spec

-----------------------------------------------------------------------------
(* What the drain of a stop rests on *)

Ingestors == 1..NI

\* No ingestor works and no watcher is at work.
AllDown ==
    /\ \A x \in Ingestors : rn[x].own # "running"
    /\ \A w \in Watchers : watcher[w].pc \in {"new", "gone"}

\* A runner that is to be started is down, so that no ingestor is ever forgotten.
StartInv ==
    /\ \A x \in Runners : rn[x].done = "closed" => rn[x].own # "running"
    /\ \A c \in Procs, x \in Runners :
          req[c].pc = "setup" /\ req[c].k <= x => rn[x].own # "running"
    /\ \A c \in Procs, x \in Ingestors :
          req[c].pc = "resume" /\ req[c].k <= x + (N - NI) => rn[x].own # "running"
    /\ \A x \in Ingestors : rn[x].orphans = {}

\* While a stop waits for runners no watcher is at work.
GoneInv ==
    /\ wcur = Nobody => \A w \in Watchers : watcher[w].pc = "new"
    /\ \A c \in Procs : req[c].pc \in {"pause", "done"} =>
          \A w \in Watchers : watcher[w].pc \in {"new", "gone"}

FailedIsDown == phase = "up" /\ id # NoPipeline /\ db[id] = "Failed" => AllDown

DownOK(c) ==
    /\ /\ id = req[c].pid
       /\ \/ req[c].op = "resume" /\ req[c].pc \in {"write", "lock"}
          \/ req[c].op = "stop" /\ req[c].pc = "err"
       => AllDown
    /\ req[c].op = "resources" /\ req[c].pc = "lock" => id = req[c].pid \/ phase = "draining"
    /\ req[c].op = "resources" /\ req[c].pc = "setup" => phase = "draining"

\* An active pipeline that is shown as failed is down, and still is when it is resumed.
DownInv == FailedIsDown /\ \A c \in Clients : DownOK(c)

\* Only consumers have messages pending, and none that a stop has got past.
PendInv ==
    /\ \A p \in Pipelines : pend[p] \subseteq (NI + 1)..N
    /\ \A c \in Procs, x \in Runners :
          Paused(c, x) /\ (\A y \in Runners : rn[y].ref) => x \notin pend[id]

RunInv == StartInv /\ GoneInv /\ PendInv

DrainInv == StatusInv /\ RunInv /\ DownInv

\* No component is started and none is forgotten.
WindDown ==
    \A x \in Runners :
       /\ rn'[x].own = "running" => rn[x].own = "running"
       /\ rn'[x].done = "closed" => rn[x].done = "closed" \/ rn'[x].own # "running"
       /\ rn'[x].orphans \subseteq rn[x].orphans

SameRefs == \A x \in Runners : rn'[x].ref = rn[x].ref

SameWatchers == \A w \in Watchers : watcher'[w].pc = watcher[w].pc

LEMMA IngestorFacts ==
    /\ \A x \in Ingestors : x \in Runners /\ IsIngestor(x) /\ x \in Nat
    /\ \A x \in Runners : x \in Nat /\ (IsIngestor(x) => x \in Ingestors)
    /\ NI + 1 \in Runners
BY NType DEF Ingestors, Runners, IsIngestor

LEMMA EndedWinds ==
    ASSUME TypeOK, NEW x \in Runners, rn' = [rn EXCEPT ![x] = Ended(rn[x])]
    PROVE  WindDown /\ SameRefs
<1> DEFINE r == Ended(rn[x])
<1>1. rn[x] \in RunnerStates
  BY DEF TypeOK
<1>2. r.own # "running" /\ r.orphans = rn[x].orphans /\ r.ref = rn[x].ref
  BY <1>1 DEF Ended, RunnerStates
<1> HIDE DEF r
<1>3. rn'[x] = r /\ \A y \in Runners : y # x => rn'[y] = rn[y]
  BY DEF TypeOK, r
<1> QED BY <1>2, <1>3 DEF WindDown, SameRefs

LEMMA LaunchFailsWinds ==
    ASSUME TypeOK, NEW x \in Runners, rn' = [rn EXCEPT ![x] = LaunchFails(rn[x])]
    PROVE  WindDown /\ (rn[x].ref => SameRefs)
<1> DEFINE r == LaunchFails(rn[x])
<1>1. rn[x] \in RunnerStates
  BY DEF TypeOK
<1>2. r.own = rn[x].own /\ r.orphans = rn[x].orphans /\ r.ref /\ r.done = "dead"
  BY <1>1 DEF LaunchFails, RunnerStates
<1> HIDE DEF r
<1>3. rn'[x] = r /\ \A y \in Runners : y # x => rn'[y] = rn[y]
  BY DEF TypeOK, r
<1>4. rn[x].ref => rn'[x].ref = rn[x].ref
  BY <1>1, <1>2, <1>3 DEF RunnerStates
<1> QED BY <1>2, <1>3, <1>4 DEF WindDown, SameRefs

LEMMA SameWinds == ASSUME rn' = rn PROVE WindDown /\ SameRefs
BY DEF WindDown, SameRefs

LEMMA LaunchFacts ==
    ASSUME TypeOK, NEW x \in Runners, NEW ctx, rn' = [rn EXCEPT ![x] = Launch(rn[x], ctx)]
    PROVE  /\ \A y \in Runners : y # x => rn'[y] = rn[y]
           /\ rn'[x].done = "open"
           /\ rn[x].own # "running" => rn'[x].orphans = rn[x].orphans
<1> DEFINE r == Launch(rn[x], ctx)
<1>1. r.done = "open" /\ (rn[x].own # "running" => r.orphans = rn[x].orphans)
  BY DEF Launch
<1> HIDE DEF r
<1>2. rn'[x] = r /\ \A y \in Runners : y # x => rn'[y] = rn[y]
  BY DEF TypeOK, r
<1> QED BY <1>1, <1>2

LEMMA AllDownStays ==
    ASSUME AllDown, WindDown, SameWatchers
    PROVE  AllDown'
BY IngestorFacts DEF AllDown, WindDown, SameWatchers

\* A step that starts nothing and brings no process to where runners are started or stopped.
LEMMA RunStays ==
    ASSUME StopInv, RunInv, WindDown, SameWatchers, UNCHANGED <<wcur, pend, id>>,
           \A c \in Procs : \/ req'[c] = req[c]
                            \/ req'[c].pc \notin {"setup", "resume", "pause", "done"},
           SameRefs \/ \A c \in Procs : req'[c].pc \notin {"pause", "done"}
    PROVE  RunInv'
<1>1. StartInv'
  <2>1. \A x \in Runners : rn'[x].done = "closed" => rn'[x].own # "running"
    BY DEF RunInv, StartInv, WindDown
  <2>2. \A c \in Procs, x \in Runners :
           req'[c].pc = "setup" /\ req'[c].k <= x => rn'[x].own # "running"
    BY DEF RunInv, StartInv, WindDown
  <2>3. \A c \in Procs, x \in Ingestors :
           req'[c].pc = "resume" /\ req'[c].k <= x + (N - NI) => rn'[x].own # "running"
    BY IngestorFacts DEF RunInv, StartInv, WindDown
  <2>4. \A x \in Ingestors : rn'[x].orphans = {}
    BY IngestorFacts DEF RunInv, StartInv, WindDown
  <2> QED BY <2>1, <2>2, <2>3, <2>4 DEF StartInv
<1>2. GoneInv'
  BY DEF RunInv, GoneInv, SameWatchers
<1>3. PendInv'
  <2>1. ASSUME NEW c \in Procs, NEW x \in Runners, Paused(c, x)', \A y \in Runners : rn'[y].ref
        PROVE  x \notin pend[id]
    <3>1. req'[c] = req[c] /\ SameRefs
      BY <2>1 DEF Paused
    <3>2. Paused(c, x) /\ \A y \in Runners : rn[y].ref
      BY <2>1, <3>1 DEF Paused, SameRefs
    <3> QED BY <3>2 DEF RunInv, PendInv
  <2> QED BY <2>1 DEF RunInv, PendInv
<1> QED BY <1>1, <1>2, <1>3 DEF RunInv

LEMMA DownStays ==
    ASSUME DownInv, AllDown => AllDown', phase' = phase, id' = id,
           FailedIsDown', NEW c, c \in Clients => DownOK(c)',
           \A d \in Clients : d # c => req'[d] = req[d]
    PROVE  DownInv'
BY DEF DownInv, DownOK

LEMMA FailedStays ==
    ASSUME DownInv, AllDown => AllDown', phase' = phase, id' = id, db' = db
    PROVE  FailedIsDown'
BY DEF DownInv, FailedIsDown

\* Process c starts a component or a watcher: the others have no business with its pipeline.
LEMMA DownLaunch ==
    ASSUME StopInv, DownInv, OneRequestPerPipeline, NEW c \in Clients,
           req[c].pc \in {"setup", "resume"},
           UNCHANGED <<id, phase, db>>, phase = "up" => db[id] # "Failed",
           \A d \in Procs : d # c => req'[d] = req[d],
           req'[c].pc \in {req[c].pc, "ok"}, req'[c].op = req[c].op
    PROVE  DownInv'
<1>1. FailedIsDown'
  BY DEF FailedIsDown
<1>2. DownOK(c)'
  BY DEF DownInv, DownOK
<1>3. ASSUME NEW d \in Clients, d # c PROVE DownOK(d)'
  <2>1. req'[d] = req[d] /\ c \in Procs
    BY <1>3 DEF Procs
  <2>2. id = req[c].pid
    BY <2>1 DEF StopInv, ActiveInv, Holds
  <2>3. req[d].pc # "idle" => req[d].pid # id
    BY <1>3, <2>2 DEF OneRequestPerPipeline
  <2> QED BY <1>3, <2>1, <2>3 DEF DownInv, DownOK
<1> QED BY <1>1, <1>2, <1>3 DEF DownInv

-----------------------------------------------------------------------------
(* Requests that start nothing *)

LEMMA MoveDrain ==
    ASSUME StopInv, RunInv, DownInv, WindDown, SameRefs, SameWatchers,
           UNCHANGED <<wcur, pend, id, phase>>, NEW c \in Procs,
           \A d \in Procs : d # c => req'[d] = req[d],
           req'[c].pc \notin {"setup", "resume", "pause", "done"},
           db' = db \/ FailedIsDown', c \in Clients => DownOK(c)'
    PROVE  RunInv' /\ DownInv'
<1>1. RunInv'
  BY RunStays
<1>2. AllDown => AllDown'
  BY AllDownStays
<1>3. FailedIsDown'
  BY <1>2, FailedStays
<1>4. \A d \in Clients : d # c => req'[d] = req[d]
  BY DEF Procs
<1> QED BY <1>1, <1>2, <1>3, <1>4, DownStays

LEMMA SameRun == ASSUME UNCHANGED <<rn, watcher>> PROVE WindDown /\ SameRefs /\ SameWatchers
BY SameWinds DEF SameWatchers

LEMMA DownWhenElsewhere ==
    ASSUME NEW c, req[c].pc \notin {"write", "lock", "err", "setup"}
    PROVE  DownOK(c)
BY DEF DownOK

LEMMA ReceiveDrain ==
    ASSUME StopInv, StatusInv, RunInv, DownInv,
           NEW c \in Clients, NEW op \in Ops, NEW p \in Pipelines, Receive(c, op, p)
    PROVE  RunInv' /\ DownInv'
<1> DEFINE q == [pc |-> CASE op = "delete" -> "lock"
                      [] op = "resources" -> "check"
                      [] OTHER -> "write",
                 op |-> op, pid |-> p, k |-> 1]
<1>1. /\ req' = [req EXCEPT ![c] = q] /\ c \in Procs /\ phase = "up" /\ Accepted(op, db[p])
      /\ UNCHANGED <<db, phase, id, rn, watcher, wcur, pend>>
  BY DEF Receive, Procs
<1>2. /\ q.pc = (CASE op = "delete" -> "lock" [] op = "resources" -> "check" [] OTHER -> "write")
      /\ q.op = op /\ q.pid = p /\ q.pc \in {"lock", "check", "write"}
      /\ q.pc = "lock" => op = "delete"
  OBVIOUS
<1> HIDE DEF q
<1>3. req'[c] = q /\ \A d \in Procs : d # c => req'[d] = req[d]
  BY <1>1 DEF StopInv, TypeOK
<1>4. op = "resume" => db[p] \in {"Stopped", "Failed"}
  BY <1>1 DEF Accepted, ValidatePipelineOperation, StatusValidationMatrix, Target, StopInv,
     TypeOK, Statuses
<1>5. op = "resume" /\ id = p => AllDown
  BY <1>1, <1>4 DEF StatusInv, StoppedIsInactive, DownInv, FailedIsDown
<1>6. AllDown => AllDown'
  BY <1>1, SameRun, AllDownStays
<1>7. DownOK(c)'
  BY <1>1, <1>2, <1>3, <1>5, <1>6 DEF DownOK
<1> QED BY <1>1, <1>2, <1>3, <1>7, SameRun, MoveDrain

LEMMA WriteStatusDrain ==
    ASSUME StopInv, StatusInv, RunInv, DownInv, NEW c \in Procs, WriteStatus(c)
    PROVE  RunInv' /\ DownInv'
<1> DEFINE l == CASE req[c].op = "create" -> "resources"
                 [] req[c].op = "edit" -> "check"
                 [] OTHER -> "lock"
<1>1. req[c].op \in {"create", "stop", "terminate", "resume", "edit"} /\ req[c].pc = "write"
  BY DEF WriteStatus, StatusInv, WorkInv, OpsAt
<1>2. l \in {"resources", "check", "lock"} /\ l \in Labels
  BY <1>1 DEF Labels
<1>3. /\ Goto(c, l) /\ db' = [db EXCEPT ![req[c].pid] = Target(req[c].op)]
      /\ UNCHANGED <<phase, id, rn, watcher, wcur, pend>>
  BY DEF WriteStatus
<1> HIDE DEF l
<1>4. /\ req'[c].pc = l /\ req'[c].pid = req[c].pid /\ req'[c].op = req[c].op
      /\ \A d \in Procs : d # c => req'[d] = req[d]
  BY <1>2, <1>3, GotoFacts DEF StopInv
<1>5. AllDown => AllDown'
  BY <1>3, SameRun, AllDownStays
<1>6. FailedIsDown'
  BY <1>3, <1>5, TargetIs DEF StopInv, TypeOK, DownInv, FailedIsDown
<1>7. c \in Clients => DownOK(c)'
  BY <1>1, <1>2, <1>3, <1>4, <1>5 DEF DownInv, DownOK
<1> QED BY <1>2, <1>3, <1>4, <1>6, <1>7, SameRun, MoveDrain

LEMMA EarlyDrain ==
    ASSUME StopInv, StatusInv, RunInv, DownInv, NEW c \in Procs,
           WriteFails(c) \/ UpsertResources(c) \/ EditCheck(c)
    PROVE  RunInv' /\ DownInv'
<1>1. UNCHANGED <<db, phase, id, rn, watcher, wcur, pend>>
  BY DEF WriteFails, UpsertResources, EditCheck
<1>2. /\ req'[c].pc \in {"idle", "lock", "err"}
      /\ req'[c].pc = "err" => req'[c].op # "stop"
      /\ req'[c].pc = "lock" /\ req'[c].op # "create" =>
            req'[c].op # "resume" /\ id = req'[c].pid
      /\ \A d \in Procs : d # c => req'[d] = req[d]
  <2>1. CASE Return(c)
    BY <2>1, ReturnFacts DEF StopInv
  <2>2. CASE UpsertResources(c) /\ Goto(c, "lock")
    <3>1. req[c].op = "create"
      BY <2>2, OpOf DEF UpsertResources, OpsAt
    <3> QED BY <2>2, <3>1, GotoFacts DEF StopInv, Labels
  <2>3. CASE EditCheck(c)
    <3>1. req[c].op \in {"edit", "resources"}
      BY <2>3, OpOf DEF EditCheck, OpsAt
    <3> QED BY <2>3, <3>1, GotoFacts DEF StopInv, Labels, EditCheck
  <2> QED BY <2>1, <2>2, <2>3 DEF WriteFails, UpsertResources
<1>3. DownOK(c)'
  BY <1>1, <1>2 DEF DownOK
<1> QED BY <1>1, <1>2, <1>3, SameRun, MoveDrain

LEMMA FinishDrain ==
    ASSUME StopInv, StatusInv, RunInv, DownInv, NEW c \in Procs, Finish(c)
    PROVE  RunInv' /\ DownInv'
<1>1. /\ UNCHANGED <<phase, id, rn, watcher, wcur, pend>> /\ Return(c)
      /\ req[c].pc \in {"ok", "err"} /\ req[c].pid \in Pipelines
  BY DEF Finish, StopInv, ActiveInv
<1>2. req'[c] = Idle /\ req'[c].pc = "idle" /\ \A d \in Procs : d # c => req'[d] = req[d]
  BY <1>1, ReturnFacts DEF StopInv
<1>3. AllDown => AllDown'
  BY <1>1, SameRun, AllDownStays
<1>4. DownOK(c)'
  BY <1>2 DEF DownOK
<1>5. db' = db \/ FailedIsDown'
  <2>1. CASE db' = [p \in Pipelines |-> IF p = req[c].pid
                        THEN Final(req[c].op, req[c].pc, db[p]) ELSE db[p]]
    <3>1. SUFFICES ASSUME phase = "up", id \in Pipelines, db'[id] = "Failed" PROVE AllDown
      BY <1>1, <1>3 DEF FailedIsDown, StopInv, TypeOK
    <3>2. CASE db[id] = "Failed"
      BY <3>1, <3>2 DEF DownInv, FailedIsDown, StopInv
    <3>3. CASE db[id] # "Failed"
      <4>1. id = req[c].pid /\ Final(req[c].op, req[c].pc, db[id]) = "Failed"
        BY <2>1, <3>1, <3>3
      <4>2. req[c].op = "stop" /\ req[c].pc = "err"
        BY <3>3, <4>1 DEF Final
      <4>3. c \in Clients
        BY <4>2 DEF StatusInv, WorkInv, Procs
      <4> QED BY <4>1, <4>2, <4>3 DEF DownInv, DownOK
    <3> QED BY <3>2, <3>3
  <2> QED BY <2>1 DEF Finish
<1> QED BY <1>1, <1>2, <1>4, <1>5, SameRun, MoveDrain

\* A request that is turned down, and a set-up or a resume that fails.
LEMMA ErrorDrain ==
    ASSUME StopInv, RunInv, DownInv, NEW c \in Procs, Goto(c, "err"),
           WindDown, SameRefs, UNCHANGED <<db, phase, id, watcher, wcur, pend>>,
           req[c].op = "stop" => id # req[c].pid
    PROVE  RunInv' /\ DownInv'
<1>1. /\ req'[c].pc = "err" /\ req'[c].pid = req[c].pid /\ req'[c].op = req[c].op
      /\ \A d \in Procs : d # c => req'[d] = req[d]
  BY GotoFacts DEF StopInv, Labels
<1>2. DownOK(c)'
  BY <1>1 DEF DownOK
<1> QED BY <1>1, <1>2, MoveDrain DEF SameWatchers

LEMMA SetupFailsQuietlyDrain ==
    ASSUME StopInv, StatusInv, RunInv, DownInv, NEW c \in Procs, SetupFailsQuietly(c)
    PROVE  RunInv' /\ DownInv'
<1>1. /\ req[c].pc = "setup" /\ Goto(c, "err")
      /\ UNCHANGED <<db, phase, id, watcher, wcur, pend>>
  BY DEF SetupFailsQuietly, Unlock
<1>2. req[c].op # "stop"
  BY <1>1, OpOf DEF OpsAt, Setups
<1>3. CASE rn' = rn
  BY <1>1, <1>2, <1>3, SameWinds, ErrorDrain
<1>4. CASE IsJoin(req[c].k) /\ rn' = [rn EXCEPT ![req[c].k] = LaunchFails(rn[req[c].k])]
  <2>1. req[c].k \in Runners
    BY <1>4, NType DEF IsJoin, StopInv, TypeOK, ReqStates, Runners
  <2>2. WindDown
    BY <1>4, <2>1, LaunchFailsWinds DEF StopInv
  <2>3. /\ req'[c].pc = "err" /\ req'[c].pid = req[c].pid /\ req'[c].op = req[c].op
        /\ \A d \in Procs : d # c => req'[d] = req[d]
    BY <1>1, GotoFacts DEF StopInv, Labels
  <2>4. \A d \in Procs : req'[d].pc \notin {"pause", "done"}
    BY <1>1, <2>3, HolderAlone DEF Holds
  <2>5. RunInv'
    BY <1>1, <2>2, <2>3, <2>4, RunStays DEF SameWatchers
  <2>6. AllDown => AllDown'
    BY <1>1, <2>2, AllDownStays DEF SameWatchers
  <2>7. DownOK(c)'
    BY <1>2, <2>3 DEF DownOK
  <2>8. \A d \in Clients : d # c => req'[d] = req[d]
    BY <2>3 DEF Procs
  <2> QED BY <1>1, <2>5, <2>6, <2>7, <2>8, FailedStays, DownStays
<1> QED BY <1>3, <1>4 DEF SetupFailsQuietly

LEMMA SetupFailsDrain ==
    ASSUME StopInv, StatusInv, RunInv, DownInv, NEW c \in Procs, NEW s \in Cleaners,
           SetupFails(c, s)
    PROVE  RunInv' /\ DownInv'
<1> DEFINE q == [pc |-> "lock", op |-> "cleanup", pid |-> req[c].pid, k |-> 1]
<1>1. /\ s \in Procs /\ s # c /\ req[c].pc = "setup"
      /\ req' = [req EXCEPT ![c].pc = "err", ![s] = q]
      /\ UNCHANGED <<db, phase, id, watcher, wcur, pend>>
  BY DEF SetupFails, Procs
<1>2. req[c].op # "stop" /\ c \in Clients
  <2>1. req[c].op \in Setups
    BY <1>1, OpOf DEF OpsAt
  <2> QED BY <2>1 DEF Setups, StatusInv, WorkInv, Procs
<1>3. q.pc = "lock"
  OBVIOUS
<1> HIDE DEF q
<1>4. /\ req'[c].pc = "err" /\ req'[c].pid = req[c].pid /\ req'[c].op = req[c].op
      /\ req'[s] = q /\ \A d \in Procs : d \notin {c, s} => req'[d] = req[d]
  BY <1>1 DEF StopInv, TypeOK, ReqStates
<1>5. WindDown
  <2>1. CASE rn' = rn
    BY <2>1, SameWinds
  <2>2. CASE rn' = [rn EXCEPT ![N] = LaunchFails(rn[N])]
    BY <2>2, NType, LaunchFailsWinds DEF StopInv
  <2> QED BY <2>1, <2>2 DEF SetupFails
<1>6. \A d \in Procs : req'[d].pc \notin {"pause", "done"}
  BY <1>1, <1>3, <1>4, HolderAlone DEF Holds
<1>7. RunInv'
  BY <1>1, <1>3, <1>4, <1>5, <1>6, RunStays DEF SameWatchers
<1>8. AllDown => AllDown'
  BY <1>1, <1>5, AllDownStays DEF SameWatchers
<1>9. DownOK(c)'
  BY <1>2, <1>4 DEF DownOK
<1>10. \A d \in Clients : d # c => req'[d] = req[d]
  BY <1>4 DEF Procs
<1> QED BY <1>1, <1>7, <1>8, <1>9, <1>10, FailedStays, DownStays

LEMMA ResumeFailsDrain ==
    ASSUME StopInv, StatusInv, RunInv, DownInv, NEW c \in Procs, ResumeFails(c)
    PROVE  RunInv' /\ DownInv'
<1> DEFINE x == ResumeOrder(req[c].k)
<1>1. /\ req[c].pc = "resume" /\ Goto(c, "err") /\ req[c].k \in 1..N
      /\ rn[x].ref /\ rn' = [rn EXCEPT ![x] = LaunchFails(rn[x])]
      /\ UNCHANGED <<db, phase, id, watcher, wcur, pend>>
  BY NType DEF ResumeFails, Unlock, StopInv, TypeOK, ReqStates
<1>2. req[c].op = "resume"
  BY <1>1, OpOf DEF OpsAt
<1>3. x \in Runners
  BY <1>1, ResumeOrderType
<1> HIDE DEF x
<1> QED BY <1>1, <1>2, <1>3, LaunchFailsWinds, ErrorDrain DEF StopInv

-----------------------------------------------------------------------------
(* Set-ups and resumes *)

LEMMA SetupLockDrain ==
    ASSUME StopInv, StatusInv, RunInv, DownInv, OneRequestPerPipeline,
           NEW c \in Procs, SetupLock(c)
    PROVE  RunInv' /\ DownInv'
<1>1. /\ req[c].pc = "lock" /\ req[c].op \in Setups /\ mu = Nobody
      /\ UNCHANGED <<db, phase, rn, watcher, wcur, pend>> /\ 1 \in 1..(N + 1)
  BY NType DEF SetupLock, Setups
<1>2. CASE id # NoPipeline
  <2>1. Goto(c, "err") /\ id' = id /\ req[c].op # "stop"
    BY <1>1, <1>2 DEF SetupLock, Setups
  <2> QED BY <1>1, <2>1, SameRun, ErrorDrain
<1>3. CASE id = NoPipeline
  <2>1. GotoAt(c, "setup", 1) /\ id' = req[c].pid
    BY <1>3 DEF SetupLock
  <2>2. /\ req'[c].pc = "setup" /\ req'[c].pid = req[c].pid /\ req'[c].op = req[c].op
        /\ \A d \in Procs : d # c => req'[d] = req[d]
    BY <1>1, <2>1, GotoAtFacts DEF StopInv, Labels
  <2>3. \A d \in Procs : ~Holds(d)
    BY <1>1, NobodyIsNoProcess DEF StopInv, MutexInv
  <2>4. StartInv' /\ GoneInv'
    BY <1>1, <1>3, <2>2, <2>3, IngestorFacts DEF RunInv, StartInv, GoneInv, Holds, StopInv,
       NothingRunsWhenIdle
  <2>5. PendInv'
    BY <1>1, <2>2, <2>3 DEF RunInv, PendInv, Paused, Holds
  <2>6. c \in Clients
    BY <1>1 DEF StatusInv, WorkInv, Procs, Setups
  <2>7. RowOK(req[c], db, id) /\ DownOK(c) /\ req[c].pid \in Pipelines
    BY <1>1, <2>6 DEF StatusInv, RowInv, DownInv, StopInv, ActiveInv
  <2>8. req[c].op = "resources" => phase = "draining"
    BY <1>1, <1>3, <2>7 DEF DownOK
  <2>9. phase = "up" => db[req[c].pid] # "Failed"
    BY <1>1, <2>7, <2>8, TargetIs DEF RowOK, Setups
  <2>10. FailedIsDown'
    BY <1>1, <2>1, <2>9 DEF FailedIsDown
  <2>11. DownOK(c)'
    BY <1>1, <2>2, <2>8 DEF DownOK, Setups
  <2>12. ASSUME NEW d \in Clients, d # c PROVE DownOK(d)'
    <3>1. req'[d] = req[d] /\ DownOK(d)
      BY <2>2, <2>12 DEF Procs, DownInv
    <3>2. req[d].pc # "idle" => req[d].pid # id' /\ req[d].pid # id
      BY <1>1, <1>3, <2>1, <2>6, <2>12 DEF OneRequestPerPipeline, StopInv, ActiveInv, Procs
    <3> QED BY <1>1, <3>1, <3>2 DEF DownOK
  <2> QED BY <2>4, <2>5, <2>10, <2>11, <2>12 DEF RunInv, DownInv
<1> QED BY <1>2, <1>3

\* The row of a pipeline that is being set up or resumed does not show it as failed.
LEMMA StarterFacts ==
    ASSUME StopInv, StatusInv, DownInv, NEW c \in Procs, req[c].pc \in {"setup", "resume"}
    PROVE  /\ c \in Clients /\ id = req[c].pid
           /\ phase = "up" => db[id] # "Failed"
<1>1. req[c].op \in IF req[c].pc = "setup" THEN Setups ELSE {"resume"}
  BY OpOf DEF OpsAt
<1>2. c \in Clients /\ id = req[c].pid
  BY <1>1 DEF StatusInv, WorkInv, Procs, Setups, StopInv, ActiveInv, Holds
<1>3. RowOK(req[c], db, id) /\ DownOK(c)
  BY <1>2 DEF StatusInv, RowInv, DownInv
<1>4. CASE req[c].op = "resources"
  BY <1>1, <1>2, <1>3, <1>4 DEF DownOK
<1>5. CASE req[c].op # "resources"
  BY <1>1, <1>2, <1>3, <1>5, TargetIs DEF RowOK, Setups
<1> QED BY <1>2, <1>4, <1>5

LEMMA StartRunnerDrain ==
    ASSUME StopInv, StatusInv, RunInv, DownInv, OneRequestPerPipeline,
           NEW c \in Procs, StartRunner(c)
    PROVE  RunInv' /\ DownInv'
<1> DEFINE k == req[c].k
<1>1. /\ req[c].pc = "setup" /\ k \in 1..N /\ k \in Runners /\ Holds(c)
      /\ rn' = [rn EXCEPT ![k] = Launch(rn[k], Nobody)]
      /\ GotoAt(c, "setup", k + 1)
      /\ UNCHANGED <<db, phase, id, watcher, wcur, pend>>
  BY NType DEF StartRunner, StopInv, TypeOK, ReqStates, Runners, Holds
<1>2. k + 1 \in 1..(N + 1) /\ k \in Nat
  BY <1>1, NextLabel, NType
<1>3. /\ req'[c].pc = "setup" /\ req'[c].k = k + 1 /\ req'[c].op = req[c].op
      /\ \A d \in Procs : d # c => req'[d] = req[d]
  BY <1>1, <1>2, GotoAtFacts DEF StopInv, Labels
<1>4. /\ rn[k].own # "running"
      /\ \A y \in Runners : y # k => rn'[y] = rn[y]
      /\ rn'[k].done = "open" /\ rn'[k].orphans = rn[k].orphans
  <2>1. rn[k].own # "running"
    BY <1>1, <1>2 DEF RunInv, StartInv
  <2>2. rn' = [rn EXCEPT ![k] = Launch(rn[k], Nobody)]
    BY <1>1
  <2> QED BY ZenonT(40), <1>1, <2>1, <2>2, LaunchFacts DEF StopInv
<1> HIDE DEF k
<1>5. \A d \in Procs : d # c => ~Holds(d)
  BY <1>1, HolderAlone
<1>6. StartInv'
  <2>1. \A x \in Runners : rn'[x].done = "closed" => rn'[x].own # "running"
    BY <1>4 DEF RunInv, StartInv
  <2>2. ASSUME NEW d \in Procs, NEW x \in Runners, req'[d].pc = "setup", req'[d].k <= x
        PROVE  rn'[x].own # "running"
    <3>1. d = c
      BY <1>3, <1>5, <2>2 DEF Holds
    <3>2. k + 1 <= x /\ x # k /\ k <= x
      BY <1>2, <1>3, <2>2, <3>1, IngestorFacts
    <3> QED BY <1>1, <1>4, <3>2 DEF RunInv, StartInv, k
  <2>3. \A d \in Procs : req'[d].pc # "resume"
    BY <1>3, <1>5 DEF Holds
  <2>4. \A x \in Ingestors : rn'[x].orphans = {}
    BY <1>4, IngestorFacts DEF RunInv, StartInv
  <2> QED BY <2>1, <2>2, <2>3, <2>4 DEF StartInv
<1>7. \A d \in Procs : req'[d].pc \notin {"pause", "done"}
  BY <1>3, <1>5 DEF Holds
<1>8. GoneInv' /\ PendInv'
  BY <1>1, <1>7 DEF RunInv, GoneInv, PendInv, Paused
<1>9. DownInv'
  BY <1>1, <1>3, StarterFacts, DownLaunch
<1> QED BY <1>6, <1>8, <1>9 DEF RunInv

LEMMA ResumeLockDrain ==
    ASSUME StopInv, StatusInv, RunInv, DownInv, NEW c \in Procs, ResumeLock(c)
    PROVE  RunInv' /\ DownInv'
<1>1. /\ req[c].pc = "lock" /\ req[c].op = "resume" /\ mu = Nobody
      /\ UNCHANGED <<db, phase, id, rn, watcher, wcur, pend>> /\ 1 \in 1..(N + 1)
  BY NType DEF ResumeLock
<1>2. CASE id # req[c].pid
  BY <1>1, <1>2, SameRun, ErrorDrain DEF ResumeLock
<1>3. CASE id = req[c].pid
  <2>1. /\ req'[c].pc = "resume" /\ req'[c].pid = req[c].pid /\ req'[c].op = req[c].op
        /\ \A d \in Procs : d # c => req'[d] = req[d]
    BY <1>1, <1>3, GotoAtFacts DEF ResumeLock, StopInv, Labels
  <2>2. \A d \in Procs : ~Holds(d)
    BY <1>1, NobodyIsNoProcess DEF StopInv, MutexInv
  <2>3. c \in Clients
    BY <1>1 DEF StatusInv, WorkInv, Procs
  <2>4. AllDown
    BY <1>1, <1>3, <2>3 DEF DownInv, DownOK
  <2>5. StartInv' /\ GoneInv'
    BY <1>1, <2>1, <2>2, <2>4 DEF RunInv, StartInv, GoneInv, Holds, AllDown
  <2>6. PendInv'
    BY <1>1, <2>1, <2>2 DEF RunInv, PendInv, Paused, Holds
  <2>7. AllDown => AllDown'
    BY <1>1 DEF AllDown
  <2>8. DownOK(c)'
    BY <2>1 DEF DownOK
  <2>9. \A d \in Clients : d # c => req'[d] = req[d]
    BY <2>1 DEF Procs
  <2> QED BY <1>1, <2>5, <2>6, <2>7, <2>8, <2>9, FailedStays, DownStays DEF RunInv
<1> QED BY <1>2, <1>3

\* The order of ResumePipeline: an ingestor is started after the sink and the join.
LEMMA ResumeOrderFacts ==
    ASSUME NEW k \in 1..N
    PROVE  /\ N - NI \in Nat
           /\ \A x \in Ingestors : /\ k + 1 <= x + (N - NI) => x # ResumeOrder(k)
                                   /\ x = ResumeOrder(k) => k <= x + (N - NI)
BY NType DEF ResumeOrder, Ingestors

LEMMA ResumeRunnerDrain ==
    ASSUME StopInv, StatusInv, RunInv, DownInv, OneRequestPerPipeline,
           NEW c \in Procs, ResumeRunner(c)
    PROVE  RunInv' /\ DownInv'
<1> DEFINE k == req[c].k
           o == ResumeOrder(k)
<1>1. /\ req[c].pc = "resume" /\ k \in 1..N /\ Holds(c)
      /\ rn' = [rn EXCEPT ![o] = Launch(rn[o], Nobody)] \/ rn' = rn
      /\ GotoAt(c, "resume", k + 1)
      /\ UNCHANGED <<db, phase, id, watcher, wcur, pend>>
  BY NType DEF ResumeRunner, StopInv, TypeOK, ReqStates, Holds
<1>2. k + 1 \in 1..(N + 1) /\ k \in Nat /\ o \in Runners /\ N - NI \in Nat
  BY <1>1, NextLabel, NType, ResumeOrderType, ResumeOrderFacts
<1>3. /\ req'[c].pc = "resume" /\ req'[c].k = k + 1 /\ req'[c].op = req[c].op
      /\ \A d \in Procs : d # c => req'[d] = req[d]
  BY <1>1, <1>2, GotoAtFacts DEF StopInv, Labels
<1>4. o \in Ingestors => rn[o].own # "running"
  BY <1>1, ResumeOrderFacts DEF RunInv, StartInv
<1>5. /\ \A y \in Runners : y # o => rn'[y] = rn[y]
      /\ rn'[o].done = "open" \/ rn'[o] = rn[o]
      /\ o \in Ingestors => rn'[o].orphans = rn[o].orphans
  <2>1. CASE rn' = [rn EXCEPT ![o] = Launch(rn[o], Nobody)]
    BY <1>2, <1>4, <2>1, LaunchFacts DEF StopInv
  <2> QED BY <1>1, <2>1
<1>6. \A x \in Ingestors : k + 1 <= x + (N - NI) => x # o /\ k <= x + (N - NI)
  BY <1>1, <1>2, ResumeOrderFacts, IngestorFacts
<1>7. \A d \in Procs : d # c => ~Holds(d)
  BY <1>1, HolderAlone
<1> HIDE DEF o
<1>8. StartInv'
  <2>1. \A x \in Runners : rn'[x].done = "closed" => rn'[x].own # "running"
    BY <1>5 DEF RunInv, StartInv
  <2>2. \A d \in Procs : req'[d].pc # "setup"
    BY <1>3, <1>7 DEF Holds
  <2>3. ASSUME NEW d \in Procs, NEW x \in Ingestors, req'[d].pc = "resume",
               req'[d].k <= x + (N - NI)
        PROVE  rn'[x].own # "running"
    <3>1. d = c
      BY <1>3, <1>7, <2>3 DEF Holds
    <3>2. x # o /\ k <= x + (N - NI) /\ x \in Runners
      BY <1>3, <1>6, <2>3, <3>1, IngestorFacts
    <3> QED BY <1>1, <1>5, <3>2 DEF RunInv, StartInv
  <2>4. \A x \in Ingestors : rn'[x].orphans = {}
    BY <1>5, IngestorFacts DEF RunInv, StartInv
  <2> QED BY <2>1, <2>2, <2>3, <2>4 DEF StartInv
<1>9. \A d \in Procs : req'[d].pc \notin {"pause", "done"}
  BY <1>3, <1>7 DEF Holds
<1>10. GoneInv' /\ PendInv'
  BY <1>1, <1>9 DEF RunInv, GoneInv, PendInv, Paused
<1>11. DownInv'
  BY <1>1, <1>3, StarterFacts, DownLaunch
<1> QED BY <1>8, <1>10, <1>11 DEF RunInv

\* The watcher starts as the last step of a set-up and of a resume.
LEMMA StartDoneDrain ==
    ASSUME StopInv, StatusInv, RunInv, DownInv, OneRequestPerPipeline,
           NEW c \in Procs, NEW w \in Watchers, SetupDone(c, w) \/ ResumeDone(c, w)
    PROVE  RunInv' /\ DownInv'
<1>1. /\ req[c].pc \in {"setup", "resume"} /\ Holds(c) /\ Goto(c, "ok") /\ wcur' = w
      /\ UNCHANGED <<db, phase, id, rn, pend>>
  BY DEF SetupDone, ResumeDone, Holds, Unlock, StartWatcher
<1>2. /\ req'[c].pc = "ok" /\ req'[c].op = req[c].op
      /\ \A d \in Procs : d # c => req'[d] = req[d]
  BY <1>1, GotoFacts DEF StopInv, Labels
<1>3. \A d \in Procs : d # c => ~Holds(d)
  BY <1>1, HolderAlone
<1>4. \A d \in Procs : req'[d].pc \notin {"setup", "resume", "pause", "done"}
  BY <1>2, <1>3 DEF Holds
<1>5. RunInv'
  BY <1>1, <1>4 DEF RunInv, StartInv, GoneInv, PendInv, Paused
<1>6. DownInv'
  BY <1>1, <1>2, StarterFacts, DownLaunch
<1> QED BY <1>5, <1>6

-----------------------------------------------------------------------------
(* Stops *)

LEMMA StopLockDrain ==
    ASSUME StopInv, RunInv, DownInv, NEW c \in Procs, StopLock(c)
    PROVE  RunInv' /\ DownInv'
<1>1. /\ req[c].pc = "lock" /\ UNCHANGED <<db, phase, id, rn, wcur, pend>>
  BY DEF StopLock
<1>2. CASE id # req[c].pid
  BY <1>1, <1>2, SameRun, ErrorDrain DEF StopLock
<1>3. CASE id = req[c].pid
  <2>1. /\ Goto(c, "watchers")
        /\ watcher' = [w \in Watchers |->
                IF w = wcur THEN [watcher[w] EXCEPT !.cancelled = TRUE] ELSE watcher[w]]
    BY <1>3 DEF StopLock
  <2>2. /\ req'[c].pc = "watchers" /\ \A d \in Procs : d # c => req'[d] = req[d]
    BY <2>1, GotoFacts DEF StopInv, Labels
  <2>3. SameWatchers
    BY <2>1, CancelType DEF StopInv, TypeOK, SameWatchers
  <2>4. DownOK(c)'
    BY <2>2 DEF DownOK
  <2> QED BY <1>1, <2>2, <2>3, <2>4, SameWinds, MoveDrain
<1> QED BY <1>2, <1>3

LEMMA PauseTimeoutDrain ==
    ASSUME StopInv, RunInv, DownInv, NEW c \in Procs, PauseTimeout(c)
    PROVE  RunInv' /\ DownInv'
<1>1. /\ req[c].pc = "pause" /\ req[c].k \in (NI + 1)..N /\ Goto(c, "err")
      /\ UNCHANGED <<db, phase, id, rn, watcher, wcur, pend>>
  BY DEF PauseTimeout, Unlock
<1>2. /\ req'[c].pc = "err" /\ \A d \in Procs : d # c => req'[d] = req[d]
  BY <1>1, GotoFacts DEF StopInv, Labels
<1>3. \A x \in Ingestors : x < req[c].k
  BY <1>1, NType DEF Ingestors
<1>4. AllDown
  BY <1>1, <1>3, IngestorFacts DEF RunInv, GoneInv, AllDown, StopInv, PausedStaysDown, Paused
<1>5. AllDown'
  BY <1>1, <1>4 DEF AllDown
<1>6. DownOK(c)'
  BY <1>2, <1>5 DEF DownOK
<1> QED BY <1>1, <1>2, <1>6, SameRun, MoveDrain

\* A stop goes on with its runners: what it newly gets past has nothing pending.
LEMMA PauseDrain ==
    ASSUME StopInv, RunInv, DownInv, NEW c \in Procs, Holds(c),
           \A w \in Watchers : watcher[w].pc \in {"new", "gone"},
           UNCHANGED <<db, phase, id, watcher, wcur, pend>>, WindDown, SameRefs,
           \A d \in Procs : d # c => req'[d] = req[d],
           req'[c].pc \in {"pause", "done"},
           \A x \in Runners : Paused(c, x)' /\ (\A y \in Runners : rn[y].ref)
                                 => Paused(c, x) \/ x \notin pend[id]
    PROVE  RunInv' /\ DownInv'
<1>1. \A d \in Procs : d # c => ~Holds(d)
  BY HolderAlone
<1>2. StartInv'
  <2>1. \A d \in Procs : req'[d].pc \notin {"setup", "resume"}
    BY <1>1 DEF Holds
  <2> QED BY <2>1, IngestorFacts DEF RunInv, StartInv, WindDown
<1>3. GoneInv'
  BY DEF RunInv, GoneInv
<1>4. PendInv'
  <2>1. ASSUME NEW d \in Procs, NEW x \in Runners, Paused(d, x)', \A y \in Runners : rn'[y].ref
        PROVE  x \notin pend[id]
    <3>1. d = c
      BY <1>1, <2>1 DEF Paused, Holds
    <3>2. \A y \in Runners : rn[y].ref
      BY <2>1 DEF SameRefs
    <3> QED BY <2>1, <3>1, <3>2 DEF RunInv, PendInv
  <2> QED BY <2>1 DEF RunInv, PendInv
<1>5. AllDown => AllDown'
  BY AllDownStays DEF SameWatchers
<1>6. DownOK(c)'
  BY DEF DownOK
<1>7. \A d \in Clients : d # c => req'[d] = req[d]
  BY DEF Procs
<1> QED BY <1>2, <1>3, <1>4, <1>5, <1>6, <1>7, FailedStays, DownStays DEF RunInv

LEMMA WatchersGoneDrain ==
    ASSUME StopInv, RunInv, DownInv, NEW c \in Procs, WatchersGone(c)
    PROVE  RunInv' /\ DownInv'
<1>1. /\ req[c].pc = "watchers" /\ GotoAt(c, "pause", 1) /\ 1 \in 1..(N + 1)
      /\ UNCHANGED <<db, phase, id, rn, watcher, wcur, pend>>
  BY NType DEF WatchersGone
<1>2. /\ req'[c].pc = "pause" /\ req'[c].k = 1 /\ \A d \in Procs : d # c => req'[d] = req[d]
  BY <1>1, GotoAtFacts DEF StopInv, Labels
<1>3. \A x \in Runners : ~Paused(c, x)'
  BY <1>2, NType DEF Paused, Runners
<1>4. \A w \in Watchers : watcher[w].pc \in {"new", "gone"}
  BY DEF WatchersGone, RunInv, GoneInv
<1>5. Holds(c)
  BY <1>1 DEF Holds
<1> QED BY <1>1, <1>2, <1>3, <1>4, <1>5, SameWinds, PauseDrain

\* The next runner's turn: the one at hand is not held, has nothing pending or was counted.
LEMMA NextDrain ==
    ASSUME StopInv, RunInv, DownInv, NEW c \in Procs, req[c].pc \in {"pause", "done"},
           req[c].k \in Runners, GotoAt(c, "pause", req[c].k + 1),
           UNCHANGED <<db, phase, id, rn, watcher, wcur, pend>>,
           req[c].pc = "done" \/ ~rn[req[c].k].ref
    PROVE  RunInv' /\ DownInv'
<1>1. req[c].k + 1 \in 1..(N + 1) /\ req[c].k \in Nat
  BY NType DEF Runners
<1>2. /\ req'[c].pc = "pause" /\ req'[c].k = req[c].k + 1
      /\ \A d \in Procs : d # c => req'[d] = req[d]
  BY <1>1, GotoAtFacts DEF StopInv, Labels
<1>3. ASSUME NEW x \in Runners, Paused(c, x)', \A y \in Runners : rn[y].ref
      PROVE  Paused(c, x)
  <2>1. x <= req[c].k /\ req[c].pc = "done"
    BY <1>1, <1>2, <1>3, IngestorFacts DEF Paused
  <2> QED BY <2>1 DEF Paused
<1>4. Holds(c) /\ \A w \in Watchers : watcher[w].pc \in {"new", "gone"}
  BY DEF Holds, RunInv, GoneInv
<1> QED BY <1>2, <1>3, <1>4, SameWinds, PauseDrain

LEMMA SkipRunnerDrain ==
    ASSUME StopInv, RunInv, DownInv, NEW c \in Procs, SkipRunner(c)
    PROVE  RunInv' /\ DownInv'
<1>1. req[c].k \in Runners
  BY NType DEF SkipRunner, StopInv, TypeOK, ReqStates, Runners
<1> QED BY <1>1, NextDrain DEF SkipRunner

LEMMA AwaitDoneDrain ==
    ASSUME StopInv, RunInv, DownInv, NEW c \in Procs, AwaitDone(c)
    PROVE  RunInv' /\ DownInv'
<1>1. req[c].k \in Runners
  BY DEF AwaitDone, StopInv, ActiveInv
<1> QED BY <1>1, NextDrain DEF AwaitDone

LEMMA ShutdownDrain ==
    ASSUME StopInv, RunInv, DownInv, NEW c \in Procs, Shutdown(c)
    PROVE  RunInv' /\ DownInv'
<1> DEFINE k == req[c].k
<1>1. k \in Runners /\ k \in Nat
  BY NType DEF Shutdown, StopInv, TypeOK, ReqStates, Runners
<1>2. /\ req[c].pc = "pause" /\ k \notin pend[req[c].pid] /\ Goto(c, "done") /\ Holds(c)
      /\ rn' = [rn EXCEPT ![k] = Ended(rn[k])]
      /\ UNCHANGED <<db, phase, id, watcher, wcur, pend>>
  BY DEF Shutdown, Holds
<1>3. /\ req'[c].pc = "done" /\ req'[c].k = k /\ \A d \in Procs : d # c => req'[d] = req[d]
  BY <1>2, GotoFacts DEF StopInv, Labels
<1>4. WindDown /\ SameRefs
  BY <1>1, <1>2, EndedWinds DEF StopInv
<1>5. ASSUME NEW x \in Runners, Paused(c, x)' PROVE Paused(c, x) \/ x \notin pend[id]
  <2>1. CASE x = k
    BY <1>2, <2>1 DEF StopInv, ActiveInv
  <2>2. CASE x # k
    BY <1>1, <1>2, <1>3, <1>5, <2>2, IngestorFacts DEF Paused
  <2> QED BY <2>1, <2>2
<1>6. \A w \in Watchers : watcher[w].pc \in {"new", "gone"}
  BY <1>2 DEF RunInv, GoneInv
<1> QED BY <1>2, <1>3, <1>4, <1>5, <1>6, PauseDrain

\* The pipeline is forgotten: no request is about to set up new resources for it.
LEMMA TerminateDrain ==
    ASSUME StopInv, StatusInv, RunInv, DownInv, OneRequestPerPipeline, NoCleanupDuringEdit,
           NEW c \in Procs, Terminate(c)
    PROVE  RunInv' /\ DownInv'
<1>1. /\ req[c].pc = "pause" /\ id' = NoPipeline /\ Goto(c, "ok") /\ Holds(c)
      /\ rn' = [x \in Runners |-> [rn[x] EXCEPT !.ref = FALSE]]
      /\ pend' = [pend EXCEPT ![req[c].pid] = {}]
      /\ UNCHANGED <<db, phase, watcher, wcur>>
      /\ id = req[c].pid /\ req[c].pid \in Pipelines
  BY DEF Terminate, Unlock, Holds, StopInv, ActiveInv
<1>2. /\ req'[c].pc = "ok" /\ req'[c].pid = req[c].pid /\ req'[c].op = req[c].op
      /\ \A d \in Procs : d # c => req'[d] = req[d]
  BY <1>1, GotoFacts DEF StopInv, Labels
<1>3. \A d \in Procs : req'[d].pc \notin {"setup", "resume", "pause", "done"}
  <2>1. \A d \in Procs : d # c => ~Holds(d)
    BY <1>1, HolderAlone
  <2> QED BY <1>2, <2>1 DEF Holds
<1>4. \A x \in Runners : /\ rn'[x].own = rn[x].own /\ rn'[x].done = rn[x].done
                         /\ rn'[x].orphans = rn[x].orphans
  <2>1. ASSUME NEW r \in RunnerStates
        PROVE  LET f == [r EXCEPT !.ref = FALSE]
               IN  f.own = r.own /\ f.done = r.done /\ f.orphans = r.orphans
    BY DEF RunnerStates
  <2>2. \A x \in Runners : rn[x] \in RunnerStates /\ rn'[x] = [rn[x] EXCEPT !.ref = FALSE]
    BY <1>1 DEF StopInv, TypeOK
  <2> QED BY <2>1, <2>2
<1>5. StartInv'
  BY <1>3, <1>4, IngestorFacts DEF RunInv, StartInv
<1>6. GoneInv'
  BY <1>1, <1>3 DEF RunInv, GoneInv
<1>7. PendInv'
  BY <1>1, <1>3 DEF RunInv, PendInv, Paused, StopInv, TypeOK
<1>8. FailedIsDown'
  BY <1>1 DEF FailedIsDown
<1>9. ASSUME NEW d \in Clients PROVE DownOK(d)'
  <2>1. CASE req'[d].pc = "idle"
    BY <2>1 DEF DownOK
  <2>2. CASE req'[d].pc # "idle" /\ d = c
    BY <1>1, <1>2, <2>2 DEF DownOK
  <2>3. CASE req'[d].pc # "idle" /\ d # c
    <3>1. req'[d] = req[d] /\ d \in Procs /\ req[d].pid \in Pipelines /\ DownOK(d)
      BY <1>2, <2>3 DEF Procs, StopInv, ActiveInv, DownInv
    <3>2. req[d].pid # id'
      BY <1>1, <3>1
    <3>3. req[d].op = "resources" /\ req[d].pc = "lock" => phase = "draining"
      <4>1. CASE c \in Clients
        BY <1>1, <2>3, <3>1, <4>1 DEF OneRequestPerPipeline, DownOK
      <4>2. CASE c \in Cleaners
        <5>1. req[c].op \in {"cleanup", "exit"}
          BY <1>1, <4>2, OpOf DEF StatusInv, WorkInv, OpsAt, Stops
        <5> QED BY <1>1, <3>1, <4>2, <5>1 DEF NoCleanupDuringEdit, DownOK, StatusInv, WorkInv
      <4> QED BY <4>1, <4>2 DEF Procs
    <3> QED BY <1>1, <3>1, <3>2, <3>3 DEF DownOK
  <2> QED BY <2>1, <2>2, <2>3
<1> QED BY <1>5, <1>6, <1>7, <1>8, <1>9 DEF RunInv, DownInv

-----------------------------------------------------------------------------
(* Watchers and components *)

\* A watcher that is at work finds no stop past its wait for the watchers.
LEMMA WatcherDrain ==
    ASSUME StopInv, RunInv, DownInv, NEW w \in Watchers, watcher[w].pc \notin {"new", "gone"},
           UNCHANGED <<db, phase, id, rn, wcur, req, pend>>
    PROVE  RunInv' /\ DownInv'
<1>1. wcur # Nobody /\ ~AllDown /\ \A c \in Procs : req[c].pc \notin {"pause", "done"}
  BY DEF RunInv, GoneInv, AllDown
<1>2. RunInv'
  BY <1>1 DEF RunInv, StartInv, GoneInv, PendInv, Paused
<1>3. DownInv'
  BY <1>1 DEF DownInv, FailedIsDown, DownOK
<1> QED BY <1>2, <1>3

LEMMA RestartRunnerDrain ==
    ASSUME StopInv, RunInv, DownInv, NEW w \in Watchers, RestartRunner(w)
    PROVE  RunInv' /\ DownInv'
<1> DEFINE x == watcher[w].k
<1>1. /\ x \in Runners /\ watcher[w].pc = "check" /\ rn[x].done = "closed"
      /\ UNCHANGED <<db, phase, id, wcur, req, pend>>
      /\ \/ rn' = [rn EXCEPT ![x] = Launch(rn[x], w)]
         \/ rn' = [rn EXCEPT ![x] = LaunchFails(rn[x])]
  BY NType DEF RestartRunner, Restarts, StopInv, TypeOK, WatcherStates, Runners
<1>2. rn[x].own # "running"
  BY <1>1 DEF RunInv, StartInv
<1> HIDE DEF x
<1>3. \A y \in Runners : /\ rn'[y].done = "closed" => rn'[y].own # "running"
                         /\ rn'[y].orphans \subseteq rn[y].orphans
  <2>1. CASE rn' = [rn EXCEPT ![x] = Launch(rn[x], w)]
    BY ZenonT(40), <1>1, <1>2, <2>1, LaunchFacts DEF StopInv, RunInv, StartInv
  <2>2. CASE rn' = [rn EXCEPT ![x] = LaunchFails(rn[x])]
    BY <1>1, <2>2, LaunchFailsWinds DEF StopInv, RunInv, StartInv, WindDown
  <2> QED BY <1>1, <2>1, <2>2
<1>4. /\ wcur # Nobody /\ ~AllDown
      /\ \A c \in Procs : req[c].pc \notin {"setup", "resume", "pause", "done"}
  BY <1>1, WatcherAlone DEF RunInv, GoneInv, AllDown, Holds
<1>5. RunInv'
  BY <1>1, <1>3, <1>4, IngestorFacts DEF RunInv, StartInv, GoneInv, PendInv, Paused
<1>6. DownInv'
  BY <1>1, <1>4 DEF DownInv, FailedIsDown, DownOK
<1> QED BY <1>5, <1>6

LEMMA WatchDrain ==
    ASSUME StopInv, RunInv, DownInv, NEW w \in Watchers, Watch(w)
    PROVE  RunInv' /\ DownInv'
<1>1. CASE RestartRunner(w)
  BY <1>1, RestartRunnerDrain
<1>2. CASE WatcherTick(w) \/ WatcherReturn(w) \/ WatcherLock(w) \/ WatcherSkips(w)
           \/ WatcherUnlock(w)
  BY <1>2, WatcherDrain DEF WatcherTick, WatcherReturn, WatcherLock, WatcherSkips, WatcherUnlock
<1> QED BY <1>1, <1>2 DEF Watch

LEMMA StillDrain ==
    ASSUME StopInv, RunInv, DownInv, WindDown, SameRefs, SameWatchers,
           UNCHANGED <<db, phase, id, wcur, req, pend>>
    PROVE  RunInv' /\ DownInv'
<1>1. RunInv'
  BY RunStays
<1>2. AllDown => AllDown'
  BY AllDownStays
<1> QED BY <1>1, <1>2 DEF DownInv, FailedIsDown, DownOK

LEMMA ComponentDrain ==
    ASSUME StopInv, RunInv, DownInv, NEW x \in Runners,
           ComponentCancelled(x) \/ ComponentFails(x)
    PROVE  RunInv' /\ DownInv'
<1>1. UNCHANGED <<db, phase, id, watcher, wcur, req, pend>>
  BY DEF ComponentCancelled, ComponentFails
<1>2. CASE rn' = [rn EXCEPT ![x] = Ended(rn[x])]
  BY <1>1, <1>2, EndedWinds, StillDrain DEF StopInv, SameWatchers
<1>3. CASE \E o \in rn[x].orphans : rn' = [rn EXCEPT ![x].orphans = rn[x].orphans \ {o}]
  <2>1. PICK o : rn' = [rn EXCEPT ![x].orphans = rn[x].orphans \ {o}]
    BY <1>3
  <2> DEFINE r == [rn[x] EXCEPT !.orphans = rn[x].orphans \ {o}]
  <2>2. /\ r.own = rn[x].own /\ r.done = rn[x].done /\ r.ref = rn[x].ref
        /\ r.orphans \subseteq rn[x].orphans
    BY DEF StopInv, TypeOK, RunnerStates
  <2>3. rn'[x] = r /\ \A y \in Runners : y # x => rn'[y] = rn[y]
    BY <2>1 DEF StopInv, TypeOK
  <2> HIDE DEF r
  <2>4. WindDown /\ SameRefs
    BY <2>2, <2>3 DEF WindDown, SameRefs
  <2> QED BY <1>1, <2>4, StillDrain DEF SameWatchers
<1> QED BY <1>2, <1>3 DEF ComponentCancelled, ComponentFails

\* Messages come for a consumer only while the runner before it has not been got past.
LEMMA DataDrain ==
    ASSUME StopInv, RunInv, DownInv, NEW x \in Runners, Publish(x) \/ Consume(x)
    PROVE  RunInv' /\ DownInv'
<1>1. UNCHANGED <<db, phase, id, rn, watcher, wcur, req>> /\ id \in Pipelines
  BY DEF Publish, Consume, Active, StopInv, TypeOK
<1>2. StartInv' /\ GoneInv' /\ DownInv'
  BY <1>1 DEF RunInv, StartInv, GoneInv, DownInv, FailedIsDown, DownOK, AllDown
<1>3. CASE Publish(x)
  <2>1. /\ pend' = [pend EXCEPT ![id] = pend[id] \cup {NI + 1}] /\ x \in Ingestors /\ Active(x)
    BY <1>3, IngestorFacts DEF Publish
  <2>2. rn[x].own = "running"
    BY <2>1 DEF RunInv, StartInv, Active
  <2>3. ASSUME NEW c \in Procs PROVE ~Paused(c, NI + 1)
    <3>1. x < NI + 1 /\ x \in Nat
      BY <2>1 DEF Ingestors
    <3>2. Paused(c, NI + 1) => Paused(c, x)
      <4>1. req[c].k \in Nat
        BY NType DEF StopInv, TypeOK, ReqStates
      <4> QED BY <3>1, <4>1 DEF Paused
    <3> QED BY <2>2, <3>2 DEF StopInv, PausedStaysDown
  <2>4. /\ pend'[id] = pend[id] \cup {NI + 1} /\ NI + 1 \in (NI + 1)..N
        /\ \A p \in Pipelines : p # id => pend'[p] = pend[p]
    BY <1>1, <2>1, NType DEF StopInv, TypeOK
  <2>5. \A c \in Procs, y \in Runners : Paused(c, y)' = Paused(c, y)
    BY <1>1 DEF Paused
  <2>6. PendInv'
    BY <1>1, <2>3, <2>4, <2>5 DEF RunInv, PendInv
  <2> QED BY <1>2, <2>6 DEF RunInv
<1>4. CASE Consume(x)
  <2>1. PICK out \in SUBSET {y \in Runners : IsJoin(x) /\ y = N} :
           pend' = [pend EXCEPT ![id] = (pend[id] \ {x}) \cup out]
    BY <1>4 DEF Consume
  <2>2. x \in pend[id] /\ (IsJoin(x) => x < N)
    BY <1>4 DEF Consume, IsJoin
  <2>3. /\ pend'[id] = (pend[id] \ {x}) \cup out
        /\ \A p \in Pipelines : p # id => pend'[p] = pend[p]
    BY <1>1, <2>1 DEF StopInv, TypeOK
  <2>4. \A c \in Procs, y \in Runners : Paused(c, y)' = Paused(c, y)
    BY <1>1 DEF Paused
  <2>5. ASSUME NEW c \in Procs, NEW y \in out, Paused(c, y), \A z \in Runners : rn[z].ref
        PROVE  FALSE
    <3>1. y = N /\ x < N
      BY <2>1, <2>2, <2>5
    <3>2. req[c].k \in Nat /\ x \in Nat /\ N \in Nat
      BY NType, IngestorFacts DEF StopInv, TypeOK, ReqStates
    <3>3. Paused(c, x)
      BY <2>5, <3>1, <3>2 DEF Paused
    <3> QED BY <2>2, <2>5, <3>3 DEF RunInv, PendInv
  <2>6. out \subseteq (NI + 1)..N
    BY <2>1, NType
  <2>7. PendInv'
    BY <1>1, <2>3, <2>4, <2>5, <2>6 DEF RunInv, PendInv
  <2> QED BY <1>2, <2>7 DEF RunInv
<1> QED BY <1>3, <1>4

-----------------------------------------------------------------------------
(* The process *)

LEMMA SigtermDrain ==
    ASSUME StopInv, RunInv, DownInv, NEW s \in Cleaners, Sigterm(s)
    PROVE  RunInv' /\ DownInv'
<1> DEFINE q == [pc |-> "lock", op |-> "exit", pid |-> id, k |-> 1]
<1>1. /\ s \in Procs /\ s \notin Clients /\ phase' = "draining" /\ phase = "up" /\ q.pc = "lock"
      /\ req' = [req EXCEPT ![s] = q] /\ UNCHANGED <<db, id, rn, watcher, wcur, pend>>
  BY DEF Sigterm, Procs
<1> HIDE DEF q
<1>2. req'[s] = q /\ \A d \in Procs : d # s => req'[d] = req[d]
  BY <1>1 DEF StopInv, TypeOK
<1>3. RunInv'
  BY <1>1, <1>2, SameRun, RunStays
<1>4. AllDown => AllDown'
  BY <1>1 DEF AllDown
<1>5. DownInv'
  BY <1>1, <1>2, <1>4 DEF DownInv, FailedIsDown, DownOK, Procs
<1> QED BY <1>3, <1>5

LEMMA ProcessGoneDrain ==
    ASSUME StopInv, RunInv, ProcessGone
    PROVE  RunInv' /\ DownInv'
<1>1. /\ \A c \in Procs : req'[c] = Idle /\ req'[c].pc = "idle" /\ req'[c].op = "none"
      /\ \A x \in Runners : rn'[x] = NewRunner
      /\ \A w \in Watchers : watcher'[w] = NewWatcher
      /\ id' = NoPipeline /\ phase' = "down" /\ pend' = pend
  BY DEF ProcessGone, Idle
<1>2. StartInv'
  BY <1>1, IngestorFacts DEF StartInv, NewRunner
<1>3. GoneInv' /\ PendInv'
  BY <1>1 DEF GoneInv, NewWatcher, RunInv, PendInv, Paused
<1>4. DownInv'
  BY <1>1 DEF DownInv, FailedIsDown, DownOK, Procs
<1> QED BY <1>2, <1>3, <1>4 DEF RunInv

LEMMA RestartDrain ==
    ASSUME StopInv, StatusInv, RunInv, Restart
    PROVE  RunInv' /\ DownInv'
<1>1. UNCHANGED <<id, rn, watcher, wcur, req, pend>> /\ phase = "down"
  BY DEF Restart
<1>2. id = NoPipeline /\ \A c \in Procs : req[c].pc = "idle"
  BY <1>1 DEF StatusInv, WorkInv
<1>3. RunInv'
  BY <1>1, SameRun, RunStays
<1>4. DownInv'
  BY <1>1, <1>2 DEF DownInv, FailedIsDown, DownOK, Procs
<1> QED BY <1>3, <1>4

-----------------------------------------------------------------------------
(* The stop that loses nothing *)

LEMMA DrainRequest ==
    ASSUME StopInv, StatusInv, RunInv, DownInv, OneRequestPerPipeline, NoCleanupDuringEdit,
           NEW c \in Procs, Lock(c) \/ Advance(c)
    PROVE  RunInv' /\ DownInv'
<1>1. CASE Lock(c)
  BY <1>1, EarlyDrain, SetupLockDrain, StopLockDrain, ResumeLockDrain DEF Lock
<1>2. CASE SetUp(c)
  BY <1>2, StartRunnerDrain, SetupFailsQuietlyDrain, SetupFailsDrain, StartDoneDrain DEF SetUp
<1>3. CASE StopSteps(c)
  BY <1>3, WatchersGoneDrain, SkipRunnerDrain, ShutdownDrain, AwaitDoneDrain,
     PauseTimeoutDrain, TerminateDrain DEF StopSteps
<1>4. CASE Resume(c)
  BY <1>4, ResumeRunnerDrain, ResumeFailsDrain, StartDoneDrain DEF Resume
<1> QED
  BY <1>1, <1>2, <1>3, <1>4, WriteStatusDrain, EarlyDrain, FinishDrain DEF Advance

LEMMA DrainStep ==
    ASSUME StopInv, DrainInv, OneRequestPerPipeline, NoCleanupDuringEdit, [Next]_vars
    PROVE  DrainInv'
<1>1. StatusInv /\ RunInv /\ DownInv
  BY DEF DrainInv
<1>2. StatusInv'
  BY <1>1, StatusStep
<1>3. RunInv' /\ DownInv'
  <2>1. CASE UNCHANGED vars
    <3>1. UNCHANGED <<db, phase, id, rn, watcher, wcur, req, pend>>
      BY <2>1 DEF vars
    <3> QED BY <1>1, <3>1, SameRun, StillDrain
  <2>2. CASE \E c \in Clients, op \in Ops, p \in Pipelines : Receive(c, op, p)
    BY <1>1, <2>2, ReceiveDrain
  <2>3. CASE \E c \in Procs : Lock(c) \/ Advance(c)
    BY <1>1, <2>3, DrainRequest
  <2>4. CASE \E w \in Watchers : Watch(w)
    BY <1>1, <2>4, WatchDrain
  <2>5. CASE \E x \in Runners : Component(x)
    BY <1>1, <2>5, ComponentDrain, DataDrain DEF Component
  <2>6. CASE Process
    BY <1>1, <2>6, ProcessGoneDrain, SigtermDrain, RestartDrain DEF Process, Crash, Exit
  <2> QED BY <2>1, <2>2, <2>3, <2>4, <2>5, <2>6 DEF Next
<1> QED BY <1>2, <1>3 DEF DrainInv

LEMMA DrainInit == Init => DrainInv
<1> SUFFICES ASSUME Init PROVE RunInv /\ DownInv
  BY StatusInit DEF DrainInv
<1>1. /\ \A c \in Procs : req[c].pc = "idle" /\ req[c].op = "none"
      /\ \A x \in Runners : rn[x] = NewRunner
      /\ \A w \in Watchers : watcher[w] = NewWatcher
      /\ id = NoPipeline /\ \A p \in Pipelines : pend[p] = {}
  BY DEF Init, Idle
<1>2. StartInv
  BY <1>1, IngestorFacts DEF StartInv, NewRunner
<1>3. GoneInv /\ PendInv
  BY <1>1 DEF GoneInv, NewWatcher, PendInv, Paused
<1>4. DownInv
  BY <1>1 DEF DownInv, FailedIsDown, DownOK, Procs
<1> QED BY <1>2, <1>3, <1>4 DEF RunInv

\* What the drain rests on, for any number of clients: a runner is only started while it is
\* down, no watcher works while a stop waits, a failed pipeline that is active is down, and a
\* consumer that a stop has got past has nothing pending.
THEOREM DrainInvariant ==
    Spec /\ []OneRequestPerPipeline /\ []NoCleanupDuringEdit => []DrainInv
<1> QED BY DrainInit, DrainStep, StopInvariant, PTL DEF Spec

StopLosesNothing ==
    \A p \in Pipelines :
       (id = p /\ id' # p /\ phase' # "down" /\ \A x \in Runners : rn[x].ref) => pend[p] = {}

LEMMA DrainedStep ==
    ASSUME StopInv, DrainInv, [Next]_vars
    PROVE  StopLosesNothing
<1> SUFFICES ASSUME id \in Pipelines, id' # id, phase' # "down", \A x \in Runners : rn[x].ref
             PROVE  pend[id] = {}
  BY DEF StopLosesNothing
<1>1. PICK c \in Procs : Terminate(c)
  <2>1. CASE UNCHANGED vars
    BY <2>1 DEF vars
  <2>2. ASSUME NEW c \in Procs, Lock(c) \/ Advance(c) PROVE Terminate(c)
    <3>1. id # NoPipeline
      OBVIOUS
    <3> QED
      BY <2>2, <3>1 DEF Lock, Advance, EditCheck, SetupLock, StopLock, ResumeLock, SetUp,
         StartRunner, SetupFailsQuietly, SetupFails, SetupDone, StopSteps, WatchersGone,
         SkipRunner, Shutdown, AwaitDone, PauseTimeout, Resume, ResumeRunner, ResumeFails,
         ResumeDone, WriteStatus, WriteFails, UpsertResources, Finish
  <2>3. ASSUME NEW w \in Watchers, Watch(w) PROVE FALSE
    BY <2>3 DEF Watch, WatcherTick, WatcherReturn, WatcherLock, RestartRunner, WatcherSkips,
       WatcherUnlock
  <2>4. ASSUME NEW x \in Runners, Component(x) PROVE FALSE
    BY <2>4 DEF Component, ComponentCancelled, ComponentFails, Publish, Consume
  <2>5. ~Process
    BY DEF Process, Crash, Exit, ProcessGone, Sigterm, Restart
  <2>6. ASSUME NEW c \in Clients, NEW op \in Ops, NEW p \in Pipelines, Receive(c, op, p)
        PROVE  FALSE
    BY <2>6 DEF Receive
  <2> QED BY <2>1, <2>2, <2>3, <2>4, <2>5, <2>6 DEF Next
<1>2. req[c].pc = "pause" /\ req[c].k = N + 1
  BY <1>1 DEF Terminate
<1>3. \A x \in Runners : Paused(c, x)
  BY <1>2, NType DEF Paused, Runners
<1>4. pend[id] \subseteq Runners /\ \A x \in Runners : x \notin pend[id]
  BY <1>3 DEF DrainInv, RunInv, PendInv, StopInv, TypeOK
<1> QED BY <1>4

\* A graceful stop loses nothing, for any number of clients, as long as the requests for one
\* pipeline come one after the other and no clean-up of a failed set-up comes between
\* EditPipeline's look at d.id and its SetupPipeline.
THEOREM StopDrains ==
    Spec /\ []OneRequestPerPipeline /\ []NoCleanupDuringEdit => DrainedStop
<1>1. StopInv /\ DrainInv /\ [Next]_vars => [StopLosesNothing]_vars
  BY DrainedStep
<1>2. DrainedStop <=> [][StopLosesNothing]_vars
  BY DEF DrainedStop, StopLosesNothing
<1> QED BY <1>1, <1>2, DrainInvariant, StopInvariant, PTL DEF Spec

\* With one client, as in the run local_lifecycle, the requests come one after the other.
LEMMA OneClient ==
    ASSUME NEW cl, Clients = {cl}
    PROVE  Spec => []OneRequestPerPipeline
<1>1. OneRequestPerPipeline
  BY DEF OneRequestPerPipeline
<1> QED BY <1>1, PTL

\* With one client nothing more is needed for the status to agree with the active pipeline
\* and to follow the matrix; for a stop to drain, that no clean-up comes in between.
THEOREM OneClientIsSafe ==
    ASSUME NEW cl, Clients = {cl}
    PROVE  /\ Spec => []StoppedIsInactive
           /\ Spec => StatusFollowsMatrix
           /\ Spec /\ []NoCleanupDuringEdit => DrainedStop
<1>1. Spec => []OneRequestPerPipeline
  BY OneClient
<1> QED BY <1>1, StoppedPipelineIsInactive, StatusesFollowMatrix, StopDrains, PTL
=============================================================================
