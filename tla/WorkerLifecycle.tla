--------------------------- MODULE WorkerLifecycle ---------------------------
(***************************************************************************)
(* Dispatch of worker subprocesses and their supervision.                  *)
(*                                                                         *)
(* Three kinds of actors write the attempts, workers, work_item_runs and   *)
(* workflow_instances tables, each statement or small group of statements  *)
(* in a transaction of its own:                                            *)
(*   - the leader: the one runtime thread that runs WorkerSupervisor       *)
(*     .reconcile and .start_queued in each cycle (RuntimeLease models how *)
(*     there comes to be one);                                             *)
(*   - one worker process per spawn, which runs Orchestrator.run_attempt;  *)
(*   - the dashboard request thread that retries a failed workflow action. *)
(* Every action below is one transaction (or one process event) of one of  *)
(* them, so every interleaving of their transactions is a behaviour.  A    *)
(* local variable that its code no longer reads gets its initial value     *)
(* back.                                                                   *)
(***************************************************************************)
EXTENDS Naturals, FiniteSets

CONSTANTS
    Attempt,          \* attempt ids
    Repo,             \* repositories
    RepoOf,           \* the repository of each attempt
    MaxGlobal,        \* workers.max_global
    MaxPerRepo,       \* workers.max_per_repo
    RetryLimit,       \* workers.retry_limit
    ManualRetryable,  \* attempts whose failed action the dashboard offers to retry
    CrashWindows,     \* steps between which the leader or a worker may die
    MaxCrashes,       \* bound on leader crashes in a behaviour
    NoWorker          \* the empty worker_id / the NULL pid

(***************************************************************************)
(* A worker id is made from the attempt and a fresh suffix, and requeueing *)
(* empties attempts.worker_id, so each start of an attempt has an id of    *)
(* its own: it is named by the attempt and the retry count it started at.  *)
(***************************************************************************)
Worker == Attempt \X (0..RetryLimit)

Settled == {"review", "done", "failed"}
AttemptStatus == {"none", "queued", "running"} \cup Settled
InstanceStatus == {"none", "active", "done", "failed"}

\* "overdue": status running, and the time is past deadline_at.
RowStatus == {"none", "running", "overdue", "closed"}

\* A process that has recorded its attempt as s, but not yet the run, is at s.
LivePc == {"spawned", "begun", "working", "failing"} \cup Settled
ProcessPc == {"none", "exited"} \cup LivePc

\* A request thread is done, at one of its steps, or its server died before it
\* had settled the attempt ("lost").
ManualPc == {"none", "startRun", "working", "failing", "lost"} \cup Settled
LeaderPc == {"idle", "reconcile", "mark", "requeue", "requeueRun", "finish",
             "finishRun", "failInstance", "start", "startRun", "spawn",
             "recordPid", "spawnFailed", "spawnFailedRun"}

ASSUME LimitsAssumption ==
    /\ MaxGlobal \in Nat \ {0}
    /\ MaxPerRepo \in Nat \ {0}
    /\ RetryLimit \in Nat
    /\ MaxCrashes \in Nat
ASSUME AttemptAssumption ==
    /\ IsFiniteSet(Attempt)
    /\ RepoOf \in [Attempt -> Repo]
    /\ ManualRetryable \subseteq Attempt
    /\ NoWorker \notin Worker
ASSUME WindowAssumption == CrashWindows \subseteq LeaderPc \cup LivePc

VARIABLES
    \* the attempts table
    status, assigned, retryCount, queuedAt,
    \* work_item_runs.status and workflow_instances.status of the attempt
    run, instance,
    \* the workers table: status (with its deadline) and pid
    row, pid,
    \* worker processes: program counter, and the worker id each runs under
    process, runsAs,
    \* the dashboard's retry of a failed action, per attempt
    manual,
    \* the leader: program counter, rows read by running_workers, the worker in
    \* hand, should_retry, the local counts and the queued attempts of
    \* start_queued, the in-memory dictionary of child processes
    leader, snapshot, current, shouldRetry, total, perRepo, pending, tracked,
    \* the wall clock of queued_at, and the number of leader crashes so far
    clock, crashes

attemptVars == <<status, assigned, retryCount, queuedAt, clock>>
workerVars == <<row, pid>>
processVars == <<process, runsAs>>
cycleVars == <<snapshot, current, shouldRetry, total, perRepo, pending>>
leaderVars == <<leader, cycleVars, tracked, crashes>>
vars == <<attemptVars, run, instance, workerVars, processVars, manual, leaderVars>>

AttemptOf(w) == w[1]
Alive(w) == process[w] \in LivePc
RowRunning(w) == row[w] \in {"running", "overdue"}
Queued == {a \in Attempt : status[a] = "queued"}
Running == {a \in Attempt : status[a] = "running"}
RunningIn(r) == {a \in Running : RepoOf[a] = r}

Init ==
    /\ status = [a \in Attempt |-> "none"]
    /\ assigned = [a \in Attempt |-> NoWorker]
    /\ retryCount = [a \in Attempt |-> 0]
    /\ queuedAt = [a \in Attempt |-> 0]
    /\ clock = 0
    /\ run = [a \in Attempt |-> "none"]
    /\ instance = [a \in Attempt |-> "none"]
    /\ row = [w \in Worker |-> "none"]
    /\ pid = [w \in Worker |-> NoWorker]
    /\ process = [w \in Worker |-> "none"]
    /\ runsAs = [w \in Worker |-> w]
    /\ manual = [a \in Attempt |-> "none"]
    /\ leader = "idle"
    /\ snapshot = {}
    /\ current = NoWorker
    /\ shouldRetry = FALSE
    /\ total = 0
    /\ perRepo = [r \in Repo |-> 0]
    /\ pending = {}
    /\ tracked = {}
    /\ crashes = 0

-----------------------------------------------------------------------------
(***************************************************************************)
(* Store transactions several actors use.                                  *)
(***************************************************************************)

(* create_attempt(status = "queued") with its run and workflow instance. *)
Enqueue(a) ==
    /\ status[a] = "none"
    /\ status' = [status EXCEPT ![a] = "queued"]
    /\ run' = [run EXCEPT ![a] = "queued"]
    /\ instance' = [instance EXCEPT ![a] = "active"]
    /\ queuedAt' = [queuedAt EXCEPT ![a] = clock]
    /\ clock' = clock + 1
    /\ UNCHANGED <<assigned, retryCount, workerVars, processVars, manual, leaderVars>>

(* Store.start_attempt: no condition on the status the attempt has; the row *)
(* is inserted or refreshed, and its pid is kept when none is given.        *)
StartAttempt(a, w, p) ==
    /\ status' = [status EXCEPT ![a] = "running"]
    /\ assigned' = [assigned EXCEPT ![a] = w]
    /\ row' = [row EXCEPT ![w] = "running"]
    /\ pid' = [pid EXCEPT ![w] = IF p = NoWorker THEN @ ELSE p]
    /\ UNCHANGED <<retryCount, queuedAt, clock>>

(* Store.finish_attempt: no condition on the status either; it closes every *)
(* running worker row of the attempt.                                       *)
FinishAttempt(a, s) ==
    /\ status' = [status EXCEPT ![a] = s]
    /\ row' = [w \in Worker |->
                 IF AttemptOf(w) = a /\ RowRunning(w) THEN "closed" ELSE row[w]]
    /\ UNCHANGED <<assigned, retryCount, queuedAt, clock, pid>>

\* Mutant: the status column is left out of the UPDATE.
RequeueAttemptKeepsStatus(a) ==
    /\ status' = status
    /\ assigned' = [assigned EXCEPT ![a] = NoWorker]
    /\ retryCount' = [retryCount EXCEPT ![a] = @ + 1]
    /\ queuedAt' = [queuedAt EXCEPT ![a] = clock]
    /\ clock' = clock + 1

(* Store.requeue_attempt_for_retry *)
RequeueAttempt(a) ==
    /\ status' = [status EXCEPT ![a] = "queued"]
    /\ assigned' = [assigned EXCEPT ![a] = NoWorker]
    /\ retryCount' = [retryCount EXCEPT ![a] = @ + 1]
    /\ queuedAt' = [queuedAt EXCEPT ![a] = clock]
    /\ clock' = clock + 1

-----------------------------------------------------------------------------
(***************************************************************************)
(* Leader: WorkerSupervisor.reconcile.                                     *)
(***************************************************************************)

\* Mutant: only workers whose pid is known are looked at.
WatchedWithPid ==
    {w \in Worker : RowRunning(w) /\ status[AttemptOf(w)] = "running" /\ pid[w] # NoWorker}

(* The rows running_workers returns. *)
WatchedWorkers == {w \in Worker : RowRunning(w) /\ status[AttemptOf(w)] = "running"}

(* The rows are read once, with the values they had.  A row is late if it  *)
(* is past its deadline, or if its heartbeat is: how regularly the         *)
(* heartbeat thread gets to write is left open.                            *)
BeginReconcile ==
    /\ leader = "idle"
    /\ leader' = "reconcile"
    /\ \E stale \in SUBSET WatchedWorkers :
         snapshot' = {[worker |-> w, pid |-> pid[w],
                       late |-> w \in stale \/ row[w] = "overdue"] : w \in WatchedWorkers}
    /\ UNCHANGED <<attemptVars, run, instance, workerVars, processVars, manual,
                   current, shouldRetry, total, perRepo, pending, tracked, crashes>>

(* A tracked child has exited, whatever its exit code, or the pid of a     *)
(* worker another leader spawned is gone.                                  *)
Gone(s) ==
    \/ s.worker \in tracked /\ process[s.worker] = "exited"
    \/ /\ s.worker \notin tracked
       /\ s.pid # NoWorker
       /\ process[s.pid] = "exited"

\* Mutant: off by one in the retry budget.
FailAndRetryOnceMore(s) ==
    /\ snapshot' = snapshot \ {s}
    /\ current' = s.worker
    /\ shouldRetry' = (retryCount[AttemptOf(s.worker)] <= RetryLimit)
    /\ tracked' = tracked \ {s.worker}
    /\ leader' = "mark"
    /\ UNCHANGED <<total, perRepo, pending, crashes>>

(* _fail_and_retry begins: the retry budget is read. *)
FailAndRetry(s) ==
    /\ snapshot' = snapshot \ {s}
    /\ current' = s.worker
    /\ shouldRetry' = (retryCount[AttemptOf(s.worker)] < RetryLimit)
    /\ tracked' = tracked \ {s.worker}
    /\ leader' = "mark"
    /\ UNCHANGED <<total, perRepo, pending, crashes>>

JudgeCrashed(s) ==
    /\ leader = "reconcile"
    /\ Gone(s)
    /\ FailAndRetry(s)
    /\ UNCHANGED <<attemptVars, run, instance, workerVars, processVars, manual>>

\* Mutant: no fallback to the pid for a worker of an earlier leader.
VictimTracked(s) == IF s.worker \in tracked THEN s.worker ELSE NoWorker

(* What _terminate kills: the tracked child, else the pid of the row read. *)
Victim(s) == IF s.worker \in tracked THEN s.worker ELSE s.pid

JudgeTimedOut(s) ==
    /\ leader = "reconcile"
    /\ ~Gone(s)
    /\ s.late
    /\ process' = [w \in Worker |->
                     IF w = Victim(s) /\ Alive(w) THEN "exited" ELSE process[w]]
    /\ FailAndRetry(s)
    /\ UNCHANGED <<attemptVars, run, instance, workerVars, runsAs, manual>>

LeaveRunning(s) ==
    /\ leader = "reconcile"
    /\ ~Gone(s)
    /\ ~s.late
    /\ snapshot' = snapshot \ {s}
    /\ UNCHANGED <<attemptVars, run, instance, workerVars, processVars, manual, leader,
                   current, shouldRetry, total, perRepo, pending, tracked, crashes>>

MarkWorkerExited ==
    /\ leader = "mark"
    /\ row' = [row EXCEPT ![current] = "closed"]
    /\ leader' = IF shouldRetry THEN "requeue" ELSE "finish"
    /\ UNCHANGED <<attemptVars, run, instance, pid, processVars, manual, cycleVars,
                   tracked, crashes>>

Requeue ==
    /\ leader = "requeue"
    /\ RequeueAttempt(AttemptOf(current))
    /\ leader' = "requeueRun"
    /\ UNCHANGED <<run, instance, workerVars, processVars, manual, cycleVars, tracked,
                   crashes>>

(* The leader has dealt with the worker in hand. *)
Resume(pc) ==
    /\ leader' = pc
    /\ current' = NoWorker
    /\ shouldRetry' = FALSE
    /\ UNCHANGED <<snapshot, pending, crashes>>

RequeueRun ==
    /\ leader = "requeueRun"
    /\ run' = [run EXCEPT ![AttemptOf(current)] = "queued"]
    /\ Resume("reconcile")
    /\ UNCHANGED <<attemptVars, instance, workerVars, processVars, manual, total,
                   perRepo, tracked>>

(* The budget is used up, or (spawnFailed) the process could not be made. *)
FinishFailed ==
    /\ leader \in {"finish", "spawnFailed"}
    /\ FinishAttempt(AttemptOf(current), "failed")
    /\ leader' = IF leader = "finish" THEN "finishRun" ELSE "spawnFailedRun"
    /\ UNCHANGED <<run, instance, processVars, manual, cycleVars, tracked, crashes>>

FinishFailedRun ==
    /\ leader \in {"finishRun", "spawnFailedRun"}
    /\ run' = [run EXCEPT ![AttemptOf(current)] = "failed"]
    /\ \/ /\ leader = "finishRun"
          /\ leader' = "failInstance"
          /\ UNCHANGED <<snapshot, current, shouldRetry, pending, crashes>>
       \/ /\ leader = "spawnFailedRun"
          /\ Resume("start")
    /\ UNCHANGED <<attemptVars, instance, workerVars, processVars, manual, total,
                   perRepo, tracked>>

FailInstance ==
    /\ leader = "failInstance"
    /\ instance' = [instance EXCEPT ![AttemptOf(current)] =
                      IF @ = "active" THEN "failed" ELSE @]
    /\ Resume("reconcile")
    /\ UNCHANGED <<attemptVars, run, workerVars, processVars, manual, total, perRepo,
                   tracked>>

-----------------------------------------------------------------------------
(***************************************************************************)
(* Leader: WorkerSupervisor.start_queued.                                  *)
(***************************************************************************)

(* ORDER BY queued_at, id LIMIT max_global *)
OldestQueued ==
    {a \in Queued : Cardinality({b \in Queued : queuedAt[b] < queuedAt[a]}) < MaxGlobal}

\* Mutant: the children this leader spawned are counted, not the attempts.
BeginStartCountsChildren ==
    /\ leader = "reconcile"
    /\ snapshot = {}
    /\ total' = Cardinality(tracked)
    /\ perRepo' = [r \in Repo |-> Cardinality({w \in tracked : RepoOf[AttemptOf(w)] = r})]
    /\ pending' = OldestQueued
    /\ leader' = "start"
    /\ UNCHANGED <<attemptVars, run, instance, workerVars, processVars, manual,
                   snapshot, current, shouldRetry, tracked, crashes>>

BeginStart ==
    /\ leader = "reconcile"
    /\ snapshot = {}
    /\ total' = Cardinality(Running)
    /\ perRepo' = [r \in Repo |-> Cardinality(RunningIn(r))]
    /\ pending' = OldestQueued
    /\ leader' = "start"
    /\ UNCHANGED <<attemptVars, run, instance, workerVars, processVars, manual,
                   snapshot, current, shouldRetry, tracked, crashes>>

NextPending(a) == a \in pending /\ \A b \in pending : queuedAt[a] <= queuedAt[b]

(* The global limit ends the loop; so does the end of the list. *)
EndStart ==
    /\ leader = "start"
    /\ pending = {} \/ total >= MaxGlobal
    /\ pending' = {}
    /\ total' = 0
    /\ perRepo' = [r \in Repo |-> 0]
    /\ leader' = "idle"
    /\ UNCHANGED <<attemptVars, run, instance, workerVars, processVars, manual,
                   snapshot, current, shouldRetry, tracked, crashes>>

(* The repository's limit skips the attempt until the next cycle. *)
SkipRepo(a) ==
    /\ leader = "start"
    /\ NextPending(a)
    /\ total < MaxGlobal
    /\ perRepo[RepoOf[a]] >= MaxPerRepo
    /\ pending' = pending \ {a}
    /\ UNCHANGED <<attemptVars, run, instance, workerVars, processVars, manual, leader,
                   snapshot, current, shouldRetry, total, perRepo, tracked, crashes>>

StartQueued(a) ==
    /\ leader = "start"
    /\ NextPending(a)
    /\ total < MaxGlobal
    /\ perRepo[RepoOf[a]] < MaxPerRepo
    /\ current' = <<a, retryCount[a]>>
    /\ StartAttempt(a, <<a, retryCount[a]>>, NoWorker)
    /\ pending' = pending \ {a}
    /\ leader' = "startRun"
    /\ UNCHANGED <<run, instance, processVars, manual, snapshot, shouldRetry, total,
                   perRepo, tracked, crashes>>

StartRun ==
    /\ leader = "startRun"
    /\ run' = [run EXCEPT ![AttemptOf(current)] = "running"]
    /\ leader' = "spawn"
    /\ UNCHANGED <<attemptVars, instance, workerVars, processVars, manual, cycleVars,
                   tracked, crashes>>

Spawn ==
    /\ leader = "spawn"
    /\ process' = [process EXCEPT ![current] = "spawned"]
    /\ leader' = "recordPid"
    /\ UNCHANGED <<attemptVars, run, instance, workerVars, runsAs, manual, cycleVars,
                   tracked, crashes>>

SpawnFails ==
    /\ leader = "spawn"
    /\ leader' = "spawnFailed"
    /\ UNCHANGED <<attemptVars, run, instance, workerVars, processVars, manual,
                   cycleVars, tracked, crashes>>

RecordPid ==
    /\ leader = "recordPid"
    /\ pid' = [pid EXCEPT ![current] = current]
    /\ tracked' = tracked \cup {current}
    /\ total' = total + 1
    /\ perRepo' = [perRepo EXCEPT ![RepoOf[AttemptOf(current)]] = @ + 1]
    /\ Resume("start")
    /\ UNCHANGED <<attemptVars, run, instance, row, processVars, manual>>

-----------------------------------------------------------------------------
(***************************************************************************)
(* The serving process stops or dies.  Its children survive its death.     *)
(***************************************************************************)

(* terminate_tracked on stop(); the cycle may still be running, for stop() *)
(* waits five seconds for it and no longer.  To the worker it is a crash.  *)
TerminateTracked ==
    /\ tracked # {}
    /\ \A w \in tracked : Alive(w) => process[w] \in CrashWindows
    /\ process' = [w \in Worker |->
                     IF w \in tracked /\ Alive(w) THEN "exited" ELSE process[w]]
    /\ tracked' = {}
    /\ UNCHANGED <<attemptVars, run, instance, workerVars, runsAs, manual, leader,
                   cycleVars, crashes>>

(* The dashboard and the runtime are one process: every request thread     *)
(* dies with the leader, at whatever step it is.  A retry that had not     *)
(* settled its attempt leaves it running without a worker row, one that    *)
(* had leaves the run as it was.                                           *)
CrashLeader ==
    /\ crashes < MaxCrashes
    /\ leader \in CrashWindows
    /\ crashes' = crashes + 1
    /\ manual' = [a \in Attempt |->
                    IF manual[a] \in {"none"} \cup Settled THEN "none" ELSE "lost"]
    /\ leader' = "idle"
    /\ snapshot' = {}
    /\ current' = NoWorker
    /\ shouldRetry' = FALSE
    /\ total' = 0
    /\ perRepo' = [r \in Repo |-> 0]
    /\ pending' = {}
    /\ tracked' = {}
    /\ UNCHANGED <<attemptVars, run, instance, workerVars, processVars>>

-----------------------------------------------------------------------------
(***************************************************************************)
(* Worker process: Orchestrator.run_attempt.                               *)
(***************************************************************************)

(* The id is the one the attempt holds now; an attempt that holds none gets *)
(* a new id, for which the process's own (closed) row stands.               *)
BeginAttempt(w) ==
    LET a == AttemptOf(w)
        id == IF assigned[a] = NoWorker THEN w ELSE assigned[a]
    IN
    /\ process[w] = "spawned"
    /\ StartAttempt(a, id, w)
    /\ runsAs' = [runsAs EXCEPT ![w] = id]
    /\ process' = [process EXCEPT ![w] = "begun"]
    /\ UNCHANGED <<run, instance, manual, leaderVars>>

BeginRun(w) ==
    /\ process[w] = "begun"
    /\ run' = [run EXCEPT ![AttemptOf(w)] = "running"]
    /\ process' = [process EXCEPT ![w] = "working"]
    /\ UNCHANGED <<attemptVars, instance, workerVars, runsAs, manual, leaderVars>>

(* The workflow transitions into a terminal state. *)
ReachTerminal(w) ==
    /\ process[w] = "working"
    /\ instance[AttemptOf(w)] = "active"
    /\ instance' = [instance EXCEPT ![AttemptOf(w)] = "done"]
    /\ UNCHANGED <<attemptVars, run, workerVars, processVars, manual, leaderVars>>

(* What _finish_attempt_from_workflow_result records: the terminal state   *)
(* the workflow is in, or review at a human gate.                          *)
ResultStatus(a) == IF instance[a] \in Settled THEN instance[a] ELSE "review"

FinishWork(w) ==
    LET a == AttemptOf(w) IN
    /\ process[w] = "working"
    /\ FinishAttempt(a, ResultStatus(a))
    /\ process' = [process EXCEPT ![w] = ResultStatus(a)]
    /\ UNCHANGED <<run, instance, runsAs, manual, leaderVars>>

(* The exception path, from anywhere in the work: the instance is failed   *)
(* first, then the attempt.                                                *)
FailWork(w) ==
    /\ process[w] = "working"
    /\ instance' = [instance EXCEPT ![AttemptOf(w)] = "failed"]
    /\ process' = [process EXCEPT ![w] = "failing"]
    /\ UNCHANGED <<attemptVars, run, workerVars, runsAs, manual, leaderVars>>

FailAttempt(w) ==
    /\ process[w] = "failing"
    /\ FinishAttempt(AttemptOf(w), "failed")
    /\ process' = [process EXCEPT ![w] = "failed"]
    /\ UNCHANGED <<run, instance, runsAs, manual, leaderVars>>

\* Mutant: the process exits with the attempt recorded and the run not.
FinishRunSkipped(w) ==
    /\ process[w] \in Settled
    /\ process' = [process EXCEPT ![w] = "exited"]
    /\ UNCHANGED <<attemptVars, run, instance, workerVars, runsAs, manual, leaderVars>>

(* finish_attempt_run, the last write; then the process exits. *)
FinishRun(w) ==
    /\ process[w] \in Settled
    /\ run' = [run EXCEPT ![AttemptOf(w)] = process[w]]
    /\ process' = [process EXCEPT ![w] = "exited"]
    /\ UNCHANGED <<attemptVars, instance, workerVars, runsAs, manual, leaderVars>>

CrashWorker(w) ==
    /\ Alive(w)
    /\ process[w] \in CrashWindows
    /\ process' = [process EXCEPT ![w] = "exited"]
    /\ UNCHANGED <<attemptVars, run, instance, workerVars, runsAs, manual, leaderVars>>

(* Time passes deadline_at. *)
PassDeadline(w) ==
    /\ row[w] = "running"
    /\ row' = [row EXCEPT ![w] = "overdue"]
    /\ UNCHANGED <<attemptVars, run, instance, pid, processVars, manual, leaderVars>>

-----------------------------------------------------------------------------
(***************************************************************************)
(* Dashboard: Orchestrator.retry_failed_workflow_action, in a request      *)
(* thread of the serving process.  It makes no worker row.                 *)
(***************************************************************************)

ManualRetry(a) ==
    /\ a \in ManualRetryable
    /\ manual[a] = "none"
    /\ status[a] = "failed"
    /\ instance[a] = "failed"
    /\ status' = [status EXCEPT ![a] = "running"]
    /\ instance' = [instance EXCEPT ![a] = "active"]
    /\ manual' = [manual EXCEPT ![a] = "startRun"]
    /\ UNCHANGED <<assigned, retryCount, queuedAt, clock, run, workerVars, processVars,
                   leaderVars>>

ManualStartRun(a) ==
    /\ manual[a] = "startRun"
    /\ run' = [run EXCEPT ![a] = "running"]
    /\ manual' = [manual EXCEPT ![a] = "working"]
    /\ UNCHANGED <<attemptVars, instance, workerVars, processVars, leaderVars>>

ManualReachTerminal(a) ==
    /\ manual[a] = "working"
    /\ instance[a] = "active"
    /\ instance' = [instance EXCEPT ![a] = "done"]
    /\ UNCHANGED <<attemptVars, run, workerVars, processVars, manual, leaderVars>>

(* The action succeeded and the workflow is at a gate or at its end. *)
ManualFinish(a) ==
    /\ manual[a] = "working"
    /\ FinishAttempt(a, ResultStatus(a))
    /\ manual' = [manual EXCEPT ![a] = ResultStatus(a)]
    /\ UNCHANGED <<run, instance, processVars, leaderVars>>

ManualFailInstance(a) ==
    /\ manual[a] = "working"
    /\ instance' = [instance EXCEPT ![a] = "failed"]
    /\ manual' = [manual EXCEPT ![a] = "failing"]
    /\ UNCHANGED <<attemptVars, run, workerVars, processVars, leaderVars>>

\* Mutant: a failed manual retry leaves its attempt running.
ManualFailInstanceOnly(a) ==
    /\ manual[a] = "failing"
    /\ manual' = [manual EXCEPT ![a] = "failed"]
    /\ UNCHANGED <<attemptVars, run, instance, workerVars, processVars, leaderVars>>

ManualFail(a) ==
    /\ manual[a] = "failing"
    /\ FinishAttempt(a, "failed")
    /\ manual' = [manual EXCEPT ![a] = "failed"]
    /\ UNCHANGED <<run, instance, processVars, leaderVars>>

ManualFinishRun(a) ==
    /\ manual[a] \in Settled
    /\ run' = [run EXCEPT ![a] = manual[a]]
    /\ manual' = [manual EXCEPT ![a] = "none"]
    /\ UNCHANGED <<attemptVars, instance, workerVars, processVars, leaderVars>>

-----------------------------------------------------------------------------
ReconcileStep ==
    \/ BeginReconcile
    \/ \E s \in snapshot : JudgeCrashed(s) \/ JudgeTimedOut(s) \/ LeaveRunning(s)
    \/ MarkWorkerExited \/ Requeue \/ RequeueRun
    \/ FinishFailed \/ FinishFailedRun \/ FailInstance

StartStep ==
    \/ BeginStart \/ EndStart
    \/ \E a \in Attempt : SkipRepo(a) \/ StartQueued(a)
    \/ StartRun \/ Spawn \/ SpawnFails \/ RecordPid

LeaderStep == ReconcileStep \/ StartStep

WorkerStep(w) ==
    \/ BeginAttempt(w) \/ BeginRun(w) \/ ReachTerminal(w)
    \/ FinishWork(w) \/ FailWork(w) \/ FailAttempt(w) \/ FinishRun(w)

ManualStep(a) ==
    \/ ManualStartRun(a) \/ ManualReachTerminal(a) \/ ManualFinish(a)
    \/ ManualFailInstance(a) \/ ManualFail(a) \/ ManualFinishRun(a)

Environment ==
    \/ \E a \in Attempt : Enqueue(a) \/ ManualRetry(a)
    \/ \E w \in Worker : CrashWorker(w) \/ PassDeadline(w)
    \/ TerminateTracked \/ CrashLeader

Next ==
    \/ LeaderStep
    \/ \E w \in Worker : WorkerStep(w)
    \/ \E a \in Attempt : ManualStep(a)
    \/ Environment

Spec == Init /\ [][Next]_vars

(***************************************************************************)
(* The runtime thread keeps cycling, and time keeps passing: a row that    *)
(* stays running passes its deadline (config.py refuses a max_runtime      *)
(* below one second, so every row has one).  A worker is not assumed to    *)
(* make progress: Codex may hang.                                          *)
(***************************************************************************)
Fairness ==
    /\ WF_vars(LeaderStep)
    /\ \A w \in Worker : WF_vars(PassDeadline(w))

FairSpec == Spec /\ Fairness

-----------------------------------------------------------------------------
(***************************************************************************)
(* Properties                                                              *)
(***************************************************************************)

SnapshotRow == [worker : Worker, pid : Worker \cup {NoWorker}, late : BOOLEAN]

TableTypes ==
    /\ status \in [Attempt -> AttemptStatus]
    /\ assigned \in [Attempt -> Worker \cup {NoWorker}]
    /\ retryCount \in [Attempt -> 0..RetryLimit]
    /\ queuedAt \in [Attempt -> Nat]
    /\ clock \in Nat
    /\ run \in [Attempt -> AttemptStatus]
    /\ instance \in [Attempt -> InstanceStatus]
    /\ row \in [Worker -> RowStatus]
    /\ pid \in [Worker -> Worker \cup {NoWorker}]

ProcessTypes ==
    /\ process \in [Worker -> ProcessPc]
    /\ runsAs \in [Worker -> Worker]
    /\ manual \in [Attempt -> ManualPc]

LeaderTypes ==
    /\ leader \in LeaderPc
    /\ snapshot \subseteq SnapshotRow
    /\ current \in Worker \cup {NoWorker}
    /\ shouldRetry \in BOOLEAN
    /\ total \in Nat
    /\ perRepo \in [Repo -> Nat]
    /\ pending \subseteq Attempt
    /\ tracked \subseteq Worker
    /\ crashes \in Nat

(* Every variable has its type; in particular no attempt is requeued more  *)
(* often than workers.retry_limit allows, across crashes of the leader.    *)
TypeOK == TableTypes /\ ProcessTypes /\ LeaderTypes

(* Two processes never work on one attempt, hence never in one worktree:   *)
(* not after a crash of either side, a timeout or a retry.                 *)
OneProcessPerAttempt ==
    \A v, w \in Worker :
        AttemptOf(v) = AttemptOf(w) /\ Alive(v) /\ Alive(w) => v = w

LeaderHandles(a) == current # NoWorker /\ AttemptOf(current) = a

(* A running attempt has a running worker row, which reconcile will look   *)
(* at, or somebody is about to change its status.  There is one way to be  *)
(* forgotten, and the code does nothing about it: the server dies in a     *)
(* retry by hand, which has no worker row for running_workers to return.   *)
RunningIsWatched ==
    \A a \in Running :
        \/ \E w \in Worker : AttemptOf(w) = a /\ RowRunning(w)
        \/ leader \in {"requeue", "finish"} /\ LeaderHandles(a)
        \/ manual[a] \in {"startRun", "working", "failing"}
        \/ manual[a] = "lost"

(* start_queued reads the running counts once and works with them while    *)
(* workers finish; the limits hold of the attempts that are running, as    *)
(* long as nobody retries an action by hand (which asks no limit).         *)
WithinCapacity ==
    ManualRetryable = {} =>
        /\ Cardinality(Running) <= MaxGlobal
        /\ \A r \in Repo : Cardinality(RunningIn(r)) <= MaxPerRepo

(* Attempt and work item run are written by separate transactions of two   *)
(* processes.  Once nobody is at work on a settled attempt they agree.     *)
SettledRunIsClosed ==
    \A a \in Attempt :
        \/ status[a] \notin Settled
        \/ \E w \in Worker : AttemptOf(w) = a /\ Alive(w)
        \/ LeaderHandles(a)
        \/ manual[a] # "none"
        \/ run[a] = status[a]

(* Every queued attempt is settled in the end: neither a hung worker, nor  *)
(* a crash at a step where the code can recover, nor the retries, nor the  *)
(* limits, nor the LIMIT on the queue keep it waiting or running forever.  *)
EveryAttemptSettles ==
    \A a \in Attempt : status[a] = "queued" ~> status[a] \in Settled

-----------------------------------------------------------------------------
(***************************************************************************)
(* The inductive invariant of WorkerLifecycleProofs, in named parts.       *)
(***************************************************************************)

NoProcess(a) == \A w \in Worker : AttemptOf(w) = a => ~Alive(w)
NoRowBut(a, u) == \A w \in Worker : AttemptOf(w) = a /\ RowRunning(w) => w = u

Judging == {"mark", "requeue", "requeueRun", "finish", "finishRun", "failInstance"}
Between == {"idle", "reconcile", "start"}

(* The leader has a worker in hand between the loops' tests, and judges    *)
(* only in reconcile; a retry it decided on is within the budget.          *)
LeaderLocals ==
    /\ leader \notin Between => current \in Worker
    /\ leader \notin Judging \cup {"reconcile"} => snapshot = {}
    /\ leader = "requeue" \/ (leader = "mark" /\ shouldRetry)
         => retryCount[AttemptOf(current)] < RetryLimit

(* An attempt has at most one running row, and a process has no other. *)
SoleRow == \A v, w \in Worker :
    AttemptOf(v) = AttemptOf(w) /\ RowRunning(v) /\ (RowRunning(w) \/ Alive(w)) => v = w

(* Nothing of an attempt that is queued, or about to be started, is left. *)
QueuedIsIdle == \A a \in Attempt :
    status[a] \in {"none", "queued"} \/ a \in pending
        => NoProcess(a) /\ NoRowBut(a, NoWorker)

(* What reconcile read of a row still tells it which process to kill. *)
SnapshotIsGood == \A s \in snapshot :
    /\ NoRowBut(AttemptOf(s.worker), s.worker)
    /\ \A w \in Worker : AttemptOf(w) = AttemptOf(s.worker) /\ Alive(w)
         => w = s.worker /\ s.pid = w

(* Whoever is judged has no process left, and after "mark" no row. *)
JudgedIsGone ==
    /\ leader \in {"mark", "requeue"} => NoProcess(AttemptOf(current))
    /\ leader = "mark" => NoRowBut(AttemptOf(current), current)
    /\ leader = "requeue" => NoRowBut(AttemptOf(current), NoWorker)

(* Whoever is about to be spawned is the only one of its attempt. *)
StartedIsAlone == leader \in {"startRun", "spawn"} =>
    /\ NoProcess(AttemptOf(current))
    /\ NoRowBut(AttemptOf(current), current)
    /\ assigned[AttemptOf(current)] = current
    /\ status[AttemptOf(current)] \notin {"none", "queued"}
    /\ AttemptOf(current) \notin pending

(* The pid of a process is known, unless the leader is about to write it,  *)
(* and a new process finds its own id in the attempt.                      *)
ProcessIsKnown == \A w \in Worker :
    /\ Alive(w) => pid[w] = w \/ (leader = "recordPid" /\ current = w)
    /\ process[w] = "spawned" => assigned[AttemptOf(w)] = w

IndInv ==
    /\ TypeOK
    /\ LeaderLocals
    /\ OneProcessPerAttempt
    /\ SoleRow
    /\ QueuedIsIdle
    /\ SnapshotIsGood
    /\ JudgedIsGone
    /\ StartedIsAlone
    /\ ProcessIsKnown
=============================================================================
