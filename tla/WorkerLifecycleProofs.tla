------------------------ MODULE WorkerLifecycleProofs ------------------------
(***************************************************************************)
(* Proofs about WorkerLifecycle: its types, that two processes never work  *)
(* on one attempt and no running attempt is forgotten, that the limits on  *)
(* running attempts are kept, and that a settled attempt's run is closed;  *)
(* each with the steps at which the leader or a worker must not die for it.*)
(***************************************************************************)
EXTENDS WorkerLifecycle, FiniteSetTheorems, TLAPS

(***************************************************************************)
(* Workers                                                                 *)
(***************************************************************************)

(* A worker id belongs to an attempt, and NoWorker is none. *)
LEMMA WorkerFacts ==
    /\ NoWorker \notin Worker
    /\ \A w \in Worker : AttemptOf(w) \in Attempt
    /\ \A a \in Attempt, k \in 0..RetryLimit :
         <<a, k>> \in Worker /\ AttemptOf(<<a, k>>) = a
BY AttemptAssumption DEF Worker, AttemptOf

(* The counts start_queued reads are numbers. *)
LEMMA Counts ==
    ASSUME NEW S \in SUBSET Attempt
    PROVE Cardinality(S) \in Nat
BY AttemptAssumption, FS_Subset, FS_CardinalityType


(***************************************************************************)
(* Types                                                                   *)
(***************************************************************************)

(* The initial state is of the right types. *)
LEMMA InitTypes == Init => TypeOK
<1> SUFFICES ASSUME Init PROVE TypeOK
  OBVIOUS
<1>1. TableTypes
  BY WorkerFacts, LimitsAssumption DEF Init, TableTypes, AttemptStatus,
      InstanceStatus, RowStatus
<1>2. ProcessTypes
  BY DEF Init, ProcessTypes, ProcessPc, ManualPc
<1>3. LeaderTypes
  BY DEF Init, LeaderTypes, LeaderPc, SnapshotRow
<1> QED BY <1>1, <1>2, <1>3 DEF TypeOK


(* Every step keeps them; the retry budget is what bounds retryCount. *)
LEMMA NextTypes == TypeOK /\ LeaderLocals /\ [Next]_vars => TypeOK'
<1> SUFFICES ASSUME TypeOK, LeaderLocals, [Next]_vars PROVE TypeOK'
  OBVIOUS
<1> USE WorkerFacts, LimitsAssumption, AttemptAssumption
<1> USE DEF TypeOK, TableTypes, ProcessTypes, LeaderTypes, AttemptStatus,
    InstanceStatus, RowStatus, ProcessPc, LivePc, ManualPc, LeaderPc, Settled,
    SnapshotRow, attemptVars, workerVars, processVars, cycleVars, leaderVars
<1>1. ASSUME BeginReconcile PROVE TypeOK'
  <2>1. PICK stale \in SUBSET WatchedWorkers :
          snapshot' = {[worker |-> w, pid |-> pid[w],
                        late |-> w \in stale \/ row[w] = "overdue"] : w \in
                            WatchedWorkers}
    BY <1>1 DEF BeginReconcile
  <2>2. \A w \in WatchedWorkers : w \in Worker
    BY DEF WatchedWorkers
  <2>3. \A w \in WatchedWorkers :
          [worker |-> w, pid |-> pid[w],
           late |-> w \in stale \/ row[w] = "overdue"] \in SnapshotRow
    BY <2>2
  <2>4. snapshot' \subseteq SnapshotRow
    <3> HIDE DEF SnapshotRow
    <3> QED BY ONLY <2>1, <2>3, Zenon
  <2> QED BY <1>1, <2>4 DEF BeginReconcile
<1>2. ASSUME NEW s \in snapshot, JudgeCrashed(s) PROVE TypeOK'
  BY <1>2 DEF JudgeCrashed, FailAndRetry
<1>3. ASSUME NEW s \in snapshot, JudgeTimedOut(s) PROVE TypeOK'
  BY <1>3 DEF JudgeTimedOut, FailAndRetry, Alive
<1>4. ASSUME NEW s \in snapshot, LeaveRunning(s) PROVE TypeOK'
  BY <1>4 DEF LeaveRunning
<1>5. ASSUME MarkWorkerExited PROVE TypeOK'
  BY <1>5 DEF MarkWorkerExited
<1>6. ASSUME Requeue PROVE TypeOK'
  <2>1. current \in Worker /\ retryCount[AttemptOf(current)] < RetryLimit
    BY <1>6 DEF Requeue, LeaderLocals, Between
  <2>2. retryCount' \in [Attempt -> 0..RetryLimit]
    BY <1>6, <2>1 DEF Requeue, RequeueAttempt
  <2> QED BY <1>6, <2>2 DEF Requeue, RequeueAttempt
<1>7. ASSUME RequeueRun PROVE TypeOK'
  BY <1>7 DEF RequeueRun, Resume
<1>8. ASSUME FinishFailed PROVE TypeOK'
  BY <1>8 DEF FinishFailed, FinishAttempt
<1>9. ASSUME FinishFailedRun PROVE TypeOK'
  BY <1>9 DEF FinishFailedRun, Resume
<1>10. ASSUME FailInstance PROVE TypeOK'
  BY <1>10 DEF FailInstance, Resume
<1>11. ASSUME BeginStart PROVE TypeOK'
  <2>1. total' \in Nat /\ perRepo' \in [Repo -> Nat]
    BY <1>11, Counts DEF BeginStart, Running, RunningIn
  <2> QED BY <1>11, <2>1 DEF BeginStart, OldestQueued, Queued
<1>12. ASSUME EndStart PROVE TypeOK'
  BY <1>12 DEF EndStart
<1>13. ASSUME NEW a \in Attempt, SkipRepo(a) PROVE TypeOK'
  BY <1>13 DEF SkipRepo
<1>14. ASSUME NEW a \in Attempt, StartQueued(a) PROVE TypeOK'
  BY <1>14 DEF StartQueued, StartAttempt
<1>15. ASSUME StartRun PROVE TypeOK'
  BY <1>15 DEF StartRun
<1>16. ASSUME Spawn PROVE TypeOK'
  BY <1>16 DEF Spawn
<1>17. ASSUME SpawnFails PROVE TypeOK'
  BY <1>17 DEF SpawnFails
<1>18. ASSUME RecordPid PROVE TypeOK'
  <2>1. current \in Worker
    BY <1>18 DEF RecordPid, LeaderLocals, Between
  <2>2. total' \in Nat /\ perRepo' \in [Repo -> Nat] /\ tracked' \subseteq Worker
    BY <1>18, <2>1 DEF RecordPid
  <2> QED BY <1>18, <2>1, <2>2 DEF RecordPid, Resume
<1>19. ASSUME NEW w \in Worker, BeginAttempt(w) PROVE TypeOK'
  BY <1>19 DEF BeginAttempt, StartAttempt
<1>20. ASSUME NEW w \in Worker, BeginRun(w) PROVE TypeOK'
  BY <1>20 DEF BeginRun
<1>21. ASSUME NEW w \in Worker, ReachTerminal(w) PROVE TypeOK'
  BY <1>21 DEF ReachTerminal
<1>22. ASSUME NEW w \in Worker, FinishWork(w) PROVE TypeOK'
  BY <1>22 DEF FinishWork, FinishAttempt, ResultStatus
<1>23. ASSUME NEW w \in Worker, FailWork(w) PROVE TypeOK'
  BY <1>23 DEF FailWork
<1>24. ASSUME NEW w \in Worker, FailAttempt(w) PROVE TypeOK'
  BY <1>24 DEF FailAttempt, FinishAttempt
<1>25. ASSUME NEW w \in Worker, FinishRun(w) PROVE TypeOK'
  BY <1>25 DEF FinishRun
<1>26. ASSUME NEW a \in Attempt, ManualStartRun(a) PROVE TypeOK'
  BY <1>26 DEF ManualStartRun
<1>27. ASSUME NEW a \in Attempt, ManualReachTerminal(a) PROVE TypeOK'
  BY <1>27 DEF ManualReachTerminal
<1>28. ASSUME NEW a \in Attempt, ManualFinish(a) PROVE TypeOK'
  BY <1>28 DEF ManualFinish, FinishAttempt, ResultStatus
<1>29. ASSUME NEW a \in Attempt, ManualFailInstance(a) PROVE TypeOK'
  BY <1>29 DEF ManualFailInstance
<1>30. ASSUME NEW a \in Attempt, ManualFail(a) PROVE TypeOK'
  BY <1>30 DEF ManualFail, FinishAttempt
<1>31. ASSUME NEW a \in Attempt, ManualFinishRun(a) PROVE TypeOK'
  BY <1>31 DEF ManualFinishRun
<1>32. ASSUME NEW a \in Attempt, Enqueue(a) PROVE TypeOK'
  BY <1>32 DEF Enqueue
<1>33. ASSUME NEW a \in Attempt, ManualRetry(a) PROVE TypeOK'
  BY <1>33 DEF ManualRetry
<1>34. ASSUME NEW w \in Worker, CrashWorker(w) PROVE TypeOK'
  BY <1>34 DEF CrashWorker, Alive
<1>35. ASSUME NEW w \in Worker, PassDeadline(w) PROVE TypeOK'
  BY <1>35 DEF PassDeadline
<1>36. ASSUME TerminateTracked PROVE TypeOK'
  BY <1>36 DEF TerminateTracked, Alive
<1>37. ASSUME CrashLeader PROVE TypeOK'
  <2>1. crashes' \in Nat
    BY <1>37 DEF CrashLeader
  <2>2. leader' \in LeaderPc /\ perRepo' \in [Repo -> Nat]
    BY <1>37 DEF CrashLeader
  <2> QED BY <1>37, <2>1, <2>2 DEF CrashLeader
<1>38. CASE UNCHANGED vars
  BY <1>38 DEF vars
<1> QED
  BY <1>1, <1>2, <1>3, <1>4, <1>5, <1>6, <1>7, <1>8, <1>9, <1>10, <1>11, <1>12,
      <1>13, <1>14, <1>15, <1>16, <1>17, <1>18, <1>19, <1>20, <1>21, <1>22, <1>23,
      <1>24, <1>25, <1>26, <1>27, <1>28, <1>29, <1>30, <1>31, <1>32, <1>33, <1>34,
      <1>35, <1>36, <1>37, <1>38 DEF Next, LeaderStep, ReconcileStep, StartStep,
      WorkerStep, ManualStep, Environment

(* The leader's locals keep their meaning. *)
LEMMA NextLocals == TypeOK /\ LeaderLocals /\ [Next]_vars => LeaderLocals'
<1> SUFFICES ASSUME TypeOK, LeaderLocals, [Next]_vars PROVE LeaderLocals'
  OBVIOUS
<1> USE WorkerFacts
<1> USE DEF TypeOK, TableTypes, ProcessTypes, LeaderTypes, SnapshotRow,
    LeaderLocals, Between, Judging, attemptVars, workerVars, processVars, cycleVars,
    leaderVars
<1>1. ASSUME BeginReconcile PROVE LeaderLocals'
  BY <1>1 DEF BeginReconcile
<1>2. ASSUME NEW s \in snapshot, JudgeCrashed(s) PROVE LeaderLocals'
  BY <1>2 DEF JudgeCrashed, FailAndRetry
<1>3. ASSUME NEW s \in snapshot, JudgeTimedOut(s) PROVE LeaderLocals'
  BY <1>3 DEF JudgeTimedOut, FailAndRetry
<1>4. ASSUME NEW s \in snapshot, LeaveRunning(s) PROVE LeaderLocals'
  BY <1>4 DEF LeaveRunning
<1>5. ASSUME MarkWorkerExited PROVE LeaderLocals'
  BY <1>5 DEF MarkWorkerExited
<1>6. ASSUME Requeue PROVE LeaderLocals'
  BY <1>6 DEF Requeue, RequeueAttempt
<1>7. ASSUME RequeueRun PROVE LeaderLocals'
  BY <1>7 DEF RequeueRun, Resume
<1>8. ASSUME FinishFailed PROVE LeaderLocals'
  BY <1>8 DEF FinishFailed, FinishAttempt
<1>9. ASSUME FinishFailedRun PROVE LeaderLocals'
  BY <1>9 DEF FinishFailedRun, Resume
<1>10. ASSUME FailInstance PROVE LeaderLocals'
  BY <1>10 DEF FailInstance, Resume
<1>11. ASSUME BeginStart PROVE LeaderLocals'
  BY <1>11 DEF BeginStart
<1>12. ASSUME EndStart PROVE LeaderLocals'
  BY <1>12 DEF EndStart
<1>13. ASSUME NEW a \in Attempt, SkipRepo(a) PROVE LeaderLocals'
  BY <1>13 DEF SkipRepo
<1>14. ASSUME NEW a \in Attempt, StartQueued(a) PROVE LeaderLocals'
  BY <1>14 DEF StartQueued, StartAttempt
<1>15. ASSUME StartRun PROVE LeaderLocals'
  BY <1>15 DEF StartRun
<1>16. ASSUME Spawn PROVE LeaderLocals'
  BY <1>16 DEF Spawn
<1>17. ASSUME SpawnFails PROVE LeaderLocals'
  BY <1>17 DEF SpawnFails
<1>18. ASSUME RecordPid PROVE LeaderLocals'
  BY <1>18 DEF RecordPid, Resume
<1>19. ASSUME NEW w \in Worker, BeginAttempt(w) PROVE LeaderLocals'
  BY <1>19 DEF BeginAttempt, StartAttempt
<1>20. ASSUME NEW w \in Worker, BeginRun(w) PROVE LeaderLocals'
  BY <1>20 DEF BeginRun
<1>21. ASSUME NEW w \in Worker, ReachTerminal(w) PROVE LeaderLocals'
  BY <1>21 DEF ReachTerminal
<1>22. ASSUME NEW w \in Worker, FinishWork(w) PROVE LeaderLocals'
  BY <1>22 DEF FinishWork, FinishAttempt
<1>23. ASSUME NEW w \in Worker, FailWork(w) PROVE LeaderLocals'
  BY <1>23 DEF FailWork
<1>24. ASSUME NEW w \in Worker, FailAttempt(w) PROVE LeaderLocals'
  BY <1>24 DEF FailAttempt, FinishAttempt
<1>25. ASSUME NEW w \in Worker, FinishRun(w) PROVE LeaderLocals'
  BY <1>25 DEF FinishRun
<1>26. ASSUME NEW a \in Attempt, ManualStartRun(a) PROVE LeaderLocals'
  BY <1>26 DEF ManualStartRun
<1>27. ASSUME NEW a \in Attempt, ManualReachTerminal(a) PROVE LeaderLocals'
  BY <1>27 DEF ManualReachTerminal
<1>28. ASSUME NEW a \in Attempt, ManualFinish(a) PROVE LeaderLocals'
  BY <1>28 DEF ManualFinish, FinishAttempt
<1>29. ASSUME NEW a \in Attempt, ManualFailInstance(a) PROVE LeaderLocals'
  BY <1>29 DEF ManualFailInstance
<1>30. ASSUME NEW a \in Attempt, ManualFail(a) PROVE LeaderLocals'
  BY <1>30 DEF ManualFail, FinishAttempt
<1>31. ASSUME NEW a \in Attempt, ManualFinishRun(a) PROVE LeaderLocals'
  BY <1>31 DEF ManualFinishRun
<1>32. ASSUME NEW a \in Attempt, Enqueue(a) PROVE LeaderLocals'
  BY <1>32 DEF Enqueue
<1>33. ASSUME NEW a \in Attempt, ManualRetry(a) PROVE LeaderLocals'
  BY <1>33 DEF ManualRetry
<1>34. ASSUME NEW w \in Worker, CrashWorker(w) PROVE LeaderLocals'
  BY <1>34 DEF CrashWorker
<1>35. ASSUME NEW w \in Worker, PassDeadline(w) PROVE LeaderLocals'
  BY <1>35 DEF PassDeadline
<1>36. ASSUME TerminateTracked PROVE LeaderLocals'
  BY <1>36 DEF TerminateTracked
<1>37. ASSUME CrashLeader PROVE LeaderLocals'
  BY <1>37 DEF CrashLeader
<1>38. CASE UNCHANGED vars
  BY <1>38 DEF vars
<1> QED
  BY <1>1, <1>2, <1>3, <1>4, <1>5, <1>6, <1>7, <1>8, <1>9, <1>10, <1>11, <1>12,
      <1>13, <1>14, <1>15, <1>16, <1>17, <1>18, <1>19, <1>20, <1>21, <1>22, <1>23,
      <1>24, <1>25, <1>26, <1>27, <1>28, <1>29, <1>30, <1>31, <1>32, <1>33, <1>34,
      <1>35, <1>36, <1>37, <1>38 DEF Next, LeaderStep, ReconcileStep, StartStep,
      WorkerStep, ManualStep,
     Environment

(* Every variable keeps its type, and no attempt is requeued more than     *)
(* workers.retry_limit times, at whatever steps the leader or the workers  *)
(* die.                                                                    *)
THEOREM TypesAreKept == Spec => []TypeOK
<1>1. Init => TypeOK /\ LeaderLocals
  BY InitTypes DEF Init, LeaderLocals, Between
<1>2. TypeOK /\ LeaderLocals /\ [Next]_vars => (TypeOK /\ LeaderLocals)'
  BY NextTypes, NextLocals
<1> QED BY <1>1, <1>2, PTL DEF Spec

(***************************************************************************)
(* One process per attempt                                                 *)
(***************************************************************************)

(* Every step keeps the inductive invariant, unless the leader dies before *)
(* it has recorded the pid of the process it made.                         *)
LEMMA NextPreserves ==
    ASSUME "recordPid" \notin CrashWindows
    PROVE  IndInv /\ [Next]_vars => IndInv'
<1> SUFFICES ASSUME IndInv, TypeOK', [Next]_vars PROVE IndInv'
  BY NextTypes DEF IndInv
<1> USE WorkerFacts
<1> USE DEF IndInv, TypeOK, TableTypes, ProcessTypes, LeaderTypes, attemptVars,
    workerVars, processVars, cycleVars, leaderVars
<1> USE DEF LeaderLocals, OneProcessPerAttempt, SoleRow, QueuedIsIdle,
    SnapshotIsGood, JudgedIsGone, StartedIsAlone, ProcessIsKnown
<1> USE DEF NoProcess, NoRowBut, Alive, RowRunning, LivePc, Settled, Judging, Between
<1>1. ASSUME BeginReconcile PROVE IndInv'
  BY <1>1 DEF BeginReconcile, WatchedWorkers
<1>2. ASSUME NEW s \in snapshot, JudgeCrashed(s) PROVE IndInv'
  <2>0. /\ s.worker \in Worker
        /\ \A w \in Worker : AttemptOf(w) = AttemptOf(s.worker) => process'[w]
            \notin LivePc
    BY <1>2 DEF JudgeCrashed, Gone, SnapshotRow
  <2>1. LeaderLocals'
    BY <1>2, <2>0 DEF JudgeCrashed, FailAndRetry
  <2>2. OneProcessPerAttempt'
    BY <1>2, <2>0 DEF JudgeCrashed, FailAndRetry
  <2>3. SoleRow'
    BY <1>2, <2>0 DEF JudgeCrashed, FailAndRetry
  <2>4. QueuedIsIdle'
    BY <1>2, <2>0 DEF JudgeCrashed, FailAndRetry
  <2>5. SnapshotIsGood'
    BY <1>2, <2>0 DEF JudgeCrashed, FailAndRetry
  <2>6. JudgedIsGone'
    BY <1>2, <2>0 DEF JudgeCrashed, FailAndRetry
  <2>7. StartedIsAlone'
    BY <1>2, <2>0 DEF JudgeCrashed, FailAndRetry
  <2>8. ProcessIsKnown'
    BY <1>2, <2>0 DEF JudgeCrashed, FailAndRetry
  <2> QED BY <2>1, <2>2, <2>3, <2>4, <2>5, <2>6, <2>7, <2>8 DEF IndInv
<1>3. ASSUME NEW s \in snapshot, JudgeTimedOut(s) PROVE IndInv'
  <2>0. /\ s.worker \in Worker
        /\ \A w \in Worker : AttemptOf(w) = AttemptOf(s.worker) => process'[w]
            \notin LivePc
    BY <1>3 DEF JudgeTimedOut, Victim, Gone, SnapshotRow
  <2>1. LeaderLocals'
    BY <1>3, <2>0 DEF JudgeTimedOut, FailAndRetry
  <2>2. OneProcessPerAttempt'
    BY <1>3, <2>0 DEF JudgeTimedOut, FailAndRetry
  <2>3. SoleRow'
    BY <1>3, <2>0 DEF JudgeTimedOut, FailAndRetry
  <2>4. QueuedIsIdle'
    BY <1>3, <2>0 DEF JudgeTimedOut, FailAndRetry
  <2>5. SnapshotIsGood'
    BY <1>3, <2>0 DEF JudgeTimedOut, FailAndRetry
  <2>6. JudgedIsGone'
    BY <1>3, <2>0 DEF JudgeTimedOut, FailAndRetry
  <2>7. StartedIsAlone'
    BY <1>3, <2>0 DEF JudgeTimedOut, FailAndRetry
  <2>8. ProcessIsKnown'
    BY <1>3, <2>0 DEF JudgeTimedOut, FailAndRetry
  <2> QED BY <2>1, <2>2, <2>3, <2>4, <2>5, <2>6, <2>7, <2>8 DEF IndInv
<1>4. ASSUME NEW s \in snapshot, LeaveRunning(s) PROVE IndInv'
  BY <1>4 DEF LeaveRunning
<1>5. ASSUME MarkWorkerExited PROVE IndInv'
  BY <1>5 DEF MarkWorkerExited
<1>6. ASSUME Requeue PROVE IndInv'
  BY <1>6 DEF Requeue, RequeueAttempt
<1>7. ASSUME RequeueRun PROVE IndInv'
  BY <1>7 DEF RequeueRun, Resume
<1>8. ASSUME FinishFailed PROVE IndInv'
  BY <1>8 DEF FinishFailed, FinishAttempt
<1>9. ASSUME FinishFailedRun PROVE IndInv'
  BY <1>9 DEF FinishFailedRun, Resume
<1>10. ASSUME FailInstance PROVE IndInv'
  BY <1>10 DEF FailInstance, Resume
<1>11. ASSUME BeginStart PROVE IndInv'
  BY <1>11 DEF BeginStart, OldestQueued, Queued, Running, RunningIn
<1>12. ASSUME EndStart PROVE IndInv'
  BY <1>12 DEF EndStart
<1>13. ASSUME NEW a \in Attempt, SkipRepo(a) PROVE IndInv'
  BY <1>13 DEF SkipRepo
<1>14. ASSUME NEW a \in Attempt, StartQueued(a) PROVE IndInv'
  <2>0. /\ current' = <<a, retryCount[a]>>
        /\ current' \in Worker /\ AttemptOf(current') = a
        /\ a \in pending
    BY <1>14 DEF StartQueued, NextPending
  <2>1. LeaderLocals'
    BY <1>14, <2>0 DEF StartQueued, StartAttempt
  <2>2. OneProcessPerAttempt'
    BY <1>14, <2>0 DEF StartQueued, StartAttempt
  <2>3. SoleRow'
    BY <1>14, <2>0 DEF StartQueued, StartAttempt
  <2>4. QueuedIsIdle'
    BY <1>14, <2>0 DEF StartQueued, StartAttempt
  <2>5. SnapshotIsGood'
    BY <1>14, <2>0 DEF StartQueued, StartAttempt
  <2>6. JudgedIsGone'
    BY <1>14, <2>0 DEF StartQueued, StartAttempt
  <2>7. StartedIsAlone'
    BY <1>14, <2>0 DEF StartQueued, StartAttempt
  <2>8. ProcessIsKnown'
    BY <1>14, <2>0 DEF StartQueued, StartAttempt
  <2> QED BY <2>1, <2>2, <2>3, <2>4, <2>5, <2>6, <2>7, <2>8 DEF IndInv
<1>15. ASSUME StartRun PROVE IndInv'
  BY <1>15 DEF StartRun
<1>16. ASSUME Spawn PROVE IndInv'
  BY <1>16 DEF Spawn
<1>17. ASSUME SpawnFails PROVE IndInv'
  BY <1>17 DEF SpawnFails
<1>18. ASSUME RecordPid PROVE IndInv'
  BY <1>18 DEF RecordPid, Resume
<1>19. ASSUME NEW w \in Worker, BeginAttempt(w) PROVE IndInv'
  BY <1>19 DEF BeginAttempt, StartAttempt
<1>20. ASSUME NEW w \in Worker, BeginRun(w) PROVE IndInv'
  BY <1>20 DEF BeginRun
<1>21. ASSUME NEW w \in Worker, ReachTerminal(w) PROVE IndInv'
  BY <1>21 DEF ReachTerminal
<1>22. ASSUME NEW w \in Worker, FinishWork(w) PROVE IndInv'
  BY <1>22 DEF FinishWork, FinishAttempt, ResultStatus
<1>23. ASSUME NEW w \in Worker, FailWork(w) PROVE IndInv'
  BY <1>23 DEF FailWork
<1>24. ASSUME NEW w \in Worker, FailAttempt(w) PROVE IndInv'
  BY <1>24 DEF FailAttempt, FinishAttempt
<1>25. ASSUME NEW w \in Worker, FinishRun(w) PROVE IndInv'
  BY <1>25 DEF FinishRun
<1>26. ASSUME NEW a \in Attempt, ManualStartRun(a) PROVE IndInv'
  BY <1>26 DEF ManualStartRun
<1>27. ASSUME NEW a \in Attempt, ManualReachTerminal(a) PROVE IndInv'
  BY <1>27 DEF ManualReachTerminal
<1>28. ASSUME NEW a \in Attempt, ManualFinish(a) PROVE IndInv'
  BY <1>28 DEF ManualFinish, FinishAttempt, ResultStatus
<1>29. ASSUME NEW a \in Attempt, ManualFailInstance(a) PROVE IndInv'
  BY <1>29 DEF ManualFailInstance
<1>30. ASSUME NEW a \in Attempt, ManualFail(a) PROVE IndInv'
  BY <1>30 DEF ManualFail, FinishAttempt
<1>31. ASSUME NEW a \in Attempt, ManualFinishRun(a) PROVE IndInv'
  BY <1>31 DEF ManualFinishRun
<1>32. ASSUME NEW a \in Attempt, Enqueue(a) PROVE IndInv'
  BY <1>32 DEF Enqueue
<1>33. ASSUME NEW a \in Attempt, ManualRetry(a) PROVE IndInv'
  BY <1>33 DEF ManualRetry
<1>34. ASSUME NEW w \in Worker, CrashWorker(w) PROVE IndInv'
  BY <1>34 DEF CrashWorker
<1>35. ASSUME NEW w \in Worker, PassDeadline(w) PROVE IndInv'
  BY <1>35 DEF PassDeadline
<1>36. ASSUME TerminateTracked PROVE IndInv'
  BY <1>36 DEF TerminateTracked
<1>37. ASSUME CrashLeader PROVE IndInv'
  BY <1>37 DEF CrashLeader
<1>38. CASE UNCHANGED vars
  BY <1>38 DEF vars
<1> QED
  BY <1>1, <1>2, <1>3, <1>4, <1>5, <1>6, <1>7, <1>8, <1>9, <1>10, <1>11, <1>12,
      <1>13, <1>14, <1>15, <1>16, <1>17, <1>18, <1>19, <1>20, <1>21, <1>22, <1>23,
      <1>24, <1>25, <1>26, <1>27, <1>28, <1>29, <1>30, <1>31, <1>32, <1>33, <1>34,
      <1>35, <1>36, <1>37, <1>38 DEF Next, LeaderStep, ReconcileStep, StartStep,
      WorkerStep, ManualStep, Environment

(* Nothing has been started. *)
LEMMA InitInductive == Init => IndInv
<1> SUFFICES ASSUME Init PROVE IndInv
  OBVIOUS
<1>1. TypeOK
  BY InitTypes
<1>2. \A w \in Worker : ~Alive(w) /\ ~RowRunning(w)
  BY DEF Init, Alive, LivePc, Settled, RowRunning
<1> QED
  BY <1>1, <1>2 DEF Init, IndInv, LeaderLocals, OneProcessPerAttempt, SoleRow,
      QueuedIsIdle, SnapshotIsGood, JudgedIsGone, StartedIsAlone, ProcessIsKnown,
      NoProcess, NoRowBut, Between

(* The inductive invariant holds throughout. *)
LEMMA Inductive ==
    ASSUME "recordPid" \notin CrashWindows
    PROVE  Spec => []IndInv
<1>1. IndInv /\ [Next]_vars => IndInv'
  BY NextPreserves
<1> QED BY InitInductive, <1>1, PTL DEF Spec

(* Two processes never work on one attempt: a retry is started only when   *)
(* the process of the try before is gone, over any number of attempts,     *)
(* retries, timeouts and crashes of leaders and workers.                   *)
THEOREM WorkersAreExclusive ==
    ASSUME "recordPid" \notin CrashWindows
    PROVE  Spec => []OneProcessPerAttempt
<1>1. IndInv => OneProcessPerAttempt
  BY DEF IndInv
<1> QED BY Inductive, <1>1, PTL

(***************************************************************************)
(* No running attempt is forgotten                                         *)
(***************************************************************************)

(* A step leaves every running attempt with a row or with somebody who is  *)
(* about to change it, unless the leader dies in between.                  *)
LEMMA NextWatched ==
    ASSUME {"recordPid", "requeue", "finish"} \cap CrashWindows = {}
    PROVE  IndInv /\ RunningIsWatched /\ [Next]_vars => RunningIsWatched'
<1> SUFFICES ASSUME IndInv, RunningIsWatched, [Next]_vars PROVE RunningIsWatched'
  OBVIOUS
<1> USE WorkerFacts
<1> USE DEF IndInv, TypeOK, TableTypes, ProcessTypes, LeaderTypes, LeaderLocals,
    ProcessIsKnown, Between, RunningIsWatched, Running, RowRunning, LeaderHandles,
    Alive, LivePc, Settled, attemptVars, workerVars, processVars, cycleVars,
    leaderVars
<1>1. ASSUME BeginReconcile PROVE RunningIsWatched'
  BY <1>1 DEF BeginReconcile
<1>2. ASSUME NEW s \in snapshot, JudgeCrashed(s) PROVE RunningIsWatched'
  BY <1>2 DEF JudgeCrashed, FailAndRetry
<1>3. ASSUME NEW s \in snapshot, JudgeTimedOut(s) PROVE RunningIsWatched'
  BY <1>3 DEF JudgeTimedOut, FailAndRetry
<1>4. ASSUME NEW s \in snapshot, LeaveRunning(s) PROVE RunningIsWatched'
  BY <1>4 DEF LeaveRunning
<1>5. ASSUME MarkWorkerExited PROVE RunningIsWatched'
  BY <1>5 DEF MarkWorkerExited
<1>6. ASSUME Requeue PROVE RunningIsWatched'
  BY <1>6 DEF Requeue, RequeueAttempt
<1>7. ASSUME RequeueRun PROVE RunningIsWatched'
  BY <1>7 DEF RequeueRun, Resume
<1>8. ASSUME FinishFailed PROVE RunningIsWatched'
  BY <1>8 DEF FinishFailed, FinishAttempt
<1>9. ASSUME FinishFailedRun PROVE RunningIsWatched'
  BY <1>9 DEF FinishFailedRun, Resume
<1>10. ASSUME FailInstance PROVE RunningIsWatched'
  BY <1>10 DEF FailInstance, Resume
<1>11. ASSUME BeginStart PROVE RunningIsWatched'
  BY <1>11 DEF BeginStart
<1>12. ASSUME EndStart PROVE RunningIsWatched'
  BY <1>12 DEF EndStart
<1>13. ASSUME NEW a \in Attempt, SkipRepo(a) PROVE RunningIsWatched'
  BY <1>13 DEF SkipRepo
<1>14. ASSUME NEW a \in Attempt, StartQueued(a) PROVE RunningIsWatched'
  BY <1>14 DEF StartQueued, StartAttempt
<1>15. ASSUME StartRun PROVE RunningIsWatched'
  BY <1>15 DEF StartRun
<1>16. ASSUME Spawn PROVE RunningIsWatched'
  BY <1>16 DEF Spawn
<1>17. ASSUME SpawnFails PROVE RunningIsWatched'
  BY <1>17 DEF SpawnFails
<1>18. ASSUME RecordPid PROVE RunningIsWatched'
  BY <1>18 DEF RecordPid, Resume
<1>19. ASSUME NEW w \in Worker, BeginAttempt(w) PROVE RunningIsWatched'
  BY <1>19 DEF BeginAttempt, StartAttempt
<1>20. ASSUME NEW w \in Worker, BeginRun(w) PROVE RunningIsWatched'
  BY <1>20 DEF BeginRun
<1>21. ASSUME NEW w \in Worker, ReachTerminal(w) PROVE RunningIsWatched'
  BY <1>21 DEF ReachTerminal
<1>22. ASSUME NEW w \in Worker, FinishWork(w) PROVE RunningIsWatched'
  BY <1>22 DEF FinishWork, FinishAttempt, ResultStatus
<1>23. ASSUME NEW w \in Worker, FailWork(w) PROVE RunningIsWatched'
  BY <1>23 DEF FailWork
<1>24. ASSUME NEW w \in Worker, FailAttempt(w) PROVE RunningIsWatched'
  BY <1>24 DEF FailAttempt, FinishAttempt
<1>25. ASSUME NEW w \in Worker, FinishRun(w) PROVE RunningIsWatched'
  BY <1>25 DEF FinishRun
<1>26. ASSUME NEW a \in Attempt, ManualStartRun(a) PROVE RunningIsWatched'
  BY <1>26 DEF ManualStartRun
<1>27. ASSUME NEW a \in Attempt, ManualReachTerminal(a) PROVE RunningIsWatched'
  BY <1>27 DEF ManualReachTerminal
<1>28. ASSUME NEW a \in Attempt, ManualFinish(a) PROVE RunningIsWatched'
  BY <1>28 DEF ManualFinish, FinishAttempt, ResultStatus
<1>29. ASSUME NEW a \in Attempt, ManualFailInstance(a) PROVE RunningIsWatched'
  BY <1>29 DEF ManualFailInstance
<1>30. ASSUME NEW a \in Attempt, ManualFail(a) PROVE RunningIsWatched'
  BY <1>30 DEF ManualFail, FinishAttempt
<1>31. ASSUME NEW a \in Attempt, ManualFinishRun(a) PROVE RunningIsWatched'
  BY <1>31 DEF ManualFinishRun
<1>32. ASSUME NEW a \in Attempt, Enqueue(a) PROVE RunningIsWatched'
  BY <1>32 DEF Enqueue
<1>33. ASSUME NEW a \in Attempt, ManualRetry(a) PROVE RunningIsWatched'
  BY <1>33 DEF ManualRetry
<1>34. ASSUME NEW w \in Worker, CrashWorker(w) PROVE RunningIsWatched'
  BY <1>34 DEF CrashWorker
<1>35. ASSUME NEW w \in Worker, PassDeadline(w) PROVE RunningIsWatched'
  BY <1>35 DEF PassDeadline
<1>36. ASSUME TerminateTracked PROVE RunningIsWatched'
  BY <1>36 DEF TerminateTracked
<1>37. ASSUME CrashLeader PROVE RunningIsWatched'
  BY <1>37 DEF CrashLeader
<1>38. CASE UNCHANGED vars
  BY <1>38 DEF vars
<1> QED
  BY <1>1, <1>2, <1>3, <1>4, <1>5, <1>6, <1>7, <1>8, <1>9, <1>10, <1>11, <1>12,
      <1>13, <1>14, <1>15, <1>16, <1>17, <1>18, <1>19, <1>20, <1>21, <1>22, <1>23,
      <1>24, <1>25, <1>26, <1>27, <1>28, <1>29, <1>30, <1>31, <1>32, <1>33, <1>34,
      <1>35, <1>36, <1>37, <1>38 DEF Next, LeaderStep, ReconcileStep, StartStep,
      WorkerStep, ManualStep,
     Environment

(* Every running attempt has a running worker row, which the next          *)
(* reconcile looks at, or somebody is at work on its status.               *)
THEOREM NoAttemptIsForgotten ==
    ASSUME {"recordPid", "requeue", "finish"} \cap CrashWindows = {}
    PROVE  Spec => []RunningIsWatched
<1>1. Init => RunningIsWatched
  BY DEF Init, RunningIsWatched, Running
<1>2. IndInv /\ RunningIsWatched /\ [Next]_vars => RunningIsWatched'
  BY NextWatched
<1>3. Spec => []IndInv
  BY Inductive
<1> QED BY <1>1, <1>2, <1>3, PTL DEF Spec

(***************************************************************************)
(* The inductive invariant, while no action is retried by hand             *)
(***************************************************************************)

\* The status of an attempt is the one its process recorded last.
ProcessStatus == \A w \in Worker : Alive(w) =>
    status[AttemptOf(w)] = IF process[w] \in Settled THEN process[w] ELSE "running"

\* The leader's worker in hand has no process before it is spawned and after it was judged ...
Handled == {"requeueRun", "finish", "finishRun", "failInstance", "spawnFailed", "spawnFailedRun"}
HandledIsGone == leader \in Handled => NoProcess(AttemptOf(current))

\* ... so its attempt has the status that the leader wrote.
HandledStatus ==
    /\ leader \in {"startRun", "spawn", "spawnFailed"} => status[AttemptOf(current)] = "running"
    /\ leader = "requeueRun" => status[AttemptOf(current)] = "queued"
    /\ leader \in {"finishRun", "failInstance", "spawnFailedRun"} => status[AttemptOf(current)] = "failed"
    /\ leader = "failInstance" => run[AttemptOf(current)] = "failed"

NobodyRetries == \A a \in Attempt : manual[a] = "none"

StatusParts == ProcessStatus /\ HandledIsGone /\ HandledStatus /\ NobodyRetries
StatusInv == IndInv /\ StatusParts

\* The attempts that run, but for the one in hand, are among those the leader counted.
Starting == {"startRun", "spawn", "recordPid", "spawnFailed", "spawnFailedRun"}
CountedBut(S) ==
    /\ Cardinality(Running \ S) <= total
    /\ \A r \in Repo : Cardinality(RunningIn(r) \ S) <= perRepo[r]
Counted ==
    /\ leader = "start" => CountedBut({})
    /\ leader \in Starting => CountedBut({AttemptOf(current)})
WithinLimits ==
    /\ Cardinality(Running) <= MaxGlobal
    /\ \A r \in Repo : Cardinality(RunningIn(r)) <= MaxPerRepo
CapacityInv == Counted /\ WithinLimits

\* What the leader has in hand while the run of a settled attempt may be open.
Closing == {"mark", "requeue", "finish", "finishRun", "spawnFailedRun"}
ClosedInv ==
    \A a \in Attempt :
        \/ status[a] \notin Settled
        \/ \E w \in Worker : AttemptOf(w) = a /\ Alive(w)
        \/ leader \in Closing /\ LeaderHandles(a)
        \/ run[a] = status[a]

(* Every step keeps what the statuses say of the processes, if no action   *)
(* can be retried by hand: an attempt is settled by its own process, or by *)
(* the leader when it has none.                                            *)
LEMMA NextStatus ==
    ASSUME "recordPid" \notin CrashWindows, ManualRetryable = {}
    PROVE  StatusInv /\ [Next]_vars => StatusInv'
<1> SUFFICES ASSUME StatusInv, IndInv', [Next]_vars PROVE StatusParts'
  BY NextPreserves DEF StatusInv
<1> USE WorkerFacts
<1> USE DEF StatusInv, IndInv, TypeOK, TableTypes, ProcessTypes, LeaderTypes, attemptVars,
    workerVars, processVars, cycleVars, leaderVars
<1> USE DEF StatusParts, ProcessStatus, HandledIsGone, Handled, HandledStatus, NobodyRetries
<1> USE DEF LeaderLocals, OneProcessPerAttempt, QueuedIsIdle, JudgedIsGone, StartedIsAlone,
    NoProcess, Alive, LivePc, Settled, Judging, Between
<1>1. ASSUME BeginReconcile PROVE StatusParts'
  BY <1>1 DEF BeginReconcile
<1>2. ASSUME NEW s \in snapshot, JudgeCrashed(s) PROVE StatusParts'
  BY <1>2 DEF JudgeCrashed, FailAndRetry
<1>3. ASSUME NEW s \in snapshot, JudgeTimedOut(s) PROVE StatusParts'
  BY <1>3 DEF JudgeTimedOut, FailAndRetry
<1>4. ASSUME NEW s \in snapshot, LeaveRunning(s) PROVE StatusParts'
  BY <1>4 DEF LeaveRunning
<1>5. ASSUME MarkWorkerExited PROVE StatusParts'
  BY <1>5 DEF MarkWorkerExited
<1>6. ASSUME Requeue PROVE StatusParts'
  BY <1>6 DEF Requeue, RequeueAttempt
<1>7. ASSUME RequeueRun PROVE StatusParts'
  BY <1>7 DEF RequeueRun, Resume
<1>8. ASSUME FinishFailed PROVE StatusParts'
  BY <1>8 DEF FinishFailed, FinishAttempt
<1>9. ASSUME FinishFailedRun PROVE StatusParts'
  BY <1>9 DEF FinishFailedRun, Resume
<1>10. ASSUME FailInstance PROVE StatusParts'
  BY <1>10 DEF FailInstance, Resume
<1>11. ASSUME BeginStart PROVE StatusParts'
  BY <1>11 DEF BeginStart
<1>12. ASSUME EndStart PROVE StatusParts'
  BY <1>12 DEF EndStart
<1>13. ASSUME NEW a \in Attempt, SkipRepo(a) PROVE StatusParts'
  BY <1>13 DEF SkipRepo
<1>14. ASSUME NEW a \in Attempt, StartQueued(a) PROVE StatusParts'
  BY <1>14 DEF StartQueued, StartAttempt
<1>15. ASSUME StartRun PROVE StatusParts'
  BY <1>15 DEF StartRun
<1>16. ASSUME Spawn PROVE StatusParts'
  BY <1>16 DEF Spawn
<1>17. ASSUME SpawnFails PROVE StatusParts'
  BY <1>17 DEF SpawnFails
<1>18. ASSUME RecordPid PROVE StatusParts'
  BY <1>18 DEF RecordPid, Resume
<1>19. ASSUME NEW w \in Worker, BeginAttempt(w) PROVE StatusParts'
  BY <1>19 DEF BeginAttempt, StartAttempt
<1>20. ASSUME NEW w \in Worker, BeginRun(w) PROVE StatusParts'
  BY <1>20 DEF BeginRun
<1>21. ASSUME NEW w \in Worker, ReachTerminal(w) PROVE StatusParts'
  BY <1>21 DEF ReachTerminal
<1>22. ASSUME NEW w \in Worker, FinishWork(w) PROVE StatusParts'
  BY <1>22 DEF FinishWork, FinishAttempt, ResultStatus
<1>23. ASSUME NEW w \in Worker, FailWork(w) PROVE StatusParts'
  BY <1>23 DEF FailWork
<1>24. ASSUME NEW w \in Worker, FailAttempt(w) PROVE StatusParts'
  BY <1>24 DEF FailAttempt, FinishAttempt
<1>25. ASSUME NEW w \in Worker, FinishRun(w) PROVE StatusParts'
  BY <1>25 DEF FinishRun
<1>26. ASSUME NEW a \in Attempt, ManualStartRun(a) PROVE StatusParts'
  BY <1>26 DEF ManualStartRun
<1>27. ASSUME NEW a \in Attempt, ManualReachTerminal(a) PROVE StatusParts'
  BY <1>27 DEF ManualReachTerminal
<1>28. ASSUME NEW a \in Attempt, ManualFinish(a) PROVE StatusParts'
  BY <1>28 DEF ManualFinish, FinishAttempt, ResultStatus
<1>29. ASSUME NEW a \in Attempt, ManualFailInstance(a) PROVE StatusParts'
  BY <1>29 DEF ManualFailInstance
<1>30. ASSUME NEW a \in Attempt, ManualFail(a) PROVE StatusParts'
  BY <1>30 DEF ManualFail, FinishAttempt
<1>31. ASSUME NEW a \in Attempt, ManualFinishRun(a) PROVE StatusParts'
  BY <1>31 DEF ManualFinishRun
<1>32. ASSUME NEW a \in Attempt, Enqueue(a) PROVE StatusParts'
  BY <1>32 DEF Enqueue
<1>33. ASSUME NEW a \in Attempt, ManualRetry(a) PROVE StatusParts'
  BY <1>33 DEF ManualRetry
<1>34. ASSUME NEW w \in Worker, CrashWorker(w) PROVE StatusParts'
  BY <1>34 DEF CrashWorker
<1>35. ASSUME NEW w \in Worker, PassDeadline(w) PROVE StatusParts'
  BY <1>35 DEF PassDeadline
<1>36. ASSUME TerminateTracked PROVE StatusParts'
  BY <1>36 DEF TerminateTracked
<1>37. ASSUME CrashLeader PROVE StatusParts'
  BY <1>37 DEF CrashLeader
<1>38. CASE UNCHANGED vars
  BY <1>38 DEF vars
<1> HIDE DEF StatusParts
<1> QED
  BY <1>1, <1>2, <1>3, <1>4, <1>5, <1>6, <1>7, <1>8, <1>9, <1>10, <1>11, <1>12,
      <1>13, <1>14, <1>15, <1>16, <1>17, <1>18, <1>19, <1>20, <1>21, <1>22, <1>23,
      <1>24, <1>25, <1>26, <1>27, <1>28, <1>29, <1>30, <1>31, <1>32, <1>33, <1>34,
      <1>35, <1>36, <1>37, <1>38 DEF Next, LeaderStep, ReconcileStep, StartStep,
      WorkerStep, ManualStep, Environment

(***************************************************************************)
(* The limits                                                              *)
(***************************************************************************)

(* Of two sets of attempts the smaller one has no more elements. *)
LEMMA CountsShrink ==
    ASSUME NEW S \in SUBSET Attempt, NEW T \in SUBSET S
    PROVE  /\ Cardinality(T) \in Nat /\ Cardinality(S) \in Nat
           /\ Cardinality(T) <= Cardinality(S)
BY AttemptAssumption, FS_Subset, FS_CardinalityType

(* One more attempt is at most one more. *)
LEMMA CountsGrow ==
    ASSUME NEW S \in SUBSET Attempt, NEW a \in Attempt
    PROVE  Cardinality(S \cup {a}) <= Cardinality(S) + 1
<1>1. IsFiniteSet(S)
  BY AttemptAssumption, FS_Subset
<1>2. Cardinality(S \cup {a}) = IF a \in S THEN Cardinality(S) ELSE Cardinality(S) + 1
  BY <1>1, FS_AddElement
<1> QED BY <1>1, <1>2, FS_CardinalityType

(* When no attempt begins to run, no count grows. *)
LEMMA CountsStay ==
    ASSUME \A a \in Attempt : status'[a] = "running" => status[a] = "running",
           TypeOK
    PROVE  /\ WithinLimits => WithinLimits'
           /\ \A S : CountedBut(S) /\ total' = total /\ perRepo' = perRepo => CountedBut(S)'
<1>1. Running' \in SUBSET Running /\ Running \in SUBSET Attempt
  BY DEF Running
<1>2. \A r \in Repo : RunningIn(r)' \in SUBSET RunningIn(r) /\ RunningIn(r) \in SUBSET Attempt
  BY DEF Running, RunningIn
<1>3. \A S, T : S \in SUBSET Attempt /\ T \in SUBSET S =>
          Cardinality(T) \in Nat /\ Cardinality(S) \in Nat /\ Cardinality(T) <= Cardinality(S)
  BY CountsShrink
<1>t. perRepo \in [Repo -> Nat]
  BY DEF TypeOK, LeaderTypes
<1>4. ASSUME WithinLimits PROVE WithinLimits'
  <2>1. Cardinality(Running') <= MaxGlobal
    BY <1>1, <1>3, <1>4, LimitsAssumption DEF WithinLimits
  <2>2. ASSUME NEW r \in Repo PROVE Cardinality(RunningIn(r)') <= MaxPerRepo
    BY <1>2, <1>3, <1>4, LimitsAssumption DEF WithinLimits
  <2> QED BY <2>1, <2>2 DEF WithinLimits
<1>5. ASSUME NEW S, CountedBut(S), total' = total, perRepo' = perRepo PROVE CountedBut(S)'
  <2>1. Cardinality(Running' \ S) <= total'
    <3>1. Running \ S \in SUBSET Attempt /\ Running' \ S \in SUBSET (Running \ S)
      BY <1>1
    <3> QED BY <3>1, <1>3, <1>5 DEF CountedBut, TypeOK, LeaderTypes
  <2>2. ASSUME NEW r \in Repo PROVE Cardinality(RunningIn(r)' \ S) <= perRepo'[r]
    <3>1. RunningIn(r) \ S \in SUBSET Attempt /\ RunningIn(r)' \ S \in SUBSET (RunningIn(r) \ S)
      BY <1>2
    <3>2. /\ Cardinality(RunningIn(r)' \ S) \in Nat /\ Cardinality(RunningIn(r) \ S) \in Nat
          /\ Cardinality(RunningIn(r)' \ S) <= Cardinality(RunningIn(r) \ S)
      BY <3>1, <1>3
    <3>3. Cardinality(RunningIn(r) \ S) <= perRepo[r] /\ perRepo[r] \in Nat
      BY <1>5, <1>t DEF CountedBut
    <3> QED BY <3>2, <3>3, <1>5
  <2> QED BY <2>1, <2>2 DEF CountedBut
<1> QED BY <1>4, <1>5

(* The leader alone begins to run an attempt: what a worker process starts *)
(* is running already.                                                     *)
LEMMA OnlyLeaderStarts ==
    ASSUME ManualRetryable = {}, StatusInv, [Next]_vars, NEW b \in Attempt,
           status'[b] = "running", status[b] # "running"
    PROVE  StartQueued(b)
<1> SUFFICES ASSUME ~StartQueued(b) PROVE FALSE
  OBVIOUS
<1> DEFINE Stays == status'[b] = "running" => status[b] = "running"
<1> USE WorkerFacts
<1> USE DEF attemptVars, workerVars, processVars, cycleVars, leaderVars
<1>t. TableTypes /\ ProcessTypes
  BY DEF StatusInv, IndInv, TypeOK
<1>11. ASSUME NEW w \in Worker, BeginAttempt(w) PROVE FALSE
  <2>1. status[AttemptOf(w)] = "running"
    BY <1>11 DEF BeginAttempt, StatusInv, StatusParts, ProcessStatus, Alive, LivePc, Settled
  <2> QED BY <1>11, <1>t, <2>1 DEF BeginAttempt, StartAttempt, TableTypes
<1>12. ASSUME NEW a \in Attempt, StartQueued(a) PROVE FALSE
  BY <1>12, <1>t DEF StartQueued, StartAttempt, TableTypes
<1>13. ASSUME NEW a \in Attempt, ManualStep(a) \/ ManualRetry(a) PROVE FALSE
  BY <1>13 DEF ManualStep, ManualStartRun, ManualReachTerminal, ManualFinish, ManualFailInstance, ManualFail,
     ManualFinishRun, ManualRetry, StatusInv, StatusParts, NobodyRetries, Settled
<1>1. CASE ReconcileStep
  <2>1. CASE BeginReconcile \/ MarkWorkerExited \/ RequeueRun \/ FinishFailedRun \/ FailInstance
    BY <2>1 DEF BeginReconcile, MarkWorkerExited, RequeueRun, FinishFailedRun, FailInstance
  <2>2. CASE \E s \in snapshot : JudgeCrashed(s) \/ JudgeTimedOut(s) \/ LeaveRunning(s)
    BY <2>2 DEF JudgeCrashed, JudgeTimedOut, LeaveRunning
  <2>3. CASE Requeue \/ FinishFailed
    BY <2>3, <1>t DEF Requeue, RequeueAttempt, FinishFailed, FinishAttempt, TableTypes
  <2> QED BY <1>1, <2>1, <2>2, <2>3 DEF ReconcileStep
<1>2. CASE StartStep
  <2>1. CASE \E a \in Attempt : SkipRepo(a) \/ StartQueued(a)
    BY <2>1, <1>12 DEF SkipRepo
  <2>2. CASE BeginStart \/ EndStart \/ StartRun \/ Spawn \/ SpawnFails \/ RecordPid
    BY <2>2 DEF BeginStart, EndStart, StartRun, Spawn, SpawnFails, RecordPid
  <2> QED BY <1>2, <2>1, <2>2 DEF StartStep
<1>3. ASSUME NEW w \in Worker, WorkerStep(w) PROVE FALSE
  <2>1. CASE BeginRun(w) \/ ReachTerminal(w) \/ FailWork(w) \/ FinishRun(w)
    BY <2>1 DEF BeginRun, ReachTerminal, FailWork, FinishRun
  <2>2. CASE FinishWork(w) \/ FailAttempt(w)
    BY <2>2, <1>t DEF FinishWork, FailAttempt, FinishAttempt, ResultStatus, Settled, TableTypes
  <2> QED BY <1>3, <1>11, <2>1, <2>2 DEF WorkerStep
<1>4. CASE Environment
  <2>1. ASSUME NEW a \in Attempt, Enqueue(a) PROVE FALSE
    BY <2>1, <1>t DEF Enqueue, TableTypes
  <2>2. CASE (\E w \in Worker : CrashWorker(w) \/ PassDeadline(w)) \/ TerminateTracked \/ CrashLeader
    BY <2>2 DEF CrashWorker, PassDeadline, TerminateTracked, CrashLeader
  <2> QED BY <1>4, <1>13, <2>1, <2>2 DEF Environment
<1> QED BY <1>1, <1>2, <1>3, <1>4, <1>13 DEF Next, LeaderStep, vars

(* What the leader counts and what the limits allow stay so when it goes   *)
(* on, or stops, with the counts and the worker in hand.                   *)
LEMMA CapacityStays ==
    ASSUME StatusInv, CapacityInv,
           \A a \in Attempt : status'[a] = "running" => status[a] = "running",
           leader' \in Starting \cup {"start"} =>
               /\ total' = total /\ perRepo' = perRepo
               /\ \/ leader = "start" /\ leader' = "start"
                  \/ leader \in Starting /\ leader' \in Starting /\ current' = current
    PROVE  CapacityInv'
<1>t. TypeOK
  BY DEF StatusInv, IndInv
<1>1. WithinLimits'
  BY <1>t, CountsStay DEF CapacityInv
<1>2. ASSUME leader' = "start" PROVE CountedBut({})'
  <2>1. CountedBut({}) /\ total' = total /\ perRepo' = perRepo
    BY <1>2 DEF CapacityInv, Counted, Starting
  <2> QED BY <1>t, <2>1, CountsStay
<1>3. ASSUME leader' \in Starting PROVE CountedBut({AttemptOf(current)})'
  <2>1. CountedBut({AttemptOf(current)}) /\ total' = total /\ perRepo' = perRepo /\ current' = current
    BY <1>3 DEF CapacityInv, Counted, Starting
  <2>2. PICK S : S = {AttemptOf(current)}
    OBVIOUS
  <2>3. CountedBut(S)'
    BY <1>t, <2>1, <2>2, CountsStay
  <2>4. S = {AttemptOf(current')}
    BY <2>1, <2>2
  <2> QED BY <2>3, <2>4 DEF CountedBut
<1> QED BY <1>1, <1>2, <1>3 DEF CapacityInv, Counted

(* Every step keeps the counts and the limits: an attempt is started only  *)
(* when the leader counted fewer, and nobody else starts one.              *)
LEMMA NextCapacity ==
    ASSUME ManualRetryable = {}
    PROVE  StatusInv /\ CapacityInv /\ [Next]_vars => CapacityInv'
<1> SUFFICES ASSUME StatusInv, CapacityInv, [Next]_vars PROVE CapacityInv'
  OBVIOUS
<1> USE DEF attemptVars, workerVars, processVars, cycleVars, leaderVars
<1>t. TypeOK /\ (leader \notin Between => current \in Worker)
  BY DEF StatusInv, IndInv, LeaderLocals
<1>n. perRepo \in [Repo -> Nat] /\ total \in Nat /\ status \in [Attempt -> AttemptStatus]
      /\ \A b \in Attempt : RepoOf[b] \in Repo
  BY <1>t, AttemptAssumption DEF TypeOK, TableTypes, LeaderTypes
<1>s. Running \in SUBSET Attempt /\ \A r \in Repo : RunningIn(r) \in SUBSET Attempt
  BY DEF Running, RunningIn
<1>1. ASSUME NEW a \in Attempt, StartQueued(a) PROVE CapacityInv'
  <2>1. /\ leader = "start" /\ leader' = "startRun" /\ total < MaxGlobal /\ perRepo[RepoOf[a]] < MaxPerRepo
        /\ total' = total /\ perRepo' = perRepo /\ AttemptOf(current') = a
        /\ status' = [status EXCEPT ![a] = "running"]
    BY <1>1, WorkerFacts DEF StartQueued, StartAttempt, AttemptOf
  <2>2. Running' = Running \cup {a}
    BY <2>1, <1>n DEF Running
  <2>3. \A r \in Repo : RunningIn(r)' = IF r = RepoOf[a] THEN RunningIn(r) \cup {a} ELSE RunningIn(r)
    BY <2>2 DEF RunningIn
  <2>4. Cardinality(Running) <= total /\ Cardinality(Running) \in Nat
    <3>1. CountedBut({}) /\ Running \ {} = Running
      BY <2>1 DEF CapacityInv, Counted
    <3> QED BY <3>1, <1>s, Counts DEF CountedBut
  <2>5. \A r \in Repo : Cardinality(RunningIn(r)) <= perRepo[r] /\ Cardinality(RunningIn(r)) \in Nat
    <3>1. CountedBut({}) /\ \A r \in Repo : RunningIn(r) \ {} = RunningIn(r)
      BY <2>1 DEF CapacityInv, Counted
    <3> QED BY <3>1, <1>s, Counts DEF CountedBut
  <2>6. WithinLimits'
    <3>1. Cardinality(Running') <= MaxGlobal
      <4>1. Cardinality(Running \cup {a}) <= Cardinality(Running) + 1 /\ Cardinality(Running \cup {a}) \in Nat
        BY <1>s, CountsGrow, Counts
      <4> QED BY <2>1, <2>2, <2>4, <4>1, <1>n, LimitsAssumption
    <3>2. ASSUME NEW r \in Repo PROVE Cardinality(RunningIn(r)') <= MaxPerRepo
      <4>1. CASE r = RepoOf[a]
        <5>1. Cardinality(RunningIn(r) \cup {a}) <= Cardinality(RunningIn(r)) + 1 /\ Cardinality(RunningIn(r) \cup {a}) \in Nat
          BY <1>s, CountsGrow, Counts
        <5>2. perRepo[r] \in Nat /\ perRepo[r] < MaxPerRepo
          BY <1>n, <2>1, <4>1
        <5> QED BY <2>3, <2>5, <4>1, <5>1, <5>2, LimitsAssumption
      <4>2. CASE r # RepoOf[a]
        BY <2>3, <4>2 DEF CapacityInv, WithinLimits
      <4> QED BY <4>1, <4>2
    <3> QED BY <3>1, <3>2 DEF WithinLimits
  <2>7. CountedBut({AttemptOf(current)})'
    <3>1. Running' \ {a} \in SUBSET Running /\ \A r \in Repo : RunningIn(r)' \ {a} \in SUBSET RunningIn(r)
      BY <2>2, <2>3
    <3>2. Cardinality(Running' \ {a}) <= Cardinality(Running) /\ Cardinality(Running' \ {a}) \in Nat
      BY <3>1, <1>s, CountsShrink
    <3>3. ASSUME NEW r \in Repo PROVE Cardinality(RunningIn(r)' \ {a}) <= perRepo[r]
      <4>1. Cardinality(RunningIn(r)' \ {a}) <= Cardinality(RunningIn(r)) /\ Cardinality(RunningIn(r)' \ {a}) \in Nat
        BY <3>1, <1>s, CountsShrink
      <4>2. perRepo[r] \in Nat
        BY <1>n
      <4> QED BY <4>1, <4>2, <2>5
    <3>4. Cardinality(Running' \ {a}) <= total
      BY <3>2, <2>4, <1>n
    <3> QED BY <3>3, <3>4, <2>1 DEF CountedBut
  <2> QED BY <2>1, <2>6, <2>7 DEF CapacityInv, Counted
<1>2. ASSUME NEW a \in Attempt, status'[a] = "running", status[a] # "running" PROVE CapacityInv'
  BY <1>1, <1>2, OnlyLeaderStarts
<1> DEFINE Fewer == \A a \in Attempt : status'[a] = "running" => status[a] = "running"
<1>3. CASE BeginStart
  <2>1. /\ leader' = "start" /\ total' = Cardinality(Running)
        /\ perRepo' = [r \in Repo |-> Cardinality(RunningIn(r))] /\ UNCHANGED status
    BY <1>3 DEF BeginStart
  <2>2. Running' \ {} = Running /\ \A r \in Repo : RunningIn(r)' \ {} = RunningIn(r)
    BY <2>1 DEF Running, RunningIn
  <2>3. Cardinality(Running) \in Nat /\ \A r \in Repo : Cardinality(RunningIn(r)) \in Nat
    BY <1>s, Counts
  <2>4. CountedBut({})'
    BY <2>1, <2>2, <2>3 DEF CountedBut
  <2>5. WithinLimits'
    BY <2>1, <1>t, CountsStay DEF CapacityInv
  <2> QED BY <2>1, <2>4, <2>5 DEF CapacityInv, Counted, Starting
<1>4. CASE RecordPid
  <2>1. /\ leader = "recordPid" /\ leader' = "start" /\ total' = total + 1 /\ UNCHANGED status
        /\ perRepo' = [perRepo EXCEPT ![RepoOf[AttemptOf(current)]] = @ + 1]
    BY <1>4 DEF RecordPid, Resume
  <2>2. PICK a \in Attempt : a = AttemptOf(current)
    BY <2>1, <1>t, WorkerFacts DEF Between
  <2>3. CountedBut({a})
    BY <2>1, <2>2 DEF CapacityInv, Counted, Starting
  <2>4. Cardinality(Running) <= total + 1 /\ Cardinality(Running) \in Nat
    <3>1. Cardinality((Running \ {a}) \cup {a}) <= Cardinality(Running \ {a}) + 1
          /\ Running \in SUBSET ((Running \ {a}) \cup {a}) /\ (Running \ {a}) \cup {a} \in SUBSET Attempt
          /\ Cardinality(Running \ {a}) \in Nat
      BY <1>s, CountsGrow, Counts
    <3>2. Cardinality(Running) <= Cardinality((Running \ {a}) \cup {a})
          /\ Cardinality((Running \ {a}) \cup {a}) \in Nat /\ Cardinality(Running) \in Nat
      BY <3>1, CountsShrink
    <3> QED BY <3>1, <3>2, <2>3, <1>n DEF CountedBut
  <2>5. ASSUME NEW r \in Repo PROVE Cardinality(RunningIn(r)) <= perRepo'[r]
    <3>0. Cardinality(RunningIn(r) \ {a}) <= perRepo[r] /\ perRepo[r] \in Nat
      BY <2>3, <1>n DEF CountedBut
    <3>1. CASE r = RepoOf[a]
      <4>1. Cardinality((RunningIn(r) \ {a}) \cup {a}) <= Cardinality(RunningIn(r) \ {a}) + 1
            /\ RunningIn(r) \in SUBSET ((RunningIn(r) \ {a}) \cup {a}) /\ (RunningIn(r) \ {a}) \cup {a} \in SUBSET Attempt
            /\ Cardinality(RunningIn(r) \ {a}) \in Nat
        BY <1>s, CountsGrow, Counts
      <4>2. Cardinality(RunningIn(r)) <= Cardinality((RunningIn(r) \ {a}) \cup {a})
            /\ Cardinality((RunningIn(r) \ {a}) \cup {a}) \in Nat /\ Cardinality(RunningIn(r)) \in Nat
        BY <4>1, CountsShrink
      <4>3. perRepo'[r] = perRepo[r] + 1
        BY <2>1, <2>2, <3>1, <1>n
      <4> QED BY <3>0, <4>1, <4>2, <4>3
    <3>2. CASE r # RepoOf[a]
      <4>1. RunningIn(r) \ {a} = RunningIn(r)
        BY <3>2 DEF RunningIn
      <4>2. perRepo'[r] = perRepo[r]
        BY <2>1, <2>2, <3>2, <1>n
      <4> QED BY <3>0, <4>1, <4>2
    <3> QED BY <3>1, <3>2
  <2>6. Running' \ {} = Running /\ \A r \in Repo : RunningIn(r)' \ {} = RunningIn(r)
    BY <2>1 DEF Running, RunningIn
  <2>7. CountedBut({})'
    BY <2>1, <2>4, <2>5, <2>6 DEF CountedBut
  <2>8. WithinLimits'
    BY <2>1, <1>t, CountsStay DEF CapacityInv
  <2> QED BY <2>1, <2>7, <2>8 DEF CapacityInv, Counted, Starting
<1>5. CASE FinishFailedRun /\ leader = "spawnFailedRun"
  <2>1. leader' = "start" /\ UNCHANGED <<status, total, perRepo>>
    BY <1>5 DEF FinishFailedRun, Resume
  <2>2. PICK a \in Attempt : a = AttemptOf(current)
    BY <1>5, <1>t, WorkerFacts DEF Between
  <2>3. CountedBut({a}) /\ status[a] # "running"
    BY <1>5, <2>2 DEF CapacityInv, Counted, Starting, StatusInv, StatusParts, HandledStatus
  <2>4. Running' \ {} = Running \ {a} /\ \A r \in Repo : RunningIn(r)' \ {} = RunningIn(r) \ {a}
    BY <2>1, <2>3 DEF Running, RunningIn
  <2>5. CountedBut({})'
    BY <2>1, <2>3, <2>4 DEF CountedBut
  <2>6. WithinLimits'
    BY <2>1, <1>t, CountsStay DEF CapacityInv
  <2> QED BY <2>1, <2>5, <2>6 DEF CapacityInv, Counted, Starting
<1>6. ASSUME Fewer,
             leader' \in Starting \cup {"start"} =>
               /\ total' = total /\ perRepo' = perRepo
               /\ \/ leader = "start" /\ leader' = "start"
                  \/ leader \in Starting /\ leader' \in Starting /\ current' = current
      PROVE  CapacityInv'
  BY <1>6, CapacityStays
<1>7. CASE ReconcileStep /\ ~(FinishFailedRun /\ leader = "spawnFailedRun")
  <2>1. CASE BeginReconcile \/ MarkWorkerExited \/ Requeue \/ RequeueRun \/ FailInstance
             \/ (FinishFailedRun /\ leader # "spawnFailedRun")
    <3>1. leader' \notin Starting \cup {"start"}
      BY <2>1 DEF BeginReconcile, MarkWorkerExited, Requeue, RequeueRun, FailInstance, FinishFailedRun, Resume, Starting
    <3> QED BY <3>1, <1>2, <1>6
  <2>2. CASE \E s \in snapshot : JudgeCrashed(s) \/ JudgeTimedOut(s) \/ LeaveRunning(s)
    <3>1. leader' \notin Starting \cup {"start"}
      BY <2>2 DEF JudgeCrashed, JudgeTimedOut, LeaveRunning, FailAndRetry, Starting
    <3> QED BY <3>1, <1>2, <1>6
  <2>3. CASE FinishFailed
    <3>1. leader' \in Starting \cup {"start"} =>
               /\ total' = total /\ perRepo' = perRepo
               /\ leader \in Starting /\ leader' \in Starting /\ current' = current
      BY <2>3 DEF FinishFailed, Starting
    <3> QED BY <3>1, <1>2, <1>6
  <2> QED BY <1>7, <2>1, <2>2, <2>3 DEF ReconcileStep
<1>8. CASE StartStep
  <2>1. CASE StartRun \/ Spawn \/ SpawnFails
    <3>1. /\ total' = total /\ perRepo' = perRepo
          /\ leader \in Starting /\ leader' \in Starting /\ current' = current
      BY <2>1 DEF StartRun, Spawn, SpawnFails, Starting
    <3> QED BY <3>1, <1>2, <1>6
  <2>2. CASE EndStart
    <3>1. leader' \notin Starting \cup {"start"}
      BY <2>2 DEF EndStart, Starting
    <3> QED BY <3>1, <1>2, <1>6
  <2>3. CASE \E a \in Attempt : SkipRepo(a)
    <3>1. total' = total /\ perRepo' = perRepo /\ leader = "start" /\ leader' = "start"
      BY <2>3 DEF SkipRepo
    <3> QED BY <3>1, <1>2, <1>6
  <2> QED BY <1>8, <1>1, <1>3, <1>4, <2>1, <2>2, <2>3 DEF StartStep
<1>9. CASE UNCHANGED leaderVars
  <2>1. total' = total /\ perRepo' = perRepo /\ leader' = leader /\ current' = current
    BY <1>9
  <2> QED BY <2>1, <1>2, <1>6
<1>10. ASSUME NEW w \in Worker, WorkerStep(w) \/ CrashWorker(w) \/ PassDeadline(w) PROVE UNCHANGED leaderVars
  BY <1>10 DEF WorkerStep, BeginAttempt, BeginRun, ReachTerminal, FinishWork, FailWork, FailAttempt, FinishRun,
     CrashWorker, PassDeadline
<1>11. ASSUME NEW a \in Attempt, ManualStep(a) \/ ManualRetry(a) \/ Enqueue(a) PROVE UNCHANGED leaderVars
  BY <1>11 DEF ManualStep, ManualStartRun, ManualReachTerminal, ManualFinish, ManualFailInstance, ManualFail,
     ManualFinishRun, ManualRetry, Enqueue
<1>12. CASE TerminateTracked
  <2>1. total' = total /\ perRepo' = perRepo /\ leader' = leader /\ current' = current
    BY <1>12 DEF TerminateTracked
  <2> QED BY <2>1, <1>2, <1>6
<1>13. CASE CrashLeader
  <2>1. leader' \notin Starting \cup {"start"}
    BY <1>13 DEF CrashLeader, Starting
  <2> QED BY <2>1, <1>2, <1>6
<1>14. CASE UNCHANGED vars
  BY <1>9, <1>14 DEF vars
<1> QED
  BY <1>5, <1>7, <1>8, <1>9, <1>10, <1>11, <1>12, <1>13, <1>14 DEF Next, LeaderStep, Environment

(* At the start nothing runs and nothing is counted. *)
LEMMA InitCapacity == Init => StatusInv /\ CapacityInv
<1> SUFFICES ASSUME Init PROVE StatusInv /\ CapacityInv
  OBVIOUS
<1>1. IndInv
  BY InitInductive
<1>2. StatusParts
  BY DEF Init, StatusParts, ProcessStatus, HandledIsGone, Handled, HandledStatus, NobodyRetries, Alive, LivePc,
     Settled
<1>3. Running = {} /\ \A r \in Repo : RunningIn(r) = {}
  BY DEF Init, Running, RunningIn
<1>4. WithinLimits
  BY <1>3, FS_EmptySet, LimitsAssumption DEF WithinLimits
<1>5. Counted
  BY DEF Init, Counted, Starting
<1> QED BY <1>1, <1>2, <1>4, <1>5 DEF StatusInv, CapacityInv

(* No more attempts run than workers.max_global, and no more of one        *)
(* repository than workers.max_per_repo, though the leader reads the       *)
(* counts once per cycle and workers finish, crash and are judged while it *)
(* starts others.                                                          *)
THEOREM LimitsAreKept ==
    ASSUME "recordPid" \notin CrashWindows
    PROVE  Spec => []WithinCapacity
<1>1. CASE ManualRetryable # {}
  <2>2. WithinCapacity
    BY <1>1 DEF WithinCapacity
  <2> QED BY <2>2, PTL
<1>2. CASE ManualRetryable = {}
  <2>1. Init => StatusInv /\ CapacityInv
    BY InitCapacity
  <2>2. StatusInv /\ CapacityInv /\ [Next]_vars => (StatusInv /\ CapacityInv)'
    BY <1>2, NextStatus, NextCapacity
  <2>3. CapacityInv => WithinCapacity
    BY DEF CapacityInv, WithinLimits, WithinCapacity
  <2> QED BY <2>1, <2>2, <2>3, PTL DEF Spec
<1> QED BY <1>1, <1>2

(***************************************************************************)
(* Attempts and runs                                                       *)
(***************************************************************************)

\* A process that a row names is one of the row's attempt.
PidsAgree ==
    /\ \A a \in Attempt : assigned[a] # NoWorker => AttemptOf(assigned[a]) = a
    /\ \A w \in Worker : pid[w] # NoWorker => AttemptOf(pid[w]) = AttemptOf(w)
    /\ \A s \in snapshot : s.pid # NoWorker => AttemptOf(s.pid) = AttemptOf(s.worker)

(* Every step keeps that: a process writes its pid to a row of its own     *)
(* attempt.                                                                *)
LEMMA NextPids == IndInv /\ PidsAgree /\ [Next]_vars => PidsAgree'
<1> SUFFICES ASSUME IndInv, PidsAgree, [Next]_vars PROVE PidsAgree'
  OBVIOUS
<1> USE WorkerFacts
<1> USE DEF IndInv, TypeOK, TableTypes, ProcessTypes, LeaderTypes, attemptVars,
    workerVars, processVars, cycleVars, leaderVars, PidsAgree, LeaderLocals, Between
<1>1. ASSUME BeginReconcile PROVE PidsAgree'
  <2>1. PICK stale \in SUBSET WatchedWorkers :
          snapshot' = {[worker |-> w, pid |-> pid[w],
                        late |-> w \in stale \/ row[w] = "overdue"] : w \in WatchedWorkers}
    BY <1>1 DEF BeginReconcile
  <2>2. \A s \in snapshot' : \E w \in Worker : s.worker = w /\ s.pid = pid[w]
    BY <2>1 DEF WatchedWorkers
  <2>3. UNCHANGED <<assigned, pid>>
    BY <1>1 DEF BeginReconcile
  <2> QED BY <2>2, <2>3
<1>2. ASSUME NEW s \in snapshot, JudgeCrashed(s) PROVE PidsAgree'
  BY <1>2 DEF JudgeCrashed, FailAndRetry
<1>3. ASSUME NEW s \in snapshot, JudgeTimedOut(s) PROVE PidsAgree'
  BY <1>3 DEF JudgeTimedOut, FailAndRetry
<1>4. ASSUME NEW s \in snapshot, LeaveRunning(s) PROVE PidsAgree'
  BY <1>4 DEF LeaveRunning
<1>5. ASSUME MarkWorkerExited PROVE PidsAgree'
  BY <1>5 DEF MarkWorkerExited
<1>6. ASSUME Requeue PROVE PidsAgree'
  BY <1>6 DEF Requeue, RequeueAttempt
<1>7. ASSUME RequeueRun PROVE PidsAgree'
  BY <1>7 DEF RequeueRun, Resume
<1>8. ASSUME FinishFailed PROVE PidsAgree'
  BY <1>8 DEF FinishFailed, FinishAttempt
<1>9. ASSUME FinishFailedRun PROVE PidsAgree'
  BY <1>9 DEF FinishFailedRun, Resume
<1>10. ASSUME FailInstance PROVE PidsAgree'
  BY <1>10 DEF FailInstance, Resume
<1>11. ASSUME BeginStart PROVE PidsAgree'
  BY <1>11 DEF BeginStart
<1>12. ASSUME EndStart PROVE PidsAgree'
  BY <1>12 DEF EndStart
<1>13. ASSUME NEW a \in Attempt, SkipRepo(a) PROVE PidsAgree'
  BY <1>13 DEF SkipRepo
<1>14. ASSUME NEW a \in Attempt, StartQueued(a) PROVE PidsAgree'
  BY <1>14 DEF StartQueued, StartAttempt
<1>15. ASSUME StartRun PROVE PidsAgree'
  BY <1>15 DEF StartRun
<1>16. ASSUME Spawn PROVE PidsAgree'
  BY <1>16 DEF Spawn
<1>17. ASSUME SpawnFails PROVE PidsAgree'
  BY <1>17 DEF SpawnFails
<1>18. ASSUME RecordPid PROVE PidsAgree'
  BY <1>18 DEF RecordPid, Resume
<1>19. ASSUME NEW w \in Worker, BeginAttempt(w) PROVE PidsAgree'
  BY <1>19 DEF BeginAttempt, StartAttempt
<1>20. ASSUME NEW w \in Worker, BeginRun(w) PROVE PidsAgree'
  BY <1>20 DEF BeginRun
<1>21. ASSUME NEW w \in Worker, ReachTerminal(w) PROVE PidsAgree'
  BY <1>21 DEF ReachTerminal
<1>22. ASSUME NEW w \in Worker, FinishWork(w) PROVE PidsAgree'
  BY <1>22 DEF FinishWork, FinishAttempt, ResultStatus
<1>23. ASSUME NEW w \in Worker, FailWork(w) PROVE PidsAgree'
  BY <1>23 DEF FailWork
<1>24. ASSUME NEW w \in Worker, FailAttempt(w) PROVE PidsAgree'
  BY <1>24 DEF FailAttempt, FinishAttempt
<1>25. ASSUME NEW w \in Worker, FinishRun(w) PROVE PidsAgree'
  BY <1>25 DEF FinishRun
<1>26. ASSUME NEW a \in Attempt, ManualStartRun(a) PROVE PidsAgree'
  BY <1>26 DEF ManualStartRun
<1>27. ASSUME NEW a \in Attempt, ManualReachTerminal(a) PROVE PidsAgree'
  BY <1>27 DEF ManualReachTerminal
<1>28. ASSUME NEW a \in Attempt, ManualFinish(a) PROVE PidsAgree'
  BY <1>28 DEF ManualFinish, FinishAttempt, ResultStatus
<1>29. ASSUME NEW a \in Attempt, ManualFailInstance(a) PROVE PidsAgree'
  BY <1>29 DEF ManualFailInstance
<1>30. ASSUME NEW a \in Attempt, ManualFail(a) PROVE PidsAgree'
  BY <1>30 DEF ManualFail, FinishAttempt
<1>31. ASSUME NEW a \in Attempt, ManualFinishRun(a) PROVE PidsAgree'
  BY <1>31 DEF ManualFinishRun
<1>32. ASSUME NEW a \in Attempt, Enqueue(a) PROVE PidsAgree'
  BY <1>32 DEF Enqueue
<1>33. ASSUME NEW a \in Attempt, ManualRetry(a) PROVE PidsAgree'
  BY <1>33 DEF ManualRetry
<1>34. ASSUME NEW w \in Worker, CrashWorker(w) PROVE PidsAgree'
  BY <1>34 DEF CrashWorker
<1>35. ASSUME NEW w \in Worker, PassDeadline(w) PROVE PidsAgree'
  BY <1>35 DEF PassDeadline
<1>36. ASSUME TerminateTracked PROVE PidsAgree'
  BY <1>36 DEF TerminateTracked
<1>37. ASSUME CrashLeader PROVE PidsAgree'
  BY <1>37 DEF CrashLeader
<1>38. CASE UNCHANGED vars
  BY <1>38 DEF vars
<1> HIDE DEF PidsAgree
<1> QED
  BY <1>1, <1>2, <1>3, <1>4, <1>5, <1>6, <1>7, <1>8, <1>9, <1>10, <1>11, <1>12,
      <1>13, <1>14, <1>15, <1>16, <1>17, <1>18, <1>19, <1>20, <1>21, <1>22, <1>23,
      <1>24, <1>25, <1>26, <1>27, <1>28, <1>29, <1>30, <1>31, <1>32, <1>33, <1>34,
      <1>35, <1>36, <1>37, <1>38 DEF Next, LeaderStep, ReconcileStep, StartStep,
      WorkerStep, ManualStep, Environment

(* Every step keeps a settled attempt and its run together, or leaves      *)
(* somebody who closes the run.                                            *)
LEMMA NextClosed ==
    ASSUME ManualRetryable = {}, (Closing \cup Settled) \cap CrashWindows = {}
    PROVE  StatusInv /\ PidsAgree /\ ClosedInv /\ [Next]_vars => ClosedInv'
<1> SUFFICES ASSUME StatusInv, PidsAgree, ClosedInv, [Next]_vars PROVE ClosedInv'
  OBVIOUS
<1> USE WorkerFacts
<1> USE DEF StatusInv, IndInv, TypeOK, TableTypes, ProcessTypes, LeaderTypes, attemptVars,
    workerVars, processVars, cycleVars, leaderVars
<1> USE DEF StatusParts, ProcessStatus, HandledStatus, NobodyRetries, ClosedInv, LeaderHandles, Closing, PidsAgree
<1> USE DEF LeaderLocals, OneProcessPerAttempt, Alive, LivePc, Settled, Between
<1>1. ASSUME BeginReconcile PROVE ClosedInv'
  BY <1>1 DEF BeginReconcile
<1>2. ASSUME NEW s \in snapshot, JudgeCrashed(s) PROVE ClosedInv'
  BY <1>2 DEF JudgeCrashed, FailAndRetry
<1>3. ASSUME NEW s \in snapshot, JudgeTimedOut(s) PROVE ClosedInv'
  BY <1>3 DEF JudgeTimedOut, FailAndRetry, Victim, SnapshotIsGood
<1>4. ASSUME NEW s \in snapshot, LeaveRunning(s) PROVE ClosedInv'
  BY <1>4 DEF LeaveRunning
<1>5. ASSUME MarkWorkerExited PROVE ClosedInv'
  BY <1>5 DEF MarkWorkerExited
<1>6. ASSUME Requeue PROVE ClosedInv'
  BY <1>6 DEF Requeue, RequeueAttempt
<1>7. ASSUME RequeueRun PROVE ClosedInv'
  BY <1>7 DEF RequeueRun, Resume
<1>8. ASSUME FinishFailed PROVE ClosedInv'
  BY <1>8 DEF FinishFailed, FinishAttempt
<1>9. ASSUME FinishFailedRun PROVE ClosedInv'
  BY <1>9 DEF FinishFailedRun, Resume
<1>10. ASSUME FailInstance PROVE ClosedInv'
  BY <1>10 DEF FailInstance, Resume
<1>11. ASSUME BeginStart PROVE ClosedInv'
  BY <1>11 DEF BeginStart
<1>12. ASSUME EndStart PROVE ClosedInv'
  BY <1>12 DEF EndStart
<1>13. ASSUME NEW a \in Attempt, SkipRepo(a) PROVE ClosedInv'
  BY <1>13 DEF SkipRepo
<1>14. ASSUME NEW a \in Attempt, StartQueued(a) PROVE ClosedInv'
  BY <1>14 DEF StartQueued, StartAttempt
<1>15. ASSUME StartRun PROVE ClosedInv'
  BY <1>15 DEF StartRun
<1>16. ASSUME Spawn PROVE ClosedInv'
  BY <1>16 DEF Spawn
<1>17. ASSUME SpawnFails PROVE ClosedInv'
  BY <1>17 DEF SpawnFails
<1>18. ASSUME RecordPid PROVE ClosedInv'
  BY <1>18 DEF RecordPid, Resume
<1>19. ASSUME NEW w \in Worker, BeginAttempt(w) PROVE ClosedInv'
  BY <1>19 DEF BeginAttempt, StartAttempt
<1>20. ASSUME NEW w \in Worker, BeginRun(w) PROVE ClosedInv'
  BY <1>20 DEF BeginRun
<1>21. ASSUME NEW w \in Worker, ReachTerminal(w) PROVE ClosedInv'
  BY <1>21 DEF ReachTerminal
<1>22. ASSUME NEW w \in Worker, FinishWork(w) PROVE ClosedInv'
  BY <1>22 DEF FinishWork, FinishAttempt, ResultStatus
<1>23. ASSUME NEW w \in Worker, FailWork(w) PROVE ClosedInv'
  BY <1>23 DEF FailWork
<1>24. ASSUME NEW w \in Worker, FailAttempt(w) PROVE ClosedInv'
  BY <1>24 DEF FailAttempt, FinishAttempt
<1>25. ASSUME NEW w \in Worker, FinishRun(w) PROVE ClosedInv'
  BY <1>25 DEF FinishRun
<1>26. ASSUME NEW a \in Attempt, ManualStartRun(a) PROVE ClosedInv'
  BY <1>26 DEF ManualStartRun
<1>27. ASSUME NEW a \in Attempt, ManualReachTerminal(a) PROVE ClosedInv'
  BY <1>27 DEF ManualReachTerminal
<1>28. ASSUME NEW a \in Attempt, ManualFinish(a) PROVE ClosedInv'
  BY <1>28 DEF ManualFinish, FinishAttempt, ResultStatus
<1>29. ASSUME NEW a \in Attempt, ManualFailInstance(a) PROVE ClosedInv'
  BY <1>29 DEF ManualFailInstance
<1>30. ASSUME NEW a \in Attempt, ManualFail(a) PROVE ClosedInv'
  BY <1>30 DEF ManualFail, FinishAttempt
<1>31. ASSUME NEW a \in Attempt, ManualFinishRun(a) PROVE ClosedInv'
  BY <1>31 DEF ManualFinishRun
<1>32. ASSUME NEW a \in Attempt, Enqueue(a) PROVE ClosedInv'
  BY <1>32 DEF Enqueue
<1>33. ASSUME NEW a \in Attempt, ManualRetry(a) PROVE ClosedInv'
  BY <1>33 DEF ManualRetry
<1>34. ASSUME NEW w \in Worker, CrashWorker(w) PROVE ClosedInv'
  BY <1>34 DEF CrashWorker
<1>35. ASSUME NEW w \in Worker, PassDeadline(w) PROVE ClosedInv'
  BY <1>35 DEF PassDeadline
<1>36. ASSUME TerminateTracked PROVE ClosedInv'
  BY <1>36 DEF TerminateTracked
<1>37. ASSUME CrashLeader PROVE ClosedInv'
  BY <1>37 DEF CrashLeader
<1>38. CASE UNCHANGED vars
  BY <1>38 DEF vars
<1> HIDE DEF ClosedInv
<1> QED
  BY <1>1, <1>2, <1>3, <1>4, <1>5, <1>6, <1>7, <1>8, <1>9, <1>10, <1>11, <1>12,
      <1>13, <1>14, <1>15, <1>16, <1>17, <1>18, <1>19, <1>20, <1>21, <1>22, <1>23,
      <1>24, <1>25, <1>26, <1>27, <1>28, <1>29, <1>30, <1>31, <1>32, <1>33, <1>34,
      <1>35, <1>36, <1>37, <1>38 DEF Next, LeaderStep, ReconcileStep, StartStep,
      WorkerStep, ManualStep, Environment

(* A settled attempt on which nobody is at work has a run of the same      *)
(* status: of the two transactions that write them the second is never     *)
(* lost, unless a process dies right between them.                         *)
THEOREM RunsAreClosed ==
    ASSUME ManualRetryable = {}, "recordPid" \notin CrashWindows, (Closing \cup Settled) \cap CrashWindows = {}
    PROVE  Spec => []SettledRunIsClosed
<1>1. Init => StatusInv /\ PidsAgree /\ ClosedInv
  BY InitCapacity DEF Init, ClosedInv, Settled, PidsAgree
<1>2. StatusInv /\ PidsAgree /\ ClosedInv /\ [Next]_vars => (StatusInv /\ PidsAgree /\ ClosedInv)'
  BY NextStatus, NextPids, NextClosed DEF StatusInv
<1>3. ClosedInv => SettledRunIsClosed
  BY DEF ClosedInv, SettledRunIsClosed
<1> QED BY <1>1, <1>2, <1>3, PTL DEF Spec

=============================================================================
