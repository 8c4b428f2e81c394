------------------------- MODULE MCWorkerLifecycle -------------------------
(***************************************************************************)
(* Instances of WorkerLifecycle for TLC.                                   *)
(***************************************************************************)
EXTENDS WorkerLifecycle, TLC

CONSTANTS a1, a2, r1

\* Two attempts compete for the slots of one repository.
TwoAttempts == {a1, a2}
OneRepo == {r1}
RepoOfTwo == a1 :> r1 @@ a2 :> r1

\* Every step at which a crash of the leader or of a worker neither loses a
\* running attempt nor lets two processes work on one.
RecoverableWindows ==
    (LeaderPc \cup LivePc) \ {"requeue", "finish", "recordPid"}

\* Those of them at which it does not leave the run of a settled attempt open.
\* ("mark" is among the others because reconcile may have killed a worker that
\* had recorded its result after the snapshot was read.)
ClosingWindows ==
    RecoverableWindows \ {"mark", "finishRun", "spawnFailedRun", "review", "done", "failed"}
============================================================================
