-------------------------- MODULE RuntimeLeaseProofs --------------------------
(***************************************************************************)
(* Proofs about RuntimeLease: for any number of servers, started, stopped  *)
(* and crashing at any time, no two cycles overlap and the loop of a running  *)
(* server stays, as long as a cycle is shorter than the lease, a server    *)
(* runs one requested cycle at a time and stop() waits for the loop.       *)
(***************************************************************************)
EXTENDS RuntimeLease, TLAPS

(***************************************************************************)
(* Threads and types                                                       *)
(***************************************************************************)

(* A thread is a slot of a process; the loop is one of them. *)
LEMMA ThreadFacts ==
    /\ \A t \in Thread : ProcessOf(t) \in Process /\ t[2] \in Slot
    /\ \A t, u \in Thread : ProcessOf(t) = ProcessOf(u) /\ t[2] = u[2] => t = u
    /\ \A p \in Process : Loop(p) \in Thread /\ ProcessOf(Loop(p)) = p /\
        IsLoop(Loop(p))
    /\ \A t \in Thread : IsLoop(t) => t = Loop(ProcessOf(t))
    /\ \A p \in Process : Requests(p) \subseteq Thread
    /\ \A p \in Process, t \in Thread :
         t \in Requests(p) <=> ProcessOf(t) = p /\ ~IsLoop(t)
BY NameAssumption DEF Thread, Slot, ProcessOf, Loop, IsLoop, Requests

(* The initial state is of the right types. *)
LEMMA InitTypes == Init => TypeOK
BY TimeAssumption DEF Init, TypeOK, MainPc, ThreadPc

(* Every step keeps them: the ages stay below the time to live. *)
LEMMA NextTypes == TypeOK /\ [Next]_vars => TypeOK'
<1> SUFFICES ASSUME TypeOK, [Next]_vars PROVE TypeOK'
  OBVIOUS
<1> USE ThreadFacts, TimeAssumption, NameAssumption
<1> USE DEF TypeOK, MainPc, ThreadPc, CyclePc, BetweenPc, rowVars, mainVars,
    threadVars
<1>1. ASSUME NEW p \in Process, StartAcquire(p) PROVE TypeOK'
  BY <1>1 DEF StartAcquire, MayAcquire, Acquire
<1>2. ASSUME NEW p \in Process, StartLoop(p) PROVE TypeOK'
  BY <1>2 DEF StartLoop
<1>3. ASSUME NEW t \in Thread, BeginRequest(t) PROVE TypeOK'
  BY <1>3 DEF BeginRequest
<1>4. ASSUME NEW t \in Thread, Ensure(t) PROVE TypeOK'
  BY <1>4 DEF Ensure, MayAcquire, Acquire, AfterCycle, AgeAt
<1>5. ASSUME NEW t \in Thread, TryCycleLock(t) PROVE TypeOK'
  <2>1. AfterCycle(t) \in ThreadPc /\ AgeAt(t, AfterCycle(t)) \in 0..(TTL - 1)
    BY DEF AfterCycle, AgeAt
  <2>2. pc' \in [Thread -> ThreadPc]
    BY <1>5, <2>1 DEF TryCycleLock
  <2>3. age' \in [Thread -> 0..(TTL - 1)]
    BY <1>5, <2>1 DEF TryCycleLock
  <2>4. cycleLock' \in [Process -> Slot \cup {Free}]
    BY <1>5 DEF TryCycleLock
  <2> QED BY <1>5, <2>2, <2>3, <2>4 DEF TryCycleLock
<1>6. ASSUME NEW t \in Thread, ReadRunning(t) PROVE TypeOK'
  BY <1>6 DEF ReadRunning
<1>7. ASSUME NEW t \in Thread, EndBody(t) PROVE TypeOK'
  BY <1>7 DEF EndBody
<1>8. ASSUME NEW t \in Thread, Unlock(t) PROVE TypeOK'
  BY <1>8 DEF Unlock, AfterCycle, AgeAt
<1>9. ASSUME NEW t \in Thread, ReleaseAfterCycle(t) PROVE TypeOK'
  BY <1>9 DEF ReleaseAfterCycle, Release, AfterCycle, AgeAt
<1>10. ASSUME NEW t \in Thread, LoopTop(t) PROVE TypeOK'
  BY <1>10 DEF LoopTop
<1>11. ASSUME NEW t \in Thread, Refresh(t) PROVE TypeOK'
  <2>1. CASE owner = ProcessOf(t)
    BY <1>11, <2>1 DEF Refresh
  <2>2. CASE owner # ProcessOf(t)
    <3>1. /\ running' = [running EXCEPT ![ProcessOf(t)] = FALSE]
          /\ pc' = [pc EXCEPT ![t] = "ended"]
          /\ UNCHANGED rowVars
      BY <1>11, <2>2 DEF Refresh
    <3>2. age' \in [Thread -> 0..(TTL - 1)]
      BY <1>11 DEF Refresh
    <3> QED BY <1>11, <3>1, <3>2 DEF Refresh
  <2> QED BY <2>1, <2>2
<1>12. ASSUME NEW t \in Thread, EndWait(t) PROVE TypeOK'
  BY <1>12 DEF EndWait
<1>13. ASSUME NEW p \in Process, SetStop(p) PROVE TypeOK'
  BY <1>13 DEF SetStop
<1>14. ASSUME NEW p \in Process, Join(p) PROVE TypeOK'
  BY <1>14 DEF Join
<1>15. ASSUME NEW p \in Process, StopRelease(p) PROVE TypeOK'
  BY <1>15 DEF StopRelease, Release
<1>16. ASSUME NEW p \in Process, Exit(p) PROVE TypeOK'
  BY <1>16 DEF Exit, EndThreads
<1>17. ASSUME NEW p \in Process, Crash(p) PROVE TypeOK'
  BY <1>17 DEF Crash, EndThreads
<1>18. ASSUME Tick PROVE TypeOK'
  BY <1>18 DEF Tick, InTime, Counts
<1>19. CASE UNCHANGED vars
  BY <1>19 DEF vars
<1> QED
  BY <1>1, <1>2, <1>3, <1>4, <1>5, <1>6, <1>7, <1>8, <1>9, <1>10, <1>11, <1>12,
      <1>13, <1>14, <1>15, <1>16, <1>17, <1>18, <1>19 DEF Next, CycleStep, LoopStep,
      MainStep

(* Every variable keeps its type, and no lease exceeds the time to live. *)
THEOREM TypesAreKept == Spec => []TypeOK
<1> QED BY InitTypes, NextTypes, PTL DEF Spec

(***************************************************************************)
(* One cycle at a time                                                     *)
(***************************************************************************)

(* Every step keeps the inductive invariant. *)
LEMMA NextPreserves ==
    ASSUME JoinTimesOut = FALSE, \A q, r \in Request : q = r
    PROVE  TypeOK /\ LeaseInv /\ [Next]_vars => LeaseInv'
<1> SUFFICES ASSUME TypeOK, TypeOK', LeaseInv, [Next]_vars PROVE LeaseInv'
  BY NextTypes
<1>0. \A t, u \in Thread :
         ProcessOf(t) = ProcessOf(u) /\ ~IsLoop(t) /\ ~IsLoop(u) => t = u
  BY DEF Thread, Slot, ProcessOf, IsLoop
<1> USE ThreadFacts, TimeAssumption, NameAssumption, <1>0
<1> USE DEF LeaseInv, ServerPhases, ReleasersAreAlone, LeaseCoversCycle, LockIsHeld,
    LeasedPc, LockedPc, NoLoop
<1> USE DEF TypeOK, MainPc, ThreadPc, CyclePc, BetweenPc, rowVars, mainVars,
    threadVars
<1>1. ASSUME NEW p \in Process, StartAcquire(p) PROVE LeaseInv'
  <2>1. ServerPhases'
    BY <1>1 DEF StartAcquire, MayAcquire, Acquire
  <2>2. ReleasersAreAlone'
    BY <1>1 DEF StartAcquire, MayAcquire, Acquire
  <2>3. LeaseCoversCycle'
    BY <1>1 DEF StartAcquire, MayAcquire, Acquire
  <2>4. LockIsHeld'
    BY <1>1 DEF StartAcquire, MayAcquire, Acquire
  <2> QED BY <2>1, <2>2, <2>3, <2>4
<1>2. ASSUME NEW p \in Process, StartLoop(p) PROVE LeaseInv'
  BY <1>2 DEF StartLoop
<1>3. ASSUME NEW t \in Thread, BeginRequest(t) PROVE LeaseInv'
  BY <1>3 DEF BeginRequest
<1>4. ASSUME NEW t \in Thread, Ensure(t) PROVE LeaseInv'
  <2>1. ServerPhases'
    BY <1>4 DEF Ensure, MayAcquire, Acquire, AfterCycle, AgeAt
  <2>2. ReleasersAreAlone'
    BY <1>4 DEF Ensure, MayAcquire, Acquire, AfterCycle, AgeAt
  <2>3. LeaseCoversCycle'
    BY <1>4 DEF Ensure, MayAcquire, Acquire, AfterCycle, AgeAt
  <2>4. LockIsHeld'
    BY <1>4 DEF Ensure, MayAcquire, Acquire, AfterCycle, AgeAt
  <2> QED BY <2>1, <2>2, <2>3, <2>4
<1>5. ASSUME NEW t \in Thread, TryCycleLock(t) PROVE LeaseInv'
  <2>1. ServerPhases'
    BY <1>5 DEF TryCycleLock, AfterCycle, AgeAt
  <2>2. ReleasersAreAlone'
    BY <1>5 DEF TryCycleLock, AfterCycle, AgeAt
  <2>3. LeaseCoversCycle'
    BY <1>5 DEF TryCycleLock, AfterCycle, AgeAt
  <2>4. LockIsHeld'
    BY <1>5 DEF TryCycleLock, AfterCycle, AgeAt
  <2> QED BY <2>1, <2>2, <2>3, <2>4
<1>6. ASSUME NEW t \in Thread, ReadRunning(t) PROVE LeaseInv'
  BY <1>6 DEF ReadRunning
<1>7. ASSUME NEW t \in Thread, EndBody(t) PROVE LeaseInv'
  BY <1>7 DEF EndBody
<1>8. ASSUME NEW t \in Thread, Unlock(t) PROVE LeaseInv'
  BY <1>8 DEF Unlock, AfterCycle, AgeAt
<1>9. ASSUME NEW t \in Thread, ReleaseAfterCycle(t) PROVE LeaseInv'
  <2>1. ServerPhases'
    BY <1>9 DEF ReleaseAfterCycle, Release, AfterCycle, AgeAt
  <2>2. ReleasersAreAlone'
    BY <1>9 DEF ReleaseAfterCycle, Release, AfterCycle, AgeAt
  <2>5. NoLoop(ProcessOf(t)) /\ ~IsLoop(t)
    BY <1>9 DEF ReleaseAfterCycle
  <2>6. \A u \in Thread : ProcessOf(u) = ProcessOf(t) => pc[u] \notin LeasedPc
    BY <1>9, <2>5 DEF ReleaseAfterCycle
  <2>7. ASSUME owner = ProcessOf(t) PROVE LeaseCoversCycle'
    BY <1>9, <2>6, <2>7 DEF ReleaseAfterCycle, AfterCycle, AgeAt
  <2>8. ASSUME owner # ProcessOf(t) PROVE LeaseCoversCycle'
    BY <1>9, <2>6, <2>8 DEF ReleaseAfterCycle, Release, AfterCycle, AgeAt
  <2>3. LeaseCoversCycle'
    BY <2>7, <2>8
  <2>4. LockIsHeld'
    BY <1>9 DEF ReleaseAfterCycle, Release, AfterCycle, AgeAt
  <2> QED BY <2>1, <2>2, <2>3, <2>4
<1>10. ASSUME NEW t \in Thread, LoopTop(t) PROVE LeaseInv'
  BY <1>10 DEF LoopTop
<1>11. ASSUME NEW t \in Thread, Refresh(t) PROVE LeaseInv'
  <2>1. CASE owner = ProcessOf(t)
    <3>1. lease' = TTL /\ owner' = owner /\ pc' = [pc EXCEPT ![t] = "wait"]
      BY <1>11, <2>1 DEF Refresh
    <3>2. LeaseCoversCycle'
      BY <1>11, <2>1, <3>1 DEF Refresh
    <3>3. ServerPhases' /\ ReleasersAreAlone' /\ LockIsHeld'
      BY <1>11, <2>1, <3>1 DEF Refresh
    <3> QED BY <3>2, <3>3
  <2>2. CASE owner # ProcessOf(t)
    <3>1. /\ running' = [running EXCEPT ![ProcessOf(t)] = FALSE]
          /\ pc' = [pc EXCEPT ![t] = "ended"]
          /\ UNCHANGED rowVars
      BY <1>11, <2>2 DEF Refresh
    <3>2. LeaseCoversCycle'
      BY <1>11, <2>2, <3>1 DEF Refresh
    <3>3. ServerPhases' /\ ReleasersAreAlone' /\ LockIsHeld'
      BY <1>11, <2>2, <3>1 DEF Refresh
    <3> QED BY <3>2, <3>3
  <2> QED BY <2>1, <2>2
<1>12. ASSUME NEW t \in Thread, EndWait(t) PROVE LeaseInv'
  BY <1>12 DEF EndWait
<1>13. ASSUME NEW p \in Process, SetStop(p) PROVE LeaseInv'
  BY <1>13 DEF SetStop
<1>14. ASSUME NEW p \in Process, Join(p) PROVE LeaseInv'
  BY <1>14 DEF Join
<1>15. ASSUME NEW p \in Process, StopRelease(p) PROVE LeaseInv'
  BY <1>15 DEF StopRelease, Release
<1>16. ASSUME NEW p \in Process, Exit(p) PROVE LeaseInv'
  <2>1. ServerPhases'
    BY <1>16 DEF Exit, EndThreads
  <2>2. ReleasersAreAlone'
    BY <1>16 DEF Exit, EndThreads
  <2>3. LeaseCoversCycle'
    BY <1>16 DEF Exit, EndThreads
  <2>4. LockIsHeld'
    BY <1>16 DEF Exit, EndThreads
  <2> QED BY <2>1, <2>2, <2>3, <2>4
<1>17. ASSUME NEW p \in Process, Crash(p) PROVE LeaseInv'
  <2>1. ServerPhases'
    BY <1>17 DEF Crash, EndThreads
  <2>2. ReleasersAreAlone'
    BY <1>17 DEF Crash, EndThreads
  <2>3. LeaseCoversCycle'
    BY <1>17 DEF Crash, EndThreads
  <2>4. LockIsHeld'
    BY <1>17 DEF Crash, EndThreads
  <2> QED BY <2>1, <2>2, <2>3, <2>4
<1>18. ASSUME Tick PROVE LeaseInv'
  BY <1>18 DEF Tick, InTime, Counts
<1>19. CASE UNCHANGED vars
  BY <1>19 DEF vars
<1> QED
  BY <1>1, <1>2, <1>3, <1>4, <1>5, <1>6, <1>7, <1>8, <1>9, <1>10, <1>11, <1>12,
      <1>13, <1>14, <1>15, <1>16, <1>17, <1>18, <1>19 DEF Next, CycleStep, LoopStep,
      MainStep

(* The inductive invariant holds throughout. *)
LEMMA Inductive ==
    ASSUME JoinTimesOut = FALSE, \A q, r \in Request : q = r
    PROVE  Spec => [](TypeOK /\ LeaseInv)
<1>1. Init => TypeOK /\ LeaseInv
  <2> SUFFICES ASSUME Init PROVE TypeOK /\ LeaseInv
    OBVIOUS
  <2>1. TypeOK
    BY InitTypes
  <2>2. \A t \in Thread : pc[t] = "none" /\ ~releaseAfter[t]
    BY DEF Init
  <2>3. \A p \in Process : main[p] = "off" /\ NoLoop(p) /\ \A t \in Requests(p) : pc[t] = "none"
    BY <2>2, ThreadFacts DEF Init, NoLoop
  <2>4. LeaseInv
    BY <2>2, <2>3, ThreadFacts DEF LeaseInv, ServerPhases, ReleasersAreAlone,
       LeaseCoversCycle, LockIsHeld, LeasedPc, LockedPc
  <2> QED BY <2>1, <2>4
<1>2. TypeOK /\ LeaseInv /\ [Next]_vars => (TypeOK /\ LeaseInv)'
  BY NextPreserves, NextTypes
<1> QED BY <1>1, <1>2, PTL DEF Spec

(* In two processes the owner of the row, in one the holder of the lock    *)
(* decides which thread is in a cycle.                                     *)
LEMMA CyclesExclude == TypeOK /\ LeaseInv => OneCycleAtATime /\ CycleHoldsLease
BY ThreadFacts, TimeAssumption DEF TypeOK, LeaseInv, LeaseCoversCycle, LockIsHeld,
    LeasedPc, LockedPc, OneCycleAtATime, CycleHoldsLease, InBody

(* No two cycles run at the same time, and each ends within its lease: for *)
(* any number of servers, any poll interval, time to live and bound on the *)
(* length of a cycle below it.                                             *)
THEOREM CyclesDoNotOverlap ==
    ASSUME JoinTimesOut = FALSE, \A q, r \in Request : q = r
    PROVE  Spec => [](OneCycleAtATime /\ CycleHoldsLease)
<1> QED BY Inductive, CyclesExclude, PTL


(***************************************************************************)
(* Refinement                                                              *)
(***************************************************************************)

(* The one process with a thread in its body is Runner. *)
RunnerIsInBody ==
    /\ \A p \in Process : InBody(p) => Runner = p
    /\ (\A p \in Process : ~InBody(p)) => Runner = Nobody

LEMMA RunnerOfBody == OneCycleAtATime => RunnerIsInBody
<1> SUFFICES ASSUME OneCycleAtATime PROVE RunnerIsInBody
  OBVIOUS
<1>1. \A p, q \in Process : InBody(p) /\ InBody(q) => p = q
  BY DEF OneCycleAtATime, InBody
<1> QED BY <1>1 DEF RunnerIsInBody, Runner

(* Only ReadRunning begins a body. *)
LEMMA BodyBegins ==
    ASSUME TypeOK, Next, NEW t \in Thread, pc[t] # "body", pc'[t] = "body"
    PROVE  ReadRunning(t)
<1> USE ThreadFacts
<1> USE DEF TypeOK, rowVars, mainVars, threadVars
<1>1. ASSUME NEW p \in Process, StartAcquire(p) PROVE FALSE
  BY <1>1 DEF StartAcquire
<1>2. ASSUME NEW p \in Process, StartLoop(p) PROVE FALSE
  BY <1>2 DEF StartLoop
<1>3. ASSUME NEW u \in Thread, BeginRequest(u) PROVE FALSE
  BY <1>3 DEF BeginRequest
<1>4. ASSUME NEW u \in Thread, Ensure(u) PROVE FALSE
  BY <1>4 DEF Ensure, AfterCycle
<1>5. ASSUME NEW u \in Thread, TryCycleLock(u) PROVE FALSE
  BY <1>5 DEF TryCycleLock, AfterCycle
<1>6. ASSUME NEW u \in Thread, ReadRunning(u) PROVE ReadRunning(t)
  BY <1>6 DEF ReadRunning
<1>7. ASSUME NEW u \in Thread, EndBody(u) PROVE FALSE
  BY <1>7 DEF EndBody
<1>8. ASSUME NEW u \in Thread, Unlock(u) PROVE FALSE
  BY <1>8 DEF Unlock, AfterCycle
<1>9. ASSUME NEW u \in Thread, ReleaseAfterCycle(u) PROVE FALSE
  BY <1>9 DEF ReleaseAfterCycle, AfterCycle
<1>10. ASSUME NEW u \in Thread, LoopTop(u) PROVE FALSE
  BY <1>10 DEF LoopTop
<1>11. ASSUME NEW u \in Thread, Refresh(u) PROVE FALSE
  BY <1>11 DEF Refresh
<1>12. ASSUME NEW u \in Thread, EndWait(u) PROVE FALSE
  BY <1>12 DEF EndWait
<1>13. ASSUME NEW p \in Process, SetStop(p) PROVE FALSE
  BY <1>13 DEF SetStop
<1>14. ASSUME NEW p \in Process, Join(p) PROVE FALSE
  BY <1>14 DEF Join
<1>15. ASSUME NEW p \in Process, StopRelease(p) PROVE FALSE
  BY <1>15 DEF StopRelease
<1>16. ASSUME NEW p \in Process, Exit(p) PROVE FALSE
  BY <1>16 DEF Exit, EndThreads
<1>17. ASSUME NEW p \in Process, Crash(p) PROVE FALSE
  BY <1>17 DEF Crash, EndThreads
<1>18. ASSUME Tick PROVE FALSE
  BY <1>18 DEF Tick
<1> QED
  BY <1>1, <1>2, <1>3, <1>4, <1>5, <1>6, <1>7, <1>8, <1>9, <1>10, <1>11, <1>12, <1>13, <1>14, <1>15, <1>16, <1>17, <1>18 DEF Next, CycleStep, LoopStep, MainStep

(* A process finds no other in a cycle when it begins one. *)
LEMMA SameRunner ==
    ASSUME TypeOK, OneCycleAtATime, OneCycleAtATime', Next,
           NEW p \in Process, InBody(p), NEW q \in Process, InBody(q)'
    PROVE  p = q
<1>1. PICK u \in Thread : ProcessOf(u) = p /\ pc[u] = "body"
  BY DEF InBody
<1>2. PICK t \in Thread : ProcessOf(t) = q /\ pc'[t] = "body"
  BY DEF InBody
<1>3. CASE pc[t] = "body"
  BY <1>1, <1>2, <1>3 DEF OneCycleAtATime
<1>4. CASE pc[t] # "body"
  <2>1. ReadRunning(t)
    BY <1>2, <1>4, BodyBegins
  <2>2. pc'[u] = "body"
    BY <1>1, <1>4, <2>1 DEF ReadRunning, TypeOK
  <2> QED BY <1>1, <1>2, <2>2 DEF OneCycleAtATime
<1> QED BY <1>3, <1>4

(* A step of the servers is a step of the abstract specification, or the   *)
(* same process (or none) stays in a cycle.                                *)
LEMMA StepRefines ==
    TypeOK /\ OneCycleAtATime /\ OneCycleAtATime' /\ [Next]_vars => [Abstract!Next]_Runner
<1> SUFFICES ASSUME TypeOK, OneCycleAtATime, OneCycleAtATime', [Next]_vars
             PROVE  [Abstract!Next]_Runner
  OBVIOUS
<1>1. RunnerIsInBody
  BY RunnerOfBody
<1>2. RunnerIsInBody'
  <2>1. (OneCycleAtATime => RunnerIsInBody)'
    BY RunnerOfBody, PTL
  <2> QED BY <2>1
<1>3. CASE UNCHANGED vars
  <2>1. \A p \in Process : InBody(p)' <=> InBody(p)
    BY <1>3 DEF vars, threadVars, InBody
  <2> QED BY <1>1, <1>2, <2>1 DEF RunnerIsInBody
<1>4. CASE Next
  <2>1. CASE \E p, q \in Process : InBody(p) /\ InBody(q)'
    BY <1>1, <1>2, <1>4, <2>1, SameRunner DEF RunnerIsInBody
  <2>2. CASE (\A p \in Process : ~InBody(p)) /\ (\A p \in Process : ~InBody(p)')
    BY <1>1, <1>2, <2>2 DEF RunnerIsInBody
  <2>3. CASE (\A p \in Process : ~InBody(p)) /\ (\E q \in Process : InBody(q)')
    BY <1>1, <1>2, <2>3 DEF RunnerIsInBody, Abstract!Next, Abstract!Begin
  <2>4. CASE (\E p \in Process : InBody(p)) /\ (\A q \in Process : ~InBody(q)')
    BY <1>1, <1>2, <2>4 DEF RunnerIsInBody, Abstract!Next, Abstract!End
  <2> QED BY <2>1, <2>2, <2>3, <2>4
<1> QED BY <1>3, <1>4

(* The runtimes of all servers together implement SingleCycle: a process   *)
(* begins a cycle only when no other process is in one.                    *)
THEOREM CyclesImplementSingleCycle ==
    ASSUME JoinTimesOut = FALSE, \A q, r \in Request : q = r
    PROVE  Spec => CyclesAreSingle
<1>1. Init => Abstract!Init
  <2>1. Init => \A p \in Process : ~InBody(p)
    BY DEF Init, InBody
  <2> QED BY <2>1 DEF Abstract!Init, Runner
<1>2. Spec => []TypeOK
  BY TypesAreKept
<1>3. Spec => []OneCycleAtATime
  BY CyclesDoNotOverlap, PTL
<1> QED BY <1>1, <1>2, <1>3, StepRefines, PTL DEF Spec, CyclesAreSingle, Abstract!Spec

(***************************************************************************)
(* The loop stays                                                          *)
(***************************************************************************)

(* A process with a loop owns the row, and the lease reaches to the loop's *)
(* next renewal: the end of a cycle, or of the wait for the next one.      *)
LoopIsLeased == \A p \in Process :
    /\ main[p] = "off" => age[Loop(p)] = 0
    /\ ~NoLoop(p) =>
         /\ owner = p /\ lease + age[Loop(p)] >= TTL
         /\ pc[Loop(p)] \in CyclePc => age[Loop(p)] <= MaxCycle
         /\ pc[Loop(p)] \in BetweenPc => age[Loop(p)] <= Poll

(* Every step keeps that: nobody else may take the row, since both bounds  *)
(* are below the time to live, and no thread beside a loop gives it up.    *)
LEMMA NextLeased == TypeOK /\ LeaseInv /\ LoopIsLeased /\ [Next]_vars => LoopIsLeased'
<1> SUFFICES ASSUME TypeOK, LeaseInv, LoopIsLeased, [Next]_vars PROVE LoopIsLeased'
  OBVIOUS
<1>0. \A p \in Process : ~NoLoop(p) => owner = p /\ lease > 0
  BY ThreadFacts, TimeAssumption DEF LoopIsLeased, NoLoop, TypeOK, ThreadPc, CyclePc, BetweenPc
<1> USE ThreadFacts, TimeAssumption, NameAssumption, <1>0
<1> USE DEF LoopIsLeased, NoLoop, TypeOK, ThreadPc, CyclePc, BetweenPc, rowVars, mainVars, threadVars
<1>1. ASSUME NEW p \in Process, StartAcquire(p) PROVE LoopIsLeased'
  <2>1. CASE MayAcquire(p)
    <3>1. owner' = p /\ lease' = TTL /\ age' = age
          /\ main' = [main EXCEPT ![p] = "starting"] /\ pc' = [pc EXCEPT ![Loop(p)] = "created"]
      BY <1>1, <2>1 DEF StartAcquire, Acquire
    <3>2. \A q \in Process : q # p => NoLoop(q)
      BY <2>1 DEF MayAcquire
    <3> QED BY <1>1, <3>1, <3>2 DEF StartAcquire
  <2>2. CASE ~MayAcquire(p)
    BY <1>1, <2>2 DEF StartAcquire
  <2> QED BY <2>1, <2>2
<1>2. ASSUME NEW p \in Process, StartLoop(p) PROVE LoopIsLeased'
  BY <1>2 DEF StartLoop, LeaseInv, ServerPhases
<1>3. ASSUME NEW t \in Thread, BeginRequest(t) PROVE LoopIsLeased'
  BY <1>3 DEF BeginRequest
<1>4. ASSUME NEW t \in Thread, Ensure(t) PROVE LoopIsLeased'
  <2>1. CASE MayAcquire(ProcessOf(t))
    <3>1. /\ owner' = ProcessOf(t) /\ lease' = TTL /\ main' = main
          /\ pc' = [pc EXCEPT ![t] = "tryLock"] /\ age' = [age EXCEPT ![t] = 0]
      BY <1>4, <2>1 DEF Ensure, Acquire
    <3>2. \A q \in Process : q # ProcessOf(t) => NoLoop(q)
      BY <2>1 DEF MayAcquire
    <3> QED BY <1>4, <3>1, <3>2
  <2>2. CASE ~MayAcquire(ProcessOf(t))
    <3>1. ~IsLoop(t)
      BY <1>4, <2>2 DEF Ensure, MayAcquire
    <3> QED BY <1>4, <2>2, <3>1 DEF Ensure, AfterCycle, AgeAt
  <2> QED BY <2>1, <2>2
<1>5. ASSUME NEW t \in Thread, TryCycleLock(t) PROVE LoopIsLeased'
  BY <1>5 DEF TryCycleLock, AfterCycle, AgeAt
<1>6. ASSUME NEW t \in Thread, ReadRunning(t) PROVE LoopIsLeased'
  BY <1>6 DEF ReadRunning
<1>7. ASSUME NEW t \in Thread, EndBody(t) PROVE LoopIsLeased'
  BY <1>7 DEF EndBody
<1>8. ASSUME NEW t \in Thread, Unlock(t) PROVE LoopIsLeased'
  BY <1>8 DEF Unlock, AfterCycle, AgeAt, LeaseInv, ReleasersAreAlone
<1>9. ASSUME NEW t \in Thread, ReleaseAfterCycle(t) PROVE LoopIsLeased'
  <2>1. NoLoop(ProcessOf(t)) /\ ~IsLoop(t) /\ pc[t] = "release"
    BY <1>9 DEF ReleaseAfterCycle, LeaseInv, ReleasersAreAlone
  <2>2. \A q \in Process : ~NoLoop(q) => UNCHANGED rowVars
    BY <1>9, <2>1 DEF ReleaseAfterCycle, Release
  <2>3. /\ pc' = [pc EXCEPT ![t] = "none"] /\ age' = [age EXCEPT ![t] = 0] /\ main' = main
    BY <1>9, <2>1 DEF ReleaseAfterCycle, AfterCycle, AgeAt
  <2> QED BY <2>1, <2>2, <2>3
<1>10. ASSUME NEW t \in Thread, LoopTop(t) PROVE LoopIsLeased'
  BY <1>10 DEF LoopTop
<1>11. ASSUME NEW t \in Thread, Refresh(t) PROVE LoopIsLeased'
  <2>1. owner = ProcessOf(t) /\ t = Loop(ProcessOf(t)) /\ ~NoLoop(ProcessOf(t))
    BY <1>11 DEF Refresh
  <2> QED BY <1>11, <2>1 DEF Refresh
<1>12. ASSUME NEW t \in Thread, EndWait(t) PROVE LoopIsLeased'
  BY <1>12 DEF EndWait
<1>13. ASSUME NEW p \in Process, SetStop(p) PROVE LoopIsLeased'
  BY <1>13 DEF SetStop
<1>14. ASSUME NEW p \in Process, Join(p) PROVE LoopIsLeased'
  BY <1>14 DEF Join
<1>15. ASSUME NEW p \in Process, StopRelease(p) PROVE LoopIsLeased'
  <2>1. NoLoop(p)
    BY <1>15 DEF StopRelease, LeaseInv, ServerPhases
  <2>2. \A q \in Process : ~NoLoop(q) => UNCHANGED rowVars
    BY <1>15, <2>1 DEF StopRelease, Release
  <2> QED BY <1>15, <2>2 DEF StopRelease
<1>16. ASSUME NEW p \in Process, Exit(p) PROVE LoopIsLeased'
  BY <1>16 DEF Exit, EndThreads
<1>17. ASSUME NEW p \in Process, Crash(p) PROVE LoopIsLeased'
  BY <1>17 DEF Crash, EndThreads
<1>18. ASSUME Tick PROVE LoopIsLeased'
  <2>1. \A p \in Process : ~NoLoop(p) => lease > 0 /\ lease' = lease - 1 /\ Counts(Loop(p)) /\ InTime(Loop(p))
    BY <1>18 DEF Tick, Counts
  <2>2. \A p \in Process : main[p] = "off" => NoLoop(p)
    BY DEF LeaseInv, ServerPhases
  <2>3. age' = [t \in Thread |-> IF Counts(t) THEN age[t] + 1 ELSE age[t]] /\ UNCHANGED <<owner, main, pc>>
    BY <1>18 DEF Tick
  <2> QED BY <2>1, <2>2, <2>3 DEF Counts, InTime
<1>19. CASE UNCHANGED vars
  BY <1>19 DEF vars
<1> QED
  BY <1>1, <1>2, <1>3, <1>4, <1>5, <1>6, <1>7, <1>8, <1>9, <1>10, <1>11, <1>12,
      <1>13, <1>14, <1>15, <1>16, <1>17, <1>18, <1>19 DEF Next, CycleStep, LoopStep,
      MainStep

(* While a server has a loop it owns the row, so that the loop always      *)
(* finds its lock and ends only with the server (_loop, stop).             *)
LEMMA LoopsEndTogether ==
    ASSUME TypeOK, LeaseInv, LoopIsLeased, [Next]_vars, NEW p \in Process, running[p], ~running'[p]
    PROVE  main'[p] = "gone"
<1> USE DEF rowVars, mainVars, threadVars
<1>1. ASSUME NEW t \in Thread, Refresh(t) PROVE running' = running
  BY <1>1, ThreadFacts DEF Refresh, LoopIsLeased, NoLoop
<1>2. ASSUME NEW q \in Process, Exit(q) \/ Crash(q) PROVE main'[p] = "gone"
  BY <1>2 DEF Exit, Crash, EndThreads, TypeOK
<1>3. ASSUME NEW q \in Process, StartLoop(q) PROVE FALSE
  BY <1>3 DEF StartLoop, TypeOK
<1> QED BY <1>1, <1>2, <1>3
    DEF Next, CycleStep, LoopStep, MainStep, vars, Ensure, TryCycleLock, ReadRunning, EndBody, Unlock,
        ReleaseAfterCycle, LoopTop, EndWait, BeginRequest, StartAcquire, SetStop, Join, StopRelease, Tick

(* The loop of a live server ends only with the server: for any number of  *)
(* servers, also while others start, wait for the row and run cycles for   *)
(* requests, no one takes the row from it (runtime.py, _loop and stop).    *)
THEOREM LoopsStay ==
    ASSUME JoinTimesOut = FALSE, \A q, r \in Request : q = r
    PROVE  Spec => LoopEndsWithServer
<1> DEFINE Ends == \A p \in Process : running[p] /\ ~running'[p] => main'[p] = "gone"
<1>1. Init => LoopIsLeased
  BY ThreadFacts DEF Init, LoopIsLeased, NoLoop
<1>2. TypeOK /\ LeaseInv /\ LoopIsLeased /\ [Next]_vars => [Ends]_vars
  BY LoopsEndTogether
<1> QED BY Inductive, NextLeased, <1>1, <1>2, PTL DEF Spec, LoopEndsWithServer
=============================================================================
