---------------------------- MODULE RuntimeLease ----------------------------
(***************************************************************************)
(* Who runs orchestration cycles: OrchestrationRuntime (runtime.py) in     *)
(* each process that serves the dashboard, and the row of runtime_locks    *)
(* (store.py) the processes compete for.  A process has the loop thread    *)
(* start() creates, and request threads in which "run cycle now", a board  *)
(* move or a chat run one cycle each.                                      *)
(*                                                                         *)
(* Time is counted in ticks.  The row's expires_at is the number of ticks  *)
(* it still has; each thread counts the ticks since it last renewed it.    *)
(***************************************************************************)
EXTENDS Naturals

CONSTANTS
    Process,         \* processes; a restarted server is a new one (owner_id)
    Request,         \* request threads of a process
    TTL,             \* _lock_ttl_seconds
    Poll,            \* workers.poll_interval_seconds
    MaxCycle,        \* bound on the time from the acquisition to the refresh
    JoinTimesOut,    \* whether stop() may give up waiting for the cycle
    Nobody, Free     \* no owner of the row; the cycle lock is free

Slot == {"loop"} \cup Request
Thread == Process \X Slot

(* TTL is max(2 * poll, 60).  Nothing renews the row during a cycle, so    *)
(* cycles are assumed to be shorter.                                       *)
ASSUME TimeAssumption ==
    /\ Poll \in Nat \ {0}
    /\ TTL \in Nat /\ TTL >= 2 * Poll
    /\ MaxCycle \in Nat /\ MaxCycle < TTL
ASSUME NameAssumption ==
    /\ "loop" \notin Request
    /\ Free \notin Slot
    /\ Nobody \notin Process
    /\ JoinTimesOut \in BOOLEAN

\* From acquire_runtime_lock to the end of run_cycle (for the loop: to the refresh).
CyclePc == {"tryLock", "flag", "body", "unlock", "release", "refresh"}
\* From one cycle of the loop to the next.
BetweenPc == {"created", "top", "ensure", "wait"}
ThreadPc == {"none", "ended"} \cup CyclePc \cup BetweenPc
MainPc == {"off", "starting", "serving", "joining", "releasing", "released", "gone"}

VARIABLES
    owner, lease,     \* the row of runtime_locks: owner, and time to expires_at
    main,             \* the server's main thread: start(), serving, stop(), gone
    running, stop,    \* _running and the _stop event of each runtime
    cycleLock,        \* the thread that holds _cycle_lock of each runtime
    pc, age,          \* each thread: where it is, time since it renewed the row
    releaseAfter      \* release_after_cycle of each thread

rowVars == <<owner, lease>>
mainVars == <<main, running, stop>>
threadVars == <<pc, age, releaseAfter>>
vars == <<rowVars, mainVars, cycleLock, threadVars>>

ProcessOf(t) == t[1]
IsLoop(t) == t[2] = "loop"
Loop(p) == <<p, "loop">>
Requests(p) == {<<p, r>> : r \in Request}

Init ==
    /\ owner = Nobody
    /\ lease = 0
    /\ main = [p \in Process |-> "off"]
    /\ running = [p \in Process |-> FALSE]
    /\ stop = [p \in Process |-> FALSE]
    /\ cycleLock = [p \in Process |-> Free]
    /\ pc = [t \in Thread |-> "none"]
    /\ age = [t \in Thread |-> 0]
    /\ releaseAfter = [t \in Thread |-> FALSE]

-----------------------------------------------------------------------------
(* Store: the conditional upsert, update and delete of the row.            *)

\* Mutant: the row is taken over without a look at expires_at.
MayAcquireAny(p) == TRUE

MayAcquire(p) == owner \in {p, Nobody} \/ lease = 0

Acquire(p) == owner' = p /\ lease' = TTL

Release(p) ==
    IF owner = p THEN owner' = Nobody /\ lease' = 0 ELSE UNCHANGED rowVars

-----------------------------------------------------------------------------
(* start(), called once before the server takes requests.                  *)

StartAcquire(p) ==
    /\ main[p] = "off"
    /\ IF MayAcquire(p)
         THEN /\ Acquire(p)
              /\ main' = [main EXCEPT ![p] = "starting"]
              /\ pc' = [pc EXCEPT ![Loop(p)] = "created"]
         ELSE /\ main' = [main EXCEPT ![p] = "serving"]
              /\ UNCHANGED <<rowVars, pc>>
    /\ UNCHANGED <<running, stop, cycleLock, age, releaseAfter>>

StartLoop(p) ==
    /\ main[p] = "starting"
    /\ main' = [main EXCEPT ![p] = "serving"]
    /\ running' = [running EXCEPT ![p] = TRUE]
    /\ stop' = [stop EXCEPT ![p] = FALSE]
    /\ pc' = [pc EXCEPT ![Loop(p)] = "top"]
    /\ UNCHANGED <<rowVars, cycleLock, age, releaseAfter>>

-----------------------------------------------------------------------------
(* run_cycle(), in the loop thread or in a request thread.                 *)

AfterCycle(t) == IF IsLoop(t) THEN "refresh" ELSE "none"

(* A thread that waits for nothing that time could limit has no age. *)
AgeAt(t, next) == IF next = "none" THEN 0 ELSE age[t]

BeginRequest(t) ==
    /\ ~IsLoop(t)
    /\ main[ProcessOf(t)] = "serving"
    /\ pc[t] = "none"
    /\ pc' = [pc EXCEPT ![t] = "ensure"]
    /\ UNCHANGED <<rowVars, mainVars, cycleLock, age, releaseAfter>>

(* _ensure_runtime_lock; the cycle is skipped when another process leads. *)
Ensure(t) ==
    /\ pc[t] = "ensure"
    /\ IF MayAcquire(ProcessOf(t))
         THEN /\ Acquire(ProcessOf(t))
              /\ pc' = [pc EXCEPT ![t] = "tryLock"]
              /\ age' = [age EXCEPT ![t] = 0]
         ELSE /\ pc' = [pc EXCEPT ![t] = AfterCycle(t)]
              /\ age' = [age EXCEPT ![t] = AgeAt(t, AfterCycle(t))]
              /\ UNCHANGED rowVars
    /\ UNCHANGED <<mainVars, cycleLock, releaseAfter>>

(* _cycle_lock.acquire(blocking = False); busy when another thread of the  *)
(* process has it.                                                         *)
TryCycleLock(t) ==
    LET p == ProcessOf(t) IN
    /\ pc[t] = "tryLock"
    /\ IF cycleLock[p] = Free
         THEN /\ cycleLock' = [cycleLock EXCEPT ![p] = t[2]]
              /\ pc' = [pc EXCEPT ![t] = "flag"]
              /\ UNCHANGED age
         ELSE /\ pc' = [pc EXCEPT ![t] = AfterCycle(t)]
              /\ age' = [age EXCEPT ![t] = AgeAt(t, AfterCycle(t))]
              /\ UNCHANGED cycleLock
    /\ UNCHANGED <<rowVars, mainVars, releaseAfter>>

\* Mutant: a cycle of a request always gives the row up.
ReadRunningIgnored(t) ==
    /\ pc[t] = "flag"
    /\ releaseAfter' = [releaseAfter EXCEPT ![t] = ~IsLoop(t)]
    /\ pc' = [pc EXCEPT ![t] = "body"]
    /\ UNCHANGED <<rowVars, mainVars, cycleLock, age>>

(* release_after_cycle is read, and the cycle proper begins. *)
ReadRunning(t) ==
    /\ pc[t] = "flag"
    /\ releaseAfter' = [releaseAfter EXCEPT ![t] = ~running[ProcessOf(t)]]
    /\ pc' = [pc EXCEPT ![t] = "body"]
    /\ UNCHANGED <<rowVars, mainVars, cycleLock, age>>

(* It ends, with a result or an exception. *)
EndBody(t) ==
    /\ pc[t] = "body"
    /\ pc' = [pc EXCEPT ![t] = "unlock"]
    /\ UNCHANGED <<rowVars, mainVars, cycleLock, age, releaseAfter>>

Unlock(t) ==
    LET next == IF releaseAfter[t] THEN "release" ELSE AfterCycle(t) IN
    /\ pc[t] = "unlock"
    /\ cycleLock' = [cycleLock EXCEPT ![ProcessOf(t)] = Free]
    /\ pc' = [pc EXCEPT ![t] = next]
    /\ age' = [age EXCEPT ![t] = AgeAt(t, next)]
    /\ releaseAfter' = [releaseAfter EXCEPT ![t] = @ /\ next = "release"]
    /\ UNCHANGED <<rowVars, mainVars>>

ReleaseAfterCycle(t) ==
    /\ pc[t] = "release"
    /\ Release(ProcessOf(t))
    /\ pc' = [pc EXCEPT ![t] = AfterCycle(t)]
    /\ age' = [age EXCEPT ![t] = AgeAt(t, AfterCycle(t))]
    /\ releaseAfter' = [releaseAfter EXCEPT ![t] = FALSE]
    /\ UNCHANGED <<mainVars, cycleLock>>

-----------------------------------------------------------------------------
(* _loop()                                                                 *)

LoopTop(t) ==
    /\ IsLoop(t)
    /\ pc[t] = "top"
    /\ pc' = [pc EXCEPT ![t] = IF stop[ProcessOf(t)] THEN "ended" ELSE "ensure"]
    /\ UNCHANGED <<rowVars, mainVars, cycleLock, age, releaseAfter>>

(* refresh_runtime_lock asks for the owner only, not whether it expired. *)
Refresh(t) ==
    LET p == ProcessOf(t) IN
    /\ IsLoop(t)
    /\ pc[t] = "refresh"
    /\ age' = [age EXCEPT ![t] = 0]
    /\ IF owner = p
         THEN /\ lease' = TTL
              /\ pc' = [pc EXCEPT ![t] = "wait"]
              /\ UNCHANGED running
         ELSE /\ running' = [running EXCEPT ![p] = FALSE]
              /\ pc' = [pc EXCEPT ![t] = "ended"]
              /\ UNCHANGED lease
    /\ UNCHANGED <<owner, main, stop, cycleLock, releaseAfter>>

(* _stop.wait(interval) ends with the interval or when stop() is called;   *)
(* a poll interval of less than 5 s is stretched after a failed cycle.     *)
EndWait(t) ==
    /\ IsLoop(t)
    /\ pc[t] = "wait"
    /\ stop[ProcessOf(t)] \/ age[t] > 0
    /\ pc' = [pc EXCEPT ![t] = "top"]
    /\ UNCHANGED <<rowVars, mainVars, cycleLock, age, releaseAfter>>

-----------------------------------------------------------------------------
(* stop(), once the server has finished its requests.                      *)

SetStop(p) ==
    /\ main[p] = "serving"
    /\ \A t \in Requests(p) : pc[t] = "none"
    /\ stop' = [stop EXCEPT ![p] = TRUE]
    /\ main' = [main EXCEPT ![p] = "joining"]
    /\ UNCHANGED <<rowVars, running, cycleLock, threadVars>>

\* Mutant: stop() does not wait for the loop.
JoinAtOnce(p) ==
    /\ main[p] = "joining"
    /\ main' = [main EXCEPT ![p] = "releasing"]
    /\ UNCHANGED <<rowVars, running, stop, cycleLock, threadVars>>

(* thread.join(timeout = 5), then terminate_tracked. *)
Join(p) ==
    /\ main[p] = "joining"
    /\ pc[Loop(p)] \in {"none", "ended"} \/ JoinTimesOut
    /\ main' = [main EXCEPT ![p] = "releasing"]
    /\ UNCHANGED <<rowVars, running, stop, cycleLock, threadVars>>

StopRelease(p) ==
    /\ main[p] = "releasing"
    /\ Release(p)
    /\ main' = [main EXCEPT ![p] = "released"]
    /\ UNCHANGED <<running, stop, cycleLock, threadVars>>

EndThreads(p) ==
    /\ pc' = [t \in Thread |-> IF ProcessOf(t) = p THEN "none" ELSE pc[t]]
    /\ age' = [t \in Thread |-> IF ProcessOf(t) = p THEN 0 ELSE age[t]]
    /\ releaseAfter' = [t \in Thread |-> ProcessOf(t) # p /\ releaseAfter[t]]
    /\ cycleLock' = [cycleLock EXCEPT ![p] = Free]
    /\ running' = [running EXCEPT ![p] = FALSE]
    /\ stop' = [stop EXCEPT ![p] = FALSE]
    /\ main' = [main EXCEPT ![p] = "gone"]

(* The process exits; the loop is a daemon thread and goes with it. *)
Exit(p) ==
    /\ main[p] = "released"
    /\ EndThreads(p)
    /\ UNCHANGED rowVars

(* It dies at any other moment; the row stays until it expires. *)
Crash(p) ==
    /\ main[p] \notin {"off", "released", "gone"}
    /\ EndThreads(p)
    /\ UNCHANGED rowVars

-----------------------------------------------------------------------------
(* How long a thread may stay where it is: a cycle ends in time for the    *)
(* refresh, and the loop wakes up when its interval is over.               *)
InTime(t) ==
    /\ pc[t] \in CyclePc => age[t] < MaxCycle
    /\ IsLoop(t) /\ pc[t] \in BetweenPc => age[t] < Poll

Counts(t) == pc[t] \in CyclePc \/ (IsLoop(t) /\ pc[t] \in BetweenPc)

Tick ==
    /\ \A t \in Thread : InTime(t)
    /\ lease > 0 \/ \E t \in Thread : Counts(t)
    /\ lease' = IF lease > 0 THEN lease - 1 ELSE 0
    /\ age' = [t \in Thread |-> IF Counts(t) THEN age[t] + 1 ELSE age[t]]
    /\ UNCHANGED <<owner, mainVars, cycleLock, pc, releaseAfter>>

-----------------------------------------------------------------------------
CycleStep(t) ==
    \/ Ensure(t) \/ TryCycleLock(t) \/ ReadRunning(t) \/ EndBody(t)
    \/ Unlock(t) \/ ReleaseAfterCycle(t)

LoopStep(t) == LoopTop(t) \/ Refresh(t) \/ EndWait(t)

MainStep(p) ==
    \/ StartAcquire(p) \/ StartLoop(p)
    \/ SetStop(p) \/ Join(p) \/ StopRelease(p) \/ Exit(p)

Next ==
    \/ \E t \in Thread : CycleStep(t) \/ LoopStep(t) \/ BeginRequest(t)
    \/ \E p \in Process : MainStep(p) \/ Crash(p)
    \/ Tick

Spec == Init /\ [][Next]_vars

-----------------------------------------------------------------------------
(* Properties                                                              *)

(* Every variable has its type; no lease outlives the time to live. *)
TypeOK ==
    /\ owner \in Process \cup {Nobody}
    /\ lease \in 0..TTL
    /\ main \in [Process -> MainPc]
    /\ running \in [Process -> BOOLEAN]
    /\ stop \in [Process -> BOOLEAN]
    /\ cycleLock \in [Process -> Slot \cup {Free}]
    /\ pc \in [Thread -> ThreadPc]
    /\ age \in [Thread -> 0..(TTL - 1)]
    /\ releaseAfter \in [Thread -> BOOLEAN]

InBody(p) == \E t \in Thread : ProcessOf(t) = p /\ pc[t] = "body"

(* No two cycles run at the same time, in one process or in two: not when  *)
(* a server starts beside another, nor when a leader died or stopped.      *)
OneCycleAtATime ==
    \A t, u \in Thread : pc[t] = "body" /\ pc[u] = "body" => t = u

(* A cycle never outlives the lease it began under: whoever is in its body *)
(* still owns an unexpired row.                                            *)
CycleHoldsLease == \A p \in Process : InBody(p) => owner = p /\ lease > 0

(* The loop of a live server ends only with the server: no other server,   *)
(* and no cycle of a request of its own, takes the row away from it.       *)
LoopEndsWithServer ==
    [][\A p \in Process :
         running[p] /\ ~running'[p] => main'[p] = "gone"]_vars

(* The processes' cycles implement the abstract specification. *)
Runner == IF \E p \in Process : InBody(p) THEN CHOOSE p \in Process : InBody(p) ELSE Nobody
Abstract == INSTANCE SingleCycle WITH runner <- Runner
CyclesAreSingle == Abstract!Spec

-----------------------------------------------------------------------------
(***************************************************************************)
(* The inductive invariant of RuntimeLeaseProofs, in named parts.          *)
(***************************************************************************)

(* Where a thread relies on the row, and where it holds _cycle_lock. *)
LeasedPc == {"tryLock", "flag", "body", "unlock"}
LockedPc == {"flag", "body", "unlock"}

NoLoop(p) == pc[Loop(p)] \in {"none", "ended"}

(* There are requests only while the server serves, the loop is created    *)
(* before and has ended when stop() gives the row up, and running says     *)
(* that there is one.                                                      *)
ServerPhases == \A p \in Process :
    /\ main[p] # "serving" => \A t \in Requests(p) : pc[t] = "none"
    /\ main[p] \in {"off", "releasing", "released", "gone"} => NoLoop(p)
    /\ main[p] = "starting" => pc[Loop(p)] = "created"
    /\ main[p] \in {"serving", "joining"} => NoLoop(p) \/ running[p]

(* Only a request beside which there is no loop gives the row up. *)
ReleasersAreAlone == \A t \in Thread :
    /\ releaseAfter[t] => /\ NoLoop(ProcessOf(t)) /\ ~IsLoop(t)
                          /\ pc[t] \in {"body", "unlock", "release"}
    /\ pc[t] = "release" => releaseAfter[t]

(* The lease reaches to the end of the cycle. *)
LeaseCoversCycle == \A t \in Thread : pc[t] \in LeasedPc =>
    owner = ProcessOf(t) /\ lease + age[t] >= TTL /\ age[t] <= MaxCycle

LockIsHeld == \A t \in Thread : pc[t] \in LockedPc => cycleLock[ProcessOf(t)] = t[2]

LeaseInv == ServerPhases /\ ReleasersAreAlone /\ LeaseCoversCycle /\ LockIsHeld
=============================================================================
