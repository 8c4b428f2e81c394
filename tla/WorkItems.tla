----------------------------- MODULE WorkItems -----------------------------
(***************************************************************************)
(* The board: work items (cards), their runs, and how a run is claimed,    *)
(* that is, given the attempt a worker will execute.                       *)
(*                                                                         *)
(* The actors are the cycle (claim_available, then start_queued; there is  *)
(* one cycle at a time, see RuntimeLease), the request threads of the      *)
(* dashboard (activate, move, adjust, archive, start a chat), the worker   *)
(* of each attempt, and GitHub, where a pull request is merged.  Every     *)
(* action is one transaction; what WorkerLifecycle says of attempts is     *)
(* taken from there: an attempt here starts, ends and is retried.          *)
(***************************************************************************)
EXTENDS Naturals, FiniteSets

CONSTANTS
    SourceItem,      \* issues, tickets and pull requests
    LinkedPRs,       \* the open pull requests linked to each
    RepoOf,          \* the repository of each
    Repo,            \* repositories
    MaxGlobal,       \* workers.max_global
    MaxPerRepo,      \* workers.max_per_repo
    RetryLimit,      \* workers.retry_limit
    Request,         \* request threads that activate or start a chat
    Overlap,         \* whether such a request may overlap another, or a claim
    CrashWindows,    \* where a thread may be when the serving process dies
    MaxCrashes,      \* bound on its deaths
    MaxCards, MaxRuns, MaxAttempts,   \* bounds on the tables
    Nothing          \* no attempt, run, card or source item

Card == 1..MaxCards
Run == 1..MaxRuns
Attempt == 1..MaxAttempts
Thread == {"cycle"} \cup Request

CardState == {"none", "todo", "in_progress", "in_review", "done"}
RunStatus == {"none", "queued", "running", "needs_review", "succeeded", "failed"}
Settled == {"review", "done", "failed"}
AttemptStatus == {"none", "queued", "running"} \cup Settled

\* A worker process executes an attempt; a failed one that a user retries is
\* executed by the request thread, and by nobody if the server dies in it.
Executor == {"worker", "user", "nobody"}

\* insert: a source item without a card was read; select: next_queued_run or
\* queued_run_by_id comes next; start: the cycle has claimed what it could.
ThreadPc == {"idle", "insert", "select", "create", "assign", "start"}
ClaimPc == {"select", "create", "assign"}

ASSUME LimitsAssumption ==
    /\ MaxGlobal \in Nat \ {0} /\ MaxPerRepo \in Nat \ {0}
    /\ RetryLimit \in Nat /\ MaxCrashes \in Nat
    /\ MaxCards \in Nat /\ MaxRuns \in Nat /\ MaxAttempts \in Nat
ASSUME SourceAssumption ==
    /\ RepoOf \in [SourceItem -> Repo]
    /\ LinkedPRs \in [SourceItem -> SUBSET SourceItem]
    /\ Nothing \notin SourceItem \cup Card \cup Run \cup Attempt
    /\ "*" \notin Repo
ASSUME ThreadAssumption ==
    /\ "cycle" \notin Request
    /\ Overlap \in BOOLEAN
    /\ CrashWindows \subseteq ThreadPc

VARIABLES
    card,      \* work_items: state, disposition (active), primary, links, repo
    run,       \* work_item_runs: status, card, attempt
    attempt,   \* attempts: status, run, retries, and by whom it is executed
    result,    \* the recorded result of an attempt that its run still lacks
    pc,        \* where each thread is
    hand,      \* the source item or run each thread has read
    made,      \* the attempt each thread has created
    counts,    \* the cycle's counts of active attempts, per repository and "*"
    crashes    \* deaths of the serving process so far

threadVars == <<pc, hand, made, counts, crashes>>
vars == <<card, run, attempt, result, threadVars>>

Cards == {i \in Card : card[i].state # "none"}
Runs == {r \in Run : run[r].status # "none"}
Attempts == {a \in Attempt : attempt[a].status # "none"}
RepoOfAttempt(a) == card[run[attempt[a].run].card].repo

Init ==
    /\ card = [i \in Card |-> [state |-> "none", active |-> FALSE, primary |-> Nothing,
                               links |-> {}, repo |-> Nothing]]
    /\ run = [r \in Run |-> [status |-> "none", card |-> Nothing, attempt |-> Nothing]]
    /\ attempt = [a \in Attempt |-> [status |-> "none", run |-> Nothing, retries |-> 0,
                                  by |-> "worker"]]
    /\ result = [a \in Attempt |-> "none"]
    /\ pc = [t \in Thread |-> "idle"]
    /\ hand = [t \in Thread |-> Nothing]
    /\ made = [t \in Thread |-> Nothing]
    /\ counts = [q \in Repo \cup {"*"} |-> 0]
    /\ crashes = 0

\* The next id of a table: all smaller ones are in use.
NewId(i, Id, Used) == i \in Id \ Used /\ \A j \in Id : j < i => j \in Used

NewRun(i) == [status |-> "queued", card |-> i, attempt |-> Nothing]

-----------------------------------------------------------------------------
(***************************************************************************)
(* Requests of the dashboard, one transaction each.                        *)
(***************************************************************************)

(* The active cards activate_source_item finds for a source item. *)
CardFor(s) == {i \in Cards : s \in card[i].links /\ card[i].active}

(* It finds none; nothing but its own look says so when it inserts. *)
BeginActivate(t, s) ==
    /\ t # "cycle"
    /\ pc[t] = "idle"
    /\ Overlap \/ \A u \in Request : pc[u] # "insert"
    /\ CardFor(s) = {}
    /\ pc' = [pc EXCEPT ![t] = "insert"]
    /\ hand' = [hand EXCEPT ![t] = s]
    /\ UNCHANGED <<card, run, attempt, result, made, counts, crashes>>

InsertCard(t) ==
    LET s == hand[t] IN
    /\ pc[t] = "insert"
    /\ \E i \in Card, r \in Run :
         /\ NewId(i, Card, Cards) /\ NewId(r, Run, Runs)
         /\ card' = [card EXCEPT ![i] =
              [state |-> "todo", active |-> TRUE, primary |-> s,
               links |-> {s} \cup LinkedPRs[s], repo |-> RepoOf[s]]]
         /\ run' = [run EXCEPT ![r] = NewRun(i)]
    /\ pc' = [pc EXCEPT ![t] = "idle"]
    /\ hand' = [hand EXCEPT ![t] = Nothing]
    /\ UNCHANGED <<attempt, result, made, counts, crashes>>

(* start_thread makes a source item of its own, which no activation names; *)
(* then the request claims the run it made.                                *)
StartThread(t, q) ==
    /\ t # "cycle"
    /\ pc[t] = "idle"
    /\ Overlap \/ \A u \in Thread : pc[u] \notin ClaimPc
    /\ \E i \in Card, r \in Run :
         /\ NewId(i, Card, Cards) /\ NewId(r, Run, Runs)
         /\ card' = [card EXCEPT ![i] =
              [state |-> "in_progress", active |-> TRUE, primary |-> Nothing,
               links |-> {}, repo |-> q]]
         /\ run' = [run EXCEPT ![r] = NewRun(i)]
         /\ hand' = [hand EXCEPT ![t] = r]
    /\ pc' = [pc EXCEPT ![t] = "select"]
    /\ UNCHANGED <<attempt, result, made, counts, crashes>>

\* Mutant: only a card in review gets a new run.
MoveRerun(i, target) ==
    /\ i \in Cards
    /\ card[i].state # target
    /\ card' = [card EXCEPT ![i].state = target]
    /\ IF target = "in_progress" /\ card[i].state = "in_review"
         THEN \E r \in Run : NewId(r, Run, Runs) /\ run' = [run EXCEPT ![r] = NewRun(i)]
         ELSE UNCHANGED run
    /\ UNCHANGED <<attempt, result, threadVars>>

(* move_work_item: into progress it queues a run, whatever runs there are. *)
Move(i, target) ==
    /\ i \in Cards
    /\ card[i].state # target
    /\ card' = [card EXCEPT ![i].state = target]
    /\ IF target = "in_progress"
         THEN \E r \in Run : NewId(r, Run, Runs) /\ run' = [run EXCEPT ![r] = NewRun(i)]
         ELSE UNCHANGED run
    /\ UNCHANGED <<attempt, result, threadVars>>

(* request_adjustment of an attempt's result. *)
Adjust(a) ==
    LET i == run[attempt[a].run].card IN
    /\ a \in Attempts
    /\ card[i].active
    /\ card' = [card EXCEPT ![i].state = "in_progress"]
    /\ \E r \in Run : NewId(r, Run, Runs) /\ run' = [run EXCEPT ![r] = NewRun(i)]
    /\ UNCHANGED <<attempt, result, threadVars>>

Archive(i) ==
    /\ i \in Cards
    /\ card' = [card EXCEPT ![i].state = "done", ![i].active = FALSE]
    /\ UNCHANGED <<run, attempt, result, threadVars>>

(* A sync of the sources found the card's source item, or its pull        *)
(* request, closed.                                                        *)
AutoComplete(i) ==
    /\ i \in Cards
    /\ card[i].state # "done"
    /\ card[i].active
    /\ card[i].primary # Nothing
    /\ card' = [card EXCEPT ![i].state = "done"]
    /\ UNCHANGED <<run, attempt, result, threadVars>>

(* GitHub merged a pull request that an attempt of the card made. *)
MarkMerged(a) ==
    LET i == run[attempt[a].run].card IN
    /\ a \in Attempts
    /\ card[i].state # "done"
    /\ card[i].active
    /\ card' = [card EXCEPT ![i].state = "done"]
    /\ UNCHANGED <<run, attempt, result, threadVars>>

-----------------------------------------------------------------------------
(***************************************************************************)
(* Claiming a run: select it, create its attempt, assign that to it.       *)
(***************************************************************************)

(* The conditions of next_queued_run and of queued_run_by_id. *)
Claimable(r) ==
    /\ run[r].status = "queued"
    /\ run[r].attempt = Nothing
    /\ card[run[r].card].active
    /\ card[run[r].card].state \in {"todo", "in_progress"}

\* Mutant: attempts in review keep their slot.
CountedReview == {a \in Attempts : attempt[a].status \in {"queued", "running", "review"}}

(* active_attempt_counts *)
Counted == {a \in Attempts : attempt[a].status \in {"queued", "running"}}

BeginClaims ==
    /\ pc["cycle"] = "idle"
    /\ Overlap \/ \A u \in Request : pc[u] \notin ClaimPc
    /\ counts' = [q \in Repo \cup {"*"} |->
                    Cardinality({a \in Counted : q \in {"*", RepoOfAttempt(a)}})]
    /\ pc' = [pc EXCEPT !["cycle"] = "select"]
    /\ UNCHANGED <<card, run, attempt, result, hand, made, crashes>>

Unblocked(r) == Claimable(r) /\ counts[card[run[r].card].repo] < MaxPerRepo

(* The oldest claimable run of a repository below its limit. *)
SelectNext(r) ==
    /\ pc["cycle"] = "select"
    /\ counts["*"] < MaxGlobal
    /\ Unblocked(r)
    /\ \A q \in Run : Unblocked(q) => r <= q
    /\ pc' = [pc EXCEPT !["cycle"] = "create"]
    /\ hand' = [hand EXCEPT !["cycle"] = r]
    /\ UNCHANGED <<card, run, attempt, result, made, counts, crashes>>

EndClaims ==
    /\ pc["cycle"] = "select"
    /\ counts["*"] >= MaxGlobal \/ \A r \in Run : ~Unblocked(r)
    /\ pc' = [pc EXCEPT !["cycle"] = "start"]
    /\ counts' = [q \in Repo \cup {"*"} |-> 0]
    /\ UNCHANGED <<card, run, attempt, result, hand, made, crashes>>

(* claim_work_item_run of a request: no limit, but the same conditions. *)
SelectById(t) ==
    /\ t # "cycle"
    /\ pc[t] = "select"
    /\ IF Claimable(hand[t])
         THEN pc' = [pc EXCEPT ![t] = "create"] /\ UNCHANGED hand
         ELSE pc' = [pc EXCEPT ![t] = "idle"] /\ hand' = [hand EXCEPT ![t] = Nothing]
    /\ UNCHANGED <<card, run, attempt, result, made, counts, crashes>>

CreateAttempt(t) ==
    /\ pc[t] = "create"
    /\ \E a \in Attempt :
         /\ NewId(a, Attempt, Attempts)
         /\ attempt' = [attempt EXCEPT ![a] =
                          [status |-> "queued", run |-> hand[t], retries |-> 0, by |-> "worker"]]
         /\ made' = [made EXCEPT ![t] = a]
    /\ pc' = [pc EXCEPT ![t] = "assign"]
    /\ UNCHANGED <<card, run, result, hand, counts, crashes>>

(* assign_run_attempt: no condition on the run, nor on the card. *)
AssignRun(t) ==
    LET r == hand[t] IN
    /\ pc[t] = "assign"
    /\ run' = [run EXCEPT ![r].attempt = made[t]]
    /\ card' = [card EXCEPT ![run[r].card].state = "in_progress"]
    /\ counts' = [q \in Repo \cup {"*"} |->
                    IF t = "cycle" /\ q \in {"*", card[run[r].card].repo}
                      THEN counts[q] + 1 ELSE counts[q]]
    /\ pc' = [pc EXCEPT ![t] = IF t = "cycle" THEN "select" ELSE "idle"]
    /\ hand' = [hand EXCEPT ![t] = Nothing]
    /\ made' = [made EXCEPT ![t] = Nothing]
    /\ UNCHANGED <<attempt, result, crashes>>

EndCycle ==
    /\ pc["cycle"] = "start"
    /\ pc' = [pc EXCEPT !["cycle"] = "idle"]
    /\ UNCHANGED <<card, run, attempt, result, hand, made, counts, crashes>>

(* The attempts a request thread is retrying, the last write included. *)
InRetry == {a \in Attempt :
    /\ attempt[a].by = "user"
    /\ attempt[a].status = "running" \/ result[a] # "none"}

(* The serving process dies, and all its threads with it.  The workers are *)
(* processes of their own and live on; an attempt in retry stays as it is. *)
Crash ==
    /\ crashes < MaxCrashes
    /\ crashes' = crashes + 1
    /\ \A t \in Thread : pc[t] \in CrashWindows
    /\ InRetry # {} \/ \E t \in Thread : pc[t] # "idle"
    /\ attempt' = [a \in Attempt |->
                     IF a \in InRetry THEN [attempt[a] EXCEPT !.by = "nobody"] ELSE attempt[a]]
    /\ pc' = [t \in Thread |-> "idle"]
    /\ hand' = [t \in Thread |-> Nothing]
    /\ made' = [t \in Thread |-> Nothing]
    /\ counts' = [q \in Repo \cup {"*"} |-> 0]
    /\ UNCHANGED <<card, run, result>>

-----------------------------------------------------------------------------
(***************************************************************************)
(* The life of an attempt, and what it writes to the run that has it.      *)
(***************************************************************************)

\* Mutant: a run that is queued again has no attempt.
SetRunUnassigns(a, s) ==
    run' = [r \in Run |->
              IF r \in Runs /\ run[r].attempt = a
                THEN [run[r] EXCEPT !.status = s,
                                    !.attempt = IF s = "queued" THEN Nothing ELSE @]
                ELSE run[r]]

\* The run start_attempt_run, requeue_attempt_run and finish_attempt_run find.
SetRun(a, s) ==
    run' = [r \in Run |-> IF r \in Runs /\ run[r].attempt = a
                            THEN [run[r] EXCEPT !.status = s] ELSE run[r]]

(* start_queued; WorkerLifecycle says when. *)
StartAttempt(a) ==
    /\ pc["cycle"] = "start"
    /\ Overlap \/ \A u \in Request : pc[u] \notin ClaimPc
    /\ attempt[a].status = "queued"
    /\ attempt' = [attempt EXCEPT ![a].status = "running"]
    /\ SetRun(a, "running")
    /\ UNCHANGED <<card, result, threadVars>>

(* reconcile finds its worker gone or late; a retry by hand has no worker   *)
(* row, so reconcile sees it neither during the retry nor after its loss.  *)
Requeue(a) ==
    /\ pc["cycle"] = "idle"
    /\ attempt[a].status = "running"
    /\ attempt[a].retries < RetryLimit
    /\ attempt[a].by = "worker"
    /\ attempt' = [attempt EXCEPT ![a].status = "queued", ![a].retries = @ + 1]
    /\ SetRun(a, "queued")
    /\ UNCHANGED <<card, result, threadVars>>

FinishAttempt(a, s) ==
    /\ attempt[a].status = "running"
    /\ attempt[a].by # "nobody"
    /\ attempt' = [attempt EXCEPT ![a].status = s]
    /\ result' = [result EXCEPT ![a] = s]
    /\ UNCHANGED <<card, run, threadVars>>

RunStatusFor(s) ==
    CASE s = "review" -> "needs_review" [] s = "done" -> "succeeded" [] OTHER -> s

(* finish_attempt_run: the card follows the run, whatever became of it. *)
FinishRun(a) ==
    /\ result[a] \in Settled
    /\ attempt[a].by # "nobody"
    /\ SetRun(a, RunStatusFor(result[a]))
    /\ card' = [i \in Card |->
                  IF \E r \in Runs : run[r].attempt = a /\ run[r].card = i
                    THEN [card[i] EXCEPT !.state =
                            IF result[a] = "done" THEN "done" ELSE "in_review"]
                    ELSE card[i]]
    /\ result' = [result EXCEPT ![a] = "none"]
    /\ UNCHANGED <<attempt, threadVars>>

(* The dashboard retries a failed action: the attempt goes on in the       *)
(* request thread.  (Each attempt is retried once: a bound.)               *)
RetryAction(a) ==
    /\ attempt[a].status = "failed"
    /\ result[a] = "none"
    /\ attempt[a].by = "worker"
    /\ attempt' = [attempt EXCEPT ![a].status = "running", ![a].by = "user"]
    /\ SetRun(a, "running")
    /\ UNCHANGED <<card, result, threadVars>>

-----------------------------------------------------------------------------
UserStep ==
    \/ \E i \in Card : Archive(i) \/ \E target \in CardState \ {"none"} : Move(i, target)
    \/ \E a \in Attempt : Adjust(a) \/ RetryAction(a)
    \/ \E t \in Request, s \in SourceItem : BeginActivate(t, s)
    \/ \E t \in Request, q \in Repo : StartThread(t, q)

ClaimStep(t) == SelectById(t) \/ CreateAttempt(t) \/ AssignRun(t) \/ InsertCard(t)

CycleStep ==
    \/ BeginClaims \/ EndClaims \/ EndCycle
    \/ \E r \in Run : SelectNext(r)
    \/ CreateAttempt("cycle") \/ AssignRun("cycle")

WorkerStep(a) == FinishRun(a) \/ \E s \in Settled : FinishAttempt(a, s)

Next ==
    \/ UserStep
    \/ CycleStep
    \/ \E t \in Request : ClaimStep(t)
    \/ \E a \in Attempt : StartAttempt(a) \/ Requeue(a) \/ WorkerStep(a) \/ MarkMerged(a)
    \/ \E i \in Card : AutoComplete(i)
    \/ Crash

Spec == Init /\ [][Next]_vars

(***************************************************************************)
(* The runtime thread keeps cycling and claims end.  A queued attempt is   *)
(* started, and one that a worker executes ends: that is                   *)
(* EveryAttemptSettles of WorkerLifecycle.  Nothing is assumed of a retry  *)
(* by hand: no deadline ends it, and the death of its server loses it.     *)
(***************************************************************************)
Fairness ==
    /\ WF_vars(CycleStep)
    /\ \A t \in Request : WF_vars(ClaimStep(t))
    /\ \A a \in Attempt : /\ SF_vars(StartAttempt(a))
                        /\ WF_vars(attempt[a].by = "worker" /\ WorkerStep(a))

FairSpec == Spec /\ Fairness

-----------------------------------------------------------------------------
(***************************************************************************)
(* Properties                                                              *)
(***************************************************************************)

CardType == [state : CardState, active : BOOLEAN, primary : SourceItem \cup {Nothing},
             links : SUBSET SourceItem, repo : Repo \cup {Nothing}]
RunType == [status : RunStatus, card : Card \cup {Nothing}, attempt : Attempt \cup {Nothing}]
AttemptType == [status : AttemptStatus, run : Run \cup {Nothing}, retries : 0..RetryLimit,
                by : Executor]

(* Every variable has its type. *)
TypeOK ==
    /\ card \in [Card -> CardType]
    /\ run \in [Run -> RunType]
    /\ attempt \in [Attempt -> AttemptType]
    /\ result \in [Attempt -> Settled \cup {"none"}]
    /\ pc \in [Thread -> ThreadPc]
    /\ hand \in [Thread -> SourceItem \cup Run \cup {Nothing}]
    /\ made \in [Thread -> Attempt \cup {Nothing}]
    /\ counts \in [Repo \cup {"*"} -> Nat]
    /\ crashes \in 0..MaxCrashes

(* A run is executed by one attempt, through its retries, the reruns and   *)
(* adjustments of its card, and the death of the server outside a claim.   *)
OneAttemptPerRun ==
    \A a, b \in Attempts : attempt[a].run = attempt[b].run => a = b

(* Somebody will still take the card of this run out of progress. *)
Pending(r) ==
    LET a == run[r].attempt IN
    \/ a = Nothing /\ run[r].status = "queued"
    \/ /\ a # Nothing
       /\ attempt[a].by # "nobody"
       /\ attempt[a].status \in {"queued", "running"} \/ result[a] # "none"

(* The server died in the retry of this run's attempt by hand. *)
Lost(r) == run[r].attempt # Nothing /\ attempt[run[r].attempt].by = "nobody"

Unfinished(r) == Pending(r) \/ Lost(r)

(* A card in progress on the board has a run that is not over yet: cards   *)
(* move, runs end, are retried and are claimed in any order.  The card of  *)
(* a run that died with the server in a retry by hand is left there.       *)
InProgressHasWork ==
    \A i \in Cards : card[i].active /\ card[i].state = "in_progress" =>
        \E r \in Runs : run[r].card = i /\ Unfinished(r)

(* Retries by hand, at work or lost, hold every slot a run could have. *)
HeldByHand(r) ==
    LET held == {a \in Counted : attempt[a].by # "worker"} IN
    \/ Cardinality(held) >= MaxGlobal
    \/ Cardinality({a \in held : RepoOfAttempt(a) = card[run[r].card].repo}) >= MaxPerRepo

(* No claimable run waits forever for its turn: neither the limits, nor    *)
(* the other runs of its card, nor the retries of workers, nor a death of  *)
(* the server keep it waiting; only retries by hand may, for they count    *)
(* against the limits, have no deadline, and stay counted when they are    *)
(* lost.                                                                   *)
NoRunStarves == \A r \in Run : Claimable(r) ~> (~Claimable(r) \/ HeldByHand(r))

=============================================================================
