-------------------------- MODULE WorkflowInstance --------------------------
(***************************************************************************)
(* One workflow instance and the attempt it belongs to: how the engine     *)
(* chooses transitions, runs their actions, uses a recorded success as a   *)
(* checkpoint, and moves the instance.                                     *)
(*                                                                         *)
(* Whoever advances it runs the same loop: the worker process of the       *)
(* attempt, the cycle of the server (advance_ready), and the dashboard's   *)
(* request threads, for a human gate or for a manual retry of a failed     *)
(* action.  A thread holds what it read in th[t]; every action is one      *)
(* statement or transaction against the database.  The definition of the   *)
(* workflow is data, the constant Def.                                     *)
(***************************************************************************)
EXTENDS Integers, FiniteSets

CONSTANTS
    State,           \* states of the workflow
    Transition,      \* names of its transitions
    Def,             \* what each transition says, see DefAssumption
    Initial,         \* the state the worker starts in
    Terminal,        \* terminal states
    Failed,          \* the one the runtime puts a failed instance in
    Fact,            \* artifacts that conditions test
    Request,         \* request threads of the dashboard
    Retriable,       \* transitions somebody retries by hand
    RetryLimit,      \* workers.retry_limit: how often an attempt is requeued
    Overlap,         \* whether a thread may start while another is at work
    CrashWindows,    \* pairs of kind and pc at which a process may die
    MaxWorkerDeaths, MaxServerDeaths, MaxRetries,   \* bounds
    NoGroup          \* the group of a transition without parallel_group

Thread == {"worker", "cycle"} \cup Request
Kind == {"worker", "cycle", "gate", "background", "retry"}

\* recheck: a background gate is claimed; loop: the instance is read next; run:
\* actions of the batch execute; compare, write: the two halves of the move;
\* record: its artifacts; close: its gate; terminal, human_gate, stopped: the
\* loop's result; raise: an exception; giveup: the instance is failed.
Pc == {"idle", "dead", "recheck", "loop", "run", "compare", "write", "record", "close",
       "terminal", "human_gate", "stopped", "raise", "giveup"}

Clause == [pos : SUBSET Fact, neg : SUBSET Fact]

ASSUME DefAssumption ==
    \A m \in Transition :
        /\ Def[m].from \in State \ Terminal /\ Def[m].to \in State
        /\ Def[m].trigger \in {"automatic", "human"}
        /\ Def[m].when \subseteq Clause      \* a disjunction of conjunctions
        /\ Def[m].limit \in Nat              \* retry_limit
        /\ Def[m].effect \in {"none", "github_read", "github_write",
                              "workspace_write", "codex_worker"}
        /\ Def[m].out \subseteq Fact         \* the artifacts its output sets
        /\ Def[m].background \in BOOLEAN     \* action is codex.create_draft_pr
\* Members of a parallel group are automatic and share their two states.
ASSUME GroupAssumption ==
    \A m, n \in Transition : (Def[m].group = Def[n].group /\ Def[m].group # NoGroup) =>
        Def[m].trigger = "automatic" /\ Def[m].from = Def[n].from /\ Def[m].to = Def[n].to
ASSUME StateAssumption ==
    /\ IsFiniteSet(Transition) /\ {"worker", "cycle"} \cap Request = {}
    /\ Initial \in State \ Terminal /\ Failed \in Terminal /\ Terminal \subseteq State
    /\ Retriable \subseteq Transition
    /\ Overlap \in BOOLEAN /\ CrashWindows \subseteq Kind \X Pc
    /\ {RetryLimit, MaxWorkerDeaths, MaxServerDeaths, MaxRetries} \subseteq Nat

VARIABLES
    state,      \* workflow_instances.current_state
    attempt,    \* attempts.status
    gate,       \* the latest workflow_gates row of each human transition
    fact,       \* workflow_artifacts: whether each is there, and truthy
    failed,     \* rows of workflow_action_runs with status failed
    success,    \* the latest succeeded row of each transition, see NoSuccess
    orphan,     \* running rows whose thread is gone
    th,         \* what each thread holds
    workerDeaths, serverDeaths, requeues, retries

vars == <<state, attempt, gate, fact, failed, success, orphan, th,
          workerDeaths, serverDeaths, requeues, retries>>
rows == <<failed, success, orphan>>
counters == <<workerDeaths, serverDeaths, requeues, retries>>

Human == {m \in Transition : Def[m].trigger = "human"}

\* own, group: no event of the transition's name, of its group's name, since.
NoSuccess == [own |-> FALSE, group |-> FALSE, yes |-> {}]

Idle == [pc |-> "idle", kind |-> "worker", sole |-> FALSE, at |-> Initial, batch |-> {},
         todo |-> {}, marked |-> {}, bad |-> FALSE, yes |-> {}, row |-> FALSE]

\* An active instance without gates, artifacts or action runs.
Created ==
    /\ state = Initial
    /\ gate = [m \in Human |-> "none"]
    /\ fact = [f \in Fact |-> "absent"]
    /\ failed = [m \in Transition |-> 0]
    /\ success = [m \in Transition |-> NoSuccess]
    /\ orphan = [m \in Transition |-> 0]

\* The worker of a queued attempt will find the instance or create it.
Init ==
    /\ Created
    /\ attempt = "queued"
    /\ th = [t \in Thread |-> Idle]
    /\ workerDeaths = 0 /\ serverDeaths = 0 /\ requeues = 0 /\ retries = 0

----------------------------------------------------------------------------
(* Choosing transitions (workflow_engine.py).                              *)

Truthy == {f \in Fact : fact[f] = "yes"}
Satisfied(when, facts) == \E c \in when : c.pos \subseteq facts /\ c.neg \cap facts = {}
ConditionMatches(when) == Satisfied(when, Truthy)

\* In every state, whatever the artifacts, some transition's condition holds.
NoDeadEnd ==
    \A s \in State \ Terminal : \A facts \in SUBSET Fact :
        \E m \in Transition : Def[m].from = s /\ Satisfied(Def[m].when, facts)
\* The members of a group have one condition, and none of them is retried by hand.
GroupsAreWhole ==
    /\ \A m, n \in Transition :
          (Def[m].group = Def[n].group /\ Def[m].group # NoGroup) => Def[m].when = Def[n].when
    /\ \A m \in Retriable : Def[m].group = NoGroup
\* Where a group starts, no gate and no transition retried by hand starts, and
\* what the group finds out is no condition there.
GroupsAreAlone ==
    \A m, n \in Transition : (Def[m].group # NoGroup /\ Def[n].from = Def[m].from) =>
        /\ Def[n].trigger = "automatic"
        /\ n \in Retriable => Def[n].effect = "codex_worker"
        /\ \A c \in Def[n].when : Def[m].out \cap (c.pos \cup c.neg) = {}

\* Mutant: one retry more than the limit.
RetryAvailableOnceMore(m) == failed[m] <= Def[m].limit + 1
RetryAvailable(m) == failed[m] <= Def[m].limit

Conditioned(s, trigger) ==
    {m \in Transition : /\ Def[m].from = s /\ Def[m].trigger = trigger
                        /\ ConditionMatches(Def[m].when)}
Matching(s, trigger) == {m \in Conditioned(s, trigger) : RetryAvailable(m)}
Exhausted(s, trigger) == Conditioned(s, trigger) \ Matching(s, trigger)

IsBatch(batch) ==
    \/ Cardinality(batch) = 1
    \/ \A m, n \in batch : /\ Def[m].group = Def[n].group /\ Def[m].group # NoGroup
                           /\ Def[m].to = Def[n].to

\* A transition is out of retries, or several match and are not one group.
ChoiceFails ==
    \/ Exhausted(state, "automatic") # {}
    \/ Matching(state, "automatic") # {} /\ ~IsBatch(Matching(state, "automatic"))

IsParallel(batch) == Cardinality(batch) > 1
The(batch) == CHOOSE m \in batch : TRUE

\* Side effects each caller of the loop allows.
Refused(kind) ==
    CASE kind = "cycle" -> {"none", "codex_worker"}
      [] kind = "retry" -> {"codex_worker"}
      [] OTHER -> {}

\* Mutant: nothing is taken for done.
CheckpointNever(m) == FALSE

\* What a single transition, and a member of a parallel group, take for done.
Checkpoint(m) == success[m].own
GroupCheckpoint(m) == success[m].own /\ success[m].group

\* The artifacts after the outputs of ms are recorded; yes[m] is m's output.
Recorded(ms, yes) ==
    [f \in Fact |-> IF \E m \in ms : f \in Def[m].out
                    THEN IF \E m \in ms : f \in yes[m] THEN "yes" ELSE "no"
                    ELSE fact[f]]

Busy(t) == th[t].pc # "idle"
MayStart(t) == ~Busy(t) /\ (Overlap \/ \A u \in Thread : ~Busy(u))
Goto(t, pc) == th' = [th EXCEPT ![t].pc = pc]

\* Rows of ms are inserted as running; a thread begins ms, all or some of a batch.
Started(h, ms) == [h EXCEPT !.todo = ms]
Begun(h, batch, ms) == Started([h EXCEPT !.pc = "run", !.batch = batch], ms)

\* A thread about to run one action on its own, or to use its checkpoint; a
\* manual retry (sole) that finds one moves the instance and then reports failure.
RunSingle(h, m) ==
    IF Checkpoint(m)
    THEN [h EXCEPT !.pc = "compare", !.batch = {m}, !.yes = success[m].yes, !.bad = h.sole]
    ELSE Begun(h, {m}, {m})

----------------------------------------------------------------------------
(* Where a thread starts.                                                  *)

\* The supervisor started the worker of the queued attempt.
RunAttempt ==
    /\ MayStart("worker")
    /\ attempt = "queued"
    /\ attempt' = "running"
    /\ th' = [th EXCEPT !["worker"] = [Idle EXCEPT !.pc = "loop"]]
    /\ UNCHANGED <<state, gate, fact, rows, counters>>

\* The cycle found the instance ready for automation.
AdvanceReady ==
    /\ MayStart("cycle")
    /\ state \notin Terminal /\ attempt \notin {"queued", "running"}
    /\ th' = [th EXCEPT !["cycle"] = [Idle EXCEPT !.pc = "loop", !.kind = "cycle"]]
    /\ UNCHANGED <<state, attempt, gate, fact, rows, counters>>

\* _human_gate_runtime: what a gate's action needs before it is run.
GateRuns(m) == state = Def[m].from /\ RetryAvailable(m)

GateThread(kind, m) ==
    Begun([Idle EXCEPT !.kind = kind, !.sole = TRUE, !.at = Def[m].from, !.row = TRUE],
          {m}, {m})

\* What the pages of the attempt offer, and the claim of a gate by a request.
PendingGate(m) == gate[m] = "pending"
StartGate(m) == PendingGate(m) /\ gate' = [gate EXCEPT ![m] = "running"]

\* A pending gate is approved and its action started; nothing claims the gate,
\* and no checkpoint is looked for.
RunHumanGate(t, m) ==
    /\ MayStart(t)
    /\ PendingGate(m) /\ ~Def[m].background /\ GateRuns(m)
    /\ th' = [th EXCEPT ![t] = GateThread("gate", m)]
    /\ UNCHANGED <<state, attempt, gate, fact, rows, counters>>

\* The gate of a long action is claimed by the request ...
StartHumanGate(t, m) ==
    /\ MayStart(t)
    /\ Def[m].background /\ GateRuns(m) /\ StartGate(m)
    /\ th' = [th EXCEPT ![t] = [GateThread("background", m) EXCEPT !.pc = "recheck", !.todo = {}]]
    /\ UNCHANGED <<state, attempt, fact, rows, counters>>

\* ... and run after the response, if it still can be.
RunStartedHumanGate(t) ==
    /\ th[t].pc = "recheck"
    /\ LET m == The(th[t].batch) IN
       th' = [th EXCEPT ![t] = IF GateRuns(m) THEN GateThread("background", m)
                                              ELSE [@ EXCEPT !.pc = "raise"]]
    /\ UNCHANGED <<state, attempt, gate, fact, rows, counters>>

\* A failed action the page of a failed attempt offers to retry, and what a retry
\* resets before the action runs.
MayRetry(m) ==
    /\ attempt = "failed" /\ failed[m] > 0
    /\ Def[m].trigger = "automatic" /\ Def[m].effect # "codex_worker"
RetryPrepared(m) == state' = Def[m].from /\ attempt' = "running"

\* Somebody retries a failed action of a failed attempt: the instance goes back
\* to the state before it and that one action runs, outside its group and
\* whatever its retry budget.
RetryFailedAction(t, m) ==
    /\ MayStart(t)
    /\ m \in Retriable /\ retries < MaxRetries
    /\ MayRetry(m) /\ state = Failed
    /\ RetryPrepared(m)
    /\ retries' = retries + 1
    /\ th' = [th EXCEPT ![t] = RunSingle([Idle EXCEPT !.kind = "retry", !.sole = TRUE,
                                                      !.at = Def[m].from], m)]
    /\ UNCHANGED <<gate, fact, rows, workerDeaths, serverDeaths, requeues>>

----------------------------------------------------------------------------
(* The loop (_advance_workflow_instance).                                  *)

\* Mutant: a gate that was resolved once is not opened again.
GateEverOpened(m) == gate[m] # "none"
GateIsOpen(m) == gate[m] \in {"pending", "running"}

AtLoop(t) == th[t].pc = "loop"
NothingChosen == UNCHANGED <<state, attempt, fact, rows, counters>>

\* The instance is in a terminal state.
LoopEnds(t) ==
    /\ AtLoop(t) /\ state \in Terminal
    /\ th' = [th EXCEPT ![t].pc = "terminal", ![t].at = state]
    /\ NothingChosen /\ UNCHANGED gate

\* No batch can be chosen: an exception.
LoopRaises(t) ==
    /\ AtLoop(t) /\ state \notin Terminal
    /\ ChoiceFails
    /\ Goto(t, "raise")
    /\ NothingChosen /\ UNCHANGED gate

\* No automatic transition: gates are opened, unless they are open.  A gate that
\* is resolved gets a new row, which the threads of the old one do not hold.
LoopOpensGates(t) ==
    /\ AtLoop(t) /\ state \notin Terminal
    /\ Conditioned(state, "automatic") = {}
    /\ LET opened == Matching(state, "human")
           new == {m \in opened : ~GateIsOpen(m)}
       IN  /\ gate' = [m \in Human |-> IF m \in new THEN "pending" ELSE gate[m]]
           /\ th' = [u \in Thread |->
                        IF u = t THEN [th[t] EXCEPT !.pc = IF opened = {} THEN "stopped"
                                                           ELSE "human_gate"]
                        ELSE [th[u] EXCEPT !.row = @ /\ th[u].batch \cap new = {}]]
    /\ NothingChosen

\* The batch has an action this caller may not run.
LoopRefused(t) ==
    /\ AtLoop(t) /\ state \notin Terminal /\ Exhausted(state, "automatic") = {}
    /\ LET batch == Matching(state, "automatic") IN
       /\ batch # {} /\ IsBatch(batch)
       /\ \E m \in batch : Def[m].effect \in Refused(th[t].kind)
    /\ Goto(t, "stopped")
    /\ NothingChosen /\ UNCHANGED gate

\* The batch starts: actions with a checkpoint are not run again.
LoopStarts(t) ==
    /\ AtLoop(t) /\ state \notin Terminal /\ Exhausted(state, "automatic") = {}
    /\ LET batch == Matching(state, "automatic")
           kept == {m \in batch : GroupCheckpoint(m)}
           h == [Idle EXCEPT !.kind = th[t].kind, !.at = state]
       IN  /\ batch # {} /\ IsBatch(batch)
           /\ \A m \in batch : Def[m].effect \notin Refused(th[t].kind)
           /\ IF IsParallel(batch)
              THEN /\ th' = [th EXCEPT ![t] =
                        IF kept = batch THEN [h EXCEPT !.batch = batch, !.pc = "compare"]
                        ELSE Begun(h, batch, batch \ kept)]
                   /\ fact' = Recorded(kept, [m \in kept |-> success[m].yes])
              ELSE /\ th' = [th EXCEPT ![t] = RunSingle(h, The(batch))]
                   /\ UNCHANGED fact
    /\ UNCHANGED <<state, attempt, gate, rows, counters>>

----------------------------------------------------------------------------
(* Running the actions of a batch.                                         *)

\* Mutant: the last action to return decides whether the batch succeeded.
AfterRowLast(h, m, ok) ==
    LET left == h.todo \ {m}
        pc == CASE left # {} -> "run"
                [] left = {} /\ ok -> "compare"
                [] left = {} /\ ~ok /\ h.sole -> "raise"
                [] OTHER -> "loop"
    IN  [h EXCEPT !.pc = pc, !.todo = left, !.marked = @ \ {m}]

\* Where a thread goes after the row of m is finished.
AfterRow(h, m, ok) ==
    LET left == h.todo \ {m}
        bad == h.bad \/ ~ok
        pc == CASE left # {} -> "run"
                [] left = {} /\ ~bad -> "compare"
                [] left = {} /\ bad /\ h.sole -> "raise"
                [] OTHER -> "loop"
    IN  [h EXCEPT !.pc = pc, !.todo = left, !.bad = bad /\ left # {}, !.marked = @ \ {m}]

\* An action returns: its row is succeeded, even if reconciliation has marked it
\* failed meanwhile; in a group its artifacts are recorded before the move.
ActionSucceeds(t, m, yes) ==
    /\ th[t].pc = "run" /\ m \in th[t].todo
    /\ success' = [success EXCEPT ![m] = [own |-> TRUE, group |-> TRUE, yes |-> yes]]
    /\ failed' = [failed EXCEPT ![m] = IF m \in th[t].marked THEN @ - 1 ELSE @]
    /\ th' = [th EXCEPT ![t] = [AfterRow(th[t], m, TRUE) EXCEPT
                                    !.yes = IF IsParallel(th[t].batch) THEN {} ELSE yes]]
    /\ fact' = IF IsParallel(th[t].batch) THEN Recorded({m}, [n \in {m} |-> yes]) ELSE fact
    /\ UNCHANGED <<state, attempt, gate, orphan, counters>>

\* An action raises.
ActionFails(t, m) ==
    /\ th[t].pc = "run" /\ m \in th[t].todo
    /\ failed' = [failed EXCEPT ![m] = IF m \in th[t].marked THEN @ ELSE @ + 1]
    /\ th' = [th EXCEPT ![t] = AfterRow(th[t], m, FALSE)]
    /\ UNCHANGED <<state, attempt, gate, fact, success, orphan, counters>>

ActionReturns(t, m) ==
    \/ \E yes \in SUBSET Def[m].out : ActionSucceeds(t, m, yes)
    \/ ActionFails(t, m)

\* transition_workflow_instance reads the state before its transaction begins ...
CompareState(t) ==
    /\ th[t].pc = "compare"
    /\ Goto(t, IF state = th[t].at THEN "write" ELSE "raise")
    /\ UNCHANGED <<state, attempt, gate, fact, rows, counters>>

\* Mutant: a group does not consume its successes.
ConsumedOwn(batch) ==
    [m \in Transition |-> IF batch = {m} THEN NoSuccess ELSE success[m]]

\* Successes after an event with the name of the batch: a single transition's
\* own name, or the name of the group, which every member of it looks for.  What
\* is never read again is forgotten.
Consumed(batch) ==
    [m \in Transition |->
        IF IsParallel(batch)
        THEN [success[m] EXCEPT !.group = @ /\ \A n \in batch : Def[m].group # Def[n].group]
        ELSE IF m \in batch THEN NoSuccess ELSE success[m]]

\* ... and moves the instance and inserts the event in it.
WriteState(t) ==
    /\ th[t].pc = "write"
    /\ state' = Def[The(th[t].batch)].to
    /\ success' = Consumed(th[t].batch)
    /\ IF IsParallel(th[t].batch)
       THEN th' = [th EXCEPT ![t] = [Idle EXCEPT !.pc = "loop", !.kind = th[t].kind]]
       ELSE Goto(t, "record")
    /\ UNCHANGED <<attempt, gate, fact, failed, orphan, counters>>

\* The artifacts of a single action.
RecordArtifacts(t) ==
    /\ th[t].pc = "record"
    /\ LET h == th[t]  m == The(th[t].batch) IN
       /\ fact' = Recorded({m}, [n \in {m} |-> h.yes])
       /\ th' = [th EXCEPT ![t] =
            IF h.kind \in {"gate", "background"} /\ h.sole THEN [h EXCEPT !.pc = "close"]
            ELSE IF h.bad THEN [h EXCEPT !.pc = "raise"]
            ELSE [Idle EXCEPT !.pc = "loop", !.kind = h.kind]]
    /\ UNCHANGED <<state, attempt, gate, rows, counters>>

\* The gate is resolved, the attempt finished if the workflow is, and the loop begins.
CloseGate(t) ==
    /\ th[t].pc = "close"
    /\ LET m == The(th[t].batch) IN
       /\ gate' = IF th[t].row THEN [gate EXCEPT ![m] = "resolved"] ELSE gate
       /\ attempt' = IF Def[m].to \in Terminal THEN Def[m].to ELSE attempt
    /\ th' = [th EXCEPT ![t] = [Idle EXCEPT !.pc = "loop", !.kind = th[t].kind]]
    /\ UNCHANGED <<state, fact, rows, counters>>

----------------------------------------------------------------------------
(* Ending.                                                                 *)

EndsAttempt(t) == th[t].kind \in {"worker", "retry"}

FinishTerminal(t) ==
    /\ th[t].pc = "terminal"
    /\ attempt' = IF EndsAttempt(t) \/ th[t].kind = "cycle" THEN th[t].at ELSE attempt
    /\ th' = [th EXCEPT ![t] = Idle]
    /\ UNCHANGED <<state, gate, fact, rows, counters>>

FinishReview(t) ==
    /\ th[t].pc = "human_gate"
    /\ attempt' = IF EndsAttempt(t) THEN "review" ELSE attempt
    /\ th' = [th EXCEPT ![t] = Idle]
    /\ UNCHANGED <<state, gate, fact, rows, counters>>

FinishStopped(t) ==
    /\ th[t].pc = "stopped"
    /\ th' = [th EXCEPT ![t] = IF EndsAttempt(t) THEN [@ EXCEPT !.pc = "raise"] ELSE Idle]
    /\ UNCHANGED <<state, attempt, gate, fact, rows, counters>>

\* An exception: the worker, the cycle and a retry fail the instance.
RaiseInLoop(t) ==
    /\ th[t].pc = "raise" /\ th[t].kind \in {"worker", "cycle", "retry"}
    /\ state' = Failed
    /\ th' = [th EXCEPT ![t] = IF EndsAttempt(t) THEN [Idle EXCEPT !.pc = "giveup", !.kind = th[t].kind]
                                                 ELSE Idle]
    /\ UNCHANGED <<attempt, gate, fact, rows, counters>>

\* In a gate nothing is failed; one run in the background is open again.
RaiseInGate(t) ==
    /\ th[t].pc = "raise" /\ th[t].kind \in {"gate", "background"}
    /\ gate' = [m \in Human |-> IF /\ th[t].kind = "background" /\ th[t].row
                                   /\ m \in th[t].batch /\ gate[m] = "running"
                                THEN "pending" ELSE gate[m]]
    /\ th' = [th EXCEPT ![t] = Idle]
    /\ UNCHANGED <<state, attempt, fact, rows, counters>>

\* Mutant: the attempt is left as it is.
GiveUpQuietly(t) ==
    /\ th[t].pc = "giveup"
    /\ th' = [th EXCEPT ![t] = Idle]
    /\ UNCHANGED <<state, attempt, gate, fact, rows, counters>>

GiveUp(t) ==
    /\ th[t].pc = "giveup"
    /\ attempt' = "failed"
    /\ th' = [th EXCEPT ![t] = Idle]
    /\ UNCHANGED <<state, gate, fact, rows, counters>>

----------------------------------------------------------------------------
(* Crashes.                                                                *)

MayDie(t) == <<th[t].kind, th[t].pc>> \in CrashWindows

WorkerDies ==
    /\ th["worker"].pc \notin {"idle", "dead"} /\ MayDie("worker")
    /\ workerDeaths < MaxWorkerDeaths
    /\ workerDeaths' = workerDeaths + 1
    /\ Goto("worker", "dead")
    /\ UNCHANGED <<state, attempt, gate, fact, rows, serverDeaths, requeues, retries>>

MayRequeueOnceMore == requeues <= RetryLimit
MayRequeue == requeues < RetryLimit

\* The instance of an attempt that is given up.
GivenUpAsIs == state
GivenUp == IF state \in Terminal THEN state ELSE Failed

\* Reconciliation finds the worker gone: every running row of the attempt is
\* marked failed, whoever runs it, and the attempt queued again or given up.
FailAndRetry ==
    /\ th["worker"].pc = "dead"
    /\ failed' = [m \in Transition |->
            failed[m] + orphan[m] + Cardinality({t \in Thread : m \in th[t].todo \ th[t].marked})]
    /\ orphan' = [m \in Transition |-> 0]
    /\ th' = [t \in Thread |-> IF t = "worker" THEN Idle ELSE [th[t] EXCEPT !.marked = th[t].todo]]
    /\ IF MayRequeue
       THEN /\ requeues' = requeues + 1
            /\ attempt' = "queued"
            /\ UNCHANGED state
       ELSE /\ attempt' = "failed"
            /\ state' = GivenUp
            /\ UNCHANGED requeues
    /\ UNCHANGED <<gate, fact, success, workerDeaths, serverDeaths, retries>>

\* The server dies and comes back; the rows its threads were running stay.
ServerDies ==
    LET gone == {t \in Thread \ {"worker"} : Busy(t)} IN
    /\ gone # {} /\ \A t \in gone : MayDie(t)
    /\ serverDeaths < MaxServerDeaths
    /\ serverDeaths' = serverDeaths + 1
    /\ orphan' = [m \in Transition |->
            orphan[m] + Cardinality({t \in gone : m \in th[t].todo \ th[t].marked})]
    /\ th' = [t \in Thread |-> IF t \in gone THEN Idle ELSE th[t]]
    /\ UNCHANGED <<state, attempt, gate, fact, failed, success, workerDeaths, requeues, retries>>

----------------------------------------------------------------------------
\* What a thread does on its own, once it has started.
Step(t) ==
    \/ RunStartedHumanGate(t)
    \/ LoopEnds(t) \/ LoopRaises(t) \/ LoopOpensGates(t) \/ LoopRefused(t) \/ LoopStarts(t)
    \/ \E m \in Transition : ActionReturns(t, m)
    \/ CompareState(t) \/ WriteState(t) \/ RecordArtifacts(t) \/ CloseGate(t)
    \/ FinishTerminal(t) \/ FinishReview(t) \/ FinishStopped(t)
    \/ RaiseInLoop(t) \/ RaiseInGate(t) \/ GiveUp(t)

\* What a person decides.
Decide(t) ==
    \/ \E m \in Human : RunHumanGate(t, m) \/ StartHumanGate(t, m)
    \/ \E m \in Transition : RetryFailedAction(t, m)

Next ==
    \/ RunAttempt \/ AdvanceReady
    \/ \E t \in Request : Decide(t)
    \/ \E t \in Thread : Step(t)
    \/ WorkerDies \/ FailAndRetry \/ ServerDies

Spec == Init /\ [][Next]_vars

\* Threads run, actions return (every one has a timeout), a queued attempt is
\* started and a dead worker noticed; nobody has to approve or retry anything.
\* (RunAttempt needs strong fairness because without Overlap it may only happen
\* between the steps of others, which the real supervisor does not wait for.)
Fairness ==
    /\ \A t \in Thread : WF_vars(Step(t))
    /\ SF_vars(RunAttempt) /\ WF_vars(FailAndRetry)

FairSpec == Spec /\ Fairness

----------------------------------------------------------------------------
(* Properties.                                                             *)

AllIdle == \A t \in Thread : ~Busy(t)
Active == state \notin Terminal

TypeOK ==
    /\ state \in State
    /\ attempt \in {"queued", "running", "review", "failed"} \cup Terminal
    /\ gate \in [Human -> {"none", "pending", "running", "resolved"}]
    /\ fact \in [Fact -> {"absent", "yes", "no"}]
    /\ failed \in [Transition -> Nat] /\ orphan \in [Transition -> Nat]
    /\ success \in [Transition -> [own : BOOLEAN, group : BOOLEAN, yes : SUBSET Fact]]
    /\ th \in [Thread -> [pc : Pc, kind : Kind, sole : BOOLEAN, at : State,
                          batch : SUBSET Transition, todo : SUBSET Transition,
                          marked : SUBSET Transition, bad : BOOLEAN,
                          yes : SUBSET Fact, row : BOOLEAN]]
    /\ workerDeaths \in 0..MaxWorkerDeaths /\ serverDeaths \in 0..MaxServerDeaths
    /\ requeues \in 0..RetryLimit /\ retries \in 0..MaxRetries

(* The retry limit of a transition bounds how often its action fails or is *)
(* abandoned over the whole life of the instance, through requeues, crashes*)
(* and marks of reconciliation: one attempt more than the limit, and one   *)
(* more for every manual retry and every death of the server, whose running*)
(* row nothing counts.                                                     *)
RetriesBounded ==
    \A m \in Transition :
        failed[m] + orphan[m] <= Def[m].limit + 1 + retries + serverDeaths

(* A state is left by its automatic transitions only as a whole: when the  *)
(* instance moves from s to the target of a parallel group, every one of   *)
(* its members that may run has a success of this visit to s, also when    *)
(* some of them failed, ran in another process or succeeded before a crash.*)
GroupMoves(s) == {m \in Matching(s, "automatic") : Def[m].group # NoGroup}
BatchIsWhole ==
    [][\A s \in State :
        (state = s /\ state' # s /\ state' # Failed /\ Conditioned(s, "human") = {})
            => \A m \in GroupMoves(s) : GroupCheckpoint(m)]_vars

(* A success of an action is never repeated: once it is recorded, no thread*)
(* starts the action again until the instance has moved with it.           *)
Runs(m) == {t \in Thread : m \in th[t].todo}
SuccessIsKept ==
    [][\A m \in Transition : GroupCheckpoint(m) => Runs(m)' \subseteq Runs(m)]_vars

(* With nobody at work, an instance under review waits for something: a    *)
(* gate of its state is pending, or the next cycle fails it.  (A server    *)
(* that died may leave it stuck, and so does a gate out of retries: it     *)
(* stays pending and whoever approves it is refused.)                      *)
SomeoneCanAct ==
    (AllIdle /\ Active /\ attempt = "review" /\ serverDeaths = 0) =>
        \/ \E m \in Human : Def[m].from = state /\ gate[m] = "pending"
        \/ ChoiceFails

(* Every queued attempt ends in a review or in a terminal state, however   *)
(* its worker fails and is retried.                                        *)
WorkerSettles == (attempt = "queued") ~> (attempt \notin {"queued", "running"})

(* The engine implements DurableWorkflow.                                  *)
Durable == INSTANCE DurableWorkflow WITH
    From <- [m \in Transition |-> Def[m].from],
    To <- [m \in Transition |-> Def[m].to],
    open <- {m \in Transition : GroupCheckpoint(m)}
ImplementsDurable == Durable!Spec
=============================================================================
