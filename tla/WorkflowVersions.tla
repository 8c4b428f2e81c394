-------------------------- MODULE WorkflowVersions --------------------------
(***************************************************************************)
(* Which definition of the workflow each process runs.  WORKFLOW.md is     *)
(* edited by hand and on the dashboard while attempts are under way; the   *)
(* cycle reloads it when it changed, each worker reads it once when its    *)
(* process starts, and the dashboard keeps what it read when the server    *)
(* started or what it wrote last.  Every process advances the same         *)
(* workflow instances with the definition it holds and stamps what it      *)
(* writes with the version it believes that to be.                         *)
(*                                                                         *)
(* Actions succeed and take no time here: failures, retries and overlap    *)
(* are in WorkflowInstance, processes and their supervision in             *)
(* WorkerLifecycle.  A parallel group is taken as one step.                *)
(***************************************************************************)
EXTENDS WorkflowRules, Sequences

CONSTANTS
    Content,        \* what WORKFLOW.md may contain
    Definition,     \* the definition each content describes
    Attempt,        \* attempts
    Nothing,        \* no configuration
    MaxEdits,       \* bound: changes of the file
    MaxCrashes,     \* bound: workers killed
    MaxRestarts,    \* bound: restarts of the server
    RetryLimit      \* workers.retry_limit

Valid == {c \in Content : Accepts(Definition[c])}

ASSUME ContentAssumption == DOMAIN Definition = Content /\ Valid # {}
ASSUME BoundsAssumption ==
    /\ RetryLimit \in Nat /\ MaxEdits \in Nat
    /\ MaxCrashes \in Nat /\ MaxRestarts \in Nat

VARIABLES
    file,       \* the content of WORKFLOW.md
    versions,   \* accepted rows of workflow_versions: the content of each
    saving,     \* content a process read and found no row for, by process
    phase,      \* where the cycle is
    todo,       \* instances the cycle has still to advance
    watcher,    \* WorkflowWatcher: current content and version, or Nothing
    web,        \* the dashboard's state: content and version
    attempts,   \* attempt row and its workflow instance
    worker,     \* what the worker process of an attempt has loaded
    gates,      \* pending gates of an instance: the transitions they stand for
    deciding,   \* instances a gate's thread of the dashboard goes on advancing
    last,       \* history: who wrote an instance last, with which version and definition
    counts      \* edits, crashes and restarts so far
vars == <<file, versions, saving, phase, todo, watcher, web, attempts, worker, gates, deciding, last, counts>>

Process == {"cycle", "web"} \cup Attempt
Loaded == [content : Valid, version : Nat \ {0}]
At(stage) == [stage |-> stage, using |-> Nothing]
WorkerState == {At(stage) : stage \in {"none", "starting", "dead"}} \cup [stage : {"running"}, using : Loaded]
Status == {"new", "queued", "running", "review", "failed", "done"}

Init ==
    /\ file \in Valid /\ versions = <<file>>
    /\ saving = [p \in Process |-> Nothing]
    /\ phase = "load" /\ todo = {} /\ watcher = Nothing
    /\ web = [content |-> file, version |-> 1]
    /\ attempts = [a \in Attempt |-> [status |-> "new", state |-> "", active |-> FALSE, version |-> 0, retries |-> 0]]
    /\ worker = [a \in Attempt |-> At("none")]
    /\ gates = [a \in Attempt |-> {}] /\ deciding = {}
    /\ last = Nothing
    /\ counts = [edits |-> 0, crashes |-> 0, restarts |-> 0]

(***************************************************************************)
(* load_and_record_workflow: the file is read and checked, the accepted    *)
(* rows are searched for its hash, and a row is inserted when there is     *)
(* none; another process may insert the same content in between.  The      *)
(* rows of rejected content are not kept here.                             *)
(***************************************************************************)
Rows(content) == {i \in DOMAIN versions : versions[i] = content}

Holds(p, content, id) ==
    LET loaded == [content |-> content, version |-> id] IN
    /\ watcher' = IF p = "cycle" THEN loaded ELSE watcher
    /\ phase' = IF p = "cycle" THEN "reconcile" ELSE phase
    /\ web' = IF p = "web" THEN loaded ELSE web
    /\ worker' = IF p \in Attempt THEN [worker EXCEPT ![p] = [stage |-> "running", using |-> loaded]] ELSE worker

\* Mutant: the newest accepted row is taken for the file's.
RecordNewest(p, content) ==
    IF Rows(content) # {}
    THEN Holds(p, content, Len(versions)) /\ UNCHANGED saving
    ELSE saving' = [saving EXCEPT ![p] = content] /\ UNCHANGED <<watcher, phase, web, worker>>

Record(p, content) ==
    IF Rows(content) # {}
    THEN (\E id \in Rows(content) : Holds(p, content, id)) /\ UNCHANGED saving
    ELSE saving' = [saving EXCEPT ![p] = content] /\ UNCHANGED <<watcher, phase, web, worker>>

InsertVersion(p) ==
    /\ saving[p] # Nothing
    /\ versions' = Append(versions, saving[p])
    /\ saving' = [saving EXCEPT ![p] = Nothing]
    /\ IF p = "web"
       THEN web' = [web EXCEPT !.content = saving[p]] /\ UNCHANGED <<watcher, phase, worker>>
       ELSE Holds(p, saving[p], Len(versions) + 1)
    /\ UNCHANGED <<file, todo, attempts, gates, deciding, last, counts>>

EditFile ==
    /\ counts.edits < MaxEdits
    /\ file' \in Content \ {file}
    /\ counts' = [counts EXCEPT !.edits = @ + 1]
    /\ UNCHANGED <<versions, saving, phase, todo, watcher, web, attempts, worker, gates, deciding, last>>

(* The page of the editor was loaded at any earlier time: what it proposes does not depend on the file. *)
(* The dashboard's version stays what it was when the server started.                                  *)
Apply ==
    /\ counts.edits < MaxEdits /\ saving["web"] = Nothing
    /\ counts' = [counts EXCEPT !.edits = @ + 1]
    /\ \E proposal \in Valid :
        /\ file' = proposal
        /\ IF Rows(proposal) # {}
           THEN web' = [web EXCEPT !.content = proposal] /\ UNCHANGED saving
           ELSE saving' = [saving EXCEPT !["web"] = proposal] /\ UNCHANGED web
    /\ UNCHANGED <<versions, phase, todo, watcher, attempts, worker, gates, deciding, last>>

(***************************************************************************)
(* One instance advanced by the definition its process holds.              *)
(***************************************************************************)
Out(def, state, human) ==
    {m \in Names(def) : def.transitions[m].from = state /\ def.transitions[m].human = human}
Unsupported(def, ms) == \E m \in ms : def.transitions[m].condition = "unsupported"
IsBatch(def, ms) ==
    \/ Cardinality(ms) = 1
    \/ Cardinality({def.transitions[m].group : m \in ms}) = 1 /\ \A m \in ms : def.transitions[m].group # ""

Stamp(by, using) == last' = [by |-> by, version |-> using.version, content |-> using.content]

(* The gates opened where nothing is automatic. *)
Opens(a, using) ==
    LET def == Definition[using.content]
        human == Out(def, attempts[a].state, TRUE)
    IN  IF \/ attempts[a].state \in def.terminals \/ Unsupported(def, human)
           \/ Out(def, attempts[a].state, FALSE) # {}
        THEN {}
        ELSE human

(* Why the loop ends where the instance is, or that it goes on. *)
StopReason(a, using, allowed) ==
    LET def == Definition[using.content]
        auto == Out(def, attempts[a].state, FALSE)
    IN  IF attempts[a].state \in def.terminals THEN "terminal"
        ELSE IF auto = {} THEN IF Opens(a, using) = {} THEN "no_transition" ELSE "human_gate"
        ELSE IF Unsupported(def, auto) \/ ~IsBatch(def, auto) THEN "error"
        ELSE IF {Registry[def.transitions[m].action].effect : m \in auto} \subseteq allowed THEN "moves"
        ELSE "side_effect_not_allowed"

StepMoves(a, by, using, allowed) ==
    LET def == Definition[using.content]
        to == def.transitions[CHOOSE m \in Out(def, attempts[a].state, FALSE) : TRUE].to
    IN  /\ StopReason(a, using, allowed) = "moves"
        /\ attempts' = [attempts EXCEPT ![a].state = to, ![a].active = to \notin def.terminals]
        /\ Stamp(by, using)
        /\ UNCHANGED <<gates, worker, phase, todo, deciding>>

StepEnds(a, using, allowed) ==
    /\ StopReason(a, using, allowed) # "moves"
    /\ gates' = [gates EXCEPT ![a] = @ \cup Opens(a, using)]
    /\ UNCHANGED last

EveryEffect == {"none", "github_read", "github_write", "workspace_write", "codex_worker"}
CycleEffects == {"github_read", "github_write", "workspace_write"}

Failed(a) == [attempts EXCEPT ![a].state = "failed", ![a].active = FALSE, ![a].status = "failed"]

(***************************************************************************)
(* Workers.                                                                *)
(***************************************************************************)
(* The definition is read anew: it need not be the one the attempt was created under. *)
WorkerLoad(a) ==
    /\ worker[a].stage = "starting" /\ saving[a] = Nothing
    /\ IF file \in Valid
       THEN Record(a, file)
       ELSE worker' = [worker EXCEPT ![a] = At("dead")] /\ UNCHANGED <<saving, watcher, phase, web>>
    /\ UNCHANGED <<file, versions, todo, attempts, gates, deciding, last, counts>>

\* Mutant: only an error fails the attempt.
WorkerOutcomeError(a, reason) ==
    CASE reason = "terminal" -> [attempts EXCEPT ![a].status = "done"]
      [] reason = "human_gate" -> [attempts EXCEPT ![a].status = "review"]
      [] reason = "error" -> Failed(a)
      [] OTHER -> attempts

(* A state the definition at hand does not have, or does not leave, fails the attempt. *)
WorkerOutcome(a, reason) ==
    CASE reason = "terminal" -> [attempts EXCEPT ![a].status = "done"]
      [] reason = "human_gate" -> [attempts EXCEPT ![a].status = "review"]
      [] OTHER -> Failed(a)

WorkerStep(a) ==
    /\ worker[a].stage = "running"
    /\ \/ StepMoves(a, "worker", worker[a].using, EveryEffect)
       \/ /\ StepEnds(a, worker[a].using, EveryEffect)
          /\ attempts' = WorkerOutcome(a, StopReason(a, worker[a].using, EveryEffect))
          /\ worker' = [worker EXCEPT ![a] = At("none")]
          /\ UNCHANGED <<phase, todo, deciding>>
    /\ UNCHANGED <<file, versions, saving, watcher, web, counts>>

WorkerDies(a) ==
    /\ worker[a].stage \in {"starting", "running"} /\ counts.crashes < MaxCrashes
    /\ worker' = [worker EXCEPT ![a] = At("dead")]
    /\ saving' = [saving EXCEPT ![a] = Nothing]
    /\ counts' = [counts EXCEPT !.crashes = @ + 1]
    /\ UNCHANGED <<file, versions, phase, todo, watcher, web, attempts, gates, deciding, last>>


(* Content that is not accepted ends the cycle before anything else is done in it. *)
Reload ==
    /\ phase = "load" /\ saving["cycle"] = Nothing
    /\ IF watcher # Nothing /\ watcher.content = file
       THEN phase' = "reconcile" /\ UNCHANGED <<saving, watcher, web, worker>>
       ELSE /\ file \in Valid
            /\ Record("cycle", file)
    /\ UNCHANGED <<file, versions, todo, attempts, gates, deciding, last, counts>>

Requeued(a) ==
    IF attempts[a].retries < RetryLimit
    THEN [attempts[a] EXCEPT !.status = "queued", !.retries = @ + 1]
    ELSE [attempts[a] EXCEPT !.status = "failed"]
Ready(rows) == {a \in Attempt : rows[a].active /\ rows[a].status \notin {"queued", "running"}}

Reconcile ==
    /\ phase = "reconcile"
    /\ phase' = "advance"
    /\ LET dead == {a \in Attempt : worker[a].stage = "dead"} IN
       /\ worker' = [a \in Attempt |-> IF a \in dead THEN At("none") ELSE worker[a]]
       /\ attempts' = [a \in Attempt |-> IF a \in dead THEN Requeued(a) ELSE attempts[a]]
    /\ todo' = Ready(attempts')
    /\ UNCHANGED <<file, versions, saving, watcher, web, gates, deciding, last, counts>>

(* An error fails the instance, not the attempt, and ends the cycle. *)
CycleStep(a) ==
    /\ phase = "advance" /\ a \in todo \ deciding
    /\ \/ StepMoves(a, "cycle", watcher, CycleEffects)
       \/ /\ StepEnds(a, watcher, CycleEffects)
          /\ LET reason == StopReason(a, watcher, CycleEffects) IN
             /\ attempts' = CASE reason = "terminal" -> [attempts EXCEPT ![a].status = "done"]
                              [] reason = "error" -> [attempts EXCEPT ![a].state = "failed", ![a].active = FALSE]
                              [] OTHER -> attempts
             /\ phase' = IF reason = "error" THEN "load" ELSE phase
             /\ todo' = IF reason = "error" THEN {} ELSE todo \ {a}
          /\ UNCHANGED <<worker, deciding>>
    /\ UNCHANGED <<file, versions, saving, watcher, web, counts>>

AdvanceEnds ==
    /\ phase = "advance" /\ todo = {}
    /\ phase' = "claim"
    /\ UNCHANGED <<file, versions, saving, todo, watcher, web, attempts, worker, gates, deciding, last, counts>>

(* The first action is looked up by the name of its transition, which no rule asks a *)
(* definition to have: the default need not be one of its states.                    *)
EntryState(def) ==
    IF "find_issue_pull_requests" \in Names(def) THEN def.transitions["find_issue_pull_requests"].from
    ELSE IF "allocate_workspace" \in Names(def) THEN def.transitions["allocate_workspace"].from
    ELSE "claimed"

Claim ==
    /\ phase = "claim"
    /\ phase' = "start"
    /\ \/ UNCHANGED <<attempts, last>>
       \/ \E a \in Attempt :
            /\ attempts[a].status = "new"
            /\ attempts' = [attempts EXCEPT ![a].status = "queued", ![a].active = TRUE,
                                            ![a].state = EntryState(Definition[watcher.content]),
                                            ![a].version = watcher.version]
            /\ Stamp("cycle", watcher)
    /\ UNCHANGED <<file, versions, saving, todo, watcher, web, worker, gates, deciding, counts>>

StartQueued ==
    /\ phase = "start"
    /\ phase' = "load"
    /\ LET queued == {a \in Attempt : attempts[a].status = "queued"} IN
       /\ attempts' = [a \in Attempt |-> IF a \in queued THEN [attempts[a] EXCEPT !.status = "running"] ELSE attempts[a]]
       /\ worker' = [a \in Attempt |-> IF a \in queued THEN At("starting") ELSE worker[a]]
    /\ UNCHANGED <<file, versions, saving, todo, watcher, web, gates, deciding, last, counts>>

(***************************************************************************)
(* The dashboard's gates and the server.                                   *)
(***************************************************************************)
RunGate(a, m) ==
    /\ m \in gates[a] /\ a \notin deciding
    /\ LET def == Definition[web.content] IN
       /\ m \in Names(def) /\ def.transitions[m].human
       /\ def.transitions[m].from = attempts[a].state
       /\ LET to == def.transitions[m].to
              final == to \in def.terminals IN
          /\ attempts' = [attempts EXCEPT ![a].state = to, ![a].active = ~final,
                                          ![a].status = IF final THEN "done" ELSE @]
          /\ Stamp("web", web)
    /\ gates' = [gates EXCEPT ![a] = @ \ {m}]
    /\ deciding' = deciding \cup {a}
    /\ UNCHANGED <<file, versions, saving, phase, todo, watcher, web, worker, counts>>

(* What the thread finds at the end is shown, and changes no row. *)
GateStep(a) ==
    /\ a \in deciding
    /\ \/ StepMoves(a, "web", web, EveryEffect)
       \/ /\ StepEnds(a, web, EveryEffect)
          /\ deciding' = deciding \ {a}
          /\ UNCHANGED <<attempts, worker, phase, todo>>
    /\ UNCHANGED <<file, versions, saving, watcher, web, counts>>

(* A server that dies leaves its workers running. *)
RestartServer ==
    /\ counts.restarts < MaxRestarts
    /\ file \in Valid
    /\ counts' = [counts EXCEPT !.restarts = @ + 1]
    /\ watcher' = Nothing /\ phase' = "load" /\ todo' = {} /\ deciding' = {}
    /\ LET id == IF Rows(file) # {} THEN CHOOSE i \in Rows(file) : TRUE ELSE Len(versions) + 1 IN
       /\ versions' = IF Rows(file) # {} THEN versions ELSE Append(versions, file)
       /\ web' = [content |-> file, version |-> id]
    /\ saving' = [saving EXCEPT !["web"] = Nothing, !["cycle"] = Nothing]
    /\ UNCHANGED <<file, attempts, worker, gates, last>>

Next ==
    \/ EditFile \/ Apply
    \/ \E p \in Process : InsertVersion(p)
    \/ \E a \in Attempt : WorkerLoad(a) \/ WorkerStep(a) \/ WorkerDies(a) \/ CycleStep(a) \/ GateStep(a)
    \/ \E a \in Attempt : \E m \in gates[a] : RunGate(a, m)
    \/ Reload \/ Reconcile \/ AdvanceEnds \/ Claim \/ StartQueued
    \/ RestartServer

(* The loop runs cycles and each process goes on; edits, gates and restarts are people's. *)
Fairness ==
    /\ WF_vars(Reload \/ Reconcile \/ AdvanceEnds \/ Claim \/ StartQueued \/ \E a \in Attempt : CycleStep(a))
    /\ \A p \in Process : WF_vars(InsertVersion(p))
    /\ \A a \in Attempt : WF_vars(WorkerLoad(a) \/ WorkerStep(a)) /\ WF_vars(GateStep(a))

Spec == Init /\ [][Next]_vars /\ Fairness

(***************************************************************************)
(* Properties.                                                             *)
(***************************************************************************)
StateName == {"", "claimed", "failed"} \cup UNION {States(Definition[c]) : c \in Valid}

(* Every variable keeps its type: an attempt is in a state that an acceptable         *)
(* definition has, and is not requeued more often than retry_limit.                   *)
TypeOK ==
    /\ file \in Content /\ versions \in Seq(Valid)
    /\ saving \in [Process -> Valid \cup {Nothing}]
    /\ phase \in {"load", "reconcile", "advance", "claim", "start"}
    /\ watcher \in Loaded \cup {Nothing} /\ web \in Loaded
    /\ attempts \in [Attempt -> [status : Status, state : StateName, active : BOOLEAN,
                                 version : Nat, retries : 0..RetryLimit]]
    /\ worker \in [Attempt -> WorkerState]
    /\ gates \in [Attempt -> SUBSET UNION {Names(Definition[c]) : c \in Valid}]
    /\ deciding \subseteq Attempt /\ todo \subseteq Attempt
    /\ counts \in [edits : 0..MaxEdits, crashes : 0..MaxCrashes, restarts : 0..MaxRestarts]

(* Whoever of the cycle and the workers creates or advances an instance stamps it *)
(* with a row that holds the definition it ran, however often the file changed    *)
(* since and although two processes may insert a row for the same content         *)
(* (WorkflowWatcher.reload_if_changed, record_workflow_version).                  *)
StampsAreTrue ==
    last # Nothing /\ last.by # "web" => versions[last.version] = last.content

(* An instance under way stands in a state of some stored version, although three   *)
(* processes move it by three definitions; or it still stands where it was created, *)
(* in the default that the version it was claimed with gave it for want of either   *)
(* of the transitions it is entered by (_transition_from_state).                    *)
HasEntry(def) == {"find_issue_pull_requests", "allocate_workspace"} \cap Names(def) # {}
InstancesAreKnown ==
    \A a \in Attempt : attempts[a].active =>
        \/ \E v \in DOMAIN versions : attempts[a].state \in States(Definition[versions[v]])
        \/ /\ attempts[a].state = "claimed" /\ attempts[a].version \in DOMAIN versions
           /\ ~HasEntry(Definition[versions[attempts[a].version]])

(* An attempt that was claimed comes to its end or before a person, though its     *)
(* instance may have been created in a state its definition does not have and may  *)
(* be moved, between retries, to definitions that do not have the state it is in;  *)
(* provided the file comes to be one that is accepted (run_attempt,                *)
(* _finish_attempt_from_workflow_result).                                          *)
Settled(a) == attempts[a].status \in {"review", "failed", "done"}
AttemptsSettle ==
    \A a \in Attempt : <>[](file \in Valid) => (attempts[a].status = "queued" ~> Settled(a))


=============================================================================
