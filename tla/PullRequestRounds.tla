------------------------- MODULE PullRequestRounds -------------------------
(***************************************************************************)
(* The workflow that is the default, as one attempt goes through it: from  *)
(* the search for a pull request to the rounds of checks, follow-up by     *)
(* Codex, review and push, until the pull request is merged.  What the     *)
(* states, transitions and conditions are is data of the module; how the   *)
(* threads of Symphony run them is module WorkflowInstance, so here an     *)
(* action of the workflow is one step, with what it does to GitHub, to the *)
(* worktree and to the artifacts that later conditions and prompts use.    *)
(***************************************************************************)
EXTENDS Naturals, FiniteSets

CONSTANTS
    Kind,          \* kinds of card: issue, local_ticket or pull_request
    Retriable,     \* actions somebody retries by hand after a failure
    MaxChanges,    \* bound on what people and CI do at GitHub
    MaxFaults,     \* bound on actions that fail for no cause of the workflow
    MaxRetries     \* bound on manual retries

VARIABLES
    state,     \* workflow_instances.current_state
    job,       \* the kind of the card, the task, and whether it has an active pull request
    hub,       \* the pull request at GitHub: state, CI of its head, comments, conflict
    art,       \* workflow_artifacts that conditions and prompts use
    merged,    \* whether a row of the attempt's pull requests has merged_at
    tree,      \* the worktree: whether it has work that is not pushed, and whether the
               \* pull request has commits that it has not
    failed,    \* failed rows of each transition
    done,      \* transitions of a group whose success is not consumed
    read,      \* history: what has been read since somebody last asked for a check
    given,     \* history: what Codex was last given, and whether it was since then
    changes, faults, retries

github == <<hub, changes>>
roundVars == <<state, job, github, art, merged, tree, failed, done, read, given, faults, retries>>

-----------------------------------------------------------------------------
(***************************************************************************)
(* The definition                                                          *)
(***************************************************************************)

Terminal == {"done", "failed", "blocked"}
State == Terminal \cup
    {"todo", "claimed", "associated_pr_checked", "workspace_ready", "setup_complete",
     "worker_complete", "review", "pr_ready", "pr_refreshed", "pr_checks_complete",
     "pr_feedback_context_ready", "pr_follow_up_complete", "pr_waiting"}

Step(from, to, action, pos, neg) ==
    [from |-> from, to |-> to, action |-> action, human |-> FALSE, group |-> "none", limit |-> 1,
     pos |-> pos, neg |-> neg]
Gate(from, to, action, pos) == [Step(from, to, action, pos, {}) EXCEPT !.human = TRUE]
Check(group, from, action, pos, neg) ==
    [Step(from, "pr_checks_complete", action, pos, neg) EXCEPT !.group = group]
Initial(action) == Check("initial_pr_checks", "setup_complete", action, {"exists"}, {})
\* Mutant: without the condition that the pull request is not merged.
RefreshedAlways(action) == Check("refreshed_pr_checks", "pr_refreshed", action, {}, {})
Refreshed(action) == Check("refreshed_pr_checks", "pr_refreshed", action, {}, {"merged"})

UpToCodex ==
    [claim_issue |-> Step("todo", "claimed", "labels", {}, {}),
     find_issue_pull_requests |-> Step("claimed", "associated_pr_checked", "find", {}, {}),
     allocate_workspace |-> Step("associated_pr_checked", "workspace_ready", "allocate", {}, {}),
     run_setup |-> Step("workspace_ready", "setup_complete", "setup", {}, {}),
     research_issue |-> Step("setup_complete", "worker_complete", "codex", {"research"}, {"exists"}),
     fix_issue |-> Step("setup_complete", "worker_complete", "codex", {"code"}, {"exists"})]

FirstChecks ==
    [check_pr_ci |-> Initial("ci"),
     check_pr_comments |-> Initial("comments"),
     check_pr_mergeability |-> Initial("mergeability")]

FollowUp ==
    [fetch_ci_failure_context |->
        Step("pr_checks_complete", "pr_feedback_context_ready", "context", {"failures"}, {}),
     skip_ci_failure_context |->
        Step("pr_checks_complete", "pr_feedback_context_ready", "noop", {}, {"failures"}),
     address_pr_feedback |->
        Step("pr_feedback_context_ready", "pr_follow_up_complete", "address", {"followup"}, {}),
     push_pr_feedback_fix |-> Gate("pr_follow_up_complete", "pr_waiting", "push", {}),
     wait_existing_pr |->
        Step("pr_feedback_context_ready", "pr_waiting", "noop", {}, {"followup"})]

Review ==
    [request_review |-> Step("worker_complete", "review", "labels", {"research"}, {}),
     post_answer |-> Gate("review", "done", "comment", {"research"}),
     auto_create_draft_pr |-> Step("worker_complete", "pr_ready", "create", {"code"}, {}),
     create_draft_pr |-> [Gate("review", "pr_ready", "create", {"code"}) EXCEPT !.limit = 2],
     wait_created_pr |-> Step("pr_ready", "pr_waiting", "noop", {}, {}),
     mark_blocked |-> Gate("review", "blocked", "labels", {})]

Again ==
    [check_pr_again |-> Gate("pr_waiting", "pr_refreshed", "fetch", {}),
     cleanup_after_merge |-> Step("pr_refreshed", "done", "cleanup", {"merged"}, {}),
     refresh_pr_ci |-> Refreshed("ci"),
     refresh_pr_comments |-> Refreshed("comments"),
     refresh_pr_mergeability |-> Refreshed("mergeability")]

Transition == UNION {DOMAIN UpToCodex, DOMAIN FirstChecks, DOMAIN FollowUp, DOMAIN Review, DOMAIN Again}
Def == [m \in Transition |->
          CASE m \in DOMAIN UpToCodex -> UpToCodex[m]
            [] m \in DOMAIN FirstChecks -> FirstChecks[m]
            [] m \in DOMAIN FollowUp -> FollowUp[m]
            [] m \in DOMAIN Review -> Review[m]
            [] m \in DOMAIN Again -> Again[m]]

ASSUME DefinitionAssumption ==
    /\ Kind \subseteq {"issue", "local_ticket", "pull_request"}
    /\ Retriable \subseteq Transition
    /\ {MaxChanges, MaxFaults, MaxRetries} \subseteq Nat

\* Mutant: comments are left out.
FollowUpNeededByCode == art.conflict \/ art.failures
FollowUpNeeded == art.conflict \/ art.failures \/ art.comments > 0

Holds(condition) ==
    CASE condition \in {"code", "research"} -> job.task = condition
      [] condition = "exists" -> art.exists
      [] condition = "merged" -> merged \/ art.merged
      [] condition = "failures" -> art.failures
      [] condition = "followup" -> FollowUpNeeded

Leaving == [s \in State |-> {m \in Transition : Def[m].from = s}]
Conditioned(s, human) ==
    {m \in Leaving[s] : /\ Def[m].human = human
                        /\ \A c \in Def[m].pos : Holds(c)
                        /\ \A c \in Def[m].neg : ~Holds(c)}
Exhausted(s, human) == {m \in Conditioned(s, human) : failed[m] > Def[m].limit}
Matching(s, human) == Conditioned(s, human) \ Exhausted(s, human)

IsBatch(batch) ==
    \/ Cardinality(batch) = 1
    \/ Cardinality({Def[m].group : m \in batch}) = 1 /\ \A m \in batch : Def[m].group # "none"

-----------------------------------------------------------------------------
NoPR == [state |-> "none", ci |-> "pending", comments |-> 0, conflict |-> FALSE,
         found |-> FALSE]
OpenPR(found) == [NoPR EXCEPT !.state = "open", !.found = found]

NoArtifact == [exists |-> FALSE, merged |-> FALSE, failures |-> FALSE, comments |-> 0,
               conflict |-> FALSE, logs |-> FALSE]
NoFollowUp == [fresh |-> FALSE, failures |-> FALSE, comments |-> 0, logs |-> FALSE]

\* The claim of a card's run, and the artifacts the workflow starts with.
Claim(kind, task, active) == [kind |-> kind, task |-> task, active |-> active]
ClaimArtifacts(claim) == [NoArtifact EXCEPT !.exists = claim.active]

(* An issue is claimed from its label in todo, a card in claimed, with the number of the *)
(* card's active pull request.  The search finds the pull request of an issue: by the    *)
(* link, or the marker with the number of the issue.                                     *)
RoundsInit ==
    /\ \E k \in Kind, t \in {"code", "research"}, open \in BOOLEAN, s \in {"todo", "claimed"} :
         /\ k = "pull_request" => open
         /\ s = "todo" => k = "issue"
         /\ state = s
         /\ job = Claim(k, t, open /\ s = "claimed")
         /\ hub = IF open THEN OpenPR(k = "issue") ELSE NoPR
         /\ art = ClaimArtifacts(job)
    /\ merged = FALSE
    /\ tree = [behind |-> FALSE, work |-> FALSE]
    /\ failed = [m \in Transition |-> 0]
    /\ done = {} /\ read = {} /\ given = NoFollowUp
    /\ changes = 0 /\ faults = 0 /\ retries = 0

-----------------------------------------------------------------------------
(***************************************************************************)
(* What the actions do                                                     *)
(***************************************************************************)

Keeps(set) ==
    /\ "hub" \in set => UNCHANGED hub
    /\ "art" \in set => UNCHANGED art
    /\ "tree" \in set => UNCHANGED tree
    /\ "merged" \in set => UNCHANGED merged
    /\ "read" \in set => UNCHANGED read
    /\ "given" \in set => UNCHANGED given

Nothing == Keeps({"hub", "art", "tree", "merged", "read", "given"})

\* A pull request that is not open is only known by its link, and not if GitHub
\* does not answer.  What is not found overwrites what the card said.
FindIssuePullRequests ==
    \E found \in {hub.found, hub.found /\ hub.state = "open"} :
        /\ art' = [art EXCEPT !.exists = found]
        /\ merged' = (merged \/ (found /\ hub.state = "merged"))
        /\ read' = {} /\ given' = [given EXCEPT !.fresh = FALSE]
        /\ Keeps({"hub", "tree"})

\* From the branch of the pull request, in a worktree that may be an older one's.
AllocateWorkspace ==
    /\ \E behind \in {FALSE, art.exists} : tree' = [behind |-> behind, work |-> FALSE]
    /\ Keeps({"hub", "art", "merged", "read", "given"})

RunCodex ==
    /\ \E work \in BOOLEAN : tree' = [tree EXCEPT !.work = @ \/ work]
    /\ Keeps({"hub", "art", "merged", "read", "given"})

CreateDraftPR ==
    /\ tree.work   \* else: no changes
    /\ hub' = OpenPR(job.kind = "issue")
    /\ tree' = [behind |-> FALSE, work |-> FALSE]
    /\ art' = [art EXCEPT !.exists = TRUE]
    /\ given' = NoFollowUp
    /\ Keeps({"merged", "read"})

FetchCiStatus ==
    /\ art' = [art EXCEPT !.failures = hub.ci = "failure"]
    /\ read' = read \cup {"ci"}
    /\ Keeps({"hub", "tree", "merged", "given"})

FetchReviewComments ==
    /\ art' = [art EXCEPT !.comments = hub.comments]
    /\ read' = read \cup {"comments"}
    /\ Keeps({"hub", "tree", "merged", "given"})

\* GitHub may not have computed it yet.
DetectMergeConflicts ==
    /\ \E known \in BOOLEAN : art' = [art EXCEPT !.conflict = hub.conflict /\ known]
    /\ read' = read \cup {"mergeability"}
    /\ Keeps({"hub", "tree", "merged", "given"})

\* The logs of the failed checks, if there are any at the head there is now.
FetchCiFailureContext ==
    /\ \E logs \in BOOLEAN : art' = [art EXCEPT !.logs = logs]
    /\ Keeps({"hub", "tree", "merged", "read", "given"})

\* The inputs of address_pr_feedback, resolved from the artifacts there are.
FollowUpInput ==
    [fresh |-> {"ci", "comments", "mergeability"} \subseteq read,
     failures |-> art.failures, comments |-> art.comments, logs |-> art.logs]

AddressFeedback ==
    /\ given' = FollowUpInput
    /\ \E work \in BOOLEAN : tree' = [tree EXCEPT !.work = @ \/ work]
    /\ Keeps({"hub", "art", "merged", "read"})

\* GitHub refuses what is not a fast forward.
PushUpdate ==
    /\ job.task = "code"
    /\ ~tree.behind
    /\ hub' = [hub EXCEPT !.ci = IF tree.work THEN "pending" ELSE @]
    /\ tree' = [tree EXCEPT !.work = FALSE]
    /\ Keeps({"art", "merged", "read", "given"})

\* Mutant: outputs of the transition are not mapped, and the row is not recorded.
FetchPullRequestUnmapped ==
    /\ read' = {} /\ given' = [given EXCEPT !.fresh = FALSE]
    /\ Keeps({"hub", "art", "merged", "tree"})

FetchPullRequest ==
    /\ art' = [art EXCEPT !.merged = hub.state = "merged"]
    /\ merged' = (merged \/ hub.state = "merged")
    /\ read' = {} /\ given' = [given EXCEPT !.fresh = FALSE]
    /\ Keeps({"hub", "tree"})

\* A worktree with changes is not removed.
CleanUpAfterMerge == (merged => ~tree.work) /\ Nothing

Effect(action) ==
    CASE action \in {"labels", "setup", "noop", "comment"} -> Nothing
      [] action = "find" -> FindIssuePullRequests
      [] action = "allocate" -> AllocateWorkspace
      [] action = "codex" -> RunCodex
      [] action = "create" -> CreateDraftPR
      [] action = "ci" -> FetchCiStatus
      [] action = "comments" -> FetchReviewComments
      [] action = "mergeability" -> DetectMergeConflicts
      [] action = "context" -> FetchCiFailureContext
      [] action = "address" -> AddressFeedback
      [] action = "push" -> PushUpdate
      [] action = "fetch" -> FetchPullRequest
      [] action = "cleanup" -> CleanUpAfterMerge

\* Refused whatever GitHub and the machine do.
MustFail(action) ==
    \/ action = "create" /\ ~tree.work
    \/ action = "push" /\ (job.task # "code" \/ tree.behind)
    \/ action = "cleanup" /\ merged /\ tree.work

-----------------------------------------------------------------------------
(***************************************************************************)
(* The engine                                                              *)
(***************************************************************************)

Batch == Matching(state, FALSE)

\* Mutant: successes are looked for by the transition's own name alone.
ConsumedNever(batch, finished) == finished

\* The move consumes the successes of its batch.
Consumed(batch, finished) == finished \ batch

RunAutomatic(batch, m) ==
    /\ Effect(Def[m].action)
    /\ IF batch \subseteq done \cup {m}
       THEN state' = Def[m].to /\ done' = Consumed(batch, done \cup {m})
       ELSE done' = done \cup {m} /\ UNCHANGED state
    /\ UNCHANGED <<job, changes, failed, faults, retries>>

\* The checkpoints of a whole batch are found.
ResumeBatch(batch) ==
    /\ batch # {} /\ batch \subseteq done
    /\ state' = Def[CHOOSE m \in batch : TRUE].to /\ done' = Consumed(batch, done)
    /\ Nothing /\ UNCHANGED <<job, changes, failed, faults, retries>>

Fault(action) ==
    \/ MustFail(action) /\ UNCHANGED faults
    \/ faults < MaxFaults /\ faults' = faults + 1

Fails(m) ==
    /\ failed' = [failed EXCEPT ![m] = @ + 1]
    /\ Fault(Def[m].action)
    /\ Nothing /\ UNCHANGED <<state, job, changes, done, retries>>

GiveUp ==
    /\ state' = "failed"
    /\ Nothing /\ UNCHANGED <<job, changes, failed, done, faults, retries>>

HumanTransition == {m \in Transition : Def[m].human}
Open(m) ==
    /\ state = Def[m].from /\ Conditioned(state, FALSE) = {}
    /\ m \in Matching(state, TRUE)

RunGate(m) ==
    /\ Open(m)
    /\ Effect(Def[m].action)
    /\ state' = Def[m].to
    /\ UNCHANGED <<job, changes, failed, done, faults, retries>>

FailGate(m) == Open(m) /\ Fails(m)

\* The one action, alone, whatever its group and its budget.
RetryFailed(m) ==
    /\ state = "failed" /\ failed[m] > 0
    /\ retries < MaxRetries
    /\ retries' = retries + 1
    /\ Effect(Def[m].action)
    /\ state' = Def[m].to
    /\ done' = done \ {m}
    /\ UNCHANGED <<job, changes, failed, faults>>

-----------------------------------------------------------------------------
(***************************************************************************)
(* People, and CI                                                          *)
(***************************************************************************)

Changes ==
    /\ hub.state = "open"
    /\ changes < MaxChanges /\ changes' = changes + 1
    /\ UNCHANGED <<state, job, art, merged, failed, done, read, given, faults, retries>>

CiEnds(result) == Changes /\ hub.ci # result /\ hub' = [hub EXCEPT !.ci = result] /\ UNCHANGED tree
PersonComments == Changes /\ hub' = [hub EXCEPT !.comments = @ + 1] /\ UNCHANGED tree
BaseMoves == Changes /\ hub' = [hub EXCEPT !.conflict = ~@] /\ UNCHANGED tree
PersonPushes ==
    Changes /\ hub' = [hub EXCEPT !.ci = "pending"] /\ tree' = [tree EXCEPT !.behind = TRUE]
Ends(how) == Changes /\ hub' = [hub EXCEPT !.state = how] /\ UNCHANGED tree

GitHub ==
    \/ \E result \in {"success", "failure"} : CiEnds(result)
    \/ PersonComments \/ BaseMoves \/ PersonPushes
    \/ \E how \in {"merged", "closed"} : Ends(how)

Automatic ==
    LET batch == Batch IN
    /\ state \notin Terminal
    /\ IF Exhausted(state, FALSE) # {} THEN GiveUp
       ELSE /\ IsBatch(batch)
            /\ \/ \E m \in batch \ done : RunAutomatic(batch, m) \/ Fails(m)
               \/ ResumeBatch(batch)

Advance == Automatic \/ \E m \in HumanTransition : RunGate(m) \/ FailGate(m)
RoundsNext ==
    \/ Advance
    \/ \E m \in Retriable : RetryFailed(m)
    \/ GitHub

\* The server keeps advancing the instance, and its operator decides what is to
\* be decided, again after a failure; a gate opens only when nothing else runs.
RoundsSpec == RoundsInit /\ [][RoundsNext]_roundVars /\ WF_roundVars(Advance)

-----------------------------------------------------------------------------
(***************************************************************************)
(* Properties                                                              *)
(***************************************************************************)

(* Every variable has its type. *)
RoundTypes ==
    /\ state \in State
    /\ job \in [kind : Kind, task : {"code", "research"}, active : BOOLEAN]
    /\ hub \in [state : {"none", "open", "merged", "closed"},
                ci : {"pending", "success", "failure"}, comments : 0..MaxChanges,
                conflict : BOOLEAN, found : BOOLEAN]
    /\ art \in [exists : BOOLEAN, merged : BOOLEAN, failures : BOOLEAN,
                comments : 0..MaxChanges, conflict : BOOLEAN, logs : BOOLEAN]
    /\ merged \in BOOLEAN
    /\ tree \in [behind : BOOLEAN, work : BOOLEAN]
    /\ failed \in [Transition -> Nat]
    /\ done \subseteq Transition
    /\ read \subseteq {"ci", "comments", "mergeability"}
    /\ given \in [fresh : BOOLEAN, failures : BOOLEAN, comments : 0..MaxChanges, logs : BOOLEAN]
    /\ changes \in 0..MaxChanges /\ faults \in 0..MaxFaults /\ retries \in 0..MaxRetries

(* The definition has no dead end and no ambiguity: whatever the artifacts say, a state   *)
(* that is not terminal has one transition or group to run, or a gate to open, unless one *)
(* is out of retries (an ambiguity or dead end fails the attempt, orchestrator.py:829).   *)
AlwaysAMove ==
    state \notin Terminal =>
        \/ Exhausted(state, FALSE) # {}
        \/ Batch # {} /\ IsBatch(Batch)
        \/ Batch = {} /\ Conditioned(state, TRUE) # {}

(* When a follow-up is there to be pushed, Codex made it since a person last asked for a  *)
(* check, from results all read since then, though successes are kept as checkpoints and  *)
(* the checks run, fail and resume in any order (store.py:608).  A failed action retried  *)
(* by hand goes on from where it is, whatever was read in which round                     *)
(* (orchestrator.py:539), so this is said of an instance as long as none was.             *)
FollowUpIsFresh == state = "pr_follow_up_complete" /\ retries = 0 => given.fresh

(* A pull request that is merged ends the workflow, as long as gates are decided.         *)
Stuck == state \notin Terminal /\ Exhausted(state, TRUE) # {}
KnownMerged == hub.state = "merged" /\ art.exists
MergedIsDone == KnownMerged ~> (state \in Terminal \/ Stuck \/ ~KnownMerged)

(* Codex is given every comment, if the pull request stays open and known and gates are   *)
(* decided.                                                                               *)
Unheard == hub.state = "open" /\ art.exists /\ hub.comments > given.comments
FeedbackIsHeard == Unheard ~> (~Unheard \/ state \in Terminal \/ Stuck)

=============================================================================
