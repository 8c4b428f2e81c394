------------------------- MODULE MCWorkflowInstance -------------------------
(***************************************************************************)
(* Instances of WorkflowInstance for TLC.  The workflow has the shape of   *)
(* the default one: look for a pull request, then either let Codex work,   *)
(* review and publish, or check the pull request with a parallel group and *)
(* follow up or finish.                                                    *)
(***************************************************************************)
EXTENDS WorkflowInstance, TLC

CONSTANTS q1

Always == {[pos |-> {}, neg |-> {}]}
If(f) == {[pos |-> {f}, neg |-> {}]}
IfNot(f) == {[pos |-> {}, neg |-> {f}]}

Tr(from, to, trigger, group, effect, when, out, background) ==
    [from |-> from, to |-> to, trigger |-> trigger, group |-> group,
     limit |-> IF group # NoGroup THEN 1 ELSE 0, effect |-> effect, when |-> when, out |-> out, background |-> background]
Auto(from, to, effect, when, out) ==
    Tr(from, to, "automatic", NoGroup, effect, when, out, FALSE)
Check(out) ==
    Tr("ready", "checked", "automatic", "checks", "github_read",
       If("pr"), out, FALSE)
Gate(from, to, effect, out, background) ==
    Tr(from, to, "human", NoGroup, effect, Always, out, background)

PullRequestFlow ==
       "find_pull_requests" :> Auto("new", "ready", "github_read", Always, {"pr"})
    @@ "fix_issue" :> Auto("ready", "review", "codex_worker", IfNot("pr"), {})
    @@ "check_ci" :> Check({"ci"})
    @@ "check_comments" :> Check({})
    @@ "finish" :> Auto("checked", "done", "none", IfNot("ci"), {})
    @@ "address_feedback" :> Auto("checked", "waiting", "codex_worker", If("ci"), {})
    @@ "create_draft_pr" :> Gate("review", "waiting", "github_write", {"pr"}, TRUE)
    @@ "mark_blocked" :> Gate("review", "blocked", "github_write", {}, FALSE)
    @@ "check_pr_again" :> Gate("waiting", "ready", "github_read", {}, FALSE)
FlowFacts == {"pr", "ci"}
FlowStates == {"new", "ready", "review", "checked", "waiting", "done", "failed", "blocked"}
FlowTransitions == DOMAIN PullRequestFlow
FlowTerminal == {"done", "failed", "blocked"}

\* Retrying one member of a group by hand moves the instance past the others.
OutsideGroups == {m \in FlowTransitions : PullRequestFlow[m].group = NoGroup}

\* What the theorems about the engine ask of a workflow, this one has.
ASSUME FlowIsProper == NoDeadEnd /\ GroupsAreWhole /\ GroupsAreAlone

OneRequest == {q1}

\* Everywhere but between the success of a gate's action and its move.
Recoverable ==
    (Kind \X Pc) \ ({"gate", "background"} \X {"compare", "write"})
Anywhere == Kind \X Pc
=============================================================================
