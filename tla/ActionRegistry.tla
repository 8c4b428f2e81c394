--------------------------- MODULE ActionRegistry ---------------------------
(***************************************************************************)
(* The primitives a workflow may name as actions: what kind of side effect *)
(* each has, whether it may run on its own or behind a human gate, and the *)
(* fields that a transition may map into and out of it.                    *)
(***************************************************************************)
EXTENDS TLC

Primitive(effect, automatic, human, in, out) ==
    [effect |-> effect, automatic |-> automatic, human |-> human, in |-> in, out |-> out]
AnyTrigger(effect, in, out) == Primitive(effect, TRUE, TRUE, in, out)
Automatic(effect, in, out) == Primitive(effect, TRUE, FALSE, in, out)

IssueFields == {"repo", "issue_number"}
PRFields == {"repo", "pull_request_number"}
WorkFields == IssueFields \cup {"attempt_id", "worktree_path"}
TaskFields == WorkFields \cup {"task_type"}
PRSnapshot == {"pull_request_number", "pull_request_url", "pull_request_title", "state", "merged_at"}
WorkerResult == {"thread_id", "turn_count", "duration_ms", "message_chars", "result_type"}
CardSnapshot == {"work_item_id", "source_id", "state", "task_type"}

DraftPR(automatic) ==
    Primitive(IF automatic THEN "github_write" ELSE "codex_worker", automatic, TRUE,
              WorkFields \cup {"branch", "commit_sha"},
              PRSnapshot \cup {"head_ref", "head_sha", "issue_marker_present"})

IssueActions ==
    "workflow.noop" :> AnyTrigger("none", {}, {"message"}) @@
    "github.fetch_issues" :> Automatic("github_read", {"repos", "labels"}, {"synced", "issues"}) @@
    "github.fetch_issue" :> Automatic("github_read", IssueFields, {"issue"}) @@
    "github.fetch_comments" :> Automatic("github_read", IssueFields, {"comments"}) @@
    "github.apply_labels" :>
        AnyTrigger("github_write", IssueFields \cup {"labels_added", "labels_removed"},
                   {"dry_run", "labels_added", "labels_removed"}) @@
    "github.find_issue_pull_requests" :>
        Automatic("github_read", IssueFields \cup {"attempt_id"},
                  {"has_pull_request", "pull_request_count", "pull_requests", "pull_request_number",
                   "pull_request_url", "pull_request_title", "pull_request_head_ref",
                   "pull_request_head_sha", "pull_request_source_ref"}) @@
    "codex.create_draft_pr" :> DraftPR(FALSE)

CardActions ==
    "github.create_draft_pr" :> DraftPR(TRUE) @@
    "github.post_issue_comment" :>
        AnyTrigger("github_write", IssueFields \cup {"comment_id", "body"},
                   IssueFields \cup {"comment_id", "comment_url", "attempt_id"}) @@
    "source.sync" :> AnyTrigger("github_read", {"source_id"},
                                {"source_id", "run_id", "issue_count", "pull_request_count"}) @@
    "source.sync_all" :> AnyTrigger("github_read", {}, {"sources", "synced"}) @@
    "work_item.activate" :>
        AnyTrigger("none", {"source_item_id", "task_type", "user_hint"}, CardSnapshot) @@
    "work_item.move" :>
        AnyTrigger("none", {"work_item_id", "target_state", "reasons", "note"}, CardSnapshot) @@
    "work_item.link_source_item" :>
        AnyTrigger("none", {"work_item_id", "source_item_id", "relationship"}, CardSnapshot) @@
    "work_item.select_active_pr" :>
        AnyTrigger("none", {"work_item_id", "source_item_id"},
                   {"work_item_id", "source_id", "active_pr_source_item_id"})

PullRequestActions ==
    "github.push_pr_update" :>
        AnyTrigger("github_write", WorkFields \cup {"branch"},
                   {"pull_request_number", "pull_request_url", "pull_request_title", "branch",
                    "commit_sha", "pushed"}) @@
    "github.fetch_pull_request" :>
        AnyTrigger("github_read", PRFields, PRSnapshot \cup {"is_merged", "head_sha", "head_ref"}) @@
    "github.fetch_ci_status" :>
        Automatic("github_read", PRFields,
                  {"sha", "state", "conclusion", "failed_checks", "checks"}) @@
    "github.fetch_ci_failure_context" :>
        Automatic("github_read", PRFields \cup {"failed_checks"},
                  {"sha", "failure_context", "unavailable_reason"}) @@
    "github.fetch_pr_review_comments" :> Automatic("github_read", PRFields, {"comments"}) @@
    "github.detect_merge_conflicts" :>
        Automatic("github_read", PRFields,
                  PRSnapshot \cup {"head_sha", "mergeable", "mergeable_state", "has_conflicts"})

CodexTask(in) == AnyTrigger("codex_worker", in, WorkerResult)
PRTaskFields == WorkFields \cup {"pull_request_number"}
CiFields == {"failed_checks", "failure_context", "checks"}
CodexActions ==
    "codex.research_issue" :> CodexTask(TaskFields) @@
    "codex.fix_issue" :> CodexTask(TaskFields) @@
    "codex.address_pr_comments" :> CodexTask(PRTaskFields \cup {"comments"}) @@
    "codex.fix_ci_failures" :> CodexTask(PRTaskFields \cup CiFields) @@
    "codex.address_pr_feedback" :>
        CodexTask(PRTaskFields \cup CiFields \cup {"comments", "has_conflicts", "mergeable_state"}) @@
    "codex.operations_task" :> CodexTask(TaskFields)

WorkspaceActions ==
    "workspace.allocate" :>
        Automatic("workspace_write", IssueFields \cup {"attempt_id", "branch", "source_ref"},
                  {"base_repo_path", "worktree_path", "branch", "commit_sha", "reused_existing"}) @@
    "workspace.run_setup" :> AnyTrigger("workspace_write", {"attempt_id", "worktree_path"}, {"steps"}) @@
    "workspace.record_changes" :>
        Automatic("workspace_write", {"attempt_id", "worktree_path", "branch", "commit_sha"},
                  {"changed_files", "uncommitted_files", "commit_sha", "head_commit_sha",
                   "base_commit_sha", "commit_count", "has_changes", "worktree_path"}) @@
    "workspace.cleanup_after_merge" :>
        AnyTrigger("workspace_write", {"attempt_id", "pull_request_id", "base_repo_path", "worktree_path"},
                   {"removed", "reason", "worktree_path"})

Registry == IssueActions @@ CardActions @@ PullRequestActions @@ CodexActions @@ WorkspaceActions
=============================================================================
