------------------------ MODULE MCPullRequestRounds ------------------------
(***************************************************************************)
(* Instances of PullRequestRounds for TLC.                                 *)
(***************************************************************************)
EXTENDS PullRequestRounds

AllKinds == {"issue", "local_ticket", "pull_request"}
Alone == {"find_issue_pull_requests", "allocate_workspace", "run_setup", "auto_create_draft_pr",
          "fetch_ci_failure_context", "cleanup_after_merge"}
=============================================================================
