---------------------------- MODULE MCWorkspaces ----------------------------
(***************************************************************************)
(* Instances of Workspaces for TLC.                                        *)
(***************************************************************************)
EXTENDS Workspaces, TLC

CONSTANTS i1, i2

TwoAttempts == {1, 2}
BothIssues == {i1, i2}
IssuesAreAlike == Permutations(BothIssues)

\* An action may stop anywhere but between recording the pull request that it found
\* and the transition, and between git worktree add and the attempt's row.
Recoverable == Pc \ {"found", "added"}
=============================================================================
