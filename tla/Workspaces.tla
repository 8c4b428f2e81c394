----------------------------- MODULE Workspaces -----------------------------
(***************************************************************************)
(* What the actions of a workflow do outside the workflow tables: to the   *)
(* worktrees and branches of the shared repository, to GitHub, and to the  *)
(* rows that connect them (attempts, pull_requests, issue_pull_requests).  *)
(*                                                                         *)
(* The actors are the attempts, each running the default workflow one      *)
(* action after the other, the cycle's cleanup of merged pull requests,    *)
(* and people on GitHub.  The engine is modelled in WorkflowInstance; here *)
(* an action may stop anywhere (an exception, a crash) and be run again,   *)
(* from its beginning, at once or by a user's retry.                       *)
(*                                                                         *)
(* A commit is a number, and a branch is the set of the commits it holds.  *)
(***************************************************************************)
EXTENDS Naturals, FiniteSets, FiniteSetsExt

CONSTANTS
    Attempt,         \* attempts, by id
    Issue,           \* issues of one repository
    MaxPRs,          \* bound on the pull requests of the repository
    MaxCommits,      \* bound on the commits
    MaxOverlaps,     \* bound on how often an attempt of an issue goes to work beside another
    Windows,         \* where an action may stop
    Human,           \* the branch of a pull request that a person opened
    Nothing          \* no branch, worktree, pull request, commits or attempt

PR == 1..MaxPRs
Commit == 1..MaxCommits
Branch == Attempt \cup {Human}

Stage == {"find", "allocate", "setup", "work", "publish", "wait", "follow", "push",
          "cleanup", "done"}
Pc == {"idle", "found", "added", "committed", "pushed", "opened", "saved", "recorded", "removed"}

ASSUME AttemptAssumption ==
    /\ Attempt \subseteq Nat \ {0} /\ IsFiniteSet(Attempt)
    /\ Human \notin Attempt
    /\ Nothing \notin Branch \cup Issue \cup PR
    /\ \A commits \in SUBSET Commit : commits # Nothing
ASSUME BoundAssumption ==
    /\ MaxPRs \in Nat /\ MaxCommits \in Nat /\ MaxOverlaps \in Nat
    /\ Windows \subseteq Pc

VARIABLES
    att,        \* attempts: issue, status; stage of the workflow; the artifacts
                \* pull_request.number and .head_ref; the path, branch and commit
                \* of the workspace
    pc,         \* how far the action of each attempt is
    hand,       \* what it holds: a worktree's path, or the new pull request
    sha,        \* the commit it made or found, until it is stored
    worktree,   \* the branch checked out at each path, and uncommitted changes
    local,      \* the branches of the shared repository
    base,       \* its copy of the default branch
    remote,     \* the branches on GitHub
    trunk,      \* the default branch on GitHub
    prs,        \* GitHub's pull requests: state, branch, issue in the marker, whose
    row,        \* pull_requests: attempt, merged, cleaned, error
    links,      \* issue_pull_requests
    sweep,      \* the rows the cleanup has still to look at
    swept,      \* the row whose worktree it has just removed
    made,       \* commits so far
    overlaps    \* history: how often attempts of an issue did not work one after the other

gitVars == <<worktree, local, base>>
hubVars == <<remote, trunk, prs>>
sweepVars == <<sweep, swept>>
vars == <<att, pc, hand, sha, gitVars, hubVars, row, links, sweepVars, made, overlaps>>

Init ==
    /\ att = [a \in Attempt |-> [issue |-> Nothing, status |-> "none", stage |-> "find",
                 pr |-> Nothing, head |-> Nothing, path |-> Nothing, branch |-> Nothing, sha |-> {}]]
    /\ pc = [a \in Attempt |-> "idle"]
    /\ hand = [a \in Attempt |-> Nothing]
    /\ sha = [a \in Attempt |-> {}]
    /\ worktree = [p \in Attempt |-> [branch |-> Nothing, dirty |-> FALSE]]
    /\ local = [b \in Branch |-> Nothing]
    /\ base = Nothing
    /\ remote = [b \in Branch |-> Nothing]
    /\ trunk = {}
    /\ prs = [n \in PR |-> [state |-> "none", branch |-> Nothing, issue |-> Nothing,
                            ours |-> FALSE]]
    /\ row = [n \in PR |-> [attempt |-> Nothing, merged |-> FALSE, cleaned |-> FALSE,
                            error |-> FALSE]]
    /\ links = [i \in Issue |-> {}]
    /\ sweep = {} /\ swept = Nothing
    /\ made = 0
    /\ overlaps = [i \in Issue |-> 0]

Present(p) == worktree[p].branch # Nothing
HasWorkspace(a) == att[a].path # Nothing /\ Present(att[a].path)
Issued(i) == {a \in Attempt : att[a].issue = i}
Siblings(a) == Issued(att[a].issue) \ {a}
RowsOf(a) == {n \in PR : row[n].attempt = a}
Opened(n) == prs[n].state # "none"
Running(a) == att[a].status = "running"
At(a, stage, where) == Running(a) /\ att[a].stage = stage /\ pc[a] = where

\* The row record_pr leaves: it takes a row over from another attempt, forgets an
\* error of its cleanup, and keeps worktree_cleaned_at.
Row(n, a) == [row[n] EXCEPT !.attempt = a, !.error = FALSE, !.merged = (prs[n].state = "merged")]

Proceed(a, stage) ==
    /\ att' = [att EXCEPT ![a].stage = stage,
                          ![a].status = IF stage \in {"wait", "push"} THEN "review"
                                        ELSE IF stage = "done" THEN "done" ELSE "running"]
    /\ pc' = [pc EXCEPT ![a] = "idle"]

-----------------------------------------------------------------------------
(***************************************************************************)
(* An attempt starts, stops midway, and is resumed.                        *)
(***************************************************************************)

\* Nothing keeps attempts of one issue apart: a card is queued again while a run of it is
\* at work, and a user retries or decides on whichever attempt the page shows.  Counted is
\* that one goes to work beside another, or after a newer one has begun.
Beside(a, i) == \E b \in Issued(i) \ {a} : Running(b) \/ b > a
GoesToWork(a, i) ==
    \/ ~Beside(a, i) /\ UNCHANGED overlaps
    \/ /\ Beside(a, i) /\ overlaps[i] < MaxOverlaps
       /\ overlaps' = [overlaps EXCEPT ![i] = @ + 1]

Start(a, i) ==
    /\ \A b \in Attempt : att[b].status = "none" <=> b >= a
    /\ GoesToWork(a, i)
    /\ att' = [att EXCEPT ![a].issue = i, ![a].status = "running"]
    /\ UNCHANGED <<pc, hand, sha, gitVars, hubVars, row, links, sweepVars, made>>

\* The engine gives up, or opens the gate again; to run the action again at once is a
\* Retry that follows.
Stop(a) ==
    /\ Running(a)
    /\ pc[a] \in Windows
    /\ att' = [att EXCEPT ![a].status = IF att[a].stage = "push" THEN "review" ELSE "failed"]
    /\ pc' = [pc EXCEPT ![a] = "idle"]
    /\ hand' = [hand EXCEPT ![a] = Nothing]
    /\ sha' = [sha EXCEPT ![a] = {}]
    /\ UNCHANGED <<gitVars, hubVars, row, links, sweepVars, made, overlaps>>

Retry(a) ==
    /\ att[a].status = "failed"
    /\ GoesToWork(a, att[a].issue)
    /\ att' = [att EXCEPT ![a].status = "running"]
    /\ UNCHANGED <<pc, hand, sha, gitVars, hubVars, row, links, sweepVars, made>>

-----------------------------------------------------------------------------
(***************************************************************************)
(* github.find_issue_pull_requests and workspace.allocate                  *)
(***************************************************************************)

\* Mutant: only what is recorded, not the markers on GitHub.
KnownPRsOnly(i) == links[i]

\* Mutant: any open pull request.
KnownPRsAny(i) == links[i] \cup {n \in PR : prs[n].state = "open"}

KnownPRs(i) == links[i] \cup {n \in PR : prs[n].state = "open" /\ prs[n].issue = i}

FindPullRequests(a) ==
    LET found == KnownPRs(att[a].issue)
        primary == Max(found) IN
    /\ At(a, "find", "idle")
    /\ links' = [links EXCEPT ![att[a].issue] = found]
    /\ IF found = {}
       THEN /\ att' = [att EXCEPT ![a].pr = Nothing, ![a].head = Nothing]
            /\ row' = row
       ELSE /\ att' = [att EXCEPT ![a].pr = primary, ![a].head = prs[primary].branch]
            /\ row' = [row EXCEPT ![primary] = Row(primary, a)]
    /\ pc' = [pc EXCEPT ![a] = "found"]
    /\ UNCHANGED <<hand, sha, gitVars, hubVars, sweepVars, made, overlaps>>

Found(a) ==
    /\ At(a, "find", "found")
    /\ Proceed(a, "allocate")
    /\ UNCHANGED <<hand, sha, gitVars, hubVars, row, links, sweepVars, made, overlaps>>

\* git clone --bare copies every branch; it configures no refspec, so the fetch
\* before later allocations updates none.
Cloned == [b \in Branch |-> IF base = Nothing THEN remote[b] ELSE local[b]]

\* Mutant: the branch on GitHub before the one in the shared repository.
SourceRefRemote(b) == IF remote[b] # Nothing THEN remote[b] ELSE Cloned[b]

(* _resolve_source_ref: a branch of the shared repository, or else fetched. *)
SourceRef(b) == IF Cloned[b] # Nothing THEN Cloned[b] ELSE remote[b]

WorktreesOf(b) == {p \in Attempt : Present(p) /\ worktree[p].branch = b}

ReuseWorktree(a, p) ==
    /\ At(a, "allocate", "idle")
    /\ att[a].head # Nothing
    /\ p \in WorktreesOf(att[a].head)
    /\ pc' = [pc EXCEPT ![a] = "added"]
    /\ hand' = [hand EXCEPT ![a] = p]
    /\ UNCHANGED <<att, sha, gitVars, hubVars, row, links, sweepVars, made, overlaps>>

\* git refuses a path that exists; a ref that does not resolve is an error too.
AddWorktree(a) ==
    LET b == IF att[a].head = Nothing THEN a ELSE att[a].head
        ref == IF att[a].head # Nothing THEN SourceRef(b)
               ELSE IF base = Nothing THEN trunk ELSE base IN
    /\ At(a, "allocate", "idle")
    /\ WorktreesOf(b) = {}
    /\ ~Present(a)
    /\ ref # Nothing
    /\ base' = IF base = Nothing THEN trunk ELSE base
    /\ local' = [Cloned EXCEPT ![b] = ref]
    /\ worktree' = [worktree EXCEPT ![a] = [branch |-> b, dirty |-> FALSE]]
    /\ pc' = [pc EXCEPT ![a] = "added"]
    /\ hand' = [hand EXCEPT ![a] = a]
    /\ UNCHANGED <<att, sha, hubVars, row, links, sweepVars, made, overlaps>>

RecordWorkspace(a) ==
    LET b == worktree[hand[a]].branch IN
    /\ At(a, "allocate", "added")
    /\ Present(hand[a])
    /\ att' = [att EXCEPT ![a].path = hand[a], ![a].branch = b, ![a].sha = local[b],
                          ![a].stage = "setup"]
    /\ pc' = [pc EXCEPT ![a] = "idle"]
    /\ hand' = [hand EXCEPT ![a] = Nothing]
    /\ UNCHANGED <<sha, gitVars, hubVars, row, links, sweepVars, made, overlaps>>

-----------------------------------------------------------------------------
(***************************************************************************)
(* workspace.run_setup, the checks of a pull request, and Codex            *)
(***************************************************************************)

\* With a pull request, its checks decide whether Codex has something to do.
Setup(a) ==
    /\ At(a, "setup", "idle")
    /\ HasWorkspace(a)
    /\ \E stage \in IF att[a].pr = Nothing THEN {"work"} ELSE {"follow", "wait"} :
         Proceed(a, stage)
    /\ UNCHANGED <<hand, sha, gitVars, hubVars, row, links, sweepVars, made, overlaps>>

AtCodex(a) == At(a, "work", "idle") \/ At(a, "follow", "idle")

CodexEdits(a) ==
    /\ AtCodex(a)
    /\ HasWorkspace(a)
    /\ worktree' = [worktree EXCEPT ![att[a].path].dirty = TRUE]
    /\ UNCHANGED <<att, pc, hand, sha, local, base, hubVars, row, links, sweepVars, made, overlaps>>

CodexEnds(a) ==
    /\ AtCodex(a)
    /\ HasWorkspace(a)
    /\ Proceed(a, IF att[a].stage = "work" THEN "publish" ELSE "push")
    /\ UNCHANGED <<hand, sha, gitVars, hubVars, row, links, sweepVars, made, overlaps>>

-----------------------------------------------------------------------------
(***************************************************************************)
(* github.create_draft_pr, and github.push_pr_update behind its gate       *)
(***************************************************************************)

\* The pull request is there already: an earlier run of the action made it.
PublishAgain(a) ==
    /\ At(a, "publish", "idle")
    /\ RowsOf(a) # {}
    /\ att' = [att EXCEPT ![a].stage = "wait", ![a].status = "review", ![a].pr = Max(RowsOf(a))]
    /\ UNCHANGED <<pc, hand, sha, gitVars, hubVars, row, links, sweepVars, made, overlaps>>

ApprovePush(a) ==
    /\ att[a].status = "review" /\ att[a].stage = "push"
    /\ GoesToWork(a, att[a].issue)
    /\ att' = [att EXCEPT ![a].status = "running"]
    /\ UNCHANGED <<pc, hand, sha, gitVars, hubVars, row, links, sweepVars, made>>

\* Only a new pull request needs a change; an update needs the attempt's row.
EnsureCommit(a) ==
    LET p == att[a].path
        b == worktree[p].branch
        tip == IF worktree[p].dirty THEN local[b] \cup {made + 1} ELSE local[b] IN
    /\ HasWorkspace(a)
    /\ \/ At(a, "publish", "idle") /\ RowsOf(a) = {} /\ tip \ att[a].sha # {}
       \/ At(a, "push", "idle") /\ RowsOf(a) # {}
    /\ worktree[p].dirty => made < MaxCommits
    /\ local' = [local EXCEPT ![b] = tip]
    /\ made' = IF worktree[p].dirty THEN made + 1 ELSE made
    /\ worktree' = [worktree EXCEPT ![p].dirty = FALSE]
    /\ sha' = [sha EXCEPT ![a] = tip]
    /\ pc' = [pc EXCEPT ![a] = "committed"]
    /\ UNCHANGED <<att, hand, base, hubVars, row, links, sweepVars, overlaps>>

FastForward(a) ==
    remote[att[a].branch] # Nothing => remote[att[a].branch] \subseteq local[att[a].branch]

PushBranch(a) ==
    /\ Running(a) /\ pc[a] = "committed"
    /\ HasWorkspace(a)
    /\ FastForward(a)
    /\ remote' = [remote EXCEPT ![att[a].branch] = local[att[a].branch]]
    /\ pc' = [pc EXCEPT ![a] = "pushed"]
    /\ UNCHANGED <<att, hand, sha, gitVars, trunk, prs, row, links, sweepVars, made, overlaps>>

NewPR(n) == ~Opened(n) /\ \A m \in PR : m < n => Opened(m)

\* GitHub refuses a second open pull request of a branch.
CreatePullRequest(a) ==
    /\ At(a, "publish", "pushed")
    /\ ~\E n \in PR : prs[n].branch = att[a].branch /\ prs[n].state = "open"
    /\ \E n \in PR :
         /\ NewPR(n)
         /\ prs' = [prs EXCEPT ![n] = [state |-> "open", branch |-> att[a].branch,
                                       issue |-> att[a].issue, ours |-> TRUE]]
         /\ hand' = [hand EXCEPT ![a] = n]
    /\ pc' = [pc EXCEPT ![a] = "opened"]
    /\ UNCHANGED <<att, sha, gitVars, remote, trunk, row, links, sweepVars, made, overlaps>>

StoredAt(a) == At(a, "publish", "opened") \/ At(a, "push", "pushed")

StoreCommit(a) ==
    /\ StoredAt(a)
    /\ att' = [att EXCEPT ![a].sha = sha[a],
                 ![a].stage = IF @ = "push" THEN "wait" ELSE @,
                 ![a].status = IF att[a].stage = "push" THEN "review" ELSE @]
    /\ pc' = [pc EXCEPT ![a] = IF att[a].stage = "push" THEN "idle" ELSE "saved"]
    /\ sha' = [sha EXCEPT ![a] = {}]
    /\ UNCHANGED <<hand, gitVars, hubVars, row, links, sweepVars, made, overlaps>>

RecordPR(a) ==
    /\ At(a, "publish", "saved")
    /\ row' = [row EXCEPT ![hand[a]] = Row(hand[a], a)]
    /\ pc' = [pc EXCEPT ![a] = "recorded"]
    /\ UNCHANGED <<att, hand, sha, gitVars, hubVars, links, sweepVars, made, overlaps>>

RecordLink(a) ==
    /\ At(a, "publish", "recorded")
    /\ links' = [links EXCEPT ![att[a].issue] = @ \cup {hand[a]}]
    /\ att' = [att EXCEPT ![a].stage = "wait", ![a].status = "review", ![a].pr = hand[a]]
    /\ pc' = [pc EXCEPT ![a] = "idle"]
    /\ hand' = [hand EXCEPT ![a] = Nothing]
    /\ UNCHANGED <<sha, gitVars, hubVars, row, sweepVars, made, overlaps>>

-----------------------------------------------------------------------------
(***************************************************************************)
(* The gate check_pr_again, and the removal of worktrees                   *)
(***************************************************************************)

\* fetch_pull_request, and for one that is not merged the checks.
CheckAgain(a) ==
    /\ att[a].status = "review" /\ att[a].stage = "wait"
    /\ GoesToWork(a, att[a].issue)
    /\ row' = [row EXCEPT ![att[a].pr] = Row(att[a].pr, a)]
    /\ \E stage \in IF prs[att[a].pr].state = "merged" THEN {"cleanup"} ELSE {"follow", "wait"} :
         Proceed(a, stage)
    /\ UNCHANGED <<hand, sha, gitVars, hubVars, links, sweepVars, made>>

MayRemove(p) == Present(p) /\ ~worktree[p].dirty

\* remove_worktree, called for row n; a worktree that is gone is as good as removed,
\* and one with changes is kept.
Removed(n, p) ==
    IF MayRemove(p)
    THEN /\ worktree' = [worktree EXCEPT ![p] = [branch |-> Nothing, dirty |-> FALSE]]
         /\ UNCHANGED <<local, base>>
    ELSE UNCHANGED gitVars

Kept(p) == Present(p) /\ ~MayRemove(p)

CleanUp(a) ==
    LET n == Max(RowsOf(a)) IN
    /\ At(a, "cleanup", "idle")
    /\ RowsOf(a) # {}
    /\ row[n].merged
    /\ Removed(n, att[a].path)
    /\ IF Kept(att[a].path)
       THEN /\ row' = [row EXCEPT ![n].error = TRUE]
            /\ att' = [att EXCEPT ![a].status = "failed"]
            /\ UNCHANGED <<pc, hand>>
       ELSE /\ pc' = [pc EXCEPT ![a] = "removed"]
            /\ hand' = [hand EXCEPT ![a] = n]
            /\ UNCHANGED <<att, row>>
    /\ UNCHANGED <<sha, hubVars, links, sweepVars, made, overlaps>>

CleanedUp(a) ==
    /\ At(a, "cleanup", "removed")
    /\ row' = [row EXCEPT ![hand[a]].cleaned = TRUE, ![hand[a]].error = FALSE]
    /\ Proceed(a, "done")
    /\ hand' = [hand EXCEPT ![a] = Nothing]
    /\ UNCHANGED <<sha, gitVars, hubVars, links, sweepVars, made, overlaps>>

\* The command line also looks at the rows with an error.
Pending(n, retryErrors) ==
    LET a == row[n].attempt IN
    /\ a # Nothing
    /\ ~row[n].cleaned
    /\ att[a].path # Nothing
    /\ retryErrors \/ ~row[n].error

SweepStarts ==
    /\ sweep = {} /\ swept = Nothing
    /\ \E retryErrors \in BOOLEAN :
         sweep' = {[pr |-> n, path |-> att[row[n].attempt].path] :
                     n \in {m \in PR : Pending(m, retryErrors)}}
    /\ UNCHANGED <<att, pc, hand, sha, gitVars, hubVars, row, links, swept, made, overlaps>>

NextRow == CHOOSE r \in sweep : \A s \in sweep : r.pr <= s.pr

\* Mutant: a pull request that was closed counts as merged.
IsMergedClosed(n) == prs[n].state \in {"merged", "closed"}

IsMerged(n) == prs[n].state = "merged"

\* What is merged was read from GitHub; the path was read when the cleanup began.
SweepRow(n) ==
    LET p == NextRow.path IN
    /\ sweep # {} /\ swept = Nothing
    /\ n = NextRow.pr
    /\ sweep' = sweep \ {NextRow}
    /\ IF IsMerged(n)
       THEN /\ Removed(n, p)
            /\ row' = [row EXCEPT ![n].merged = TRUE, ![n].error = @ \/ Kept(p)]
            /\ swept' = IF Kept(p) THEN Nothing ELSE n
       ELSE UNCHANGED <<gitVars, row, swept>>
    /\ UNCHANGED <<att, pc, hand, sha, hubVars, links, made, overlaps>>

SweepMarks ==
    /\ swept # Nothing
    /\ row' = [row EXCEPT ![swept].cleaned = TRUE, ![swept].error = FALSE]
    /\ swept' = Nothing
    /\ UNCHANGED <<att, pc, hand, sha, gitVars, hubVars, links, sweep, made, overlaps>>

\* A request to GitHub fails, or the server dies: the other rows have to wait.
SweepStops ==
    /\ sweep # {} \/ swept # Nothing
    /\ sweep' = {} /\ swept' = Nothing
    /\ UNCHANGED <<att, pc, hand, sha, gitVars, hubVars, row, links, made, overlaps>>

-----------------------------------------------------------------------------
(***************************************************************************)
(* People on GitHub                                                        *)
(***************************************************************************)

HumanOpensPR(i) ==
    /\ remote[Human] = Nothing
    /\ made < MaxCommits
    /\ made' = made + 1
    /\ remote' = [remote EXCEPT ![Human] = {made + 1}]
    /\ \E n \in PR :
         /\ NewPR(n)
         /\ prs' = [prs EXCEPT ![n] = [state |-> "open", branch |-> Human, issue |-> i,
                                       ours |-> FALSE]]
    /\ UNCHANGED <<att, pc, hand, sha, gitVars, trunk, row, links, sweepVars, overlaps>>

HumanPushes(n) ==
    /\ prs[n].state = "open"
    /\ made < MaxCommits
    /\ made' = made + 1
    /\ remote' = [remote EXCEPT ![prs[n].branch] = @ \cup {made + 1}]
    /\ UNCHANGED <<att, pc, hand, sha, gitVars, trunk, prs, row, links, sweepVars, overlaps>>

Merge(n) ==
    /\ prs[n].state = "open"
    /\ prs' = [prs EXCEPT ![n].state = "merged"]
    /\ trunk' = trunk \cup remote[prs[n].branch]
    /\ UNCHANGED <<att, pc, hand, sha, gitVars, remote, row, links, sweepVars, made, overlaps>>

Close(n) ==
    /\ prs[n].state = "open"
    /\ prs' = [prs EXCEPT ![n].state = "closed"]
    /\ UNCHANGED <<att, pc, hand, sha, gitVars, remote, trunk, row, links, sweepVars, made, overlaps>>

-----------------------------------------------------------------------------
AttemptStep(a) ==
    \/ \E i \in Issue : Start(a, i)
    \/ Stop(a) \/ Retry(a)
    \/ FindPullRequests(a) \/ Found(a)
    \/ \E p \in Attempt : ReuseWorktree(a, p)
    \/ AddWorktree(a) \/ RecordWorkspace(a)
    \/ Setup(a) \/ CodexEdits(a) \/ CodexEnds(a)
    \/ PublishAgain(a) \/ ApprovePush(a) \/ EnsureCommit(a) \/ PushBranch(a)
    \/ CreatePullRequest(a) \/ StoreCommit(a) \/ RecordPR(a) \/ RecordLink(a)
    \/ CheckAgain(a) \/ CleanUp(a) \/ CleanedUp(a)

Sweep == SweepStarts \/ (\E n \in PR : SweepRow(n)) \/ SweepMarks

People ==
    \/ \E i \in Issue : HumanOpensPR(i)
    \/ \E n \in PR : HumanPushes(n) \/ Merge(n) \/ Close(n)

Next == (\E a \in Attempt : AttemptStep(a)) \/ Sweep \/ SweepStops \/ People

Spec == Init /\ [][Next]_vars
-----------------------------------------------------------------------------
(***************************************************************************)
(* Properties                                                              *)
(***************************************************************************)

(* Every variable has its type. *)
TypeOK ==
    /\ att \in [Attempt ->
         [issue : Issue \cup {Nothing}, status : {"none", "running", "review", "failed", "done"},
          stage : Stage, pr : PR \cup {Nothing}, head : Branch \cup {Nothing}, path : Attempt \cup {Nothing},
          branch : Branch \cup {Nothing}, sha : SUBSET Commit]]
    /\ pc \in [Attempt -> Pc]
    /\ hand \in [Attempt -> Attempt \cup PR \cup {Nothing}]
    /\ sha \in [Attempt -> SUBSET Commit]
    /\ worktree \in [Attempt -> [branch : Branch \cup {Nothing}, dirty : BOOLEAN]]
    /\ local \in [Branch -> (SUBSET Commit) \cup {Nothing}]
    /\ remote \in [Branch -> (SUBSET Commit) \cup {Nothing}]
    /\ base \in (SUBSET Commit) \cup {Nothing} /\ trunk \in SUBSET Commit
    /\ prs \in [PR -> [state : {"none", "open", "closed", "merged"}, branch : Branch \cup {Nothing},
                       issue : Issue \cup {Nothing}, ours : BOOLEAN]]
    /\ row \in [PR -> [attempt : Attempt \cup {Nothing}, merged : BOOLEAN, cleaned : BOOLEAN,
                       error : BOOLEAN]]
    /\ links \in [Issue -> SUBSET PR]
    /\ sweep \subseteq [pr : PR, path : Attempt]
    /\ swept \in PR \cup {Nothing}
    /\ made \in 0..MaxCommits
    /\ overlaps \in [Issue -> 0..MaxOverlaps]

Holds(b, old, new) == old[b] = Nothing \/ (new[b] # Nothing /\ old[b] \subseteq new[b])

(* No work is lost: whatever is run again, reused, pushed or removed, in whatever order,  *)
(* a branch of the shared repository or of GitHub keeps its commits, and uncommitted      *)
(* changes stay in their worktree until they are committed to its branch.                 *)
WorkIsKept ==
    [][/\ \A b \in Branch : Holds(b, local, local') /\ Holds(b, remote, remote')
       /\ \A p \in Attempt : worktree[p].dirty =>
            \/ worktree'[p].dirty
            \/ Present(p)' /\ local[worktree[p].branch] # local'[worktree[p].branch]]_vars

(* A worktree is removed only when a pull request of its own branch was merged, although  *)
(* the cleanup finds it through a row that moves from attempt to attempt and a path that  *)
(* attempts share (spec.md:601).                                                          *)
RemovedAfterMerge ==
    [][\A p \in Attempt : Present(p) /\ ~Present(p)' =>
         \E n \in PR : prs[n].branch = worktree[p].branch /\ prs[n].state = "merged"]_vars

(* Two running attempts have the same worktree only if they are of one issue and were put *)
(* to work side by side; those of different issues never do.  That the code lets those of *)
(* one issue (worktree.py:81) is not what spec.md:598 asks for.                           *)
OneWorkerPerWorktree ==
    \A a, b \in Attempt :
        a # b /\ Running(a) /\ Running(b) /\ att[a].path # Nothing /\ att[a].path = att[b].path =>
            att[a].issue = att[b].issue /\ overlaps[att[a].issue] > 0

(* Symphony never has two open pull requests for one issue, even when an attempt stopped  *)
(* after GitHub had created one and before it was recorded (spec.md:607), as long as the  *)
(* attempts of the issue work one after the other: side by side, each may find none.      *)
OnePRPerIssue ==
    \A n, m \in PR : n # m /\ prs[n].ours /\ prs[m].ours /\ prs[n].issue = prs[m].issue =>
        \/ overlaps[prs[n].issue] > 0
        \/ ~(prs[n].state = "open" /\ prs[m].state = "open")

=============================================================================
