-------------------------- MODULE WorkspacesProofs --------------------------
(***************************************************************************)
(* Proofs about Workspaces: its types, that no work is lost, that running  *)
(* attempts share a worktree, and an issue has two open pull requests,     *)
(* only after attempts of that issue were put to work side by side, and    *)
(* that only merged work is removed.                                       *)
(***************************************************************************)
EXTENDS Workspaces, WellFoundedInduction, TLAPS

(***************************************************************************)
(* The invariant                                                           *)
(***************************************************************************)

\* The branch that attempt a works on: that of the pull request it found, or its own.
Target(a) == IF att[a].head = Nothing THEN a ELSE att[a].head
PastFind(a) == att[a].stage # "find" \/ pc[a] = "found"
Fresh(a) == att[a].stage \in {"find", "allocate"}

\* Where an action can be in each stage of the workflow.
PcOf == [find |-> {"idle", "found"}, allocate |-> {"idle", "added"}, setup |-> {"idle"}, work |-> {"idle"},
         publish |-> {"idle", "committed", "pushed", "opened", "saved", "recorded"},
         wait |-> {"idle"}, follow |-> {"idle"}, push |-> {"idle", "committed", "pushed"},
         cleanup |-> {"idle", "removed"}, done |-> {"idle"}]

\* The stage of an attempt says what it has: a status and an issue once it started, a worktree after
\* its allocation, a pull request once it published or found one.
StageAgrees(a) ==
        /\ pc[a] \in PcOf[att[a].stage]
        /\ att[a].status = "none" <=> att[a].issue = Nothing
        /\ att[a].status = "none" => att[a].stage = "find" /\ pc[a] = "idle"
        /\ Fresh(a) <=> att[a].path = Nothing
        /\ att[a].stage \in {"wait", "follow", "push", "cleanup", "done"} => att[a].pr # Nothing
        /\ att[a].stage \in {"find", "allocate", "setup"} => (att[a].pr = Nothing <=> att[a].head = Nothing)
        /\ att[a].stage \in {"work", "publish"} => att[a].head = Nothing
        /\ att[a].pr # Nothing => Opened(att[a].pr)
StagesAgree == \A a \in Attempt : StageAgrees(a)

\* What an action has done and not yet recorded: a worktree of the branch, an opened pull request.
HandAgrees(a) ==
        /\ pc[a] = "added" => /\ hand[a] \in Attempt
                              /\ Target(hand[a]) = Target(a) /\ att[hand[a]].stage # "find"
        /\ pc[a] \in {"opened", "saved", "recorded"} =>
               /\ hand[a] \in PR
               /\ Opened(hand[a]) /\ prs[hand[a]].branch = a /\ prs[hand[a]].issue = att[a].issue
        /\ pc[a] = "removed" => hand[a] \in PR
        /\ pc[a] = "pushed" => remote[Target(a)] # Nothing
HandsAgree == \A a \in Attempt : HandAgrees(a)

\* The worktree of an attempt is on the branch the attempt works on, and that branch exists.
PlacesAgree ==
    /\ \A a \in Attempt : att[a].path # Nothing =>
           /\ att[att[a].path].stage # "find"
           /\ Target(att[a].path) = Target(a) /\ att[a].branch = Target(a)
           /\ local[Target(a)] # Nothing
    /\ \A p \in Attempt :
           /\ Present(p) => /\ att[p].stage # "find" /\ worktree[p].branch = Target(p)
                            /\ local[Target(p)] # Nothing
           /\ worktree[p].dirty => Present(p)

\* Pull requests are of branches on GitHub; rows, links and found heads are of opened ones.
PullRequestsAgree ==
    /\ \A n \in PR :
           /\ Opened(n) => prs[n].branch \in Branch /\ prs[n].issue \in Issue /\ remote[prs[n].branch] # Nothing
           /\ ~Opened(n) => prs[n].branch = Nothing /\ ~prs[n].ours
           /\ prs[n].branch \in Attempt <=> prs[n].ours
           /\ prs[n].branch \in Attempt => prs[n].issue = att[prs[n].branch].issue
           /\ row[n].attempt # Nothing => Opened(n)
           /\ row[n].merged => prs[n].state = "merged"
    /\ \A n, m \in PR : prs[n].branch = Human /\ prs[m].branch = Human => n = m
    /\ \A i \in Issue : \A n \in links[i] : Opened(n) /\ prs[n].issue = i
    /\ \A a \in Attempt : att[a].head # Nothing =>
           \E n \in PR : Opened(n) /\ prs[n].branch = att[a].head /\ prs[n].issue = att[a].issue

\* An attempt's branch is not pushed before its allocation, nor there without its worktree.
BranchesAgree ==
    /\ base = Nothing => \A b \in Branch : local[b] = Nothing
    /\ \A a \in Attempt : remote[a] # Nothing => ~Fresh(a)
    /\ \A a \in Attempt : Fresh(a) /\ local[a] # Nothing => Present(a) /\ worktree[a].branch = a

\* Branches hold commits that were made.
Made == 1..made
CommitsAreMade ==
    /\ \A b \in Branch : (local[b] # Nothing => local[b] \subseteq Made) /\ (remote[b] # Nothing => remote[b] \subseteq Made)
    /\ trunk \subseteq Made /\ (base # Nothing => base \subseteq Made)

\* What the cleanup read are paths of attempts.
SweepAgrees == \A r \in sweep : \E b \in Attempt : att[b].path = r.path

\* Attempts of the issue have not always worked one after the other.
Together(i) == overlaps[i] > 0

\* Two attempts of one issue run only if one was put to work beside the other.
Runs ==
    \A a, b \in Attempt : a # b /\ Running(a) /\ Running(b) /\ att[a].issue = att[b].issue => Together(att[a].issue)

\* A row, its attempt and the path they name are of one branch: while no action stops between the
\* adoption of a pull request and the end of its search.
RowsAgree ==
    /\ \A n \in PR, a \in Attempt : row[n].attempt = a => prs[n].branch = Target(a) /\ PastFind(a)
    /\ \A a \in Attempt : att[a].pr # Nothing => prs[att[a].pr].branch = Target(a)
    /\ \A r \in sweep : prs[r.pr].branch = Target(r.path)

\* While the attempts of an issue work one after the other, the one that runs is the newest, and
\* newer than the attempt of any other open pull request of ours that its search did not find.
Newer ==
    /\ \A a \in Attempt : Running(a) /\ ~Together(att[a].issue) => \A b \in Siblings(a) : b < a
    /\ \A m \in PR, a \in Attempt :
          (/\ prs[m].ours /\ prs[m].state = "open" /\ prs[m].issue = att[a].issue /\ ~Together(att[a].issue)
           /\ prs[m].branch # a /\ PastFind(a) /\ att[a].head = Nothing) => prs[m].branch > a

\* The inductive invariant.
WorkspaceInv ==
    /\ TypeOK /\ StagesAgree /\ HandsAgree /\ PlacesAgree /\ PullRequestsAgree
    /\ BranchesAgree /\ CommitsAreMade /\ SweepAgrees /\ Runs
    /\ ("found" \notin Windows => RowsAgree) /\ Newer

\* The parts of the type invariant.
AttType == [issue : Issue \cup {Nothing}, status : {"none", "running", "review", "failed", "done"},
            stage : Stage, pr : PR \cup {Nothing}, head : Branch \cup {Nothing}, path : Attempt \cup {Nothing},
            branch : Branch \cup {Nothing}, sha : SUBSET Commit]
Commits == (SUBSET Commit) \cup {Nothing}

AttemptTypes ==
    /\ att \in [Attempt -> AttType] /\ pc \in [Attempt -> Pc]
    /\ hand \in [Attempt -> Attempt \cup PR \cup {Nothing}] /\ sha \in [Attempt -> SUBSET Commit]
GitTypes ==
    /\ worktree \in [Attempt -> [branch : Branch \cup {Nothing}, dirty : BOOLEAN]]
    /\ local \in [Branch -> Commits] /\ base \in Commits
HubTypes ==
    /\ remote \in [Branch -> Commits] /\ trunk \in SUBSET Commit
    /\ prs \in [PR -> [state : {"none", "open", "closed", "merged"}, branch : Branch \cup {Nothing},
                       issue : Issue \cup {Nothing}, ours : BOOLEAN]]
RowTypes ==
    /\ row \in [PR -> [attempt : Attempt \cup {Nothing}, merged : BOOLEAN, cleaned : BOOLEAN, error : BOOLEAN]]
    /\ links \in [Issue -> SUBSET PR]
SweepTypes == sweep \subseteq [pr : PR, path : Attempt] /\ swept \in PR \cup {Nothing}
OverlapTypes == overlaps \in [Issue -> 0..MaxOverlaps]

(* The type invariant by the tables it is about: attempts, git, GitHub, rows and the cleanup. *)
LEMMA TypesSplit ==
    TypeOK <=> AttemptTypes /\ GitTypes /\ HubTypes /\ RowTypes /\ SweepTypes /\ OverlapTypes /\ made \in 0..MaxCommits
BY DEF TypeOK, AttemptTypes, GitTypes, HubTypes, RowTypes, SweepTypes, OverlapTypes, AttType, Commits

(* The same of the state after a step. *)
LEMMA TypesSplitNext ==
    TypeOK' <=> AttemptTypes' /\ GitTypes' /\ HubTypes' /\ RowTypes' /\ SweepTypes' /\ OverlapTypes' /\ made' \in 0..MaxCommits
BY DEF TypeOK, AttemptTypes, GitTypes, HubTypes, RowTypes, SweepTypes, OverlapTypes, AttType, Commits

(***************************************************************************)
(* Operators                                                               *)
(***************************************************************************)

(* A set of pull requests that is not empty has its greatest number in it. *)
LEMMA MaxIsThere == ASSUME NEW S \in SUBSET PR, S # {} PROVE Max(S) \in S
<1> DEFINE R == {ss \in Nat \X Nat : ss[1] < ss[2]}
           T == {n \in Nat : \A x \in S : x =< n}
<1>1. IsWellFoundedOn(R, Nat)
  BY NatLessThanWellFounded DEF OpToRel
<1>2. S \subseteq Nat /\ T \subseteq Nat /\ MaxPRs \in T
  BY BoundAssumption DEF PR
<1>3. PICK n \in T : \A m \in T : <<m, n>> \notin R
  <2> HIDE DEF R, T
  <2> QED BY <1>1, <1>2, WFMin
<1>4. n \in S
  <2> SUFFICES ASSUME n \notin S PROVE FALSE
    OBVIOUS
  <2>1. PICK x \in S : x \in 1..MaxPRs
    BY DEF PR
  <2>2. n \in Nat /\ x =< n /\ x >= 1 /\ \A y \in S : y \in Nat /\ y =< n /\ y # n
    BY <1>2, <2>1, BoundAssumption
  <2>3. n - 1 \in Nat /\ \A y \in S : y =< n - 1
    BY <2>2
  <2>4. n - 1 \in T /\ n - 1 < n
    BY <2>2, <2>3
  <2> QED BY <1>2, <1>3, <2>4
<1>5. \A x \in S : n >= x
  BY <1>2
<1> HIDE DEF R, T
<1>6. \E x \in S : \A y \in S : x >= y
  BY <1>4, <1>5
<1> QED BY <1>6 DEF Max

(* The cleanup comes to its rows in the order of their numbers. *)
LEMMA NextRowIsThere == ASSUME SweepTypes, sweep # {} PROVE NextRow \in sweep
<1> DEFINE R == {ss \in Nat \X Nat : ss[1] < ss[2]}
           T == {r.pr : r \in sweep}
<1>1. IsWellFoundedOn(R, Nat)
  BY NatLessThanWellFounded DEF OpToRel
<1>2. T \subseteq Nat /\ T # {}
  BY BoundAssumption DEF PR, SweepTypes
<1>3. PICK n \in T : \A m \in T : <<m, n>> \notin R
  <2> HIDE DEF R, T
  <2> QED BY <1>1, <1>2, WFMin
<1>4. \A m \in T : n =< m
  <2> SUFFICES ASSUME NEW m \in T, ~(n =< m) PROVE <<m, n>> \in R
    BY <1>3
  <2>1. m < n /\ m \in Nat /\ n \in Nat
    BY <1>2
  <2> QED BY <2>1
<1>5. \E r \in sweep : \A s \in sweep : r.pr <= s.pr
  <2>1. PICK r \in sweep : n = r.pr
    BY <1>3
  <2>2. \A s \in sweep : s.pr \in T
    OBVIOUS
  <2> QED BY <1>4, <2>1, <2>2
<1> HIDE DEF R, T
<1> QED BY <1>5 DEF NextRow

(* Attempts are numbers, and their branches; Nothing and the branch of a person are neither. *)
LEMMA Numbers == Attempt \subseteq Nat /\ Attempt \subseteq Branch /\ Nothing \notin Branch /\ Nothing \notin PR
                 /\ Nothing \notin Attempt /\ Nothing \notin Issue /\ Nothing \notin SUBSET Commit /\ Human \notin Attempt
BY AttemptAssumption DEF Branch

(***************************************************************************)
(* Steps that leave every attempt where it works                           *)
(***************************************************************************)

\* An attempt keeps its issue and its branch, and does not start over.
KeepsTarget(b) ==
    /\ att'[b].issue = att[b].issue /\ att'[b].head = att[b].head
    /\ att[b].stage # "find" => att'[b].stage # "find"
KeepsTargets == \A b \in Attempt : KeepsTarget(b)

\* It keeps its worktree too.
KeepsPlace(b) ==
    /\ KeepsTarget(b)
    /\ att'[b].path = att[b].path /\ att'[b].branch = att[b].branch
    /\ Fresh(b)' <=> Fresh(b)
KeepsPlaces == \A b \in Attempt : KeepsPlace(b)

\* What an action holds stays the same, or is nothing that matters.
Creating == {"opened", "saved", "recorded"}
HandKept(b) ==
    \/ hand'[b] = hand[b] /\ (pc'[b] = pc[b] \/ (pc[b] \in Creating /\ pc'[b] \in Creating))
    \/ pc'[b] \in {"idle", "found", "committed"}

\* A worktree keeps its branch, or is removed when its attempt is past its allocation.
TreeKept(p) ==
    \/ worktree'[p].branch = worktree[p].branch /\ (worktree'[p].dirty => worktree[p].dirty \/ Present(p))
    \/ worktree'[p] = [branch |-> Nothing, dirty |-> FALSE] /\ ~(Fresh(p) /\ local[p] # Nothing)

\* A branch that exists goes on existing, and an attempt's is pushed after its allocation only.
BranchesKept ==
    /\ base' = base
    /\ \A b \in Branch : local'[b] = Nothing <=> local[b] = Nothing
    /\ \A b \in Attempt : remote'[b] # Nothing => remote[b] # Nothing \/ ~Fresh(b)

\* GitHub's pull requests keep their branch and their issue.
PRsGrow == \A n \in PR : Opened(n) => Opened(n)' /\ prs'[n].branch = prs[n].branch /\ prs'[n].issue = prs[n].issue
PRsKept ==
    \A n \in PR :
        /\ Opened(n)' <=> Opened(n)
        /\ prs'[n].branch = prs[n].branch /\ prs'[n].issue = prs[n].issue /\ prs'[n].ours = prs[n].ours
        /\ prs'[n].state = "open" => prs[n].state = "open"

(* The branch of an attempt follows from what it keeps. *)
LEMMA TargetsStay ==
    ASSUME KeepsTargets PROVE \A b \in Attempt : Target(b)' = Target(b)
BY DEF KeepsTargets, KeepsTarget, Target

(* Worktrees stay on the branch of their attempts. *)
LEMMA PlacesStay ==
    ASSUME AttemptTypes, PlacesAgree, BranchesAgree, KeepsPlaces, BranchesKept,
           \A p \in Attempt : TreeKept(p)
    PROVE  PlacesAgree' /\ BranchesAgree'
<1> USE TargetsStay
<1>1. \A p \in Attempt : Present(p)' => Present(p) /\ worktree'[p].branch = worktree[p].branch
  BY DEF Present, TreeKept
<1>2. \A a \in Attempt : att[a].path # Nothing => att[a].path \in Attempt
  BY DEF AttemptTypes, AttType
<1>3. \A b \in Attempt : Target(b) \in Branch
  BY DEF Target, AttemptTypes, AttType, Branch
<1>4. PlacesAgree'
  <2>1. ASSUME NEW a \in Attempt, att'[a].path # Nothing
        PROVE  /\ att'[att'[a].path].stage # "find"
               /\ Target(att[a].path)' = Target(a)' /\ att'[a].branch = Target(a)'
               /\ local'[Target(a)'] # Nothing
    BY <2>1, <1>2, <1>3 DEF PlacesAgree, KeepsPlaces, KeepsPlace, KeepsTarget, KeepsTargets, BranchesKept
  <2>2. ASSUME NEW p \in Attempt, Present(p)'
        PROVE  att'[p].stage # "find" /\ worktree'[p].branch = Target(p)' /\ local'[Target(p)'] # Nothing
    BY <2>2, <1>1, <1>3 DEF PlacesAgree, KeepsPlaces, KeepsPlace, KeepsTarget, KeepsTargets, BranchesKept
  <2>3. \A a \in Attempt : att'[a].path = att[a].path
    BY DEF KeepsPlaces, KeepsPlace, KeepsTarget, KeepsTargets
  <2>4. ASSUME NEW p \in Attempt, worktree'[p].dirty
        PROVE  Present(p)'
    BY <2>4 DEF TreeKept, PlacesAgree, Present
  <2> QED BY <2>1, <2>2, <2>3, <2>4 DEF PlacesAgree
<1>5. BranchesAgree'
  <2>1. ASSUME NEW a \in Attempt, Fresh(a)', local'[a] # Nothing
        PROVE  Present(a)' /\ worktree'[a].branch = a
    <3>1. Fresh(a) /\ local[a] # Nothing
      BY <2>1, Numbers DEF KeepsPlaces, KeepsPlace, KeepsTarget, KeepsTargets, BranchesKept
    <3>2. Present(a) /\ worktree[a].branch = a
      BY <3>1 DEF BranchesAgree
    <3> QED BY <3>1, <3>2 DEF TreeKept, Present
  <2>2. \A a \in Attempt : remote'[a] # Nothing => ~Fresh(a)'
    BY DEF BranchesAgree, BranchesKept, KeepsPlaces, KeepsPlace, KeepsTarget, KeepsTargets
  <2>3. base' = Nothing => \A b \in Branch : local'[b] = Nothing
    BY DEF BranchesAgree, BranchesKept
  <2> QED BY <2>1, <2>2, <2>3 DEF BranchesAgree
<1> QED BY <1>4, <1>5

(* The rows of the cleanup keep the paths of attempts. *)
LEMMA SweepStays ==
    ASSUME SweepAgrees, KeepsPlaces, sweep' \subseteq sweep
    PROVE  SweepAgrees'
BY DEF SweepAgrees, KeepsPlaces, KeepsPlace, KeepsTarget, KeepsTargets

(* What an action holds is kept, let go, or of no pull request and worktree. *)
LEMMA HandsStay ==
    ASSUME HandsAgree, AttemptTypes, KeepsTargets, PRsGrow,
           \A b \in Branch : remote'[b] = Nothing => remote[b] = Nothing,
           \A b \in Attempt : HandKept(b) \/ HandAgrees(b)'
    PROVE  HandsAgree'
<1> SUFFICES ASSUME NEW a \in Attempt, HandKept(a)
             PROVE  HandAgrees(a)'
  BY DEF HandsAgree
<1>1. pc'[a] \in {"added", "opened", "saved", "recorded", "removed"} => hand'[a] = hand[a]
  BY DEF HandKept
<1>2. ASSUME pc'[a] = "added"
      PROVE  hand'[a] \in Attempt /\ Target(hand[a])' = Target(a)' /\ att'[hand'[a]].stage # "find"
  BY <1>2, <1>1, TargetsStay DEF HandsAgree, HandAgrees, KeepsTargets, KeepsTarget, HandKept, Creating
<1>3. ASSUME pc'[a] \in Creating
      PROVE  hand'[a] \in PR /\ Opened(hand[a])' /\ prs'[hand'[a]].branch = a /\ prs'[hand'[a]].issue = att'[a].issue
  BY <1>3, <1>1 DEF HandsAgree, HandAgrees, KeepsTargets, KeepsTarget, HandKept, Creating, PRsGrow
<1>4. pc'[a] = "removed" => hand'[a] \in PR
  BY <1>1 DEF HandsAgree, HandAgrees, HandKept, Creating
<1>5. ASSUME pc'[a] = "pushed" PROVE remote'[Target(a)'] # Nothing
  <2>1. Target(a) \in Branch
    BY DEF Target, AttemptTypes, AttType, Branch
  <2> QED BY <1>5, <2>1, TargetsStay DEF HandsAgree, HandAgrees, HandKept, Creating
<1> QED BY <1>1, <1>2, <1>3, <1>4, <1>5 DEF HandAgrees, Creating, Opened, Target

\* An attempt of an issue may go to work alone, as the newest, or else it is counted.
MayRun(a, i) == overlaps'[i] > 0 \/ \A b \in Issued(i) \ {a} : ~Running(b) /\ b < a
OverlapsGrow == OverlapTypes' /\ \A i \in Issue : overlaps[i] > 0 => overlaps'[i] > 0

(* What it takes to go to work. *)
LEMMA WorkBegins ==
    ASSUME OverlapTypes, NEW a \in Attempt, NEW i \in Issue, GoesToWork(a, i)
    PROVE  OverlapsGrow /\ MayRun(a, i)
<1>1. CASE ~Beside(a, i) /\ UNCHANGED overlaps
  BY <1>1, AttemptAssumption DEF Beside, Issued, MayRun, OverlapsGrow, OverlapTypes
<1>2. CASE overlaps[i] < MaxOverlaps /\ overlaps' = [overlaps EXCEPT ![i] = @ + 1]
  <2>1. overlaps[i] + 1 \in 0..MaxOverlaps /\ overlaps[i] + 1 > 0
    BY <1>2, BoundAssumption DEF OverlapTypes
  <2> QED BY <1>2, <2>1 DEF MayRun, OverlapsGrow, OverlapTypes
<1> QED BY <1>1, <1>2 DEF GoesToWork

(* Who runs has an issue. *)
LEMMA RunnersHaveIssues ==
    ASSUME AttemptTypes, StagesAgree, NEW a \in Attempt, att[a].status # "none" PROVE att[a].issue \in Issue
BY DEF AttemptTypes, AttType, StagesAgree, StageAgrees

(* An attempt runs that ran before, or one whose issue no other one works on, or it is counted. *)
LEMMA RunsStay ==
    ASSUME Runs, AttemptTypes, StagesAgree, KeepsTargets, OverlapsGrow, NEW a \in Attempt,
           Running(a)' => Running(a) \/ MayRun(a, att[a].issue),
           \A b \in Attempt \ {a} : Running(b)' => Running(b)
    PROVE  Runs'
<1> SUFFICES ASSUME NEW b \in Attempt, NEW c \in Attempt, b # c, Running(b)', Running(c)',
                    att'[b].issue = att'[c].issue
             PROVE  overlaps'[att'[b].issue] > 0
  BY DEF Runs, Running, Together
<1>1. att'[b].issue = att[b].issue /\ att'[c].issue = att[c].issue
  BY DEF KeepsTargets, KeepsTarget
<1>2. CASE Running(b) /\ Running(c)
  BY <1>1, <1>2, RunnersHaveIssues DEF Runs, Together, OverlapsGrow, Running
<1>3. CASE ~Running(b)
  BY <1>1, <1>3 DEF MayRun, Issued
<1>4. CASE ~Running(c)
  BY <1>1, <1>4 DEF MayRun, Issued
<1> QED BY <1>2, <1>3, <1>4

(* The attempt that runs is the newest of its issue, and so is the one with an open pull request. *)
LEMMA NewerStays ==
    ASSUME Newer, AttemptTypes, StagesAgree, PullRequestsAgree, KeepsTargets, OverlapsGrow, PRsKept,
           NEW a \in Attempt,
           Running(a)' => Running(a) \/ MayRun(a, att[a].issue),
           \A b \in Attempt \ {a} : Running(b)' => Running(b),
           \A b \in Attempt : PastFind(b)' => PastFind(b)
    PROVE  Newer'
<1>1. \A b \in Attempt : Siblings(b)' = Siblings(b) /\ att'[b].issue = att[b].issue
  BY DEF Siblings, Issued, KeepsTargets, KeepsTarget
<1>2. ASSUME NEW b \in Attempt, Running(b)', ~(overlaps'[att'[b].issue] > 0), NEW c \in Siblings(b) PROVE c < b
  <2>1. CASE Running(b)
    BY <1>1, <1>2, <2>1, RunnersHaveIssues DEF Newer, Together, OverlapsGrow, Running
  <2>2. CASE ~Running(b)
    BY <1>1, <1>2, <2>2 DEF MayRun, Siblings
  <2> QED BY <2>1, <2>2
<1>3. ASSUME NEW m \in PR, NEW b \in Attempt, prs'[m].ours, prs'[m].state = "open", prs'[m].issue = att'[b].issue,
             ~(overlaps'[att'[b].issue] > 0), prs'[m].branch # b, PastFind(b)', att'[b].head = Nothing
      PROVE  prs'[m].branch > b
  <2>1. prs[m].ours /\ prs[m].state = "open" /\ prs[m].issue = att[b].issue /\ prs[m].branch # b
        /\ PastFind(b) /\ att[b].head = Nothing /\ prs'[m].branch = prs[m].branch
    BY <1>1, <1>3 DEF PRsKept, KeepsTargets, KeepsTarget
  <2>2. att[b].issue \in Issue
    BY <2>1 DEF PullRequestsAgree, Opened
  <2> QED BY <1>1, <1>3, <2>1, <2>2 DEF Newer, Together, OverlapsGrow
<1> QED BY <1>1, <1>2, <1>3 DEF Newer, Together

(* A row of a pull request is kept, or points at an attempt of its branch. *)
LEMMA RowsStay ==
    ASSUME RowsAgree, AttemptTypes, SweepTypes, KeepsTargets, PRsGrow, PullRequestsAgree, StagesAgree,
           \A n \in PR : \/ row'[n].attempt = row[n].attempt
                         \/ /\ row'[n].attempt \in Attempt /\ prs'[n].branch = Target(row'[n].attempt)
                            /\ PastFind(row'[n].attempt),
           \A r \in sweep' : \/ r \in sweep
                             \/ /\ r.pr \in PR /\ r.path \in Attempt
                                /\ Opened(r.pr) /\ prs[r.pr].branch = Target(r.path),
           \A b \in Attempt : \/ att'[b].pr = att[b].pr
                              \/ att'[b].pr \in PR /\ Opened(att'[b].pr) /\ prs[att'[b].pr].branch = Target(b),
           \A b \in Attempt : PastFind(b) => PastFind(b)'
    PROVE  RowsAgree'
<1>0. \A b \in Attempt : Target(b) \in Branch
  BY DEF Target, AttemptTypes, AttType, Branch
<1>1. \A n \in PR, a \in Attempt : row'[n].attempt = a => prs'[n].branch = Target(a)' /\ PastFind(a)'
  BY TargetsStay, Numbers DEF RowsAgree, PRsGrow, PullRequestsAgree
<1>2. \A a \in Attempt : att'[a].pr # Nothing => prs'[att'[a].pr].branch = Target(a)'
  BY TargetsStay DEF RowsAgree, PRsGrow, StagesAgree, StageAgrees, AttemptTypes, AttType
<1>3. \A r \in sweep' : prs'[r.pr].branch = Target(r.path)'
  <2> SUFFICES ASSUME NEW r \in sweep' PROVE prs'[r.pr].branch = Target(r.path)'
    OBVIOUS
  <2>1. r.pr \in PR /\ r.path \in Attempt /\ prs[r.pr].branch = Target(r.path)
    BY DEF SweepTypes, RowsAgree
  <2>2. Opened(r.pr)
    <3>1. \A n \in PR : ~Opened(n) => prs[n].branch = Nothing
      BY DEF PullRequestsAgree
    <3> QED BY <2>1, <3>1, <1>0, Numbers
  <2> QED BY <2>1, <2>2, TargetsStay DEF PRsGrow
<1> QED BY <1>1, <1>2, <1>3 DEF RowsAgree

(* Nothing but rows, links and states of the pull requests changes. *)
LEMMA PullRequestsStay ==
    ASSUME AttemptTypes, PullRequestsAgree, KeepsTargets, PRsKept,
           \A b \in Branch : remote'[b] = Nothing => remote[b] = Nothing,
           \A n \in PR : row'[n].attempt # Nothing => Opened(n),
           \A n \in PR : row'[n].merged => prs'[n].state = "merged",
           \A i \in Issue : \A n \in links'[i] : Opened(n) /\ n \in PR /\ prs[n].issue = i
    PROVE  PullRequestsAgree'
<1>1. \A n \in PR :
           /\ Opened(n)' => prs'[n].branch \in Branch /\ prs'[n].issue \in Issue /\ remote'[prs'[n].branch] # Nothing
           /\ ~Opened(n)' => prs'[n].branch = Nothing /\ ~prs'[n].ours
           /\ prs'[n].branch \in Attempt <=> prs'[n].ours
           /\ prs'[n].branch \in Attempt => prs'[n].issue = att'[prs'[n].branch].issue
           /\ row'[n].attempt # Nothing => Opened(n)'
  BY DEF PRsKept, PullRequestsAgree, KeepsTargets, KeepsTarget
<1>2. \A n, m \in PR : prs'[n].branch = Human /\ prs'[m].branch = Human => n = m
  BY DEF PRsKept, PullRequestsAgree
<1>3. \A i \in Issue : \A n \in links'[i] : Opened(n)' /\ prs'[n].issue = i
  BY DEF PRsKept
<1>4. \A a \in Attempt : att'[a].head # Nothing =>
           \E n \in PR : Opened(n)' /\ prs'[n].branch = att'[a].head /\ prs'[n].issue = att'[a].issue
  BY DEF PRsKept, PullRequestsAgree, KeepsTargets, KeepsTarget
<1> QED BY <1>1, <1>2, <1>3, <1>4 DEF PullRequestsAgree, Opened

(***************************************************************************)
(* Steps of one attempt                                                    *)
(***************************************************************************)

\* Attempt a moves on in its workflow, and the others stay where they are.
Moved(a) ==
    /\ att' \in [Attempt -> AttType] /\ pc' \in [Attempt -> Pc]
    /\ hand' \in [Attempt -> Attempt \cup PR \cup {Nothing}] /\ sha' \in [Attempt -> SUBSET Commit]
    /\ \A b \in Attempt \ {a} : att'[b] = att[b] /\ pc'[b] = pc[b] /\ hand'[b] = hand[b]
    /\ KeepsPlace(a)

(* The facts about the other attempts that a step of one attempt leaves alone. *)
LEMMA MovedKeeps ==
    ASSUME AttemptTypes, StagesAgree, NEW a \in Attempt, Moved(a), PRsGrow, StageAgrees(a)'
    PROVE  /\ AttemptTypes' /\ KeepsPlaces /\ KeepsTargets /\ StagesAgree'
           /\ \A b \in Attempt \ {a} : (Running(b)' <=> Running(b)) /\ HandKept(b)
           /\ \A b \in Attempt \ {a} : att'[b].pr = att[b].pr /\ (PastFind(b)' <=> PastFind(b))
<1>1. AttemptTypes'
  BY DEF Moved, AttemptTypes
<1>2. \A b \in Attempt \ {a} : KeepsPlace(b)
  BY DEF Moved, KeepsPlace, KeepsTarget, Fresh
<1>3. \A b \in Attempt \ {a} : StageAgrees(b)'
  <2> SUFFICES ASSUME NEW b \in Attempt \ {a} PROVE StageAgrees(b)'
    OBVIOUS
  <2>1. att'[b] = att[b] /\ pc'[b] = pc[b] /\ StageAgrees(b) /\ att[b] \in AttType
    BY DEF Moved, StagesAgree, AttemptTypes
  <2>2. att[b].pr # Nothing => att[b].pr \in PR
    BY <2>1 DEF AttType
  <2>3. att[b].pr # Nothing => Opened(att[b].pr)'
    BY <2>1, <2>2 DEF StageAgrees, PRsGrow
  <2> QED BY <2>1, <2>3 DEF StageAgrees, Fresh, Opened
<1>4. \A b \in Attempt \ {a} : HandKept(b) /\ (Running(b)' <=> Running(b)) /\ att'[b].pr = att[b].pr
                               /\ (PastFind(b)' <=> PastFind(b))
  BY DEF Moved, HandKept, Running, PastFind
<1> QED BY <1>1, <1>2, <1>3, <1>4 DEF KeepsPlaces, KeepsPlace, KeepsTargets, StagesAgree, Moved

(* A step of one attempt that leaves every attempt where it works. *)
LEMMA MovedStep ==
    ASSUME WorkspaceInv, NEW a \in Attempt, Moved(a), StageAgrees(a)',
           GitTypes', HubTypes', RowTypes', made' \in 0..MaxCommits, CommitsAreMade',
           UNCHANGED <<prs, sweep, swept>>, OverlapsGrow, BranchesKept, \A p \in Attempt : TreeKept(p),
           \A b \in Branch : remote'[b] = Nothing => remote[b] = Nothing,
           \A n \in PR : \/ row'[n].attempt = row[n].attempt
                         \/ /\ row'[n].attempt = a /\ Opened(n)
                            /\ "found" \notin Windows => prs[n].branch = Target(a) /\ PastFind(a),
           \A n \in PR : row'[n].merged => prs[n].state = "merged",
           \A i \in Issue : \A n \in links'[i] : n \in PR /\ Opened(n) /\ prs[n].issue = i,
           HandKept(a) \/ HandAgrees(a)',
           Running(a)' => Running(a) \/ MayRun(a, att[a].issue),
           PastFind(a)' => PastFind(a),
           "found" \notin Windows => (PastFind(a) => PastFind(a)'),
           \/ att'[a].pr = att[a].pr
           \/ att'[a].pr \in PR /\ Opened(att'[a].pr) /\ ("found" \notin Windows => prs[att'[a].pr].branch = Target(a))
    PROVE  WorkspaceInv'
<1>t. AttemptTypes /\ GitTypes /\ HubTypes /\ RowTypes /\ SweepTypes /\ made \in 0..MaxCommits
  BY TypesSplit DEF WorkspaceInv
<1>v. /\ StagesAgree /\ HandsAgree /\ PlacesAgree /\ PullRequestsAgree /\ BranchesAgree
      /\ CommitsAreMade /\ SweepAgrees /\ Runs
      /\ ("found" \notin Windows => RowsAgree) /\ Newer
  BY DEF WorkspaceInv
<1>p. PRsGrow /\ PRsKept
  BY DEF PRsGrow, PRsKept, Opened
<1>m. AttemptTypes' /\ KeepsPlaces /\ KeepsTargets /\ StagesAgree'
      /\ (\A b \in Attempt \ {a} : (Running(b)' <=> Running(b)) /\ HandKept(b))
      /\ (\A b \in Attempt \ {a} : att'[b].pr = att[b].pr /\ (PastFind(b)' <=> PastFind(b)))
  BY <1>t, <1>p, <1>v, MovedKeeps
<1>1. TypeOK'
  <2>1. SweepTypes' /\ OverlapTypes'
    BY <1>t DEF SweepTypes, OverlapsGrow
  <2> QED BY <1>m, <2>1, TypesSplitNext
<1>2. PlacesAgree' /\ BranchesAgree'
  BY <1>t, <1>m, <1>v, PlacesStay
<1>3. SweepAgrees'
  BY <1>m, <1>v, SweepStays
<1>4. HandsAgree'
  BY <1>t, <1>m, <1>p, <1>v, HandsStay
<1>5. PullRequestsAgree'
  <2>1. \A n \in PR : row[n].attempt # Nothing => Opened(n)
    BY <1>v DEF PullRequestsAgree
  <2>2. \A n \in PR : row'[n].attempt # Nothing => Opened(n)
    BY <2>1
  <2> QED BY <1>t, <1>m, <1>p, <1>v, <2>2, PullRequestsStay
<1>6. \A b \in Attempt \ {a} : Running(b)' => Running(b)
  BY <1>m
<1>7. Runs'
  BY <1>t, <1>m, <1>v, <1>6, RunsStay
<1>9. Newer'
  <2>1. \A b \in Attempt : PastFind(b)' => PastFind(b)
    BY <1>m
  <2> QED BY <1>t, <1>m, <1>p, <1>v, <1>6, <2>1, NewerStays
<1>8. ASSUME "found" \notin Windows PROVE RowsAgree'
  <2>1. \A b \in Attempt : PastFind(b) => PastFind(b)'
    BY <1>m, <1>8
  <2>2. \A b \in Attempt : \/ att'[b].pr = att[b].pr
                           \/ att'[b].pr \in PR /\ Opened(att'[b].pr) /\ prs[att'[b].pr].branch = Target(b)
    BY <1>m, <1>8
  <2>3. \A n \in PR : \/ row'[n].attempt = row[n].attempt
                      \/ /\ row'[n].attempt \in Attempt /\ prs'[n].branch = Target(row'[n].attempt)
                         /\ PastFind(row'[n].attempt)
    BY <1>8
  <2>4. RowsAgree
    BY <1>8, <1>v
  <2>5. \A r \in sweep' : r \in sweep
    OBVIOUS
  <2> QED BY <1>t, <1>m, <1>p, <1>v, <2>1, <2>2, <2>3, <2>4, <2>5, RowsStay
<1> QED BY <1>1, <1>2, <1>3, <1>4, <1>5, <1>7, <1>8, <1>9, <1>m, <1>v DEF WorkspaceInv

(* One that leaves the repository, GitHub and the rows alone. *)
LEMMA QuietStep ==
    ASSUME WorkspaceInv, NEW a \in Attempt, Moved(a), StageAgrees(a)',
           UNCHANGED <<gitVars, hubVars, row, links, sweepVars, made>>, OverlapsGrow,
           HandKept(a) \/ HandAgrees(a)',
           Running(a)' => Running(a) \/ MayRun(a, att[a].issue),
           PastFind(a)' => PastFind(a),
           "found" \notin Windows => (PastFind(a) => PastFind(a)'),
           \/ att'[a].pr = att[a].pr
           \/ att'[a].pr \in PR /\ Opened(att'[a].pr) /\ ("found" \notin Windows => prs[att'[a].pr].branch = Target(a))
    PROVE  WorkspaceInv'
<1>t. AttemptTypes /\ GitTypes /\ HubTypes /\ RowTypes /\ SweepTypes /\ made \in 0..MaxCommits
      /\ CommitsAreMade /\ PullRequestsAgree
  BY TypesSplit DEF WorkspaceInv
<1>u. UNCHANGED <<worktree, local, base, remote, trunk, prs, row, links, sweep, swept, made>>
  BY DEF gitVars, hubVars, sweepVars
<1>1. GitTypes' /\ HubTypes' /\ RowTypes' /\ made' \in 0..MaxCommits
  BY <1>t, <1>u DEF GitTypes, HubTypes, RowTypes
<1>2. CommitsAreMade'
  BY <1>t, <1>u DEF CommitsAreMade, Made
<1>3. BranchesKept /\ \A p \in Attempt : TreeKept(p)
  BY <1>u DEF BranchesKept, TreeKept
<1>4. \A n \in PR : row'[n].merged => prs[n].state = "merged"
  BY <1>t, <1>u DEF PullRequestsAgree
<1>5. \A i \in Issue : \A n \in links'[i] : n \in PR /\ Opened(n) /\ prs[n].issue = i
  BY <1>t, <1>u DEF PullRequestsAgree, RowTypes
<1> QED BY <1>u, <1>1, <1>2, <1>3, <1>4, <1>5, MovedStep

(***************************************************************************)
(* The steps of an attempt                                                 *)
(***************************************************************************)

\* The attempt's row after an assignment to its stage, status, pull request and commit.
Becomes(a, s, t, n, c) ==
    /\ att' \in [Attempt -> AttType] /\ \A b \in Attempt \ {a} : att'[b] = att[b]
    /\ att'[a].stage = s /\ att'[a].status = t /\ att'[a].pr = n /\ att'[a].sha = c
    /\ att'[a].issue = att[a].issue /\ att'[a].head = att[a].head
    /\ att'[a].path = att[a].path /\ att'[a].branch = att[a].branch

(* What an assignment to fields of an attempt's row makes of it. *)
LEMMA Assigned ==
    ASSUME AttemptTypes, NEW a \in Attempt, NEW s \in Stage, NEW n \in PR \cup {Nothing}, NEW c \in SUBSET Commit,
           NEW t \in {"none", "running", "review", "failed", "done"},
           att' = [att EXCEPT ![a] = [att[a] EXCEPT !.stage = s, !.status = t, !.pr = n, !.sha = c]]
    PROVE  Becomes(a, s, t, n, c)
<1>1. att[a] \in AttType
  BY DEF AttemptTypes
<1>2. [att[a] EXCEPT !.stage = s, !.status = t, !.pr = n, !.sha = c] \in AttType
  BY <1>1 DEF AttType
<1> QED BY <1>1, <1>2 DEF AttemptTypes, AttType, Becomes

(* The next stage of the workflow, and the status that goes with it. *)
LEMMA Proceeded ==
    ASSUME AttemptTypes, NEW a \in Attempt, NEW s \in Stage, Proceed(a, s)
    PROVE  /\ Becomes(a, s, IF s \in {"wait", "push"} THEN "review" ELSE IF s = "done" THEN "done" ELSE "running",
                      att[a].pr, att[a].sha)
           /\ pc' = [pc EXCEPT ![a] = "idle"]
<1>1. CASE s \in {"wait", "push"}
  <2>1. att' = [att EXCEPT ![a] = [att[a] EXCEPT !.stage = s, !.status = "review", !.pr = att[a].pr, !.sha = att[a].sha]]
    BY <1>1 DEF Proceed, AttemptTypes, AttType
  <2> QED BY <1>1, <2>1, Assigned DEF Proceed, AttemptTypes, AttType
<1>2. CASE s = "done"
  <2>1. att' = [att EXCEPT ![a] = [att[a] EXCEPT !.stage = s, !.status = "done", !.pr = att[a].pr, !.sha = att[a].sha]]
    BY <1>2 DEF Proceed, AttemptTypes, AttType
  <2> QED BY <1>2, <2>1, Assigned DEF Proceed, AttemptTypes, AttType
<1>3. CASE s \notin {"wait", "push", "done"}
  <2>1. att' = [att EXCEPT ![a] = [att[a] EXCEPT !.stage = s, !.status = "running", !.pr = att[a].pr, !.sha = att[a].sha]]
    BY <1>3 DEF Proceed, AttemptTypes, AttType
  <2> QED BY <1>3, <2>1, Assigned DEF Proceed, AttemptTypes, AttType
<1> QED BY <1>1, <1>2, <1>3

(* An action may be before its first step in every stage. *)
LEMMA IdleAlways == \A s \in Stage : "idle" \in PcOf[s]
BY DEF Stage, PcOf

(* A retry of a failed action puts its attempt back to work where it stopped: no place, hand or row changes. *)
LEMMA RetryKeeps == ASSUME WorkspaceInv, NEW a \in Attempt, Retry(a) PROVE WorkspaceInv'
<1>t. /\ AttemptTypes /\ att[a] \in AttType /\ StageAgrees(a) /\ HandAgrees(a)
      /\ pc \in [Attempt -> Pc] /\ hand \in [Attempt -> Attempt \cup PR \cup {Nothing}]
      /\ sha \in [Attempt -> SUBSET Commit]
  BY TypesSplit DEF WorkspaceInv, StagesAgree, HandsAgree, AttemptTypes
<1>1. /\ att' = [att EXCEPT ![a].status = "running"] /\ att[a].status = "failed"
      /\ UNCHANGED <<pc, hand, sha>>
  BY DEF Retry, At, AtCodex, StoredAt, Running
<1>f. UNCHANGED <<gitVars, hubVars, row, links, sweepVars, made>>
  BY DEF Retry
<1>o. OverlapsGrow /\ MayRun(a, att[a].issue)
  <2>1. GoesToWork(a, att[a].issue) /\ att[a].status # "none"
    BY DEF Retry
  <2>2. att[a].issue \in Issue
    BY <1>t, <2>1 DEF StageAgrees, AttType
  <2> QED BY <2>1, <2>2, WorkBegins, TypesSplit DEF WorkspaceInv
<1>2. Becomes(a, att[a].stage, "running", att[a].pr, att[a].sha)
  <2>1. att' = [att EXCEPT ![a] = [att[a] EXCEPT !.stage = att[a].stage, !.status = "running", !.pr = att[a].pr, !.sha = att[a].sha]]
    BY <1>1, <1>t DEF AttemptTypes, AttType
  <2>2. att[a].stage \in Stage /\ att[a].pr \in PR \cup {Nothing} /\ att[a].sha \in SUBSET Commit
        /\ "running" \in {"none", "running", "review", "failed", "done"}
    BY <1>1, <1>t DEF AttType, Stage
  <2> QED BY <1>t, <2>1, <2>2, Assigned
<1>3. Moved(a)
  BY <1>1, <1>2, <1>t DEF Moved, Becomes, KeepsPlace, KeepsTarget, Fresh, Pc
<1>4. StageAgrees(a)'
  BY <1>1, <1>f, <1>2, <1>t DEF Becomes, StageAgrees, PcOf, Stage, Fresh, Opened, hubVars
<1>5. HandKept(a)
  BY <1>1, <1>2, <1>t DEF HandKept, Creating
<1>6. (Running(a)' => Running(a) \/ MayRun(a, att[a].issue)) /\ (PastFind(a)' => PastFind(a))
      /\ ("found" \notin Windows => (PastFind(a) => PastFind(a)'))
  BY <1>o, <1>1, <1>2, <1>t DEF Becomes, Running, PastFind, StageAgrees, PcOf, Stage
<1>7. att'[a].pr = att[a].pr
  BY <1>2 DEF Becomes
<1> QED BY <1>o, <1>f, <1>3, <1>4, <1>5, <1>6, <1>7, QuietStep

(* Approving the push of an update moves an attempt to the push of a branch it has already. *)
LEMMA ApprovePushKeeps == ASSUME WorkspaceInv, NEW a \in Attempt, ApprovePush(a) PROVE WorkspaceInv'
<1>t. /\ AttemptTypes /\ att[a] \in AttType /\ StageAgrees(a) /\ HandAgrees(a)
      /\ pc \in [Attempt -> Pc] /\ hand \in [Attempt -> Attempt \cup PR \cup {Nothing}]
      /\ sha \in [Attempt -> SUBSET Commit]
  BY TypesSplit DEF WorkspaceInv, StagesAgree, HandsAgree, AttemptTypes
<1>1. /\ att' = [att EXCEPT ![a].status = "running"] /\ att[a].status = "review"
      /\ UNCHANGED <<pc, hand, sha>>
  BY DEF ApprovePush, At, AtCodex, StoredAt, Running
<1>f. UNCHANGED <<gitVars, hubVars, row, links, sweepVars, made>>
  BY DEF ApprovePush
<1>o. OverlapsGrow /\ MayRun(a, att[a].issue)
  <2>1. GoesToWork(a, att[a].issue) /\ att[a].status # "none"
    BY DEF ApprovePush
  <2>2. att[a].issue \in Issue
    BY <1>t, <2>1 DEF StageAgrees, AttType
  <2> QED BY <2>1, <2>2, WorkBegins, TypesSplit DEF WorkspaceInv
<1>2. Becomes(a, att[a].stage, "running", att[a].pr, att[a].sha)
  <2>1. att' = [att EXCEPT ![a] = [att[a] EXCEPT !.stage = att[a].stage, !.status = "running", !.pr = att[a].pr, !.sha = att[a].sha]]
    BY <1>1, <1>t DEF AttemptTypes, AttType
  <2>2. att[a].stage \in Stage /\ att[a].pr \in PR \cup {Nothing} /\ att[a].sha \in SUBSET Commit
        /\ "running" \in {"none", "running", "review", "failed", "done"}
    BY <1>1, <1>t DEF AttType, Stage
  <2> QED BY <1>t, <2>1, <2>2, Assigned
<1>3. Moved(a)
  BY <1>1, <1>2, <1>t DEF Moved, Becomes, KeepsPlace, KeepsTarget, Fresh, Pc
<1>4. StageAgrees(a)'
  BY <1>1, <1>f, <1>2, <1>t DEF Becomes, StageAgrees, PcOf, Stage, Fresh, Opened, hubVars
<1>5. HandKept(a)
  BY <1>1, <1>2, <1>t DEF HandKept, Creating
<1>6. (Running(a)' => Running(a) \/ MayRun(a, att[a].issue)) /\ (PastFind(a)' => PastFind(a))
      /\ ("found" \notin Windows => (PastFind(a) => PastFind(a)'))
  BY <1>o, <1>1, <1>2, <1>t DEF Becomes, Running, PastFind, StageAgrees, PcOf, Stage
<1>7. att'[a].pr = att[a].pr
  BY <1>2 DEF Becomes
<1> QED BY <1>o, <1>f, <1>3, <1>4, <1>5, <1>6, <1>7, QuietStep

(* An action that stops leaves everything as far as it came: what it held in memory is let go. *)
LEMMA StopKeeps == ASSUME WorkspaceInv, NEW a \in Attempt, Stop(a) PROVE WorkspaceInv'
<1>t. /\ AttemptTypes /\ att[a] \in AttType /\ StageAgrees(a) /\ HandAgrees(a)
      /\ pc \in [Attempt -> Pc] /\ hand \in [Attempt -> Attempt \cup PR \cup {Nothing}]
      /\ sha \in [Attempt -> SUBSET Commit]
  BY TypesSplit DEF WorkspaceInv, StagesAgree, HandsAgree, AttemptTypes
<1>1. /\ att' = [att EXCEPT ![a].status = IF att[a].stage = "push" THEN "review" ELSE "failed"]
      /\ pc' = [pc EXCEPT ![a] = "idle"] /\ hand' = [hand EXCEPT ![a] = Nothing] /\ sha' = [sha EXCEPT ![a] = {}]
      /\ att[a].status = "running" /\ pc[a] \in Windows
  BY DEF Stop, At, AtCodex, StoredAt, Running
<1>f. UNCHANGED <<gitVars, hubVars, row, links, sweepVars, made>>
  BY DEF Stop
<1>o. OverlapsGrow
  BY TypesSplit DEF Stop, OverlapsGrow, OverlapTypes, WorkspaceInv
<1>2. PICK t \in {"review", "failed"} : Becomes(a, att[a].stage, t, att[a].pr, att[a].sha)
  <2>1. PICK t \in {"review", "failed"} : t = IF att[a].stage = "push" THEN "review" ELSE "failed"
    OBVIOUS
  <2>2. att' = [att EXCEPT ![a] = [att[a] EXCEPT !.stage = att[a].stage, !.status = t, !.pr = att[a].pr, !.sha = att[a].sha]]
    BY <1>1, <1>t, <2>1 DEF AttemptTypes, AttType
  <2> QED BY <1>t, <2>2, Assigned DEF AttType
<1>3. Moved(a)
  BY <1>1, <1>2, <1>t DEF Moved, Becomes, KeepsPlace, KeepsTarget, Fresh, Pc
<1>4. StageAgrees(a)'
  BY <1>1, <1>f, <1>2, <1>t, IdleAlways DEF Becomes, StageAgrees, AttType, Fresh, Opened, hubVars, PcOf
<1>5. HandKept(a)
  BY <1>1, <1>2, <1>t DEF HandKept, Creating
<1>6. (Running(a)' => Running(a) \/ MayRun(a, att[a].issue)) /\ (PastFind(a)' => PastFind(a))
      /\ ("found" \notin Windows => (PastFind(a) => PastFind(a)'))
  BY <1>1, <1>2, <1>t DEF Becomes, Running, PastFind, StageAgrees, PcOf, Stage
<1>7. att'[a].pr = att[a].pr
  BY <1>2 DEF Becomes
<1> QED BY <1>o, <1>f, <1>3, <1>4, <1>5, <1>6, <1>7, QuietStep

(* The end of the search for pull requests keeps what the search recorded. *)
LEMMA FoundKeeps == ASSUME WorkspaceInv, NEW a \in Attempt, Found(a) PROVE WorkspaceInv'
<1>t. /\ AttemptTypes /\ att[a] \in AttType /\ StageAgrees(a) /\ HandAgrees(a)
      /\ pc \in [Attempt -> Pc] /\ hand \in [Attempt -> Attempt \cup PR \cup {Nothing}]
      /\ sha \in [Attempt -> SUBSET Commit]
  BY TypesSplit DEF WorkspaceInv, StagesAgree, HandsAgree, AttemptTypes
<1>1. /\ Proceed(a, "allocate") /\ att[a].status = "running" /\ att[a].stage = "find" /\ pc[a] = "found"
      /\ UNCHANGED <<hand, sha>>
  BY DEF Found, At, AtCodex, StoredAt, Running
<1>f. UNCHANGED <<gitVars, hubVars, row, links, sweepVars, made>>
  BY DEF Found
<1>o. OverlapsGrow
  BY TypesSplit DEF Found, OverlapsGrow, OverlapTypes, WorkspaceInv
<1>2. Becomes(a, "allocate", "running", att[a].pr, att[a].sha) /\ pc' = [pc EXCEPT ![a] = "idle"]
  BY <1>1, <1>t, Proceeded DEF Stage
<1>3. Moved(a)
  BY <1>1, <1>2, <1>t DEF Moved, Becomes, KeepsPlace, KeepsTarget, Fresh, Pc
<1>4. StageAgrees(a)'
  BY <1>1, <1>f, <1>2, <1>t DEF Becomes, StageAgrees, PcOf, Stage, Fresh, Opened, hubVars
<1>5. HandKept(a)
  BY <1>1, <1>2, <1>t DEF HandKept, Creating
<1>6. (Running(a)' => Running(a) \/ MayRun(a, att[a].issue)) /\ (PastFind(a)' => PastFind(a))
      /\ ("found" \notin Windows => (PastFind(a) => PastFind(a)'))
  BY <1>1, <1>2, <1>t DEF Becomes, Running, PastFind, StageAgrees, PcOf, Stage
<1>7. att'[a].pr = att[a].pr
  BY <1>2 DEF Becomes
<1> QED BY <1>o, <1>f, <1>3, <1>4, <1>5, <1>6, <1>7, QuietStep

(* The setup of a workspace changes neither the workspace nor its branch. *)
LEMMA SetupKeeps == ASSUME WorkspaceInv, NEW a \in Attempt, Setup(a) PROVE WorkspaceInv'
<1>t. /\ AttemptTypes /\ att[a] \in AttType /\ StageAgrees(a) /\ HandAgrees(a)
      /\ pc \in [Attempt -> Pc] /\ hand \in [Attempt -> Attempt \cup PR \cup {Nothing}]
      /\ sha \in [Attempt -> SUBSET Commit]
  BY TypesSplit DEF WorkspaceInv, StagesAgree, HandsAgree, AttemptTypes
<1>1. /\ \E s \in IF att[a].pr = Nothing THEN {"work"} ELSE {"follow", "wait"} : Proceed(a, s)
      /\ att[a].status = "running" /\ att[a].stage = "setup"
      /\ UNCHANGED <<hand, sha>>
  BY DEF Setup, At, AtCodex, StoredAt, Running
<1>f. UNCHANGED <<gitVars, hubVars, row, links, sweepVars, made>>
  BY DEF Setup
<1>o. OverlapsGrow
  BY TypesSplit DEF Setup, OverlapsGrow, OverlapTypes, WorkspaceInv
<1>2. PICK s \in {"work", "follow", "wait"}, t \in {"running", "review"} :
         /\ Becomes(a, s, t, att[a].pr, att[a].sha) /\ pc' = [pc EXCEPT ![a] = "idle"]
         /\ s = "work" <=> att[a].pr = Nothing
  BY <1>1, <1>t, Proceeded DEF Stage
<1>3. Moved(a)
  BY <1>1, <1>2, <1>t DEF Moved, Becomes, KeepsPlace, KeepsTarget, Fresh, Pc
<1>4. StageAgrees(a)'
  BY <1>1, <1>f, <1>2, <1>t DEF Becomes, StageAgrees, PcOf, Stage, Fresh, Opened, hubVars
<1>5. HandKept(a)
  BY <1>1, <1>2, <1>t DEF HandKept, Creating
<1>6. (Running(a)' => Running(a) \/ MayRun(a, att[a].issue)) /\ (PastFind(a)' => PastFind(a))
      /\ ("found" \notin Windows => (PastFind(a) => PastFind(a)'))
  BY <1>1, <1>2, <1>t DEF Becomes, Running, PastFind, StageAgrees, PcOf, Stage
<1>7. att'[a].pr = att[a].pr
  BY <1>2 DEF Becomes
<1> QED BY <1>o, <1>f, <1>3, <1>4, <1>5, <1>6, <1>7, QuietStep

(* A Codex run that ends moves its attempt on and leaves the worktree to the next action. *)
LEMMA CodexEndsKeeps == ASSUME WorkspaceInv, NEW a \in Attempt, CodexEnds(a) PROVE WorkspaceInv'
<1>t. /\ AttemptTypes /\ att[a] \in AttType /\ StageAgrees(a) /\ HandAgrees(a)
      /\ pc \in [Attempt -> Pc] /\ hand \in [Attempt -> Attempt \cup PR \cup {Nothing}]
      /\ sha \in [Attempt -> SUBSET Commit]
  BY TypesSplit DEF WorkspaceInv, StagesAgree, HandsAgree, AttemptTypes
<1>1. /\ Proceed(a, IF att[a].stage = "work" THEN "publish" ELSE "push")
      /\ att[a].status = "running" /\ att[a].stage \in {"work", "follow"}
      /\ UNCHANGED <<hand, sha>>
  BY DEF CodexEnds, At, AtCodex, StoredAt, Running
<1>f. UNCHANGED <<gitVars, hubVars, row, links, sweepVars, made>>
  BY DEF CodexEnds
<1>o. OverlapsGrow
  BY TypesSplit DEF CodexEnds, OverlapsGrow, OverlapTypes, WorkspaceInv
<1>2. PICK s \in {"publish", "push"}, t \in {"running", "review"} :
         /\ Becomes(a, s, t, att[a].pr, att[a].sha) /\ pc' = [pc EXCEPT ![a] = "idle"]
         /\ att[a].stage = IF s = "publish" THEN "work" ELSE "follow"
  BY <1>1, <1>t, Proceeded DEF Stage
<1>3. Moved(a)
  BY <1>1, <1>2, <1>t DEF Moved, Becomes, KeepsPlace, KeepsTarget, Fresh, Pc
<1>4. StageAgrees(a)'
  BY <1>1, <1>f, <1>2, <1>t DEF Becomes, StageAgrees, PcOf, Stage, Fresh, Opened, hubVars
<1>5. HandKept(a)
  BY <1>1, <1>2, <1>t DEF HandKept, Creating
<1>6. (Running(a)' => Running(a) \/ MayRun(a, att[a].issue)) /\ (PastFind(a)' => PastFind(a))
      /\ ("found" \notin Windows => (PastFind(a) => PastFind(a)'))
  BY <1>1, <1>2, <1>t DEF Becomes, Running, PastFind, StageAgrees, PcOf, Stage
<1>7. att'[a].pr = att[a].pr
  BY <1>2 DEF Becomes
<1> QED BY <1>o, <1>f, <1>3, <1>4, <1>5, <1>6, <1>7, QuietStep

(* What a push recorded in the attempt's row is one of the commits that were made. *)
LEMMA StoreCommitKeeps == ASSUME WorkspaceInv, NEW a \in Attempt, StoreCommit(a) PROVE WorkspaceInv'
<1>t. /\ AttemptTypes /\ att[a] \in AttType /\ StageAgrees(a) /\ HandAgrees(a)
      /\ pc \in [Attempt -> Pc] /\ hand \in [Attempt -> Attempt \cup PR \cup {Nothing}]
      /\ sha \in [Attempt -> SUBSET Commit]
  BY TypesSplit DEF WorkspaceInv, StagesAgree, HandsAgree, AttemptTypes
<1>1. /\ att' = [att EXCEPT ![a].sha = sha[a], ![a].stage = IF @ = "push" THEN "wait" ELSE @,
                           ![a].status = IF att[a].stage = "push" THEN "review" ELSE @]
      /\ pc' = [pc EXCEPT ![a] = IF att[a].stage = "push" THEN "idle" ELSE "saved"]
      /\ att[a].stage = "push" \/ (att[a].stage = "publish" /\ pc[a] = "opened")
      /\ att[a].status = "running" /\ hand' = hand /\ sha' = [sha EXCEPT ![a] = {}]
  BY DEF StoreCommit, At, AtCodex, StoredAt, Running
<1>f. UNCHANGED <<gitVars, hubVars, row, links, sweepVars, made>>
  BY DEF StoreCommit
<1>o. OverlapsGrow
  BY TypesSplit DEF StoreCommit, OverlapsGrow, OverlapTypes, WorkspaceInv
<1>2. PICK s \in {"wait", "publish"}, t \in {"review", "running"} :
         /\ Becomes(a, s, t, att[a].pr, sha[a])
         /\ \/ att[a].stage = "push" /\ s = "wait" /\ t = "review" /\ pc' = [pc EXCEPT ![a] = "idle"]
            \/ /\ att[a].stage = "publish" /\ s = "publish" /\ t = "running"
               /\ pc[a] = "opened" /\ pc' = [pc EXCEPT ![a] = "saved"]
  <2>0. sha[a] \in SUBSET Commit /\ att[a].pr \in PR \cup {Nothing}
    BY <1>t DEF AttType
  <2>1. CASE att[a].stage = "push"
    <3>1. att' = [att EXCEPT ![a] = [att[a] EXCEPT !.stage = "wait", !.status = "review", !.pr = att[a].pr, !.sha = sha[a]]]
      BY <1>1, <1>t, <2>1 DEF AttemptTypes, AttType
    <3>2. Becomes(a, "wait", "review", att[a].pr, sha[a])
      BY <1>t, <2>0, <3>1, Assigned DEF Stage
    <3> QED BY <1>1, <2>1, <3>2
  <2>2. CASE att[a].stage = "publish" /\ pc[a] = "opened"
    <3>1. att' = [att EXCEPT ![a] = [att[a] EXCEPT !.stage = "publish", !.status = "running", !.pr = att[a].pr, !.sha = sha[a]]]
      BY <1>1, <1>t, <2>2 DEF AttemptTypes, AttType
    <3>2. Becomes(a, "publish", "running", att[a].pr, sha[a])
      BY <1>t, <2>0, <3>1, Assigned DEF Stage
    <3> QED BY <1>1, <2>2, <3>2
  <2> QED BY <1>1, <2>1, <2>2
<1>3. Moved(a)
  BY <1>1, <1>2, <1>t DEF Moved, Becomes, KeepsPlace, KeepsTarget, Fresh, Pc
<1>4. StageAgrees(a)'
  BY <1>1, <1>f, <1>2, <1>t DEF Becomes, StageAgrees, PcOf, Stage, Fresh, Opened, hubVars
<1>5. HandKept(a)
  BY <1>1, <1>2, <1>t DEF HandKept, Creating
<1>6. (Running(a)' => Running(a) \/ MayRun(a, att[a].issue)) /\ (PastFind(a)' => PastFind(a))
      /\ ("found" \notin Windows => (PastFind(a) => PastFind(a)'))
  BY <1>1, <1>2, <1>t DEF Becomes, Running, PastFind, StageAgrees, PcOf, Stage
<1>7. att'[a].pr = att[a].pr
  BY <1>2 DEF Becomes
<1> QED BY <1>o, <1>f, <1>3, <1>4, <1>5, <1>6, <1>7, QuietStep

(* A publish action that runs again takes the pull request of its own row. *)
LEMMA PublishAgainKeeps == ASSUME WorkspaceInv, NEW a \in Attempt, PublishAgain(a) PROVE WorkspaceInv'
<1>t. /\ AttemptTypes /\ att[a] \in AttType /\ StageAgrees(a) /\ HandAgrees(a)
      /\ pc \in [Attempt -> Pc] /\ hand \in [Attempt -> Attempt \cup PR \cup {Nothing}]
      /\ sha \in [Attempt -> SUBSET Commit]
  BY TypesSplit DEF WorkspaceInv, StagesAgree, HandsAgree, AttemptTypes
<1>1. /\ att' = [att EXCEPT ![a].stage = "wait", ![a].status = "review", ![a].pr = Max(RowsOf(a))]
      /\ att[a].status = "running" /\ att[a].stage = "publish" /\ pc[a] = "idle" /\ UNCHANGED <<pc, hand, sha>>
  BY DEF PublishAgain, At, AtCodex, StoredAt, Running
<1>f. UNCHANGED <<gitVars, hubVars, row, links, sweepVars, made>>
  BY DEF PublishAgain
<1>o. OverlapsGrow
  BY TypesSplit DEF PublishAgain, OverlapsGrow, OverlapTypes, WorkspaceInv
<1>m. PICK n \in PR : /\ n = Max(RowsOf(a)) /\ Opened(n) /\ n # Nothing
                      /\ "found" \notin Windows => prs[n].branch = Target(a)
  <2>1. RowsOf(a) \in SUBSET PR /\ RowsOf(a) # {}
    BY DEF RowsOf, PublishAgain
  <2>2. Max(RowsOf(a)) \in RowsOf(a)
    BY <2>1, MaxIsThere
  <2>3. PICK n \in PR : n = Max(RowsOf(a)) /\ row[n].attempt = a
    BY <2>2 DEF RowsOf
  <2>4. "found" \notin Windows => prs[n].branch = Target(a)
    BY <2>3 DEF WorkspaceInv, RowsAgree
  <2> QED BY <2>3, <2>4, Numbers DEF WorkspaceInv, PullRequestsAgree
<1>2. Becomes(a, "wait", "review", n, att[a].sha)
  <2>1. att' = [att EXCEPT ![a] = [att[a] EXCEPT !.stage = "wait", !.status = "review", !.pr = n, !.sha = att[a].sha]]
    BY <1>1, <1>m, <1>t DEF AttemptTypes, AttType
  <2> QED BY <1>t, <2>1, Assigned DEF Stage, AttType
<1>3. Moved(a)
  BY <1>1, <1>2, <1>t DEF Moved, Becomes, KeepsPlace, KeepsTarget, Fresh, Pc
<1>4. StageAgrees(a)'
  BY <1>1, <1>f, <1>2, <1>m, <1>t DEF Becomes, StageAgrees, PcOf, Stage, Fresh, Opened, hubVars
<1>5. HandKept(a)
  BY <1>1, <1>2, <1>t DEF HandKept, Creating
<1>6. (Running(a)' => Running(a) \/ MayRun(a, att[a].issue)) /\ (PastFind(a)' => PastFind(a))
      /\ ("found" \notin Windows => (PastFind(a) => PastFind(a)'))
  BY <1>1, <1>2, <1>t DEF Becomes, Running, PastFind, StageAgrees, PcOf, Stage
<1>7. att'[a].pr \in PR /\ Opened(att'[a].pr) /\ ("found" \notin Windows => prs[att'[a].pr].branch = Target(a))
  BY <1>2, <1>m DEF Becomes
<1> QED BY <1>o, <1>f, <1>3, <1>4, <1>5, <1>6, <1>7, QuietStep

(* A worktree that is used again is on the branch that the attempt works on. *)
LEMMA ReuseWorktreeKeeps ==
    ASSUME WorkspaceInv, NEW a \in Attempt, NEW p \in Attempt, ReuseWorktree(a, p) PROVE WorkspaceInv'
<1>t. /\ AttemptTypes /\ att[a] \in AttType /\ StageAgrees(a) /\ HandAgrees(a)
      /\ pc \in [Attempt -> Pc] /\ hand \in [Attempt -> Attempt \cup PR \cup {Nothing}]
      /\ sha \in [Attempt -> SUBSET Commit]
  BY TypesSplit DEF WorkspaceInv, StagesAgree, HandsAgree, AttemptTypes
<1>1. /\ att[a].status = "running" /\ att[a].stage = "allocate" /\ pc[a] = "idle"
      /\ att[a].head # Nothing /\ Present(p) /\ worktree[p].branch = att[a].head
      /\ pc' = [pc EXCEPT ![a] = "added"] /\ hand' = [hand EXCEPT ![a] = p] /\ UNCHANGED <<att, sha>>
  BY DEF ReuseWorktree, At, Running, WorktreesOf
<1>f. UNCHANGED <<gitVars, hubVars, row, links, sweepVars, made>>
  BY DEF ReuseWorktree
<1>o. OverlapsGrow
  BY TypesSplit DEF ReuseWorktree, OverlapsGrow, OverlapTypes, WorkspaceInv
<1>3. Moved(a)
  BY <1>1, <1>t, Numbers DEF Moved, AttemptTypes, KeepsPlace, KeepsTarget, Fresh, Pc
<1>4. StageAgrees(a)'
  BY <1>1, <1>f, <1>t DEF StageAgrees, PcOf, Fresh, Opened, hubVars
<1>5. HandAgrees(a)'
  <2>1. att[p].stage # "find" /\ worktree[p].branch = Target(p)
    BY <1>1 DEF WorkspaceInv, PlacesAgree
  <2>2. hand'[a] = p /\ pc'[a] = "added" /\ Target(p) = Target(a)
    BY <1>1, <1>t, <2>1 DEF Target
  <2> QED BY <1>1, <2>1, <2>2 DEF HandAgrees, Target
<1>6. (Running(a)' => Running(a) \/ MayRun(a, att[a].issue)) /\ (PastFind(a)' => PastFind(a))
      /\ ("found" \notin Windows => (PastFind(a) => PastFind(a)'))
  BY <1>1 DEF Running, PastFind
<1> QED BY <1>o, <1>1, <1>f, <1>3, <1>4, <1>5, <1>6, QuietStep

(***************************************************************************)
(* The steps that change rows                                              *)
(***************************************************************************)

(* A row is written for an attempt of its branch, with what GitHub says of the merge. *)
LEMMA RowStep ==
    ASSUME WorkspaceInv, NEW a \in Attempt, Moved(a), StageAgrees(a)', RowTypes',
           UNCHANGED <<gitVars, hubVars, sweepVars, made>>, OverlapsGrow,
           \A n \in PR : \/ row'[n].attempt = row[n].attempt
                         \/ /\ row'[n].attempt = a /\ Opened(n)
                            /\ "found" \notin Windows => prs[n].branch = Target(a) /\ PastFind(a),
           \A n \in PR : row'[n].merged => row[n].merged \/ prs[n].state = "merged",
           \A i \in Issue : \A n \in links'[i] : n \in links[i] \/ (n \in PR /\ Opened(n) /\ prs[n].issue = i),
           HandKept(a) \/ HandAgrees(a)',
           Running(a)' => Running(a) \/ MayRun(a, att[a].issue),
           PastFind(a)' <=> PastFind(a),
           \/ att'[a].pr = att[a].pr
           \/ att'[a].pr \in PR /\ Opened(att'[a].pr) /\ ("found" \notin Windows => prs[att'[a].pr].branch = Target(a))
    PROVE  WorkspaceInv'
<1>t. AttemptTypes /\ GitTypes /\ HubTypes /\ RowTypes /\ SweepTypes /\ made \in 0..MaxCommits
      /\ CommitsAreMade /\ PullRequestsAgree
  BY TypesSplit DEF WorkspaceInv
<1>u. UNCHANGED <<worktree, local, base, remote, trunk, prs, sweep, swept, made>>
  BY DEF gitVars, hubVars, sweepVars
<1>1. GitTypes' /\ HubTypes' /\ made' \in 0..MaxCommits
  BY <1>t, <1>u DEF GitTypes, HubTypes
<1>2. CommitsAreMade'
  BY <1>t, <1>u DEF CommitsAreMade, Made
<1>3. BranchesKept /\ \A p \in Attempt : TreeKept(p)
  BY <1>u DEF BranchesKept, TreeKept
<1>4. \A n \in PR : row'[n].merged => prs[n].state = "merged"
  BY <1>t DEF PullRequestsAgree
<1>5. \A i \in Issue : \A n \in links'[i] : n \in PR /\ Opened(n) /\ prs[n].issue = i
  BY <1>t DEF PullRequestsAgree, RowTypes
<1> QED BY <1>u, <1>1, <1>2, <1>3, <1>4, <1>5, MovedStep

(* What record_pr makes of a row. *)
LEMMA RowRecorded ==
    ASSUME RowTypes, NEW a \in Attempt, NEW n \in PR, row' = [row EXCEPT ![n] = Row(n, a)]
    PROVE  /\ row' \in [PR -> [attempt : Attempt \cup {Nothing}, merged : BOOLEAN, cleaned : BOOLEAN, error : BOOLEAN]]
           /\ row'[n].attempt = a /\ (row'[n].merged => prs[n].state = "merged")
           /\ \A m \in PR \ {n} : row'[m] = row[m]
<1>1. row[n] \in [attempt : Attempt \cup {Nothing}, merged : BOOLEAN, cleaned : BOOLEAN, error : BOOLEAN]
  BY DEF RowTypes
<1>2. /\ Row(n, a) \in [attempt : Attempt \cup {Nothing}, merged : BOOLEAN, cleaned : BOOLEAN, error : BOOLEAN]
      /\ Row(n, a).attempt = a /\ (Row(n, a).merged => prs[n].state = "merged")
  BY <1>1 DEF Row
<1> HIDE DEF Row
<1> QED BY <1>2 DEF RowTypes

(* Recording a pull request gives its row to the attempt of its branch. *)
LEMMA RecordPRKeeps == ASSUME WorkspaceInv, NEW a \in Attempt, RecordPR(a) PROVE WorkspaceInv'
<1>t. /\ AttemptTypes /\ att[a] \in AttType /\ StageAgrees(a) /\ HandAgrees(a)
      /\ pc \in [Attempt -> Pc] /\ hand \in [Attempt -> Attempt \cup PR \cup {Nothing}]
      /\ sha \in [Attempt -> SUBSET Commit]
  BY TypesSplit DEF WorkspaceInv, StagesAgree, HandsAgree, AttemptTypes
<1>1. /\ row' = [row EXCEPT ![hand[a]] = Row(hand[a], a)] /\ pc' = [pc EXCEPT ![a] = "recorded"]
      /\ att[a].status = "running" /\ att[a].stage = "publish" /\ pc[a] = "saved"
      /\ UNCHANGED <<att, hand, sha, links>>
  BY DEF RecordPR, At, Running
<1>f. UNCHANGED <<gitVars, hubVars, sweepVars, made>>
  BY DEF RecordPR
<1>o. OverlapsGrow
  BY TypesSplit DEF RecordPR, OverlapsGrow, OverlapTypes, WorkspaceInv
<1>g. prs' = prs
  BY <1>f DEF hubVars
<1>h. RowTypes
  BY TypesSplit DEF WorkspaceInv
<1>2. hand[a] \in PR /\ Opened(hand[a]) /\ prs[hand[a]].branch = Target(a)
  BY <1>1, <1>t DEF HandAgrees, StageAgrees, Target
<1>3. Moved(a)
  BY <1>1, <1>t DEF Moved, AttemptTypes, KeepsPlace, KeepsTarget, Fresh, Pc
<1>4. StageAgrees(a)'
  BY <1>1, <1>g, <1>t DEF StageAgrees, PcOf, Fresh, Opened
<1>5. HandKept(a)
  BY <1>1, <1>t DEF HandKept, Creating
<1>6. (Running(a)' => Running(a)) /\ (PastFind(a)' <=> PastFind(a)) /\ att'[a].pr = att[a].pr /\ PastFind(a)
  BY <1>1 DEF Running, PastFind
<1>7. /\ \A n \in PR : \/ row'[n].attempt = row[n].attempt
                       \/ /\ row'[n].attempt = a /\ Opened(n)
                          /\ "found" \notin Windows => prs[n].branch = Target(a) /\ PastFind(a)
      /\ \A n \in PR : row'[n].merged => row[n].merged \/ prs[n].state = "merged"
      /\ RowTypes'
  <2>1. hand[a] \in PR /\ row' = [row EXCEPT ![hand[a]] = Row(hand[a], a)]
    BY <1>1, <1>2
  <2>2. /\ row' \in [PR -> [attempt : Attempt \cup {Nothing}, merged : BOOLEAN, cleaned : BOOLEAN, error : BOOLEAN]]
        /\ row'[hand[a]].attempt = a /\ (row'[hand[a]].merged => prs[hand[a]].state = "merged")
        /\ \A m \in PR \ {hand[a]} : row'[m] = row[m]
    BY <1>h, <2>1, RowRecorded
  <2>3. RowTypes'
    BY <1>1, <1>h, <2>2 DEF RowTypes
  <2> QED BY <1>2, <1>6, <2>2, <2>3
<1>8. \A i \in Issue : \A n \in links'[i] : n \in links[i] \/ (n \in PR /\ Opened(n) /\ prs[n].issue = i)
  BY <1>1
<1> QED BY <1>o, <1>f, <1>3, <1>4, <1>5, <1>6, <1>7, <1>8, RowStep

(* A link that is recorded is to an open, closed or merged pull request of the same issue. *)
LEMMA RecordLinkKeeps == ASSUME WorkspaceInv, NEW a \in Attempt, RecordLink(a) PROVE WorkspaceInv'
<1>t. /\ AttemptTypes /\ att[a] \in AttType /\ StageAgrees(a) /\ HandAgrees(a)
      /\ pc \in [Attempt -> Pc] /\ hand \in [Attempt -> Attempt \cup PR \cup {Nothing}]
      /\ sha \in [Attempt -> SUBSET Commit]
  BY TypesSplit DEF WorkspaceInv, StagesAgree, HandsAgree, AttemptTypes
<1>1. /\ links' = [links EXCEPT ![att[a].issue] = @ \cup {hand[a]}]
      /\ att' = [att EXCEPT ![a].stage = "wait", ![a].status = "review", ![a].pr = hand[a]]
      /\ pc' = [pc EXCEPT ![a] = "idle"] /\ hand' = [hand EXCEPT ![a] = Nothing]
      /\ att[a].status = "running" /\ att[a].stage = "publish" /\ pc[a] = "recorded"
      /\ UNCHANGED <<sha, row>>
  BY DEF RecordLink, At, Running
<1>f. UNCHANGED <<gitVars, hubVars, sweepVars, made>>
  BY DEF RecordLink
<1>o. OverlapsGrow
  BY TypesSplit DEF RecordLink, OverlapsGrow, OverlapTypes, WorkspaceInv
<1>g. prs' = prs
  BY <1>f DEF hubVars
<1>h. RowTypes
  BY TypesSplit DEF WorkspaceInv
<1>2. /\ hand[a] \in PR /\ Opened(hand[a]) /\ prs[hand[a]].branch = Target(a)
      /\ att[a].issue \in Issue /\ prs[hand[a]].issue = att[a].issue
  BY <1>1, <1>t DEF HandAgrees, StageAgrees, Target, AttType
<1>b. Becomes(a, "wait", "review", hand[a], att[a].sha)
  <2>1. att' = [att EXCEPT ![a] = [att[a] EXCEPT !.stage = "wait", !.status = "review", !.pr = hand[a], !.sha = att[a].sha]]
    BY <1>1, <1>t DEF AttemptTypes, AttType
  <2> QED BY <1>t, <1>2, <2>1, Assigned DEF Stage, AttType
<1>3. Moved(a)
  BY <1>1, <1>b, <1>t DEF Moved, Becomes, KeepsPlace, KeepsTarget, Fresh, Pc
<1>4. StageAgrees(a)'
  BY <1>1, <1>2, <1>b, <1>g, <1>t, Numbers DEF Becomes, StageAgrees, PcOf, Fresh, Opened
<1>5. HandKept(a)
  BY <1>1, <1>t DEF HandKept
<1>6. (Running(a)' => Running(a)) /\ (PastFind(a)' <=> PastFind(a))
      /\ att'[a].pr \in PR /\ Opened(att'[a].pr) /\ ("found" \notin Windows => prs[att'[a].pr].branch = Target(a))
  BY <1>1, <1>2, <1>b DEF Running, PastFind, Becomes
<1>7. /\ \A n \in PR : row'[n].attempt = row[n].attempt
      /\ \A n \in PR : row'[n].merged => row[n].merged
      /\ RowTypes'
  BY <1>1, <1>2, <1>h DEF RowTypes
<1>8. \A i \in Issue : \A n \in links'[i] : n \in links[i] \/ (n \in PR /\ Opened(n) /\ prs[n].issue = i)
  BY <1>1, <1>2, <1>h DEF RowTypes
<1> QED BY <1>o, <1>f, <1>3, <1>4, <1>5, <1>6, <1>7, <1>8, RowStep

(* A check of the pull request moves its attempt to a stage that has a pull request. *)
LEMMA CheckAgainKeeps == ASSUME WorkspaceInv, NEW a \in Attempt, CheckAgain(a) PROVE WorkspaceInv'
<1>t. /\ AttemptTypes /\ att[a] \in AttType /\ StageAgrees(a) /\ HandAgrees(a)
      /\ pc \in [Attempt -> Pc] /\ hand \in [Attempt -> Attempt \cup PR \cup {Nothing}]
      /\ sha \in [Attempt -> SUBSET Commit]
  BY TypesSplit DEF WorkspaceInv, StagesAgree, HandsAgree, AttemptTypes
<1>1. /\ row' = [row EXCEPT ![att[a].pr] = Row(att[a].pr, a)]
      /\ \E s \in {"cleanup", "follow", "wait"} : Proceed(a, s)
      /\ att[a].status = "review" /\ att[a].stage = "wait"
      /\ UNCHANGED <<hand, sha, links>>
  BY DEF CheckAgain
<1>f. UNCHANGED <<gitVars, hubVars, sweepVars, made>>
  BY DEF CheckAgain
<1>o. OverlapsGrow /\ MayRun(a, att[a].issue)
  <2>1. GoesToWork(a, att[a].issue) /\ att[a].status # "none"
    BY DEF CheckAgain
  <2>2. att[a].issue \in Issue
    BY <1>t, <2>1 DEF StageAgrees, AttType
  <2> QED BY <2>1, <2>2, WorkBegins, TypesSplit DEF WorkspaceInv
<1>g. prs' = prs
  BY <1>f DEF hubVars
<1>h. RowTypes
  BY TypesSplit DEF WorkspaceInv
<1>2. /\ att[a].pr \in PR /\ Opened(att[a].pr) /\ ("found" \notin Windows => prs[att[a].pr].branch = Target(a))
  BY <1>1, <1>t DEF StageAgrees, AttType, WorkspaceInv, RowsAgree
<1>b. PICK s \in {"cleanup", "follow", "wait"}, t \in {"running", "review"} :
         Becomes(a, s, t, att[a].pr, att[a].sha) /\ pc' = [pc EXCEPT ![a] = "idle"]
  BY <1>1, <1>t, Proceeded DEF Stage
<1>3. Moved(a)
  BY <1>1, <1>b, <1>t DEF Moved, Becomes, KeepsPlace, KeepsTarget, Fresh, Pc
<1>4. StageAgrees(a)'
  BY <1>1, <1>2, <1>b, <1>g, <1>t, Numbers DEF Becomes, StageAgrees, PcOf, Fresh, Opened
<1>5. HandKept(a)
  BY <1>b, <1>t DEF HandKept
<1>6. (Running(a)' => Running(a) \/ MayRun(a, att[a].issue)) /\ (PastFind(a)' <=> PastFind(a)) /\ att'[a].pr = att[a].pr /\ PastFind(a)
  BY <1>o, <1>1, <1>b DEF Running, PastFind, Becomes
<1>7. /\ \A n \in PR : \/ row'[n].attempt = row[n].attempt
                       \/ /\ row'[n].attempt = a /\ Opened(n)
                          /\ "found" \notin Windows => prs[n].branch = Target(a) /\ PastFind(a)
      /\ \A n \in PR : row'[n].merged => row[n].merged \/ prs[n].state = "merged"
      /\ RowTypes'
  <2>1. att[a].pr \in PR /\ row' = [row EXCEPT ![att[a].pr] = Row(att[a].pr, a)]
    BY <1>1, <1>2
  <2>2. /\ row' \in [PR -> [attempt : Attempt \cup {Nothing}, merged : BOOLEAN, cleaned : BOOLEAN, error : BOOLEAN]]
        /\ row'[att[a].pr].attempt = a /\ (row'[att[a].pr].merged => prs[att[a].pr].state = "merged")
        /\ \A m \in PR \ {att[a].pr} : row'[m] = row[m]
    BY <1>h, <2>1, RowRecorded
  <2>3. RowTypes'
    BY <1>1, <1>h, <2>2 DEF RowTypes
  <2> QED BY <1>2, <1>6, <2>2, <2>3
<1>8. \A i \in Issue : \A n \in links'[i] : n \in links[i] \/ (n \in PR /\ Opened(n) /\ prs[n].issue = i)
  BY <1>1
<1> QED BY <1>o, <1>f, <1>3, <1>4, <1>5, <1>6, <1>7, <1>8, RowStep

(* The end of a cleanup marks the row of the pull request whose worktree was removed. *)
LEMMA CleanedUpKeeps == ASSUME WorkspaceInv, NEW a \in Attempt, CleanedUp(a) PROVE WorkspaceInv'
<1>t. /\ AttemptTypes /\ att[a] \in AttType /\ StageAgrees(a) /\ HandAgrees(a)
      /\ pc \in [Attempt -> Pc] /\ hand \in [Attempt -> Attempt \cup PR \cup {Nothing}]
      /\ sha \in [Attempt -> SUBSET Commit]
  BY TypesSplit DEF WorkspaceInv, StagesAgree, HandsAgree, AttemptTypes
<1>1. /\ row' = [row EXCEPT ![hand[a]].cleaned = TRUE, ![hand[a]].error = FALSE]
      /\ Proceed(a, "done") /\ hand' = [hand EXCEPT ![a] = Nothing]
      /\ att[a].status = "running" /\ att[a].stage = "cleanup" /\ pc[a] = "removed"
      /\ UNCHANGED <<sha, links>>
  BY DEF CleanedUp, At, Running
<1>f. UNCHANGED <<gitVars, hubVars, sweepVars, made>>
  BY DEF CleanedUp
<1>o. OverlapsGrow
  BY TypesSplit DEF CleanedUp, OverlapsGrow, OverlapTypes, WorkspaceInv
<1>g. prs' = prs
  BY <1>f DEF hubVars
<1>h. RowTypes
  BY TypesSplit DEF WorkspaceInv
<1>2. hand[a] \in PR
  BY <1>1, <1>t DEF HandAgrees
<1>b. Becomes(a, "done", "done", att[a].pr, att[a].sha) /\ pc' = [pc EXCEPT ![a] = "idle"]
  BY <1>1, <1>t, Proceeded DEF Stage
<1>3. Moved(a)
  BY <1>1, <1>b, <1>t DEF Moved, Becomes, KeepsPlace, KeepsTarget, Fresh, Pc
<1>4. StageAgrees(a)'
  BY <1>1, <1>2, <1>b, <1>g, <1>t, Numbers DEF Becomes, StageAgrees, PcOf, Fresh, Opened
<1>5. HandKept(a)
  BY <1>b, <1>t DEF HandKept
<1>6. (Running(a)' => Running(a)) /\ (PastFind(a)' <=> PastFind(a)) /\ att'[a].pr = att[a].pr
  BY <1>1, <1>b DEF Running, PastFind, Becomes
<1>7. /\ \A n \in PR : row'[n].attempt = row[n].attempt
      /\ \A n \in PR : row'[n].merged => row[n].merged
      /\ RowTypes'
  <2>1. row' = [row EXCEPT ![hand[a]] = [row[hand[a]] EXCEPT !.cleaned = TRUE, !.error = FALSE]]
    BY <1>1, <1>2, <1>h DEF RowTypes
  <2>2. [row[hand[a]] EXCEPT !.cleaned = TRUE, !.error = FALSE]
          \in [attempt : Attempt \cup {Nothing}, merged : BOOLEAN, cleaned : BOOLEAN, error : BOOLEAN]
    BY <1>2, <1>h DEF RowTypes
  <2> QED BY <1>1, <1>2, <1>h, <2>1, <2>2 DEF RowTypes
<1>8. \A i \in Issue : \A n \in links'[i] : n \in links[i] \/ (n \in PR /\ Opened(n) /\ prs[n].issue = i)
  BY <1>1
<1> QED BY <1>o, <1>f, <1>3, <1>4, <1>5, <1>6, <1>7, <1>8, RowStep

(***************************************************************************)
(* The steps that change the repository or GitHub's branches               *)
(***************************************************************************)

(* A step in the worktree or to the branch of an attempt. *)
LEMMA GitStep ==
    ASSUME WorkspaceInv, NEW a \in Attempt, Moved(a), StageAgrees(a)',
           GitTypes', HubTypes', made' \in 0..MaxCommits, CommitsAreMade',
           UNCHANGED <<prs, row, links, sweepVars>>, OverlapsGrow, BranchesKept, \A p \in Attempt : TreeKept(p),
           \A b \in Branch : remote'[b] = Nothing => remote[b] = Nothing,
           HandKept(a) \/ HandAgrees(a)',
           Running(a)' => Running(a), PastFind(a)' <=> PastFind(a), att'[a].pr = att[a].pr
    PROVE  WorkspaceInv'
<1>t. RowTypes /\ PullRequestsAgree
  BY TypesSplit DEF WorkspaceInv
<1>u. UNCHANGED <<row, links, sweep, swept>>
  BY DEF sweepVars
<1>1. RowTypes'
  BY <1>t, <1>u DEF RowTypes
<1>2. \A n \in PR : row'[n].merged => prs[n].state = "merged"
  BY <1>t, <1>u DEF PullRequestsAgree
<1>3. \A i \in Issue : \A n \in links'[i] : n \in PR /\ Opened(n) /\ prs[n].issue = i
  BY <1>t, <1>u DEF PullRequestsAgree, RowTypes
<1> QED BY <1>u, <1>1, <1>2, <1>3, MovedStep

(* The workspace of an attempt is a worktree on the attempt's branch, which exists. *)
LEMMA WorkspaceIsThere ==
    ASSUME WorkspaceInv, NEW a \in Attempt, HasWorkspace(a)
    PROVE  /\ att[a].path \in Attempt /\ Present(att[a].path)
           /\ worktree[att[a].path].branch = Target(a) /\ att[a].branch = Target(a)
           /\ Target(a) \in Branch /\ local[Target(a)] \in SUBSET Commit /\ local[Target(a)] # Nothing
           /\ local[Target(a)] \subseteq Made
<1>1. AttemptTypes /\ GitTypes
  BY TypesSplit DEF WorkspaceInv
<1>2. att[a].path \in Attempt /\ Present(att[a].path)
  BY <1>1 DEF HasWorkspace, AttemptTypes, AttType
<1>3. Target(a) \in Branch
  BY <1>1 DEF Target, AttemptTypes, AttType, Branch
<1>4. worktree[att[a].path].branch = Target(a) /\ att[a].branch = Target(a) /\ local[Target(a)] # Nothing
  BY <1>2 DEF HasWorkspace, WorkspaceInv, PlacesAgree
<1>5. local[Target(a)] \in SUBSET Commit /\ local[Target(a)] \subseteq Made
  BY <1>1, <1>3, <1>4 DEF GitTypes, Commits, WorkspaceInv, CommitsAreMade
<1> QED BY <1>2, <1>3, <1>4, <1>5

(* Codex makes changes in a worktree that is present, on its attempt's branch. *)
LEMMA CodexEditsKeeps == ASSUME WorkspaceInv, NEW a \in Attempt, CodexEdits(a) PROVE WorkspaceInv'
<1>t. /\ AttemptTypes /\ att[a] \in AttType /\ StageAgrees(a) /\ HandAgrees(a)
      /\ pc \in [Attempt -> Pc] /\ hand \in [Attempt -> Attempt \cup PR \cup {Nothing}]
      /\ sha \in [Attempt -> SUBSET Commit]
  BY TypesSplit DEF WorkspaceInv, StagesAgree, HandsAgree, AttemptTypes
<1>1. /\ worktree' = [worktree EXCEPT ![att[a].path].dirty = TRUE] /\ HasWorkspace(a)
      /\ UNCHANGED <<att, pc, hand, sha, local, base, remote, trunk, prs, row, links, sweepVars, made>>
  BY DEF CodexEdits, hubVars
<1>o. OverlapsGrow
  BY TypesSplit DEF CodexEdits, OverlapsGrow, OverlapTypes, WorkspaceInv
<1>g. GitTypes /\ HubTypes /\ CommitsAreMade /\ made \in 0..MaxCommits
  BY TypesSplit DEF WorkspaceInv
<1>2. att[a].path \in Attempt /\ Present(att[a].path)
  BY <1>1, WorkspaceIsThere
<1>3. Moved(a)
  BY <1>1, <1>t DEF Moved, AttemptTypes, KeepsPlace, KeepsTarget, Fresh
<1>4. StageAgrees(a)'
  BY <1>1, <1>t DEF StageAgrees, Fresh, Opened
<1>5. HandKept(a) /\ (Running(a)' => Running(a)) /\ (PastFind(a)' <=> PastFind(a)) /\ att'[a].pr = att[a].pr
  BY <1>1 DEF HandKept, Running, PastFind
<1>6. GitTypes' /\ HubTypes' /\ CommitsAreMade'
  BY <1>1, <1>g DEF GitTypes, HubTypes, CommitsAreMade, Made
<1>7. BranchesKept /\ \A p \in Attempt : TreeKept(p)
  BY <1>1, <1>2, <1>g DEF BranchesKept, TreeKept, GitTypes
<1> QED BY <1>o, <1>1, <1>g, <1>3, <1>4, <1>5, <1>6, <1>7, GitStep

(* A commit goes to the branch of the worktree it is made in, and is a commit that was made. *)
LEMMA EnsureCommitKeeps == ASSUME WorkspaceInv, NEW a \in Attempt, EnsureCommit(a) PROVE WorkspaceInv'
<1>t. /\ AttemptTypes /\ att[a] \in AttType /\ StageAgrees(a) /\ HandAgrees(a)
      /\ pc \in [Attempt -> Pc] /\ hand \in [Attempt -> Attempt \cup PR \cup {Nothing}]
      /\ sha \in [Attempt -> SUBSET Commit]
  BY TypesSplit DEF WorkspaceInv, StagesAgree, HandsAgree, AttemptTypes
<1> DEFINE p == att[a].path
           b == worktree[p].branch
           tip == IF worktree[p].dirty THEN local[b] \cup {made + 1} ELSE local[b]
<1>1. /\ local' = [local EXCEPT ![b] = tip]
      /\ made' = IF worktree[p].dirty THEN made + 1 ELSE made
      /\ worktree' = [worktree EXCEPT ![p].dirty = FALSE]
      /\ sha' = [sha EXCEPT ![a] = tip] /\ pc' = [pc EXCEPT ![a] = "committed"]
      /\ HasWorkspace(a) /\ att[a].stage \in {"publish", "push"} /\ pc[a] = "idle"
      /\ worktree[p].dirty => made < MaxCommits
  BY DEF EnsureCommit, At
<1>f. UNCHANGED <<att, hand, base, remote, trunk, prs, row, links, sweepVars>>
  BY DEF EnsureCommit, hubVars
<1>o. OverlapsGrow
  BY TypesSplit DEF EnsureCommit, OverlapsGrow, OverlapTypes, WorkspaceInv
<1>g. GitTypes /\ HubTypes /\ CommitsAreMade /\ made \in 0..MaxCommits /\ made \in Nat
  BY TypesSplit, BoundAssumption DEF WorkspaceInv
<1>2. /\ p \in Attempt /\ Present(p) /\ b = Target(a)
      /\ b \in Branch /\ local[b] \in SUBSET Commit /\ local[b] # Nothing /\ local[b] \subseteq Made
  BY <1>1, WorkspaceIsThere
<1>m. made' \in 0..MaxCommits /\ made' \in Nat /\ made =< made'
  BY <1>1, <1>g, BoundAssumption
<1>n. tip \in SUBSET Commit /\ tip \subseteq 1..made' /\ tip # Nothing
  <2>1. CASE worktree[p].dirty
    <3>1. made + 1 \in 1..MaxCommits /\ made' = made + 1 /\ tip = local[b] \cup {made + 1}
      BY <1>1, <1>g, <2>1, BoundAssumption
    <3> HIDE DEF tip
    <3>2. tip \in SUBSET Commit
      BY <1>2, <3>1 DEF Commit
    <3>3. tip \subseteq 1..made'
      BY <1>2, <1>g, <3>1 DEF Made
    <3> QED BY <3>2, <3>3, Numbers
  <2>2. CASE ~worktree[p].dirty
    BY <1>1, <1>2, <2>2 DEF Made
  <2> QED BY <2>1, <2>2
<1> HIDE DEF b, p, tip
<1>3. Moved(a)
  BY <1>1, <1>f, <1>n, <1>t DEF Moved, AttemptTypes, KeepsPlace, KeepsTarget, Fresh, Pc
<1>4. StageAgrees(a)'
  BY <1>1, <1>f, <1>t DEF StageAgrees, Fresh, Opened, PcOf
<1>5. HandKept(a) /\ (Running(a)' => Running(a)) /\ (PastFind(a)' <=> PastFind(a)) /\ att'[a].pr = att[a].pr
  BY <1>1, <1>f, <1>t DEF HandKept, Running, PastFind
<1>6. GitTypes' /\ HubTypes'
  BY <1>1, <1>2, <1>f, <1>g, <1>n DEF GitTypes, HubTypes, Commits
<1>7. CommitsAreMade'
  <2>1. \A c \in Branch : c # b => local'[c] = local[c]
    BY <1>1, <1>g DEF GitTypes
  <2>2. local'[b] = tip
    BY <1>1, <1>2, <1>g DEF GitTypes
  <2>3. Made \subseteq 1..made'
    BY <1>g, <1>m DEF Made
  <2> QED BY <2>1, <2>2, <2>3, <1>n, <1>f, <1>g DEF CommitsAreMade, Made
<1>8. BranchesKept /\ \A q \in Attempt : TreeKept(q)
  BY <1>1, <1>2, <1>f, <1>g, <1>n DEF BranchesKept, TreeKept, GitTypes
<1> QED BY <1>o, <1>f, <1>m, <1>3, <1>4, <1>5, <1>6, <1>7, <1>8, GitStep

(* A push puts the branch of the attempt on GitHub, and no attempt pushes before it has a worktree. *)
LEMMA PushBranchKeeps == ASSUME WorkspaceInv, NEW a \in Attempt, PushBranch(a) PROVE WorkspaceInv'
<1>t. /\ AttemptTypes /\ att[a] \in AttType /\ StageAgrees(a) /\ HandAgrees(a)
      /\ pc \in [Attempt -> Pc] /\ hand \in [Attempt -> Attempt \cup PR \cup {Nothing}]
      /\ sha \in [Attempt -> SUBSET Commit]
  BY TypesSplit DEF WorkspaceInv, StagesAgree, HandsAgree, AttemptTypes
<1>1. /\ remote' = [remote EXCEPT ![Target(a)] = local[Target(a)]]
      /\ pc' = [pc EXCEPT ![a] = "pushed"] /\ pc[a] = "committed" /\ HasWorkspace(a)
  BY WorkspaceIsThere DEF PushBranch
<1>f. UNCHANGED <<att, hand, sha, worktree, local, base, trunk, prs, row, links, sweepVars, made>>
  BY DEF PushBranch, gitVars
<1>o. OverlapsGrow
  BY TypesSplit DEF PushBranch, OverlapsGrow, OverlapTypes, WorkspaceInv
<1>g. GitTypes /\ HubTypes /\ CommitsAreMade /\ made \in 0..MaxCommits /\ PullRequestsAgree
  BY TypesSplit DEF WorkspaceInv
<1>2. /\ Target(a) \in Branch /\ local[Target(a)] \in SUBSET Commit /\ local[Target(a)] # Nothing
      /\ local[Target(a)] \subseteq Made
  BY <1>1, WorkspaceIsThere
<1>3. Moved(a)
  BY <1>1, <1>f, <1>t DEF Moved, AttemptTypes, KeepsPlace, KeepsTarget, Fresh, Pc
<1>4. StageAgrees(a)'
  <2>1. att[a].stage \in {"publish", "push"}
    BY <1>1, <1>t DEF StageAgrees, PcOf, AttType, Stage
  <2> QED BY <1>1, <1>f, <1>t, <2>1 DEF StageAgrees, Fresh, Opened, PcOf
<1>5. HandAgrees(a)' /\ (Running(a)' => Running(a)) /\ (PastFind(a)' <=> PastFind(a)) /\ att'[a].pr = att[a].pr
  <2>1. Target(a)' = Target(a) /\ remote'[Target(a)] # Nothing /\ pc'[a] = "pushed"
    BY <1>1, <1>2, <1>f, <1>g, <1>t DEF Target, HubTypes
  <2> QED BY <1>1, <1>f, <2>1 DEF HandAgrees, Running, PastFind
<1>6. GitTypes' /\ HubTypes' /\ CommitsAreMade'
  BY <1>1, <1>2, <1>f, <1>g DEF GitTypes, HubTypes, Commits, CommitsAreMade, Made
<1>7. BranchesKept
  <2>1. ASSUME NEW c \in Attempt, remote'[c] # Nothing PROVE remote[c] # Nothing \/ ~Fresh(c)
    <3>1. CASE c # Target(a)
      BY <1>1, <1>g, <2>1, <3>1, Numbers DEF HubTypes
    <3>2. CASE c = Target(a) /\ att[a].head = Nothing
      BY <1>1, <1>t, <3>2 DEF Target, StageAgrees, HasWorkspace
    <3>3. CASE c = Target(a) /\ att[a].head # Nothing
      BY <1>g, <3>3 DEF Target, PullRequestsAgree
    <3> QED BY <3>1, <3>2, <3>3
  <2> QED BY <1>f, <2>1 DEF BranchesKept
<1>8. \A p \in Attempt : TreeKept(p)
  BY <1>f DEF TreeKept
<1>9. \A b \in Branch : remote'[b] = Nothing => remote[b] = Nothing
  BY <1>1, <1>2, <1>g DEF HubTypes
<1> QED BY <1>o, <1>f, <1>g, <1>3, <1>4, <1>5, <1>6, <1>7, <1>8, <1>9, GitStep

(* A worktree that an attempt works in, or worked in, is not one that has just been added. *)
LEMMA PathsAreOld ==
    ASSUME WorkspaceInv, NEW a \in Attempt, NEW p \in Attempt, att[a].path = p
    PROVE  ~(Fresh(p) /\ local[p] # Nothing)
<1> SUFFICES ASSUME Fresh(p), local[p] # Nothing PROVE FALSE
  OBVIOUS
<1>1. Present(p) /\ worktree[p].branch = p /\ ~Fresh(a)
  BY Numbers DEF WorkspaceInv, BranchesAgree, StagesAgree, StageAgrees
<1>2. Target(p) = p /\ Target(a) = Target(p)
  BY <1>1, Numbers DEF WorkspaceInv, PlacesAgree
<1>3. att[a].head = p
  BY <1>1, <1>2 DEF Target
<1>4. remote[p] # Nothing
  BY <1>3, Numbers DEF WorkspaceInv, PullRequestsAgree
<1> QED BY <1>4 DEF WorkspaceInv, BranchesAgree

(* The removal of a worktree leaves the branches. *)
LEMMA RemovalKeeps ==
    ASSUME WorkspaceInv, NEW a \in Attempt, NEW p \in Attempt, NEW n, att[a].path = p, Removed(n, p)
    PROVE  GitTypes' /\ UNCHANGED <<local, base>> /\ \A q \in Attempt : TreeKept(q)
<1>1. GitTypes
  BY TypesSplit DEF WorkspaceInv
<1>2. CASE MayRemove(p)
  <2>1. worktree' = [worktree EXCEPT ![p] = [branch |-> Nothing, dirty |-> FALSE]] /\ UNCHANGED <<local, base>>
    BY <1>2 DEF Removed
  <2> QED BY <1>1, <2>1, PathsAreOld DEF GitTypes, TreeKept
<1>3. CASE ~MayRemove(p)
  BY <1>1, <1>3 DEF Removed, gitVars, GitTypes, TreeKept
<1> QED BY <1>2, <1>3

(* The cleanup at the end of an attempt removes a worktree and leaves its branch. *)
LEMMA CleanUpKeeps == ASSUME WorkspaceInv, NEW a \in Attempt, CleanUp(a) PROVE WorkspaceInv'
<1>t. /\ AttemptTypes /\ att[a] \in AttType /\ StageAgrees(a) /\ HandAgrees(a)
      /\ pc \in [Attempt -> Pc] /\ hand \in [Attempt -> Attempt \cup PR \cup {Nothing}]
      /\ sha \in [Attempt -> SUBSET Commit]
  BY TypesSplit DEF WorkspaceInv, StagesAgree, HandsAgree, AttemptTypes
<1> DEFINE n == Max(RowsOf(a))
<1>1. /\ att[a].status = "running" /\ att[a].stage = "cleanup" /\ pc[a] = "idle" /\ RowsOf(a) # {} /\ row[n].merged
      /\ Removed(n, att[a].path) /\ sha' = sha
      /\ \/ /\ row' = [row EXCEPT ![n].error = TRUE] /\ att' = [att EXCEPT ![a].status = "failed"]
            /\ UNCHANGED <<pc, hand>>
         \/ /\ pc' = [pc EXCEPT ![a] = "removed"] /\ hand' = [hand EXCEPT ![a] = n]
            /\ UNCHANGED <<att, row>>
  BY DEF CleanUp, At, Running
<1>f. UNCHANGED <<remote, trunk, prs, links, sweep, swept, made>>
  BY DEF CleanUp, hubVars, sweepVars
<1>o. OverlapsGrow
  BY TypesSplit DEF CleanUp, OverlapsGrow, OverlapTypes, WorkspaceInv
<1>g. HubTypes /\ RowTypes /\ CommitsAreMade /\ made \in 0..MaxCommits /\ PullRequestsAgree
  BY TypesSplit DEF WorkspaceInv
<1>2. n \in PR
  <2>1. RowsOf(a) \in SUBSET PR
    BY DEF RowsOf
  <2> QED BY <1>1, <2>1, MaxIsThere
<1> HIDE DEF n
<1>3. att[a].path \in Attempt
  BY <1>1, <1>t DEF StageAgrees, Fresh, AttType
<1>4. GitTypes' /\ UNCHANGED <<local, base>> /\ \A q \in Attempt : TreeKept(q)
  BY <1>1, <1>3, RemovalKeeps
<1>5. /\ Moved(a) /\ StageAgrees(a)' /\ (HandKept(a) \/ HandAgrees(a)') /\ (Running(a)' => Running(a))
      /\ (PastFind(a)' <=> PastFind(a)) /\ att'[a].pr = att[a].pr
      /\ \A m \in PR : row'[m].attempt = row[m].attempt /\ row'[m].merged = row[m].merged
      /\ RowTypes'
  <2>1. CASE /\ row' = [row EXCEPT ![n].error = TRUE] /\ att' = [att EXCEPT ![a].status = "failed"]
             /\ UNCHANGED <<pc, hand>>
    <3>1. Becomes(a, "cleanup", "failed", att[a].pr, att[a].sha)
      <4>1. att' = [att EXCEPT ![a] = [att[a] EXCEPT !.stage = "cleanup", !.status = "failed", !.pr = att[a].pr, !.sha = att[a].sha]]
        BY <1>1, <1>t, <2>1 DEF AttemptTypes, AttType
      <4> QED BY <1>t, <4>1, Assigned DEF Stage, AttType
    <3>2. Moved(a)
      BY <1>1, <2>1, <3>1, <1>t DEF Moved, Becomes, KeepsPlace, KeepsTarget, Fresh, Pc
    <3>3. StageAgrees(a)'
      BY <1>1, <1>f, <2>1, <3>1, <1>t DEF Becomes, StageAgrees, PcOf, Fresh, Opened
    <3>4. HandKept(a) /\ (Running(a)' => Running(a)) /\ (PastFind(a)' <=> PastFind(a)) /\ att'[a].pr = att[a].pr
      BY <1>1, <2>1, <3>1 DEF HandKept, Running, PastFind, Becomes
    <3>5. RowTypes' /\ \A m \in PR : row'[m].attempt = row[m].attempt /\ row'[m].merged = row[m].merged
      BY <1>2, <1>f, <1>g, <2>1 DEF RowTypes
    <3> QED BY <3>2, <3>3, <3>4, <3>5
  <2>2. CASE /\ pc' = [pc EXCEPT ![a] = "removed"] /\ hand' = [hand EXCEPT ![a] = n]
             /\ UNCHANGED <<att, row>>
    <3>2. Moved(a)
      BY <1>1, <1>2, <2>2, <1>t DEF Moved, AttemptTypes, KeepsPlace, KeepsTarget, Fresh, Pc
    <3>3. StageAgrees(a)'
      BY <1>1, <1>f, <2>2, <1>t DEF StageAgrees, PcOf, Fresh, Opened
    <3>4. HandAgrees(a)' /\ (Running(a)' => Running(a)) /\ (PastFind(a)' <=> PastFind(a)) /\ att'[a].pr = att[a].pr
      BY <1>1, <1>2, <2>2, <1>t DEF HandAgrees, Running, PastFind
    <3>5. RowTypes' /\ \A m \in PR : row'[m].attempt = row[m].attempt /\ row'[m].merged = row[m].merged
      BY <1>f, <1>g, <2>2 DEF RowTypes
    <3> QED BY <3>2, <3>3, <3>4, <3>5
  <2> QED BY <1>1, <2>1, <2>2
<1>6. HubTypes' /\ CommitsAreMade' /\ made' \in 0..MaxCommits /\ BranchesKept
  BY <1>f, <1>g, <1>4 DEF HubTypes, CommitsAreMade, Made, BranchesKept
<1>7. \A m \in PR : row'[m].merged => prs[m].state = "merged"
  BY <1>5, <1>g DEF PullRequestsAgree
<1>8. \A i \in Issue : \A m \in links'[i] : m \in PR /\ Opened(m) /\ prs[m].issue = i
  BY <1>f, <1>g DEF PullRequestsAgree, RowTypes
<1> QED BY <1>o, <1>f, <1>4, <1>5, <1>6, <1>7, <1>8, MovedStep

(***************************************************************************)
(* The steps that give an attempt its issue, its branch and its worktree,  *)
(* and its issue a pull request                                            *)
(***************************************************************************)

(* A worktree is added on the branch of its attempt, which exists from then on. *)
LEMMA AddWorktreeKeeps == ASSUME WorkspaceInv, NEW a \in Attempt, AddWorktree(a) PROVE WorkspaceInv'
<1>t. /\ AttemptTypes /\ att[a] \in AttType /\ StageAgrees(a) /\ HandAgrees(a)
      /\ pc \in [Attempt -> Pc] /\ hand \in [Attempt -> Attempt \cup PR \cup {Nothing}]
      /\ sha \in [Attempt -> SUBSET Commit]
  BY TypesSplit DEF WorkspaceInv, StagesAgree, HandsAgree, AttemptTypes
<1>v. /\ StagesAgree /\ HandsAgree /\ PlacesAgree /\ PullRequestsAgree /\ BranchesAgree
      /\ CommitsAreMade /\ SweepAgrees /\ Runs
      /\ ("found" \notin Windows => RowsAgree) /\ Newer
      /\ GitTypes /\ HubTypes /\ RowTypes /\ SweepTypes /\ OverlapTypes /\ made \in 0..MaxCommits
  BY TypesSplit DEF WorkspaceInv
<1> DEFINE ref == IF att[a].head # Nothing THEN SourceRef(Target(a))
                  ELSE IF base = Nothing THEN trunk ELSE base
<1>1. /\ att[a].status = "running" /\ att[a].stage = "allocate" /\ pc[a] = "idle" /\ ~Present(a)
      /\ ref # Nothing
      /\ base' = IF base = Nothing THEN trunk ELSE base
      /\ local' = [Cloned EXCEPT ![Target(a)] = ref]
      /\ worktree' = [worktree EXCEPT ![a] = [branch |-> Target(a), dirty |-> FALSE]]
      /\ pc' = [pc EXCEPT ![a] = "added"] /\ hand' = [hand EXCEPT ![a] = a]
  BY DEF AddWorktree, At, Running, Target
<1>f. UNCHANGED <<att, sha, remote, trunk, prs, row, links, sweep, swept, made, overlaps>>
  BY DEF AddWorktree, hubVars, sweepVars
<1>p. PRsGrow /\ PRsKept /\ (\A b \in Attempt : KeepsTarget(b)) /\ KeepsTargets
  BY <1>f DEF PRsGrow, PRsKept, Opened, KeepsTarget, KeepsTargets
<1>2. Target(a) \in Branch /\ Cloned \in [Branch -> Commits]
  BY <1>t, <1>v DEF Target, AttType, Branch, Cloned, GitTypes, HubTypes
<1>3. ref \in SUBSET Commit /\ ref \subseteq Made
  BY <1>1, <1>2, <1>v DEF SourceRef, Cloned, Commits, GitTypes, HubTypes, CommitsAreMade
<1> HIDE DEF ref
<1>4. /\ local' \in [Branch -> Commits] /\ local'[Target(a)] = ref
      /\ \A c \in Branch : c # Target(a) => local'[c] = Cloned[c]
  BY <1>1, <1>2, <1>3 DEF Commits
<1>5. AttemptTypes' /\ GitTypes' /\ HubTypes' /\ RowTypes' /\ SweepTypes' /\ OverlapTypes' /\ made' \in 0..MaxCommits
  <2>1. GitTypes'
    BY <1>1, <1>2, <1>4, <1>v DEF GitTypes, Commits, HubTypes
  <2>2. AttemptTypes'
    BY <1>1, <1>f, <1>t DEF AttemptTypes, Pc
  <2> QED BY <2>1, <2>2, <1>f, <1>v DEF HubTypes, RowTypes, SweepTypes, OverlapTypes
<1>6. StagesAgree'
  BY <1>1, <1>f, <1>t, <1>v DEF StagesAgree, StageAgrees, PcOf, Fresh, Opened
<1>7. HandsAgree'
  <2>1. HandAgrees(a)'
    BY <1>1, <1>f, <1>t DEF HandAgrees, Target
  <2>2. \A b \in Attempt \ {a} : HandKept(b)
    BY <1>1, <1>t DEF HandKept
  <2> QED BY <2>1, <2>2, <1>f, <1>p, <1>t, <1>v, HandsStay
<1>8. \A c \in Branch : local[c] # Nothing => local'[c] # Nothing
  BY <1>2, <1>3, <1>4, <1>v, Numbers DEF Cloned, BranchesAgree
<1>9. PlacesAgree'
  <2>0. \A b \in Attempt : Target(b)' = Target(b) /\ Target(b) \in Branch
    BY <1>f, <1>t DEF Target, AttemptTypes, AttType, Branch
  <2>1. ASSUME NEW b \in Attempt, att[b].path # Nothing
        PROVE  /\ att[att[b].path].stage # "find"
               /\ Target(att[b].path)' = Target(b)' /\ att[b].branch = Target(b)'
               /\ local'[Target(b)'] # Nothing
    <3>1. att[att[b].path].stage # "find" /\ Target(att[b].path) = Target(b) /\ att[b].branch = Target(b)
          /\ local[Target(b)] # Nothing
      BY <2>1, <1>v DEF PlacesAgree
    <3>2. Target(att[b].path)' = Target(att[b].path)
      BY <1>f DEF Target
    <3> QED BY <2>0, <3>1, <3>2, <1>8
  <2>2. ASSUME NEW p \in Attempt, Present(p)'
        PROVE  att[p].stage # "find" /\ worktree'[p].branch = Target(p)' /\ local'[Target(p)'] # Nothing
    <3>1. CASE p = a
      BY <1>1, <1>3, <1>4, <1>v, <2>0, <3>1, Numbers DEF GitTypes
    <3>2. CASE p # a
      <4>1. worktree'[p] = worktree[p] /\ Present(p)
        BY <1>1, <1>v, <2>2, <3>2 DEF GitTypes, Present
      <4> QED BY <4>1, <2>0, <1>8, <1>v DEF PlacesAgree
    <3> QED BY <3>1, <3>2
  <2>3. ASSUME NEW p \in Attempt, worktree'[p].dirty
        PROVE  Present(p)'
    <3>1. p # a /\ worktree'[p] = worktree[p]
      BY <1>1, <1>v, <2>3 DEF GitTypes
    <3> QED BY <2>3, <3>1, <1>v DEF PlacesAgree, Present
  <2> QED BY <1>f, <2>1, <2>2, <2>3 DEF PlacesAgree, Present
<1>10. BranchesAgree'
  <2>1. base' # Nothing
    BY <1>1, <1>v, Numbers DEF HubTypes
  <2>2. ASSUME NEW c \in Attempt, Fresh(c), local'[c] # Nothing
        PROVE  Present(c)' /\ worktree'[c].branch = c
    <3>0. remote[c] = Nothing
      BY <2>2, <1>v DEF BranchesAgree
    <3>1. CASE c = Target(a)
      <4>1. c = a
        BY <3>0, <3>1, <1>v DEF Target, PullRequestsAgree
      <4> QED BY <1>1, <1>v, <3>1, <4>1, Numbers DEF GitTypes, Present
    <3>2. CASE c # Target(a)
      <4>1. local[c] # Nothing
        BY <1>4, <2>2, <3>0, <3>2, Numbers DEF Cloned
      <4>2. Present(c) /\ worktree[c].branch = c
        BY <4>1, <2>2, <1>v DEF BranchesAgree
      <4>3. c # a
        BY <1>1, <4>2
      <4> QED BY <1>1, <1>v, <4>2, <4>3 DEF GitTypes, Present
    <3> QED BY <3>1, <3>2
  <2>3. \A c \in Attempt : remote'[c] # Nothing => ~Fresh(c)'
    BY <1>f, <1>v DEF BranchesAgree, Fresh
  <2> QED BY <2>1, <2>2, <2>3, <1>f DEF BranchesAgree, Fresh
<1>11. CommitsAreMade'
  <2>1. \A c \in Branch : local'[c] # Nothing => local'[c] \subseteq Made
    BY <1>3, <1>4, <1>v DEF Cloned, CommitsAreMade
  <2> QED BY <2>1, <1>1, <1>f, <1>v DEF CommitsAreMade, Made
<1>12. PullRequestsAgree' /\ SweepAgrees' /\ Runs'
  BY <1>f, <1>v DEF PullRequestsAgree, SweepAgrees, Runs, Opened, Running, Together
<1>13. \A b \in Attempt : PastFind(b)' <=> PastFind(b)
  BY <1>1, <1>f, <1>t DEF PastFind
<1>14. ("found" \notin Windows => RowsAgree') /\ Newer'
  BY <1>f, <1>v, <1>13 DEF RowsAgree, Newer, Target, Running, Siblings, Issued, Together
<1> QED BY <1>5, <1>6, <1>7, <1>9, <1>10, <1>11, <1>12, <1>14, TypesSplitNext DEF WorkspaceInv

(* The workspace that is recorded is the worktree the action added or found, on the branch of its attempt. *)
LEMMA RecordWorkspaceKeeps == ASSUME WorkspaceInv, NEW a \in Attempt, RecordWorkspace(a) PROVE WorkspaceInv'
<1>t. /\ AttemptTypes /\ att[a] \in AttType /\ StageAgrees(a) /\ HandAgrees(a)
      /\ pc \in [Attempt -> Pc] /\ hand \in [Attempt -> Attempt \cup PR \cup {Nothing}]
      /\ sha \in [Attempt -> SUBSET Commit]
  BY TypesSplit DEF WorkspaceInv, StagesAgree, HandsAgree, AttemptTypes
<1>v. /\ StagesAgree /\ HandsAgree /\ PlacesAgree /\ PullRequestsAgree /\ BranchesAgree
      /\ CommitsAreMade /\ SweepAgrees /\ Runs
      /\ ("found" \notin Windows => RowsAgree) /\ Newer
      /\ GitTypes /\ HubTypes /\ RowTypes /\ SweepTypes /\ OverlapTypes /\ made \in 0..MaxCommits
  BY TypesSplit DEF WorkspaceInv
<1> DEFINE b == worktree[hand[a]].branch
           r == [att[a] EXCEPT !.path = hand[a], !.branch = b, !.sha = local[b], !.stage = "setup"]
<1>1. /\ att' = [att EXCEPT ![a].path = hand[a], ![a].branch = b, ![a].sha = local[b], ![a].stage = "setup"]
      /\ pc' = [pc EXCEPT ![a] = "idle"] /\ hand' = [hand EXCEPT ![a] = Nothing] /\ sha' = sha
      /\ att[a].status = "running" /\ att[a].stage = "allocate" /\ pc[a] = "added" /\ Present(hand[a])
  BY DEF RecordWorkspace, At, Running
<1>f. UNCHANGED <<worktree, local, base, remote, trunk, prs, row, links, sweep, swept, made, overlaps>>
  BY DEF RecordWorkspace, gitVars, hubVars, sweepVars
<1>2. hand[a] \in Attempt /\ Target(hand[a]) = Target(a) /\ att[hand[a]].stage # "find"
  BY <1>1, <1>t DEF HandAgrees
<1>3. b = Target(a) /\ local[b] # Nothing /\ b \in Branch /\ local[b] \in SUBSET Commit
  <2>1. b = Target(a) /\ local[b] # Nothing
    BY <1>1, <1>2, <1>v DEF PlacesAgree
  <2>2. b \in Branch
    BY <2>1, <1>t DEF Target, AttType, Branch
  <2> QED BY <2>1, <2>2, <1>v DEF GitTypes, Commits
<1> HIDE DEF b
<1>4. /\ att' \in [Attempt -> AttType] /\ (\A c \in Attempt \ {a} : att'[c] = att[c])
      /\ att'[a].path = hand[a] /\ att'[a].branch = b /\ att'[a].stage = "setup"
      /\ att'[a].status = att[a].status /\ att'[a].issue = att[a].issue
      /\ att'[a].head = att[a].head /\ att'[a].pr = att[a].pr
  <2>1. att' = [att EXCEPT ![a] = r]
    BY <1>1, <1>t DEF AttemptTypes
  <2>2. r \in AttType
    BY <1>t, <1>2, <1>3 DEF AttType, Stage
  <2> QED BY <2>1, <2>2, <1>t DEF AttemptTypes, AttType
<1> HIDE DEF r
<1>5. AttemptTypes' /\ GitTypes' /\ HubTypes' /\ RowTypes' /\ SweepTypes' /\ OverlapTypes' /\ made' \in 0..MaxCommits
  <2>1. AttemptTypes'
    BY <1>1, <1>4, <1>t DEF AttemptTypes, Pc
  <2> QED BY <2>1, <1>f, <1>v DEF GitTypes, HubTypes, RowTypes, SweepTypes, OverlapTypes
<1>p. PRsGrow /\ PRsKept /\ KeepsTargets /\ UNCHANGED <<prs, row>>
  BY <1>f, <1>1, <1>4 DEF PRsGrow, PRsKept, Opened, KeepsTargets, KeepsTarget
<1>6. StagesAgree'
  BY <1>1, <1>2, <1>4, <1>f, <1>t, <1>v, Numbers DEF StagesAgree, StageAgrees, PcOf, Fresh, Opened
<1>7. HandsAgree'
  BY <1>1, <1>f, <1>p, <1>t, <1>v, HandsStay DEF HandKept
<1>8. PlacesAgree'
  <2>1. ASSUME NEW c \in Attempt, att'[c].path # Nothing
        PROVE  /\ att'[att'[c].path].stage # "find"
               /\ Target(att[c].path)' = Target(c)' /\ att'[c].branch = Target(c)'
               /\ local'[Target(c)'] # Nothing
    <3>1. CASE c = a
      <4>1. att'[hand[a]].stage # "find"
        BY <1>2, <1>4
      <4>2. PICK p \in Attempt : p = att'[c].path /\ p = hand[a]
        BY <1>2, <1>4, <3>1
      <4>3. Target(p)' = Target(a)' /\ Target(a)' = b
        BY <1>2, <1>3, <1>p, <4>2, TargetsStay
      <4>4. Target(att[c].path)' = Target(p)'
        BY <4>2 DEF Target
      <4> QED BY <1>3, <1>4, <1>f, <3>1, <4>1, <4>2, <4>3, <4>4
    <3>2. CASE c # a
      <4>1. PICK p \in Attempt : p = att'[c].path /\ p = att[c].path /\ att'[c] = att[c]
        BY <1>4, <1>t, <2>1, <3>2 DEF AttemptTypes, AttType
      <4>2. Target(p)' = Target(p) /\ Target(c)' = Target(c) /\ (att[p].stage # "find" => att'[p].stage # "find")
        BY <1>p, TargetsStay DEF KeepsTargets, KeepsTarget
      <4>3. att[p].stage # "find" /\ Target(p) = Target(c) /\ att[c].branch = Target(c) /\ local[Target(c)] # Nothing
        BY <4>1, <1>v, Numbers DEF PlacesAgree
      <4>4. Target(att[c].path)' = Target(p)'
        BY <4>1 DEF Target
      <4> QED BY <4>1, <4>2, <4>3, <4>4, <1>f
    <3> QED BY <3>1, <3>2
  <2>2. ASSUME NEW p \in Attempt, Present(p)'
        PROVE  att'[p].stage # "find" /\ worktree'[p].branch = Target(p)' /\ local'[Target(p)'] # Nothing
    BY <2>2, <1>4, <1>f, <1>p, <1>v, TargetsStay DEF PlacesAgree, Present, KeepsTargets, KeepsTarget
  <2>3. \A p \in Attempt : worktree'[p].dirty => Present(p)'
    BY <1>f, <1>v DEF PlacesAgree, Present
  <2> QED BY <2>1, <2>2, <2>3 DEF PlacesAgree
<1>9. BranchesAgree'
  <2>1. \A c \in Attempt : Fresh(c)' => Fresh(c)
    BY <1>4, <1>1 DEF Fresh
  <2> QED BY <2>1, <1>f, <1>v DEF BranchesAgree, Present
<1>10. SweepAgrees'
  <2>1. \A c \in Attempt : att[c].path # Nothing => att'[c].path = att[c].path
    BY <1>1, <1>4, <1>t DEF StageAgrees, Fresh
  <2>2. \A q \in sweep : q.path # Nothing
    BY <1>v, Numbers DEF SweepTypes
  <2> QED BY <2>1, <2>2, <1>f, <1>v DEF SweepAgrees
<1>11. CommitsAreMade'
  BY <1>f, <1>v DEF CommitsAreMade, Made
<1>12. PullRequestsAgree'
  <2>1. /\ \A n \in PR : row'[n].attempt # Nothing => Opened(n)
        /\ \A n \in PR : row'[n].merged => prs'[n].state = "merged"
    BY <1>f, <1>v DEF PullRequestsAgree
  <2>2. \A i \in Issue : \A n \in links'[i] : Opened(n) /\ n \in PR /\ prs[n].issue = i
    BY <1>f, <1>v DEF PullRequestsAgree, RowTypes
  <2>3. \A c \in Branch : remote'[c] = Nothing => remote[c] = Nothing
    BY <1>f
  <2> QED BY <2>1, <2>2, <2>3, <1>p, <1>t, <1>v, PullRequestsStay
<1>13. \A c \in Attempt : (PastFind(c)' <=> PastFind(c)) /\ (Running(c)' <=> Running(c)) /\ att'[c].pr = att[c].pr
  BY <1>1, <1>4, <1>t DEF PastFind, Running
<1>g. OverlapsGrow
  BY <1>f, <1>v DEF OverlapsGrow, OverlapTypes
<1>14. Runs'
  BY <1>g, <1>13, <1>p, <1>t, <1>v, RunsStay
<1>15. "found" \notin Windows => RowsAgree'
  BY <1>13, <1>f, <1>p, <1>t, <1>v, RowsStay
<1>16. Newer'
  BY <1>g, <1>13, <1>p, <1>t, <1>v, NewerStays
<1> QED BY <1>5, <1>6, <1>7, <1>8, <1>9, <1>10, <1>11, <1>12, <1>14, <1>15, <1>16, TypesSplitNext DEF WorkspaceInv

(* An attempt that starts on an issue has no worktree, branch, pull request or row yet. *)
LEMMA StartKeeps == ASSUME WorkspaceInv, NEW a \in Attempt, NEW i \in Issue, Start(a, i) PROVE WorkspaceInv'
<1>t. /\ AttemptTypes /\ att[a] \in AttType /\ StageAgrees(a) /\ HandAgrees(a)
      /\ pc \in [Attempt -> Pc] /\ hand \in [Attempt -> Attempt \cup PR \cup {Nothing}]
      /\ sha \in [Attempt -> SUBSET Commit]
  BY TypesSplit DEF WorkspaceInv, StagesAgree, HandsAgree, AttemptTypes
<1>v. /\ StagesAgree /\ HandsAgree /\ PlacesAgree /\ PullRequestsAgree /\ BranchesAgree
      /\ CommitsAreMade /\ SweepAgrees /\ Runs
      /\ ("found" \notin Windows => RowsAgree) /\ Newer
      /\ GitTypes /\ HubTypes /\ RowTypes /\ SweepTypes /\ OverlapTypes /\ made \in 0..MaxCommits
  BY TypesSplit DEF WorkspaceInv
<1> DEFINE r == [att[a] EXCEPT !.issue = i, !.status = "running"]
<1>1. /\ \A b \in Attempt : att[b].status = "none" <=> b >= a
      /\ att' = [att EXCEPT ![a].issue = i, ![a].status = "running"]
      /\ UNCHANGED <<pc, hand, sha>>
  BY DEF Start
<1>g. OverlapsGrow /\ MayRun(a, i)
  BY <1>v, WorkBegins DEF Start
<1>f. UNCHANGED <<worktree, local, base, remote, trunk, prs, row, links, sweep, swept, made>>
  BY DEF Start, gitVars, hubVars, sweepVars
<1>2. att[a].status = "none" /\ att[a].issue = Nothing /\ att[a].stage = "find" /\ pc[a] = "idle" /\ ~PastFind(a)
  <2>1. a >= a
    BY AttemptAssumption
  <2>2. att[a].status = "none"
    BY <1>1, <2>1
  <2> QED BY <2>2, <1>t DEF StageAgrees, PastFind
<1>3. remote[a] = Nothing /\ \A n \in PR : prs[n].branch # a
  <2>1. remote[a] = Nothing
    BY <1>2, <1>v DEF BranchesAgree, Fresh
  <2> QED BY <2>1, <1>v, Numbers DEF PullRequestsAgree
<1>4. att[a].head = Nothing
  BY <1>2, <1>t, <1>v, Numbers DEF PullRequestsAgree, AttType
<1>5. /\ att' \in [Attempt -> AttType] /\ (\A c \in Attempt \ {a} : att'[c] = att[c])
      /\ att'[a].issue = i /\ att'[a].status = "running" /\ att'[a].stage = att[a].stage
      /\ att'[a].path = att[a].path /\ att'[a].branch = att[a].branch
      /\ att'[a].head = att[a].head /\ att'[a].pr = att[a].pr
  <2>1. att' = [att EXCEPT ![a] = r]
    BY <1>1, <1>t DEF AttemptTypes
  <2>2. r \in AttType
    BY <1>t DEF AttType
  <2> QED BY <2>1, <2>2, <1>t DEF AttemptTypes, AttType
<1> HIDE DEF r
<1>6. AttemptTypes' /\ GitTypes' /\ HubTypes' /\ RowTypes' /\ SweepTypes' /\ OverlapTypes' /\ made' \in 0..MaxCommits
  <2>1. AttemptTypes'
    BY <1>1, <1>5, <1>t DEF AttemptTypes
  <2> QED BY <2>1, <1>f, <1>g, <1>v DEF GitTypes, HubTypes, RowTypes, SweepTypes, OverlapsGrow
<1>7. \A c \in Attempt : /\ Target(c)' = Target(c) /\ att'[c].stage = att[c].stage /\ att'[c].path = att[c].path
                         /\ att'[c].branch = att[c].branch /\ att'[c].head = att[c].head /\ att'[c].pr = att[c].pr
                         /\ (Fresh(c)' <=> Fresh(c)) /\ (PastFind(c)' <=> PastFind(c))
                         /\ (c # a => att'[c].issue = att[c].issue /\ (Running(c)' <=> Running(c)))
  BY <1>1, <1>5 DEF Target, Fresh, PastFind, Running
<1>8. StagesAgree'
  <2>1. \A c \in Attempt \ {a} : StageAgrees(c)'
    BY <1>1, <1>5, <1>f, <1>v DEF StagesAgree, StageAgrees, Fresh, Opened
  <2>2. StageAgrees(a)'
    BY <1>1, <1>2, <1>5, <1>f, <1>t, Numbers DEF StageAgrees, Fresh, Opened
  <2> QED BY <2>1, <2>2 DEF StagesAgree
<1>9. HandsAgree'
  <2>1. ASSUME NEW c \in Attempt PROVE HandAgrees(c)'
    <3>1. CASE c = a
      BY <1>1, <1>2, <3>1 DEF HandAgrees
    <3>2. CASE c # a /\ pc[c] = "added"
      <4>1. hand[c] \in Attempt /\ Target(hand[c]) = Target(c) /\ att[hand[c]].stage # "find"
        BY <3>2, <1>v DEF HandsAgree, HandAgrees
      <4>2. Target(hand[c])' = Target(hand[c])
        BY <1>1, <1>7, <4>1
      <4> QED BY <1>1, <1>7, <3>2, <4>1, <4>2 DEF HandAgrees
    <3>3. CASE c # a /\ pc[c] # "added"
      <4>1. HandAgrees(c) /\ hand'[c] = hand[c] /\ pc'[c] = pc[c] /\ Target(c)' = Target(c)
            /\ att'[c].issue = att[c].issue /\ UNCHANGED <<prs, remote>>
        BY <1>1, <1>7, <1>f, <1>v, <3>3 DEF HandsAgree
      <4> QED BY <3>3, <4>1 DEF HandAgrees, Opened
    <3> QED BY <3>1, <3>2, <3>3
  <2> QED BY <2>1 DEF HandsAgree
<1>10. PlacesAgree' /\ BranchesAgree' /\ SweepAgrees'
  <2>1. ASSUME NEW c \in Attempt, att'[c].path # Nothing
        PROVE  /\ att'[att'[c].path].stage # "find"
               /\ Target(att[c].path)' = Target(c)' /\ att'[c].branch = Target(c)'
               /\ local'[Target(c)'] # Nothing
    <3>1. PICK p \in Attempt : p = att'[c].path /\ p = att[c].path
      BY <1>7, <1>t, <2>1 DEF AttemptTypes, AttType
    <3>2. att[p].stage # "find" /\ Target(p) = Target(c) /\ att[c].branch = Target(c) /\ local[Target(c)] # Nothing
      BY <3>1, <1>v, Numbers DEF PlacesAgree
    <3>3. Target(att[c].path)' = Target(p)'
      BY <3>1 DEF Target
    <3> QED BY <1>7, <1>f, <3>1, <3>2, <3>3
  <2>2. PlacesAgree'
    BY <2>1, <1>7, <1>f, <1>v DEF PlacesAgree, Present
  <2>3. BranchesAgree' /\ SweepAgrees'
    BY <1>7, <1>f, <1>v DEF BranchesAgree, Present, SweepAgrees
  <2> QED BY <2>2, <2>3
<1>11. CommitsAreMade'
  BY <1>f, <1>v DEF CommitsAreMade, Made
<1>12. PullRequestsAgree'
  <2>1. \A n \in PR : prs[n].branch \in Attempt => prs[n].issue = att'[prs[n].branch].issue
    BY <1>3, <1>7, <1>v DEF PullRequestsAgree
  <2>2. \A c \in Attempt : att'[c].head # Nothing =>
           \E n \in PR : Opened(n) /\ prs[n].branch = att'[c].head /\ prs[n].issue = att'[c].issue
    BY <1>4, <1>7, <1>v DEF PullRequestsAgree
  <2> QED BY <2>1, <2>2, <1>f, <1>v DEF PullRequestsAgree, Opened
<1>13. Runs'
  <2> SUFFICES ASSUME NEW c \in Attempt, NEW d \in Attempt, c # d, Running(c)', Running(d)',
                      att'[c].issue = att'[d].issue
               PROVE  overlaps'[att'[c].issue] > 0
    BY DEF Runs, Running, Together
  <2>1. CASE c # a /\ d # a
    BY <1>7, <1>g, <1>t, <1>v, <2>1, RunnersHaveIssues DEF Runs, Together, OverlapsGrow, Running
  <2>2. CASE c = a
    BY <1>5, <1>7, <1>g, <2>2 DEF MayRun, Issued
  <2>3. CASE d = a
    BY <1>5, <1>7, <1>g, <2>3 DEF MayRun, Issued
  <2> QED BY <2>1, <2>2, <2>3
<1>14. "found" \notin Windows => RowsAgree'
  <2>1. \A q \in sweep' : Target(q.path)' = Target(q.path)
    BY <1>7, <1>f, <1>v DEF SweepTypes
  <2> QED BY <2>1, <1>7, <1>f, <1>v DEF RowsAgree
<1>15. Newer'
  <2>1. ASSUME NEW c \in Attempt, Running(c)', ~(overlaps'[att'[c].issue] > 0), NEW d \in Siblings(c)' PROVE d < c
    <3>1. d \in Attempt /\ d # c /\ att'[d].issue = att'[c].issue
      BY DEF Siblings, Issued
    <3>2. CASE c = a
      <4>1. att[d].issue = i
        BY <1>5, <1>7, <3>1, <3>2
      <4>2. att[d].status # "none"
        BY <4>1, <3>1, <1>v, Numbers DEF StagesAgree, StageAgrees
      <4> QED BY <1>1, <3>1, <3>2, <4>2, AttemptAssumption
    <3>3. CASE c # a
      <4>1. Running(c) /\ att[c].issue # i
        BY <1>7, <1>g, <2>1, <3>3 DEF MayRun, Issued
      <4>2. d # a /\ d \in Siblings(c)
        BY <1>5, <1>7, <3>1, <3>3, <4>1 DEF Siblings, Issued
      <4>3. ~(overlaps[att[c].issue] > 0)
        BY <1>7, <1>g, <1>t, <1>v, <2>1, <3>3, <4>1, RunnersHaveIssues DEF OverlapsGrow, Running
      <4> QED BY <1>v, <4>1, <4>2, <4>3 DEF Newer, Together
    <3> QED BY <3>2, <3>3
  <2>2. ASSUME NEW m \in PR, NEW c \in Attempt, prs[m].ours, prs[m].state = "open", prs[m].issue = att'[c].issue,
               ~(overlaps'[att'[c].issue] > 0), prs[m].branch # c, PastFind(c)', att'[c].head = Nothing
        PROVE  prs[m].branch > c
    <3>1. c # a
      BY <1>2, <1>7, <2>2
    <3>2. att[c].issue \in Issue
      BY <1>7, <1>v, <2>2, <3>1 DEF PullRequestsAgree, Opened
    <3> QED BY <1>7, <1>g, <1>v, <2>2, <3>1, <3>2 DEF Newer, Together, OverlapsGrow
  <2> QED BY <2>1, <2>2, <1>f DEF Newer, Together
<1> QED BY <1>6, <1>8, <1>9, <1>10, <1>11, <1>12, <1>13, <1>14, <1>15, TypesSplitNext DEF WorkspaceInv

(* A pull request that is found is one of the issue: the attempt goes on with its branch. *)
LEMMA FindPullRequestsKeeps == ASSUME WorkspaceInv, NEW a \in Attempt, FindPullRequests(a) PROVE WorkspaceInv'
<1>t. /\ AttemptTypes /\ att[a] \in AttType /\ StageAgrees(a) /\ HandAgrees(a)
      /\ pc \in [Attempt -> Pc] /\ hand \in [Attempt -> Attempt \cup PR \cup {Nothing}]
      /\ sha \in [Attempt -> SUBSET Commit]
  BY TypesSplit DEF WorkspaceInv, StagesAgree, HandsAgree, AttemptTypes
<1>v. /\ StagesAgree /\ HandsAgree /\ PlacesAgree /\ PullRequestsAgree /\ BranchesAgree
      /\ CommitsAreMade /\ SweepAgrees /\ Runs
      /\ ("found" \notin Windows => RowsAgree) /\ Newer
      /\ GitTypes /\ HubTypes /\ RowTypes /\ SweepTypes /\ OverlapTypes /\ made \in 0..MaxCommits
  BY TypesSplit DEF WorkspaceInv
<1> DEFINE found == KnownPRs(att[a].issue)
           primary == Max(found)
<1>1. /\ att[a].status = "running" /\ att[a].stage = "find" /\ pc[a] = "idle"
      /\ links' = [links EXCEPT ![att[a].issue] = found] /\ pc' = [pc EXCEPT ![a] = "found"]
      /\ UNCHANGED <<hand, sha>>
      /\ \/ found = {} /\ att' = [att EXCEPT ![a].pr = Nothing, ![a].head = Nothing] /\ row' = row
         \/ /\ found # {} /\ att' = [att EXCEPT ![a].pr = primary, ![a].head = prs[primary].branch]
            /\ row' = [row EXCEPT ![primary] = Row(primary, a)]
  BY DEF FindPullRequests, At, Running
<1>f. UNCHANGED <<worktree, local, base, remote, trunk, prs, sweep, swept, made, overlaps>>
  BY DEF FindPullRequests, gitVars, hubVars, sweepVars
<1>i. att[a].issue \in Issue
  BY <1>1, <1>t DEF StageAgrees, AttType
<1>2. found \in SUBSET PR /\ \A n \in found : Opened(n) /\ prs[n].issue = att[a].issue
  BY <1>i, <1>v DEF KnownPRs, PullRequestsAgree, RowTypes, Opened
<1>3. found # {} => primary \in found
  BY <1>2, MaxIsThere
<1>4. /\ found # {} => /\ primary \in PR /\ Opened(primary) /\ prs[primary].issue = att[a].issue
                       /\ prs[primary].branch \in Branch
  BY <1>2, <1>3, <1>v DEF PullRequestsAgree
<1> HIDE DEF found, primary
<1>5. PICK n \in PR \cup {Nothing}, h \in Branch \cup {Nothing} :
        /\ att' = [att EXCEPT ![a].pr = n, ![a].head = h]
        /\ \/ found = {} /\ n = Nothing /\ h = Nothing /\ row' = row
           \/ found # {} /\ n = primary /\ n # Nothing /\ h # Nothing /\ h = prs[n].branch /\ row' = [row EXCEPT ![n] = Row(n, a)]
  BY <1>1, <1>4, Numbers
<1> DEFINE r == [att[a] EXCEPT !.pr = n, !.head = h]
<1>6. /\ att' \in [Attempt -> AttType] /\ (\A c \in Attempt \ {a} : att'[c] = att[c])
      /\ att'[a].pr = n /\ att'[a].head = h /\ att'[a].issue = att[a].issue
      /\ att'[a].status = att[a].status /\ att'[a].stage = att[a].stage
      /\ att'[a].path = att[a].path /\ att'[a].branch = att[a].branch
  <2>1. att' = [att EXCEPT ![a] = r]
    BY <1>5, <1>t DEF AttemptTypes
  <2>2. r \in AttType
    BY <1>t DEF AttType
  <2> QED BY <2>1, <2>2, <1>t DEF AttemptTypes, AttType
<1> HIDE DEF r
<1>r. /\ RowTypes' /\ (\A m \in PR : row'[m].attempt = row[m].attempt \/ (m = n /\ row'[m].attempt = a))
      /\ \A m \in PR : row'[m].merged => prs[m].state = "merged"
  <2>1. links' \in [Issue -> SUBSET PR]
    BY <1>1, <1>2, <1>i, <1>v DEF RowTypes
  <2>2. CASE row' = row
    BY <2>1, <2>2, <1>v DEF RowTypes, PullRequestsAgree
  <2>3. CASE n \in PR /\ row' = [row EXCEPT ![n] = Row(n, a)]
    <3>1. /\ row' \in [PR -> [attempt : Attempt \cup {Nothing}, merged : BOOLEAN, cleaned : BOOLEAN, error : BOOLEAN]]
          /\ row'[n].attempt = a /\ (row'[n].merged => prs[n].state = "merged")
          /\ \A m \in PR \ {n} : row'[m] = row[m]
      BY <2>3, <1>v, RowRecorded
    <3>2. \A m \in PR : row'[m].merged => prs[m].state = "merged"
      BY <3>1, <1>v DEF PullRequestsAgree
    <3> QED BY <2>1, <3>1, <3>2 DEF RowTypes
  <2> QED BY <1>5, <2>2, <2>3
<1>7. AttemptTypes' /\ GitTypes' /\ HubTypes' /\ RowTypes' /\ SweepTypes' /\ OverlapTypes' /\ made' \in 0..MaxCommits
  <2>1. AttemptTypes'
    BY <1>1, <1>6, <1>t DEF AttemptTypes, Pc
  <2> QED BY <2>1, <1>r, <1>f, <1>v DEF GitTypes, HubTypes, SweepTypes, OverlapTypes
<1>8. \A c \in Attempt : /\ att'[c].stage = att[c].stage /\ att'[c].path = att[c].path /\ att'[c].issue = att[c].issue
                         /\ att'[c].branch = att[c].branch /\ (Fresh(c)' <=> Fresh(c)) /\ (Running(c)' <=> Running(c))
                         /\ (c # a => /\ att'[c] = att[c] /\ Target(c)' = Target(c) /\ (PastFind(c)' <=> PastFind(c)))
  BY <1>1, <1>6, <1>t DEF Target, Fresh, PastFind, Running
<1>9. ~PastFind(a) /\ (n # Nothing => Target(a)' = prs[n].branch)
  BY <1>1, <1>5, <1>6 DEF PastFind, Target
<1>10. StagesAgree'
  <2>1. \A c \in Attempt \ {a} : StageAgrees(c)'
    BY <1>1, <1>6, <1>f, <1>v DEF StagesAgree, StageAgrees, Fresh, Opened
  <2>2. StageAgrees(a)'
    BY <1>1, <1>4, <1>5, <1>6, <1>f, <1>t, Numbers DEF StageAgrees, Fresh, Opened, PcOf
  <2> QED BY <2>1, <2>2 DEF StagesAgree
<1>11. HandsAgree'
  <2>1. ASSUME NEW c \in Attempt PROVE HandAgrees(c)'
    <3>1. CASE c = a
      BY <1>1, <1>t, <3>1 DEF HandAgrees
    <3>2. CASE c # a /\ pc[c] = "added"
      <4>1. hand[c] \in Attempt /\ Target(hand[c]) = Target(c) /\ att[hand[c]].stage # "find" /\ hand[c] # a
        BY <1>1, <3>2, <1>v DEF HandsAgree, HandAgrees
      <4>2. Target(hand[c])' = Target(hand[c])
        BY <1>1, <1>8, <4>1
      <4> QED BY <1>1, <1>8, <3>2, <4>1, <4>2 DEF HandAgrees
    <3>3. CASE c # a /\ pc[c] # "added"
      BY <1>1, <1>8, <1>f, <1>v, <1>t, <3>3 DEF HandsAgree, HandAgrees, Opened
    <3> QED BY <3>1, <3>2, <3>3
  <2> QED BY <2>1 DEF HandsAgree
<1>12. PlacesAgree' /\ BranchesAgree' /\ SweepAgrees'
  <2>0. att[a].path = Nothing
    BY <1>1, <1>t DEF StageAgrees, Fresh
  <2>1. ASSUME NEW c \in Attempt, att'[c].path # Nothing
        PROVE  /\ att'[att'[c].path].stage # "find"
               /\ Target(att[c].path)' = Target(c)' /\ att'[c].branch = Target(c)'
               /\ local'[Target(c)'] # Nothing
    <3>1. PICK p \in Attempt : p = att'[c].path /\ p = att[c].path
      BY <1>8, <1>t, <2>1 DEF AttemptTypes, AttType
    <3>2. att[p].stage # "find" /\ Target(p) = Target(c) /\ att[c].branch = Target(c) /\ local[Target(c)] # Nothing
      BY <3>1, <1>v, Numbers DEF PlacesAgree
    <3>3. p # a /\ c # a
      BY <1>1, <2>0, <3>1, <3>2, Numbers
    <3>4. Target(att[c].path)' = Target(p)'
      BY <3>1 DEF Target
    <3> QED BY <1>8, <1>f, <3>1, <3>2, <3>3, <3>4
  <2>2. ASSUME NEW p \in Attempt, Present(p)'
        PROVE  att'[p].stage # "find" /\ worktree'[p].branch = Target(p)' /\ local'[Target(p)'] # Nothing
    <3>1. Present(p) /\ att[p].stage # "find" /\ worktree[p].branch = Target(p) /\ local[Target(p)] # Nothing
      BY <2>2, <1>f, <1>v DEF PlacesAgree, Present
    <3>2. p # a
      BY <1>1, <3>1
    <3> QED BY <1>8, <1>f, <3>1, <3>2
  <2>3. \A p \in Attempt : worktree'[p].dirty => Present(p)'
    BY <1>f, <1>v DEF PlacesAgree, Present
  <2>4. PlacesAgree'
    BY <2>1, <2>2, <2>3 DEF PlacesAgree
  <2>5. BranchesAgree' /\ SweepAgrees'
    BY <1>8, <1>f, <1>v DEF BranchesAgree, Present, SweepAgrees
  <2> QED BY <2>4, <2>5
<1>13. CommitsAreMade'
  BY <1>f, <1>v DEF CommitsAreMade, Made
<1>14. PullRequestsAgree'
  <2>1. \A m \in PR : prs[m].branch \in Attempt => prs[m].issue = att'[prs[m].branch].issue
    BY <1>8, <1>v DEF PullRequestsAgree
  <2>2. \A c \in Attempt : att'[c].head # Nothing =>
           \E m \in PR : Opened(m) /\ prs[m].branch = att'[c].head /\ prs[m].issue = att'[c].issue
    <3>1. \A c \in Attempt \ {a} : att'[c].head # Nothing =>
           \E m \in PR : Opened(m) /\ prs[m].branch = att'[c].head /\ prs[m].issue = att'[c].issue
      BY <1>8, <1>v DEF PullRequestsAgree
    <3>2. att'[a].head # Nothing => /\ n \in PR /\ Opened(n) /\ prs[n].branch = att'[a].head /\ prs[n].issue = att'[a].issue
      BY <1>4, <1>5, <1>6
    <3> QED BY <3>1, <3>2
  <2>3. \A i \in Issue : \A m \in links'[i] : Opened(m) /\ prs[m].issue = i
    BY <1>1, <1>2, <1>i, <1>v DEF PullRequestsAgree, RowTypes
  <2>4. \A m \in PR : row'[m].attempt # Nothing => Opened(m)
    BY <1>4, <1>5, <1>r, <1>v DEF PullRequestsAgree
  <2> QED BY <2>1, <2>2, <2>3, <2>4, <1>f, <1>r, <1>v DEF PullRequestsAgree, Opened
<1>15. Runs'
  BY <1>8, <1>f, <1>v DEF Runs, Together
<1>16. ASSUME "found" \notin Windows PROVE RowsAgree'
  <2>0. RowsAgree
    BY <1>16, <1>v
  <2>1. \A m \in PR, c \in Attempt : row'[m].attempt = c => prs'[m].branch = Target(c)' /\ PastFind(c)'
    <3> SUFFICES ASSUME NEW m \in PR, NEW c \in Attempt, row'[m].attempt = c
                 PROVE  prs'[m].branch = Target(c)' /\ PastFind(c)'
      OBVIOUS
    <3>1. CASE row[m].attempt = c
      <4>1. c # a
        BY <2>0, <3>1, <1>9 DEF RowsAgree
      <4> QED BY <2>0, <3>1, <4>1, <1>8, <1>f DEF RowsAgree
    <3>2. CASE row[m].attempt # c
      <4>1. m = n /\ c = a
        BY <1>r, <3>2
      <4>2. pc'[a] = "found"
        BY <1>1, <1>t
      <4> QED BY <1>9, <1>f, <4>1, <4>2, Numbers DEF PastFind
    <3> QED BY <3>1, <3>2
  <2>2. \A c \in Attempt : att'[c].pr # Nothing => prs'[att'[c].pr].branch = Target(c)'
    BY <1>6, <1>8, <1>9, <1>f, <2>0 DEF RowsAgree
  <2>3. \A q \in sweep' : prs'[q.pr].branch = Target(q.path)'
    <3> SUFFICES ASSUME NEW q \in sweep PROVE prs[q.pr].branch = Target(q.path)'
      BY <1>f
    <3>1. q.path \in Attempt /\ att[q.path].stage # "find"
      <4>1. q.path \in Attempt
        BY <1>v DEF SweepTypes
      <4>2. PICK c \in Attempt : att[c].path = q.path
        BY <1>v DEF SweepAgrees
      <4> QED BY <4>1, <4>2, <1>v, Numbers DEF PlacesAgree
    <3>2. q.path # a
      BY <1>1, <3>1
    <3> QED BY <3>1, <3>2, <1>8, <2>0 DEF RowsAgree
  <2> QED BY <2>1, <2>2, <2>3 DEF RowsAgree
<1>17. Newer'
  <2>1. \A c \in Attempt : Running(c)' /\ ~Together(att[c].issue) => \A d \in Siblings(c)' : d < c
    BY <1>8, <1>v DEF Newer, Siblings, Issued
  <2>2. ASSUME NEW m \in PR, NEW c \in Attempt, prs[m].ours, prs[m].state = "open", prs[m].issue = att'[c].issue,
               ~Together(att[c].issue), prs[m].branch # c, PastFind(c)', att'[c].head = Nothing
        PROVE  prs[m].branch > c
    <3>1. CASE c = a
      <4>1. m \in found
        BY <1>8, <2>2, <3>1 DEF found, KnownPRs
      <4> QED BY <4>1, <1>5, <1>6, <2>2, <3>1
    <3>2. CASE c # a
      BY <1>8, <1>v, <2>2, <3>2 DEF Newer
    <3> QED BY <3>1, <3>2
  <2> QED BY <2>1, <2>2, <1>8, <1>f DEF Newer, Together
<1> QED BY <1>7, <1>10, <1>11, <1>12, <1>13, <1>14, <1>15, <1>16, <1>17, TypesSplitNext DEF WorkspaceInv

(* A pull request that is created is on the branch of its attempt, and of its issue. *)
LEMMA CreatePullRequestKeeps == ASSUME WorkspaceInv, NEW a \in Attempt, CreatePullRequest(a) PROVE WorkspaceInv'
<1>t. /\ AttemptTypes /\ att[a] \in AttType /\ StageAgrees(a) /\ HandAgrees(a)
      /\ pc \in [Attempt -> Pc] /\ hand \in [Attempt -> Attempt \cup PR \cup {Nothing}]
      /\ sha \in [Attempt -> SUBSET Commit]
  BY TypesSplit DEF WorkspaceInv, StagesAgree, HandsAgree, AttemptTypes
<1>v. /\ StagesAgree /\ HandsAgree /\ PlacesAgree /\ PullRequestsAgree /\ BranchesAgree
      /\ CommitsAreMade /\ SweepAgrees /\ Runs
      /\ ("found" \notin Windows => RowsAgree) /\ Newer
      /\ GitTypes /\ HubTypes /\ RowTypes /\ SweepTypes /\ OverlapTypes /\ made \in 0..MaxCommits
  BY TypesSplit DEF WorkspaceInv
<1>1. PICK n \in PR :
        /\ NewPR(n)
        /\ prs' = [prs EXCEPT ![n] = [state |-> "open", branch |-> att[a].branch,
                                      issue |-> att[a].issue, ours |-> TRUE]]
        /\ hand' = [hand EXCEPT ![a] = n]
  BY DEF CreatePullRequest
<1>2. /\ att[a].status = "running" /\ att[a].stage = "publish" /\ pc[a] = "pushed"
      /\ pc' = [pc EXCEPT ![a] = "opened"]
  BY DEF CreatePullRequest, At, Running
<1>f. UNCHANGED <<att, sha, worktree, local, base, remote, trunk, row, links, sweep, swept, made, overlaps>>
  BY DEF CreatePullRequest, gitVars, sweepVars
<1>3. /\ Target(a) = a /\ att[a].branch = a /\ remote[a] # Nothing /\ att[a].issue \in Issue
      /\ att[a].head = Nothing /\ PastFind(a) /\ Running(a)
  <2>1. att[a].head = Nothing /\ att[a].path # Nothing /\ att[a].issue \in Issue
    BY <1>2, <1>t DEF StageAgrees, Fresh, AttType
  <2> QED BY <1>2, <1>t, <1>v, <2>1 DEF Target, HandAgrees, PlacesAgree, PastFind, Running
<1>4. /\ ~Opened(n) /\ (\A m \in PR \ {n} : prs'[m] = prs[m])
      /\ prs'[n].state = "open" /\ prs'[n].branch = a /\ prs'[n].issue = att[a].issue /\ prs'[n].ours = TRUE
  BY <1>1, <1>3, <1>v DEF HubTypes, NewPR
<1>5. AttemptTypes' /\ GitTypes' /\ HubTypes' /\ RowTypes' /\ SweepTypes' /\ OverlapTypes' /\ made' \in 0..MaxCommits
  <2>1. AttemptTypes'
    BY <1>1, <1>2, <1>f, <1>t DEF AttemptTypes, Pc
  <2>2. HubTypes'
    BY <1>1, <1>3, <1>f, <1>v DEF HubTypes, Branch
  <2> QED BY <2>1, <2>2, <1>f, <1>v DEF GitTypes, RowTypes, SweepTypes, OverlapTypes
<1>p. PRsGrow /\ KeepsTargets
  BY <1>4, <1>f DEF PRsGrow, Opened, KeepsTargets, KeepsTarget
<1>6. StagesAgree'
  <2>1. ASSUME NEW c \in Attempt PROVE StageAgrees(c)'
    <3>1. att[c].pr # Nothing => att[c].pr \in PR /\ Opened(att[c].pr)
      BY <1>t, <1>v DEF AttemptTypes, AttType, StagesAgree, StageAgrees
    <3>2. att[c].pr # Nothing => Opened(att[c].pr)'
      BY <3>1, <1>p, <1>f DEF PRsGrow, Opened
    <3>3. pc'[c] \in PcOf[att[c].stage] /\ (att[c].status = "none" => pc'[c] = "idle")
      BY <1>2, <1>t, <1>v DEF StagesAgree, StageAgrees, PcOf
    <3> QED BY <1>f, <1>v, <3>2, <3>3 DEF StagesAgree, StageAgrees, Fresh, Opened
  <2> QED BY <2>1 DEF StagesAgree
<1>7. HandsAgree'
  <2>1. HandAgrees(a)'
    BY <1>1, <1>2, <1>4, <1>f, <1>t DEF HandAgrees, Opened
  <2>2. \A b \in Attempt \ {a} : HandKept(b)
    BY <1>1, <1>2, <1>t DEF HandKept
  <2> QED BY <2>1, <2>2, <1>f, <1>p, <1>t, <1>v, HandsStay
<1>8. PlacesAgree' /\ BranchesAgree' /\ SweepAgrees' /\ CommitsAreMade' /\ Runs'
  BY <1>f, <1>v DEF PlacesAgree, BranchesAgree, SweepAgrees, CommitsAreMade, Made, Runs, Running, Target, Fresh, Present, Together
<1>9. PullRequestsAgree'
  <2>1. ASSUME NEW m \in PR
        PROVE  /\ Opened(m)' => prs'[m].branch \in Branch /\ prs'[m].issue \in Issue /\ remote'[prs'[m].branch] # Nothing
               /\ ~Opened(m)' => prs'[m].branch = Nothing /\ ~prs'[m].ours
               /\ prs'[m].branch \in Attempt <=> prs'[m].ours
               /\ prs'[m].branch \in Attempt => prs'[m].issue = att'[prs'[m].branch].issue
               /\ row'[m].attempt # Nothing => Opened(m)'
               /\ row'[m].merged => prs'[m].state = "merged"
    <3>1. CASE m = n
      <4>1. row[n].attempt = Nothing /\ ~row[n].merged
        BY <1>4, <1>v DEF PullRequestsAgree, Opened
      <4> QED BY <1>3, <1>4, <1>f, <3>1, <4>1, Numbers DEF Opened
    <3>2. CASE m # n
      <4>1. prs'[m] = prs[m]
        BY <1>4, <3>2
      <4> QED BY <1>f, <1>v, <4>1 DEF PullRequestsAgree, Opened
    <3> QED BY <3>1, <3>2
  <2>2. \A m, k \in PR : prs'[m].branch = Human /\ prs'[k].branch = Human => m = k
    BY <1>4, <1>v, Numbers DEF PullRequestsAgree
  <2>3. \A i \in Issue : \A m \in links'[i] : Opened(m)' /\ prs'[m].issue = i
    BY <1>f, <1>p, <1>v DEF PullRequestsAgree, PRsGrow, RowTypes
  <2>4. \A c \in Attempt : att'[c].head # Nothing =>
           \E m \in PR : Opened(m)' /\ prs'[m].branch = att'[c].head /\ prs'[m].issue = att'[c].issue
    BY <1>f, <1>p, <1>v DEF PullRequestsAgree, PRsGrow
  <2> QED BY <2>1, <2>2, <2>3, <2>4 DEF PullRequestsAgree, Opened
<1>10. \A b \in Attempt : PastFind(b)' <=> PastFind(b)
  BY <1>2, <1>f, <1>t DEF PastFind
<1>11. "found" \notin Windows => RowsAgree'
  BY <1>10, <1>f, <1>p, <1>t, <1>v, RowsStay
<1>12. Newer'
  <2>1. \A c \in Attempt : Running(c)' /\ ~Together(att[c].issue) => \A d \in Siblings(c)' : d < c
    BY <1>f, <1>v DEF Newer, Running, Siblings, Issued
  <2>2. ASSUME NEW m \in PR, NEW c \in Attempt, prs'[m].ours, prs'[m].state = "open", prs'[m].issue = att'[c].issue,
               ~Together(att[c].issue), prs'[m].branch # c, PastFind(c)', att'[c].head = Nothing
        PROVE  prs'[m].branch > c
    <3>1. CASE m = n
      <4>1. c \in Siblings(a)
        BY <1>4, <1>f, <2>2, <3>1 DEF Siblings, Issued
      <4>2. c < a
        BY <4>1, <1>3, <1>4, <1>f, <1>v, <2>2, <3>1 DEF Newer
      <4> QED BY <1>4, <3>1, <4>2, Numbers
    <3>2. CASE m # n
      BY <1>4, <1>10, <1>f, <1>v, <2>2, <3>2 DEF Newer
    <3> QED BY <3>1, <3>2
  <2> QED BY <2>1, <2>2, <1>f DEF Newer, Together
<1> QED BY <1>5, <1>6, <1>7, <1>8, <1>9, <1>11, <1>12, TypesSplitNext DEF WorkspaceInv

(***************************************************************************)
(* The cleanup and the people on GitHub                                    *)
(***************************************************************************)

(* A step that leaves the attempts alone. *)
LEMMA WorldStep ==
    ASSUME WorkspaceInv, UNCHANGED <<att, pc, hand, sha, overlaps>>,
           GitTypes', HubTypes', RowTypes', SweepTypes', made' \in 0..MaxCommits, CommitsAreMade',
           BranchesKept, \A p \in Attempt : TreeKept(p), PRsKept,
           \A b \in Branch : remote'[b] = Nothing => remote[b] = Nothing,
           \A n \in PR : row'[n].attempt = row[n].attempt /\ (row'[n].merged => prs'[n].state = "merged"),
           UNCHANGED links, SweepAgrees',
           "found" \notin Windows => \A r \in sweep' : r \in sweep \/ (Opened(r.pr) /\ prs[r.pr].branch = Target(r.path))
    PROVE  WorkspaceInv'
<1>t. AttemptTypes /\ GitTypes /\ HubTypes /\ RowTypes /\ SweepTypes /\ OverlapTypes /\ made \in 0..MaxCommits
  BY TypesSplit DEF WorkspaceInv
<1>v. /\ StagesAgree /\ HandsAgree /\ PlacesAgree /\ PullRequestsAgree /\ BranchesAgree
      /\ CommitsAreMade /\ SweepAgrees /\ Runs
      /\ ("found" \notin Windows => RowsAgree) /\ Newer
  BY DEF WorkspaceInv
<1>k. AttemptTypes' /\ KeepsPlaces /\ KeepsTargets /\ PRsGrow
  BY <1>t DEF AttemptTypes, KeepsPlaces, KeepsPlace, KeepsTargets, KeepsTarget, Fresh, PRsGrow, PRsKept
<1>1. TypeOK'
  BY <1>k, <1>t, TypesSplitNext DEF OverlapTypes
<1>2. StagesAgree'
  <2>1. \A b \in Attempt : att[b].pr # Nothing => Opened(att[b].pr)'
    <3> SUFFICES ASSUME NEW b \in Attempt, att[b].pr # Nothing PROVE Opened(att[b].pr)'
      OBVIOUS
    <3>1. att[b].pr \in PR /\ Opened(att[b].pr)
      BY <1>t, <1>v DEF AttemptTypes, AttType, StagesAgree, StageAgrees
    <3> QED BY <3>1 DEF PRsKept, Opened
  <2> QED BY <2>1, <1>v DEF StagesAgree, StageAgrees, Fresh, Opened
<1>3. HandsAgree'
  <2>1. \A b \in Attempt : HandKept(b)
    BY DEF HandKept
  <2> QED BY <2>1, <1>k, <1>t, <1>v, HandsStay
<1>4. PlacesAgree' /\ BranchesAgree'
  BY <1>k, <1>t, <1>v, PlacesStay
<1>5. PullRequestsAgree'
  <2>1. \A n \in PR : row'[n].attempt # Nothing => Opened(n)
    BY <1>v DEF PullRequestsAgree
  <2>2. \A i \in Issue : \A n \in links'[i] : Opened(n) /\ n \in PR /\ prs[n].issue = i
    BY <1>t, <1>v DEF PullRequestsAgree, RowTypes
  <2> QED BY <2>1, <2>2, <1>k, <1>t, <1>v, PullRequestsStay
<1>6. Runs'
  BY <1>v DEF Runs, Running, Together
<1>7. \A b \in Attempt : (PastFind(b)' <=> PastFind(b)) /\ (Running(b)' <=> Running(b))
  BY DEF PastFind, Running
<1>8. "found" \notin Windows => RowsAgree'
  BY <1>7, <1>k, <1>t, <1>v, RowsStay DEF SweepTypes
<1>9. Newer'
  <2>1. \A c \in Attempt : Running(c)' /\ ~Together(att[c].issue) => \A d \in Siblings(c)' : d < c
    BY <1>v DEF Newer, Running, Siblings, Issued
  <2> QED BY <2>1, <1>7, <1>v DEF Newer, PRsKept, Together
<1> QED BY <1>1, <1>2, <1>3, <1>4, <1>5, <1>6, <1>8, <1>9 DEF WorkspaceInv

(* A step of the cleanup other than a removal. *)
LEMMA CleanupStep ==
    ASSUME WorkspaceInv, UNCHANGED <<att, pc, hand, sha, overlaps, gitVars, hubVars, links, made>>, RowTypes', SweepTypes',
           \A n \in PR : row'[n].attempt = row[n].attempt /\ row'[n].merged = row[n].merged,
           SweepAgrees',
           "found" \notin Windows => \A r \in sweep' : r \in sweep \/ (Opened(r.pr) /\ prs[r.pr].branch = Target(r.path))
    PROVE  WorkspaceInv'
<1>t. GitTypes /\ HubTypes /\ made \in 0..MaxCommits /\ CommitsAreMade /\ PullRequestsAgree
  BY TypesSplit DEF WorkspaceInv
<1>u. UNCHANGED <<worktree, local, base, remote, trunk, prs>>
  BY DEF gitVars, hubVars
<1>1. GitTypes' /\ HubTypes' /\ made' \in 0..MaxCommits /\ CommitsAreMade'
  BY <1>t, <1>u DEF GitTypes, HubTypes, CommitsAreMade, Made
<1>2. BranchesKept /\ (\A p \in Attempt : TreeKept(p)) /\ PRsKept
  BY <1>u DEF BranchesKept, TreeKept, PRsKept, Opened
<1>3. \A n \in PR : row'[n].attempt = row[n].attempt /\ (row'[n].merged => prs'[n].state = "merged")
  BY <1>t, <1>u DEF PullRequestsAgree
<1> QED BY <1>u, <1>1, <1>2, <1>3, WorldStep

(* A cleanup starts with rows whose attempts have a workspace. *)
LEMMA SweepStartsKeeps == ASSUME WorkspaceInv, SweepStarts PROVE WorkspaceInv'
<1>t. AttemptTypes /\ RowTypes /\ SweepTypes /\ PlacesAgree /\ PullRequestsAgree
  BY TypesSplit DEF WorkspaceInv
<1>1. PICK e \in BOOLEAN :
        sweep' = {[pr |-> n, path |-> att[row[n].attempt].path] : n \in {m \in PR : Pending(m, e)}}
  BY DEF SweepStarts
<1>f. UNCHANGED <<att, pc, hand, sha, overlaps, gitVars, hubVars, row, links, swept, made>>
  BY DEF SweepStarts
<1>2. ASSUME NEW r \in sweep'
      PROVE  \E n \in PR, a \in Attempt : /\ row[n].attempt = a /\ att[a].path # Nothing /\ att[a].path \in Attempt
                                          /\ r = [pr |-> n, path |-> att[a].path]
  <2>1. PICK n \in PR : Pending(n, e) /\ r = [pr |-> n, path |-> att[row[n].attempt].path]
    BY <1>1
  <2>2. row[n].attempt \in Attempt /\ att[row[n].attempt].path # Nothing
    BY <1>t, <2>1 DEF Pending, RowTypes
  <2>3. att[row[n].attempt].path \in Attempt
    BY <1>t, <2>2 DEF AttemptTypes, AttType
  <2> QED BY <2>1, <2>2, <2>3
<1>3. SweepTypes' /\ SweepAgrees' /\ RowTypes'
  BY <1>2, <1>f, <1>t DEF SweepTypes, SweepAgrees, RowTypes
<1>4. ASSUME "found" \notin Windows, NEW r \in sweep' PROVE Opened(r.pr) /\ prs[r.pr].branch = Target(r.path)
  <2>1. PICK n \in PR, a \in Attempt : /\ row[n].attempt = a /\ att[a].path # Nothing
                                       /\ r.pr = n /\ r.path = att[a].path
    BY <1>2
  <2>2. Opened(n) /\ prs[n].branch = Target(a)
    BY <1>4, <1>t, <2>1, Numbers DEF PullRequestsAgree, WorkspaceInv, RowsAgree
  <2>3. Target(att[a].path) = Target(a)
    BY <1>t, <2>1 DEF PlacesAgree
  <2> QED BY <2>1, <2>2, <2>3
<1> QED BY <1>f, <1>3, <1>4, CleanupStep

(* A cleanup marks the row of the worktree that it removed. *)
LEMMA SweepMarksKeeps == ASSUME WorkspaceInv, SweepMarks PROVE WorkspaceInv'
<1>t. RowTypes /\ SweepTypes /\ SweepAgrees
  BY TypesSplit DEF WorkspaceInv
<1>1. /\ row' = [row EXCEPT ![swept].cleaned = TRUE, ![swept].error = FALSE] /\ swept \in PR /\ swept' = Nothing
      /\ UNCHANGED <<att, pc, hand, sha, overlaps, gitVars, hubVars, links, sweep, made>>
  BY <1>t DEF SweepMarks, SweepTypes
<1>2. RowTypes' /\ \A n \in PR : row'[n].attempt = row[n].attempt /\ row'[n].merged = row[n].merged
  <2>1. row' = [row EXCEPT ![swept] = [row[swept] EXCEPT !.cleaned = TRUE, !.error = FALSE]]
    BY <1>1, <1>t DEF RowTypes
  <2>2. [row[swept] EXCEPT !.cleaned = TRUE, !.error = FALSE]
          \in [attempt : Attempt \cup {Nothing}, merged : BOOLEAN, cleaned : BOOLEAN, error : BOOLEAN]
    BY <1>1, <1>t DEF RowTypes
  <2> QED BY <1>1, <1>t, <2>1, <2>2 DEF RowTypes
<1>3. SweepTypes' /\ SweepAgrees'
  BY <1>1, <1>t DEF SweepTypes, SweepAgrees
<1> QED BY <1>1, <1>2, <1>3, CleanupStep

(* A cleanup that stops forgets the rows it had read. *)
LEMMA SweepStopsKeeps == ASSUME WorkspaceInv, SweepStops PROVE WorkspaceInv'
<1>t. RowTypes /\ SweepTypes
  BY TypesSplit DEF WorkspaceInv
<1>1. sweep' = {} /\ swept' = Nothing /\ UNCHANGED <<att, pc, hand, sha, overlaps, gitVars, hubVars, row, links, made>>
  BY DEF SweepStops
<1>2. RowTypes' /\ SweepTypes' /\ SweepAgrees'
  BY <1>1, <1>t DEF RowTypes, SweepTypes, SweepAgrees
<1> QED BY <1>1, <1>2, CleanupStep

(* A step of the cleanup takes its next row, and removes a worktree of which the branch stays. *)
LEMMA SweepRowKeeps == ASSUME WorkspaceInv, NEW n \in PR, SweepRow(n) PROVE WorkspaceInv'
<1>t. GitTypes /\ HubTypes /\ RowTypes /\ SweepTypes /\ made \in 0..MaxCommits /\ CommitsAreMade
      /\ PullRequestsAgree /\ SweepAgrees
  BY TypesSplit DEF WorkspaceInv
<1>f. UNCHANGED <<att, pc, hand, sha, overlaps, remote, trunk, prs, links, made>> /\ sweep' \subseteq sweep
  BY DEF SweepRow, hubVars
<1>1. NextRow \in sweep
  BY <1>t, NextRowIsThere DEF SweepRow
<1>2. PICK a \in Attempt : att[a].path = NextRow.path
  BY <1>1, <1>t DEF SweepAgrees
<1>3. NextRow.path \in Attempt
  BY <1>1, <1>t DEF SweepTypes
<1>4. /\ GitTypes' /\ UNCHANGED <<local, base>> /\ \A q \in Attempt : TreeKept(q)
  <2>1. CASE IsMerged(n)
    BY <1>2, <1>3, <2>1, RemovalKeeps DEF SweepRow
  <2>2. CASE ~IsMerged(n)
    BY <1>t, <2>2 DEF SweepRow, gitVars, GitTypes, TreeKept
  <2> QED BY <2>1, <2>2
<1>5. /\ RowTypes' /\ swept' \in PR \cup {Nothing}
      /\ \A m \in PR : row'[m].attempt = row[m].attempt /\ (row'[m].merged => prs[m].state = "merged")
  <2>1. CASE IsMerged(n)
    <3>1. PICK e \in BOOLEAN : e <=> (row[n].error \/ Kept(NextRow.path))
      OBVIOUS
    <3>2. row' = [row EXCEPT ![n].merged = TRUE, ![n].error = @ \/ Kept(NextRow.path)]
      BY <2>1 DEF SweepRow
    <3>3. row' = [row EXCEPT ![n] = [row[n] EXCEPT !.merged = TRUE, !.error = (row[n].error \/ Kept(NextRow.path))]]
      BY <3>2, <1>t DEF RowTypes
    <3>4. row' = [row EXCEPT ![n] = [row[n] EXCEPT !.merged = TRUE, !.error = e]]
      BY <3>1, <3>3
    <3>5. [row[n] EXCEPT !.merged = TRUE, !.error = e]
            \in [attempt : Attempt \cup {Nothing}, merged : BOOLEAN, cleaned : BOOLEAN, error : BOOLEAN]
      BY <1>t DEF RowTypes
    <3>6. swept' \in PR \cup {Nothing}
      BY <2>1 DEF SweepRow
    <3> QED BY <2>1, <3>4, <3>5, <3>6, <1>f, <1>t DEF RowTypes, PullRequestsAgree, IsMerged
  <2>2. CASE ~IsMerged(n)
    BY <1>f, <1>t, <2>2 DEF SweepRow, RowTypes, SweepTypes, PullRequestsAgree
  <2> QED BY <2>1, <2>2
<1>6. HubTypes' /\ SweepTypes' /\ made' \in 0..MaxCommits /\ CommitsAreMade' /\ SweepAgrees'
  BY <1>f, <1>t, <1>4, <1>5 DEF HubTypes, SweepTypes, CommitsAreMade, Made, SweepAgrees
<1>7. BranchesKept /\ PRsKept
  BY <1>f, <1>4 DEF BranchesKept, PRsKept, Opened
<1>8. /\ \A m \in PR : row'[m].attempt = row[m].attempt /\ (row'[m].merged => prs'[m].state = "merged")
      /\ \A r \in sweep' : r \in sweep
  BY <1>5, <1>f
<1> QED BY <1>f, <1>4, <1>5, <1>6, <1>7, <1>8, WorldStep

(* A person's push adds commits that were made to the branch of a pull request. *)
LEMMA HumanPushesKeeps == ASSUME WorkspaceInv, NEW n \in PR, HumanPushes(n) PROVE WorkspaceInv'
<1>t. GitTypes /\ HubTypes /\ RowTypes /\ SweepTypes /\ made \in 0..MaxCommits /\ CommitsAreMade
      /\ PullRequestsAgree /\ SweepAgrees
  BY TypesSplit DEF WorkspaceInv
<1> DEFINE b == prs[n].branch
<1>1. /\ Opened(n) /\ made < MaxCommits /\ made' = made + 1
      /\ remote' = [remote EXCEPT ![b] = remote[b] \cup {made + 1}]
  BY DEF HumanPushes, Opened
<1>f. UNCHANGED <<att, pc, hand, sha, overlaps, worktree, local, base, trunk, prs, row, links, sweep, swept>>
  BY DEF HumanPushes, gitVars, sweepVars
<1>2. b \in Branch /\ remote[b] # Nothing /\ remote[b] \in SUBSET Commit /\ remote[b] \subseteq Made
  <2>1. b \in Branch /\ remote[b] # Nothing
    BY <1>1, <1>t DEF PullRequestsAgree
  <2> QED BY <2>1, <1>t DEF HubTypes, Commits, CommitsAreMade
<1> HIDE DEF b
<1>3. made + 1 \in 1..MaxCommits /\ made' \in 0..MaxCommits /\ Made \subseteq 1..made' /\ made + 1 \in 1..made'
  BY <1>1, <1>t, BoundAssumption DEF Made
<1>4. remote[b] \cup {made + 1} \in SUBSET Commit /\ remote[b] \cup {made + 1} \subseteq 1..made'
  BY <1>2, <1>3 DEF Commit
<1>5. HubTypes' /\ GitTypes' /\ RowTypes' /\ SweepTypes' /\ SweepAgrees'
  BY <1>1, <1>2, <1>4, <1>f, <1>t DEF HubTypes, GitTypes, RowTypes, SweepTypes, SweepAgrees, Commits
<1>6. \A c \in Branch : IF c = b THEN remote'[c] = remote[b] \cup {made + 1} ELSE remote'[c] = remote[c]
  BY <1>1, <1>t DEF HubTypes
<1>7. CommitsAreMade'
  BY <1>3, <1>4, <1>6, <1>f, <1>t DEF CommitsAreMade, Made
<1>8. BranchesKept /\ (\A p \in Attempt : TreeKept(p)) /\ PRsKept
  BY <1>2, <1>6, <1>f, Numbers DEF BranchesKept, TreeKept, PRsKept, Opened
<1>9. \A c \in Branch : remote'[c] = Nothing => remote[c] = Nothing
  BY <1>4, <1>6, Numbers
<1>10. \A m \in PR : row'[m].attempt = row[m].attempt /\ (row'[m].merged => prs'[m].state = "merged")
  BY <1>f, <1>t DEF PullRequestsAgree
<1> QED BY <1>3, <1>5, <1>7, <1>8, <1>9, <1>10, <1>f, WorldStep

(* A merge changes the state of a pull request and nothing that an attempt keeps. *)
LEMMA MergeKeeps == ASSUME WorkspaceInv, NEW n \in PR, Merge(n) PROVE WorkspaceInv'
<1>t. GitTypes /\ HubTypes /\ RowTypes /\ SweepTypes /\ made \in 0..MaxCommits /\ CommitsAreMade
      /\ PullRequestsAgree /\ SweepAgrees
  BY TypesSplit DEF WorkspaceInv
<1>1. /\ prs[n].state = "open" /\ prs' = [prs EXCEPT ![n].state = "merged"]
      /\ trunk' = trunk \cup remote[prs[n].branch]
  BY DEF Merge
<1>f. UNCHANGED <<att, pc, hand, sha, overlaps, worktree, local, base, remote, row, links, sweep, swept, made>>
  BY DEF Merge, gitVars, sweepVars
<1>2. remote[prs[n].branch] \in SUBSET Commit /\ remote[prs[n].branch] \subseteq Made
  <2>1. prs[n].branch \in Branch /\ remote[prs[n].branch] # Nothing
    BY <1>1, <1>t DEF PullRequestsAgree, Opened
  <2> QED BY <2>1, <1>t DEF HubTypes, Commits, CommitsAreMade
<1>3. HubTypes' /\ GitTypes' /\ RowTypes' /\ SweepTypes' /\ SweepAgrees' /\ made' \in 0..MaxCommits
  BY <1>1, <1>2, <1>f, <1>t DEF HubTypes, GitTypes, RowTypes, SweepTypes, SweepAgrees
<1>4. CommitsAreMade'
  BY <1>1, <1>2, <1>f, <1>t DEF CommitsAreMade, Made
<1>5. BranchesKept /\ \A p \in Attempt : TreeKept(p)
  BY <1>f DEF BranchesKept, TreeKept
<1>6. PRsKept /\ \A m \in PR : prs[m].state = "merged" => prs'[m].state = "merged"
  BY <1>1, <1>t DEF PRsKept, Opened, HubTypes
<1>7. \A m \in PR : row'[m].attempt = row[m].attempt /\ (row'[m].merged => prs'[m].state = "merged")
  BY <1>6, <1>f, <1>t DEF PullRequestsAgree
<1> QED BY <1>3, <1>4, <1>5, <1>6, <1>7, <1>f, WorldStep

(* A pull request that is closed keeps its branch and its issue. *)
LEMMA CloseKeeps == ASSUME WorkspaceInv, NEW n \in PR, Close(n) PROVE WorkspaceInv'
<1>t. GitTypes /\ HubTypes /\ RowTypes /\ SweepTypes /\ made \in 0..MaxCommits /\ CommitsAreMade
      /\ PullRequestsAgree /\ SweepAgrees
  BY TypesSplit DEF WorkspaceInv
<1>1. prs[n].state = "open" /\ prs' = [prs EXCEPT ![n].state = "closed"]
  BY DEF Close
<1>f. UNCHANGED <<att, pc, hand, sha, overlaps, worktree, local, base, remote, trunk, row, links, sweep, swept, made>>
  BY DEF Close, gitVars, sweepVars
<1>3. HubTypes' /\ GitTypes' /\ RowTypes' /\ SweepTypes' /\ SweepAgrees' /\ made' \in 0..MaxCommits /\ CommitsAreMade'
  BY <1>1, <1>f, <1>t DEF HubTypes, GitTypes, RowTypes, SweepTypes, SweepAgrees, CommitsAreMade, Made
<1>5. BranchesKept /\ \A p \in Attempt : TreeKept(p)
  BY <1>f DEF BranchesKept, TreeKept
<1>6. PRsKept /\ \A m \in PR : prs[m].state = "merged" => prs'[m].state = "merged"
  BY <1>1, <1>t DEF PRsKept, Opened, HubTypes
<1>7. \A m \in PR : row'[m].attempt = row[m].attempt /\ (row'[m].merged => prs'[m].state = "merged")
  BY <1>6, <1>f, <1>t DEF PullRequestsAgree
<1> QED BY <1>3, <1>5, <1>6, <1>7, <1>f, WorldStep

(* A person's pull request is on a branch of no attempt, and is the only one of that branch. *)
LEMMA HumanOpensPRKeeps == ASSUME WorkspaceInv, NEW i \in Issue, HumanOpensPR(i) PROVE WorkspaceInv'
<1>t. AttemptTypes /\ GitTypes /\ HubTypes /\ RowTypes /\ SweepTypes /\ OverlapTypes /\ made \in 0..MaxCommits
  BY TypesSplit DEF WorkspaceInv
<1>v. /\ StagesAgree /\ HandsAgree /\ PlacesAgree /\ PullRequestsAgree /\ BranchesAgree
      /\ CommitsAreMade /\ SweepAgrees /\ Runs
      /\ ("found" \notin Windows => RowsAgree) /\ Newer
  BY DEF WorkspaceInv
<1>1. PICK n \in PR : /\ NewPR(n)
                      /\ prs' = [prs EXCEPT ![n] = [state |-> "open", branch |-> Human, issue |-> i, ours |-> FALSE]]
  BY DEF HumanOpensPR
<1>2. remote[Human] = Nothing /\ made < MaxCommits /\ made' = made + 1 /\ remote' = [remote EXCEPT ![Human] = {made + 1}]
  BY DEF HumanOpensPR
<1>f. UNCHANGED <<att, pc, hand, sha, overlaps, worktree, local, base, trunk, row, links, sweep, swept>>
  BY DEF HumanOpensPR, gitVars, sweepVars
<1>3. made + 1 \in 1..MaxCommits /\ made' \in 0..MaxCommits /\ Made \subseteq 1..made' /\ made + 1 \in 1..made'
  BY <1>2, <1>t, BoundAssumption DEF Made
<1>4. {made + 1} \in SUBSET Commit /\ {made + 1} # Nothing /\ Human \in Branch
  BY <1>3, Numbers DEF Commit, Branch
<1>5. \A b \in Branch : IF b = Human THEN remote'[b] = {made + 1} ELSE remote'[b] = remote[b]
  BY <1>2, <1>t DEF HubTypes
<1>6. /\ ~Opened(n) /\ (\A m \in PR \ {n} : prs'[m] = prs[m])
      /\ prs'[n].state = "open" /\ prs'[n].branch = Human /\ prs'[n].issue = i /\ prs'[n].ours = FALSE
  BY <1>1, <1>t DEF HubTypes, NewPR
<1>7. AttemptTypes' /\ GitTypes' /\ HubTypes' /\ RowTypes' /\ SweepTypes' /\ OverlapTypes'
  <2>1. HubTypes'
    BY <1>1, <1>2, <1>4, <1>f, <1>t DEF HubTypes, Commits
  <2> QED BY <2>1, <1>f, <1>t DEF AttemptTypes, GitTypes, RowTypes, SweepTypes, OverlapTypes
<1>k. KeepsPlaces /\ KeepsTargets /\ PRsGrow
  BY <1>6, <1>f DEF KeepsPlaces, KeepsPlace, KeepsTargets, KeepsTarget, Fresh, PRsGrow, Opened
<1>8. StagesAgree'
  <2>1. \A b \in Attempt : att[b].pr # Nothing => Opened(att[b].pr)'
    <3> SUFFICES ASSUME NEW b \in Attempt, att[b].pr # Nothing PROVE Opened(att[b].pr)'
      OBVIOUS
    <3>1. att[b].pr \in PR /\ Opened(att[b].pr)
      BY <1>t, <1>v DEF AttemptTypes, AttType, StagesAgree, StageAgrees
    <3> QED BY <3>1, <1>k, <1>f DEF PRsGrow, Opened
  <2> QED BY <2>1, <1>f, <1>v DEF StagesAgree, StageAgrees, Fresh, Opened
<1>r. \A b \in Branch : remote'[b] = Nothing => remote[b] = Nothing
  BY <1>4, <1>5
<1>9. HandsAgree'
  <2>1. \A b \in Attempt : HandKept(b)
    BY <1>f DEF HandKept
  <2> QED BY <2>1, <1>k, <1>r, <1>t, <1>v, HandsStay
<1>10. PlacesAgree' /\ BranchesAgree'
  <2>1. BranchesKept /\ \A p \in Attempt : TreeKept(p)
    BY <1>5, <1>f, Numbers DEF BranchesKept, TreeKept
  <2> QED BY <2>1, <1>k, <1>t, <1>v, PlacesStay
<1>11. CommitsAreMade' /\ SweepAgrees' /\ Runs'
  <2>1. \A b \in Branch : remote'[b] # Nothing => remote'[b] \subseteq 1..made'
    BY <1>3, <1>5, <1>v DEF CommitsAreMade
  <2> QED BY <2>1, <1>3, <1>f, <1>v DEF CommitsAreMade, Made, SweepAgrees, Runs, Running, Together
<1>12. PullRequestsAgree'
  <2>1. ASSUME NEW m \in PR
        PROVE  /\ Opened(m)' => prs'[m].branch \in Branch /\ prs'[m].issue \in Issue /\ remote'[prs'[m].branch] # Nothing
               /\ ~Opened(m)' => prs'[m].branch = Nothing /\ ~prs'[m].ours
               /\ prs'[m].branch \in Attempt <=> prs'[m].ours
               /\ prs'[m].branch \in Attempt => prs'[m].issue = att'[prs'[m].branch].issue
               /\ row'[m].attempt # Nothing => Opened(m)'
               /\ row'[m].merged => prs'[m].state = "merged"
    <3>1. CASE m = n
      <4>1. row[n].attempt = Nothing /\ ~row[n].merged
        BY <1>6, <1>v DEF PullRequestsAgree, Opened
      <4> QED BY <1>4, <1>5, <1>6, <1>f, <3>1, <4>1, Numbers DEF Opened
    <3>2. CASE m # n
      <4>1. prs'[m] = prs[m]
        BY <1>6, <3>2
      <4>2. Opened(m) => remote'[prs[m].branch] # Nothing
        BY <1>4, <1>5, <1>v DEF PullRequestsAgree
      <4> QED BY <1>f, <1>v, <4>1, <4>2 DEF PullRequestsAgree, Opened
    <3> QED BY <3>1, <3>2
  <2>2. \A m, k \in PR : prs'[m].branch = Human /\ prs'[k].branch = Human => m = k
    <3>1. \A m \in PR : prs[m].branch # Human
      BY <1>2, <1>4, <1>v, Numbers DEF PullRequestsAgree
    <3> QED BY <3>1, <1>6
  <2>3. \A j \in Issue : \A m \in links'[j] : Opened(m)' /\ prs'[m].issue = j
    BY <1>f, <1>k, <1>t, <1>v DEF PullRequestsAgree, PRsGrow, RowTypes
  <2>4. \A c \in Attempt : att'[c].head # Nothing =>
           \E m \in PR : Opened(m)' /\ prs'[m].branch = att'[c].head /\ prs'[m].issue = att'[c].issue
    BY <1>f, <1>k, <1>v DEF PullRequestsAgree, PRsGrow
  <2> QED BY <2>1, <2>2, <2>3, <2>4 DEF PullRequestsAgree, Opened
<1>13. \A b \in Attempt : PastFind(b)' <=> PastFind(b)
  BY <1>f DEF PastFind
<1>14. "found" \notin Windows => RowsAgree'
  BY <1>13, <1>f, <1>k, <1>t, <1>v, RowsStay
<1>15. Newer'
  <2>1. \A c \in Attempt : Running(c)' /\ ~Together(att[c].issue) => \A d \in Siblings(c)' : d < c
    BY <1>f, <1>v DEF Newer, Running, Siblings, Issued
  <2>2. ASSUME NEW m \in PR, NEW c \in Attempt, prs'[m].ours, prs'[m].state = "open", prs'[m].issue = att'[c].issue,
               ~Together(att[c].issue), prs'[m].branch # c, PastFind(c)', att'[c].head = Nothing
        PROVE  prs'[m].branch > c
    <3>1. m # n
      BY <1>6, <2>2
    <3> QED BY <1>6, <1>13, <1>f, <1>v, <2>2, <3>1 DEF Newer
  <2> QED BY <2>1, <2>2, <1>f DEF Newer, Together
<1> QED BY <1>3, <1>7, <1>8, <1>9, <1>10, <1>11, <1>12, <1>14, <1>15, TypesSplitNext DEF WorkspaceInv

(***************************************************************************)
(* The theorems                                                            *)
(***************************************************************************)

(* At the start nothing is cloned, opened or recorded. *)
LEMMA InitHolds == ASSUME Init PROVE WorkspaceInv
<1>1. TypeOK
  BY BoundAssumption DEF Init, TypeOK, Stage, Pc, Commits
<1>2. StagesAgree /\ HandsAgree /\ Runs
  BY Numbers DEF Init, StagesAgree, StageAgrees, HandsAgree, HandAgrees, Runs, Running, Fresh, PcOf
<1>3. PlacesAgree /\ BranchesAgree
  BY Numbers DEF Init, PlacesAgree, BranchesAgree, Present, Branch
<1>4. PullRequestsAgree
  BY Numbers DEF Init, PullRequestsAgree, Opened, Branch
<1>5. CommitsAreMade /\ SweepAgrees
  BY DEF Init, CommitsAreMade, SweepAgrees
<1>6. RowsAgree
  BY Numbers DEF Init, RowsAgree
<1>7. Newer
  BY Numbers DEF Init, Newer, Running
<1> QED BY <1>1, <1>2, <1>3, <1>4, <1>5, <1>6, <1>7 DEF WorkspaceInv

(* Every step keeps the invariant. *)
LEMMA NextKeeps == ASSUME WorkspaceInv, [Next]_vars PROVE WorkspaceInv'
<1>1. ASSUME NEW a \in Attempt, AttemptStep(a) PROVE WorkspaceInv'
  BY <1>1, StartKeeps, StopKeeps, RetryKeeps, FindPullRequestsKeeps, FoundKeeps, ReuseWorktreeKeeps, AddWorktreeKeeps,
     RecordWorkspaceKeeps, SetupKeeps, CodexEditsKeeps, CodexEndsKeeps, PublishAgainKeeps, ApprovePushKeeps,
     EnsureCommitKeeps, PushBranchKeeps, CreatePullRequestKeeps, StoreCommitKeeps, RecordPRKeeps, RecordLinkKeeps,
     CheckAgainKeeps, CleanUpKeeps, CleanedUpKeeps DEF AttemptStep
<1>2. ASSUME Sweep \/ SweepStops PROVE WorkspaceInv'
  BY <1>2, SweepStartsKeeps, SweepRowKeeps, SweepMarksKeeps, SweepStopsKeeps DEF Sweep
<1>3. ASSUME People PROVE WorkspaceInv'
  BY <1>3, HumanOpensPRKeeps, HumanPushesKeeps, MergeKeeps, CloseKeeps DEF People
<1>4. ASSUME UNCHANGED vars PROVE WorkspaceInv'
  <2>1. UNCHANGED <<att, pc, hand, sha, worktree, local, base, remote, trunk, prs, row, links, sweep, swept, made, overlaps>>
    BY <1>4 DEF vars, gitVars, hubVars, sweepVars
  <2>2. WorkspaceInv <=> WorkspaceInv'
    BY <2>1 DEF WorkspaceInv, TypeOK, StagesAgree, StageAgrees, HandsAgree, HandAgrees, PlacesAgree, PullRequestsAgree,
      BranchesAgree, CommitsAreMade, Made, SweepAgrees, Runs, RowsAgree, Newer, Target, Fresh, PastFind, Opened, Running,
      Present, Siblings, Issued, Together
  <2> QED BY <2>2
<1> QED BY <1>1, <1>2, <1>3, <1>4 DEF Next

(* WorkspaceInv holds in every reachable state. *)
THEOREM WorkspacesAgree == Spec => []WorkspaceInv
BY InitHolds, NextKeeps, PTL DEF Spec

(* Every variable keeps its type. *)
THEOREM TypesAreKept == Spec => []TypeOK
<1>1. WorkspaceInv => TypeOK
  BY DEF WorkspaceInv
<1> QED BY <1>1, WorkspacesAgree, PTL

(* Running attempts have different worktrees: with the same one they would work on the same branch, *)
(* hence on the same issue, and then one was put to work beside the other.                          *)
THEOREM WorkersAreApart == Spec => []OneWorkerPerWorktree
<1>1. WorkspaceInv => OneWorkerPerWorktree
  <2> SUFFICES ASSUME WorkspaceInv, NEW a \in Attempt, NEW b \in Attempt, a # b, Running(a), Running(b),
                      att[a].path # Nothing, att[a].path = att[b].path
               PROVE  att[a].issue = att[b].issue
    BY DEF OneWorkerPerWorktree, WorkspaceInv, Runs, Together
  <2>1. PlacesAgree /\ PullRequestsAgree /\ AttemptTypes
    BY TypesSplit DEF WorkspaceInv
  <2>2. Target(a) = Target(b)
    BY <2>1 DEF PlacesAgree
  <2>3. \A c \in Attempt : att[c].head # Nothing =>
           \E n \in PR : prs[n].branch = att[c].head /\ prs[n].issue = att[c].issue
    BY <2>1 DEF PullRequestsAgree
  <2>4. \A n \in PR : prs[n].branch \in Attempt => prs[n].issue = att[prs[n].branch].issue
    BY <2>1 DEF PullRequestsAgree
  <2>5. CASE att[a].head = Nothing
    <3>1. att[b].head = a
      BY <2>2, <2>5 DEF Target
    <3> QED BY <2>1, <2>3, <2>4, <3>1, Numbers
  <2>6. CASE att[b].head = Nothing
    <3>1. att[a].head = b
      BY <2>2, <2>6 DEF Target
    <3> QED BY <2>1, <2>3, <2>4, <3>1, Numbers
  <2>7. CASE att[a].head # Nothing /\ att[b].head # Nothing
    <3>1. att[a].head = att[b].head /\ att[a].head \in Attempt \cup {Human}
      BY <2>1, <2>2, <2>7 DEF Target, AttemptTypes, AttType, Branch
    <3>2. PICK n \in PR : prs[n].branch = att[a].head /\ prs[n].issue = att[a].issue
      BY <2>3, <2>7
    <3>3. PICK m \in PR : prs[m].branch = att[a].head /\ prs[m].issue = att[b].issue
      BY <2>3, <2>7, <3>1
    <3>4. att[a].head = Human => n = m
      BY <2>1, <3>2, <3>3 DEF PullRequestsAgree
    <3> QED BY <2>1, <2>4, <3>1, <3>2, <3>3, <3>4
  <2> QED BY <2>5, <2>6, <2>7
<1> QED BY <1>1, WorkspacesAgree, PTL

(* The steps that touch a worktree or a branch. *)
LEMMA BranchSteps ==
    ASSUME [Next]_vars
    PROVE  \/ UNCHANGED <<worktree, local, remote>>
           \/ \E a \in Attempt : AddWorktree(a) \/ EnsureCommit(a) \/ PushBranch(a) \/ CodexEdits(a) \/ CleanUp(a)
           \/ (\E n \in PR : SweepRow(n) \/ HumanPushes(n))
           \/ (\E i \in Issue : HumanOpensPR(i))
<1>1. ASSUME NEW a \in Attempt, AttemptStep(a),
             ~(AddWorktree(a) \/ EnsureCommit(a) \/ PushBranch(a) \/ CodexEdits(a) \/ CleanUp(a))
      PROVE  UNCHANGED <<worktree, local, remote>>
  <2>1. CASE (\E i \in Issue : Start(a, i)) \/ Stop(a) \/ Retry(a) \/ FindPullRequests(a) \/ Found(a)
    BY <2>1 DEF Start, Stop, Retry, FindPullRequests, Found, gitVars, hubVars
  <2>2. CASE (\E p \in Attempt : ReuseWorktree(a, p)) \/ RecordWorkspace(a) \/ Setup(a) \/ CodexEnds(a) \/ PublishAgain(a)
    BY <2>2 DEF ReuseWorktree, RecordWorkspace, Setup, CodexEnds, PublishAgain, gitVars, hubVars
  <2>3. CASE ApprovePush(a) \/ CreatePullRequest(a) \/ StoreCommit(a) \/ RecordPR(a) \/ RecordLink(a)
    BY <2>3 DEF ApprovePush, CreatePullRequest, StoreCommit, RecordPR, RecordLink, gitVars, hubVars
  <2>4. CASE CheckAgain(a) \/ CleanedUp(a)
    BY <2>4 DEF CheckAgain, CleanedUp, gitVars, hubVars
  <2> QED BY <1>1, <2>1, <2>2, <2>3, <2>4 DEF AttemptStep
<1>2. ASSUME SweepStarts \/ SweepMarks \/ SweepStops \/ (\E n \in PR : Merge(n) \/ Close(n)) \/ UNCHANGED vars
      PROVE  UNCHANGED <<worktree, local, remote>>
  BY <1>2 DEF SweepStarts, SweepMarks, SweepStops, Merge, Close, vars, gitVars, hubVars
<1> QED BY <1>1, <1>2 DEF Next, Sweep, People

(* No branch loses a commit and no worktree its changes: the only step that sets a branch of the     *)
(* shared repository to something else is the one that adds a worktree, and it keeps a branch that   *)
(* is there; a push only goes forward, and a worktree with changes is never removed.                 *)
THEOREM WorkStays == Spec => WorkIsKept
<1> DEFINE Keeps == /\ \A b \in Branch : Holds(b, local, local') /\ Holds(b, remote, remote')
                    /\ \A p \in Attempt : worktree[p].dirty =>
                         \/ worktree'[p].dirty
                         \/ Present(p)' /\ local[worktree[p].branch] # local'[worktree[p].branch]
<1>1. ASSUME WorkspaceInv, [Next]_vars PROVE Keeps
  <2>t. AttemptTypes /\ GitTypes /\ HubTypes /\ PlacesAgree /\ PullRequestsAgree /\ BranchesAgree /\ CommitsAreMade
        /\ made \in 0..MaxCommits
    BY <1>1, TypesSplit DEF WorkspaceInv
  <2>i. /\ UNCHANGED local => \A b \in Branch : Holds(b, local, local')
        /\ UNCHANGED remote => \A b \in Branch : Holds(b, remote, remote')
    BY DEF Holds
  <2>1. ASSUME UNCHANGED <<worktree, local, remote>> PROVE Keeps
    BY <2>1, <2>i
  <2>2. ASSUME NEW a \in Attempt, AddWorktree(a) PROVE Keeps
    <3> DEFINE ref == IF att[a].head # Nothing THEN SourceRef(Target(a))
                      ELSE IF base = Nothing THEN trunk ELSE base
    <3>1. /\ att[a].stage = "allocate" /\ ~Present(a) /\ ref # Nothing /\ UNCHANGED <<att, remote>>
          /\ local' = [Cloned EXCEPT ![Target(a)] = ref]
          /\ worktree' = [worktree EXCEPT ![a] = [branch |-> Target(a), dirty |-> FALSE]]
      BY <2>2 DEF AddWorktree, At, Target, hubVars
    <3>2. Target(a) \in Branch
      BY <2>t DEF Target, AttemptTypes, AttType, Branch
    <3>3. \A b \in Branch : local'[b] = IF b = Target(a) THEN ref ELSE Cloned[b]
      BY <3>1, <3>2 DEF Cloned
    <3>4. \A b \in Branch : local[b] # Nothing => Cloned[b] = local[b]
      BY <2>t DEF Cloned, BranchesAgree
    <3>5. local[Target(a)] # Nothing => ref = local[Target(a)]
      <4>1. CASE att[a].head = Nothing
        BY <3>1, <4>1, <2>t DEF Target, BranchesAgree, Fresh
      <4>2. CASE att[a].head # Nothing
        BY <3>2, <3>4, <4>2 DEF SourceRef
      <4> QED BY <4>1, <4>2
    <3> HIDE DEF ref
    <3>6. \A b \in Branch : Holds(b, local, local')
      BY <3>3, <3>4, <3>5 DEF Holds
    <3>7. \A p \in Attempt : worktree[p].dirty => worktree'[p].dirty
      BY <3>1, <2>t DEF PlacesAgree, GitTypes
    <3> QED BY <3>1, <3>6, <3>7, <2>i
  <2>3. ASSUME NEW a \in Attempt, EnsureCommit(a) PROVE Keeps
    <3> DEFINE q == att[a].path
               c == worktree[q].branch
               tip == IF worktree[q].dirty THEN local[c] \cup {made + 1} ELSE local[c]
    <3>1. /\ local' = [local EXCEPT ![c] = tip] /\ worktree' = [worktree EXCEPT ![q].dirty = FALSE]
          /\ HasWorkspace(a) /\ UNCHANGED remote
      BY <2>3 DEF EnsureCommit, hubVars
    <3>2. q \in Attempt /\ Present(q) /\ c \in Branch /\ local[c] \subseteq Made /\ local[c] # Nothing /\ tip # Nothing
      <4>1. /\ q \in Attempt /\ Present(q) /\ c \in Branch /\ local[c] \subseteq Made /\ local[c] # Nothing
            /\ local[c] \in SUBSET Commit
        BY <1>1, <3>1, WorkspaceIsThere
      <4>2. worktree[q].dirty => made + 1 \in Commit
        BY <2>3, <2>t, BoundAssumption DEF EnsureCommit, Commit
      <4>3. tip \in SUBSET Commit
        BY <4>1, <4>2
      <4> HIDE DEF tip
      <4> QED BY <4>1, <4>3, Numbers
    <3>3. local[c] \subseteq tip /\ (worktree[q].dirty => tip # local[c])
      <4>1. made + 1 \notin Made
        BY <2>t, BoundAssumption DEF Made
      <4> QED BY <3>2, <4>1
    <3> HIDE DEF q, c, tip
    <3>4. \A b \in Branch : Holds(b, local, local')
      BY <3>1, <3>2, <3>3, <2>t DEF Holds, GitTypes
    <3>5. ASSUME NEW p \in Attempt, worktree[p].dirty, ~worktree'[p].dirty
          PROVE  Present(p)' /\ local[worktree[p].branch] # local'[worktree[p].branch]
      <4>1. p = q /\ worktree'[q].branch = worktree[q].branch
        BY <3>1, <3>2, <3>5, <2>t DEF GitTypes
      <4>2. worktree[p].branch = c
        BY <4>1 DEF c
      <4>3. local'[c] = tip
        BY <3>1, <3>2, <2>t DEF GitTypes
      <4> QED BY <3>2, <3>3, <3>5, <4>1, <4>2, <4>3 DEF Present
    <3> QED BY <3>1, <3>4, <3>5, <2>i
  <2>4. ASSUME NEW a \in Attempt, PushBranch(a) PROVE Keeps
    <3>1. /\ remote' = [remote EXCEPT ![Target(a)] = local[Target(a)]] /\ HasWorkspace(a) /\ UNCHANGED <<worktree, local>>
          /\ remote[Target(a)] # Nothing => remote[Target(a)] \subseteq local[Target(a)]
      BY <1>1, <2>4, WorkspaceIsThere DEF PushBranch, FastForward, gitVars
    <3>2. Target(a) \in Branch /\ local[Target(a)] # Nothing
      BY <1>1, <3>1, WorkspaceIsThere
    <3>3. \A b \in Branch : Holds(b, remote, remote')
      BY <3>1, <3>2, <2>t DEF Holds, HubTypes
    <3> QED BY <3>1, <3>3, <2>i
  <2>5. ASSUME NEW a \in Attempt, CodexEdits(a) PROVE Keeps
    <3>1. worktree' = [worktree EXCEPT ![att[a].path].dirty = TRUE] /\ HasWorkspace(a) /\ UNCHANGED <<local, remote>>
      BY <2>5 DEF CodexEdits, hubVars
    <3>2. \A p \in Attempt : worktree[p].dirty => worktree'[p].dirty
      BY <1>1, <3>1, WorkspaceIsThere, <2>t DEF GitTypes
    <3> QED BY <3>1, <3>2, <2>i
  <2>6. ASSUME NEW p, NEW n, Removed(n, p) PROVE UNCHANGED local /\ \A q \in Attempt : worktree[q].dirty => worktree'[q].dirty
    BY <2>6, <2>t DEF Removed, MayRemove, gitVars, GitTypes
  <2>7. ASSUME NEW a \in Attempt, CleanUp(a) PROVE Keeps
    <3>1. UNCHANGED remote /\ \E n, p : Removed(n, p)
      BY <2>7 DEF CleanUp, hubVars
    <3> QED BY <3>1, <2>6, <2>i
  <2>8. ASSUME NEW n \in PR, SweepRow(n) PROVE Keeps
    <3>1. UNCHANGED remote /\ ((\E m, p : Removed(m, p)) \/ UNCHANGED <<worktree, local>>)
      BY <2>8 DEF SweepRow, hubVars, gitVars
    <3> QED BY <3>1, <2>6, <2>i
  <2>9. ASSUME NEW n \in PR, HumanPushes(n) PROVE Keeps
    <3>1. /\ remote' = [remote EXCEPT ![prs[n].branch] = remote[prs[n].branch] \cup {made + 1}]
          /\ Opened(n) /\ UNCHANGED <<worktree, local>>
      BY <2>9 DEF HumanPushes, Opened, gitVars
    <3>2. WorkspaceInv'
      BY <1>1, <2>9, HumanPushesKeeps
    <3>3. prs[n].branch \in Branch /\ remote[prs[n].branch] # Nothing
      BY <2>t, <3>1 DEF PullRequestsAgree
    <3>4. remote'[prs[n].branch] # Nothing
      BY <2>9, <3>1, <3>2, <3>3 DEF WorkspaceInv, PullRequestsAgree, Opened, HumanPushes
    <3>5. \A b \in Branch : Holds(b, remote, remote')
      BY <3>1, <3>3, <3>4, <2>t DEF Holds, HubTypes
    <3> QED BY <3>1, <3>5, <2>i
  <2>10. ASSUME NEW i \in Issue, HumanOpensPR(i) PROVE Keeps
    <3>1. remote' = [remote EXCEPT ![Human] = {made + 1}] /\ remote[Human] = Nothing /\ UNCHANGED <<worktree, local>>
      BY <2>10 DEF HumanOpensPR, gitVars
    <3>2. \A b \in Branch : Holds(b, remote, remote')
      BY <3>1, <2>t DEF Holds, HubTypes
    <3> QED BY <3>1, <3>2, <2>i
  <2> HIDE DEF Keeps
  <2> QED BY <1>1, <2>1, <2>2, <2>3, <2>4, <2>5, <2>7, <2>8, <2>9, <2>10, BranchSteps
<1>2. [Next]_vars /\ WorkspaceInv => [Keeps]_vars
  BY <1>1
<1> QED BY <1>2, WorkspacesAgree, PTL DEF Spec, WorkIsKept

(* That attempts did not work one after the other is not forgotten. *)
LEMMA NextGrows == ASSUME WorkspaceInv, [Next]_vars PROVE OverlapsGrow
<1>t. AttemptTypes /\ StagesAgree /\ OverlapTypes
  BY TypesSplit DEF WorkspaceInv
<1>1. ASSUME UNCHANGED overlaps PROVE OverlapsGrow
  BY <1>t, <1>1 DEF OverlapsGrow, OverlapTypes
<1>2. ASSUME NEW a \in Attempt, NEW i \in Issue, Start(a, i) PROVE OverlapsGrow
  BY <1>t, <1>2, WorkBegins DEF Start
<1>3. ASSUME NEW a \in Attempt, Retry(a) \/ ApprovePush(a) \/ CheckAgain(a) PROVE OverlapsGrow
  <2>1. GoesToWork(a, att[a].issue) /\ att[a].issue \in Issue
    BY <1>t, <1>3, RunnersHaveIssues DEF Retry, ApprovePush, CheckAgain
  <2> QED BY <1>t, <2>1, WorkBegins
<1>4. ASSUME NEW a \in Attempt, AttemptStep(a), \A i \in Issue : ~Start(a, i), ~Retry(a), ~ApprovePush(a), ~CheckAgain(a)
      PROVE  UNCHANGED overlaps
  <2>1. CASE Stop(a) \/ FindPullRequests(a) \/ Found(a) \/ (\E q \in Attempt : ReuseWorktree(a, q)) \/ AddWorktree(a)
             \/ RecordWorkspace(a) \/ Setup(a) \/ CodexEdits(a) \/ CodexEnds(a) \/ PublishAgain(a)
    BY <2>1 DEF Stop, FindPullRequests, Found, ReuseWorktree, AddWorktree, RecordWorkspace, Setup, CodexEdits,
                CodexEnds, PublishAgain
  <2>2. CASE EnsureCommit(a) \/ PushBranch(a) \/ CreatePullRequest(a) \/ StoreCommit(a) \/ RecordPR(a) \/ RecordLink(a)
             \/ CleanUp(a) \/ CleanedUp(a)
    BY <2>2 DEF EnsureCommit, PushBranch, CreatePullRequest, StoreCommit, RecordPR, RecordLink, CleanUp, CleanedUp
  <2> QED BY <1>4, <2>1, <2>2 DEF AttemptStep
<1>5. ASSUME Sweep \/ SweepStops \/ People \/ UNCHANGED vars PROVE UNCHANGED overlaps
  BY <1>5 DEF Sweep, SweepStarts, SweepRow, SweepMarks, SweepStops, People, HumanOpensPR, HumanPushes, Merge, Close, vars
<1> QED BY <1>1, <1>2, <1>3, <1>4, <1>5 DEF Next

(* Symphony never has two open pull requests for an issue whose attempts work one after the other:   *)
(* an attempt opens one only when it found none, and one that was opened since is of a newer attempt. *)
THEOREM OnePullRequest == Spec => []OnePRPerIssue
<1>1. Init => OnePRPerIssue
  BY DEF Init, OnePRPerIssue
<1>2. ASSUME WorkspaceInv, OnePRPerIssue, [Next]_vars PROVE OnePRPerIssue'
  <2>t. HubTypes /\ AttemptTypes /\ PullRequestsAgree /\ Newer
    BY <1>2, TypesSplit DEF WorkspaceInv
  <2>g. OverlapsGrow
    BY <1>2, NextGrows
  <2>i. ASSUME NEW n \in PR, NEW m \in PR, n # m, prs[n].ours, prs[m].ours, prs[n].issue = prs[m].issue,
               prs[n].state = "open", prs[m].state = "open"
        PROVE  overlaps'[prs[n].issue] > 0
    <3>1. prs[n].issue \in Issue
      BY <2>t, <2>i DEF PullRequestsAgree, Opened
    <3> QED BY <1>2, <2>g, <2>i, <3>1 DEF OnePRPerIssue, OverlapsGrow
  <2>1. ASSUME UNCHANGED prs PROVE OnePRPerIssue'
    BY <2>i, <2>1 DEF OnePRPerIssue
  <2>2. ASSUME NEW a \in Attempt, CreatePullRequest(a) PROVE OnePRPerIssue'
    <3>1. PICK n \in PR :
            prs' = [prs EXCEPT ![n] = [state |-> "open", branch |-> att[a].branch,
                                       issue |-> att[a].issue, ours |-> TRUE]]
      BY <2>2 DEF CreatePullRequest
    <3>2. Running(a) /\ att[a].stage = "publish" /\ \A m \in PR : ~(prs[m].branch = att[a].branch /\ prs[m].state = "open")
      BY <2>2 DEF CreatePullRequest, At
    <3>3. att[a].branch = a /\ att[a].head = Nothing /\ PastFind(a)
      BY <1>2, <3>2 DEF WorkspaceInv, StagesAgree, StageAgrees, Fresh, PlacesAgree, Target, PastFind
    <3>4. ASSUME NEW m \in PR, m # n, prs[m].ours, prs[m].issue = att[a].issue, prs[m].state = "open",
                 ~Together(att[a].issue)
          PROVE  FALSE
      <4>1. prs[m].branch \in Attempt /\ att[prs[m].branch].issue = att[a].issue /\ prs[m].branch # a
        BY <2>t, <3>2, <3>3, <3>4 DEF PullRequestsAgree
      <4>2. prs[m].branch > a
        BY <2>t, <3>3, <3>4, <4>1 DEF Newer
      <4>3. prs[m].branch \in Siblings(a)
        BY <4>1 DEF Siblings, Issued
      <4>4. prs[m].branch < a
        BY <2>t, <3>2, <3>4, <4>3 DEF Newer
      <4>5. prs[m].branch \in Nat /\ a \in Nat
        BY <4>1, AttemptAssumption
      <4> QED BY <4>2, <4>4, <4>5
    <3>5. /\ \A m \in PR \ {n} : prs'[m] = prs[m]
          /\ prs'[n].ours = TRUE /\ prs'[n].issue = att[a].issue
      BY <2>t, <3>1 DEF HubTypes
    <3>6. overlaps' = overlaps
      BY <2>2 DEF CreatePullRequest
    <3> QED BY <2>i, <3>4, <3>5, <3>6 DEF OnePRPerIssue, Together
  <2>3. ASSUME NEW i \in Issue, HumanOpensPR(i) PROVE OnePRPerIssue'
    <3>1. PICK n \in PR :
            prs' = [prs EXCEPT ![n] = [state |-> "open", branch |-> Human, issue |-> i, ours |-> FALSE]]
      BY <2>3 DEF HumanOpensPR
    <3>2. (\A m \in PR \ {n} : prs'[m] = prs[m]) /\ prs'[n].ours = FALSE
      BY <2>t, <3>1 DEF HubTypes
    <3> QED BY <2>i, <3>2 DEF OnePRPerIssue
  <2>4. ASSUME NEW n \in PR, Merge(n) \/ Close(n) PROVE OnePRPerIssue'
    <3>1. PICK s \in {"merged", "closed"} : prs' = [prs EXCEPT ![n].state = s]
      BY <2>4 DEF Merge, Close
    <3>2. \A m \in PR : /\ prs'[m].ours = prs[m].ours /\ prs'[m].issue = prs[m].issue
                        /\ prs'[m].state = "open" => prs[m].state = "open"
      BY <2>t, <3>1 DEF HubTypes
    <3> QED BY <2>i, <3>2 DEF OnePRPerIssue
  <2>5. ASSUME NEW a \in Attempt, AttemptStep(a), ~CreatePullRequest(a) PROVE UNCHANGED prs
    <3>1. CASE (\E i \in Issue : Start(a, i)) \/ Stop(a) \/ Retry(a) \/ FindPullRequests(a) \/ Found(a)
      BY <3>1 DEF Start, Stop, Retry, FindPullRequests, Found, hubVars
    <3>2. CASE (\E p \in Attempt : ReuseWorktree(a, p)) \/ AddWorktree(a) \/ RecordWorkspace(a) \/ Setup(a)
               \/ CodexEdits(a) \/ CodexEnds(a) \/ PublishAgain(a)
      BY <3>2 DEF ReuseWorktree, AddWorktree, RecordWorkspace, Setup, CodexEdits, CodexEnds, PublishAgain, hubVars
    <3>3. CASE ApprovePush(a) \/ EnsureCommit(a) \/ PushBranch(a) \/ StoreCommit(a) \/ RecordPR(a) \/ RecordLink(a)
      BY <3>3 DEF ApprovePush, EnsureCommit, PushBranch, StoreCommit, RecordPR, RecordLink, hubVars
    <3>4. CASE CheckAgain(a) \/ CleanUp(a) \/ CleanedUp(a)
      BY <3>4 DEF CheckAgain, CleanUp, CleanedUp, hubVars
    <3> QED BY <2>5, <3>1, <3>2, <3>3, <3>4 DEF AttemptStep
  <2>6. ASSUME Sweep \/ SweepStops \/ (\E n \in PR : HumanPushes(n)) \/ UNCHANGED vars PROVE UNCHANGED prs
    BY <2>6 DEF Sweep, SweepStarts, SweepRow, SweepMarks, SweepStops, HumanPushes, vars, hubVars
  <2> QED BY <1>2, <2>1, <2>2, <2>3, <2>4, <2>5, <2>6 DEF Next, People
<1> QED BY <1>1, <1>2, WorkspacesAgree, PTL DEF Spec

(* A worktree is removed only when a pull request of its branch was merged, if no action stops while *)
(* it looks for the pull requests of the issue: then a row, an attempt and a path that the cleanup   *)
(* puts together are of one branch.                                                                  *)
THEOREM MergedFirst == "found" \notin Windows => (Spec => RemovedAfterMerge)
<1> SUFFICES ASSUME "found" \notin Windows PROVE Spec => RemovedAfterMerge
  OBVIOUS
<1> DEFINE Allowed == \A p \in Attempt : Present(p) /\ ~Present(p)' =>
                        \E n \in PR : prs[n].branch = worktree[p].branch /\ prs[n].state = "merged"
<1>1. ASSUME WorkspaceInv, [Next]_vars PROVE Allowed
  <2>t. AttemptTypes /\ GitTypes /\ RowTypes /\ SweepTypes /\ PlacesAgree /\ PullRequestsAgree /\ RowsAgree
    BY <1>1, TypesSplit DEF WorkspaceInv
  <2>1. ASSUME UNCHANGED worktree PROVE Allowed
    BY <2>1 DEF Present
  <2>2. ASSUME NEW p \in Attempt, NEW n \in PR, Removed(n, p), prs[n].state = "merged",
               prs[n].branch = Target(p)
        PROVE  Allowed
    <3>1. \A q \in Attempt \ {p} : Present(q)' <=> Present(q)
      BY <2>2, <2>t DEF Removed, gitVars, Present, GitTypes
    <3>2. Present(p) => worktree[p].branch = Target(p)
      BY <2>t DEF PlacesAgree
    <3> QED BY <2>2, <3>1, <3>2
  <2>3. ASSUME NEW a \in Attempt, CleanUp(a) PROVE Allowed
    <3>1. RowsOf(a) \in SUBSET PR /\ RowsOf(a) # {} /\ att[a].stage = "cleanup"
      BY <2>3 DEF CleanUp, RowsOf, At
    <3>2. PICK n \in PR : n = Max(RowsOf(a)) /\ row[n].attempt = a
      BY <3>1, MaxIsThere DEF RowsOf
    <3>3. Removed(n, att[a].path) /\ row[n].merged
      BY <2>3, <3>2 DEF CleanUp
    <3>4. PICK p \in Attempt : p = att[a].path
      BY <1>1, <3>1, <2>t DEF WorkspaceInv, StagesAgree, StageAgrees, Fresh, AttemptTypes, AttType
    <3>5. prs[n].state = "merged" /\ prs[n].branch = Target(a) /\ Target(p) = Target(a)
      BY <3>2, <3>3, <3>4, <2>t, Numbers DEF PullRequestsAgree, RowsAgree, PlacesAgree
    <3> HIDE DEF Allowed
    <3> QED BY <2>2, <3>3, <3>4, <3>5
  <2>4. ASSUME NEW n \in PR, SweepRow(n) PROVE Allowed
    <3>1. NextRow \in sweep /\ NextRow.pr = n
      BY <2>4, <2>t, NextRowIsThere DEF SweepRow
    <3>2. PICK p \in Attempt : p = NextRow.path
      BY <3>1, <2>t DEF SweepTypes
    <3>3. CASE IsMerged(n)
      <4>1. Removed(n, p) /\ prs[n].state = "merged" /\ prs[n].branch = Target(p)
        BY <2>4, <3>1, <3>2, <3>3, <2>t DEF SweepRow, IsMerged, RowsAgree
      <4> HIDE DEF Allowed
      <4> QED BY <2>2, <4>1
    <3>4. CASE ~IsMerged(n)
      <4>1. UNCHANGED worktree
        BY <2>4, <3>4 DEF SweepRow, gitVars
      <4> HIDE DEF Allowed
      <4> QED BY <2>1, <4>1
    <3> QED BY <3>3, <3>4
  <2>5. ASSUME NEW a \in Attempt, AddWorktree(a) PROVE Allowed
    BY <2>5, <2>t, Numbers DEF AddWorktree, GitTypes, Present
  <2>6. ASSUME NEW a \in Attempt, EnsureCommit(a) \/ CodexEdits(a) PROVE Allowed
    <3>1. att[a].path \in Attempt
      BY <1>1, <2>6, WorkspaceIsThere DEF EnsureCommit, CodexEdits
    <3>2. PICK p \in Attempt : p = att[a].path
      BY <3>1
    <3>3. \E d \in BOOLEAN : worktree' = [worktree EXCEPT ![p].dirty = d]
      BY <2>6, <3>2 DEF EnsureCommit, CodexEdits
    <3>4. \A q \in Attempt : worktree'[q].branch = worktree[q].branch
      BY <3>3, <2>t DEF GitTypes
    <3> QED BY <3>4 DEF Present
  <2>7. ASSUME NEW a \in Attempt, PushBranch(a) PROVE UNCHANGED worktree
    BY <2>7 DEF PushBranch, gitVars
  <2>8. ASSUME (\E n \in PR : HumanPushes(n)) \/ (\E i \in Issue : HumanOpensPR(i)) PROVE UNCHANGED worktree
    BY <2>8 DEF HumanPushes, HumanOpensPR, gitVars
  <2> HIDE DEF Allowed
  <2> QED BY <1>1, <2>1, <2>3, <2>4, <2>5, <2>6, <2>7, <2>8, BranchSteps
<1>2. [Next]_vars /\ WorkspaceInv => [Allowed]_vars
  BY <1>1
<1> QED BY <1>2, WorkspacesAgree, PTL DEF Spec, RemovedAfterMerge

=============================================================================
