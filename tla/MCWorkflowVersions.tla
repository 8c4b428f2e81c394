------------------------- MODULE MCWorkflowVersions -------------------------
(***************************************************************************)
(* Instances of WorkflowVersions for TLC, and definitions that must be     *)
(* refused; and of WorkflowEdit, for every small edit of a file.           *)
(***************************************************************************)
EXTENDS WorkflowVersions

CONSTANTS a1

OneAttempt == {a1}

\* Codex works, a person decides on the push, and the pull request is looked at.
First == [initial |-> "claimed", terminals |-> {"done", "failed"},
    states |-> [s \in {"claimed", "ready", "reviewing", "pushed", "done", "failed"} |-> s \in {"done", "failed"}],
    transitions |->
        "find_issue_pull_requests" :> Transition("claimed", "ready", "github.find_issue_pull_requests") @@
        "fix" :> Transition("ready", "reviewing", "codex.fix_issue") @@
        "push" :> [Transition("reviewing", "pushed", "github.push_pr_update") EXCEPT !.human = TRUE, !.gate = TRUE] @@
        "fetch" :> Transition("pushed", "done", "github.fetch_pull_request")]

\* Other states, with two checks in a group, and a condition that is accepted although
\* no process can evaluate it; entered by the transition of the given name.
Other(entry) == [initial |-> "allocated", terminals |-> {"done", "failed"},
    states |-> [s \in {"allocated", "reviewing", "published", "done", "failed"} |-> s \in {"done", "failed"}],
    transitions |->
        entry :> Transition("allocated", "reviewing", "workspace.allocate") @@
        "push" :> [Transition("reviewing", "published", "github.push_pr_update") EXCEPT !.human = TRUE, !.gate = TRUE] @@
        "ci" :> [Transition("published", "done", "github.fetch_ci_status") EXCEPT !.group = "checks"] @@
        "comments" :> [Transition("published", "done", "github.fetch_pr_review_comments")
                       EXCEPT !.group = "checks", !.condition = "unsupported"]]

\* Accepted, though what an instance is entered by is called something else in it: it is
\* created in "claimed", which is none of its states.
Second == Other("prepare")
ASSUME EntryAssumption ==
    /\ EntryState(First) = "claimed" /\ EntryState(Other("allocate_workspace")) = "allocated"
    /\ EntryState(Second) \notin States(Second)

\* Refused: a gate leads to a state that is not defined.
Astray == [First EXCEPT !.transitions = @ @@
    "drop" :> [Transition("reviewing", "gone", "workflow.noop") EXCEPT !.human = TRUE, !.gate = TRUE]]

Contents == {"first", "second", "astray"}
Definitions == [c \in Contents |-> CASE c = "first" -> First [] c = "second" -> Second [] c = "astray" -> Astray]

Change(name, field, value) == [First EXCEPT !.transitions[name] = [@ EXCEPT ![field] = value]]
ASSUME RefusedAssumption ==
    /\ ~Accepts([First EXCEPT !.initial = "gone"])
    /\ ~Accepts([First EXCEPT !.terminals = @ \cup {"gone"}])
    /\ ~Accepts([First EXCEPT !.terminals = @ \cup {"reviewing"}])
    /\ ~Accepts([First EXCEPT !.states = @ @@ "lonely" :> FALSE])
    /\ ~Accepts(Change("fix", "from", "done"))
    /\ ~Accepts(Change("fix", "onFailure", "gone"))
    /\ ~Accepts(Change("fix", "action", "codex.unheard"))
    /\ ~Accepts(Change("push", "gate", FALSE))
    /\ ~Accepts(Change("find_issue_pull_requests", "human", TRUE))
    /\ ~Accepts(Change("fix", "in", {"pull_request_number"}))
    /\ ~Accepts(Change("fix", "group", "alone"))
    /\ ~Accepts(Change("fix", "limit", -1))
    /\ Accepts(First) /\ Accepts(Second) /\ Accepts(Other("allocate_workspace"))

-----------------------------------------------------------------------------
Edit == INSTANCE WorkflowEdit WITH
    GoodBlock <- {"good", "better"}, BadBlock <- {"bad"}, Heading <- {"heading"},
    Refused <- <<"refused">>

(* An edit script keeps, removes and adds lines; difflib prints the lines from i to j of  *)
(* it as a hunk, with the number of the line before it if it has no old line.            *)
Scripts == UNION {[1..n -> [marker : {" ", "-", "+"}, text : {"x", "y"}]] : n \in 1..4}
Texts(script, markers) ==
    LET lines == SelectSeq(script, LAMBDA line : line.marker \in markers) IN
    [k \in DOMAIN lines |-> lines[k].text]
Before(script) == Texts(script, {" ", "-"})
After(script) == Texts(script, {" ", "+"})
Unchanged(script, ks) == \A k \in ks : script[k].marker = " "
HunkOf(script, i, j) ==
    LET old == Before(SubSeq(script, i, j))
        above == Len(Before(SubSeq(script, 1, i - 1))) IN
    <<Edit!Hunk(above + (IF old = <<>> THEN 0 ELSE 1))>> \o SubSeq(script, i, j)

(* A diff of one hunk or two, with as much context as it likes, gives the file it was     *)
(* made for; a hunk of additions alone, which has no context, goes in one line too early. *)
ASSUME PatchAssumption ==
    \A script \in Scripts : \A i, j \in DOMAIN script :
        (i <= j /\ Unchanged(script, DOMAIN script \ (i..j))) =>
            LET hunk == SubSeq(script, i, j)
                patched == Edit!Patched(Before(script), HunkOf(script, i, j)) IN
            IF Before(hunk) # <<>> THEN patched = After(script)
            ELSE IF i = 1 THEN patched = <<"refused">>
            ELSE patched = After(SubSeq(script, 1, i - 2) \o hunk
                                 \o SubSeq(script, i - 1, i - 1)
                                 \o SubSeq(script, j + 1, Len(script)))
ASSUME TwoHunksAssumption ==
    \A script \in Scripts : \A i, j, k \in DOMAIN script :
        /\ i <= j /\ j < k /\ Unchanged(script, DOMAIN script \ (i..j \cup {k}))
        /\ Before(SubSeq(script, i, j)) # <<>> /\ script[k].marker # "+"
        => Edit!Patched(Before(script), HunkOf(script, i, j) \o HunkOf(script, k, k))
             = After(script)

(* A diff that was made for another file is refused, or fits this one line by line.       *)
ASSUME ForeignAssumption ==
    \A script \in Scripts, other \in UNION {[1..n -> {"x", "y"}] : n \in 0..3} :
        LET patched == Edit!Patched(other, HunkOf(script, 1, Len(script)))
            old == Before(script) IN
        (old # <<>> /\ patched # <<"refused">>) =>
            /\ Len(old) <= Len(other) /\ SubSeq(other, 1, Len(old)) = old
            /\ patched = After(script) \o SubSeq(other, Len(old) + 1, Len(other))

(* Of an answer that is no diff, what is proposed is valid if either reading of it is, and *)
(* a block on its own leaves the prose as it was.                                          *)
Files == {f \in UNION {[1..n -> {"heading", "prose", "good", "better", "bad"}] : n \in 1..3} :
            Cardinality({k \in DOMAIN f : f[k] \in {"good", "better", "bad"}}) <= 1}
ASSUME NormalizedAssumption ==
    \A current, other \in Files :
        LET answer == [kind |-> "text", diff |-> <<>>, file |-> other]
            proposal == Edit!Proposal(current, <<"request">>, answer)
            replaced == Edit!BlockReplaced(current, other)
            valid == Edit!Valid(other) \/ (replaced # <<"refused">> /\ Edit!Valid(replaced)) IN
        /\ proposal.error = ~valid
        /\ (~Edit!Complete(other) /\ Edit!HasBlock(current) /\ Edit!Valid(other)) =>
              \A k \in DOMAIN current :
                proposal.file[k] = IF k = Edit!BlockAt(current) THEN other[Edit!BlockAt(other)]
                                   ELSE current[k]
=============================================================================
