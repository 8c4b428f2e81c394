---------------------------- MODULE MCSourceSync ----------------------------
(***************************************************************************)
(* Instances of SourceSync for TLC.  GitHub numbers issues and pull        *)
(* requests together.  And every small board for BoardPages.               *)
(***************************************************************************)
EXTENDS SourceSync, Integers, Sequences

CONSTANTS t1, r1

OneIssue == {1}
OneTicket == {t1}
TwoPRs == {5, 6}
OneRequest == {r1}

-----------------------------------------------------------------------------
Pages == INSTANCE BoardPages WITH DefaultLimit <- 3, NoQuery <- {"no query"}

Rows(n) == [i \in 1..n |-> i]

(* The pages of a list, followed from any of them by their links, show every row once, in *)
(* order, and say which; a page that does not exist is the nearest one that does.         *)
ASSUME PagesAssumption ==
    \A n \in 0..7, limit \in -1..4, page \in -1..9 :
        LET p == Pages!PageOf(Rows(n), page, limit)
            next == Pages!PageOf(Rows(n), p.page + 1, limit)
            previous == Pages!PageOf(Rows(n), p.page - 1, limit) IN
        /\ p.items = (IF n = 0 THEN <<>>
                      ELSE SubSeq(Rows(n), Pages!StartIndex(p), Pages!EndIndex(p)))
        /\ n > 0 => p.items # <<>>
        /\ IF Pages!HasNext(p) THEN Pages!StartIndex(next) = Pages!EndIndex(p) + 1
                               ELSE next = p /\ Pages!EndIndex(p) = n
        /\ IF Pages!HasPrevious(p) THEN Pages!EndIndex(previous) + 1 = Pages!StartIndex(p)
                                   ELSE previous = p /\ Pages!StartIndex(p) = Min({n, 1})

(* Two issues and two pull requests, one card and one that is archived.                   *)
ItemIds == {"i1", "i2", "p1", "p2"}
KindOf(x) == IF x \in {"i1", "i2"} THEN "issue" ELSE "pull_request"
Kinds == {"issue", "pull_request"}
Boards == [open : SUBSET ItemIds, link : SUBSET ({"i1", "i2"} \X {"p1", "p2"}),
           on : SUBSET ItemIds, archived : SUBSET {"i2"}, found : SUBSET ItemIds \cup {{"no query"}}]
BoardOf(b) ==
    [item |-> [x \in ItemIds |-> [kind |-> KindOf(x), open |-> x \in b.open]],
     link |-> b.link, found |-> b.found,
     card |-> [c \in (IF b.on = {} THEN {} ELSE {"card"}) \cup (IF b.archived = {} THEN {} ELSE {"archived"}) |->
                 IF c = "card"
                 THEN [state |-> "todo", active |-> TRUE, primary |-> CHOOSE x \in b.on : TRUE, links |-> b.on]
                 ELSE [state |-> "done", active |-> FALSE, primary |-> "i2", links |-> b.archived]]]
ShownInBacklog(b) ==
    LET rows == Pages!Candidates(b, Kinds) IN
    Pages!Backlog(b, Kinds) \cup UNION {Pages!Under(b, rows, x) : x \in Pages!Backlog(b, Kinds)}

(* An open item that has no card is in the backlog, as a row or under one, and a search   *)
(* that finds it shows it; one that has a card is not, and a search that finds it shows   *)
(* the card.                                                                              *)
ASSUME BacklogAssumption ==
    \A short \in Boards :
        LET b == BoardOf(short) IN
        \A x \in short.open :
            IF x \in short.on \cup short.archived
            THEN /\ x \notin ShownInBacklog(b)
                 /\ (x \in short.on \cap short.found) => "card" \in Pages!Column(b, "todo", Kinds)
            ELSE (short.found = {"no query"} \/ x \in short.found) => x \in ShownInBacklog(b)
=============================================================================
