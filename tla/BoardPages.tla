----------------------------- MODULE BoardPages -----------------------------
(***************************************************************************)
(* What a source's board shows of the source items and cards: the backlog, *)
(* with pull requests under the issues they are linked to, a column for    *)
(* each state of the cards, a search over both, and the pages of a list.   *)
(*                                                                         *)
(* A board is a record b: the source items (kind; open: open and not       *)
(* ignored), the issue_pr links, the cards (state, active, primary, links),*)
(* and found: the items a query matches, or NoQuery.                       *)
(***************************************************************************)
EXTENDS Integers, Sequences, FiniteSets, FiniteSetsExt

CONSTANTS
    DefaultLimit,   \* SOURCE_ITEM_PAGE_SIZE, WORK_ITEM_PAGE_SIZE
    NoQuery         \* the search field is blank

-----------------------------------------------------------------------------
(* The backlog. *)

Filtered(b, x, matching) == b.found = NoQuery \/ x \in matching

(* An issue is found by its pull requests, too. *)
VisibleMatches(b) ==
    IF b.found = NoQuery THEN {} ELSE b.found \cup {l[1] : l \in {l \in b.link : l[2] \in b.found}}

(* Whatever has a card, even one that is archived, is not in the backlog. *)
OnSomeCard(b) == UNION {b.card[c].links : c \in DOMAIN b.card}
Candidates(b, kinds) ==
    {x \in DOMAIN b.item : /\ b.item[x].open /\ b.item[x].kind \in kinds
                           /\ x \notin OnSomeCard(b)
                           /\ Filtered(b, x, VisibleMatches(b))}

(* The pull requests shown under an issue, of those that would be shown. *)
Under(b, rows, x) == {p \in rows : b.item[x].kind = "issue" /\ <<x, p>> \in b.link}
Backlog(b, kinds) ==
    LET rows == Candidates(b, kinds) IN rows \ UNION {Under(b, rows, x) : x \in rows}

-----------------------------------------------------------------------------
(* The columns. *)

MatchingCards(b) ==
    {c \in DOMAIN b.card : b.card[c].active /\ b.card[c].links \cap b.found # {}}

Column(b, state, kinds) ==
    {c \in DOMAIN b.card : /\ b.card[c].state = state /\ b.card[c].active
                           /\ b.item[b.card[c].primary].kind \in kinds
                           /\ b.found = NoQuery \/ c \in MatchingCards(b)}

-----------------------------------------------------------------------------
(* Pages. *)

PositivePage(page) == IF page > 0 THEN page ELSE 1
PositiveLimit(limit) == IF limit > 0 THEN limit ELSE DefaultLimit
LastPage(total, limit) == ((total - 1) \div limit) + 1
ClampedPage(page, total, limit) ==
    IF total = 0 THEN 1 ELSE Min({page, LastPage(total, limit)})

PageOf(rows, page, limit) ==
    LET size == PositiveLimit(limit)
        number == ClampedPage(PositivePage(page), Len(rows), size)
        offset == (number - 1) * size IN
    [items |-> SubSeq(rows, offset + 1, Min({offset + size, Len(rows)})),
     total |-> Len(rows), page |-> number, limit |-> size]

StartIndex(p) == IF p.total = 0 THEN 0 ELSE (p.page - 1) * p.limit + 1
EndIndex(p) == Min({p.page * p.limit, p.total})
HasPrevious(p) == p.page > 1
HasNext(p) == p.page * p.limit < p.total
=============================================================================
