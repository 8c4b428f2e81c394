----------------------------- MODULE SourceSync -----------------------------
(***************************************************************************)
(* A source (one GitHub repository and its filters), the source items that *)
(* mirror its issues and pull requests, the local tickets beside them, and *)
(* what a sync does to the cards of the board.                             *)
(*                                                                         *)
(* A sync is a request thread: it reads the issues, then the pull          *)
(* requests, then applies both in one transaction.  Several may run at     *)
(* once, while people change things on GitHub and on the board and while a *)
(* worker opens a pull request for a card.  A card is named by its primary *)
(* source item; an archived card and its successor share the name.         *)
(***************************************************************************)
EXTENDS Naturals, FiniteSets, FiniteSetsExt

CONSTANTS
    Issue, PullRequest,   \* the numbers of both, on GitHub
    Ticket,               \* local tickets
    Request,              \* request threads that sync
    Overlap,              \* whether a sync may overlap another, a new pull request
                          \* of a worker, or the deletion of the source
    PageSize,             \* per_page of GitHub's lists, which are read once
    MaxChanges,           \* bound on what people do on GitHub
    MaxCardMoves,         \* bound on what they do on the board and to the source
    Nothing               \* no active pull request

Primary == Issue \cup Ticket \cup PullRequest
Pair == (Issue \cup Ticket) \X PullRequest

ASSUME ItemAssumption ==
    /\ Issue \cap Ticket = {} /\ (Issue \cup Ticket) \cap PullRequest = {}
    /\ Issue \cup PullRequest \subseteq Nat
    /\ Nothing \notin Primary
ASSUME BoundAssumption ==
    /\ Overlap \in BOOLEAN
    /\ PageSize \in Nat /\ MaxChanges \in Nat /\ MaxCardMoves \in Nat

VARIABLES
    hub,       \* GitHub's issues and pull requests: state, and whether they match
               \* the filters; body: the markers in a pull request's description
    closed,    \* what has been closed on GitHub at some time
    unlisted,  \* what has stopped matching the filters at some time
    source,    \* the source: absent, enabled or disabled
    item,      \* source items: none, open or closed
    link,      \* source_item_links: the pairs, and who vouches for each
    card,      \* work items: state, active; primary, active pull request, links
    opened,    \* pull requests opened for a card that are still to be recorded, and
               \* whether the card is still the one of its name
    pc, hand,  \* the syncs and what they have read
    changes, moves

hubVars == <<hub, closed, unlisted, changes>>
rowVars == <<item, link, card>>
syncVars == <<pc, hand>>
vars == <<hubVars, source, rowVars, opened, syncVars, moves>>

NoCard == [state |-> "none", active |-> FALSE, byGitHub |-> FALSE, pr |-> Nothing, links |-> {}]
NoHand == [issues |-> {}, prs |-> {}, bodies |-> [p \in PullRequest |-> {}]]

Init ==
    /\ hub = [x \in Issue \cup PullRequest |-> [state |-> "none", match |-> TRUE, body |-> {}]]
    /\ closed = {} /\ unlisted = {}
    /\ source = "enabled"
    /\ item = [x \in Primary |-> "none"]
    /\ link = [s \in Pair |-> "none"]
    /\ card = [s \in Primary |-> NoCard]
    /\ opened = {}
    /\ pc = [t \in Request |-> "idle"]
    /\ hand = [t \in Request |-> NoHand]
    /\ changes = 0 /\ moves = 0

Syncing == {t \in Request : pc[t] # "idle"}
Cards == {s \in Primary : card[s].state # "none"}

-----------------------------------------------------------------------------
(***************************************************************************)
(* GitHub                                                                  *)
(***************************************************************************)

Change == changes < MaxChanges /\ changes' = changes + 1
OnGitHub == UNCHANGED <<source, rowVars, opened, syncVars, moves>>

Opens(x) ==
    /\ Change
    /\ hub[x].state # "open"
    /\ hub' = [hub EXCEPT ![x].state = "open"]
    /\ UNCHANGED <<closed, unlisted>> /\ OnGitHub

\* A person puts the marker of an issue or ticket into a description, or takes it out.
Describes(p, s) ==
    /\ Change
    /\ hub[p].state = "open"
    /\ hub' = [hub EXCEPT ![p].body = IF s \in @ THEN @ \ {s} ELSE @ \cup {s}]
    /\ UNCHANGED <<closed, unlisted>> /\ OnGitHub

Closes(x) ==
    /\ Change
    /\ hub[x].state = "open"
    /\ hub' = [hub EXCEPT ![x].state = "closed"]
    /\ closed' = closed \cup {x}
    /\ UNCHANGED unlisted /\ OnGitHub

\* A label changes, for instance the one that claiming an issue removes.
Relabels(x) ==
    /\ Change
    /\ hub[x].state = "open"
    /\ hub' = [hub EXCEPT ![x].match = ~@]
    /\ unlisted' = IF hub[x].match THEN unlisted \cup {x} ELSE unlisted
    /\ UNCHANGED closed /\ OnGitHub

-----------------------------------------------------------------------------
(***************************************************************************)
(* sync_source                                                             *)
(***************************************************************************)

BeginSync(t) ==
    /\ pc[t] = "idle"
    /\ source = "enabled"
    /\ Overlap \/ Syncing = {}
    /\ pc' = [pc EXCEPT ![t] = "issues"]
    /\ UNCHANGED <<hubVars, source, rowVars, opened, hand, moves>>

(* One page of a list, the newest first; the filters are applied to it. *)
Listed(Kind) ==
    LET open == {x \in Kind : hub[x].state = "open"} IN
    {x \in open : hub[x].match /\ Cardinality({y \in open : y > x}) < PageSize}

FetchIssues(t) ==
    /\ pc[t] = "issues"
    /\ hand' = [hand EXCEPT ![t].issues = Listed(Issue)]
    /\ pc' = [pc EXCEPT ![t] = "prs"]
    /\ UNCHANGED <<hubVars, source, rowVars, opened, moves>>

FetchPullRequests(t) ==
    /\ pc[t] = "prs"
    /\ hand' = [hand EXCEPT ![t].prs = Listed(PullRequest),
                            ![t].bodies = [p \in PullRequest |-> IF p \in Listed(PullRequest)
                                                                 THEN hub[p].body ELSE {}]]
    /\ pc' = [pc EXCEPT ![t] = "apply"]
    /\ UNCHANGED <<hubVars, source, rowVars, opened, moves>>

\* Mutant: a row that exists keeps its state.
UpsertedNewOnly(h) ==
    [x \in Primary |->
      IF x \in Ticket THEN item[x]
      ELSE IF x \in h.issues \cup h.prs
      THEN (IF item[x] = "none" THEN "open" ELSE item[x])
      ELSE IF item[x] = "none" THEN "none" ELSE "closed"]

(* The rows of issues and pull requests: what was listed is open, the rest closed. *)
Upserted(h) ==
    [x \in Primary |->
      IF x \in Ticket THEN item[x]
      ELSE IF x \in h.issues \cup h.prs THEN "open"
      ELSE IF item[x] = "none" THEN "none" ELSE "closed"]

\* Mutant: a link that is there is never verified again.
VerifiedOnce(h, rows) ==
    [s \in Pair |->
      IF rows[s[1]] = "open" /\ rows[s[2]] = "open" /\ s[1] \in h.bodies[s[2]]
      THEN "marker" ELSE link[s]]

(* A link holds while both ends are open and the description has the marker; one that   *)
(* Symphony made is kept until a marker has vouched for it.                             *)
Verified(h, rows) ==
    [s \in Pair |->
      IF rows[s[1]] = "open" /\ rows[s[2]] = "open" /\ s[1] \in h.bodies[s[2]]
      THEN "marker"
      ELSE IF link[s] = "marker" THEN "none" ELSE link[s]]

LinkedTo(s, links) == {p \in PullRequest : s \notin PullRequest /\ links[<<s, p>>] # "none"}

WithLinks(c, prs) == [c EXCEPT !.links = @ \cup prs]

\* Mutant: only a card that already has a pull request gets the others.
AttachedSome(links, first) ==
    [s \in Primary |->
      IF card[s].state \in {"none", "done"} \/ card[s].pr = Nothing THEN card[s]
      ELSE WithLinks(card[s], LinkedTo(s, links))]

(* Linked pull requests join the card, and one becomes its active one; which of several *)
(* comes first depends on the order of rows.                                            *)
Attached(links, first) ==
    [s \in Primary |->
      LET linked == LinkedTo(s, links) IN
      IF card[s].state \in {"none", "done"} \/ linked = {} THEN card[s]
      ELSE [WithLinks(card[s], linked) EXCEPT
              !.pr = IF @ # Nothing THEN @ ELSE IF first \in linked THEN first ELSE Min(linked)]]

\* Mutant: any linked pull request that is not open completes the card.
CompletedOutcomeByLinks(s, c, rows) ==
    \/ s \in Issue \cup PullRequest /\ rows[s] # "open"
    \/ \E p \in PullRequest \cap c.links : rows[p] # "open"

CompletionOutcome(s, c, rows) ==
    \/ s \in Issue \cup PullRequest /\ rows[s] # "open"
    \/ c.pr # Nothing /\ rows[c.pr] # "open"

AutoCompleted(cards, rows) ==
    [s \in Primary |->
      LET c == cards[s] IN
      IF c.state = "open" /\ c.active /\ CompletionOutcome(s, c, rows)
      THEN [c EXCEPT !.state = "done", !.byGitHub = TRUE]
      ELSE c]

SyncEnds(t) ==
    /\ pc' = [pc EXCEPT ![t] = "idle"]
    /\ hand' = [hand EXCEPT ![t] = NoHand]

\* The items are written even when the source has been deleted; links are not.
Apply(t) ==
    LET rows == Upserted(hand[t])
        links == IF source = "absent" THEN link ELSE Verified(hand[t], rows) IN
    /\ pc[t] = "apply"
    /\ item' = rows
    /\ link' = links
    /\ \E first \in PullRequest :
         card' = AutoCompleted(IF source = "absent" THEN card ELSE Attached(links, first), rows)
    /\ SyncEnds(t)
    /\ UNCHANGED <<hubVars, source, opened, moves>>

\* A request to GitHub or the transaction fails, or the server dies.
FailSync(t) ==
    /\ pc[t] # "idle"
    /\ moves < MaxCardMoves
    /\ moves' = moves + 1
    /\ SyncEnds(t)
    /\ UNCHANGED <<hubVars, source, rowVars, opened>>

-----------------------------------------------------------------------------
(***************************************************************************)
(* The board and its workers                                               *)
(***************************************************************************)

Move == moves < MaxCardMoves /\ moves' = moves + 1
OnBoard == UNCHANGED <<hubVars, opened, syncVars>>

CreateLocalTicket(x) ==
    /\ Move
    /\ source # "absent"
    /\ x \in Ticket /\ item[x] = "none"
    /\ item' = [item EXCEPT ![x] = "open"]
    /\ UNCHANGED <<source, link, card>> /\ OnBoard

LinkedPRs(s) == {p \in LinkedTo(s, link) : s \in Issue /\ item[p] = "open"}

ActivePR(s, prs) ==
    IF s \in PullRequest THEN s ELSE IF prs = {} THEN Nothing ELSE Min(prs)

(* A link of a local ticket is not looked at; the next sync attaches it.  A worker of *)
(* the archived card before records its pull request there.                           *)
ActivateSourceItem(s) ==
    LET prs == LinkedPRs(s) IN
    /\ Move
    /\ item[s] # "none"
    /\ ~\E c \in Cards : card[c].active /\ s \in card[c].links
    /\ card' = [card EXCEPT ![s] = [state |-> "open", active |-> TRUE, byGitHub |-> FALSE,
                                   pr |-> ActivePR(s, prs), links |-> {s} \cup prs]]
    /\ opened' = {[o EXCEPT !.current = @ /\ o.of # s] : o \in opened}
    /\ UNCHANGED <<hubVars, syncVars, source, item, link>>

\* A user moves the card on, out of done too and even an archived one, or archives it.
MoveWorkItem(s) ==
    /\ Move
    /\ s \in Cards
    /\ card' = [card EXCEPT ![s].state = IF @ = "done" THEN "open" ELSE "done",
                            ![s].byGitHub = FALSE]
    /\ UNCHANGED <<source, item, link>> /\ OnBoard

ArchiveWorkItem(s) ==
    /\ Move
    /\ card[s].active
    /\ card' = [card EXCEPT ![s].state = "done", ![s].active = FALSE, ![s].byGitHub = FALSE]
    /\ UNCHANGED <<source, item, link>> /\ OnBoard

\* Of the pull requests of the card, a user selects the one to work on.
SelectActivePR(s, p) ==
    /\ Move
    /\ s \in Cards /\ p \in card[s].links /\ card[s].pr # p
    /\ card' = [card EXCEPT ![s].pr = p]
    /\ UNCHANGED <<source, item, link>> /\ OnBoard

OpenPullRequest(s, p) ==
    /\ Change
    /\ Overlap \/ Syncing = {}
    /\ s \notin PullRequest /\ card[s].state # "none" /\ card[s].pr = Nothing
    /\ \A o \in opened : o.of # s
    /\ hub[p].state = "none"
    /\ hub' = [hub EXCEPT ![p].state = "open", ![p].body = {s}]
    /\ opened' = opened \cup {[of |-> s, pr |-> p, current |-> TRUE]}
    /\ UNCHANGED <<closed, unlisted, source, rowVars, syncVars, moves>>

LinkRecorded(o) == link' = [link EXCEPT ![<<o.of, o.pr>>] = "created"]

RecordCreatedPullRequest(o) ==
    /\ o \in opened
    /\ opened' = opened \ {o}
    /\ item' = [item EXCEPT ![o.pr] = "open"]
    /\ LinkRecorded(o)
    /\ card' = IF ~o.current THEN card
               ELSE [card EXCEPT ![o.of] = [WithLinks(@, {o.pr}) EXCEPT !.pr = o.pr]]
    /\ UNCHANGED <<hubVars, source, syncVars, moves>>

UpdateSource ==
    /\ Move
    /\ source # "absent"
    /\ source' = IF source = "enabled" THEN "disabled" ELSE "enabled"
    /\ UNCHANGED rowVars /\ OnBoard

DeleteSourceDependents ==
    /\ item' = [x \in Primary |-> "none"]
    /\ link' = [s \in Pair |-> "none"]
    /\ card' = [s \in Primary |-> NoCard]

DeleteSource ==
    /\ Move
    /\ source # "absent"
    /\ Overlap \/ Syncing = {}
    /\ source' = "absent"
    /\ DeleteSourceDependents
    /\ opened' = {}   \* their cards are gone: nothing will be recorded
    /\ UNCHANGED <<hubVars, syncVars>>

CreateSource ==
    /\ Move
    /\ source = "absent"
    /\ source' = "enabled"
    /\ UNCHANGED rowVars /\ OnBoard

-----------------------------------------------------------------------------
GitHub ==
    \/ \E x \in Issue \cup PullRequest : Opens(x) \/ Closes(x) \/ Relabels(x)
    \/ \E p \in PullRequest, s \in Issue \cup Ticket : Describes(p, s)

Sync(t) == BeginSync(t) \/ FetchIssues(t) \/ FetchPullRequests(t) \/ Apply(t)

Board ==
    \/ \E x \in Primary :
         CreateLocalTicket(x) \/ ActivateSourceItem(x) \/ MoveWorkItem(x) \/ ArchiveWorkItem(x)
    \/ \E s \in Primary, p \in PullRequest : SelectActivePR(s, p)
    \/ \E s \in Issue \cup Ticket, p \in PullRequest : OpenPullRequest(s, p)
    \/ \E o \in opened : RecordCreatedPullRequest(o)
    \/ UpdateSource \/ DeleteSource \/ CreateSource

Next == GitHub \/ (\E t \in Request : Sync(t) \/ FailSync(t)) \/ Board

\* A user syncs again and again; nobody is obliged to anything else.
Spec == Init /\ [][Next]_vars /\ \A t \in Request : WF_vars(Sync(t))

-----------------------------------------------------------------------------
(***************************************************************************)
(* Properties                                                              *)
(***************************************************************************)

(* Every variable has its type. *)
TypeOK ==
    /\ hub \in [Issue \cup PullRequest ->
         [state : {"none", "open", "closed"}, match : BOOLEAN, body : SUBSET (Issue \cup Ticket)]]
    /\ closed \cup unlisted \subseteq Issue \cup PullRequest
    /\ source \in {"absent", "enabled", "disabled"}
    /\ item \in [Primary -> {"none", "open", "closed"}]
    /\ link \in [Pair -> {"none", "marker", "created"}]
    /\ card \in [Primary -> [state : {"none", "open", "done"}, active : BOOLEAN,
         byGitHub : BOOLEAN, pr : PullRequest \cup {Nothing}, links : SUBSET Primary]]
    /\ opened \subseteq [of : Issue \cup Ticket, pr : PullRequest, current : BOOLEAN]
    /\ pc \in [Request -> {"idle", "issues", "prs", "apply"}]
    /\ hand \in [Request -> [issues : SUBSET Issue, prs : SUBSET PullRequest,
                             bodies : [PullRequest -> SUBSET (Issue \cup Ticket)]]]
    /\ changes \in 0..MaxChanges /\ moves \in 0..MaxCardMoves

(* A sync completes a card only when its primary item, or the pull request it works on,   *)
(* has been closed on GitHub or has stopped matching the filters.                         *)
Completed(s) == card'[s].byGitHub /\ ~card[s].byGitHub
CompletedByGitHub ==
    [][\A s \in Primary : Completed(s) => {s, card'[s].pr} \cap (closed \cup unlisted) # {}]_vars

(* A link that rests on a marker joins items that are both open, so activating an issue   *)
(* never brings back a pull request that is over, whatever was synced or recorded since.  *)
LinksAreOpen ==
    \A s \in Pair : link[s] = "marker" => item[s[1]] = "open" /\ item[s[2]] = "open"

(* While the source stays enabled, and as GitHub comes to rest, the open items come to be *)
(* those open there that match, whatever was applied and recorded before in what order.   *)
IsOpen(x) == hub[x].state = "open" /\ hub[x].match
Mirrored == \A x \in Issue \cup PullRequest : item[x] = "open" <=> IsOpen(x)
ItemsMirrorGitHub == <>[](source = "enabled") => <>[]Mirrored

(* Then no open card is left whose issue or active pull request is over, nor one that     *)
(* works on no pull request although an open one is marked with its issue or ticket: a    *)
(* worker would open a second one.                                                        *)
Followed(s) ==
    card[s].state = "open" /\ card[s].active =>
        /\ s \notin Ticket => IsOpen(s)
        /\ card[s].pr # Nothing => IsOpen(card[s].pr)
        /\ s \notin PullRequest /\ (\E p \in PullRequest : IsOpen(p) /\ s \in hub[p].body)
             => card[s].pr # Nothing
CardsFollowGitHub == <>[](source = "enabled") => <>[](\A s \in Cards : Followed(s))
=============================================================================
