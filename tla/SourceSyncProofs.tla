-------------------------- MODULE SourceSyncProofs --------------------------
(***************************************************************************)
(* Proofs about SourceSync: its types, and that a link which rests on a    *)
(* marker joins open items, also when syncs overlap one another, the       *)
(* requests of workers and the deletion of the source.  And that a card    *)
(* is completed for a cause on GitHub, when nothing overlaps a sync and    *)
(* GitHub's lists fit a page.                                              *)
(***************************************************************************)
EXTENDS SourceSync, FiniteSetTheorems, WellFoundedInduction, TLAPS

(***************************************************************************)
(* The invariant                                                           *)
(***************************************************************************)

(* While the source is gone no link rests on a marker: a sync that began before writes *)
(* items then, and would close them under a link it does not verify.                   *)
NoMarkersWithoutSource == source = "absent" => \A s \in Pair : link[s] # "marker"

SyncInv == TypeOK /\ LinksAreOpen /\ NoMarkersWithoutSource

(* The types of a card and of its row in GitHub's eyes. *)
CardType == [state : {"none", "open", "done"}, active : BOOLEAN, byGitHub : BOOLEAN,
             pr : PullRequest \cup {Nothing}, links : SUBSET Primary]
HubType == [state : {"none", "open", "closed"}, match : BOOLEAN, body : SUBSET (Issue \cup Ticket)]
HandType == [issues : SUBSET Issue, prs : SUBSET PullRequest,
             bodies : [PullRequest -> SUBSET (Issue \cup Ticket)]]
OpenedType == [of : Issue \cup Ticket, pr : PullRequest, current : BOOLEAN]

GitHubTypes ==
    /\ hub \in [Issue \cup PullRequest -> HubType]
    /\ closed \cup unlisted \subseteq Issue \cup PullRequest
    /\ changes \in 0..MaxChanges
RowTypes ==
    /\ item \in [Primary -> {"none", "open", "closed"}]
    /\ link \in [Pair -> {"none", "marker", "created"}]
    /\ card \in [Primary -> CardType]
SyncTypes ==
    /\ pc \in [Request -> {"idle", "issues", "prs", "apply"}]
    /\ hand \in [Request -> HandType]
OtherTypes ==
    /\ source \in {"absent", "enabled", "disabled"}
    /\ opened \subseteq OpenedType
    /\ moves \in 0..MaxCardMoves

LEMMA TypesSplit == TypeOK <=> GitHubTypes /\ RowTypes /\ SyncTypes /\ OtherTypes
BY DEF TypeOK, GitHubTypes, RowTypes, SyncTypes, OtherTypes, CardType, HubType, HandType, OpenedType

LEMMA TypesSplitNext == TypeOK' <=> GitHubTypes' /\ RowTypes' /\ SyncTypes' /\ OtherTypes'
BY DEF TypeOK, GitHubTypes, RowTypes, SyncTypes, OtherTypes, CardType, HubType, HandType, OpenedType

(***************************************************************************)
(* Operators                                                               *)
(***************************************************************************)

(* A set of numbers that is not empty has its least one in it. *)
LEMMA MinIsThere == ASSUME NEW S \in SUBSET Nat, S # {} PROVE Min(S) \in S
<1> DEFINE R == {ss \in Nat \X Nat : ss[1] < ss[2]}
<1>1. IsWellFoundedOn(R, Nat)
  BY NatLessThanWellFounded DEF OpToRel
<1>2. \E x \in S : \A y \in S : <<y, x>> \notin R
  <2> HIDE DEF R
  <2> QED BY <1>1, WFMin
<1>3. \A x, y \in S : <<y, x>> \notin R => x =< y
  <2> SUFFICES ASSUME NEW x \in S, NEW y \in S, ~(x =< y) PROVE <<y, x>> \in R
    OBVIOUS
  <2>1. y < x /\ x \in Nat /\ y \in Nat
    OBVIOUS
  <2> QED BY <2>1
<1> HIDE DEF R
<1>4. \E x \in S : \A y \in S : x =< y
  BY <1>2, <1>3
<1> QED BY <1>4 DEF Min

(* What a card works on is a pull request, and one of a row of links. *)
LEMMA FirstOfLinked == ASSUME NEW P \in SUBSET PullRequest, P # {} PROVE Min(P) \in PullRequest
BY MinIsThere, ItemAssumption

(* A card keeps its type when pull requests and a selection are added to it, *)
(* and when it is completed.                                                *)
LEMMA CardUpdates ==
    ASSUME NEW c \in CardType
    PROVE  /\ \A P \in SUBSET Primary : WithLinks(c, P) \in CardType
           /\ \A p \in PullRequest \cup {Nothing} : [c EXCEPT !.pr = p] \in CardType
           /\ \A q \in {"open", "done"}, b \in BOOLEAN :
                [c EXCEPT !.state = q, !.byGitHub = b] \in CardType
           /\ [c EXCEPT !.state = "done", !.active = FALSE, !.byGitHub = FALSE] \in CardType
           /\ c.state \in {"none", "open", "done"}
           /\ c.pr \in PullRequest \cup {Nothing} /\ c.links \subseteq Primary
BY DEF CardType, WithLinks

LEMMA NoCardIsACard == NoCard \in CardType
BY DEF NoCard, CardType

LEMMA PairParts == \A s \in Pair : s[1] \in Issue \cup Ticket /\ s[2] \in PullRequest
                                   /\ s[1] \in Primary /\ s[2] \in Primary
BY DEF Pair, Primary

(***************************************************************************)
(* A sync                                                                  *)
(***************************************************************************)

(* Cards keep their types when links are attached and cards completed. *)
LEMMA AttachedTypes ==
    ASSUME card \in [Primary -> CardType], NEW links, NEW first \in PullRequest
    PROVE  Attached(links, first) \in [Primary -> CardType]
<1> SUFFICES ASSUME NEW s \in Primary PROVE Attached(links, first)[s] \in CardType
  BY DEF Attached
<1> DEFINE linked == LinkedTo(s, links)
           one == IF card[s].pr # Nothing THEN card[s].pr
                  ELSE IF first \in linked THEN first ELSE Min(linked)
<1>1. linked \subseteq PullRequest /\ PullRequest \subseteq Primary
  BY DEF LinkedTo, Primary
<1>2. card[s] \in CardType
  OBVIOUS
<1>3. WithLinks(card[s], linked) \in CardType /\ WithLinks(card[s], linked).pr = card[s].pr
  <2>1. WithLinks(card[s], linked) \in CardType
    BY <1>1, <1>2, CardUpdates
  <2>2. WithLinks(card[s], linked).pr = card[s].pr
    BY <1>2 DEF WithLinks, CardType
  <2> QED BY <2>1, <2>2
<1>4. linked # {} => one \in PullRequest \cup {Nothing}
  BY <1>1, <1>2, FirstOfLinked, CardUpdates
<1>5. Attached(links, first)[s] = IF card[s].state \in {"none", "done"} \/ linked = {} THEN card[s]
                                  ELSE [WithLinks(card[s], linked) EXCEPT !.pr = one]
  BY <1>3 DEF Attached
<1> QED
  <2> HIDE DEF linked, one
  <2> QED BY <1>2, <1>3, <1>4, <1>5, CardUpdates

LEMMA AutoCompletedTypes ==
    ASSUME NEW cards \in [Primary -> CardType], NEW rows
    PROVE  AutoCompleted(cards, rows) \in [Primary -> CardType]
<1> SUFFICES ASSUME NEW s \in Primary PROVE AutoCompleted(cards, rows)[s] \in CardType
  BY DEF AutoCompleted
<1>1. cards[s] \in CardType
  OBVIOUS
<1>2. [cards[s] EXCEPT !.state = "done", !.byGitHub = TRUE] \in CardType
  BY <1>1, CardUpdates
<1> QED BY <1>1, <1>2 DEF AutoCompleted

LEMMA UpsertedTypes ==
    ASSUME item \in [Primary -> {"none", "open", "closed"}], NEW h
    PROVE  Upserted(h) \in [Primary -> {"none", "open", "closed"}]
BY DEF Upserted

LEMMA VerifiedTypes ==
    ASSUME link \in [Pair -> {"none", "marker", "created"}], NEW h, NEW rows
    PROVE  /\ Verified(h, rows) \in [Pair -> {"none", "marker", "created"}]
           /\ \A s \in Pair : Verified(h, rows)[s] = "marker" =>
                rows[s[1]] = "open" /\ rows[s[2]] = "open"
BY DEF Verified

LEMMA ApplyKeeps == ASSUME SyncInv, NEW t \in Request, Apply(t) PROVE SyncInv'
<1> DEFINE rows == Upserted(hand[t])
           links == IF source = "absent" THEN link ELSE Verified(hand[t], rows)
<1>1. GitHubTypes /\ RowTypes /\ SyncTypes /\ OtherTypes
  BY TypesSplit DEF SyncInv
<1>2. /\ item' = rows /\ link' = links
      /\ UNCHANGED <<hubVars, source, opened, moves>>
      /\ \E first \in PullRequest :
           card' = AutoCompleted(IF source = "absent" THEN card ELSE Attached(links, first), rows)
  BY DEF Apply
<1>3. rows \in [Primary -> {"none", "open", "closed"}]
  BY <1>1, UpsertedTypes DEF RowTypes
<1> HIDE DEF rows
<1>4. /\ links \in [Pair -> {"none", "marker", "created"}]
      /\ source # "absent" =>
           \A s \in Pair : links[s] = "marker" => rows[s[1]] = "open" /\ rows[s[2]] = "open"
  BY <1>1, VerifiedTypes DEF RowTypes
<1>5. card' \in [Primary -> CardType]
  <2> HIDE DEF links
  <2> QED BY <1>1, <1>2, AttachedTypes, AutoCompletedTypes DEF RowTypes
<1>6. RowTypes'
  BY <1>2, <1>3, <1>4, <1>5 DEF RowTypes
<1>7. SyncTypes'
  <2>1. NoHand \in HandType
    BY DEF NoHand, HandType
  <2> QED BY <1>1, <2>1 DEF Apply, SyncEnds, SyncTypes
<1>8. GitHubTypes' /\ OtherTypes'
  BY <1>1, <1>2 DEF GitHubTypes, OtherTypes, hubVars
<1>9. NoMarkersWithoutSource' /\ LinksAreOpen'
  BY <1>2, <1>4 DEF SyncInv, NoMarkersWithoutSource, LinksAreOpen
<1> QED BY <1>6, <1>7, <1>8, <1>9, TypesSplitNext DEF SyncInv

(* The steps of a sync before it is applied, and its failure, leave the rows alone. *)
LEMMA FetchKeeps ==
    ASSUME SyncInv, NEW t \in Request,
           BeginSync(t) \/ FetchIssues(t) \/ FetchPullRequests(t) \/ FailSync(t)
    PROVE  SyncInv'
<1>1. GitHubTypes /\ RowTypes /\ SyncTypes /\ OtherTypes
  BY TypesSplit DEF SyncInv
<1>2. UNCHANGED <<hubVars, source, rowVars, opened>>
  BY DEF BeginSync, FetchIssues, FetchPullRequests, FailSync
<1>3. SyncTypes'
  <2>1. NoHand \in HandType
    BY DEF NoHand, HandType
  <2>2. \A Kind : Listed(Kind) \subseteq Kind
    BY DEF Listed
  <2>3. ASSUME FetchIssues(t) PROVE hand' \in [Request -> HandType]
    <3>1. [hand[t] EXCEPT !.issues = Listed(Issue)] \in HandType
      BY <1>1, <2>2 DEF HandType, SyncTypes
    <3> QED BY <1>1, <2>3, <3>1 DEF FetchIssues, SyncTypes
  <2>4. ASSUME FetchPullRequests(t) PROVE hand' \in [Request -> HandType]
    <3> DEFINE bodies == [p \in PullRequest |-> IF p \in Listed(PullRequest) THEN hub[p].body ELSE {}]
    <3>1. bodies \in [PullRequest -> SUBSET (Issue \cup Ticket)]
      BY <1>1 DEF GitHubTypes, HubType
    <3> HIDE DEF bodies
    <3>2. [hand[t] EXCEPT !.prs = Listed(PullRequest), !.bodies = bodies] \in HandType
      BY <1>1, <2>2, <3>1 DEF HandType, SyncTypes
    <3>3. hand' = [hand EXCEPT ![t] = [hand[t] EXCEPT !.prs = Listed(PullRequest), !.bodies = bodies]]
      BY <1>1, <2>4 DEF FetchPullRequests, SyncTypes, bodies
    <3> QED BY <1>1, <3>2, <3>3 DEF SyncTypes
  <2>5. hand' \in [Request -> HandType]
    BY <1>1, <2>1, <2>3, <2>4 DEF BeginSync, FailSync, SyncEnds, SyncTypes
  <2>6. pc' \in [Request -> {"idle", "issues", "prs", "apply"}]
    BY <1>1 DEF BeginSync, FetchIssues, FetchPullRequests, FailSync, SyncEnds, SyncTypes
  <2> QED BY <2>5, <2>6 DEF SyncTypes
<1>4. moves' \in 0..MaxCardMoves
  BY <1>1, BoundAssumption DEF BeginSync, FetchIssues, FetchPullRequests, FailSync, OtherTypes
<1>5. GitHubTypes' /\ RowTypes' /\ OtherTypes'
  BY <1>1, <1>2, <1>4 DEF GitHubTypes, RowTypes, OtherTypes, hubVars, rowVars
<1>6. NoMarkersWithoutSource' /\ LinksAreOpen'
  BY <1>2 DEF SyncInv, NoMarkersWithoutSource, LinksAreOpen, rowVars
<1> QED BY <1>3, <1>5, <1>6, TypesSplitNext DEF SyncInv

(***************************************************************************)
(* GitHub and the board                                                    *)
(***************************************************************************)

LEMMA HubUpdates ==
    ASSUME NEW r \in HubType
    PROVE  /\ \A q \in {"open", "closed"} : [r EXCEPT !.state = q] \in HubType
           /\ [r EXCEPT !.match = ~@] \in HubType
           /\ \A s \in Issue \cup Ticket :
                /\ [r EXCEPT !.body = IF s \in @ THEN @ \ {s} ELSE @ \cup {s}] \in HubType
                /\ [r EXCEPT !.state = "open", !.body = {s}] \in HubType
BY DEF HubType

LEMMA GitHubKeeps == ASSUME SyncInv, GitHub PROVE SyncInv'
<1>1. GitHubTypes /\ RowTypes /\ SyncTypes /\ OtherTypes
  BY TypesSplit DEF SyncInv
<1>2. OnGitHub /\ Change
  BY DEF GitHub, Opens, Closes, Relabels, Describes
<1>3. hub' \in [Issue \cup PullRequest -> HubType]
  <2>1. \A x \in Issue \cup PullRequest : hub[x] \in HubType
    BY <1>1 DEF GitHubTypes
  <2>2. ASSUME NEW x \in Issue \cup PullRequest, Opens(x) \/ Closes(x) \/ Relabels(x)
        PROVE  hub' \in [Issue \cup PullRequest -> HubType]
    <3>1. \/ hub' = [hub EXCEPT ![x] = [hub[x] EXCEPT !.state = "open"]]
          \/ hub' = [hub EXCEPT ![x] = [hub[x] EXCEPT !.state = "closed"]]
          \/ hub' = [hub EXCEPT ![x] = [hub[x] EXCEPT !.match = ~@]]
      BY <1>1, <2>2 DEF Opens, Closes, Relabels, GitHubTypes
    <3>2. [hub[x] EXCEPT !.match = ~@] \in HubType
      BY <2>1, HubUpdates
    <3>3. [hub[x] EXCEPT !.state = "open"] \in HubType /\ [hub[x] EXCEPT !.state = "closed"] \in HubType
      BY <2>1, HubUpdates
    <3> QED BY <1>1, <3>1, <3>2, <3>3 DEF GitHubTypes
  <2>3. ASSUME NEW p \in PullRequest, NEW s \in Issue \cup Ticket, Describes(p, s)
        PROVE  hub' \in [Issue \cup PullRequest -> HubType]
    BY <1>1, <2>1, <2>3, HubUpdates DEF Describes, GitHubTypes
  <2> QED BY <2>2, <2>3 DEF GitHub
<1>4. (closed \cup unlisted)' \subseteq Issue \cup PullRequest
  BY <1>1 DEF GitHub, Opens, Closes, Relabels, Describes, GitHubTypes
<1>5. changes' \in 0..MaxChanges
  BY <1>1, <1>2, BoundAssumption DEF Change, GitHubTypes
<1>6. RowTypes' /\ SyncTypes' /\ OtherTypes' /\ NoMarkersWithoutSource' /\ LinksAreOpen'
  BY <1>1, <1>2 DEF OnGitHub, RowTypes, SyncTypes, OtherTypes, rowVars, syncVars, SyncInv,
                    NoMarkersWithoutSource, LinksAreOpen
<1>7. GitHubTypes'
  BY <1>3, <1>4, <1>5 DEF GitHubTypes
<1> QED BY <1>6, <1>7, TypesSplitNext DEF SyncInv

(* What moves on the board count, whatever they do. *)
LEMMA MoveCounts == ASSUME moves \in 0..MaxCardMoves, Move PROVE moves' \in 0..MaxCardMoves
BY BoundAssumption DEF Move

LEMMA CardsKeep ==
    ASSUME SyncInv, NEW s \in Primary,
           \/ CreateLocalTicket(s) \/ ActivateSourceItem(s) \/ MoveWorkItem(s) \/ ArchiveWorkItem(s)
           \/ \E p \in PullRequest : SelectActivePR(s, p)
    PROVE  SyncInv'
<1>1. GitHubTypes /\ RowTypes /\ SyncTypes /\ OtherTypes
  BY TypesSplit DEF SyncInv
<1>2. card[s] \in CardType
  BY <1>1 DEF RowTypes
<1>3. Move /\ UNCHANGED <<hubVars, syncVars, source, link>>
  BY DEF CreateLocalTicket, ActivateSourceItem, MoveWorkItem, ArchiveWorkItem, SelectActivePR, OnBoard
<1>4. card' \in [Primary -> CardType]
  <2>1. ASSUME ActivateSourceItem(s) PROVE card' \in [Primary -> CardType]
    <3> DEFINE prs == LinkedPRs(s)
    <3>1. prs \subseteq PullRequest /\ PullRequest \subseteq Primary
      BY DEF LinkedPRs, LinkedTo, Primary
    <3>2. ActivePR(s, prs) \in PullRequest \cup {Nothing}
      BY <3>1, FirstOfLinked DEF ActivePR
    <3>3. card' = [card EXCEPT ![s] = [state |-> "open", active |-> TRUE, byGitHub |-> FALSE,
                                       pr |-> ActivePR(s, prs), links |-> {s} \cup prs]]
      BY <2>1 DEF ActivateSourceItem
    <3> HIDE DEF prs
    <3>4. [state |-> "open", active |-> TRUE, byGitHub |-> FALSE,
           pr |-> ActivePR(s, prs), links |-> {s} \cup prs] \in CardType
      BY <3>1, <3>2 DEF CardType
    <3> QED BY <1>1, <3>3, <3>4 DEF RowTypes
  <2>2. ASSUME MoveWorkItem(s) PROVE card' \in [Primary -> CardType]
    <3>1. card' = [card EXCEPT ![s] = [card[s] EXCEPT !.state = IF @ = "done" THEN "open" ELSE "done",
                                                      !.byGitHub = FALSE]]
      BY <1>1, <2>2 DEF MoveWorkItem, RowTypes
    <3> QED BY <1>1, <1>2, <3>1, CardUpdates DEF RowTypes
  <2>3. ASSUME ArchiveWorkItem(s) PROVE card' \in [Primary -> CardType]
    <3>1. card' = [card EXCEPT ![s] = [card[s] EXCEPT !.state = "done", !.active = FALSE,
                                                      !.byGitHub = FALSE]]
      BY <1>1, <2>3 DEF ArchiveWorkItem, RowTypes
    <3> QED BY <1>1, <1>2, <3>1, CardUpdates DEF RowTypes
  <2>4. ASSUME NEW p \in PullRequest, SelectActivePR(s, p) PROVE card' \in [Primary -> CardType]
    BY <1>1, <1>2, <2>4, CardUpdates DEF SelectActivePR, RowTypes
  <2> QED BY <1>1, <2>1, <2>2, <2>3, <2>4 DEF CreateLocalTicket, RowTypes
<1>5. /\ item' \in [Primary -> {"none", "open", "closed"}]
      /\ \A x \in Primary : item[x] = "open" => item'[x] = "open"
  BY <1>1 DEF CreateLocalTicket, ActivateSourceItem, MoveWorkItem, ArchiveWorkItem, SelectActivePR, RowTypes
<1>6. opened' \subseteq OpenedType
  <2>1. ASSUME ActivateSourceItem(s) PROVE opened' \subseteq OpenedType
    <3>1. \A o \in OpenedType : [o EXCEPT !.current = @ /\ o.of # s] \in OpenedType
      BY DEF OpenedType
    <3> QED BY <1>1, <2>1, <3>1 DEF ActivateSourceItem, OtherTypes
  <2> QED BY <1>1, <2>1 DEF CreateLocalTicket, MoveWorkItem, ArchiveWorkItem, SelectActivePR, OnBoard, OtherTypes
<1>7. moves' \in 0..MaxCardMoves
  BY <1>1, <1>3, MoveCounts DEF OtherTypes
<1>8. GitHubTypes' /\ SyncTypes'
  BY <1>1, <1>3 DEF GitHubTypes, SyncTypes, hubVars, syncVars
<1>9. OtherTypes' /\ RowTypes'
  BY <1>1, <1>3, <1>4, <1>5, <1>6, <1>7 DEF OtherTypes, RowTypes
<1>10. NoMarkersWithoutSource' /\ LinksAreOpen'
  BY <1>3, <1>5, PairParts DEF SyncInv, NoMarkersWithoutSource, LinksAreOpen
<1> QED BY <1>8, <1>9, <1>10, TypesSplitNext DEF SyncInv

LEMMA PullRequestsKeep ==
    ASSUME SyncInv,
           \/ \E s \in Issue \cup Ticket, p \in PullRequest : OpenPullRequest(s, p)
           \/ \E o \in opened : RecordCreatedPullRequest(o)
    PROVE  SyncInv'
<1>1. GitHubTypes /\ RowTypes /\ SyncTypes /\ OtherTypes
  BY TypesSplit DEF SyncInv
<1>2. CASE \E s \in Issue \cup Ticket, p \in PullRequest : OpenPullRequest(s, p)
  <2>1. PICK s \in Issue \cup Ticket, p \in PullRequest : OpenPullRequest(s, p)
    BY <1>2
  <2>2. /\ hub' = [hub EXCEPT ![p] = [hub[p] EXCEPT !.state = "open", !.body = {s}]]
        /\ UNCHANGED <<closed, unlisted, source, rowVars, syncVars, moves>> /\ Change
    BY <1>1, <2>1 DEF OpenPullRequest, GitHubTypes
  <2>3. hub' \in [Issue \cup PullRequest -> HubType]
    BY <1>1, <2>2, HubUpdates DEF GitHubTypes
  <2>4. changes' \in 0..MaxChanges
    BY <1>1, <2>2, BoundAssumption DEF Change, GitHubTypes
  <2>5. opened' \subseteq OpenedType
    <3>1. [of |-> s, pr |-> p, current |-> TRUE] \in OpenedType
      BY DEF OpenedType
    <3> QED BY <1>1, <2>1, <3>1 DEF OpenPullRequest, OtherTypes
  <2>6. GitHubTypes' /\ RowTypes' /\ SyncTypes' /\ OtherTypes'
    BY <1>1, <2>2, <2>3, <2>4, <2>5 DEF GitHubTypes, RowTypes, SyncTypes, OtherTypes, rowVars, syncVars
  <2>7. NoMarkersWithoutSource' /\ LinksAreOpen'
    BY <2>2 DEF SyncInv, NoMarkersWithoutSource, LinksAreOpen, rowVars
  <2> QED BY <2>6, <2>7, TypesSplitNext DEF SyncInv
<1>3. CASE \E o \in opened : RecordCreatedPullRequest(o)
  <2>1. PICK o \in opened : RecordCreatedPullRequest(o)
    BY <1>3
  <2>2. o.of \in Issue \cup Ticket /\ o.pr \in PullRequest /\ o.of \in Primary /\ o.pr \in Primary
        /\ <<o.of, o.pr>> \in Pair
    BY <1>1 DEF OtherTypes, OpenedType, Primary, Pair
  <2>3. /\ item' = [item EXCEPT ![o.pr] = "open"]
        /\ link' = [link EXCEPT ![<<o.of, o.pr>>] = "created"]
        /\ opened' = opened \ {o}
        /\ UNCHANGED <<hubVars, source, syncVars, moves>>
    BY <2>1 DEF RecordCreatedPullRequest, LinkRecorded
  <2>4. card' \in [Primary -> CardType]
    <3>1. [WithLinks(card[o.of], {o.pr}) EXCEPT !.pr = o.pr] \in CardType
      <4>1. WithLinks(card[o.of], {o.pr}) \in CardType
        BY <1>1, <2>2, CardUpdates DEF RowTypes
      <4> QED BY <2>2, <4>1, CardUpdates
    <3>2. card' = IF ~o.current THEN card
                  ELSE [card EXCEPT ![o.of] = [WithLinks(card[o.of], {o.pr}) EXCEPT !.pr = o.pr]]
      BY <1>1, <2>1, <2>2 DEF RecordCreatedPullRequest, RowTypes
    <3> QED BY <1>1, <3>1, <3>2 DEF RowTypes
  <2>5. RowTypes'
    BY <1>1, <2>3, <2>4 DEF RowTypes
  <2>6. GitHubTypes' /\ SyncTypes' /\ OtherTypes'
    BY <1>1, <2>3 DEF GitHubTypes, SyncTypes, OtherTypes, hubVars, syncVars
  <2>7. NoMarkersWithoutSource' /\ LinksAreOpen'
    BY <1>1, <2>2, <2>3, PairParts DEF SyncInv, NoMarkersWithoutSource, LinksAreOpen, RowTypes
  <2> QED BY <2>5, <2>6, <2>7, TypesSplitNext DEF SyncInv
<1> QED BY <1>2, <1>3

LEMMA SourceKeeps == ASSUME SyncInv, UpdateSource \/ DeleteSource \/ CreateSource PROVE SyncInv'
<1>1. GitHubTypes /\ RowTypes /\ SyncTypes /\ OtherTypes
  BY TypesSplit DEF SyncInv
<1>2. Move /\ UNCHANGED <<hubVars, syncVars>>
  BY DEF UpdateSource, DeleteSource, CreateSource, OnBoard
<1>3. RowTypes' /\ LinksAreOpen' /\ NoMarkersWithoutSource'
  <2>1. CASE UpdateSource
    BY <1>1, <2>1 DEF UpdateSource, RowTypes, LinksAreOpen, NoMarkersWithoutSource, SyncInv, rowVars, OtherTypes
  <2>2. CASE DeleteSource
    BY <2>2, NoCardIsACard DEF DeleteSource, DeleteSourceDependents, RowTypes, LinksAreOpen, NoMarkersWithoutSource
  <2>3. CASE CreateSource
    BY <1>1, <2>3 DEF CreateSource, RowTypes, LinksAreOpen, NoMarkersWithoutSource, SyncInv, rowVars
  <2> QED BY <2>1, <2>2, <2>3
<1>4. moves' \in 0..MaxCardMoves
  BY <1>1, <1>2, MoveCounts DEF OtherTypes
<1>5. OtherTypes'
  BY <1>1, <1>4 DEF UpdateSource, DeleteSource, CreateSource, OnBoard, OtherTypes
<1>6. GitHubTypes' /\ SyncTypes'
  BY <1>1, <1>2 DEF GitHubTypes, SyncTypes, hubVars, syncVars
<1> QED BY <1>3, <1>5, <1>6, TypesSplitNext DEF SyncInv

(***************************************************************************)
(* Theorems                                                                *)
(***************************************************************************)

LEMMA InitHolds == Init => SyncInv
<1> SUFFICES ASSUME Init PROVE SyncInv
  OBVIOUS
<1>1. GitHubTypes
  BY BoundAssumption DEF Init, GitHubTypes, HubType
<1>2. RowTypes
  BY NoCardIsACard DEF Init, RowTypes
<1>3. SyncTypes
  BY DEF Init, SyncTypes, NoHand, HandType
<1>4. OtherTypes /\ LinksAreOpen /\ NoMarkersWithoutSource
  BY BoundAssumption DEF Init, OtherTypes, LinksAreOpen, NoMarkersWithoutSource
<1> QED BY <1>1, <1>2, <1>3, <1>4, TypesSplit DEF SyncInv

LEMMA StepKeeps == SyncInv /\ [Next]_vars => SyncInv'
<1> SUFFICES ASSUME SyncInv, [Next]_vars PROVE SyncInv'
  OBVIOUS
<1>1. CASE UNCHANGED vars
  <2>1. TypeOK'
    BY <1>1 DEF SyncInv, TypeOK, vars, hubVars, rowVars, syncVars
  <2>2. LinksAreOpen' /\ NoMarkersWithoutSource'
    BY <1>1 DEF SyncInv, LinksAreOpen, NoMarkersWithoutSource, vars, rowVars
  <2> QED BY <2>1, <2>2 DEF SyncInv
<1>2. CASE GitHub
  BY <1>2, GitHubKeeps
<1>3. CASE \E t \in Request : Sync(t) \/ FailSync(t)
  BY <1>3, FetchKeeps, ApplyKeeps DEF Sync
<1>4. CASE Board
  BY <1>4, CardsKeep, PullRequestsKeep, SourceKeeps DEF Board
<1> QED BY <1>1, <1>2, <1>3, <1>4 DEF Next

(* Every variable keeps its type: in particular, what a card works on is always a pull *)
(* request of the source or none.                                                      *)
THEOREM TypesAreKept == Spec => []TypeOK
<1>1. SyncInv => TypeOK
  BY DEF SyncInv
<1> QED BY InitHolds, StepKeeps, <1>1, PTL DEF Spec

(* A link that rests on a marker joins items that are both open, for any number of items, *)
(* syncs and pages, and however syncs, workers and the deletion of the source overlap.    *)
THEOREM MarkedLinksAreOpen == Spec => []LinksAreOpen
<1>1. SyncInv => LinksAreOpen
  BY DEF SyncInv
<1> QED BY InitHolds, StepKeeps, <1>1, PTL DEF Spec
(***************************************************************************)
(* Completion                                                              *)
(***************************************************************************)

Item == Issue \cup PullRequest
Over == closed \cup unlisted
Known(x) == item[x] # "none"

(* What is not open on GitHub any more, or does not match, has been closed or relabelled. *)
HubRemembers == \A x \in Item :
    /\ hub[x].state = "closed" => x \in closed
    /\ ~hub[x].match => x \in unlisted

(* What the tables and the syncs know of has been opened. *)
KnownExist ==
    /\ \A x \in Item : Known(x) => hub[x].state # "none"
    /\ \A o \in opened : hub[o.pr].state # "none"
    /\ \A t \in Request : \A x \in hand[t].issues \cup hand[t].prs : hub[x].state # "none"

(* Cards and links are of known items. *)
BoardIsKnown ==
    /\ \A s \in Primary :
           /\ card[s].state # "none" \/ card[s].active => Known(s)
           /\ card[s].pr # Nothing => Known(card[s].pr)
           /\ \A p \in PullRequest \cap card[s].links : Known(p)
    /\ \A s \in Pair : link[s] # "none" => Known(s[2])

(* A sync misses nothing that is known, or about to be recorded, but what is over. *)
SyncsSee == \A t \in Request :
    /\ pc[t] \in {"prs", "apply"} => \A x \in Issue : Known(x) => x \in hand[t].issues \cup Over
    /\ pc[t] = "apply" => \A x \in PullRequest :
          Known(x) \/ (\E o \in opened : o.pr = x) => x \in hand[t].prs \cup Over
OneSync == \A t, u \in Syncing : t = u

BoardInv == HubRemembers /\ KnownExist /\ BoardIsKnown /\ SyncsSee /\ OneSync

(* A list of everything that fits one page has all that is open and matches. *)
LEMMA ListedSees ==
    ASSUME GitHubTypes, HubRemembers, NEW Kind \in {Issue, PullRequest},
           IsFiniteSet(Kind), Cardinality(Kind) <= PageSize,
           NEW x \in Kind, hub[x].state # "none"
    PROVE  x \in Listed(Kind) \cup Over
<1> DEFINE open == {y \in Kind : hub[y].state = "open"}
           newer == {y \in open : y > x}
<1>1. x \in Item /\ Kind \subseteq Nat
  BY ItemAssumption DEF Item
<1>2. CASE hub[x].state = "open" /\ hub[x].match
  <2>1. newer \subseteq Kind \ {x}
    BY <1>1
  <2>2. IsFiniteSet(Kind \ {x}) /\ Cardinality(Kind \ {x}) = Cardinality(Kind) - 1
    BY FS_RemoveElement
  <2>3. Cardinality(newer) <= Cardinality(Kind) - 1 /\ Cardinality(newer) \in Nat /\ Cardinality(Kind) \in Nat
    <3> HIDE DEF newer
    <3> QED BY <2>1, <2>2, FS_Subset, FS_CardinalityType
  <2>4. Cardinality(newer) < PageSize
    BY <2>3, BoundAssumption
  <2> QED BY <1>2, <2>4 DEF Listed
<1>3. CASE hub[x].state = "closed" \/ ~hub[x].match
  BY <1>1, <1>3 DEF HubRemembers, Over
<1> QED BY <1>1, <1>2, <1>3 DEF GitHubTypes, HubType, Item

(* Nothing on GitHub vanishes, and what ends there is remembered. *)
LEMMA HubMoves ==
    ASSUME GitHubTypes, HubRemembers,
           \/ GitHub
           \/ \E s \in Issue \cup Ticket, p \in PullRequest : OpenPullRequest(s, p)
    PROVE  /\ \A x \in Item : hub[x].state # "none" => hub'[x].state # "none"
           /\ HubRemembers' /\ Over \subseteq Over'
<1> USE DEF GitHubTypes, HubType, HubRemembers, Over, Item
<1>1. ASSUME NEW x \in Item, Opens(x)
      PROVE  /\ \A y \in Item : hub[y].state # "none" => hub'[y].state # "none"
             /\ HubRemembers' /\ Over \subseteq Over'
  BY <1>1 DEF Opens
<1>2. ASSUME NEW x \in Item, Closes(x)
      PROVE  /\ \A y \in Item : hub[y].state # "none" => hub'[y].state # "none"
             /\ HubRemembers' /\ Over \subseteq Over'
  BY <1>2 DEF Closes
<1>3. ASSUME NEW x \in Item, Relabels(x)
      PROVE  /\ \A y \in Item : hub[y].state # "none" => hub'[y].state # "none"
             /\ HubRemembers' /\ Over \subseteq Over'
  BY <1>3 DEF Relabels
<1>4. ASSUME NEW p \in PullRequest, NEW s \in Issue \cup Ticket, Describes(p, s)
      PROVE  /\ \A y \in Item : hub[y].state # "none" => hub'[y].state # "none"
             /\ HubRemembers' /\ Over \subseteq Over'
  BY <1>4 DEF Describes
<1>5. ASSUME NEW p \in PullRequest, NEW s \in Issue \cup Ticket, OpenPullRequest(s, p)
      PROVE  /\ \A y \in Item : hub[y].state # "none" => hub'[y].state # "none"
             /\ HubRemembers' /\ Over \subseteq Over'
  BY <1>5 DEF OpenPullRequest
<1> QED BY <1>1, <1>2, <1>3, <1>4, <1>5 DEF GitHub

LEMMA GitHubKeepsBoard == ASSUME SyncInv, BoardInv, GitHub PROVE BoardInv'
<1>1. GitHubTypes /\ RowTypes /\ SyncTypes /\ OtherTypes
  BY TypesSplit DEF SyncInv
<1>2. UNCHANGED <<item, link, card, opened, pc, hand>>
  BY DEF GitHub, Opens, Closes, Relabels, Describes, OnGitHub, rowVars, syncVars
<1>3. /\ \A x \in Item : hub[x].state # "none" => hub'[x].state # "none"
      /\ HubRemembers' /\ Over \subseteq Over'
  BY <1>1, HubMoves DEF BoardInv
<1>4. /\ \A o \in opened : o.pr \in Item
      /\ \A t \in Request : hand[t].issues \cup hand[t].prs \subseteq Item
  BY <1>1 DEF OtherTypes, OpenedType, SyncTypes, HandType, Item
<1>5. KnownExist'
  BY <1>2, <1>3, <1>4 DEF BoardInv, KnownExist, Known
<1>6. BoardIsKnown' /\ SyncsSee' /\ OneSync'
  BY <1>2, <1>3 DEF BoardInv, BoardIsKnown, SyncsSee, OneSync, Syncing, Known
<1> QED BY <1>3, <1>5, <1>6 DEF BoardInv

(* What a sync reads is all that is known and not over. *)
LEMMA FetchKeepsBoard ==
    ASSUME SyncInv, BoardInv, ~Overlap,
           IsFiniteSet(Issue), Cardinality(Issue) <= PageSize,
           IsFiniteSet(PullRequest), Cardinality(PullRequest) <= PageSize,
           NEW t \in Request,
           BeginSync(t) \/ FetchIssues(t) \/ FetchPullRequests(t) \/ FailSync(t)
    PROVE  BoardInv'
<1>1. GitHubTypes /\ RowTypes /\ SyncTypes /\ OtherTypes
  BY TypesSplit DEF SyncInv
<1>2. UNCHANGED <<hub, closed, unlisted, item, link, card, opened>>
  BY DEF BeginSync, FetchIssues, FetchPullRequests, FailSync, hubVars, rowVars
<1>3. HubRemembers' /\ BoardIsKnown'
  BY <1>2 DEF BoardInv, HubRemembers, BoardIsKnown, Known
<1>4. \A Kind \in {Issue, PullRequest} : \A x \in Kind :
         /\ hub[x].state # "none" => x \in Listed(Kind) \cup Over
         /\ x \in Listed(Kind) => hub[x].state # "none"
  <2>1. \A Kind \in {Issue, PullRequest} : \A x \in Kind :
           hub[x].state # "none" => x \in Listed(Kind) \cup Over
    BY <1>1, ListedSees DEF BoardInv
  <2> QED BY <2>1 DEF Listed
<1>5. Listed(Issue) \subseteq Issue /\ Listed(PullRequest) \subseteq PullRequest
  BY DEF Listed
<1>6. /\ \A x \in Item : Known(x) => hub[x].state # "none"
      /\ \A o \in opened : o.pr \in PullRequest /\ hub[o.pr].state # "none"
      /\ Over' = Over
  BY <1>1, <1>2 DEF BoardInv, KnownExist, OtherTypes, OpenedType, Over
<1>7. CASE BeginSync(t)
  <2>1. pc' = [pc EXCEPT ![t] = "issues"] /\ hand' = hand /\ Syncing = {} /\ Syncing' = {t}
    BY <1>1, <1>7 DEF BeginSync, SyncTypes, Syncing
  <2>2. KnownExist' /\ SyncsSee' /\ OneSync'
    BY <1>1, <1>2, <2>1 DEF BoardInv, KnownExist, SyncsSee, OneSync, SyncTypes, Known, Over
  <2> QED BY <1>3, <2>2 DEF BoardInv
<1>8. CASE FetchIssues(t)
  <2>1. /\ pc' = [pc EXCEPT ![t] = "prs"] /\ pc[t] = "issues" /\ Syncing' = Syncing
        /\ hand' = [hand EXCEPT ![t] = [hand[t] EXCEPT !.issues = Listed(Issue)]]
    BY <1>1, <1>8 DEF FetchIssues, SyncTypes, Syncing
  <2>2. /\ hand'[t].issues = Listed(Issue) /\ hand'[t].prs = hand[t].prs
        /\ \A u \in Request \ {t} : hand'[u] = hand[u]
    BY <1>1, <2>1 DEF SyncTypes, HandType
  <2>3. KnownExist'
    BY <1>2, <1>4, <1>5, <2>2 DEF BoardInv, KnownExist, Known
  <2>4. SyncsSee'
    BY <1>1, <1>2, <1>4, <1>6, <2>1, <2>2 DEF BoardInv, SyncsSee, SyncTypes, Known, Item
  <2> QED BY <1>3, <2>1, <2>3, <2>4 DEF BoardInv, OneSync
<1>9. CASE FetchPullRequests(t)
  <2>1. /\ pc' = [pc EXCEPT ![t] = "apply"] /\ pc[t] = "prs" /\ Syncing' = Syncing
        /\ hand'[t].prs = Listed(PullRequest) /\ hand'[t].issues = hand[t].issues
        /\ \A u \in Request \ {t} : hand'[u] = hand[u]
    BY <1>1, <1>9 DEF FetchPullRequests, SyncTypes, HandType, Syncing
  <2>2. KnownExist'
    BY <1>2, <1>4, <1>5, <2>1 DEF BoardInv, KnownExist, Known
  <2>3. SyncsSee'
    BY <1>1, <1>2, <1>4, <1>6, <2>1 DEF BoardInv, SyncsSee, SyncTypes, Known, Item
  <2> QED BY <1>3, <2>1, <2>2, <2>3 DEF BoardInv, OneSync
<1>10. CASE FailSync(t)
  <2>1. /\ pc' = [pc EXCEPT ![t] = "idle"] /\ hand' = [hand EXCEPT ![t] = NoHand] /\ Syncing' \subseteq Syncing
        /\ NoHand.issues = {} /\ NoHand.prs = {}
    BY <1>1, <1>10 DEF FailSync, SyncEnds, SyncTypes, Syncing, NoHand
  <2>2. KnownExist' /\ SyncsSee' /\ OneSync'
    BY <1>1, <1>2, <1>6, <2>1 DEF BoardInv, KnownExist, SyncsSee, OneSync, SyncTypes, Known
  <2> QED BY <1>3, <2>2 DEF BoardInv
<1> QED BY <1>7, <1>8, <1>9, <1>10

(* What a card works on after the links are attached is known, or listed as open. *)
LEMMA AttachedKnown ==
    ASSUME RowTypes, BoardIsKnown, NEW links, NEW rows, NEW first \in PullRequest, NEW s \in Primary,
           \A q \in Pair : links[q] # "none" => Known(q[2]) \/ rows[q[2]] = "open"
    PROVE  LET c == Attached(links, first)[s] IN
           /\ c.state = card[s].state /\ c.byGitHub = card[s].byGitHub /\ c.active = card[s].active
           /\ c.pr # Nothing => Known(c.pr) \/ rows[c.pr] = "open"
           /\ \A p \in PullRequest \cap c.links : Known(p) \/ rows[p] = "open"
<1> DEFINE linked == LinkedTo(s, links)
           one == IF card[s].pr # Nothing THEN card[s].pr
                  ELSE IF first \in linked THEN first ELSE Min(linked)
           c == Attached(links, first)[s]
<1>1. \A p \in linked : p \in PullRequest /\ (Known(p) \/ rows[p] = "open")
  BY DEF LinkedTo, Pair, Primary
<1>2. card[s] \in CardType
  BY DEF RowTypes
<1>3. linked # {} => one = card[s].pr \/ one \in linked
  BY <1>1, MinIsThere, ItemAssumption
<1>4. WithLinks(card[s], linked) = [card[s] EXCEPT !.links = card[s].links \cup linked]
  BY <1>2 DEF WithLinks, CardType
<1>5. \/ c = card[s]
      \/ linked # {} /\ c = [card[s] EXCEPT !.links = card[s].links \cup linked, !.pr = one]
  BY <1>2, <1>4 DEF Attached, CardType
<1> HIDE DEF linked, one, c
<1>6. c.state = card[s].state /\ c.byGitHub = card[s].byGitHub /\ c.active = card[s].active
  BY <1>2, <1>5 DEF CardType
<1>7. c.pr # Nothing => Known(c.pr) \/ rows[c.pr] = "open"
  BY <1>1, <1>2, <1>3, <1>5 DEF CardType, BoardIsKnown
<1>8. \A p \in PullRequest \cap c.links : Known(p) \/ rows[p] = "open"
  BY <1>1, <1>2, <1>5 DEF CardType, BoardIsKnown
<1> QED BY <1>6, <1>7, <1>8 DEF c

(* What a sync makes of a card: the links are attached, and it may be completed. *)
Outcome(c, rows, s) == CompletionOutcome(s, c, rows) /\ c.state = "open"

LEMMA ApplyGives ==
    ASSUME SyncInv, BoardInv, NEW t \in Request, Apply(t)
    PROVE  \A s \in Primary : \E c \in CardType :
             /\ card'[s] = IF Outcome(c, item', s) /\ c.active
                           THEN [c EXCEPT !.state = "done", !.byGitHub = TRUE] ELSE c
             /\ c.state = card[s].state /\ c.byGitHub = card[s].byGitHub /\ c.active = card[s].active
             /\ c.pr # Nothing => Known(c.pr) \/ item'[c.pr] = "open"
             /\ \A p \in PullRequest \cap c.links : Known(p) \/ item'[p] = "open"
<1>1. RowTypes /\ SyncTypes
  BY TypesSplit DEF SyncInv
<1> DEFINE rows == Upserted(hand[t])
           links == IF source = "absent" THEN link ELSE Verified(hand[t], rows)
<1>2. PICK first \in PullRequest :
        card' = AutoCompleted(IF source = "absent" THEN card ELSE Attached(links, first), rows)
  BY DEF Apply
<1>3. item' = rows
  BY DEF Apply
<1>4. \A q \in Pair : links[q] # "none" => Known(q[2]) \/ rows[q[2]] = "open"
  BY DEF Verified, BoardInv, BoardIsKnown
<1> HIDE DEF rows, links
<1> SUFFICES ASSUME NEW s \in Primary
             PROVE  \E c \in CardType :
                      /\ card'[s] = IF Outcome(c, rows, s) /\ c.active
                                    THEN [c EXCEPT !.state = "done", !.byGitHub = TRUE] ELSE c
                      /\ c.state = card[s].state /\ c.byGitHub = card[s].byGitHub /\ c.active = card[s].active
                      /\ c.pr # Nothing => Known(c.pr) \/ rows[c.pr] = "open"
                      /\ \A p \in PullRequest \cap c.links : Known(p) \/ rows[p] = "open"
  BY <1>3
<1>5. CASE source = "absent"
  <2>1. card[s] \in CardType
    BY <1>1 DEF RowTypes
  <2>2. card'[s] = IF Outcome(card[s], rows, s) /\ card[s].active
                   THEN [card[s] EXCEPT !.state = "done", !.byGitHub = TRUE] ELSE card[s]
    BY <1>2, <1>5 DEF AutoCompleted, Outcome
  <2> QED BY <2>1, <2>2 DEF BoardInv, BoardIsKnown
<1>6. CASE source # "absent"
  <2> DEFINE c == Attached(links, first)[s]
  <2>1. c \in CardType
    BY <1>1, AttachedTypes DEF RowTypes
  <2>2. card'[s] = IF Outcome(c, rows, s) /\ c.active
                   THEN [c EXCEPT !.state = "done", !.byGitHub = TRUE] ELSE c
    BY <1>2, <1>6 DEF AutoCompleted, Outcome
  <2>3. /\ c.state = card[s].state /\ c.byGitHub = card[s].byGitHub /\ c.active = card[s].active
        /\ c.pr # Nothing => Known(c.pr) \/ rows[c.pr] = "open"
        /\ \A p \in PullRequest \cap c.links : Known(p) \/ rows[p] = "open"
    BY <1>1, <1>4, AttachedKnown DEF BoardInv
  <2> HIDE DEF c
  <2> QED BY <2>1, <2>2, <2>3
<1> QED BY <1>5, <1>6

(* What a sync closes is over. *)
LEMMA ApplyCloses ==
    ASSUME SyncInv, BoardInv, NEW t \in Request, Apply(t), NEW x \in Item, Known(x), item'[x] # "open"
    PROVE  x \in Over
<1>1. SyncTypes /\ x \in Primary /\ x \notin Ticket
  BY TypesSplit, ItemAssumption DEF SyncInv, Item, Primary
<1>2. x \notin hand[t].issues \cup hand[t].prs
  BY <1>1 DEF Apply, Upserted
<1> QED BY <1>2 DEF BoardInv, SyncsSee, Apply, Item

LEMMA ApplyKeepsBoard == ASSUME SyncInv, BoardInv, NEW t \in Request, Apply(t) PROVE BoardInv'
<1>1. GitHubTypes /\ RowTypes /\ SyncTypes /\ OtherTypes
  BY TypesSplit DEF SyncInv
<1>2. /\ item' = Upserted(hand[t]) /\ pc[t] = "apply" /\ pc' = [pc EXCEPT ![t] = "idle"]
      /\ hand' = [hand EXCEPT ![t] = NoHand]
      /\ UNCHANGED <<hub, closed, unlisted, opened>>
  BY DEF Apply, SyncEnds, hubVars
<1>3. \A x \in Primary :
        /\ Known(x) => item'[x] # "none"
        /\ item'[x] # "none" => Known(x) \/ x \in hand[t].issues \cup hand[t].prs
        /\ item'[x] = "open" => item'[x] # "none"
  BY <1>1, <1>2 DEF Upserted, Known, RowTypes
<1>4. HubRemembers'
  BY <1>2 DEF BoardInv, HubRemembers
<1>5. KnownExist'
  <2>1. NoHand.issues = {} /\ NoHand.prs = {} /\ Item \subseteq Primary
    BY DEF NoHand, Item, Primary
  <2> QED BY <1>1, <1>2, <1>3, <2>1 DEF BoardInv, KnownExist, Known, SyncTypes
<1>6. SyncsSee' /\ OneSync' 
  <2>1. \A u \in Request : pc'[u] = "idle"
    BY <1>1, <1>2 DEF BoardInv, OneSync, Syncing, SyncTypes
  <2> QED BY <2>1 DEF SyncsSee, OneSync, Syncing
<1>7. \A s \in Pair : link'[s] # "none" => Known(s[2])'
  BY <1>2, <1>3, PairParts DEF Apply, Verified, BoardInv, BoardIsKnown, Known
<1>8. ASSUME NEW s \in Primary
      PROVE  /\ card'[s].state # "none" \/ card'[s].active => Known(s)'
             /\ card'[s].pr # Nothing => item'[card'[s].pr] # "none"
             /\ \A p \in PullRequest \cap card'[s].links : Known(p)'
  <2>1. PICK c \in CardType :
          /\ card'[s] = IF Outcome(c, item', s) /\ c.active
                        THEN [c EXCEPT !.state = "done", !.byGitHub = TRUE] ELSE c
          /\ c.state = card[s].state /\ c.byGitHub = card[s].byGitHub /\ c.active = card[s].active
          /\ c.pr # Nothing => Known(c.pr) \/ item'[c.pr] = "open"
          /\ \A p \in PullRequest \cap c.links : Known(p) \/ item'[p] = "open"
    BY ApplyGives
  <2>2. /\ card'[s].pr = c.pr /\ card'[s].links = c.links
        /\ card'[s].state # "none" => c.state # "none"
        /\ card'[s].active => c.active
    BY <2>1 DEF CardType, Outcome
  <2>3. c.pr # Nothing => c.pr \in Primary
    BY DEF CardType, Primary
  <2>4. PullRequest \subseteq Primary
    BY DEF Primary
  <2>5. card[s].state # "none" \/ card[s].active => Known(s)
    BY DEF BoardInv, BoardIsKnown
  <2>6. card'[s].state # "none" \/ card'[s].active => Known(s)'
    BY <1>3, <2>1, <2>2, <2>5 DEF Known
  <2>7. card'[s].pr # Nothing => item'[card'[s].pr] # "none"
    BY <1>3, <2>1, <2>2, <2>3 DEF Known
  <2>8. \A p \in PullRequest \cap card'[s].links : Known(p)'
    BY <1>3, <2>1, <2>2, <2>4 DEF Known
  <2> QED BY <2>6, <2>7, <2>8
<1> QED BY <1>4, <1>5, <1>6, <1>7, <1>8 DEF BoardInv, BoardIsKnown, Known

(* A card that moves on the board is of a known item. *)
LEMMA CardsKeepBoard ==
    ASSUME SyncInv, BoardInv, NEW s \in Primary,
           \/ CreateLocalTicket(s) \/ ActivateSourceItem(s) \/ MoveWorkItem(s) \/ ArchiveWorkItem(s)
           \/ \E p \in PullRequest : SelectActivePR(s, p)
    PROVE  BoardInv'
<1>1. GitHubTypes /\ RowTypes /\ SyncTypes /\ OtherTypes
  BY TypesSplit DEF SyncInv
<1>2. UNCHANGED <<hub, closed, unlisted, pc, hand, link>>
  BY DEF CreateLocalTicket, ActivateSourceItem, MoveWorkItem, ArchiveWorkItem, SelectActivePR, OnBoard,
         hubVars, syncVars
<1>3. /\ \A x \in Item : item'[x] = item[x]
      /\ \A x \in Primary : Known(x) => Known(x)'
      /\ Item \subseteq Primary
  BY <1>1, ItemAssumption DEF CreateLocalTicket, ActivateSourceItem, MoveWorkItem, ArchiveWorkItem, SelectActivePR,
         Item, Primary, RowTypes, Known
<1>4. \A o \in opened' : \E q \in opened : o.pr = q.pr
  <2>1. CASE ActivateSourceItem(s)
    <3>1. \A o \in opened : [o EXCEPT !.current = @ /\ o.of # s].pr = o.pr
      BY <1>1 DEF OtherTypes, OpenedType
    <3> QED BY <2>1, <3>1 DEF ActivateSourceItem
  <2> QED BY <2>1 DEF CreateLocalTicket, MoveWorkItem, ArchiveWorkItem, SelectActivePR, OnBoard
<1>5. KnownExist'
  BY <1>1, <1>2, <1>3, <1>4 DEF BoardInv, KnownExist, Known
<1>6. SyncsSee'
  BY <1>2, <1>3, <1>4 DEF BoardInv, SyncsSee, Known, Item, Over
<1>7. HubRemembers' /\ OneSync'
  BY <1>2 DEF BoardInv, HubRemembers, OneSync, Syncing
<1>8. /\ card[s] \in CardType /\ PullRequest \subseteq Primary
      /\ card[s].state # "none" \/ card[s].active => Known(s)
      /\ card[s].pr # Nothing => Known(card[s].pr) /\ card[s].pr \in Primary
      /\ \A p \in PullRequest \cap card[s].links : Known(p)
  BY <1>1 DEF RowTypes, CardType, Primary, BoardInv, BoardIsKnown
<1>9. /\ \A x \in Primary \ {s} : card'[x] = card[x]
      /\ card'[s].state # "none" \/ card'[s].active => Known(s)'
      /\ card'[s].pr # Nothing => item'[card'[s].pr] # "none"
      /\ \A p \in PullRequest \cap card'[s].links : Known(p)'
  <2>1. CASE ActivateSourceItem(s)
    <3> DEFINE prs == LinkedPRs(s)
    <3>1. /\ card' = [card EXCEPT ![s] = [state |-> "open", active |-> TRUE, byGitHub |-> FALSE,
                                          pr |-> ActivePR(s, prs), links |-> {s} \cup prs]]
          /\ Known(s)
      BY <2>1 DEF ActivateSourceItem, Known
    <3>2. prs \subseteq PullRequest /\ \A p \in prs : Known(p)
      BY DEF LinkedPRs, LinkedTo, Known
    <3>3. ActivePR(s, prs) # Nothing => Known(ActivePR(s, prs)) /\ ActivePR(s, prs) \in Primary
      <4>1. prs # {} => Min(prs) \in prs
        BY <3>2, MinIsThere, ItemAssumption
      <4> QED BY <3>1, <3>2, <4>1 DEF ActivePR, Primary
    <3> HIDE DEF prs
    <3>4. card'[s] = [state |-> "open", active |-> TRUE, byGitHub |-> FALSE,
                      pr |-> ActivePR(s, prs), links |-> {s} \cup prs]
          /\ \A x \in Primary \ {s} : card'[x] = card[x]
      BY <1>1, <3>1 DEF RowTypes
    <3> QED BY <1>3, <3>1, <3>2, <3>3, <3>4 DEF Primary, Known
  <2>2. CASE CreateLocalTicket(s)
    BY <1>1, <1>3, <1>8, <2>2 DEF CreateLocalTicket, Known
  <2>3. CASE MoveWorkItem(s)
    <3>1. card' = [card EXCEPT ![s] = [card[s] EXCEPT !.state = IF @ = "done" THEN "open" ELSE "done",
                                                      !.byGitHub = FALSE]]
      BY <1>1, <2>3 DEF MoveWorkItem, RowTypes
    <3>2. s \in Cards
      BY <2>3 DEF MoveWorkItem
    <3> QED BY <1>1, <1>3, <1>8, <3>1, <3>2 DEF Cards, Known, CardType, RowTypes
  <2>4. CASE ArchiveWorkItem(s)
    <3>1. card' = [card EXCEPT ![s] = [card[s] EXCEPT !.state = "done", !.active = FALSE, !.byGitHub = FALSE]]
      BY <1>1, <2>4 DEF ArchiveWorkItem, RowTypes
    <3> QED BY <1>1, <1>3, <1>8, <2>4, <3>1
            DEF ArchiveWorkItem, Known, CardType, RowTypes
  <2>5. CASE \E p \in PullRequest : SelectActivePR(s, p)
    BY <1>1, <1>3, <1>8, <2>5 DEF SelectActivePR, Known, CardType, RowTypes
  <2> QED BY <2>1, <2>2, <2>3, <2>4, <2>5
<1>10. \A x \in Primary \ {s} :
          /\ card'[x].state # "none" \/ card'[x].active => Known(x)'
          /\ card'[x].pr # Nothing => item'[card'[x].pr] # "none"
          /\ \A p \in PullRequest \cap card'[x].links : Known(p)'
  <2> SUFFICES ASSUME NEW x \in Primary \ {s}
               PROVE  /\ card'[x].state # "none" \/ card'[x].active => Known(x)'
                      /\ card'[x].pr # Nothing => item'[card'[x].pr] # "none"
                      /\ \A p \in PullRequest \cap card'[x].links : Known(p)'
    OBVIOUS
  <2>1. /\ card[x].state # "none" \/ card[x].active => Known(x)
        /\ card[x].pr # Nothing => Known(card[x].pr) /\ card[x].pr \in Primary
        /\ \A p \in PullRequest \cap card[x].links : Known(p)
    BY <1>1 DEF RowTypes, CardType, Primary, BoardInv, BoardIsKnown
  <2> QED BY <1>3, <1>8, <1>9, <2>1 DEF Known
<1>11. \A q \in Pair : link'[q] # "none" => Known(q[2])'
  BY <1>2, <1>3, PairParts DEF BoardInv, BoardIsKnown
<1>12. BoardIsKnown'
  BY <1>9, <1>10, <1>11 DEF BoardIsKnown, Known
<1> QED BY <1>5, <1>6, <1>7, <1>12 DEF BoardInv

(* A worker's pull request is opened while nobody syncs, and known once it is recorded. *)
LEMMA PullRequestsKeepBoard ==
    ASSUME SyncInv, BoardInv, ~Overlap,
           \/ \E s \in Issue \cup Ticket, p \in PullRequest : OpenPullRequest(s, p)
           \/ \E o \in opened : RecordCreatedPullRequest(o)
    PROVE  BoardInv'
<1>1. GitHubTypes /\ RowTypes /\ SyncTypes /\ OtherTypes
  BY TypesSplit DEF SyncInv
<1>2. CASE \E s \in Issue \cup Ticket, p \in PullRequest : OpenPullRequest(s, p)
  <2>1. PICK s \in Issue \cup Ticket, p \in PullRequest : OpenPullRequest(s, p)
    BY <1>2
  <2>2. /\ UNCHANGED <<item, link, card, pc, hand>> /\ Syncing = {}
        /\ opened' = opened \cup {[of |-> s, pr |-> p, current |-> TRUE]}
        /\ hub'[p].state = "open"
    BY <1>1, <2>1 DEF OpenPullRequest, rowVars, syncVars, GitHubTypes, HubType
  <2>3. /\ \A x \in Item : hub[x].state # "none" => hub'[x].state # "none"
        /\ HubRemembers' /\ Over \subseteq Over'
    BY <1>1, <1>2, HubMoves DEF BoardInv
  <2>4. /\ \A o \in opened : o.pr \in Item
        /\ \A t \in Request : hand[t].issues \cup hand[t].prs \subseteq Item
    BY <1>1 DEF OtherTypes, OpenedType, SyncTypes, HandType, Item
  <2>5. KnownExist'
    BY <2>2, <2>3, <2>4 DEF BoardInv, KnownExist, Known
  <2>6. SyncsSee' /\ OneSync'
    BY <2>2 DEF SyncsSee, OneSync, Syncing
  <2>7. BoardIsKnown'
    BY <2>2 DEF BoardInv, BoardIsKnown, Known
  <2> QED BY <2>3, <2>5, <2>6, <2>7 DEF BoardInv
<1>3. CASE \E o \in opened : RecordCreatedPullRequest(o)
  <2>1. PICK o \in opened : RecordCreatedPullRequest(o)
    BY <1>3
  <2>2. o.of \in Issue \cup Ticket /\ o.pr \in PullRequest /\ o.of \in Primary /\ o.pr \in Primary
    BY <1>1 DEF OtherTypes, OpenedType, Primary
  <2>3. /\ item' = [item EXCEPT ![o.pr] = "open"]
        /\ link' = [link EXCEPT ![<<o.of, o.pr>>] = "created"]
        /\ opened' = opened \ {o}
        /\ UNCHANGED <<hub, closed, unlisted, pc, hand>>
    BY <2>1 DEF RecordCreatedPullRequest, LinkRecorded, hubVars, syncVars
  <2>4. /\ \A x \in Primary : Known(x)' <=> Known(x) \/ x = o.pr
        /\ Item \subseteq Primary
    BY <1>1, <2>2, <2>3 DEF Known, RowTypes, Item, Primary
  <2>5. KnownExist'
    BY <2>1, <2>3, <2>4 DEF BoardInv, KnownExist
  <2>6. OneSync' /\ HubRemembers'
    BY <2>3 DEF BoardInv, OneSync, HubRemembers, Syncing
  <2>7. SyncsSee'
    <3>1. \A x \in Issue : Known(x)' => Known(x)
      BY <2>2, <2>4, ItemAssumption DEF Primary
    <3>2. \A x \in PullRequest : Known(x)' \/ (\E q \in opened' : q.pr = x)
                                => Known(x) \/ (\E q \in opened : q.pr = x)
      BY <2>1, <2>3, <2>4 DEF Primary
    <3>3. ASSUME NEW t \in Request, pc[t] \in {"prs", "apply"}, NEW x \in Issue, Known(x)'
          PROVE  x \in hand[t].issues \cup Over
      BY <3>1, <3>3 DEF BoardInv, SyncsSee
    <3>4. ASSUME NEW t \in Request, pc[t] = "apply", NEW x \in PullRequest,
                 Known(x)' \/ (\E q \in opened' : q.pr = x)
          PROVE  x \in hand[t].prs \cup Over
      BY <3>2, <3>4 DEF BoardInv, SyncsSee
    <3>5. Over' = Over
      BY <2>3 DEF Over
    <3> QED BY <2>3, <3>3, <3>4, <3>5 DEF SyncsSee
  <2>8. ASSUME NEW s \in Primary
        PROVE  /\ card'[s].state # "none" \/ card'[s].active => Known(s)'
               /\ card'[s].pr # Nothing => item'[card'[s].pr] # "none"
               /\ \A p \in PullRequest \cap card'[s].links : Known(p)'
    <3>1. /\ card[s] \in CardType /\ PullRequest \subseteq Primary
          /\ card[s].state # "none" \/ card[s].active => Known(s)
          /\ card[s].pr # Nothing => Known(card[s].pr) /\ card[s].pr \in Primary
          /\ \A p \in PullRequest \cap card[s].links : Known(p)
      BY <1>1 DEF RowTypes, CardType, Primary, BoardInv, BoardIsKnown
    <3>2. card' = IF ~o.current THEN card
                  ELSE [card EXCEPT ![o.of] = [WithLinks(card[o.of], {o.pr}) EXCEPT !.pr = o.pr]]
      BY <1>1, <2>1, <2>2 DEF RecordCreatedPullRequest, RowTypes
    <3>3. card'[s] = card[s] \/ card'[s] = [card[s] EXCEPT !.links = card[s].links \cup {o.pr}, !.pr = o.pr]
      BY <1>1, <3>1, <3>2 DEF WithLinks, RowTypes, CardType
    <3>4. \A x \in Primary : item'[x] # "none" <=> Known(x) \/ x = o.pr
      BY <2>4 DEF Known
    <3>5. CASE card'[s] = card[s]
      <4>1. card[s].pr # Nothing => item'[card[s].pr] # "none"
        BY <3>1, <3>4
      <4> QED BY <2>4, <3>1, <3>5, <4>1
    <3>6. CASE card'[s] = [card[s] EXCEPT !.links = card[s].links \cup {o.pr}, !.pr = o.pr]
      <4>1. /\ card'[s].state = card[s].state /\ card'[s].active = card[s].active
            /\ card'[s].pr = o.pr /\ card'[s].links = card[s].links \cup {o.pr}
        BY <3>1, <3>6 DEF CardType
      <4> QED BY <2>2, <2>4, <3>1, <3>4, <4>1
    <3> QED BY <3>3, <3>5, <3>6
  <2>9. \A q \in Pair : link'[q] # "none" => Known(q[2])'
    <3>1. \A q \in Pair : q = <<o.of, o.pr>> => q[2] = o.pr
      OBVIOUS
    <3>2. \A q \in Pair : q # <<o.of, o.pr>> => link'[q] = link[q]
      BY <1>1, <2>3 DEF RowTypes
    <3> QED BY <2>2, <2>4, <3>1, <3>2, PairParts DEF BoardInv, BoardIsKnown
  <2>10. BoardIsKnown'
    BY <2>8, <2>9 DEF BoardIsKnown, Known
  <2> QED BY <2>5, <2>6, <2>10, <2>7 DEF BoardInv
<1> QED BY <1>2, <1>3

LEMMA SourceKeepsBoard ==
    ASSUME SyncInv, BoardInv, UpdateSource \/ DeleteSource \/ CreateSource
    PROVE  BoardInv'
<1>1. OtherTypes /\ SyncTypes
  BY TypesSplit DEF SyncInv
<1>2. UNCHANGED <<hub, closed, unlisted, pc, hand>>
  BY DEF UpdateSource, DeleteSource, CreateSource, OnBoard, hubVars, syncVars
<1>3. CASE UNCHANGED <<item, link, card, opened>>
  BY <1>2, <1>3
     DEF BoardInv, HubRemembers, KnownExist, BoardIsKnown, SyncsSee, OneSync, Syncing, Known, Over
<1>4. CASE DeleteSource
  <2>1. /\ \A x \in Primary : item'[x] = "none" /\ card'[x] = NoCard
        /\ \A q \in Pair : link'[q] = "none"
        /\ opened' = {} /\ Item \subseteq Primary
    BY <1>4 DEF DeleteSource, DeleteSourceDependents, Item, Primary
  <2>2. BoardIsKnown'
    BY <2>1 DEF BoardIsKnown, NoCard
  <2>3. KnownExist' /\ SyncsSee'
    BY <1>2, <2>1 DEF BoardInv, KnownExist, SyncsSee, Known, Item
  <2> QED BY <1>2, <2>2, <2>3 DEF BoardInv, HubRemembers, OneSync, Syncing
<1> QED BY <1>3, <1>4 DEF UpdateSource, CreateSource, OnBoard, rowVars

LEMMA InitBoard == Init => BoardInv
<1> SUFFICES ASSUME Init PROVE BoardInv
  OBVIOUS
<1>1. HubRemembers /\ KnownExist
  BY DEF Init, HubRemembers, KnownExist, Known, Item, Primary, NoHand
<1>2. BoardIsKnown
  BY PairParts DEF Init, BoardIsKnown, NoCard
<1>3. SyncsSee /\ OneSync
  BY DEF Init, SyncsSee, OneSync, Syncing
<1> QED BY <1>1, <1>2, <1>3 DEF BoardInv

(* Whatever else happens on the board, GitHub completes nothing but in a sync. *)
LEMMA OnlySyncsComplete ==
    ASSUME SyncInv, [Next]_vars, NEW s \in Primary, Completed(s)
    PROVE  \E t \in Request : Apply(t)
<1>1. RowTypes /\ OtherTypes
  BY TypesSplit DEF SyncInv
<1>2. card[s] \in CardType
  BY <1>1 DEF RowTypes
<1>3. card' # card
  BY DEF Completed
<1>4. ASSUME NEW x \in Primary, ActivateSourceItem(x) PROVE FALSE
  BY <1>1, <1>4 DEF ActivateSourceItem, Completed, RowTypes
<1>5. ASSUME NEW x \in Primary, MoveWorkItem(x) PROVE FALSE
  <2>1. card' = [card EXCEPT ![x] = [card[x] EXCEPT !.state = IF @ = "done" THEN "open" ELSE "done",
                                                    !.byGitHub = FALSE]]
    BY <1>1, <1>5 DEF MoveWorkItem, RowTypes
  <2> QED BY <1>1, <1>2, <2>1 DEF Completed, RowTypes, CardType
<1>6. ASSUME NEW x \in Primary, ArchiveWorkItem(x) PROVE FALSE
  <2>1. card' = [card EXCEPT ![x] = [card[x] EXCEPT !.state = "done", !.active = FALSE, !.byGitHub = FALSE]]
    BY <1>1, <1>6 DEF ArchiveWorkItem, RowTypes
  <2> QED BY <1>1, <1>2, <2>1 DEF Completed, RowTypes, CardType
<1>7. ASSUME NEW x \in Primary, NEW p \in PullRequest, SelectActivePR(x, p) PROVE FALSE
  BY <1>1, <1>2, <1>7 DEF SelectActivePR, Completed, RowTypes, CardType
<1>8. ASSUME NEW o \in opened, RecordCreatedPullRequest(o) PROVE FALSE
  <2>1. card' = IF ~o.current THEN card
                ELSE [card EXCEPT ![o.of] = [WithLinks(card[o.of], {o.pr}) EXCEPT !.pr = o.pr]]
    BY <1>1, <1>8 DEF RecordCreatedPullRequest, RowTypes
  <2>2. [WithLinks(card[s], {o.pr}) EXCEPT !.pr = o.pr].byGitHub = card[s].byGitHub
    BY <1>2 DEF WithLinks, CardType
  <2> QED BY <1>1, <2>1, <2>2 DEF Completed, RowTypes
<1>9. ~DeleteSource
  BY DEF DeleteSource, DeleteSourceDependents, NoCard, Completed
<1> QED BY <1>3, <1>4, <1>5, <1>6, <1>7, <1>8, <1>9
    DEF Next, GitHub, Sync, Board, vars, rowVars, Opens, Closes, Relabels, Describes, OnGitHub,
        BeginSync, FetchIssues, FetchPullRequests, FailSync, CreateLocalTicket, OpenPullRequest,
        UpdateSource, CreateSource

(* A sync completes a card because of what it closes. *)
LEMMA SyncsCompleteWhatIsOver ==
    ASSUME SyncInv, BoardInv, NEW t \in Request, Apply(t), NEW s \in Primary, Completed(s)
    PROVE  {s, card'[s].pr} \cap Over # {}
<1>1. PICK c \in CardType :
        /\ card'[s] = IF Outcome(c, item', s) /\ c.active
                      THEN [c EXCEPT !.state = "done", !.byGitHub = TRUE] ELSE c
        /\ c.state = card[s].state /\ c.byGitHub = card[s].byGitHub /\ c.active = card[s].active
        /\ c.pr # Nothing => Known(c.pr) \/ item'[c.pr] = "open"
        /\ \A p \in PullRequest \cap c.links : Known(p) \/ item'[p] = "open"
  BY ApplyGives
<1>2. Outcome(c, item', s) /\ card'[s].pr = c.pr
  BY <1>1 DEF Completed, CardType
<1>3. c.pr \in PullRequest \cup {Nothing} /\ PullRequest \subseteq Item
  BY DEF CardType, Item
<1>4. CASE s \in Item /\ item'[s] # "open"
  <2>1. Known(s)
    BY <1>1, <1>2 DEF Outcome, BoardInv, BoardIsKnown
  <2> QED BY <1>4, <2>1, ApplyCloses
<1>5. CASE c.pr # Nothing /\ item'[c.pr] # "open"
  <2>1. c.pr \in Item /\ Known(c.pr)
    BY <1>1, <1>3, <1>5
  <2> QED BY <1>2, <1>5, <2>1, ApplyCloses
<1> QED BY <1>2, <1>4, <1>5 DEF Outcome, CompletionOutcome, Item

(* A sync completes a card only when its primary item, or the pull request it works on,   *)
(* has been closed on GitHub or has stopped matching the filters, for any number of       *)
(* items, if syncs do not overlap and the lists fit a page (sync_source,                  *)
(* _sync_work_items).                                                                     *)
THEOREM CardsEndForACause ==
    ASSUME ~Overlap,
           IsFiniteSet(Issue), Cardinality(Issue) <= PageSize,
           IsFiniteSet(PullRequest), Cardinality(PullRequest) <= PageSize
    PROVE  Spec => CompletedByGitHub
<1> DEFINE Caused == \A s \in Primary : Completed(s) => {s, card'[s].pr} \cap (closed \cup unlisted) # {}
<1>1. SyncInv /\ BoardInv /\ [Next]_vars => BoardInv'
  <2> SUFFICES ASSUME SyncInv, BoardInv, [Next]_vars PROVE BoardInv'
    OBVIOUS
  <2>1. CASE UNCHANGED vars
    BY <2>1 DEF vars, hubVars, rowVars, syncVars, BoardInv, HubRemembers, KnownExist, BoardIsKnown,
                SyncsSee, OneSync, Syncing, Known, Over
  <2>2. CASE GitHub
    BY <2>2, GitHubKeepsBoard
  <2>3. CASE \E t \in Request : Sync(t) \/ FailSync(t)
    BY <2>3, FetchKeepsBoard, ApplyKeepsBoard DEF Sync
  <2>4. CASE Board
    BY <2>4, CardsKeepBoard, PullRequestsKeepBoard, SourceKeepsBoard DEF Board
  <2> QED BY <2>1, <2>2, <2>3, <2>4 DEF Next
<1>2. SyncInv /\ BoardInv /\ [Next]_vars => [Caused]_vars
  <2> SUFFICES ASSUME SyncInv, BoardInv, [Next]_vars, NEW s \in Primary, Completed(s)
               PROVE  {s, card'[s].pr} \cap (closed \cup unlisted) # {}
    OBVIOUS
  <2> QED BY OnlySyncsComplete, SyncsCompleteWhatIsOver DEF Over
<1> QED BY InitHolds, StepKeeps, InitBoard, <1>1, <1>2, PTL DEF Spec, CompletedByGitHub
=============================================================================
