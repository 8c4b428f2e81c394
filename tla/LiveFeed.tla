------------------------------ MODULE LiveFeed ------------------------------
(***************************************************************************)
(* The live events of an attempt on its page.  The worker and the server   *)
(* insert rows of three sources, each stamped with the time before its     *)
(* transaction begins; a stream polls them with one cursor per source,     *)
(* merges a page of them by their stamps and sends it event by event; the  *)
(* page shows each event once, appends the output of Codex to the          *)
(* transcript, and asks for a new stream when the connection breaks.       *)
(***************************************************************************)
EXTENDS Naturals, Sequences, FiniteSets, FiniteSetsExt

CONSTANTS
    Limit,      \* events of a page of the stream
    MaxRows,    \* bound: rows, by source
    MaxTime,    \* bound: the clock
    MaxBreaks   \* bound: connections that break

ASSUME LimitAssumption ==
    Limit \in Nat \ {0} /\ MaxRows \in [{"codex", "error", "timeline"} -> Nat] /\ MaxTime \in Nat /\ MaxBreaks \in Nat

Sources == {"codex", "error", "timeline"}
Writers == {"worker", "server"}
NoRow == [source |-> "none", at |-> 0]

VARIABLES
    clock,      \* utc_now, in milliseconds
    stamped,    \* the row each writer is about to insert
    rows,       \* the stamps of the rows of each source, by id
    cleared,    \* ids of errors that were cleared
    connected,  \* whether the page has a stream
    cursor,     \* after_codex_id, after_timeline_id, after_error_id
    page,       \* events of the snapshot still to be sent
    seen,       \* events the page has shown
    transcript, \* ids of the Codex events in the transcript, in their order
    breaks      \* connections that broke so far
feedVars == <<clock, stamped, rows, cleared, connected, cursor, page, seen, transcript, breaks>>
tables == <<clock, stamped, rows, cleared>>

FeedInit ==
    /\ clock = 0 /\ stamped = [w \in Writers |-> NoRow]
    /\ rows = [s \in Sources |-> <<>>] /\ cleared = {}
    /\ connected = FALSE /\ cursor = [s \in Sources |-> 0] /\ page = <<>>
    /\ seen = {} /\ transcript = <<>> /\ breaks = 0

Tick ==
    /\ clock < MaxTime
    /\ clock' = clock + 1
    /\ UNCHANGED <<stamped, rows, cleared, connected, cursor, page, seen, transcript, breaks>>

(* The server writes no events of Codex while the worker lives. *)
Stamp(w, s) ==
    /\ stamped[w] = NoRow
    /\ s = "codex" => w = "worker"
    /\ Len(rows[s]) + Cardinality({v \in Writers : stamped[v].source = s}) < MaxRows[s]
    /\ stamped' = [stamped EXCEPT ![w] = [source |-> s, at |-> clock]]
    /\ UNCHANGED <<clock, rows, cleared, connected, cursor, page, seen, transcript, breaks>>

Insert(w) ==
    /\ stamped[w] # NoRow
    /\ rows' = [rows EXCEPT ![stamped[w].source] = Append(@, stamped[w].at)]
    /\ stamped' = [stamped EXCEPT ![w] = NoRow]
    /\ UNCHANGED <<clock, cleared, connected, cursor, page, seen, transcript, breaks>>

ClearErrors ==
    /\ cleared # DOMAIN rows["error"]
    /\ cleared' = DOMAIN rows["error"]
    /\ UNCHANGED <<clock, stamped, rows, connected, cursor, page, seen, transcript, breaks>>

Connect ==
    /\ ~connected
    /\ connected' = TRUE
    /\ cursor' = [s \in Sources |-> 0] /\ page' = <<>>
    /\ UNCHANGED <<tables, seen, transcript, breaks>>

(* What was sent and not yet shown is lost with the connection. *)
BreakOff ==
    /\ connected /\ breaks < MaxBreaks
    /\ connected' = FALSE
    /\ breaks' = breaks + 1
    /\ UNCHANGED <<tables, cursor, page, seen, transcript>>

(***************************************************************************)
(* attempt_live_events: at most Limit rows of each source, in the order of *)
(* their stamps, then of the names of the sources, then of their ids; and  *)
(* of those the first Limit.                                               *)
(***************************************************************************)
Name == [codex |-> 1, error |-> 2, timeline |-> 3]
After(s) ==
    LET ids == {i \in DOMAIN rows[s] : i > cursor[s] /\ (s = "error" => i \notin cleared)} IN
    {[source |-> s, id |-> i, at |-> rows[s][i]] : i \in {i \in ids : Cardinality({j \in ids : j < i}) < Limit}}
Earlier(e, f) ==
    \/ e.at < f.at
    \/ e.at = f.at /\ Name[e.source] < Name[f.source]
    \/ e.at = f.at /\ e.source = f.source /\ e.id < f.id

Pending == UNION {After(s) : s \in Sources}
Rank(e, events) == Cardinality({f \in events : Earlier(f, e)})

\* Mutant: the newest events make the page.
SnapshotNewest ==
    LET total == Cardinality(Pending)
        size == Min({Limit, total})
    IN  [i \in 1..size |-> CHOOSE e \in Pending : Rank(e, Pending) = total - size + i - 1]

Snapshot ==
    [i \in 1..Min({Limit, Cardinality(Pending)}) |-> CHOOSE e \in Pending : Rank(e, Pending) = i - 1]

Poll ==
    /\ connected /\ page = <<>> /\ Snapshot # <<>>
    /\ page' = Snapshot
    /\ UNCHANGED <<tables, connected, cursor, seen, transcript, breaks>>

(***************************************************************************)
(* One event is sent, and shown if the page has not seen it.               *)
(***************************************************************************)
\* Mutant: the page tells events apart by their numbers alone.
IsNewNumber(e) == \A f \in seen : f[2] # e.id
IsNew(e) == <<e.source, e.id>> \notin seen

\* Mutant: one cursor for all sources.
AdvancedAll(e) == [s \in Sources |-> Max({cursor[s], e.id})]
Advanced(e) == [cursor EXCEPT ![e.source] = Max({@, e.id})]

Show ==
    /\ connected /\ page # <<>>
    /\ LET e == Head(page) IN
       /\ cursor' = Advanced(e)
       /\ seen' = IF IsNew(e) THEN seen \cup {<<e.source, e.id>>} ELSE seen
       /\ transcript' = IF IsNew(e) /\ e.source = "codex" THEN Append(transcript, e.id) ELSE transcript
    /\ page' = Tail(page)
    /\ UNCHANGED <<tables, connected, breaks>>

FeedNext ==
    \/ Tick \/ ClearErrors
    \/ \E w \in Writers : (\E s \in Sources : Stamp(w, s)) \/ Insert(w)
    \/ Connect \/ BreakOff \/ Poll \/ Show

(* The browser connects again, the stream polls and sends. *)
FeedFairness == WF_feedVars(Connect) /\ WF_feedVars(Poll) /\ WF_feedVars(Show) /\ \A w \in Writers : WF_feedVars(Insert(w))

FeedSpec == FeedInit /\ [][FeedNext]_feedVars /\ FeedFairness

(***************************************************************************)
(* Properties.                                                             *)
(***************************************************************************)
(* An event behind its cursor was shown, unless it was cleared or a later row of its  *)
(* source bears an earlier stamp (two writers of one source, at the edge of a page):  *)
(* none of the worker's output is skipped (attempt_live_events,                       *)
(* _attempt_event_stream).                                                            *)
NothingSkipped ==
    connected => \A s \in Sources : \A i \in 1..cursor[s] :
        \/ <<s, i>> \in seen
        \/ s = "error" /\ i \in cleared
        \/ s # "codex" /\ \E j \in DOMAIN rows[s] : j > i /\ rows[s][j] < rows[s][i]

(* The transcript is the output of Codex in its order, without gaps or repetitions,  *)
(* over pages and connections (appendLiveOutput).                                    *)
TranscriptInOrder == transcript = [i \in 1..Len(transcript) |-> i]

(* Every Codex event comes to be shown, however often the connection breaks. *)
EveryEventIsShown ==
    \A i \in 1..MaxRows["codex"] : i \in DOMAIN rows["codex"] ~> <<"codex", i>> \in seen
=============================================================================
