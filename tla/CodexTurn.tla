----------------------------- MODULE CodexTurn -----------------------------
(***************************************************************************)
(* The Codex actions of one work item, one after the other.  Whoever runs  *)
(* one, a worker or the request thread that approved a gate and goes on    *)
(* from there, starts `codex app-server` and talks to it over the pipes of *)
(* its standard streams.  Requests are answered by responses with their    *)
(* number; what the server tells of the turn arrives in between, in one    *)
(* stream, and is turned into the final message and the token counts.  The *)
(* thread of a run that succeeded is kept with the work item's run and     *)
(* resumed by the next action.  A worker has a row with a deadline; a      *)
(* request thread has none, and the client itself never gives up.          *)
(*                                                                         *)
(* Both pipes hold a bounded number of lines and nobody reads the server's *)
(* standard error while the turn runs.  The transport is app-server, the   *)
(* attempt belongs to a work item and approval_policy is "never", as in    *)
(* the default configuration, so the server asks the client nothing.       *)
(***************************************************************************)
EXTENDS Naturals, Sequences, FiniteSets, SequencesExt

CONSTANTS
    Item,           \* messages of the agent in a turn, numbered in their order
    PipeSize,       \* lines standard output holds unread
    ErrorPipeSize,  \* lines standard error holds
    MaxLogs,        \* bound: lines the server logs in a run
    MaxDeltas,      \* bound: deltas of a turn
    MaxRuns,        \* bound: runs of Codex
    MaxAccidents    \* bound: servers and runners that die, threads that are lost

ASSUME PipeAssumption == Item \subseteq Nat \ {0} /\ PipeSize \in Nat \ {0} /\ ErrorPipeSize \in Nat
ASSUME BoundAssumption ==
    /\ MaxLogs \in Nat /\ MaxDeltas \in Nat
    /\ MaxRuns \in Nat /\ MaxAccidents \in Nat

VARIABLES
    runner,     \* who runs it: "worker", or "gate" (a request thread)
    pc,         \* what the runner is doing
    waiting,    \* number of the request it waits for, or 0
    nextId,     \* next_id
    client,     \* final_message_parts, _last_final_message_item_id and latest_token_usage
    thread,     \* thread of this run, or 0
    refused,    \* history: the saved thread could not be resumed in this run
    saved,      \* codex_thread_id of the work item's run, or 0
    stdin, stdout, logged,
    server,     \* the app-server: whether it is up, what it works on
    sent,       \* history: the deltas of this run's turn, as the server sent them
    counted,    \* history: the tokens the server told of last in this run
    kept,       \* threads on the disk of the Codex installation
    counts      \* runs, accidents
vars == <<runner, pc, waiting, nextId, client, thread, refused, saved, stdin, stdout, logged, server, sent, counted, kept, counts>>
clientVars == <<runner, pc, waiting, nextId, client, thread, refused, saved>>

Threads == 1..MaxRuns
Break == [item |-> 0, brk |-> TRUE]
(* brk: the message so far, this delta included, ends with a blank line. *)
Delta == [item : Item, brk : BOOLEAN]
NoServer == [up |-> FALSE, stuck |-> FALSE, owed |-> 0, turn |-> FALSE]
NewClient == [parts |-> <<>>, item |-> 0, usage |-> 0]

Init ==
    /\ runner = "worker" /\ pc = "idle" /\ waiting = 0 /\ nextId = 1 /\ client = NewClient
    /\ thread = 0 /\ refused = FALSE /\ saved = 0
    /\ stdin = <<>> /\ stdout = <<>> /\ logged = 0
    /\ server = NoServer /\ sent = <<>> /\ counted = 0 /\ kept = {}
    /\ counts = [runs |-> 0, accidents |-> 0]

(***************************************************************************)
(* The runner.                                                             *)
(***************************************************************************)
(* Popen: a server of this run's own, and empty pipes. *)
Start ==
    /\ pc = "idle" /\ counts.runs < MaxRuns
    /\ runner' \in {"worker", "gate"}
    /\ pc' = "initialize" /\ nextId' = 1 /\ client' = NewClient
    /\ thread' = 0 /\ refused' = FALSE
    /\ stdin' = <<>> /\ stdout' = <<>> /\ logged' = 0
    /\ server' = [NoServer EXCEPT !.up = TRUE] /\ sent' = <<>> /\ counted' = 0
    /\ counts' = [counts EXCEPT !.runs = @ + 1]
    /\ UNCHANGED <<waiting, saved, kept>>

(* The end of a run, good or bad, closes the server. *)
Closed == server' = NoServer /\ stdin' = <<>> /\ stdout' = <<>>
Fail ==
    /\ pc' = "idle" /\ waiting' = 0
    /\ Closed

Send ==
    /\ pc \in {"initialize", "thread/resume", "thread/start", "turn/start"} /\ waiting = 0
    /\ IF server.up
       THEN /\ stdin' = Append(stdin, [id |-> nextId, method |-> pc,
                                       thread |-> IF pc = "thread/resume" THEN saved ELSE thread])
            /\ waiting' = nextId /\ nextId' = nextId + 1
            /\ UNCHANGED <<pc, stdout, server>>
       ELSE Fail /\ UNCHANGED nextId
    /\ UNCHANGED <<runner, client, thread, refused, saved, logged, sent, counted, kept, counts>>

\* Mutant: the resumed thread is not asked for.
AfterInitializeNew == "thread/start"
AfterInitialize == IF saved # 0 THEN "thread/resume" ELSE "thread/start"

(* _append_final_message_delta: a blank line between two messages of the agent. *)
AppendDelta(c, delta) ==
    LET apart == c.item \notin {0, delta.item} /\ c.parts # <<>> /\ ~Last(c.parts).brk IN
    [c EXCEPT !.item = delta.item,
              !.parts = (IF apart THEN Append(@, Break) ELSE @) \o <<delta>>]

(* _handle_notification *)
Noted(message) ==
    CASE message.kind = "delta" -> AppendDelta(client, message.delta)
      [] message.kind = "usage" -> [client EXCEPT !.usage = message.usage]
      [] OTHER -> client

\* What thread/resume and thread/start make of their answer, and what comes after it.
Answered(message) ==
    /\ pc' = CASE pc = "initialize" -> AfterInitialize
               [] pc = "thread/resume" -> IF message.error THEN "thread/start" ELSE "turn/start"
               [] pc = "thread/start" -> "turn/start"
               [] pc = "turn/start" -> "read"
    /\ thread' = IF pc \in {"thread/resume", "thread/start"} THEN message.thread ELSE thread
    /\ refused' = (refused \/ message.error)

\* Mutant: what arrives before the response is read over.
ReceiveSkipping ==
    /\ waiting # 0 /\ stdout # <<>>
    /\ LET message == Head(stdout) IN
       IF message.kind # "response" \/ message.id # waiting
       THEN /\ stdout' = Tail(stdout)
            /\ UNCHANGED <<pc, waiting, client, thread, refused, stdin, server>>
       ELSE /\ message.error => pc = "thread/resume"
            /\ stdout' = Tail(stdout) /\ waiting' = 0
            /\ Answered(message)
            /\ UNCHANGED <<client, stdin, server>>
    /\ UNCHANGED <<runner, nextId, saved, logged, sent, counted, kept, counts>>

(* request: reads until the response with the request's number.  The run     *)
(* fails when it is an error, unless it was the saved thread that was asked  *)
(* for: then a new one is started.                                           *)
Receive ==
    /\ waiting # 0 /\ stdout # <<>>
    /\ LET message == Head(stdout)
           mine == message.kind = "response" /\ message.id = waiting
       IN
       \/ /\ ~mine
          /\ client' = Noted(message)
          /\ stdout' = Tail(stdout)
          /\ UNCHANGED <<pc, waiting, thread, refused, stdin, server>>
       \/ /\ mine /\ (message.error => pc = "thread/resume")
          /\ stdout' = Tail(stdout) /\ waiting' = 0
          /\ Answered(message)
          /\ UNCHANGED <<client, stdin, server>>
       \/ /\ mine /\ message.error /\ pc # "thread/resume"
          /\ Fail
          /\ UNCHANGED <<client, thread, refused>>
    /\ UNCHANGED <<runner, nextId, saved, logged, sent, counted, kept, counts>>

\* The run is recorded as completed, with its message and its tokens.
Completes == pc' = "completed" /\ Closed

(* _read_until_turn_completed *)
ReadTurn ==
    /\ pc = "read" /\ stdout # <<>>
    /\ client' = Noted(Head(stdout))
    /\ IF Head(stdout).kind = "completed"
       THEN Completes
       ELSE stdout' = Tail(stdout) /\ UNCHANGED <<pc, stdin, server>>
    /\ UNCHANGED <<runner, waiting, nextId, thread, refused, saved, logged, sent, counted, kept, counts>>

\* Mutant: the end of the stream is taken for a line without a message.
EndOfStreamIgnored ==
    /\ waiting # 0 \/ pc = "read"
    /\ stdout = <<>> /\ ~server.up
    /\ UNCHANGED vars

(* readline returns nothing once the server is gone.  A resume that ends this way goes on *)
(* to thread/start, which finds the pipe broken.                                          *)
EndOfStream ==
    /\ waiting # 0 \/ pc = "read"
    /\ stdout = <<>> /\ ~server.up
    /\ IF pc = "thread/resume"
       THEN pc' = "thread/start" /\ waiting' = 0 /\ refused' = TRUE /\ UNCHANGED <<stdin, stdout, server>>
       ELSE Fail /\ UNCHANGED refused
    /\ UNCHANGED <<runner, nextId, client, thread, saved, logged, sent, counted, kept, counts>>

(* The thread is saved after the server was closed. *)
SaveThread ==
    /\ pc = "completed"
    /\ pc' = "idle" /\ saved' = thread
    /\ UNCHANGED <<runner, waiting, nextId, client, thread, refused, stdin, stdout, logged, server, sent, counted, kept, counts>>

(* The worker is killed, or dies, or the process of the request thread     *)
(* does; the app-server ends with its standard input.                      *)
RunnerDies ==
    /\ pc # "idle" /\ counts.accidents < MaxAccidents
    /\ counts' = [counts EXCEPT !.accidents = @ + 1]
    /\ Fail
    /\ UNCHANGED <<runner, nextId, client, thread, refused, saved, logged, sent, counted, kept>>

(* max_runtime_seconds: the supervisor ends a worker whose server does not come back. *)
(* It knows workers by their rows, so it never ends a request thread.                 *)
Deadline ==
    /\ runner = "worker"
    /\ pc # "idle" /\ server.stuck
    /\ Fail
    /\ UNCHANGED <<runner, nextId, client, thread, refused, saved, logged, sent, counted, kept, counts>>

(***************************************************************************)
(* The app-server.                                                         *)
(***************************************************************************)
Works == server.up /\ ~server.stuck
Room == Len(stdout) < PipeSize
Answer(id, error, t) == [kind |-> "response", id |-> id, error |-> error, thread |-> t]
NewThread == counts.runs

(* Any request may be refused, and that for a thread which is gone must be. *)
Serve ==
    /\ Works /\ Room /\ stdin # <<>> /\ server.owed = 0
    /\ stdin' = Tail(stdin)
    /\ LET r == Head(stdin) IN
       \/ /\ stdout' = Append(stdout, Answer(r.id, TRUE, 0))
          /\ UNCHANGED <<server, kept>>
       \/ /\ r.method = "initialize"
          /\ stdout' = Append(stdout, Answer(r.id, FALSE, 0))
          /\ UNCHANGED <<server, kept>>
       \/ /\ r.method = "thread/resume" /\ r.thread \in kept
          /\ stdout' = Append(stdout, Answer(r.id, FALSE, r.thread))
          /\ UNCHANGED <<server, kept>>
       \/ /\ r.method = "thread/start"
          /\ stdout' = Append(stdout, Answer(r.id, FALSE, NewThread))
          /\ kept' = kept \cup {NewThread}
          /\ UNCHANGED server
       \/ /\ r.method = "turn/start"
          /\ server' = [server EXCEPT !.owed = r.id, !.turn = TRUE]
          /\ UNCHANGED <<stdout, kept>>
    /\ UNCHANGED <<clientVars, logged, sent, counted, counts>>

(* The response to turn/start may follow the turn's first notifications. *)
AnswerTurn ==
    /\ Works /\ Room /\ server.owed # 0
    /\ stdout' = Append(stdout, Answer(server.owed, FALSE, 0))
    /\ server' = [server EXCEPT !.owed = 0]
    /\ UNCHANGED <<clientVars, stdin, logged, sent, counted, kept, counts>>

SendDelta ==
    /\ Works /\ Room /\ server.turn /\ Len(sent) < MaxDeltas
    /\ \E d \in Delta :
        /\ \A i \in DOMAIN sent : sent[i].item <= d.item
        /\ sent' = Append(sent, d)
        /\ stdout' = Append(stdout, [kind |-> "delta", delta |-> d])
    /\ UNCHANGED <<clientVars, stdin, logged, server, counted, kept, counts>>

SendUsage ==
    /\ Works /\ Room /\ server.turn /\ counted < Len(sent)
    /\ counted' = Len(sent)
    /\ stdout' = Append(stdout, [kind |-> "usage", usage |-> Len(sent)])
    /\ UNCHANGED <<clientVars, stdin, logged, server, sent, kept, counts>>

CompleteTurn ==
    /\ Works /\ Room /\ server.turn /\ server.owed = 0
    /\ server' = [server EXCEPT !.turn = FALSE]
    /\ stdout' = Append(stdout, [kind |-> "completed"])
    /\ UNCHANGED <<clientVars, stdin, logged, sent, counted, kept, counts>>

(* A line for standard error waits for room in a pipe that is never read. *)
Log ==
    /\ Works /\ logged < MaxLogs
    /\ IF logged < ErrorPipeSize
       THEN logged' = logged + 1 /\ UNCHANGED server
       ELSE server' = [server EXCEPT !.stuck = TRUE] /\ UNCHANGED logged
    /\ UNCHANGED <<clientVars, stdin, stdout, sent, counted, kept, counts>>

ServerDies ==
    /\ server.up /\ counts.accidents < MaxAccidents
    /\ server' = NoServer /\ stdin' = <<>>
    /\ counts' = [counts EXCEPT !.accidents = @ + 1]
    /\ UNCHANGED <<clientVars, stdout, logged, sent, counted, kept>>

LoseThread ==
    /\ pc = "idle" /\ saved \in kept /\ counts.accidents < MaxAccidents
    /\ kept' = kept \ {saved}
    /\ counts' = [counts EXCEPT !.accidents = @ + 1]
    /\ UNCHANGED <<clientVars, stdin, stdout, logged, server, sent, counted>>

Next ==
    \/ Start \/ Send \/ Receive \/ ReadTurn \/ EndOfStream \/ SaveThread \/ RunnerDies \/ Deadline
    \/ Serve \/ AnswerTurn \/ SendDelta \/ SendUsage \/ CompleteTurn \/ Log \/ ServerDies \/ LoseThread

(* The runner reads what there is and the server, unless it is blocked, ends the turn   *)
(* it began; the supervisor reaches the deadline of a worker.  Starting, logging and    *)
(* dying are never due.                                                                 *)
Fairness ==
    /\ WF_vars(Send \/ Receive \/ ReadTurn \/ EndOfStream \/ SaveThread)
    /\ WF_vars(Deadline)
    /\ WF_vars(Serve) /\ WF_vars(AnswerTurn) /\ WF_vars(CompleteTurn)

Spec == Init /\ [][Next]_vars /\ Fairness

(***************************************************************************)
(* Properties.                                                             *)
(***************************************************************************)
(* Every variable keeps its type, and nothing is left of a run that ended. *)
TypeOK ==
    /\ runner \in {"worker", "gate"}
    /\ pc \in {"idle", "initialize", "thread/resume", "thread/start", "turn/start", "read", "completed"}
    /\ waiting \in 0..4 /\ nextId \in 1..5
    /\ client.parts \in Seq(Delta \cup {Break}) /\ client.item \in Item \cup {0}
    /\ thread \in Threads \cup {0} /\ saved \in Threads \cup {0} /\ kept \subseteq Threads
    /\ refused \in BOOLEAN
    /\ Len(stdin) <= 1 /\ Len(stdout) <= PipeSize /\ logged \in 0..ErrorPipeSize
    /\ sent \in Seq(Delta)
    /\ pc = "idle" => server = NoServer /\ stdin = <<>>

(* The parts of a message that are text, and how many of them there are up to one. *)
Texts(parts) == {i \in DOMAIN parts : parts[i] # Break}
UpTo(S, i) == Cardinality({j \in S : j <= i})

(* The message of a run that succeeded is all the text of the turn, in order, with a *)
(* blank line between two messages of the agent and none inside one, and the tokens  *)
(* are the last ones told, whichever part of it was read while the response to       *)
(* turn/start was awaited (request, _append_final_message_delta).                    *)
ResultIsWhole ==
    pc = "completed" =>
        /\ Cardinality(Texts(client.parts)) = Len(sent)
        /\ \A i \in Texts(client.parts) : client.parts[i] = sent[UpTo(Texts(client.parts), i)]
        /\ \A i \in 1..Len(client.parts) - 1 :
            LET p == client.parts[i]
                q == client.parts[i + 1]
            IN  p # Break /\ q # Break => p.item = q.item \/ p.brk
        /\ \A i \in 2..Len(client.parts) - 1 :
            client.parts[i] = Break => client.parts[i - 1].item # client.parts[i + 1].item
        /\ client.usage = counted

(* A run leaves the saved thread only when it could not be resumed, so a work item's *)
(* conversation goes on over runs, dead workers and dead servers                     *)
(* (_run_app_server, _codex_thread_id, _save_codex_thread_id).                       *)
ThreadContinues ==
    pc \in {"turn/start", "read", "completed"} /\ saved # 0 /\ thread # saved => refused

(* Every run of a worker ends, though the app-server may refuse a request, die or    *)
(* block at any point.  So does the run of a request thread, unless its server       *)
(* blocks: nothing in the code ends it then (_read_message has no timeout).          *)
RunEnds == (pc # "idle") ~> (pc = "idle" \/ (runner = "gate" /\ server.stuck))
=============================================================================
