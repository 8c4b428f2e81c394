--------------------------- MODULE AttemptProofs ---------------------------
(***************************************************************************)
(* Proofs about what an attempt is made of: the turn of Codex that one     *)
(* action of it runs (CodexTurn), the page that shows its output live      *)
(* (LiveFeed), and the rounds of its pull request (PullRequestRounds).     *)
(* The three parts use nothing of each other.                              *)
(***************************************************************************)
EXTENDS CodexTurn, LiveFeed, PullRequestRounds, SequenceTheorems, FiniteSetTheorems,
        FunctionTheorems, TLAPS

-----------------------------------------------------------------------------
(***************************************************************************)
(* CodexTurn: its types, and that a run goes on with the saved thread      *)
(* unless the server could not resume it                                   *)
(***************************************************************************)

(***************************************************************************)
(* The invariant                                                           *)
(***************************************************************************)

Method == {"initialize", "thread/resume", "thread/start", "turn/start"}
RequestType == [id : 1..4, method : Method, thread : Threads \cup {0}]
ResponseType == [kind : {"response"}, id : 1..4, error : BOOLEAN, thread : Threads \cup {0}]
NotificationType ==
    [kind : {"delta"}, delta : Delta] \cup [kind : {"usage"}, usage : Nat] \cup [kind : {"completed"}]
MessageType == ResponseType \cup NotificationType

StreamTypes ==
    /\ stdin \in Seq(RequestType) /\ stdout \in Seq(MessageType)
    /\ client \in [parts : Seq(Delta \cup {Break}), item : Item \cup {0}, usage : Nat]
    /\ server \in [up : BOOLEAN, stuck : BOOLEAN, owed : 0..4, turn : BOOLEAN]
    /\ counted \in Nat /\ counts \in [runs : 0..MaxRuns, accidents : Nat]
    /\ pc # "idle" => counts.runs \in Threads

(* The number of a request, before and after it is sent. *)
Before(method) ==
    CASE method = "initialize" -> 1 [] method = "thread/resume" -> 2
      [] method = "thread/start" -> 3 [] OTHER -> 4
IdsAreFresh ==
    /\ pc \in Method => nextId <= Before(pc) + (IF waiting = 0 THEN 0 ELSE 1)
    /\ waiting # 0 => pc \in Method /\ nextId = waiting + 1

(* What is asked is the one request that is waited for, until the server takes it. *)
OneRequest ==
    /\ stdin # <<>> =>
         /\ Len(stdin) = 1 /\ waiting # 0 /\ server.up /\ server.owed = 0
         /\ stdin[1].id = waiting /\ stdin[1].method = pc
         /\ pc = "thread/resume" => stdin[1].thread = saved
    /\ server.owed # 0 => waiting = server.owed /\ pc = "turn/start"

(* A response is to a request that was sent; the one that is waited for is its answer. *)
AnswersAreTrue ==
    \A i \in 1..Len(stdout) : stdout[i].kind = "response" =>
        /\ stdout[i].id < nextId
        /\ stdout[i].id = waiting =>
             /\ stdin = <<>> /\ server.owed = 0
             /\ pc = "thread/resume" => stdout[i].error \/ stdout[i].thread = saved

(* A new thread is asked for when none is saved, or it could not be resumed. *)
NewThreadIsNeeded ==
    /\ pc = "thread/resume" => saved # 0
    /\ pc = "thread/start" /\ saved # 0 => refused

(* A run that ended has closed its server and read, or thrown away, what it said. *)
NothingIsLeft ==
    pc \in {"idle", "completed"} => server = NoServer /\ stdin = <<>> /\ stdout = <<>>

TurnInv ==
    /\ TypeOK /\ StreamTypes /\ NothingIsLeft /\ IdsAreFresh /\ OneRequest /\ AnswersAreTrue
    /\ NewThreadIsNeeded /\ ThreadContinues

(***************************************************************************)
(* Sequences                                                               *)
(***************************************************************************)

(* An empty pipe. *)
LEMMA EmptyPipe == \A S : <<>> \in Seq(S) /\ Len(<<>>) = 0
OBVIOUS

(* The order of the requests of a run. *)
LEMMA BeforeIs == /\ Before("initialize") = 1 /\ Before("thread/resume") = 2
                  /\ Before("thread/start") = 3 /\ Before("turn/start") = 4
BY DEF Before

(* A message put at the end, and one taken from the front, of a pipe. *)
LEMMA PipeFacts ==
    ASSUME NEW S, NEW s \in Seq(S)
    PROVE  /\ \A e \in S : /\ Append(s, e) \in Seq(S) /\ Len(Append(s, e)) = Len(s) + 1
                           /\ \A i \in 1..Len(s) : Append(s, e)[i] = s[i]
                           /\ Append(s, e)[Len(s) + 1] = e
           /\ s # <<>> => /\ Head(s) \in S /\ Tail(s) \in Seq(S) /\ Len(Tail(s)) = Len(s) - 1
                          /\ Len(s) \in Nat \ {0} /\ Head(s) = s[1]
                          /\ \A i \in 1..Len(Tail(s)) : Tail(s)[i] = s[i + 1]
           /\ Len(s) \in Nat /\ (Len(s) = 0 <=> s = <<>>)
           /\ <<>> \in Seq(S) /\ Len(<<>>) = 0
<1>1. \A e \in S : /\ Append(s, e) \in Seq(S) /\ Len(Append(s, e)) = Len(s) + 1
                   /\ \A i \in 1..Len(s) : Append(s, e)[i] = s[i]
                   /\ Append(s, e)[Len(s) + 1] = e
  OBVIOUS
<1>2. Len(s) \in Nat /\ (Len(s) = 0 <=> s = <<>>) /\ <<>> \in Seq(S) /\ Len(<<>>) = 0
  OBVIOUS
<1>3. ASSUME s # <<>>
      PROVE  /\ Head(s) \in S /\ Tail(s) \in Seq(S) /\ Len(Tail(s)) = Len(s) - 1
             /\ Len(s) \in Nat \ {0} /\ Head(s) = s[1]
             /\ \A i \in 1..Len(Tail(s)) : Tail(s)[i] = s[i + 1]
  BY <1>3
<1> QED BY <1>1, <1>2, <1>3

(* A delta makes a longer message of the same type. *)
LEMMA DeltaType ==
    ASSUME NEW c \in [parts : Seq(Delta \cup {Break}), item : Item \cup {0}, usage : Nat],
           NEW d \in Delta
    PROVE  AppendDelta(c, d) \in [parts : Seq(Delta \cup {Break}), item : Item \cup {0}, usage : Nat]
<1> DEFINE P == Delta \cup {Break}
           apart == c.item \notin {0, d.item} /\ c.parts # <<>> /\ ~Last(c.parts).brk
           parts == IF apart THEN Append(c.parts, Break) ELSE c.parts
<1>1. d \in P /\ Break \in P /\ c.parts \in Seq(P) /\ d.item \in Item
  BY DEF Delta
<1>2. parts \in Seq(P)
  BY <1>1, AppendProperties
<1>3. <<d>> \in Seq(P)
  BY <1>1
<1>4. parts \o <<d>> \in Seq(P)
  BY <1>2, <1>3, ConcatProperties
<1>5. AppendDelta(c, d) = [c EXCEPT !.item = d.item, !.parts = parts \o <<d>>]
  BY DEF AppendDelta
<1> HIDE DEF parts, P
<1> QED BY <1>1, <1>4, <1>5 DEF P

(* What is read changes the message as it should. *)
LEMMA NotedType ==
    ASSUME TurnInv, NEW m \in MessageType
    PROVE  Noted(m) \in [parts : Seq(Delta \cup {Break}), item : Item \cup {0}, usage : Nat]
<1>1. CASE m.kind = "delta"
  <2>1. m.delta \in Delta
    BY <1>1 DEF MessageType, ResponseType, NotificationType
  <2> QED BY <1>1, <2>1, DeltaType DEF Noted, TurnInv, StreamTypes
<1>2. CASE m.kind = "usage"
  BY <1>2 DEF Noted, TurnInv, StreamTypes, MessageType, ResponseType, NotificationType
<1>3. CASE m.kind \notin {"delta", "usage"}
  BY <1>3 DEF Noted, TurnInv, StreamTypes
<1> QED BY <1>1, <1>2, <1>3

(***************************************************************************)
(* Steps                                                                   *)
(***************************************************************************)

(* The initial state satisfies the invariant. *)
LEMMA InitTurn == Init => TurnInv
<1> SUFFICES ASSUME Init PROVE TurnInv
  OBVIOUS
<1> USE PipeAssumption, BoundAssumption
<1>1. TypeOK
  <2>1. client.parts = <<>> /\ client.item = 0
    BY DEF Init, NewClient
  <2>2. stdin = <<>> /\ stdout = <<>> /\ sent = <<>> /\ server = NoServer
    BY DEF Init
  <2>3. client.parts \in Seq(Delta \cup {Break}) /\ sent \in Seq(Delta) /\ Len(stdin) = 0 /\ Len(stdout) = 0
    BY <2>1, <2>2, EmptyPipe
  <2>4. /\ runner \in {"worker", "gate"} /\ pc = "idle" /\ waiting \in 0..4 /\ nextId \in 1..5 /\ thread = 0 /\ saved = 0 /\ kept = {}
        /\ logged \in 0..ErrorPipeSize
    BY DEF Init
  <2>5. refused \in BOOLEAN
    BY Zenon DEF Init
  <2> QED BY <2>1, <2>2, <2>3, <2>4, <2>5 DEF TypeOK
<1>2. StreamTypes
  BY EmptyPipe DEF Init, StreamTypes, NewClient, NoServer
<1>3. IdsAreFresh /\ OneRequest /\ AnswersAreTrue
  BY DEF Init, IdsAreFresh, OneRequest, AnswersAreTrue, NoServer, Method
<1>4. NothingIsLeft /\ NewThreadIsNeeded /\ ThreadContinues
  BY DEF Init, NothingIsLeft, NewThreadIsNeeded, ThreadContinues
<1> QED BY <1>1, <1>2, <1>3, <1>4 DEF TurnInv

(* An accident is counted, and no run. *)
LEMMA AccidentIsCounted ==
    ASSUME counts \in [runs : 0..MaxRuns, accidents : Nat],
           counts' = [counts EXCEPT !.accidents = @ + 1]
    PROVE  counts' \in [runs : {counts.runs}, accidents : Nat]
<1>1. counts.accidents + 1 \in Nat
  OBVIOUS
<1>2. counts' = [runs |-> counts.runs, accidents |-> counts.accidents + 1]
  OBVIOUS
<1> QED BY <1>1, <1>2

(* A run that ends leaves nothing behind but the saved thread. *)
LEMMA FailedRun ==
    ASSUME TurnInv, Fail,
           UNCHANGED <<nextId, client, thread, saved, logged, sent, counted, kept>>,
           runner' \in {"worker", "gate"}, refused' \in BOOLEAN,
           counts' \in [runs : 0..MaxRuns, accidents : Nat]
    PROVE  TurnInv'
BY PipeAssumption, PipeFacts
DEF TurnInv, TypeOK, StreamTypes, IdsAreFresh, OneRequest, AnswersAreTrue,
    NothingIsLeft, NewThreadIsNeeded, ThreadContinues, Fail, Closed, NoServer, Before, Method

\* The next message ends the run: what it waits for is refused.
IsRefused ==
    /\ Head(stdout).kind = "response" /\ Head(stdout).id = waiting
    /\ Head(stdout).error /\ pc # "thread/resume"

(* What the server tells of the turn is no answer. *)
LEMMA Told ==
    ASSUME TurnInv, Room, server.up, NEW m \in NotificationType, stdout' = Append(stdout, m),
           UNCHANGED <<clientVars, stdin, logged, kept, counts>>,
           runner' \in {"worker", "gate"}, sent' \in Seq(Delta), counted' \in Nat,
           server' \in [up : {TRUE}, stuck : BOOLEAN, owed : {server.owed}, turn : BOOLEAN]
    PROVE  TurnInv'
<1>t. /\ TypeOK /\ StreamTypes /\ IdsAreFresh /\ OneRequest /\ AnswersAreTrue
      /\ NothingIsLeft /\ NewThreadIsNeeded /\ ThreadContinues
  BY DEF TurnInv
<1>1. /\ stdout' \in Seq(MessageType) /\ Len(stdout') = Len(stdout) + 1 /\ Len(stdout) \in Nat
      /\ \A i \in 1..Len(stdout) : stdout'[i] = stdout[i]
      /\ stdout'[Len(stdout) + 1] = m
  <2>1. m \in MessageType /\ stdout \in Seq(MessageType)
    BY <1>t DEF MessageType, StreamTypes
  <2> QED BY <2>1, PipeFacts
<1>2. m.kind # "response"
  BY DEF NotificationType
<1>3. pc \notin {"idle", "completed"}
  BY <1>t DEF NothingIsLeft, NoServer
<1>4. UNCHANGED <<pc, waiting, nextId, client, thread, refused, saved>>
  BY DEF clientVars
<1>5. TypeOK'
  BY PipeAssumption, <1>t, <1>1, <1>3, <1>4 DEF TypeOK, Room
<1>6. StreamTypes'
  BY <1>t, <1>1, <1>4 DEF StreamTypes
<1>7. AnswersAreTrue'
  BY <1>t, <1>1, <1>2, <1>4 DEF AnswersAreTrue
<1>8. IdsAreFresh' /\ OneRequest' /\ NothingIsLeft' /\ NewThreadIsNeeded' /\ ThreadContinues'
  BY <1>t, <1>3, <1>4 DEF IdsAreFresh, OneRequest, NothingIsLeft, NewThreadIsNeeded, ThreadContinues
<1> QED BY <1>5, <1>6, <1>7, <1>8 DEF TurnInv

(* Every step of worker and server keeps it. *)
LEMMA NextTurn == TurnInv /\ [Next]_vars => TurnInv'
<1> SUFFICES ASSUME TurnInv, [Next]_vars PROVE TurnInv'
  OBVIOUS
<1> USE PipeAssumption, BoundAssumption
<1>t. /\ TypeOK /\ StreamTypes /\ IdsAreFresh /\ OneRequest /\ AnswersAreTrue
      /\ NothingIsLeft /\ NewThreadIsNeeded /\ ThreadContinues
  BY DEF TurnInv
<1>s. /\ stdin \in Seq(RequestType) /\ stdout \in Seq(MessageType)
      /\ stdout # <<>> => /\ Head(stdout) \in MessageType /\ Tail(stdout) \in Seq(MessageType)
                          /\ Len(Tail(stdout)) = Len(stdout) - 1 /\ Head(stdout) = stdout[1]
                          /\ \A i \in 1..Len(Tail(stdout)) : Tail(stdout)[i] = stdout[i + 1]
      /\ Len(stdout) \in Nat
  BY <1>t, PipeFacts DEF StreamTypes
<1>r. runner' \in {"worker", "gate"}
  <2>1. Start => runner' \in {"worker", "gate"}
    BY DEF Start
  <2>2. ~Start => runner' = runner
    BY DEF Next, Send, Receive, ReadTurn, EndOfStream, SaveThread, RunnerDies, Deadline, Serve, AnswerTurn,
        SendDelta, SendUsage, CompleteTurn, Log, ServerDies, LoseThread, clientVars, vars
  <2> QED BY <2>1, <2>2, <1>t DEF TypeOK
<1> USE <1>r
<1>0. CASE UNCHANGED vars
  BY <1>0, <1>t DEF vars, TurnInv, TypeOK, StreamTypes, IdsAreFresh, OneRequest,
      AnswersAreTrue, NothingIsLeft, NewThreadIsNeeded, ThreadContinues
<1>1. CASE Start
  <2>1. /\ pc' = "initialize" /\ nextId' = 1 /\ client' = NewClient /\ thread' = 0 /\ refused' = FALSE
        /\ stdin' = <<>> /\ stdout' = <<>> /\ logged' = 0 /\ sent' = <<>> /\ counted' = 0
        /\ server' = [up |-> TRUE, stuck |-> FALSE, owed |-> 0, turn |-> FALSE]
        /\ counts' = [counts EXCEPT !.runs = @ + 1] /\ counts.runs < MaxRuns
        /\ UNCHANGED <<waiting, saved, kept>> /\ waiting = 0
    BY <1>1, <1>t DEF Start, NoServer, IdsAreFresh, Method
  <2>2. TypeOK'
    <3>1. client'.parts = <<>> /\ client'.item = 0
      BY <2>1 DEF NewClient
    <3>2. /\ client'.parts \in Seq(Delta \cup {Break}) /\ sent' \in Seq(Delta)
          /\ Len(stdin') = 0 /\ Len(stdout') = 0
      BY <2>1, <3>1, EmptyPipe
    <3>3. /\ waiting' \in 0..4 /\ nextId' \in 1..5 /\ thread' = 0 /\ saved' \in Threads \cup {0}
          /\ kept' \subseteq Threads /\ logged' \in 0..ErrorPipeSize
      BY <2>1, <1>t DEF TypeOK
    <3>4. pc' # "idle" /\ pc' = "initialize" /\ 0 <= PipeSize
      BY <2>1
    <3>5. refused' \in BOOLEAN
      BY <2>1, Zenon
    <3> QED BY <3>1, <3>2, <3>3, <3>4, <3>5 DEF TypeOK
  <2>3. StreamTypes'
    <3>1. counts' \in [runs : 0..MaxRuns, accidents : Nat] /\ counts'.runs \in Threads
      <4>1. counts \in [runs : 0..MaxRuns, accidents : Nat] /\ counts.runs + 1 \in 1..MaxRuns
        BY <2>1, <1>t, BoundAssumption DEF StreamTypes
      <4>2. counts' = [counts EXCEPT !.runs = counts.runs + 1]
        BY <2>1
      <4> QED BY <4>1, <4>2, BoundAssumption DEF Threads
    <3>2. client' \in [parts : Seq(Delta \cup {Break}), item : Item \cup {0}, usage : Nat]
      BY <2>1, EmptyPipe DEF NewClient
    <3> QED BY <2>1, <3>1, <3>2, EmptyPipe DEF StreamTypes
  <2>4. IdsAreFresh' /\ OneRequest' /\ AnswersAreTrue'
    BY <2>1, EmptyPipe, BeforeIs DEF IdsAreFresh, OneRequest, AnswersAreTrue
  <2>5. NothingIsLeft' /\ NewThreadIsNeeded' /\ ThreadContinues'
    BY <2>1 DEF NothingIsLeft, NewThreadIsNeeded, ThreadContinues
  <2> QED BY <2>2, <2>3, <2>4, <2>5 DEF TurnInv
<1>2. CASE Send
  <2>1. CASE ~server.up
    <3>1. Fail /\ UNCHANGED <<nextId, client, thread, refused, saved, logged, sent, counted, kept, counts>>
      BY <1>2, <2>1 DEF Send
    <3> QED BY <3>1, <1>t, FailedRun DEF TypeOK, StreamTypes
  <2>2. CASE server.up
    <3> DEFINE request == [id |-> nextId, method |-> pc,
                           thread |-> IF pc = "thread/resume" THEN saved ELSE thread]
    <3>1. /\ stdin' = Append(stdin, request) /\ waiting = 0 /\ waiting' = nextId
          /\ nextId' = nextId + 1 /\ pc \in Method
          /\ UNCHANGED <<pc, stdout, server, client, thread, refused, saved, logged, sent,
                         counted, kept, counts>>
      BY <1>2, <2>2 DEF Send, Method
    <3>2. nextId \in 1..4 /\ request \in RequestType
      BY <3>1, <1>t, BeforeIs DEF TypeOK, IdsAreFresh, RequestType, Method
    <3>3. stdin = <<>> /\ server.owed = 0
      BY <3>1, <1>t DEF OneRequest, TypeOK, StreamTypes
    <3>4. /\ stdin' \in Seq(RequestType) /\ Len(stdin') = 1 /\ stdin'[1] = request
      BY <3>1, <3>2, <3>3, PipeFacts
    <3> HIDE DEF request
    <3>9. pc' # "idle" /\ thread' \in Threads \cup {0} /\ saved' \in Threads \cup {0}
      BY <3>1, <1>t DEF TypeOK, Method
    <3>5. TypeOK' /\ StreamTypes'
      <4>1. TypeOK'
        BY <3>1, <3>2, <3>4, <3>9, <1>t DEF TypeOK, StreamTypes
      <4>2. StreamTypes'
        BY <3>1, <3>4, <1>t DEF StreamTypes
      <4> QED BY <4>1, <4>2
    <3>6. IdsAreFresh' /\ NothingIsLeft' /\ NewThreadIsNeeded' /\ ThreadContinues'
      <4>1. IdsAreFresh'
        BY <3>1, <3>2, <1>t, BeforeIs DEF IdsAreFresh, Method
      <4>2. NothingIsLeft'
        BY <3>1, <3>2 DEF NothingIsLeft, Method
      <4>3. NewThreadIsNeeded' /\ ThreadContinues'
        BY <3>1, <1>t DEF NewThreadIsNeeded, ThreadContinues
      <4> QED BY <4>1, <4>2, <4>3
    <3>7. OneRequest'
      BY <2>2, <3>1, <3>2, <3>3, <3>4 DEF OneRequest, request, TypeOK
    <3>8. AnswersAreTrue'
      BY <3>1, <3>2, <1>t, <1>s DEF AnswersAreTrue, MessageType, ResponseType, NotificationType
    <3> QED BY <3>5, <3>6, <3>7, <3>8 DEF TurnInv
  <2> QED BY <2>1, <2>2
<1>18. CASE Receive /\ IsRefused
  <2>1. Fail /\ UNCHANGED <<nextId, client, thread, refused, saved, logged, sent, counted, kept, counts>>
    BY <1>18 DEF Receive, IsRefused
  <2> QED BY <2>1, <1>t, FailedRun DEF TypeOK, StreamTypes
<1>3. CASE Receive /\ ~IsRefused
  <2> DEFINE m == Head(stdout)
  <2>0. /\ waiting # 0 /\ stdout # <<>> /\ m \in MessageType /\ m = stdout[1]
        /\ stdout' = Tail(stdout) /\ UNCHANGED <<nextId, saved, logged, sent, counted, kept, counts>>
        /\ UNCHANGED <<stdin, server>>
    BY <1>3, <1>s DEF Receive, IsRefused
  <2>1. /\ stdout' \in Seq(MessageType) /\ Len(stdout') = Len(stdout) - 1
        /\ \A i \in 1..Len(stdout') : stdout'[i] = stdout[i + 1] /\ i + 1 \in 1..Len(stdout)
    BY <2>0, <1>s
  <2>2. CASE m.kind # "response" \/ m.id # waiting
    <3>1. client' = Noted(m) /\ UNCHANGED <<pc, waiting, thread, refused>>
      BY <1>3, <2>2 DEF Receive, IsRefused
    <3>2. client' \in [parts : Seq(Delta \cup {Break}), item : Item \cup {0}, usage : Nat]
      BY <2>0, <3>1, NotedType
    <3>3. TypeOK' /\ StreamTypes'
      BY <2>0, <2>1, <3>1, <3>2, <1>t, <1>s DEF TypeOK, StreamTypes
    <3>4. AnswersAreTrue'
      BY <2>0, <2>1, <3>1, <1>t, <1>s DEF AnswersAreTrue
    <3>5. IdsAreFresh' /\ OneRequest' /\ NothingIsLeft' /\ NewThreadIsNeeded' /\ ThreadContinues'
      BY <2>0, <3>1, <1>t DEF IdsAreFresh, OneRequest, NothingIsLeft, NewThreadIsNeeded, ThreadContinues
    <3> QED BY <3>3, <3>4, <3>5 DEF TurnInv
  <2>3. CASE m.kind = "response" /\ m.id = waiting
    <3>1. waiting' = 0 /\ Answered(m) /\ UNCHANGED client /\ (m.error => pc = "thread/resume")
      BY <1>3, <2>3 DEF Receive, IsRefused
    <3>2. m \in ResponseType
      BY <2>0, <2>3 DEF MessageType, NotificationType
    <3>3. 1 \in 1..Len(stdout) /\ stdin = <<>> /\ server.owed = 0
      BY <2>0, <2>3, <1>t, <1>s DEF AnswersAreTrue
    <3>4. pc = "thread/resume" => m.error \/ m.thread = saved
      BY <2>0, <2>3, <3>3, <1>t DEF AnswersAreTrue
    <3>5. pc \in Method /\ nextId = waiting + 1 /\ waiting \in 1..4
      BY <2>0, <1>t DEF IdsAreFresh, TypeOK
    <3>6. /\ pc = "initialize" => pc' = IF saved # 0 THEN "thread/resume" ELSE "thread/start"
          /\ pc = "thread/resume" => pc' = IF m.error THEN "thread/start" ELSE "turn/start"
          /\ pc = "thread/start" => pc' = "turn/start"
          /\ pc = "turn/start" => pc' = "read"
          /\ thread' = IF pc \in {"thread/resume", "thread/start"} THEN m.thread ELSE thread
          /\ refused' = (refused \/ m.error)
      <4>1. /\ thread' = IF pc \in {"thread/resume", "thread/start"} THEN m.thread ELSE thread
            /\ refused' = (refused \/ m.error)
        BY <3>1 DEF Answered
      <4>2. m.error \in BOOLEAN
        BY <3>2 DEF ResponseType
      <4>3. pc = "initialize" => pc' = IF saved # 0 THEN "thread/resume" ELSE "thread/start"
        BY <3>1 DEF Answered, AfterInitialize
      <4>4. pc = "thread/resume" => pc' = IF m.error THEN "thread/start" ELSE "turn/start"
        BY <3>1 DEF Answered
      <4>5. pc = "thread/start" => pc' = "turn/start"
        BY <3>1 DEF Answered
      <4>6. pc = "turn/start" => pc' = "read"
        BY <3>1 DEF Answered
      <4> HIDE DEF m
      <4> QED BY ONLY <4>1, <4>3, <4>4, <4>5, <4>6
    <3>12. pc' \in {"thread/resume", "thread/start", "turn/start", "read"}
      BY <3>5, <3>6 DEF Method
    <3>13. thread' \in Threads \cup {0} /\ refused' \in BOOLEAN
      BY <3>2, <3>6, <1>t DEF ResponseType, TypeOK
    <3>7. TypeOK' /\ StreamTypes'
      <4>1. TypeOK'
        BY <2>0, <2>1, <3>1, <3>12, <3>13, <1>t, <1>s DEF TypeOK, StreamTypes
      <4>2. StreamTypes'
        BY <2>0, <2>1, <3>1, <3>5, <1>t DEF StreamTypes, Method
      <4> QED BY <4>1, <4>2
    <3>8. AnswersAreTrue'
      BY <2>0, <2>1, <3>1, <3>3, <1>t, <1>s DEF AnswersAreTrue, MessageType, ResponseType,
          NotificationType
    <3>9. IdsAreFresh'
      BY <2>0, <3>1, <3>5, <3>6, <1>t, BeforeIs DEF IdsAreFresh, Method
    <3>10. OneRequest'
      BY <2>0, <3>3 DEF OneRequest
    <3>11. NothingIsLeft' /\ NewThreadIsNeeded' /\ ThreadContinues'
      BY <2>0, <3>2, <3>4, <3>5, <3>6, <1>t DEF NothingIsLeft, NewThreadIsNeeded, ThreadContinues, Method, ResponseType, TypeOK
    <3> QED BY <3>7, <3>8, <3>9, <3>10, <3>11 DEF TurnInv
  <2> QED BY <2>2, <2>3
<1>4. CASE ReadTurn
  <2>1. /\ pc = "read" /\ stdout # <<>> /\ client' = Noted(Head(stdout))
        /\ UNCHANGED <<waiting, nextId, thread, refused, saved, logged, sent, counted, kept, counts>>
    BY <1>4 DEF ReadTurn
  <2>2. client' \in [parts : Seq(Delta \cup {Break}), item : Item \cup {0}, usage : Nat]
    BY <2>1, <1>s, NotedType
  <2>3. CASE Head(stdout).kind = "completed"
    <3>1. pc' = "completed" /\ server' = NoServer /\ stdin' = <<>> /\ stdout' = <<>>
      BY <1>4, <2>3 DEF ReadTurn, Completes, Closed
    <3>2. waiting = 0
      BY <2>1, <1>t DEF IdsAreFresh, Method
    <3> QED BY <2>1, <2>2, <3>1, <3>2, <1>t, PipeFacts DEF TurnInv, TypeOK, StreamTypes, IdsAreFresh, OneRequest,
          AnswersAreTrue, NothingIsLeft, NewThreadIsNeeded, ThreadContinues, NoServer, Method
  <2>4. CASE Head(stdout).kind # "completed"
    <3>1. stdout' = Tail(stdout) /\ UNCHANGED <<pc, stdin, server>>
      BY <1>4, <2>4 DEF ReadTurn
    <3>2. /\ stdout' \in Seq(MessageType) /\ Len(stdout') = Len(stdout) - 1
          /\ \A i \in 1..Len(stdout') : stdout'[i] = stdout[i + 1] /\ i + 1 \in 1..Len(stdout)
      BY <2>1, <3>1, <1>s
    <3>3. TypeOK' /\ StreamTypes'
      BY <2>1, <2>2, <3>1, <3>2, <1>t, <1>s DEF TypeOK, StreamTypes
    <3>4. AnswersAreTrue'
      BY <2>1, <3>1, <3>2, <1>t, <1>s DEF AnswersAreTrue
    <3>5. IdsAreFresh' /\ OneRequest' /\ NothingIsLeft' /\ NewThreadIsNeeded' /\ ThreadContinues'
      BY <2>1, <3>1, <1>t DEF IdsAreFresh, OneRequest, NothingIsLeft, NewThreadIsNeeded, ThreadContinues
    <3> QED BY <3>3, <3>4, <3>5 DEF TurnInv
  <2> QED BY <2>3, <2>4
<1>5. CASE EndOfStream
  <2>1. CASE pc = "thread/resume"
    <3>1. /\ pc' = "thread/start" /\ waiting' = 0 /\ refused' = TRUE
          /\ UNCHANGED <<stdin, stdout, server, nextId, client, thread, saved, logged, sent,
                         counted, kept, counts>>
          /\ ~server.up /\ stdout = <<>>
      BY <1>5, <2>1 DEF EndOfStream
    <3>2. stdin = <<>>
      BY <3>1, <1>t DEF OneRequest
    <3>3. waiting # 0
      BY <1>5, <2>1 DEF EndOfStream
    <3>4. server.owed = 0
      BY <2>1, <1>t DEF OneRequest
    <3> QED BY <2>1, <3>1, <3>2, <3>3, <3>4, <1>t, PipeFacts DEF TurnInv, TypeOK, StreamTypes, IdsAreFresh,
          OneRequest, AnswersAreTrue, NothingIsLeft, NewThreadIsNeeded, ThreadContinues, Method, Before
  <2>2. CASE pc # "thread/resume"
    <3>1. Fail /\ UNCHANGED <<nextId, client, thread, refused, saved, logged, sent, counted, kept, counts>>
      BY <1>5, <2>2 DEF EndOfStream
    <3> QED BY <3>1, <1>t, FailedRun DEF TypeOK, StreamTypes
  <2> QED BY <2>1, <2>2
<1>6. CASE SaveThread
  <2>1. waiting = 0 /\ server.owed = 0
    BY <1>6, <1>t DEF SaveThread, IdsAreFresh, OneRequest, Method
  <2>2. stdin = <<>> /\ stdout = <<>> /\ server = NoServer
    BY <1>6, <1>t DEF SaveThread, NothingIsLeft
  <2> QED BY <1>6, <2>1, <2>2, <1>t, PipeFacts DEF SaveThread, TurnInv, TypeOK, StreamTypes, IdsAreFresh, OneRequest,
          AnswersAreTrue, NothingIsLeft, NewThreadIsNeeded, ThreadContinues, NoServer, Method
<1>7. CASE RunnerDies \/ Deadline
  <2>1. /\ Fail /\ UNCHANGED <<nextId, client, thread, refused, saved, logged, sent, counted, kept>>
        /\ counts' \in [runs : 0..MaxRuns, accidents : Nat]
    BY <1>7, <1>t DEF RunnerDies, Deadline, StreamTypes
  <2> QED BY <2>1, <1>t, FailedRun DEF TypeOK
<1>8. CASE Serve
  <2> DEFINE r == Head(stdin)
  <2>1. /\ Works /\ Room /\ stdin # <<>> /\ server.owed = 0 /\ stdin' = Tail(stdin)
        /\ UNCHANGED <<pc, waiting, nextId, client, thread, refused, saved, logged, sent, counted, counts>>
    BY <1>8 DEF Serve, clientVars
  <2>2. /\ r \in RequestType /\ r.id = waiting /\ r.method = pc /\ stdin' = <<>> /\ waiting \in 1..4
        /\ pc = "thread/resume" => r.thread = saved
    BY <2>1, <1>t, PipeFacts DEF StreamTypes, OneRequest, TypeOK
  <2>3. /\ pc \in Method /\ nextId = waiting + 1 /\ NewThread \in Threads
        /\ stdin' \in Seq(RequestType) /\ Len(stdin') = 0
    BY <2>2, <1>t, EmptyPipe DEF IdsAreFresh, StreamTypes, NewThread, Method
  <2>4. \A i \in 1..Len(stdout) : stdout[i].kind = "response" => stdout[i].id < nextId /\ stdout[i].id # waiting
    BY <2>1, <1>t DEF AnswersAreTrue
  <2>5. NothingIsLeft' /\ NewThreadIsNeeded' /\ ThreadContinues' /\ IdsAreFresh'
    <3>1. NewThreadIsNeeded' /\ ThreadContinues' /\ IdsAreFresh'
      BY <2>1, <1>t DEF NewThreadIsNeeded, ThreadContinues, IdsAreFresh
    <3>2. NothingIsLeft'
      BY <2>1, <2>3 DEF NothingIsLeft, Method
    <3> QED BY <3>1, <3>2
  <2>6. CASE \E a \in ResponseType :
              /\ stdout' = Append(stdout, a) /\ a.id = waiting /\ UNCHANGED server
              /\ pc = "thread/resume" => a.error \/ a.thread = saved
              /\ kept' \subseteq Threads
    <3>1. PICK a \in ResponseType :
              /\ stdout' = Append(stdout, a) /\ a.id = waiting /\ UNCHANGED server
              /\ pc = "thread/resume" => a.error \/ a.thread = saved
              /\ kept' \subseteq Threads
      BY <2>6
    <3>2. /\ stdout' \in Seq(MessageType) /\ Len(stdout') = Len(stdout) + 1
          /\ \A i \in 1..Len(stdout) : stdout'[i] = stdout[i]
          /\ stdout'[Len(stdout) + 1] = a
      <4>1. a \in MessageType
        BY DEF MessageType
      <4> QED BY <3>1, <4>1, <1>s, PipeFacts
    <3>3. TypeOK'
      BY <2>1, <2>2, <2>3, <3>1, <3>2, <1>t, <1>s DEF TypeOK, Room, Method
    <3>4. StreamTypes'
      BY <2>1, <2>3, <3>1, <3>2, <1>t DEF StreamTypes
    <3>5. OneRequest'
      BY <2>1, <2>2, <3>1 DEF OneRequest
    <3>6. AnswersAreTrue'
      BY <2>1, <2>2, <2>3, <2>4, <3>1, <3>2, <1>s DEF AnswersAreTrue
    <3> QED BY <2>5, <3>3, <3>4, <3>5, <3>6 DEF TurnInv
  <2>7. CASE r.method = "turn/start" /\ server' = [server EXCEPT !.owed = r.id, !.turn = TRUE] /\ UNCHANGED <<stdout, kept>>
    <3>1. server' \in [up : BOOLEAN, stuck : BOOLEAN, owed : {waiting}, turn : BOOLEAN]
      BY <2>2, <2>7, <1>t DEF StreamTypes
    <3>2. TypeOK'
      BY <2>1, <2>2, <2>3, <2>7, <1>t DEF TypeOK, Method
    <3>3. StreamTypes'
      BY <2>1, <2>2, <2>3, <2>7, <3>1, <1>t DEF StreamTypes
    <3>4. OneRequest'
      BY <2>1, <2>2, <2>7, <3>1 DEF OneRequest
    <3>5. AnswersAreTrue'
      BY <2>1, <2>4, <2>7 DEF AnswersAreTrue
    <3> QED BY <2>5, <3>2, <3>3, <3>4, <3>5 DEF TurnInv
  <2>8. CASE r.method = "initialize" /\ stdout' = Append(stdout, Answer(r.id, FALSE, 0)) /\ UNCHANGED <<server, kept>>
    <3>1. Answer(r.id, FALSE, 0) \in ResponseType /\ Answer(r.id, FALSE, 0).id = waiting
      BY <2>2 DEF Answer, ResponseType
    <3> QED BY <2>2, <2>6, <2>8, <3>1, <1>t DEF TypeOK
  <2>9. CASE /\ r.method = "thread/resume" /\ r.thread \in kept
             /\ stdout' = Append(stdout, Answer(r.id, FALSE, r.thread))
             /\ UNCHANGED <<server, kept>>
    <3> DEFINE a == Answer(r.id, FALSE, r.thread)
    <3>1. a.id = waiting /\ a.thread = saved
      BY <2>2, <2>9 DEF Answer
    <3>2. a \in ResponseType
      BY <2>2, <1>t DEF Answer, ResponseType, TypeOK, RequestType
    <3>3. pc = "thread/resume" => a.error \/ a.thread = saved
      BY <3>1
    <3>4. stdout' = Append(stdout, a) /\ UNCHANGED server /\ kept' \subseteq Threads
      BY <2>9, <1>t DEF TypeOK
    <3> HIDE DEF a
    <3> QED BY <2>6, <3>1, <3>2, <3>3, <3>4
  <2>10. CASE /\ r.method = "thread/start" /\ stdout' = Append(stdout, Answer(r.id, FALSE, NewThread))
              /\ kept' = kept \cup {NewThread} /\ UNCHANGED server
    <3>1. Answer(r.id, FALSE, NewThread) \in ResponseType /\ Answer(r.id, FALSE, NewThread).id = waiting
      BY <2>2, <2>3 DEF Answer, ResponseType
    <3>2. pc # "thread/resume" /\ kept' \subseteq Threads
      BY <2>2, <2>3, <2>10, <1>t DEF TypeOK
    <3> QED BY <2>6, <2>10, <3>1, <3>2
  <2>11. CASE stdout' = Append(stdout, Answer(r.id, TRUE, 0)) /\ UNCHANGED <<server, kept>>
    <3>1. LET a == Answer(r.id, TRUE, 0) IN a \in ResponseType /\ a.id = waiting /\ a.error
      BY <2>2 DEF Answer, ResponseType
    <3> QED BY <2>6, <2>11, <3>1, <1>t DEF TypeOK
  <2> QED BY <1>8, <2>7, <2>8, <2>9, <2>10, <2>11 DEF Serve
<1>9. CASE AnswerTurn
  <2> DEFINE a == Answer(server.owed, FALSE, 0)
  <2>1. /\ Room /\ server.up /\ server.owed # 0 /\ stdout' = Append(stdout, a)
        /\ server' = [server EXCEPT !.owed = 0]
        /\ UNCHANGED <<pc, waiting, nextId, client, thread, refused, saved, stdin, logged, sent, counted, kept, counts>>
    BY <1>9 DEF AnswerTurn, Works, clientVars
  <2>2. stdin = <<>> /\ waiting = server.owed /\ pc = "turn/start" /\ nextId = waiting + 1 /\ waiting \in 1..4
    BY <2>1, <1>t DEF OneRequest, IdsAreFresh, TypeOK
  <2>3. a \in ResponseType /\ a.id = waiting
    BY <2>2 DEF Answer, ResponseType
  <2> HIDE DEF a
  <2>4. /\ stdout' \in Seq(MessageType) /\ Len(stdout') = Len(stdout) + 1
        /\ \A i \in 1..Len(stdout) : stdout'[i] = stdout[i]
        /\ stdout'[Len(stdout) + 1] = a
    <3>1. a \in MessageType
      BY <2>3 DEF MessageType
    <3> QED BY <2>1, <3>1, <1>s, PipeFacts
  <2>5. TypeOK'
    BY <2>1, <2>2, <2>4, <1>t, <1>s DEF TypeOK, Room
  <2>6. StreamTypes'
    <3>1. server' \in [up : BOOLEAN, stuck : BOOLEAN, owed : 0..4, turn : BOOLEAN]
      <4>1. server \in [up : BOOLEAN, stuck : BOOLEAN, owed : 0..4, turn : BOOLEAN]
        BY <1>t DEF StreamTypes
      <4>2. server' = [server EXCEPT !.owed = 0]
        BY <2>1
      <4> QED BY ONLY <4>1, <4>2
    <3>2. UNCHANGED <<pc, stdin, client, counted, counts>>
      BY <2>1
    <3> QED BY <2>4, <3>1, <3>2, <1>t DEF StreamTypes
  <2>7. OneRequest' /\ IdsAreFresh' /\ NothingIsLeft' /\ NewThreadIsNeeded' /\ ThreadContinues'
    <3>1. server'.owed = 0
      BY <2>1, <1>t DEF StreamTypes
    <3>2. OneRequest' /\ NothingIsLeft'
      BY <2>1, <2>2, <3>1 DEF OneRequest, NothingIsLeft
    <3>3. IdsAreFresh' /\ NewThreadIsNeeded' /\ ThreadContinues'
      BY <2>1, <1>t DEF IdsAreFresh, NewThreadIsNeeded, ThreadContinues
    <3> QED BY <3>2, <3>3
  <2>8. AnswersAreTrue'
    <3>1. server'.owed = 0
      BY <2>1, <1>t DEF StreamTypes
    <3> QED BY <2>1, <2>2, <2>3, <2>4, <3>1, <1>t, <1>s DEF AnswersAreTrue
  <2> QED BY <2>5, <2>6, <2>7, <2>8 DEF TurnInv
<1>10. CASE SendDelta
  <2>1. PICK d \in Delta : sent' = Append(sent, d) /\ stdout' = Append(stdout, [kind |-> "delta", delta |-> d])
    BY <1>10 DEF SendDelta
  <2>2. [kind |-> "delta", delta |-> d] \in NotificationType
    BY DEF NotificationType
  <2>3. sent' \in Seq(Delta)
    BY <2>1, <1>t, PipeFacts DEF TypeOK
  <2>4. /\ Room /\ server.up /\ UNCHANGED <<clientVars, stdin, logged, kept, counts>>
        /\ counted' \in Nat
        /\ server' \in [up : {TRUE}, stuck : BOOLEAN, owed : {server.owed}, turn : BOOLEAN]
    BY <1>10, <1>t DEF SendDelta, Works, StreamTypes
  <2> QED BY <2>1, <2>2, <2>3, <2>4, Told
<1>11. CASE SendUsage
  <2>1. stdout' = Append(stdout, [kind |-> "usage", usage |-> Len(sent)]) /\ counted' = Len(sent)
    BY <1>11 DEF SendUsage
  <2>2. Len(sent) \in Nat /\ [kind |-> "usage", usage |-> Len(sent)] \in NotificationType
    BY <1>t, PipeFacts DEF NotificationType, TypeOK
  <2>3. /\ Room /\ server.up /\ UNCHANGED <<clientVars, stdin, logged, kept, counts>>
        /\ sent' \in Seq(Delta)
        /\ server' \in [up : {TRUE}, stuck : BOOLEAN, owed : {server.owed}, turn : BOOLEAN]
    BY <1>11, <1>t DEF SendUsage, Works, StreamTypes, TypeOK
  <2> QED BY <2>1, <2>2, <2>3, Told
<1>12. CASE CompleteTurn
  <2>1. stdout' = Append(stdout, [kind |-> "completed"])
    BY <1>12 DEF CompleteTurn
  <2>2. [kind |-> "completed"] \in NotificationType
    BY DEF NotificationType
  <2>3. /\ Room /\ server.up /\ UNCHANGED <<clientVars, stdin, logged, kept, counts>>
        /\ sent' \in Seq(Delta) /\ counted' \in Nat
        /\ server' \in [up : {TRUE}, stuck : BOOLEAN, owed : {server.owed}, turn : BOOLEAN]
    BY <1>12, <1>t DEF CompleteTurn, Works, StreamTypes, TypeOK
  <2> QED BY <2>1, <2>2, <2>3, Told
<1>13. CASE Log
  <2>1. /\ server.up /\ logged' \in 0..ErrorPipeSize
        /\ server' \in [up : {TRUE}, stuck : BOOLEAN, owed : {server.owed}, turn : BOOLEAN]
        /\ UNCHANGED <<pc, waiting, nextId, client, thread, refused, saved, stdin, stdout, sent, counted, kept, counts>>
    <3>1. server.up /\ logged \in Nat /\ logged <= ErrorPipeSize
      BY <1>13, <1>t DEF Log, Works, TypeOK
    <3>2. logged' \in 0..ErrorPipeSize
      BY <1>13, <3>1 DEF Log
    <3>3. server' \in [up : {TRUE}, stuck : BOOLEAN, owed : {server.owed}, turn : BOOLEAN]
      BY <1>13, <3>1, <1>t DEF Log, StreamTypes
    <3>4. UNCHANGED <<pc, waiting, nextId, client, thread, refused, saved, stdin, stdout, sent, counted, kept, counts>>
      BY <1>13 DEF Log, clientVars
    <3> QED BY <3>1, <3>2, <3>3, <3>4
  <2>2. pc \notin {"idle", "completed"}
    BY <2>1, <1>t DEF NothingIsLeft, NoServer
  <2>3. TypeOK' /\ StreamTypes'
    <3>1. TypeOK'
      BY <2>1, <2>2, <1>t DEF TypeOK
    <3>2. StreamTypes'
      BY <2>1, <1>t DEF StreamTypes
    <3> QED BY <3>1, <3>2
  <2>4. IdsAreFresh' /\ OneRequest' /\ AnswersAreTrue'
    BY <2>1, <1>t DEF IdsAreFresh, OneRequest, AnswersAreTrue
  <2>5. NothingIsLeft' /\ NewThreadIsNeeded' /\ ThreadContinues'
    BY <2>1, <2>2, <1>t DEF NothingIsLeft, NewThreadIsNeeded, ThreadContinues
  <2> QED BY <2>3, <2>4, <2>5 DEF TurnInv
<1>14. CASE ServerDies
  <2>1. /\ server' = NoServer /\ stdin' = <<>> /\ server.up
        /\ counts' \in [runs : {counts.runs}, accidents : Nat]
        /\ UNCHANGED <<pc, waiting, nextId, client, thread, refused, saved, stdout, logged, sent, counted, kept>>
    <3>1. /\ server' = NoServer /\ stdin' = <<>> /\ server.up
          /\ counts' = [counts EXCEPT !.accidents = @ + 1]
          /\ UNCHANGED <<pc, waiting, nextId, client, thread, refused, saved, stdout, logged, sent, counted, kept>>
      BY <1>14 DEF ServerDies, clientVars
    <3>2. counts' \in [runs : {counts.runs}, accidents : Nat]
      BY <3>1, <1>t, AccidentIsCounted DEF StreamTypes
    <3> QED BY <3>1, <3>2
  <2>2. pc \notin {"idle", "completed"}
    BY <2>1, <1>t DEF NothingIsLeft, NoServer
  <2>3. TypeOK'
    BY <2>1, <2>2, <1>t, EmptyPipe DEF TypeOK
  <2>4. StreamTypes'
    BY <2>1, <1>t, EmptyPipe DEF StreamTypes, NoServer
  <2>5. IdsAreFresh' /\ OneRequest'
    BY <2>1, <1>t DEF IdsAreFresh, OneRequest, NoServer
  <2>6. AnswersAreTrue'
    BY <2>1, <1>t DEF AnswersAreTrue, NoServer
  <2>7. NothingIsLeft' /\ NewThreadIsNeeded' /\ ThreadContinues'
    BY <2>1, <2>2, <1>t DEF NothingIsLeft, NewThreadIsNeeded, ThreadContinues
  <2> QED BY <2>3, <2>4, <2>5, <2>6, <2>7 DEF TurnInv
<1>15. CASE LoseThread
  <2>1. /\ kept' \subseteq kept /\ counts' \in [runs : {counts.runs}, accidents : Nat]
        /\ UNCHANGED <<pc, waiting, nextId, client, thread, refused, saved, stdin, stdout, logged, server, sent, counted>>
    <3>1. /\ kept' \subseteq kept /\ counts' = [counts EXCEPT !.accidents = @ + 1]
          /\ UNCHANGED <<pc, waiting, nextId, client, thread, refused, saved, stdin, stdout, logged, server, sent, counted>>
      BY <1>15 DEF LoseThread, clientVars
    <3>2. counts' \in [runs : {counts.runs}, accidents : Nat]
      BY <3>1, <1>t, AccidentIsCounted DEF StreamTypes
    <3> QED BY <3>1, <3>2
  <2>2. TypeOK'
    BY <2>1, <1>t DEF TypeOK
  <2>3. StreamTypes'
    BY <2>1, <1>t DEF StreamTypes
  <2>4. IdsAreFresh' /\ OneRequest' /\ AnswersAreTrue'
    BY <2>1, <1>t DEF IdsAreFresh, OneRequest, AnswersAreTrue
  <2>5. NothingIsLeft' /\ NewThreadIsNeeded' /\ ThreadContinues'
    BY <2>1, <1>t DEF NothingIsLeft, NewThreadIsNeeded, ThreadContinues
  <2> QED BY <2>2, <2>3, <2>4, <2>5 DEF TurnInv
<1> QED BY <1>0, <1>1, <1>2, <1>18, <1>3, <1>4, <1>5, <1>6, <1>7, <1>8, <1>9, <1>10, <1>11, <1>12, <1>13,
        <1>14, <1>15 DEF Next

(***************************************************************************)
(* Theorems                                                                *)
(***************************************************************************)

(* The turn's variables keep their types whatever the sizes of the pipes and the number of *)
(* runs and accidents, and a run that ended leaves no server (_run_app_server).            *)
THEOREM TypesAreKept == Spec => []TypeOK
<1>1. TurnInv => TypeOK
  BY DEF TurnInv
<1> QED BY <1>1, InitTurn, NextTurn, PTL DEF Spec

(* Every turn is of the saved thread, unless this run found that it could not be resumed: *)
(* no answer to another request is ever taken for the answer to thread/resume.            *)
THEOREM ThreadsAreContinued == Spec => []ThreadContinues
<1>1. TurnInv => ThreadContinues
  BY DEF TurnInv
<1> QED BY <1>1, InitTurn, NextTurn, PTL DEF Spec

-----------------------------------------------------------------------------
(***************************************************************************)
(* CodexTurn: the result of a run is the whole text of its turn            *)
(***************************************************************************)

(* What the page of a run's messages holds of the deltas, and how many come after one. *)
Deltas(out) == {i \in DOMAIN out : out[i].kind = "delta"}
Beyond(S, i) == Cardinality({j \in S : j > i})

(* The deltas of the turn are the texts of the message so far, followed by those of the pipe. *)
Carried(parts, out, all) ==
    /\ Cardinality(Texts(parts)) + Cardinality(Deltas(out)) = Len(all)
    /\ \A i \in Texts(parts) : parts[i] = all[UpTo(Texts(parts), i)]
    /\ \A i \in Deltas(out) : out[i].delta = all[Len(all) - Beyond(Deltas(out), i)]

(* Messages of the agent are set apart, and the message ends with a text. *)
SetApart(parts) ==
    /\ \A i \in 1..Len(parts) - 1 :
          parts[i] # Break /\ parts[i + 1] # Break => parts[i].item = parts[i + 1].item \/ parts[i].brk
    /\ \A i \in 2..Len(parts) - 1 : parts[i] = Break => parts[i - 1].item # parts[i + 1].item
EndsWithText(c) ==
    IF c.parts = <<>> THEN c.item = 0 ELSE Last(c.parts) # Break /\ c.item = Last(c.parts).item

(* The last count told is in the pipe, or it was read. *)
ToldLast(usage, out, count) ==
    \/ usage = count /\ \A i \in DOMAIN out : out[i].kind # "usage"
    \/ \E i \in DOMAIN out : /\ out[i].kind = "usage" /\ out[i].usage = count
                             /\ \A j \in DOMAIN out : j > i => out[j].kind # "usage"

(* A run has one turn, and nothing of it follows its end. *)
OneTurn ==
    /\ server.turn \/ (\E i \in DOMAIN stdout : stdout[i].kind = "completed") =>
          pc = "read" \/ (pc = "turn/start" /\ waiting # 0 /\ stdin = <<>>)
    /\ \A i \in DOMAIN stdout : stdout[i].kind = "completed" =>
          /\ ~server.turn
          /\ \A j \in DOMAIN stdout : j > i => stdout[j].kind \notin {"delta", "usage"}

ResultInv ==
    /\ SetApart(client.parts) /\ EndsWithText(client) /\ OneTurn
    /\ pc # "idle" => Carried(client.parts, stdout, sent) /\ ToldLast(client.usage, stdout, counted)

(***************************************************************************)
(* Counting places in a sequence                                           *)
(***************************************************************************)

(* Places up to one of them, and beyond it, are finitely many. *)
LEMMA PlacesAreFinite ==
    ASSUME NEW n \in Nat, NEW S \in SUBSET (1..n)
    PROVE  /\ IsFiniteSet(S) /\ Cardinality(S) \in Nat
           /\ \A i : UpTo(S, i) \in Nat /\ Beyond(S, i) \in Nat
           /\ \A i \in S : UpTo(S, i) \in 1..Cardinality(S) /\ Beyond(S, i) < Cardinality(S)
<1>1. IsFiniteSet(S)
  <2>1. IsFiniteSet(1..n)
    BY FS_Interval
  <2> QED BY <2>1, FS_Subset
<1>2. \A T \in SUBSET S : IsFiniteSet(T) /\ Cardinality(T) \in Nat /\ Cardinality(T) <= Cardinality(S)
  BY <1>1, FS_Subset, FS_CardinalityType
<1>3. Cardinality(S) \in Nat /\ \A i : UpTo(S, i) \in Nat /\ Beyond(S, i) \in Nat
  BY <1>2 DEF UpTo, Beyond
<1>4. ASSUME NEW i \in S PROVE UpTo(S, i) \in 1..Cardinality(S) /\ Beyond(S, i) < Cardinality(S)
  <2>1. i \in Nat
    OBVIOUS
  <2> DEFINE low == {j \in S : j <= i}
             high == {j \in S : j > i}
  <2>2. i \in low /\ low \in SUBSET S /\ high \in SUBSET S /\ i \notin high
    BY <2>1
  <2>3. Cardinality(low) # 0
    BY <1>2, <2>2, FS_EmptySet
  <2>4. Cardinality(high) # Cardinality(S)
    BY <1>1, <2>2, FS_Subset
  <2> HIDE DEF low, high
  <2>5. Cardinality(low) \in 1..Cardinality(S) /\ Cardinality(high) < Cardinality(S)
    BY <1>2, <1>3, <2>2, <2>3, <2>4
  <2> QED BY <2>5 DEF UpTo, Beyond, low, high
<1> QED BY <1>1, <1>3, <1>4

(* A place at the end. *)
LEMMA PlaceAtEnd ==
    ASSUME NEW n \in Nat, NEW S \in SUBSET (1..n)
    PROVE  LET T == S \cup {n + 1} IN
           /\ Cardinality(T) = Cardinality(S) + 1
           /\ UpTo(T, n + 1) = Cardinality(S) + 1 /\ Beyond(T, n + 1) = 0
           /\ \A i \in 1..n : UpTo(T, i) = UpTo(S, i) /\ Beyond(T, i) = Beyond(S, i) + 1
<1> DEFINE T == S \cup {n + 1}
<1>1. n + 1 \notin S /\ IsFiniteSet(S) /\ \A i \in S : i \in Nat /\ i <= n
  BY PlacesAreFinite
<1>2. Cardinality(T) = Cardinality(S) + 1
  BY <1>1, FS_AddElement
<1>3. {j \in T : j <= n + 1} = T /\ {j \in T : j > n + 1} = {}
  <2>1. \A j \in T : j <= n + 1 /\ ~(j > n + 1)
    BY <1>1
  <2> QED BY <2>1
<1>4. ASSUME NEW i \in 1..n PROVE UpTo(T, i) = UpTo(S, i) /\ Beyond(T, i) = Beyond(S, i) + 1
  <2>1. {j \in T : j <= i} = {j \in S : j <= i} /\ {j \in T : j > i} = {j \in S : j > i} \cup {n + 1}
    BY <1>1
  <2>2. IsFiniteSet({j \in S : j > i}) /\ n + 1 \notin {j \in S : j > i}
    BY <1>1, FS_Subset
  <2>3. Cardinality({j \in S : j > i} \cup {n + 1}) = Cardinality({j \in S : j > i}) + 1
    BY <2>2, FS_AddElement
  <2> QED BY <2>1, <2>3 DEF UpTo, Beyond
<1> QED BY <1>2, <1>3, <1>4, FS_EmptySet DEF UpTo, Beyond

(* Places that all move down by one. *)
LEMMA PlacesShift ==
    ASSUME NEW S \in SUBSET (Nat \ {0}), IsFiniteSet(S)
    PROVE  Cardinality({i \in Nat : i + 1 \in S}) = Cardinality(S)
<1> DEFINE T == {i \in Nat : i + 1 \in S}
           f == [i \in S |-> i - 1]
<1>1. \A i \in S : i - 1 \in Nat /\ (i - 1) + 1 = i
  OBVIOUS
<1>2. f \in [S -> T]
  BY <1>1
<1>3. \A i, j \in S : f[i] = f[j] => i = j
  BY <1>1
<1>4. \A t \in T : \E i \in S : f[i] = t
  <2>1. \A t \in T : t + 1 \in S /\ (t + 1) - 1 = t
    OBVIOUS
  <2> QED BY <2>1
<1>5. f \in Bijection(S, T)
  BY <1>2, <1>3, <1>4 DEF Bijection, Injection, Surjection, IsInjective
<1> QED BY <1>5, FS_Bijection DEF ExistsBijection

(***************************************************************************)
(* The message of a turn                                                   *)
(***************************************************************************)

(* The places of texts and of deltas. *)
LEMMA TextPlaces ==
    ASSUME NEW parts \in Seq(Delta \cup {Break})
    PROVE  Len(parts) \in Nat /\ DOMAIN parts = 1..Len(parts) /\ Texts(parts) \in SUBSET (1..Len(parts))
BY LenProperties DEF Texts
LEMMA DeltaPlaces ==
    ASSUME NEW out \in Seq(MessageType)
    PROVE  Len(out) \in Nat /\ DOMAIN out = 1..Len(out) /\ Deltas(out) \in SUBSET (1..Len(out))
BY LenProperties DEF Deltas

(* A text that is put at the end of a message. *)
LEMMA TextAtEnd ==
    ASSUME NEW parts \in Seq(Delta \cup {Break}), NEW d \in Delta \cup {Break}
    PROVE  Texts(Append(parts, d)) = IF d = Break THEN Texts(parts) ELSE Texts(parts) \cup {Len(parts) + 1}
<1>1. DOMAIN parts = 1..Len(parts) /\ Len(parts) \in Nat
  BY TextPlaces
<1>2. /\ DOMAIN Append(parts, d) = 1..(Len(parts) + 1)
      /\ \A i \in 1..Len(parts) : Append(parts, d)[i] = parts[i]
      /\ Append(parts, d)[Len(parts) + 1] = d
  <2>1. Append(parts, d) \in Seq(Delta \cup {Break}) /\ Len(Append(parts, d)) = Len(parts) + 1
    BY AppendProperties
  <2> QED BY <2>1, AppendProperties, LenProperties
<1> QED BY <1>1, <1>2 DEF Texts

(* A message that is put at the end of the pipe. *)
LEMMA MessageAtEnd ==
    ASSUME NEW out \in Seq(MessageType), NEW m \in MessageType
    PROVE  /\ DOMAIN Append(out, m) = 1..(Len(out) + 1)
           /\ \A i \in 1..Len(out) : Append(out, m)[i] = out[i]
           /\ Append(out, m)[Len(out) + 1] = m
           /\ Deltas(Append(out, m)) = IF m.kind = "delta" THEN Deltas(out) \cup {Len(out) + 1} ELSE Deltas(out)
<1>1. DOMAIN out = 1..Len(out) /\ Len(out) \in Nat
  BY DeltaPlaces
<1>2. /\ DOMAIN Append(out, m) = 1..(Len(out) + 1)
      /\ \A i \in 1..Len(out) : Append(out, m)[i] = out[i]
      /\ Append(out, m)[Len(out) + 1] = m
  <2>1. Append(out, m) \in Seq(MessageType) /\ Len(Append(out, m)) = Len(out) + 1
    BY AppendProperties
  <2> QED BY <2>1, AppendProperties, LenProperties
<1> QED BY <1>1, <1>2 DEF Deltas

(* A message that is taken from the front of the pipe. *)
LEMMA MessageFromFront ==
    ASSUME NEW out \in Seq(MessageType), out # <<>>
    PROVE  /\ Tail(out) \in Seq(MessageType)
           /\ \A i \in DOMAIN Tail(out) : i \in Nat \ {0} /\ i + 1 \in DOMAIN out /\ Tail(out)[i] = out[i + 1]
           /\ \A i \in DOMAIN out : i = 1 \/ i - 1 \in DOMAIN Tail(out)
           /\ 1 \in DOMAIN out /\ Head(out) = out[1]
           /\ Cardinality(Deltas(Tail(out))) = Cardinality(Deltas(out) \ {1})
           /\ \A i \in Deltas(Tail(out)) : i + 1 \in Deltas(out) /\ Beyond(Deltas(Tail(out)), i) = Beyond(Deltas(out), i + 1)
<1>1. /\ Tail(out) \in Seq(MessageType) /\ Len(Tail(out)) = Len(out) - 1 /\ Len(out) \in Nat \ {0}
      /\ \A i \in 1..(Len(out) - 1) : Tail(out)[i] = out[i + 1]
      /\ Head(out) = out[1] /\ DOMAIN out = 1..Len(out)
  BY HeadTailProperties, LenProperties, EmptySeq
<1>2. DOMAIN Tail(out) = 1..(Len(out) - 1)
  BY <1>1, LenProperties
<1>3. /\ \A i \in DOMAIN Tail(out) : i \in Nat \ {0} /\ i + 1 \in DOMAIN out /\ Tail(out)[i] = out[i + 1]
      /\ \A i \in DOMAIN out : i = 1 \/ i - 1 \in DOMAIN Tail(out)
      /\ 1 \in DOMAIN out
  BY <1>1, <1>2
<1> DEFINE D == Deltas(out)
           E == Deltas(Tail(out))
<1>4. D \in SUBSET (1..Len(out)) /\ IsFiniteSet(D)
  BY <1>1, PlacesAreFinite DEF Deltas
<1>5. \A i \in Nat : i + 1 \in D \ {1} <=> i \in E
  BY <1>1, <1>2, <1>3 DEF Deltas
<1>6. E = {i \in Nat : i + 1 \in D \ {1}}
  BY <1>2, <1>3, <1>5 DEF Deltas
<1>7. D \ {1} \in SUBSET (Nat \ {0}) /\ IsFiniteSet(D \ {1})
  <2>1. IsFiniteSet(D \ {1})
    BY <1>4, FS_RemoveElement
  <2>2. \A i \in D \ {1} : i \in Nat \ {0}
    BY <1>4
  <2> QED BY <2>1, <2>2
<1> HIDE DEF D, E
<1>8. Cardinality(E) = Cardinality(D \ {1})
  BY <1>6, <1>7, PlacesShift
<1>9. ASSUME NEW i \in E PROVE i + 1 \in D /\ Beyond(E, i) = Beyond(D, i + 1)
  <2> DEFINE H == {j \in D : j > i + 1}
  <2>1. i \in Nat /\ i + 1 \in D
    BY <1>6
  <2>2. H \in SUBSET (Nat \ {0}) /\ IsFiniteSet(H)
    <3>1. H \in SUBSET D
      OBVIOUS
    <3>2. \A k \in D : k \in Nat \ {0}
      BY <1>4
    <3> QED BY <1>4, <3>1, <3>2, FS_Subset
  <2>3. {j \in E : j > i} = {j \in Nat : j + 1 \in H}
    BY <1>6, <2>1
  <2> HIDE DEF H
  <2>4. Cardinality({j \in E : j > i}) = Cardinality(H)
    BY <2>2, <2>3, PlacesShift
  <2> QED BY <2>1, <2>4 DEF H, Beyond
<1> QED BY <1>1, <1>3, <1>8, <1>9 DEF D, E

(* A message of the server waits in the pipe. *)
LEMMA MessageWaits ==
    ASSUME NEW parts \in Seq(Delta \cup {Break}), NEW out \in Seq(MessageType), NEW all \in Seq(Delta),
           Carried(parts, out, all), NEW m \in MessageType
    PROVE  /\ m.kind # "delta" => Carried(parts, Append(out, m), all)
           /\ m.kind = "delta" => Carried(parts, Append(out, m), Append(all, m.delta))
<1> DEFINE D == Deltas(out)
           X == Texts(parts)
<1>1. /\ Len(out) \in Nat /\ D \in SUBSET (1..Len(out)) /\ X \in SUBSET (1..Len(parts)) /\ Len(parts) \in Nat
      /\ DOMAIN out = 1..Len(out)
  BY TextPlaces, DeltaPlaces
<1>2. /\ \A i \in 1..Len(out) : Append(out, m)[i] = out[i]
      /\ Append(out, m)[Len(out) + 1] = m
      /\ Deltas(Append(out, m)) = IF m.kind = "delta" THEN D \cup {Len(out) + 1} ELSE D
  BY MessageAtEnd
<1>3. /\ Cardinality(X) + Cardinality(D) = Len(all)
      /\ \A i \in X : parts[i] = all[UpTo(X, i)]
      /\ \A i \in D : out[i].delta = all[Len(all) - Beyond(D, i)]
  BY DEF Carried
<1>4. /\ \A i \in X : UpTo(X, i) \in 1..Cardinality(X)
      /\ \A i \in D : Beyond(D, i) \in Nat /\ Beyond(D, i) < Cardinality(D)
      /\ Cardinality(X) \in Nat /\ Cardinality(D) \in Nat
  BY <1>1, PlacesAreFinite
<1> HIDE DEF D, X
<1>5. CASE m.kind # "delta"
  <2>1. \A i \in D : Append(out, m)[i] = out[i]
    BY <1>1, <1>2
  <2> QED BY <1>2, <1>3, <1>5, <2>1 DEF Carried, D, X
<1>6. CASE m.kind = "delta"
  <2> DEFINE E == Deltas(Append(out, m))
             more == Append(all, m.delta)
  <2>1. m.delta \in Delta
    BY <1>6 DEF MessageType, ResponseType, NotificationType
  <2>2. /\ Len(more) = Len(all) + 1 /\ Len(all) \in Nat /\ more[Len(all) + 1] = m.delta
        /\ \A i \in 1..Len(all) : more[i] = all[i]
    BY <2>1, AppendProperties, LenProperties
  <2>3. E = D \cup {Len(out) + 1}
    BY <1>2, <1>6
  <2>4. /\ Cardinality(E) = Cardinality(D) + 1 /\ Beyond(E, Len(out) + 1) = 0
        /\ \A i \in 1..Len(out) : Beyond(E, i) = Beyond(D, i) + 1
    BY <1>1, <2>3, PlaceAtEnd
  <2> HIDE DEF E, more
  <2>5. Cardinality(X) + Cardinality(E) = Len(more)
    BY <1>3, <1>4, <2>2, <2>4
  <2>6. ASSUME NEW i \in X PROVE parts[i] = more[UpTo(X, i)]
    <3>1. UpTo(X, i) \in 1..Len(all)
      BY <1>3, <1>4
    <3> QED BY <1>3, <2>2, <3>1
  <2>7. ASSUME NEW i \in E PROVE Append(out, m)[i].delta = more[Len(more) - Beyond(E, i)]
    <3>1. CASE i = Len(out) + 1
      <4>1. Len(more) - Beyond(E, i) = Len(all) + 1
        BY <2>2, <2>4, <3>1
      <4> QED BY <1>2, <2>2, <3>1, <4>1
    <3>2. CASE i \in D
      <4>1. Len(more) - Beyond(E, i) = Len(all) - Beyond(D, i) /\ Len(all) - Beyond(D, i) \in 1..Len(all)
        BY <1>1, <1>3, <1>4, <2>2, <2>4, <3>2
      <4> QED BY <1>1, <1>2, <1>3, <2>2, <3>2, <4>1
    <3> QED BY <2>3, <3>1, <3>2
  <2> QED BY <1>6, <2>5, <2>6, <2>7 DEF Carried, X, E, more
<1> QED BY <1>5, <1>6

(* A text longer, the message is as much of the turn as it was, and the next delta. *)
LEMMA MessageGrows ==
    ASSUME NEW parts \in Seq(Delta \cup {Break}), NEW all \in Seq(Delta), NEW d \in Delta,
           all[Cardinality(Texts(parts)) + 1] = d,
           \A i \in Texts(parts) : parts[i] = all[UpTo(Texts(parts), i)]
    PROVE  LET more == Append(parts, d) IN
           /\ Cardinality(Texts(more)) = Cardinality(Texts(parts)) + 1
           /\ \A i \in Texts(more) : more[i] = all[UpTo(Texts(more), i)]
<1> DEFINE more == Append(parts, d)
<1>1. Len(parts) \in Nat /\ Texts(parts) \in SUBSET (1..Len(parts))
  BY TextPlaces
<1>2. d # Break
  BY PipeAssumption DEF Delta, Break
<1>3. /\ Texts(more) = Texts(parts) \cup {Len(parts) + 1}
      /\ more[Len(parts) + 1] = d /\ \A i \in 1..Len(parts) : more[i] = parts[i]
  BY <1>2, TextAtEnd, AppendProperties
<1> HIDE DEF more
<1>4. /\ Cardinality(Texts(more)) = Cardinality(Texts(parts)) + 1
      /\ UpTo(Texts(more), Len(parts) + 1) = Cardinality(Texts(parts)) + 1
      /\ \A i \in 1..Len(parts) : UpTo(Texts(more), i) = UpTo(Texts(parts), i)
  <2> DEFINE S == Texts(parts)
             n == Len(parts)
  <2>1. n \in Nat /\ S \in SUBSET (1..n) /\ Texts(more) = S \cup {n + 1}
    BY <1>1, <1>3
  <2> HIDE DEF S, n
  <2>2. /\ Cardinality(S \cup {n + 1}) = Cardinality(S) + 1
        /\ UpTo(S \cup {n + 1}, n + 1) = Cardinality(S) + 1
        /\ \A i \in 1..n : UpTo(S \cup {n + 1}, i) = UpTo(S, i)
    BY <2>1, PlaceAtEnd
  <2> QED BY <2>1, <2>2 DEF S, n
<1>5. \A i \in Texts(more) : more[i] = all[UpTo(Texts(more), i)]
  BY <1>1, <1>3, <1>4
<1> QED BY <1>4, <1>5 DEF more

(* A break at the end of a message is no text. *)
LEMMA BreakIsNoText ==
    ASSUME NEW parts \in Seq(Delta \cup {Break}), NEW all \in Seq(Delta),
           \A i \in Texts(parts) : parts[i] = all[UpTo(Texts(parts), i)]
    PROVE  LET more == Append(parts, Break) IN
           /\ more \in Seq(Delta \cup {Break}) /\ Texts(more) = Texts(parts)
           /\ \A i \in Texts(more) : more[i] = all[UpTo(Texts(more), i)]
<1>1. Texts(parts) \in SUBSET (1..Len(parts))
  BY TextPlaces
<1>2. /\ Append(parts, Break) \in Seq(Delta \cup {Break}) /\ Texts(Append(parts, Break)) = Texts(parts)
      /\ \A i \in 1..Len(parts) : Append(parts, Break)[i] = parts[i]
  BY TextAtEnd, AppendProperties
<1> QED BY <1>1, <1>2

ClientType == [parts : Seq(Delta \cup {Break}), item : Item \cup {0}, usage : Nat]

(* The parts of a message after a delta. *)
LEMMA PartsAfter ==
    ASSUME NEW c \in ClientType, NEW d \in Delta
    PROVE  LET apart == c.item \notin {0, d.item} /\ c.parts # <<>> /\ ~Last(c.parts).brk
               parts == IF apart THEN Append(c.parts, Break) ELSE c.parts
           IN  /\ AppendDelta(c, d) = [c EXCEPT !.item = d.item, !.parts = Append(parts, d)]
               /\ AppendDelta(c, d).parts = Append(parts, d) /\ AppendDelta(c, d).item = d.item
               /\ AppendDelta(c, d).usage = c.usage
               /\ parts \in Seq(Delta \cup {Break})
<1> DEFINE apart == c.item \notin {0, d.item} /\ c.parts # <<>> /\ ~Last(c.parts).brk
           parts == IF apart THEN Append(c.parts, Break) ELSE c.parts
<1>1. c.parts \in Seq(Delta \cup {Break}) /\ Append(c.parts, Break) \in Seq(Delta \cup {Break})
  BY AppendProperties DEF ClientType
<1>2. parts \in Seq(Delta \cup {Break})
  BY <1>1
<1>3. AppendDelta(c, d) = [c EXCEPT !.item = d.item, !.parts = parts \o <<d>>]
  BY DEF AppendDelta
<1>4. parts \o <<d>> = Append(parts, d)
  BY <1>2, AppendIsConcat
<1>5. AppendDelta(c, d) = [c EXCEPT !.item = d.item, !.parts = Append(parts, d)]
  BY <1>3, <1>4
<1> HIDE DEF parts
<1>6. /\ [c EXCEPT !.item = d.item, !.parts = Append(parts, d)].parts = Append(parts, d)
      /\ [c EXCEPT !.item = d.item, !.parts = Append(parts, d)].item = d.item
      /\ [c EXCEPT !.item = d.item, !.parts = Append(parts, d)].usage = c.usage
  BY DEF ClientType
<1> QED BY <1>2, <1>5, <1>6 DEF parts

(* A message of the server is read. *)
LEMMA MessageIsRead ==
    ASSUME NEW c \in ClientType, NEW out \in Seq(MessageType), NEW all \in Seq(Delta),
           Carried(c.parts, out, all), out # <<>>
    PROVE  /\ Head(out).kind # "delta" => Carried(c.parts, Tail(out), all)
           /\ Head(out).kind = "delta" => Carried(AppendDelta(c, Head(out).delta).parts, Tail(out), all)
<1> DEFINE D == Deltas(out)
           E == Deltas(Tail(out))
           X == Texts(c.parts)
<1>1. /\ c.parts \in Seq(Delta \cup {Break}) /\ D \in SUBSET (1..Len(out)) /\ Len(out) \in Nat
      /\ DOMAIN out = 1..Len(out) /\ X \in SUBSET (1..Len(c.parts)) /\ Len(c.parts) \in Nat
  BY TextPlaces, DeltaPlaces DEF ClientType
<1>2. /\ \A i \in DOMAIN Tail(out) : Tail(out)[i] = out[i + 1]
      /\ 1 \in DOMAIN out /\ Head(out) = out[1]
      /\ Cardinality(E) = Cardinality(D \ {1})
      /\ \A i \in E : i + 1 \in D /\ Beyond(E, i) = Beyond(D, i + 1)
      /\ Tail(out) \in Seq(MessageType)
  BY MessageFromFront
<1>3. /\ Cardinality(X) + Cardinality(D) = Len(all)
      /\ \A i \in X : c.parts[i] = all[UpTo(X, i)]
      /\ \A i \in D : out[i].delta = all[Len(all) - Beyond(D, i)]
  BY DEF Carried
<1>4. IsFiniteSet(D) /\ Cardinality(D) \in Nat /\ Cardinality(X) \in Nat
  BY <1>1, PlacesAreFinite
<1>5. \A i \in E : Tail(out)[i].delta = all[Len(all) - Beyond(E, i)]
  <2>1. E \subseteq DOMAIN Tail(out)
    BY DEF Deltas
  <2> QED BY <1>2, <1>3, <2>1
<1>6. 1 \in D <=> Head(out).kind = "delta"
  BY <1>2 DEF Deltas
<1> HIDE DEF D, E, X
<1>7. CASE Head(out).kind # "delta"
  <2>1. D \ {1} = D
    BY <1>6, <1>7
  <2> QED BY <1>2, <1>3, <1>5, <1>7, <2>1 DEF Carried, E, X
<1>8. CASE Head(out).kind = "delta"
  <2> DEFINE d == Head(out).delta
  <2>1. d \in Delta
    <3>1. Head(out) \in MessageType
      BY <1>2
    <3> QED BY <1>8, <3>1 DEF MessageType, ResponseType, NotificationType
  <2>2. Cardinality(D) = Cardinality(D \ {1}) + 1 /\ Cardinality(D \ {1}) \in Nat
    <3>1. IsFiniteSet(D \ {1}) /\ Cardinality(D \ {1}) = Cardinality(D) - 1
      BY <1>4, <1>6, <1>8, FS_RemoveElement
    <3>2. Cardinality(D \ {1}) \in Nat
      BY <3>1, FS_CardinalityType
    <3> QED BY <1>4, <3>1, <3>2
  <2>3. {j \in D : j > 1} = D \ {1}
    <3>1. \A j \in D : j \in Nat /\ j >= 1
      BY <1>1
    <3>2. \A j \in D : j > 1 <=> j # 1
      BY <3>1
    <3> QED BY <3>2
  <2>4. Len(all) - Beyond(D, 1) = Cardinality(X) + 1
    <3>1. Beyond(D, 1) = Cardinality(D \ {1})
      BY <2>3 DEF Beyond
    <3> QED BY <1>3, <1>4, <2>2, <3>1
  <2>5. all[Cardinality(X) + 1] = d
    BY <1>2, <1>3, <1>6, <1>8, <2>4
  <2> HIDE DEF d
  <2> DEFINE apart == c.item \notin {0, d.item} /\ c.parts # <<>> /\ ~Last(c.parts).brk
             parts == IF apart THEN Append(c.parts, Break) ELSE c.parts
             more == AppendDelta(c, d).parts
  <2>6. parts \in Seq(Delta \cup {Break}) /\ more = Append(parts, d)
    BY <2>1, PartsAfter
  <2>7. Texts(parts) = X /\ \A i \in Texts(parts) : parts[i] = all[UpTo(Texts(parts), i)]
    <3>1. CASE apart
      BY <1>1, <1>3, <3>1, BreakIsNoText DEF X
    <3>2. CASE ~apart
      BY <1>3, <3>2 DEF X
    <3> QED BY <3>1, <3>2
  <2> HIDE DEF parts, more
  <2>8. /\ Cardinality(Texts(more)) = Cardinality(X) + 1
        /\ \A i \in Texts(more) : more[i] = all[UpTo(Texts(more), i)]
    BY <2>1, <2>5, <2>6, <2>7, MessageGrows
  <2>9. Cardinality(Texts(more)) + Cardinality(E) = Len(all)
    BY <1>2, <1>3, <1>4, <2>2, <2>8
  <2> QED BY <1>5, <1>8, <2>8, <2>9 DEF Carried, E, more, d
<1> QED BY <1>7, <1>8

(* A delta is set apart from what another item left, and from nothing else. *)
LEMMA DeltaIsSetApart ==
    ASSUME NEW c \in ClientType, NEW d \in Delta, SetApart(c.parts), EndsWithText(c)
    PROVE  SetApart(AppendDelta(c, d).parts) /\ EndsWithText(AppendDelta(c, d))
<1> DEFINE P == Delta \cup {Break}
           apart == c.item \notin {0, d.item} /\ c.parts # <<>> /\ ~Last(c.parts).brk
           parts == IF apart THEN Append(c.parts, Break) ELSE c.parts
           more == AppendDelta(c, d).parts
           n == Len(c.parts)
<1>1. /\ more = Append(parts, d) /\ AppendDelta(c, d).item = d.item /\ parts \in Seq(P)
      /\ c.parts \in Seq(P) /\ n \in Nat /\ (n = 0 <=> c.parts = <<>>) /\ c.item \in Item \cup {0}
      /\ d.item \in Item /\ d.brk \in BOOLEAN /\ d # Break /\ Break.item = 0
      /\ \A i \in 1..n : c.parts[i] \in P
  <2>1. more = Append(parts, d) /\ AppendDelta(c, d).item = d.item /\ parts \in Seq(P)
    BY PartsAfter
  <2>2. c.parts \in Seq(P) /\ c.item \in Item \cup {0}
    BY DEF ClientType
  <2>3. n \in Nat /\ (n = 0 <=> c.parts = <<>>) /\ \A i \in 1..n : c.parts[i] \in P
    BY <2>2, PipeFacts, ElementOfSeq
  <2>4. d.item \in Item /\ d.brk \in BOOLEAN /\ d # Break /\ Break.item = 0
    BY PipeAssumption DEF Delta, Break
  <2> QED BY <2>1, <2>2, <2>3, <2>4
<1>2. /\ \A x \in Delta : x.item \in Item /\ x.item # 0
      /\ Last(c.parts) = c.parts[n]
  BY PipeAssumption DEF Delta, Last
<1>3. /\ Len(more) = Len(parts) + 1 /\ more[Len(parts) + 1] = d /\ more \in Seq(P)
      /\ \A i \in 1..Len(parts) : more[i] = parts[i]
  BY <1>1, AppendProperties
<1>4. EndsWithText(AppendDelta(c, d))
  <2>1. Len(parts) \in Nat /\ more # <<>> /\ Last(more) = d
    BY <1>1, <1>3, EmptySeq, LenProperties DEF Last
  <2> QED BY <1>1, <2>1 DEF EndsWithText
<1>5. SetApart(c.parts) /\ (c.parts # <<>> => c.parts[n] # Break /\ c.item = c.parts[n].item)
  BY <1>2 DEF EndsWithText
<1> HIDE DEF more
<1>6. CASE c.parts = <<>>
  <2>1. parts = <<>> /\ Len(parts) = 0
    BY <1>1, <1>6
  <2> QED BY <1>3, <1>4, <2>1 DEF SetApart, more
<1>7. CASE c.parts # <<>> /\ ~apart
  <2>1. parts = c.parts /\ n >= 1 /\ Len(more) = n + 1 /\ more[n + 1] = d /\ \A i \in 1..n : more[i] = c.parts[i]
    BY <1>1, <1>3, <1>7
  <2>2. c.parts[n].item = d.item \/ c.parts[n].brk
    <3>1. c.parts[n] \in Delta
      BY <1>1, <1>5, <1>7, <2>1
    <3> QED BY <1>2, <1>5, <1>7, <3>1
  <2>3. ASSUME NEW i \in 1..n, more[i] # Break, more[i + 1] # Break
        PROVE  more[i].item = more[i + 1].item \/ more[i].brk
    <3>1. CASE i = n
      BY <2>1, <2>2, <3>1
    <3>2. CASE i # n
      <4>1. i \in 1..n - 1 /\ i + 1 \in 1..n
        BY <1>1, <3>2
      <4> QED BY <1>5, <2>1, <2>3, <4>1 DEF SetApart
    <3> QED BY <3>1, <3>2
  <2>4. ASSUME NEW i \in 2..n, more[i] = Break PROVE more[i - 1].item # more[i + 1].item
    <3>1. i # n
      BY <1>5, <1>7, <2>1, <2>4
    <3>2. i \in 2..n - 1 /\ i \in 1..n /\ i - 1 \in 1..n /\ i + 1 \in 1..n
      BY <1>1, <3>1
    <3> QED BY <1>5, <2>1, <2>4, <3>2 DEF SetApart
  <2>5. Len(more) - 1 = n
    BY <1>1, <2>1
  <2>6. SetApart(more)
    BY <2>3, <2>4, <2>5 DEF SetApart
  <2> QED BY <1>4, <2>6 DEF more
<1>8. CASE apart
  <2>1. parts = Append(c.parts, Break) /\ Break \in P /\ n >= 1
    BY <1>1, <1>8
  <2>2. Len(parts) = n + 1 /\ parts[n + 1] = Break /\ \A i \in 1..n : parts[i] = c.parts[i]
    BY <1>1, <2>1, AppendProperties
  <2> HIDE DEF parts
  <2>3. Len(more) = n + 2 /\ more[n + 2] = d /\ more[n + 1] = Break /\ \A i \in 1..n : more[i] = c.parts[i]
    <3>1. n + 1 \in 1..n + 1 /\ \A i \in 1..n : i \in 1..n + 1
      BY <1>1
    <3> QED BY <1>1, <1>3, <2>2, <3>1
  <2>4. ASSUME NEW i \in 1..n + 1, more[i] # Break, more[i + 1] # Break
        PROVE  more[i].item = more[i + 1].item \/ more[i].brk
    <3>1. i # n + 1 /\ i # n
      BY <1>1, <2>3, <2>4
    <3>2. i \in 1..n - 1 /\ i \in 1..n /\ i + 1 \in 1..n
      BY <1>1, <3>1
    <3> QED BY <1>5, <2>3, <2>4, <3>2 DEF SetApart
  <2>5. ASSUME NEW i \in 2..n + 1, more[i] = Break PROVE more[i - 1].item # more[i + 1].item
    <3>1. CASE i = n + 1
      <4>1. more[i - 1] = c.parts[n] /\ more[i + 1] = d
        BY <1>1, <2>1, <2>3, <3>1
      <4> QED BY <1>5, <1>8, <4>1
    <3>2. CASE i # n + 1
      <4>1. i # n
        BY <1>5, <1>8, <2>1, <2>3, <2>5
      <4>2. i \in 2..n - 1 /\ i \in 1..n /\ i - 1 \in 1..n /\ i + 1 \in 1..n
        BY <1>1, <3>2, <4>1
      <4> QED BY <1>5, <2>3, <2>5, <4>2 DEF SetApart
    <3> QED BY <3>1, <3>2
  <2>6. Len(more) - 1 = n + 1
    BY <1>1, <2>3
  <2> QED BY <1>4, <2>4, <2>5, <2>6 DEF SetApart, more
<1> QED BY <1>6, <1>7, <1>8

(* The last count that was told, when a message comes and when one is read. *)
LEMMA CountWaits ==
    ASSUME NEW usage, NEW out \in Seq(MessageType), NEW count, ToldLast(usage, out, count), NEW m \in MessageType
    PROVE  /\ m.kind # "usage" => ToldLast(usage, Append(out, m), count)
           /\ m.kind = "usage" => ToldLast(usage, Append(out, m), m.usage)
<1>1. /\ DOMAIN Append(out, m) = 1..(Len(out) + 1) /\ DOMAIN out = 1..Len(out) /\ Len(out) \in Nat
      /\ \A i \in 1..Len(out) : Append(out, m)[i] = out[i]
      /\ Append(out, m)[Len(out) + 1] = m
  BY MessageAtEnd, DeltaPlaces
<1> DEFINE more == Append(out, m)
<1> HIDE DEF more
<1>2. /\ DOMAIN more = DOMAIN out \cup {Len(out) + 1} /\ \A i \in DOMAIN out : more[i] = out[i]
      /\ more[Len(out) + 1] = m /\ \A i \in DOMAIN out : i \in Nat /\ i < Len(out) + 1
  BY <1>1 DEF more
<1>3. m.kind # "usage" => ToldLast(usage, more, count)
  BY <1>2 DEF ToldLast
<1>4. m.kind = "usage" => ToldLast(usage, more, m.usage)
  <2>1. \A j \in DOMAIN more : ~(j > Len(out) + 1)
    BY <1>1, <1>2
  <2> QED BY <1>2, <2>1 DEF ToldLast
<1> QED BY <1>3, <1>4 DEF more

LEMMA CountIsRead ==
    ASSUME NEW usage, NEW out \in Seq(MessageType), NEW count, ToldLast(usage, out, count), out # <<>>
    PROVE  /\ Head(out).kind # "usage" => ToldLast(usage, Tail(out), count)
           /\ Head(out).kind = "usage" => ToldLast(Head(out).usage, Tail(out), count)
<1> DEFINE rest == Tail(out)
<1>1. /\ \A i \in DOMAIN rest : i \in Nat \ {0} /\ i + 1 \in DOMAIN out /\ rest[i] = out[i + 1]
      /\ \A i \in DOMAIN out : i = 1 \/ i - 1 \in DOMAIN rest
      /\ 1 \in DOMAIN out /\ Head(out) = out[1]
      /\ \A i \in DOMAIN out : i \in Nat \ {0}
  BY MessageFromFront, DeltaPlaces
<1> HIDE DEF rest
<1>2. CASE \A i \in DOMAIN out : out[i].kind # "usage"
  BY <1>1, <1>2 DEF ToldLast, rest
<1>3. CASE \E i \in DOMAIN out : /\ out[i].kind = "usage" /\ out[i].usage = count
                                 /\ \A j \in DOMAIN out : j > i => out[j].kind # "usage"
  <2>1. PICK i \in DOMAIN out : /\ out[i].kind = "usage" /\ out[i].usage = count
                                /\ \A j \in DOMAIN out : j > i => out[j].kind # "usage"
    BY <1>3
  <2>2. CASE i = 1
    <3>1. \A j \in DOMAIN rest : rest[j].kind # "usage"
      <4>1. \A j \in DOMAIN rest : j + 1 > 1
        BY <1>1
      <4> QED BY <1>1, <2>1, <2>2, <4>1
    <3> QED BY <1>1, <2>1, <2>2, <3>1 DEF ToldLast, rest
  <2>3. CASE i # 1
    <3>1. i - 1 \in DOMAIN rest /\ (i - 1) + 1 = i
      BY <1>1, <2>1, <2>3
    <3>2. rest[i - 1].kind = "usage" /\ rest[i - 1].usage = count
      BY <1>1, <2>1, <3>1
    <3>3. \A j \in DOMAIN rest : j > i - 1 => rest[j].kind # "usage"
      <4>1. \A j \in DOMAIN rest : j > i - 1 => j + 1 > i
        BY <1>1, <2>1
      <4> QED BY <1>1, <2>1, <4>1
    <3> QED BY <3>1, <3>2, <3>3 DEF ToldLast, rest
  <2> QED BY <2>2, <2>3
<1> QED BY <1>2, <1>3 DEF ToldLast

(***************************************************************************)
(* Every step keeps the message whole                                      *)
(***************************************************************************)

LEMMA InitResult == Init => ResultInv
<1> SUFFICES ASSUME Init PROVE ResultInv
  OBVIOUS
<1>1. client.parts = <<>> /\ client.item = 0 /\ stdout = <<>> /\ pc = "idle" /\ ~server.turn
  BY DEF Init, NewClient, NoServer
<1>2. SetApart(client.parts) /\ EndsWithText(client)
  BY <1>1 DEF SetApart, EndsWithText
<1>3. OneTurn
  BY <1>1 DEF OneTurn
<1> QED BY <1>1, <1>2, <1>3 DEF ResultInv

(* Nothing was said yet. *)
LEMMA NothingSaid ==
    /\ Carried(<<>>, <<>>, <<>>) /\ ToldLast(0, <<>>, 0)
    /\ SetApart(NewClient.parts) /\ EndsWithText(NewClient)
    /\ NewClient.parts = <<>> /\ NewClient.usage = 0
<1>1. NewClient.parts = <<>> /\ NewClient.usage = 0 /\ NewClient.item = 0
  BY DEF NewClient
<1>2. Texts(<<>>) = {} /\ Deltas(<<>>) = {} /\ Len(<<>>) = 0 /\ DOMAIN <<>> = {}
  BY DEF Texts, Deltas
<1>3. Cardinality({}) = 0
  BY FS_EmptySet
<1>4. Carried(<<>>, <<>>, <<>>)
  <2> DEFINE e == <<>>
  <2>1. Texts(e) = {} /\ Deltas(e) = {} /\ Len(e) = 0
    BY <1>2
  <2> HIDE DEF e
  <2>2. Cardinality(Texts(e)) + Cardinality(Deltas(e)) = Len(e)
    BY <1>3, <2>1
  <2>3. Carried(e, e, e)
    BY <2>1, <2>2 DEF Carried
  <2> QED BY <2>3 DEF e
<1>5. ToldLast(0, <<>>, 0)
  BY <1>2 DEF ToldLast
<1>6. SetApart(<<>>)
  BY <1>2 DEF SetApart
<1>7. EndsWithText(NewClient)
  BY <1>1 DEF EndsWithText
<1> QED BY <1>1, <1>4, <1>5, <1>6, <1>7

(* What a message in the pipe does to the message of the run when it is read. *)
LEMMA NotedIs ==
    ASSUME TurnInv, ResultInv, pc # "idle", stdout # <<>>
    PROVE  LET c == Noted(Head(stdout)) IN
           /\ SetApart(c.parts) /\ EndsWithText(c)
           /\ Carried(c.parts, Tail(stdout), sent) /\ ToldLast(c.usage, Tail(stdout), counted)
<1>1. /\ client \in ClientType /\ stdout \in Seq(MessageType) /\ sent \in Seq(Delta)
      /\ Head(stdout) \in MessageType
      /\ SetApart(client.parts) /\ EndsWithText(client)
      /\ Carried(client.parts, stdout, sent) /\ ToldLast(client.usage, stdout, counted)
  BY PipeFacts DEF TurnInv, TypeOK, StreamTypes, ResultInv, ClientType
<1> DEFINE m == Head(stdout)
<1>2. /\ m.kind # "delta" => Carried(client.parts, Tail(stdout), sent)
      /\ m.kind = "delta" => Carried(AppendDelta(client, m.delta).parts, Tail(stdout), sent)
  BY <1>1, MessageIsRead
<1>3. /\ m.kind # "usage" => ToldLast(client.usage, Tail(stdout), counted)
      /\ m.kind = "usage" => ToldLast(m.usage, Tail(stdout), counted)
  BY <1>1, CountIsRead
<1>4. m.kind = "delta" => m.delta \in Delta
  BY <1>1 DEF MessageType, ResponseType, NotificationType
<1> HIDE DEF m
<1>5. CASE m.kind = "delta"
  <2>1. Noted(m) = AppendDelta(client, m.delta) /\ AppendDelta(client, m.delta).usage = client.usage
    BY <1>1, <1>4, <1>5, PartsAfter DEF Noted
  <2>2. SetApart(Noted(m).parts) /\ EndsWithText(Noted(m))
    BY <1>1, <1>4, <1>5, <2>1, DeltaIsSetApart
  <2> QED BY <1>2, <1>3, <1>5, <2>1, <2>2 DEF m
<1>6. CASE m.kind = "usage"
  <2>1. Noted(m) = [client EXCEPT !.usage = m.usage]
    BY <1>6 DEF Noted
  <2>2. Noted(m).parts = client.parts /\ Noted(m).item = client.item /\ Noted(m).usage = m.usage
    BY <1>1, <2>1 DEF ClientType
  <2> QED BY <1>1, <1>2, <1>3, <1>6, <2>2 DEF EndsWithText, m
<1>7. CASE m.kind \notin {"delta", "usage"}
  <2>1. Noted(m) = client
    BY <1>7 DEF Noted
  <2> QED BY <1>1, <1>2, <1>3, <1>7, <2>1 DEF m
<1> QED BY <1>5, <1>6, <1>7

(* The end of a turn is still an end after a message was read. *)
LEMMA OneTurnIsRead ==
    ASSUME TurnInv, OneTurn, stdout # <<>>, stdout' = Tail(stdout), UNCHANGED server,
           \/ UNCHANGED <<pc, waiting, stdin>>
           \/ pc = "turn/start" /\ pc' = "read"
           \/ pc \notin {"turn/start", "read"}
    PROVE  OneTurn'
<1>1. stdout \in Seq(MessageType)
  BY DEF TurnInv, StreamTypes
<1>2. \A i \in DOMAIN stdout' : i \in Nat /\ i + 1 \in DOMAIN stdout /\ stdout'[i] = stdout[i + 1]
  BY <1>1, MessageFromFront
<1>3. (\E i \in DOMAIN stdout' : stdout'[i].kind = "completed") => \E i \in DOMAIN stdout : stdout[i].kind = "completed"
  BY <1>2
<1>4. server'.turn \/ (\E i \in DOMAIN stdout' : stdout'[i].kind = "completed") =>
          pc' = "read" \/ (pc' = "turn/start" /\ waiting' # 0 /\ stdin' = <<>>)
  BY <1>3 DEF OneTurn
<1>5. ASSUME NEW i \in DOMAIN stdout', stdout'[i].kind = "completed"
      PROVE  ~server'.turn /\ \A j \in DOMAIN stdout' : j > i => stdout'[j].kind \notin {"delta", "usage"}
  <2>1. \A j \in DOMAIN stdout' : j > i => j + 1 > i + 1
    BY <1>2
  <2> QED BY <1>2, <1>5, <2>1 DEF OneTurn
<1> QED BY <1>4, <1>5 DEF OneTurn

(* The end of a turn is still an end when a message is put into the pipe. *)
LEMMA OneTurnWaits ==
    ASSUME TurnInv, OneTurn, NEW m \in MessageType, stdout' = Append(stdout, m), UNCHANGED <<pc, waiting>>,
           \/ m.kind = "response" /\ UNCHANGED <<stdin, server.turn>>
           \/ m.kind = "response" /\ pc \in Method /\ stdin # <<>> /\ UNCHANGED server
           \/ m.kind \in {"delta", "usage"} /\ server.turn /\ UNCHANGED <<stdin, server.turn>>
           \/ m.kind = "completed" /\ server.turn /\ ~server'.turn /\ UNCHANGED stdin
    PROVE  OneTurn'
<1>1. stdout \in Seq(MessageType)
  BY DEF TurnInv, StreamTypes
<1> DEFINE n == Len(stdout) + 1
<1>2. /\ DOMAIN stdout' = DOMAIN stdout \cup {n} /\ \A i \in DOMAIN stdout : stdout'[i] = stdout[i] /\ i \in Nat /\ i < n
      /\ stdout'[n] = m /\ n \in Nat
  <2>1. DOMAIN stdout = 1..Len(stdout) /\ Len(stdout) \in Nat /\ n \in Nat
    BY <1>1, DeltaPlaces
  <2>2. DOMAIN stdout' = 1..n /\ stdout'[n] = m /\ \A i \in 1..Len(stdout) : stdout'[i] = stdout[i]
    BY <1>1, MessageAtEnd
  <2> QED BY <2>1, <2>2
<1> HIDE DEF n
<1>3. CASE m.kind = "response" /\ pc \in Method /\ stdin # <<>> /\ UNCHANGED server
  BY <1>2, <1>3 DEF OneTurn, Method
<1>4. CASE m.kind = "response" /\ UNCHANGED <<stdin, server.turn>>
  BY <1>2, <1>4 DEF OneTurn
<1>5. CASE m.kind \in {"delta", "usage"} /\ server.turn /\ UNCHANGED <<stdin, server.turn>>
  BY <1>2, <1>5 DEF OneTurn
<1>6. CASE m.kind = "completed" /\ server.turn /\ ~server'.turn /\ UNCHANGED stdin
  BY <1>2, <1>6 DEF OneTurn
<1> QED BY <1>3, <1>4, <1>5, <1>6

(* A run that ended carries nothing. *)
LEMMA FailedResult ==
    ASSUME ResultInv, Fail, UNCHANGED client
    PROVE  ResultInv'
<1>1. pc' = "idle" /\ stdout' = <<>> /\ ~server'.turn
  BY DEF Fail, Closed, NoServer
<1>2. OneTurn'
  BY <1>1 DEF OneTurn
<1> QED BY <1>1, <1>2 DEF ResultInv

(* Nothing happens to what was said. *)
LEMMA SameResult ==
    ASSUME ResultInv, UNCHANGED <<client, stdout, sent, counted>>, pc = "idle" => pc' = "idle", OneTurn'
    PROVE  ResultInv'
BY DEF ResultInv

(* A message of the server is put into the pipe. *)
LEMMA WaitingResult ==
    ASSUME TurnInv, ResultInv, pc # "idle", NEW m \in MessageType, stdout' = Append(stdout, m), OneTurn',
           UNCHANGED client,
           IF m.kind = "delta" THEN sent' = Append(sent, m.delta) ELSE sent' = sent,
           IF m.kind = "usage" THEN counted' = m.usage ELSE counted' = counted
    PROVE  ResultInv'
<1>1. /\ client.parts \in Seq(Delta \cup {Break}) /\ stdout \in Seq(MessageType) /\ sent \in Seq(Delta)
      /\ Carried(client.parts, stdout, sent) /\ ToldLast(client.usage, stdout, counted)
  BY DEF TurnInv, TypeOK, StreamTypes, ResultInv
<1>2. Carried(client'.parts, stdout', sent')
  BY <1>1, MessageWaits
<1>3. ToldLast(client'.usage, stdout', counted')
  BY <1>1, CountWaits
<1>4. SetApart(client'.parts) /\ EndsWithText(client')
  BY DEF ResultInv
<1> QED BY <1>2, <1>3, <1>4 DEF ResultInv

LEMMA NextResult == TurnInv /\ ResultInv /\ [Next]_vars => ResultInv'
<1> SUFFICES ASSUME TurnInv, ResultInv, [Next]_vars PROVE ResultInv'
  OBVIOUS
<1>t. /\ TypeOK /\ StreamTypes /\ IdsAreFresh /\ OneRequest /\ AnswersAreTrue /\ NothingIsLeft
      /\ OneTurn /\ SetApart(client.parts) /\ EndsWithText(client)
  BY DEF TurnInv, ResultInv
<1>0. CASE UNCHANGED vars
  <2>1. OneTurn'
    BY <1>0, <1>t DEF vars, OneTurn
  <2> QED BY <1>0, <2>1, SameResult DEF vars
<1>1. CASE Start
  <2>1. /\ client' = NewClient /\ stdout' = <<>> /\ sent' = <<>> /\ counted' = 0
        /\ server' = [up |-> TRUE, stuck |-> FALSE, owed |-> 0, turn |-> FALSE]
    BY <1>1 DEF Start, NoServer
  <2>2. OneTurn'
    BY <2>1 DEF OneTurn
  <2>3. /\ Carried(client'.parts, stdout', sent') /\ ToldLast(client'.usage, stdout', counted')
        /\ SetApart(client'.parts) /\ EndsWithText(client')
    BY <2>1, NothingSaid
  <2> QED BY <2>2, <2>3 DEF ResultInv
<1>2. CASE Send
  <2>1. CASE ~server.up
    BY <1>2, <2>1, FailedResult DEF Send
  <2>2. CASE server.up
    <3>1. UNCHANGED <<pc, stdout, server, client, sent, counted>> /\ pc \in Method /\ waiting = 0
      BY <1>2, <2>2 DEF Send, Method
    <3>2. OneTurn'
      BY <3>1, <1>t DEF OneTurn, Method
    <3> QED BY <3>1, <3>2, SameResult
  <2> QED BY <2>1, <2>2
<1>18. CASE Receive /\ IsRefused
  BY <1>18, FailedResult DEF Receive, IsRefused
<1>3. CASE Receive /\ ~IsRefused
  <2> DEFINE m == Head(stdout)
  <2>1. /\ waiting # 0 /\ stdout # <<>> /\ stdout' = Tail(stdout)
        /\ UNCHANGED <<sent, counted, stdin, server>> /\ pc \in Method /\ pc # "idle"
        /\ stdout \in Seq(MessageType)
    BY <1>3, <1>t DEF Receive, IsRefused, IdsAreFresh, Method, StreamTypes
  <2>2. CASE m.kind # "response" \/ m.id # waiting
    <3>1. client' = Noted(m) /\ UNCHANGED <<pc, waiting>>
      BY <1>3, <2>2 DEF Receive, IsRefused
    <3>2. OneTurn'
      BY <2>1, <3>1, <1>t, OneTurnIsRead
    <3>3. /\ SetApart(client'.parts) /\ EndsWithText(client')
          /\ Carried(client'.parts, stdout', sent') /\ ToldLast(client'.usage, stdout', counted')
      BY <2>1, <3>1, NotedIs
    <3> QED BY <3>2, <3>3 DEF ResultInv
  <2>3. CASE m.kind = "response" /\ m.id = waiting
    <3>1. Answered(m) /\ UNCHANGED client
      BY <1>3, <2>3 DEF Receive, IsRefused
    <3>2. Noted(m) = client
      BY <2>3 DEF Noted
    <3>3. /\ Carried(client'.parts, stdout', sent') /\ ToldLast(client'.usage, stdout', counted')
      BY <2>1, <3>1, <3>2, NotedIs
    <3>4. pc = "turn/start" => pc' = "read"
      BY <3>1 DEF Answered
    <3>5. OneTurn'
      BY <2>1, <3>4, <1>t, OneTurnIsRead DEF Method
    <3> QED BY <3>1, <3>3, <3>5, <1>t DEF ResultInv
  <2> QED BY <2>2, <2>3
<1>4. CASE ReadTurn
  <2>1. /\ pc = "read" /\ stdout # <<>> /\ client' = Noted(Head(stdout)) /\ UNCHANGED <<waiting, sent, counted>>
        /\ stdout \in Seq(MessageType)
    BY <1>4, <1>t DEF ReadTurn, StreamTypes
  <2>2. /\ SetApart(client'.parts) /\ EndsWithText(client')
        /\ Carried(client'.parts, Tail(stdout), sent) /\ ToldLast(client'.usage, Tail(stdout), counted)
    BY <2>1, NotedIs
  <2>3. CASE Head(stdout).kind = "completed"
    <3>1. pc' = "completed" /\ server' = NoServer /\ stdout' = <<>>
      BY <1>4, <2>3 DEF ReadTurn, Completes, Closed
    <3>2. \A i \in DOMAIN Tail(stdout) : Tail(stdout)[i].kind \notin {"delta", "usage"}
      <4>1. /\ \A i \in DOMAIN Tail(stdout) : i \in Nat \ {0} /\ i + 1 \in DOMAIN stdout /\ Tail(stdout)[i] = stdout[i + 1]
            /\ 1 \in DOMAIN stdout /\ stdout[1].kind = "completed"
        BY <2>1, <2>3, MessageFromFront
      <4>2. \A i \in DOMAIN Tail(stdout) : i + 1 > 1
        BY <4>1
      <4> QED BY <4>1, <4>2, <1>t DEF OneTurn
    <3>3. Deltas(Tail(stdout)) = {} /\ Deltas(<<>>) = {}
      BY <3>2 DEF Deltas
    <3>4. Carried(client'.parts, stdout', sent')
      BY <2>1, <2>2, <3>1, <3>3 DEF Carried
    <3>5. ToldLast(client'.usage, stdout', counted')
      BY <2>1, <2>2, <3>1, <3>2 DEF ToldLast
    <3>6. OneTurn'
      BY <3>1 DEF OneTurn, NoServer
    <3> QED BY <2>2, <3>4, <3>5, <3>6 DEF ResultInv
  <2>4. CASE Head(stdout).kind # "completed"
    <3>1. stdout' = Tail(stdout) /\ UNCHANGED <<pc, stdin, server>>
      BY <1>4, <2>4 DEF ReadTurn
    <3>2. OneTurn'
      BY <2>1, <3>1, <1>t, OneTurnIsRead
    <3> QED BY <2>1, <2>2, <3>1, <3>2 DEF ResultInv
  <2> QED BY <2>3, <2>4
<1>5. CASE EndOfStream
  <2>1. CASE pc = "thread/resume"
    <3>1. pc' = "thread/start" /\ UNCHANGED <<stdout, server, client, sent, counted>>
      BY <1>5, <2>1 DEF EndOfStream
    <3>2. OneTurn'
      BY <2>1, <3>1, <1>t DEF OneTurn
    <3> QED BY <2>1, <3>1, <3>2, SameResult
  <2>2. CASE pc # "thread/resume"
    BY <1>5, <2>2, FailedResult DEF EndOfStream
  <2> QED BY <2>1, <2>2
<1>6. CASE SaveThread
  <2>1. pc' = "idle" /\ UNCHANGED <<client, stdout, server>> /\ pc = "completed"
    BY <1>6 DEF SaveThread
  <2>2. OneTurn'
    BY <2>1, <1>t DEF OneTurn
  <2> QED BY <2>1, <2>2, <1>t DEF ResultInv
<1>7. CASE RunnerDies \/ Deadline
  BY <1>7, FailedResult DEF RunnerDies, Deadline
<1>8. CASE Serve
  <2> DEFINE r == Head(stdin)
  <2>1. /\ server.up /\ stdin # <<>> /\ UNCHANGED <<pc, waiting, client, sent, counted>> /\ stdin' = Tail(stdin)
    BY <1>8 DEF Serve, Works, clientVars
  <2>2. /\ r \in RequestType /\ r.method = pc /\ pc \in Method /\ waiting # 0 /\ stdin' = <<>> /\ pc # "idle"
    BY <2>1, <1>t, PipeFacts DEF StreamTypes, OneRequest, IdsAreFresh, Method
  <2>3. CASE \E a \in ResponseType : stdout' = Append(stdout, a) /\ UNCHANGED server
    <3>1. PICK a \in ResponseType : stdout' = Append(stdout, a) /\ UNCHANGED server
      BY <2>3
    <3>2. a \in MessageType /\ a.kind = "response"
      BY DEF MessageType, ResponseType
    <3>3. OneTurn'
      BY <2>1, <2>2, <3>1, <3>2, <1>t, OneTurnWaits
    <3> QED BY <2>1, <2>2, <3>1, <3>2, <3>3, WaitingResult
  <2>4. CASE r.method = "turn/start" /\ server' = [server EXCEPT !.owed = r.id, !.turn = TRUE] /\ UNCHANGED stdout
    <3>1. pc = "turn/start" /\ \A i \in DOMAIN stdout : stdout[i].kind # "completed"
      BY <2>1, <2>2, <2>4, <1>t DEF OneTurn
    <3>2. OneTurn'
      BY <2>1, <2>2, <2>4, <3>1 DEF OneTurn
    <3> QED BY <2>1, <2>4, <3>2, SameResult
  <2>5. /\ waiting \in 1..4 /\ r.id = waiting /\ NewThread \in Threads /\ r.thread \in Threads \cup {0}
    BY <2>1, <2>2, <1>t, PipeFacts DEF StreamTypes, OneRequest, TypeOK, NewThread, RequestType
  <2>6. /\ Answer(r.id, FALSE, 0) \in ResponseType /\ Answer(r.id, FALSE, NewThread) \in ResponseType
        /\ Answer(r.id, FALSE, r.thread) \in ResponseType /\ Answer(r.id, TRUE, 0) \in ResponseType
    BY <2>5 DEF Answer, ResponseType
  <2> HIDE DEF r
  <2> QED BY <1>8, <2>3, <2>4, <2>6 DEF Serve, r
<1>9. CASE AnswerTurn
  <2> DEFINE a == Answer(server.owed, FALSE, 0)
  <2>1. /\ server.up /\ server.owed # 0 /\ stdout' = Append(stdout, a)
        /\ server' = [server EXCEPT !.owed = 0] /\ UNCHANGED <<pc, waiting, client, sent, counted, stdin>>
    BY <1>9 DEF AnswerTurn, Works, clientVars
  <2>2. waiting = server.owed /\ pc = "turn/start" /\ waiting \in 1..4 /\ server'.turn = server.turn
    BY <2>1, <1>t DEF OneRequest, TypeOK, StreamTypes
  <2>3. a \in MessageType /\ a.kind = "response"
    BY <2>2 DEF Answer, ResponseType, MessageType
  <2> HIDE DEF a
  <2>4. OneTurn'
    BY <2>1, <2>2, <2>3, <1>t, OneTurnWaits
  <2> QED BY <2>1, <2>2, <2>3, <2>4, WaitingResult
<1>10. CASE SendDelta
  <2>1. PICK d \in Delta : sent' = Append(sent, d) /\ stdout' = Append(stdout, [kind |-> "delta", delta |-> d])
    BY <1>10 DEF SendDelta
  <2> DEFINE m == [kind |-> "delta", delta |-> d]
  <2>2. server.up /\ server.turn /\ UNCHANGED <<pc, waiting, client, stdin, server, counted>> /\ pc # "idle"
    BY <1>10, <1>t DEF SendDelta, Works, clientVars, NothingIsLeft, NoServer
  <2>3. m \in MessageType /\ m.kind = "delta" /\ m.delta = d
    BY DEF MessageType, NotificationType
  <2> HIDE DEF m
  <2>4. stdout' = Append(stdout, m)
    BY <2>1 DEF m
  <2>5. OneTurn'
    BY <2>2, <2>3, <2>4, <1>t, OneTurnWaits
  <2> QED BY <2>1, <2>2, <2>3, <2>4, <2>5, WaitingResult
<1>11. CASE SendUsage
  <2> DEFINE m == [kind |-> "usage", usage |-> Len(sent)]
  <2>1. stdout' = Append(stdout, m) /\ counted' = Len(sent)
    BY <1>11 DEF SendUsage
  <2>2. server.up /\ server.turn /\ UNCHANGED <<pc, waiting, client, stdin, server, sent>> /\ pc # "idle"
    BY <1>11, <1>t DEF SendUsage, Works, clientVars, NothingIsLeft, NoServer
  <2>3. Len(sent) \in Nat
    BY <1>t, PipeFacts DEF TypeOK
  <2>4. m \in MessageType /\ m.kind = "usage" /\ m.usage = Len(sent)
    BY <2>3 DEF MessageType, NotificationType
  <2> HIDE DEF m
  <2>5. OneTurn'
    BY <2>1, <2>2, <2>4, <1>t, OneTurnWaits
  <2> QED BY <2>1, <2>2, <2>4, <2>5, WaitingResult
<1>12. CASE CompleteTurn
  <2> DEFINE m == [kind |-> "completed"]
  <2>1. stdout' = Append(stdout, m) /\ server' = [server EXCEPT !.turn = FALSE]
    BY <1>12 DEF CompleteTurn
  <2>2. server.up /\ server.turn /\ UNCHANGED <<pc, waiting, client, stdin, sent, counted>> /\ pc # "idle"
    BY <1>12, <1>t DEF CompleteTurn, Works, clientVars, NothingIsLeft, NoServer
  <2>3. m \in MessageType /\ m.kind = "completed" /\ ~server'.turn
    BY <2>1, <1>t DEF MessageType, NotificationType, StreamTypes
  <2> HIDE DEF m
  <2>4. OneTurn'
    BY <2>1, <2>2, <2>3, <1>t, OneTurnWaits
  <2> QED BY <2>1, <2>2, <2>3, <2>4, WaitingResult
<1>13. CASE Log
  <2>1. UNCHANGED <<pc, waiting, client, stdin, stdout, sent, counted>> /\ server'.turn = server.turn
    BY <1>13, <1>t DEF Log, clientVars, StreamTypes
  <2>2. OneTurn'
    BY <2>1, <1>t DEF OneTurn
  <2> QED BY <2>1, <2>2, SameResult
<1>14. CASE ServerDies
  <2>1. UNCHANGED <<pc, waiting, client, stdout, sent, counted>> /\ ~server'.turn /\ stdin' = <<>>
    BY <1>14 DEF ServerDies, clientVars, NoServer
  <2>2. OneTurn'
    BY <2>1, <1>t DEF OneTurn
  <2> QED BY <2>1, <2>2, SameResult
<1>15. CASE LoseThread
  <2>1. UNCHANGED <<pc, waiting, client, stdin, stdout, server, sent, counted>>
    BY <1>15 DEF LoseThread, clientVars
  <2>2. OneTurn'
    BY <2>1, <1>t DEF OneTurn
  <2> QED BY <2>1, <2>2, SameResult
<1> QED BY <1>0, <1>1, <1>2, <1>18, <1>3, <1>4, <1>5, <1>6, <1>7, <1>8, <1>9, <1>10, <1>11, <1>12, <1>13,
        <1>14, <1>15 DEF Next

(* The message of a run that succeeded is the whole text of its turn, whatever the sizes of *)
(* the pipes and the messages, and however the responses and the notifications are mixed    *)
(* (request, _read_until_turn_completed, _append_final_message_delta).                      *)
THEOREM ResultStaysWhole == Spec => []ResultIsWhole
<1>1. TurnInv /\ ResultInv => ResultIsWhole
  <2> SUFFICES ASSUME TurnInv, ResultInv, pc = "completed" PROVE ResultIsWhole
    BY DEF ResultIsWhole
  <2>1. stdout = <<>> /\ Deltas(stdout) = {} /\ Cardinality(Deltas(stdout)) = 0
    BY FS_EmptySet DEF TurnInv, NothingIsLeft, Deltas
  <2>2. Cardinality(Texts(client.parts)) \in Nat
    BY TextPlaces, PlacesAreFinite DEF TurnInv, TypeOK
  <2>3. /\ Cardinality(Texts(client.parts)) = Len(sent)
        /\ \A i \in Texts(client.parts) : client.parts[i] = sent[UpTo(Texts(client.parts), i)]
    BY <2>1, <2>2 DEF ResultInv, Carried
  <2>4. client.usage = counted
    BY <2>1 DEF ResultInv, ToldLast
  <2> QED BY <2>3, <2>4 DEF ResultInv, SetApart, ResultIsWhole
<1> QED BY <1>1, InitTurn, NextTurn, InitResult, NextResult, PTL DEF Spec

-----------------------------------------------------------------------------
(***************************************************************************)
(* LiveFeed: what the page shows of the sources, and the transcript        *)
(***************************************************************************)

(* What a writer is about to insert is not in the future, and no row of Codex is *)
(* stamped later than what the worker inserts next.                              *)
StampsGrow ==
    /\ \A w \in Writers : stamped[w] # NoRow =>
          stamped[w].source \in Sources /\ stamped[w].at <= clock /\ (stamped[w].source = "codex" => w = "worker")
    /\ \A i \in DOMAIN rows["codex"] :
          /\ rows["codex"][i] <= clock
          /\ stamped["worker"].source = "codex" => rows["codex"][i] <= stamped["worker"].at
          /\ \A j \in DOMAIN rows["codex"] : i <= j => rows["codex"][i] <= rows["codex"][j]

(* The page holds rows of the tables, in their order. *)
PageIsSorted ==
    /\ \A k \in DOMAIN page :
          page[k].id \in DOMAIN rows[page[k].source] /\ page[k].at = rows[page[k].source][page[k].id]
    /\ \A j, k \in DOMAIN page : j < k => Earlier(page[j], page[k])

(* What the page need not wait for any more. *)
Overtaken(s, i) == s # "codex" /\ \E j \in DOMAIN rows[s] : j > i /\ rows[s][j] < rows[s][i]
Settled(s, i) == <<s, i>> \in seen \/ (s = "error" /\ i \in cleared) \/ Overtaken(s, i)

(* Nothing is behind a cursor that the page still waits for, and before an event to *)
(* be sent there is nothing but what is settled, behind the cursor, or on the page. *)
CursorsAreRight == \A s \in Sources : \A i \in 1..cursor[s] : Settled(s, i)
OnPage(s, i) == \E k \in DOMAIN page : page[k].source = s /\ page[k].id = i
PageIsWhole ==
    \A k \in DOMAIN page : \A i \in 1..page[k].id :
        LET s == page[k].source IN i <= cursor[s] \/ Settled(s, i) \/ OnPage(s, i)

(* The transcript is what was shown of Codex. *)
TranscriptIsSeen ==
    /\ TranscriptInOrder
    /\ \A i \in Nat : <<"codex", i>> \in seen <=> i \in 1..Len(transcript)

Event == [source : Sources, id : Nat, at : Nat]
FeedRows ==
    /\ clock \in Nat /\ rows \in [Sources -> Seq(Nat)]
    /\ stamped \in [Writers -> [source : Sources \cup {"none"}, at : Nat]]
    /\ cleared \subseteq DOMAIN rows["error"]
FeedTypes ==
    /\ FeedRows
    /\ cursor \in [Sources -> Nat] /\ \A s \in Sources : cursor[s] <= Len(rows[s])
    /\ page \in Seq(Event)
    /\ transcript \in Seq(Nat)
FeedInv == FeedTypes /\ StampsGrow /\ PageIsSorted /\ CursorsAreRight /\ PageIsWhole /\ TranscriptIsSeen

(***************************************************************************)
(* The order of the feed                                                   *)
(***************************************************************************)

LEMMA Larger == \A a, b \in Nat : Max({a, b}) \in Nat /\ Max({a, b}) \in {a, b} /\ Max({a, b}) >= a /\ Max({a, b}) >= b
<1> TAKE a, b \in Nat
<1>1. \E x \in {a, b} : \A y \in {a, b} : x >= y
  OBVIOUS
<1> QED BY <1>1 DEF Max

LEMMA Smaller == \A a, b \in Nat : Min({a, b}) \in Nat /\ Min({a, b}) \in {a, b} /\ Min({a, b}) <= a /\ Min({a, b}) <= b
<1> TAKE a, b \in Nat
<1>1. \E x \in {a, b} : \A y \in {a, b} : x =< y
  OBVIOUS
<1> QED BY <1>1 DEF Min

(* Earlier is a total order. *)
LEMMA EarlierIsAnOrder ==
    /\ \A e \in Event : ~Earlier(e, e)
    /\ \A e, f, g \in Event : Earlier(e, f) /\ Earlier(f, g) => Earlier(e, g)
    /\ \A e, f \in Event : e = f \/ Earlier(e, f) \/ Earlier(f, e)
BY DEF Earlier, Event, Sources, Name

(* Of finitely many events each has a rank of its own, and no rank is missing: ranks are *)
(* an injection into an interval of as many numbers, hence onto it.                      *)
LEMMA Ranks ==
    ASSUME NEW S \in SUBSET Event, IsFiniteSet(S)
    PROVE  /\ Cardinality(S) \in Nat
           /\ \A e \in S : Rank(e, S) \in Nat /\ Rank(e, S) < Cardinality(S)
           /\ \A e, f \in S : Earlier(e, f) => Rank(e, S) < Rank(f, S)
           /\ \A i \in Nat : i < Cardinality(S) => \E e \in S : Rank(e, S) = i
<1> DEFINE before(e) == {f \in S : Earlier(f, e)}
<1>1. Cardinality(S) \in Nat
  BY FS_CardinalityType
<1>2. ASSUME NEW e \in S
      PROVE  Rank(e, S) \in Nat /\ Rank(e, S) < Cardinality(S)
  <2>1. before(e) \in SUBSET S /\ before(e) # S
    BY EarlierIsAnOrder
  <2>2. IsFiniteSet(before(e)) /\ Cardinality(before(e)) <= Cardinality(S) /\ Cardinality(before(e)) # Cardinality(S)
    BY <2>1, FS_Subset
  <2>3. Cardinality(before(e)) \in Nat
    BY <2>2, FS_CardinalityType
  <2> QED BY <1>1, <2>2, <2>3 DEF Rank
<1>3. ASSUME NEW e \in S, NEW f \in S, Earlier(e, f)
      PROVE  Rank(e, S) < Rank(f, S)
  <2>1. before(e) \in SUBSET before(f) /\ e \in before(f) \ before(e)
    BY <1>3, EarlierIsAnOrder
  <2>2. IsFiniteSet(before(f))
    BY FS_Subset
  <2>3. Cardinality(before(e)) <= Cardinality(before(f)) /\ Cardinality(before(e)) # Cardinality(before(f))
    BY <2>1, <2>2, FS_Subset
  <2> QED BY <1>2, <2>3 DEF Rank
<1>4. ASSUME NEW i \in Nat, i < Cardinality(S)
      PROVE  \E e \in S : Rank(e, S) = i
  <2> DEFINE T == 0..(Cardinality(S) - 1)
             rank == [e \in S |-> Rank(e, S)]
  <2>1. IsFiniteSet(T) /\ Cardinality(T) = Cardinality(S)
    BY <1>1, FS_Interval
  <2>2. rank \in [S -> T]
    BY <1>1, <1>2
  <2>3. \A e, f \in S : rank[e] = rank[f] => e = f
    BY <1>2, <1>3, EarlierIsAnOrder
  <2>4. rank \in Injection(S, T)
    BY <2>2, <2>3 DEF Injection, IsInjective
  <2>5. rank \in Surjection(S, T)
    BY <2>1, <2>4, FS_Injection
  <2>6. i \in T
    BY <1>1, <1>4
  <2> QED BY <2>5, <2>6 DEF Surjection
<1> QED BY <1>1, <1>2, <1>3, <1>4

(***************************************************************************)
(* The snapshot                                                            *)
(***************************************************************************)

LEMMA AfterIs ==
    ASSUME FeedTypes, NEW s \in Sources
    PROVE  /\ IsFiniteSet(After(s)) /\ After(s) \subseteq Event
           /\ \A e \in After(s) :
                 e.source = s /\ e.id \in DOMAIN rows[s] /\ e.at = rows[s][e.id] /\ e.id > cursor[s]
           /\ \A e \in After(s) : \A i \in 1..e.id :
                 i > cursor[s] /\ (s = "error" => i \notin cleared) =>
                    [source |-> s, id |-> i, at |-> rows[s][i]] \in After(s)
<1> DEFINE ids == {i \in DOMAIN rows[s] : i > cursor[s] /\ (s = "error" => i \notin cleared)}
           event(i) == [source |-> s, id |-> i, at |-> rows[s][i]]
           first(i) == {j \in ids : j < i}
<1>1. /\ rows[s] \in Seq(Nat) /\ Len(rows[s]) \in Nat /\ DOMAIN rows[s] = 1..Len(rows[s])
      /\ \A i \in DOMAIN rows[s] : i \in Nat /\ rows[s][i] \in Nat
  BY DEF FeedTypes, FeedRows
<1>2. After(s) = {event(i) : i \in {i \in ids : Cardinality(first(i)) < Limit}}
  BY DEF After
<1>3. \A e \in After(s) :
         /\ e = event(e.id) /\ e.id \in ids /\ Cardinality(first(e.id)) < Limit
         /\ e.source = s /\ e.at = rows[s][e.id]
  <2> SUFFICES ASSUME NEW e \in After(s)
               PROVE  /\ e = event(e.id) /\ e.id \in ids /\ Cardinality(first(e.id)) < Limit
                      /\ e.source = s /\ e.at = rows[s][e.id]
    OBVIOUS
  <2>1. PICK i \in ids : e = event(i) /\ Cardinality(first(i)) < Limit
    BY <1>2
  <2>2. e.id = i /\ e.source = s /\ e.at = rows[s][i]
    BY <2>1
  <2> QED BY <2>1, <2>2
<1>4. ASSUME NEW e \in After(s)
      PROVE  e \in Event /\ e.id \in DOMAIN rows[s] /\ e.id \in Nat /\ e.id > cursor[s]
  <2>1. e.id \in DOMAIN rows[s] /\ e.id > cursor[s]
    BY <1>3
  <2>2. event(e.id) \in Event /\ e.id \in Nat
    BY <1>1, <2>1 DEF Event
  <2> QED BY <1>3, <2>1, <2>2
<1>5. IsFiniteSet(After(s))
  <2> DEFINE number == [e \in After(s) |-> e.id]
  <2>1. number \in [After(s) -> 1..Len(rows[s])]
    BY <1>1, <1>4
  <2>2. number \in Injection(After(s), 1..Len(rows[s]))
    BY <2>1, <1>3 DEF Injection, IsInjective
  <2> QED BY <2>2, <1>1, FS_Interval, FS_Injection
<1>6. ASSUME NEW e \in After(s), NEW i \in 1..e.id, i > cursor[s], s = "error" => i \notin cleared
      PROVE  event(i) \in After(s)
  <2>1. e.id \in DOMAIN rows[s] /\ e.id \in Nat /\ i \in Nat /\ i <= e.id
    BY <1>4
  <2>2. i \in ids
    BY <1>1, <1>6, <2>1
  <2>3. first(i) \in SUBSET first(e.id) /\ first(e.id) \in SUBSET (1..Len(rows[s]))
    BY <1>1, <2>1
  <2>4. IsFiniteSet(first(e.id)) /\ IsFiniteSet(first(i)) /\ Cardinality(first(i)) <= Cardinality(first(e.id))
    <3>1. IsFiniteSet(1..Len(rows[s]))
      BY <1>1, FS_Interval
    <3>2. IsFiniteSet(first(e.id))
      BY <2>3, <3>1, FS_Subset
    <3> QED BY <2>3, <3>2, FS_Subset
  <2>5. Cardinality(first(i)) \in Nat /\ Cardinality(first(e.id)) \in Nat
    BY <2>4, FS_CardinalityType
  <2>6. Cardinality(first(i)) < Limit
    BY <1>3, <2>4, <2>5, LimitAssumption
  <2> QED BY <1>2, <2>2, <2>6
<1> QED BY <1>3, <1>4, <1>5, <1>6

(* A snapshot is in order, holds what is pending, and nothing pending comes before *)
(* what it holds but what it holds too.                                            *)
LEMMA SnapshotIs ==
    ASSUME FeedTypes
    PROVE  /\ Snapshot \in Seq(Event)
           /\ \A k \in DOMAIN Snapshot : Snapshot[k] \in Pending
           /\ \A j, k \in DOMAIN Snapshot : j < k => Earlier(Snapshot[j], Snapshot[k])
           /\ \A k \in DOMAIN Snapshot, e \in Pending :
                 Earlier(e, Snapshot[k]) => \E j \in DOMAIN Snapshot : Snapshot[j] = e
<1>1. Pending = After("codex") \cup After("error") \cup After("timeline")
  BY DEF Pending, Sources
<1>2. Pending \in SUBSET Event /\ IsFiniteSet(Pending)
  <2>1. \A s \in Sources : IsFiniteSet(After(s)) /\ After(s) \subseteq Event
    BY AfterIs
  <2>2. IsFiniteSet(After("codex") \cup After("error"))
    BY <2>1, FS_Union DEF Sources
  <2>3. IsFiniteSet(Pending)
    BY <1>1, <2>1, <2>2, FS_Union DEF Sources
  <2> QED BY <1>1, <2>1, <2>3 DEF Sources
<1> DEFINE n == Cardinality(Pending)
           size == Min({Limit, n})
           rank(e) == Rank(e, Pending)
<1>3. /\ n \in Nat
      /\ \A e \in Pending : rank(e) \in Nat /\ rank(e) < n
      /\ \A e, f \in Pending : Earlier(e, f) => rank(e) < rank(f)
      /\ \A i \in Nat : i < n => \E e \in Pending : rank(e) = i
  BY <1>2, Ranks
<1>4. size \in Nat /\ size <= n
  BY <1>3, Smaller, LimitAssumption
<1> HIDE DEF n, size, rank
<1>5. Snapshot = [i \in 1..size |-> CHOOSE e \in Pending : rank(e) = i - 1]
  BY DEF Snapshot, n, size, rank
<1>6. ASSUME NEW i \in 1..size
      PROVE  Snapshot[i] \in Pending /\ rank(Snapshot[i]) = i - 1
  <2>1. i - 1 \in Nat /\ i - 1 < n
    BY <1>3, <1>4
  <2>2. \E e \in Pending : rank(e) = i - 1
    BY <1>3, <2>1
  <2> QED BY <1>5, <2>2
<1>7. DOMAIN Snapshot = 1..size /\ Snapshot \in Seq(Event)
  <2>1. Snapshot \in [1..size -> Event]
    BY <1>2, <1>5, <1>6
  <2> QED BY <1>4, <2>1, IsASeq
<1>8. ASSUME NEW j \in 1..size, NEW k \in 1..size, j < k
      PROVE  Earlier(Snapshot[j], Snapshot[k])
  <2>1. rank(Snapshot[j]) < rank(Snapshot[k])
    BY <1>4, <1>6, <1>8
  <2> QED BY <1>2, <1>3, <1>6, <2>1, EarlierIsAnOrder
<1>9. ASSUME NEW k \in 1..size, NEW e \in Pending, Earlier(e, Snapshot[k])
      PROVE  \E j \in 1..size : Snapshot[j] = e
  <2>1. rank(e) \in Nat /\ rank(e) < k - 1 /\ rank(e) + 1 \in 1..size
    BY <1>3, <1>4, <1>6, <1>9
  <2>2. rank(Snapshot[rank(e) + 1]) = rank(e) /\ Snapshot[rank(e) + 1] \in Pending
    BY <1>6, <2>1
  <2>3. Snapshot[rank(e) + 1] = e
    BY <1>2, <1>3, <2>2, EarlierIsAnOrder
  <2> QED BY <2>1, <2>3
<1> QED BY <1>6, <1>7, <1>8, <1>9

(***************************************************************************)
(* Every step keeps the invariant                                          *)
(***************************************************************************)

LEMMA EventsOfPage ==
    ASSUME FeedTypes
    PROVE  /\ Len(page) \in Nat /\ DOMAIN page = 1..Len(page)
           /\ \A k \in DOMAIN page : /\ page[k] \in Event /\ page[k].source \in Sources
                                     /\ page[k].id \in Nat /\ page[k].at \in Nat
<1>1. page \in Seq(Event)
  BY DEF FeedTypes
<1>2. Len(page) \in Nat /\ DOMAIN page = 1..Len(page) /\ \A k \in DOMAIN page : page[k] \in Event
  BY <1>1, LenProperties, ElementOfSeq
<1> QED BY <1>2 DEF Event

LEMMA FeedBegins == FeedInit => FeedInv
<1> SUFFICES ASSUME FeedInit PROVE FeedInv
  OBVIOUS
<1> USE DEF FeedInit, Sources, Writers, NoRow
<1>1. FeedTypes
  BY DEF FeedTypes, FeedRows
<1>2. StampsGrow /\ PageIsSorted /\ CursorsAreRight /\ PageIsWhole
  BY DEF StampsGrow, PageIsSorted, CursorsAreRight, PageIsWhole
<1>3. TranscriptIsSeen
  BY DEF TranscriptIsSeen, TranscriptInOrder
<1> QED BY <1>1, <1>2, <1>3 DEF FeedInv

(* The clock and the stamps do not touch the page. *)
LEMMA StampKeepsFeed ==
    ASSUME FeedInv, Tick \/ \E w \in Writers, s \in Sources : Stamp(w, s)
    PROVE  FeedInv'
<1>1. UNCHANGED <<rows, cleared, cursor, page, seen, transcript>>
  BY DEF Tick, Stamp
<1>2. PageIsSorted' /\ CursorsAreRight' /\ PageIsWhole' /\ TranscriptIsSeen'
  BY <1>1 DEF FeedInv, PageIsSorted, CursorsAreRight, PageIsWhole, TranscriptIsSeen, TranscriptInOrder,
              Settled, Overtaken, OnPage
<1>3. \A i \in DOMAIN rows["codex"] : rows["codex"][i] \in Nat
  BY DEF FeedInv, FeedTypes, FeedRows, Sources
<1>4. CASE Tick
  <2>1. clock \in Nat /\ clock' = clock + 1 /\ UNCHANGED stamped
    BY <1>4 DEF Tick, FeedInv, FeedTypes, FeedRows
  <2>2. FeedTypes'
    BY <1>1, <2>1 DEF FeedInv, FeedTypes, FeedRows
  <2>3. StampsGrow'
    BY <1>1, <1>3, <2>1 DEF FeedInv, FeedTypes, FeedRows, StampsGrow
  <2> QED BY <1>2, <2>2, <2>3 DEF FeedInv
<1>5. ASSUME NEW w \in Writers, NEW s \in Sources, Stamp(w, s)
      PROVE  FeedInv'
  <2>1. /\ clock \in Nat /\ UNCHANGED clock
        /\ stamped' = [stamped EXCEPT ![w] = [source |-> s, at |-> clock]]
        /\ s = "codex" => w = "worker"
    BY <1>5 DEF Stamp, FeedInv, FeedTypes, FeedRows
  <2>2. FeedTypes'
    BY <1>1, <2>1 DEF FeedInv, FeedTypes, FeedRows
  <2>3. StampsGrow'
    BY <1>1, <1>3, <2>1 DEF FeedInv, FeedTypes, FeedRows, StampsGrow, Writers
  <2> QED BY <1>2, <2>2, <2>3 DEF FeedInv
<1> QED BY <1>4, <1>5

(* Rows are added behind those there are, in Codex's source with the latest stamp. *)
LEMMA InsertKeepsFeed ==
    ASSUME FeedInv, NEW w \in Writers, Insert(w)
    PROVE  FeedInv'
<1> DEFINE s == stamped[w].source
           at == stamped[w].at
<1>1. /\ UNCHANGED <<clock, cleared, cursor, page, seen, transcript>>
      /\ rows' = [rows EXCEPT ![s] = Append(rows[s], at)]
      /\ stamped' = [stamped EXCEPT ![w] = NoRow]
      /\ s \in Sources /\ at \in Nat /\ at <= clock /\ (s = "codex" => w = "worker")
  BY DEF Insert, FeedInv, FeedTypes, FeedRows, StampsGrow
<1>2. /\ rows[s] \in Seq(Nat) /\ Len(rows[s]) \in Nat
      /\ rows' \in [Sources -> Seq(Nat)]
      /\ \A x \in Sources \ {s} : rows'[x] = rows[x]
      /\ Len(rows'[s]) = Len(rows[s]) + 1 /\ rows'[s][Len(rows[s]) + 1] = at
      /\ \A i \in DOMAIN rows[s] : rows'[s][i] = rows[s][i]
  BY <1>1, AppendProperties DEF FeedInv, FeedTypes, FeedRows
<1>3. \A x \in Sources :
        /\ rows[x] \in Seq(Nat) /\ Len(rows[x]) \in Nat /\ Len(rows[x]) <= Len(rows'[x])
        /\ DOMAIN rows[x] = 1..Len(rows[x]) /\ DOMAIN rows'[x] = 1..Len(rows'[x])
        /\ \A i \in DOMAIN rows[x] : i \in DOMAIN rows'[x] /\ rows'[x][i] = rows[x][i]
  <2> SUFFICES ASSUME NEW x \in Sources
               PROVE  /\ rows[x] \in Seq(Nat) /\ Len(rows[x]) \in Nat /\ Len(rows[x]) <= Len(rows'[x])
                      /\ DOMAIN rows[x] = 1..Len(rows[x]) /\ DOMAIN rows'[x] = 1..Len(rows'[x])
                      /\ \A i \in DOMAIN rows[x] : i \in DOMAIN rows'[x] /\ rows'[x][i] = rows[x][i]
    OBVIOUS
  <2>1. rows[x] \in Seq(Nat) /\ rows'[x] \in Seq(Nat)
    BY <1>2 DEF FeedInv, FeedTypes, FeedRows
  <2>2. /\ Len(rows[x]) \in Nat /\ DOMAIN rows[x] = 1..Len(rows[x])
        /\ Len(rows'[x]) \in Nat /\ DOMAIN rows'[x] = 1..Len(rows'[x])
    BY <2>1, LenProperties
  <2>3. CASE x = s
    BY <1>2, <2>1, <2>2, <2>3
  <2>4. CASE x # s
    BY <1>2, <2>1, <2>2, <2>4
  <2> QED BY <2>3, <2>4
<1>4. FeedTypes'
  <2>1. cleared' \subseteq DOMAIN rows'["error"]
    BY <1>1, <1>3 DEF FeedInv, FeedTypes, FeedRows, Sources
  <2>2. \A x \in Sources : cursor'[x] \in Nat /\ cursor'[x] <= Len(rows'[x])
    BY <1>1, <1>3 DEF FeedInv, FeedTypes
  <2>3. stamped' \in [Writers -> [source : Sources \cup {"none"}, at : Nat]]
    BY <1>1 DEF FeedInv, FeedTypes, FeedRows, NoRow
  <2> QED BY <1>1, <1>2, <2>1, <2>2, <2>3 DEF FeedInv, FeedTypes, FeedRows
<1>5. StampsGrow'
  <2>1. \A v \in Writers : stamped'[v] # NoRow => stamped'[v] = stamped[v] /\ v # w
    BY <1>1 DEF FeedInv, FeedTypes, FeedRows
  <2>2. stamped'["worker"].source = "codex" => stamped'["worker"] = stamped["worker"] /\ w # "worker"
    BY <1>1 DEF FeedInv, FeedTypes, FeedRows, Writers, NoRow
  <2>3. CASE s # "codex"
    <3>1. rows'["codex"] = rows["codex"]
      BY <1>2, <2>3 DEF Sources
    <3> QED BY <1>1, <2>1, <2>2, <3>1 DEF FeedInv, StampsGrow
  <2>4. CASE s = "codex"
    <3>1. w = "worker" /\ stamped'["worker"].source # "codex"
      BY <1>1, <2>2, <2>4
    <3>2. \A i \in DOMAIN rows["codex"] : rows["codex"][i] <= at /\ rows["codex"][i] <= clock
      BY <2>4, <3>1 DEF FeedInv, StampsGrow
    <3>3. \A i, j \in DOMAIN rows["codex"] : i <= j => rows["codex"][i] <= rows["codex"][j]
      BY DEF FeedInv, StampsGrow
    <3>4. DOMAIN rows'["codex"] = DOMAIN rows["codex"] \cup {Len(rows["codex"]) + 1}
      BY <1>2, <1>3, <2>4 DEF Sources
    <3>5. \A i \in DOMAIN rows'["codex"] : rows'["codex"][i] <= clock
      BY <1>1, <1>2, <2>4, <3>2, <3>4
    <3>6. \A i, j \in DOMAIN rows'["codex"] : i <= j => rows'["codex"][i] <= rows'["codex"][j]
      BY <1>1, <1>2, <1>3, <2>4, <3>2, <3>3, <3>4
    <3> QED BY <1>1, <2>1, <3>1, <3>5, <3>6 DEF FeedInv, StampsGrow
  <2> QED BY <2>3, <2>4
<1>6. \A k \in DOMAIN page : page[k].source \in Sources /\ page[k].id \in Nat
  BY EventsOfPage DEF FeedInv
<1>7. PageIsSorted'
  BY <1>1, <1>3, <1>6 DEF FeedInv, PageIsSorted
<1>8. \A x \in Sources : \A i \in Nat : Settled(x, i) /\ i \in DOMAIN rows[x] => Settled(x, i)'
  <2> SUFFICES ASSUME NEW x \in Sources, NEW i \in DOMAIN rows[x], Overtaken(x, i)
               PROVE  Overtaken(x, i)'
    BY <1>1 DEF Settled
  <2> QED BY <1>3 DEF Overtaken
<1>9. CursorsAreRight'
  <2>1. \A x \in Sources : \A i \in 1..cursor[x] : i \in Nat /\ i \in DOMAIN rows[x]
    BY <1>3 DEF FeedInv, FeedTypes
  <2> QED BY <1>1, <1>8, <2>1 DEF FeedInv, CursorsAreRight
<1>10. PageIsWhole'
  <2>1. \A k \in DOMAIN page : \A i \in 1..page[k].id : i \in Nat /\ i \in DOMAIN rows[page[k].source]
    BY <1>3, <1>6 DEF FeedInv, PageIsSorted
  <2> QED BY <1>1, <1>6, <1>8, <2>1 DEF FeedInv, PageIsWhole, OnPage
<1>11. TranscriptIsSeen'
  BY <1>1 DEF FeedInv, TranscriptIsSeen, TranscriptInOrder
<1> QED BY <1>4, <1>5, <1>7, <1>9, <1>10, <1>11 DEF FeedInv

(* A cleared error is settled; a new stream begins before the first rows. *)
LEMMA OthersKeepFeed ==
    ASSUME FeedInv, ClearErrors \/ Connect \/ BreakOff
    PROVE  FeedInv'
<1>1. CASE ClearErrors
  <2>1. UNCHANGED <<clock, stamped, rows, cursor, page, seen, transcript>> /\ cleared \subseteq cleared'
        /\ cleared' = DOMAIN rows["error"]
    BY <1>1 DEF ClearErrors, FeedInv, FeedTypes, FeedRows
  <2>2. \A x \in Sources : \A i \in Nat : Settled(x, i) => Settled(x, i)'
    BY <2>1 DEF Settled, Overtaken
  <2>3. \A k \in DOMAIN page : page[k].source \in Sources /\ page[k].id \in Nat
    BY EventsOfPage DEF FeedInv
  <2>4. CursorsAreRight' /\ PageIsWhole'
    BY <2>1, <2>2, <2>3 DEF FeedInv, FeedTypes, CursorsAreRight, PageIsWhole, OnPage
  <2> QED BY <2>1, <2>4 DEF FeedInv, FeedTypes, FeedRows, StampsGrow, PageIsSorted, TranscriptIsSeen, TranscriptInOrder
<1>2. CASE Connect
  <2>1. UNCHANGED <<clock, stamped, rows, cleared, seen, transcript>>
        /\ cursor' = [s \in Sources |-> 0] /\ page' = <<>>
    BY <1>2 DEF Connect, tables
  <2>2. FeedTypes'
    BY <2>1 DEF FeedInv, FeedTypes, FeedRows
  <2>3. CursorsAreRight' /\ PageIsWhole' /\ PageIsSorted'
    BY <2>1 DEF CursorsAreRight, PageIsWhole, PageIsSorted
  <2> QED BY <2>1, <2>2, <2>3 DEF FeedInv, StampsGrow, TranscriptIsSeen, TranscriptInOrder
<1>3. CASE BreakOff
  <2>1. UNCHANGED <<clock, stamped, rows, cleared, cursor, page, seen, transcript>>
    BY <1>3 DEF BreakOff, tables
  <2>2. FeedTypes' /\ StampsGrow'
    BY <2>1 DEF FeedInv, FeedTypes, FeedRows, StampsGrow
  <2>3. PageIsSorted' /\ TranscriptIsSeen'
    BY <2>1 DEF FeedInv, PageIsSorted, TranscriptIsSeen, TranscriptInOrder
  <2>4. CursorsAreRight' /\ PageIsWhole'
    BY <2>1 DEF FeedInv, CursorsAreRight, PageIsWhole, Settled, Overtaken, OnPage
  <2> QED BY <2>2, <2>3, <2>4 DEF FeedInv
<1> QED BY <1>1, <1>2, <1>3

(* What is not on the new page and has a smaller number than what is on it was cleared *)
(* or is overtaken.                                                                    *)
LEMMA PollKeepsFeed == ASSUME FeedInv, Poll PROVE FeedInv'
<1>1. UNCHANGED <<clock, stamped, rows, cleared, cursor, seen, transcript>> /\ page' = Snapshot
  BY DEF Poll, tables
<1>2. FeedTypes
  BY DEF FeedInv
<1>3. /\ page' \in Seq(Event)
      /\ \A k \in DOMAIN page' : page'[k] \in Pending
      /\ \A j, k \in DOMAIN page' : j < k => Earlier(page'[j], page'[k])
      /\ \A k \in DOMAIN page', e \in Pending :
            Earlier(e, page'[k]) => \E j \in DOMAIN page' : page'[j] = e
  BY <1>1, <1>2, SnapshotIs
<1>4. ASSUME NEW e \in Pending
      PROVE  /\ e \in Event /\ e.source \in Sources
             /\ e.id \in DOMAIN rows[e.source] /\ e.at = rows[e.source][e.id]
             /\ \A i \in 1..e.id : i > cursor[e.source] /\ (e.source = "error" => i \notin cleared) =>
                  [source |-> e.source, id |-> i, at |-> rows[e.source][i]] \in Pending
  <2>1. PICK s \in Sources : e \in After(s)
    BY DEF Pending
  <2>2. e.source = s
    BY <1>2, <2>1, AfterIs
  <2> QED BY <1>2, <2>1, <2>2, AfterIs DEF Pending
<1>5. PageIsSorted'
  BY <1>1, <1>3, <1>4 DEF PageIsSorted, Earlier
<1>6. PageIsWhole'
  <2> SUFFICES ASSUME NEW k \in DOMAIN page', NEW i \in 1..page'[k].id
               PROVE  LET s == page'[k].source IN
                      \/ i <= cursor[s]
                      \/ <<s, i>> \in seen \/ (s = "error" /\ i \in cleared)
                      \/ Overtaken(s, i)
                      \/ \E j \in DOMAIN page' : page'[j].source = s /\ page'[j].id = i
    BY <1>1 DEF PageIsWhole, Settled, Overtaken, OnPage
  <2> DEFINE e == page'[k]
             s == e.source
             f == [source |-> s, id |-> i, at |-> rows[s][i]]
  <2> SUFFICES ASSUME i > cursor[s], s = "error" => i \notin cleared
               PROVE  Overtaken(s, i) \/ \E j \in DOMAIN page' : page'[j].source = s /\ page'[j].id = i
    <3>1. cursor[s] \in Nat /\ i \in Nat
      BY <1>2, <1>3, <1>4 DEF FeedTypes, Event
    <3> QED BY <3>1
  <2>1. f \in Pending
    BY <1>3, <1>4
  <2>2. e \in Event /\ f \in Event /\ s \in Sources /\ e.id \in DOMAIN rows[s] /\ e.at = rows[s][e.id]
    BY <1>3, <1>4, <2>1
  <2>3. CASE e = f \/ Earlier(f, e)
    <3>1. \E j \in DOMAIN page' : page'[j] = f
      BY <1>3, <2>1, <2>3
    <3> QED BY <3>1
  <2>4. CASE Earlier(e, f) /\ e # f
    <3>1. i \in Nat /\ e.id \in Nat /\ i < e.id /\ e.at \in Nat /\ f.at \in Nat
      BY <2>2, <2>4 DEF Event
    <3>2. e.at < f.at
      BY <2>2, <2>4, <3>1 DEF Earlier, Sources, Name
    <3>3. s # "codex"
      <4>1. s = "codex" => i \in DOMAIN rows["codex"] /\ rows["codex"][i] <= rows["codex"][e.id]
        BY <1>2, <2>2, <3>1 DEF FeedInv, StampsGrow, FeedTypes, FeedRows, Sources
      <4> QED BY <2>2, <3>1, <3>2, <4>1
    <3> QED BY <2>2, <3>1, <3>2, <3>3 DEF Overtaken
  <2> QED BY <2>2, <2>3, <2>4, EarlierIsAnOrder
<1>7. FeedTypes'
  BY <1>1, <1>2, <1>3 DEF FeedTypes, FeedRows, Event
<1> QED BY <1>1, <1>5, <1>6, <1>7 DEF FeedInv, StampsGrow, CursorsAreRight, TranscriptIsSeen, TranscriptInOrder,
                                  Settled, Overtaken

(* The event that is shown is the first of the page: what it leaves behind its cursor is  *)
(* settled, or comes later on the page and so is overtaken; of Codex it is the next one.  *)
LEMMA ShowKeepsFeed == ASSUME FeedInv, Show PROVE FeedInv'
<1> SUFFICES ASSUME NEW e, NEW s, e = Head(page), s = e.source PROVE FeedInv'
  OBVIOUS
<1>1. FeedTypes /\ PageIsSorted /\ CursorsAreRight /\ PageIsWhole /\ TranscriptIsSeen
  BY DEF FeedInv
<1>2. /\ UNCHANGED <<clock, stamped, rows, cleared>> /\ page # <<>> /\ page' = Tail(page)
      /\ cursor' = Advanced(e)
      /\ seen' = IF IsNew(e) THEN seen \cup {<<s, e.id>>} ELSE seen
      /\ transcript' = IF IsNew(e) /\ s = "codex" THEN Append(transcript, e.id) ELSE transcript
  BY DEF Show, tables
<1>3. /\ page \in Seq(Event) /\ Len(page) \in Nat /\ DOMAIN page = 1..Len(page) /\ Len(page) # 0
      /\ \A k \in DOMAIN page : /\ page[k] \in Event /\ page[k].source \in Sources
                                /\ page[k].id \in Nat /\ page[k].at \in Nat
  BY <1>1, <1>2, EventsOfPage, EmptySeq DEF FeedTypes
<1>4. /\ e = page[1] /\ 1 \in DOMAIN page
      /\ page' \in Seq(Event) /\ DOMAIN page' = 1..(Len(page) - 1)
      /\ \A k \in DOMAIN page' : k + 1 \in DOMAIN page /\ page'[k] = page[k + 1]
  BY <1>2, <1>3, HeadTailProperties
<1>5. /\ s \in Sources /\ e.id \in Nat /\ e.at \in Nat
      /\ e.id \in DOMAIN rows[s] /\ e.at = rows[s][e.id]
  BY <1>1, <1>3, <1>4 DEF PageIsSorted
<1>6. \A x \in Sources : /\ rows[x] \in Seq(Nat) /\ Len(rows[x]) \in Nat /\ DOMAIN rows[x] = 1..Len(rows[x])
                         /\ cursor[x] \in Nat /\ cursor[x] <= Len(rows[x])
  BY <1>1, LenProperties DEF FeedTypes, FeedRows
<1>7. /\ cursor' \in [Sources -> Nat]
      /\ \A x \in Sources \ {s} : cursor'[x] = cursor[x]
      /\ cursor'[s] \in {cursor[s], e.id} /\ cursor'[s] >= cursor[s] /\ cursor'[s] >= e.id
  <2>1. cursor' = [cursor EXCEPT ![s] = Max({cursor[s], e.id})] /\ cursor \in [Sources -> Nat]
    BY <1>1, <1>2 DEF Advanced, FeedTypes
  <2>2. /\ Max({cursor[s], e.id}) \in Nat /\ Max({cursor[s], e.id}) \in {cursor[s], e.id}
        /\ Max({cursor[s], e.id}) >= cursor[s] /\ Max({cursor[s], e.id}) >= e.id
    BY <1>5, <1>6, Larger
  <2> QED BY <1>5, <2>1, <2>2
<1>8. <<s, e.id>> \in seen' /\ seen \subseteq seen'
  BY <1>2 DEF IsNew
<1>9. \A x \in Sources : \A i \in Nat : Settled(x, i) => Settled(x, i)'
  BY <1>2, <1>8 DEF Settled, Overtaken
\* What comes later on the page with a smaller number is overtaken.
<1>10. ASSUME NEW k \in DOMAIN page, k # 1, page[k].source = s, page[k].id <= e.id
       PROVE  Overtaken(s, page[k].id)
  <2>1. Earlier(e, page[k]) /\ page[k].at = rows[s][page[k].id] /\ page[k].id \in DOMAIN rows[s]
    BY <1>1, <1>3, <1>4, <1>10 DEF PageIsSorted
  <2>2. e.at < page[k].at /\ page[k].id < e.id
    <3>1. Name[s] \in Nat
      BY <1>5 DEF Name, Sources
    <3> QED BY <1>3, <1>5, <1>10, <2>1, <3>1 DEF Earlier
  <2>3. s # "codex"
    <3>1. s = "codex" => rows["codex"][page[k].id] <= rows["codex"][e.id]
      BY <1>3, <1>5, <2>1, <2>2 DEF FeedInv, StampsGrow
    <3> QED BY <1>3, <1>5, <2>1, <2>2, <3>1
  <2> QED BY <1>5, <2>1, <2>2, <2>3 DEF Overtaken
\* So everything up to the event is settled once it was shown.
<1>11. \A i \in 1..e.id : Settled(s, i)'
  <2> SUFFICES ASSUME NEW i \in 1..e.id PROVE Settled(s, i)'
    OBVIOUS
  <2>1. i \in Nat /\ i >= 1
    BY <1>5
  <2>2. i <= cursor[s] \/ Settled(s, i) \/ OnPage(s, i)
    BY <1>1, <1>4 DEF PageIsWhole
  <2>3. CASE i <= cursor[s]
    <3>1. i \in 1..cursor[s]
      BY <1>5, <1>6, <2>1, <2>3
    <3>2. Settled(s, i)
      BY <1>1, <1>5, <3>1 DEF CursorsAreRight
    <3> QED BY <1>5, <1>9, <2>1, <3>2
  <2>4. CASE OnPage(s, i)
    <3>1. PICK k \in DOMAIN page : page[k].source = s /\ page[k].id = i
      BY <2>4 DEF OnPage
    <3>2. CASE k = 1
      BY <1>4, <1>8, <3>1, <3>2 DEF Settled
    <3>3. CASE k # 1
      BY <1>5, <1>9, <1>10, <2>1, <3>1, <3>3 DEF Settled
    <3> QED BY <3>2, <3>3
  <2> QED BY <1>5, <1>9, <2>1, <2>2, <2>3, <2>4
<1>12. CursorsAreRight'
  <2> SUFFICES ASSUME NEW x \in Sources, NEW i \in 1..cursor'[x] PROVE Settled(x, i)'
    BY DEF CursorsAreRight
  <2>1. i \in Nat
    OBVIOUS
  <2>2. CASE x = s /\ i <= e.id
    BY <1>11, <2>1, <2>2
  <2>3. CASE i <= cursor[x]
    BY <1>1, <1>6, <1>9, <2>1, <2>3 DEF CursorsAreRight
  <2> QED BY <1>5, <1>6, <1>7, <2>1, <2>2, <2>3
<1>13. PageIsSorted'
  <2>1. \A k \in DOMAIN page' : page'[k].id \in DOMAIN rows'[page'[k].source] /\ page'[k].at = rows'[page'[k].source][page'[k].id]
    BY <1>1, <1>2, <1>4 DEF PageIsSorted
  <2>2. \A j, k \in DOMAIN page' : j < k => j + 1 < k + 1
    BY <1>3, <1>4
  <2>3. \A j, k \in DOMAIN page' : j < k => Earlier(page'[j], page'[k])
    BY <1>1, <1>4, <2>2 DEF PageIsSorted
  <2> QED BY <2>1, <2>3 DEF PageIsSorted, Earlier
<1>14. PageIsWhole'
  <2> SUFFICES ASSUME NEW k \in DOMAIN page, k # 1, NEW x, x = page[k].source, NEW i \in 1..page[k].id
               PROVE  i <= cursor'[x] \/ Settled(x, i)' \/ OnPage(x, i)'
    <3>1. \A k \in DOMAIN page' : k + 1 \in DOMAIN page /\ k + 1 # 1 /\ page'[k] = page[k + 1]
      BY <1>3, <1>4
    <3> QED BY <3>1 DEF PageIsWhole, OnPage, Settled, Overtaken
  <2>1. i \in Nat /\ x \in Sources
    BY <1>3
  <2>2. i <= cursor[x] \/ Settled(x, i) \/ OnPage(x, i)
    BY <1>1 DEF PageIsWhole
  <2>3. CASE i <= cursor[x]
    BY <1>6, <1>7, <2>1, <2>3
  <2>4. CASE OnPage(x, i)
    <3>1. PICK j \in DOMAIN page : page[j].source = x /\ page[j].id = i
      BY <2>4 DEF OnPage
    <3>2. CASE j = 1
      BY <1>4, <1>8, <3>1, <3>2 DEF Settled
    <3>3. CASE j # 1
      <4>1. j - 1 \in DOMAIN page' /\ page'[j - 1] = page[j]
        BY <1>3, <1>4, <3>3
      <4> QED BY <3>1, <4>1 DEF OnPage
    <3> QED BY <3>2, <3>3
  <2> QED BY <1>9, <2>1, <2>2, <2>3, <2>4
<1>15. /\ transcript \in Seq(Nat) /\ Len(transcript) \in Nat /\ DOMAIN transcript = 1..Len(transcript)
       /\ transcript = [i \in 1..Len(transcript) |-> i]
       /\ \A i \in Nat : <<"codex", i>> \in seen <=> i \in 1..Len(transcript)
  BY <1>1, LenProperties DEF FeedTypes, TranscriptIsSeen, TranscriptInOrder
\* All of Codex before the event was shown: nothing of Codex is cleared or overtaken.
<1>16. s = "codex" => \A i \in 1..e.id : i # e.id => i \in 1..Len(transcript)
  <2> SUFFICES ASSUME s = "codex", NEW i \in 1..e.id, i # e.id
               PROVE  <<"codex", i>> \in seen
    <3>1. \A i \in 1..e.id : i \in Nat
      BY <1>5
    <3> QED BY <1>15, <3>1
  <2>1. <<"codex", i>> \in seen'
    BY <1>11 DEF Settled, Overtaken
  <2> QED BY <1>2, <2>1
<1>17. transcript' \in Seq(Nat) /\ TranscriptIsSeen'
  <2>1. CASE ~(IsNew(e) /\ s = "codex")
    <3>1. transcript' = transcript /\ \A i \in Nat : <<"codex", i>> \in seen' <=> <<"codex", i>> \in seen
      BY <1>2, <2>1
    <3> QED BY <1>15, <3>1 DEF TranscriptIsSeen, TranscriptInOrder
  <2>2. CASE IsNew(e) /\ s = "codex"
    <3>1. e.id \notin 1..Len(transcript) /\ e.id # 0
      BY <1>5, <1>6, <1>15, <2>2 DEF IsNew
    <3>2. e.id = Len(transcript) + 1
      <4>1. e.id > Len(transcript)
        BY <1>5, <1>15, <3>1
      <4>2. ASSUME e.id # Len(transcript) + 1 PROVE FALSE
        <5>1. Len(transcript) + 1 \in 1..e.id
          BY <1>5, <1>15, <4>1
        <5>2. Len(transcript) + 1 \in 1..Len(transcript)
          BY <1>16, <2>2, <4>2, <5>1
        <5> QED BY <1>15, <5>2
      <4> QED BY <4>2
    <3>3. transcript' = Append(transcript, e.id) /\ seen' = seen \cup {<<"codex", e.id>>}
      BY <1>2, <2>2
    <3>4. /\ transcript' \in Seq(Nat) /\ Len(transcript') = Len(transcript) + 1
          /\ transcript'[Len(transcript) + 1] = e.id
          /\ \A i \in 1..Len(transcript) : transcript'[i] = transcript[i]
      BY <1>5, <1>15, <3>3, AppendProperties
    <3>5. DOMAIN transcript' = 1..Len(transcript') /\ Len(transcript') \in Nat
      BY <3>4, LenProperties
    <3>6. \A i \in 1..Len(transcript') : transcript'[i] = i
      BY <1>15, <3>2, <3>4
    <3>7. transcript' = [i \in 1..Len(transcript') |-> i]
      BY <3>4, <3>5, <3>6
    <3>8. \A i \in Nat : <<"codex", i>> \in seen' <=> i \in 1..Len(transcript')
      <4>1. \A i \in Nat : <<"codex", i>> \in seen' <=> <<"codex", i>> \in seen \/ i = e.id
        BY <3>3
      <4>2. \A i \in Nat : i \in 1..Len(transcript') <=> i \in 1..Len(transcript) \/ i = e.id
        BY <1>15, <3>2, <3>4
      <4> QED BY <1>15, <4>1, <4>2
    <3> QED BY <3>4, <3>7, <3>8 DEF TranscriptIsSeen, TranscriptInOrder
  <2> QED BY <2>1, <2>2
<1>18. FeedTypes'
  <2>1. \A x \in Sources : cursor'[x] <= Len(rows'[x])
    <3>1. e.id <= Len(rows[s])
      BY <1>5, <1>6
    <3>2. cursor'[s] <= Len(rows[s])
      BY <1>5, <1>6, <1>7, <3>1
    <3>3. \A x \in Sources \ {s} : cursor'[x] <= Len(rows[x])
      BY <1>6, <1>7
    <3> QED BY <1>2, <3>2, <3>3
  <2> QED BY <1>1, <1>2, <1>4, <1>7, <1>17, <2>1 DEF FeedTypes, FeedRows
<1> QED BY <1>2, <1>12, <1>13, <1>14, <1>17, <1>18 DEF FeedInv, StampsGrow

LEMMA FeedKeeps == FeedInv /\ [FeedNext]_feedVars => FeedInv'
<1> SUFFICES ASSUME FeedInv, [FeedNext]_feedVars PROVE FeedInv'
  OBVIOUS
<1>1. CASE UNCHANGED feedVars
  <2>1. FeedTypes' /\ StampsGrow'
    BY <1>1 DEF feedVars, FeedInv, FeedTypes, FeedRows, StampsGrow
  <2>2. PageIsSorted' /\ TranscriptIsSeen'
    BY <1>1 DEF feedVars, FeedInv, PageIsSorted, TranscriptIsSeen, TranscriptInOrder
  <2>3. CursorsAreRight' /\ PageIsWhole'
    BY <1>1 DEF feedVars, FeedInv, CursorsAreRight, PageIsWhole, Settled, Overtaken, OnPage
  <2> QED BY <2>1, <2>2, <2>3 DEF FeedInv
<1>2. CASE FeedNext
  BY <1>2, StampKeepsFeed, InsertKeepsFeed, OthersKeepFeed, PollKeepsFeed, ShowKeepsFeed DEF FeedNext
<1> QED BY <1>1, <1>2

(* The live feed skips none of Codex's output, and nothing else but what was cleared or  *)
(* overtaken, for any number of rows, pages of any size, and connections that break at   *)
(* any time (attempt_live_events, _attempt_event_stream).                                *)
THEOREM FeedSkipsNothing == FeedSpec => []NothingSkipped
<1>1. FeedInv => NothingSkipped
  <2> SUFFICES ASSUME FeedInv, NEW s \in Sources, NEW i \in 1..cursor[s], Settled(s, i)
               PROVE  \/ <<s, i>> \in seen
                      \/ s = "error" /\ i \in cleared
                      \/ s # "codex" /\ \E j \in DOMAIN rows[s] : j > i /\ rows[s][j] < rows[s][i]
    BY DEF FeedInv, CursorsAreRight, NothingSkipped
  <2> QED BY DEF Settled, Overtaken
<1> QED BY <1>1, FeedBegins, FeedKeeps, PTL DEF FeedSpec

(* The transcript on the page is the output of Codex, in order, without gaps and without *)
(* repetitions, over pages and connections (appendLiveOutput).                           *)
THEOREM TranscriptStaysInOrder == FeedSpec => []TranscriptInOrder
<1>1. FeedInv => TranscriptInOrder
  BY DEF FeedInv, TranscriptIsSeen
<1> QED BY <1>1, FeedBegins, FeedKeeps, PTL DEF FeedSpec

-----------------------------------------------------------------------------
(***************************************************************************)
(* PullRequestRounds: there is always a move, and a follow-up is fresh     *)
(***************************************************************************)

Automatics ==
    {"claim_issue", "find_issue_pull_requests", "allocate_workspace", "run_setup", "research_issue", "fix_issue",
     "check_pr_ci", "check_pr_comments", "check_pr_mergeability",
     "fetch_ci_failure_context", "skip_ci_failure_context", "address_pr_feedback", "wait_existing_pr",
     "request_review", "auto_create_draft_pr", "wait_created_pr",
     "cleanup_after_merge", "refresh_pr_ci", "refresh_pr_comments", "refresh_pr_mergeability"}
Gates == {"push_pr_feedback_fix", "post_answer", "create_draft_pr", "mark_blocked", "check_pr_again"}

(* The fields of a transition that the proofs use. *)
Row(m, from, to, action, human, group, pos, neg) ==
    /\ m \in Transition
    /\ Def[m].from = from /\ Def[m].to = to /\ Def[m].action = action
    /\ Def[m].human = human /\ Def[m].group = group /\ Def[m].pos = pos /\ Def[m].neg = neg

LEMMA Names == Transition = Automatics \cup Gates
BY DEF Transition, UpToCodex, FirstChecks, FollowUp, Review, Again, Automatics, Gates

LEMMA Tables ==
    /\ \A m \in DOMAIN UpToCodex : Def[m] = UpToCodex[m]
    /\ \A m \in DOMAIN FirstChecks : Def[m] = FirstChecks[m]
    /\ \A m \in DOMAIN FollowUp : Def[m] = FollowUp[m]
    /\ \A m \in DOMAIN Review : Def[m] = Review[m]
    /\ \A m \in DOMAIN Again : Def[m] = Again[m]
<1>1. DOMAIN UpToCodex = {"claim_issue", "find_issue_pull_requests", "allocate_workspace", "run_setup", "research_issue", "fix_issue"}
  BY DEF UpToCodex
<1>2. DOMAIN FirstChecks = {"check_pr_ci", "check_pr_comments", "check_pr_mergeability"}
  BY DEF FirstChecks
<1>3. DOMAIN FollowUp = {"fetch_ci_failure_context", "skip_ci_failure_context", "address_pr_feedback", "push_pr_feedback_fix", "wait_existing_pr"}
  BY DEF FollowUp
<1>4. DOMAIN Review = {"request_review", "post_answer", "auto_create_draft_pr", "create_draft_pr", "wait_created_pr", "mark_blocked"}
  BY DEF Review
<1>5. DOMAIN Again = {"check_pr_again", "cleanup_after_merge", "refresh_pr_ci", "refresh_pr_comments", "refresh_pr_mergeability"}
  BY DEF Again
<1> QED BY <1>1, <1>2, <1>3, <1>4, <1>5 DEF Def, Transition

LEMMA Rows ==
    /\ Row("claim_issue", "todo", "claimed", "labels", FALSE, "none", {}, {})
    /\ Row("find_issue_pull_requests", "claimed", "associated_pr_checked", "find", FALSE, "none", {}, {})
    /\ Row("allocate_workspace", "associated_pr_checked", "workspace_ready", "allocate", FALSE, "none", {}, {})
    /\ Row("run_setup", "workspace_ready", "setup_complete", "setup", FALSE, "none", {}, {})
    /\ Row("research_issue", "setup_complete", "worker_complete", "codex", FALSE, "none", {"research"}, {"exists"})
    /\ Row("fix_issue", "setup_complete", "worker_complete", "codex", FALSE, "none", {"code"}, {"exists"})
    /\ Row("check_pr_ci", "setup_complete", "pr_checks_complete", "ci", FALSE, "initial_pr_checks", {"exists"}, {})
    /\ Row("check_pr_comments", "setup_complete", "pr_checks_complete", "comments", FALSE, "initial_pr_checks", {"exists"}, {})
    /\ Row("check_pr_mergeability", "setup_complete", "pr_checks_complete", "mergeability", FALSE, "initial_pr_checks", {"exists"}, {})
    /\ Row("fetch_ci_failure_context", "pr_checks_complete", "pr_feedback_context_ready", "context", FALSE, "none", {"failures"}, {})
    /\ Row("skip_ci_failure_context", "pr_checks_complete", "pr_feedback_context_ready", "noop", FALSE, "none", {}, {"failures"})
    /\ Row("address_pr_feedback", "pr_feedback_context_ready", "pr_follow_up_complete", "address", FALSE, "none", {"followup"}, {})
    /\ Row("push_pr_feedback_fix", "pr_follow_up_complete", "pr_waiting", "push", TRUE, "none", {}, {})
    /\ Row("wait_existing_pr", "pr_feedback_context_ready", "pr_waiting", "noop", FALSE, "none", {}, {"followup"})
    /\ Row("request_review", "worker_complete", "review", "labels", FALSE, "none", {"research"}, {})
    /\ Row("post_answer", "review", "done", "comment", TRUE, "none", {"research"}, {})
    /\ Row("auto_create_draft_pr", "worker_complete", "pr_ready", "create", FALSE, "none", {"code"}, {})
    /\ Row("create_draft_pr", "review", "pr_ready", "create", TRUE, "none", {"code"}, {})
    /\ Row("wait_created_pr", "pr_ready", "pr_waiting", "noop", FALSE, "none", {}, {})
    /\ Row("mark_blocked", "review", "blocked", "labels", TRUE, "none", {}, {})
    /\ Row("check_pr_again", "pr_waiting", "pr_refreshed", "fetch", TRUE, "none", {}, {})
    /\ Row("cleanup_after_merge", "pr_refreshed", "done", "cleanup", FALSE, "none", {"merged"}, {})
    /\ Row("refresh_pr_ci", "pr_refreshed", "pr_checks_complete", "ci", FALSE, "refreshed_pr_checks", {}, {"merged"})
    /\ Row("refresh_pr_comments", "pr_refreshed", "pr_checks_complete", "comments", FALSE, "refreshed_pr_checks", {}, {"merged"})
    /\ Row("refresh_pr_mergeability", "pr_refreshed", "pr_checks_complete", "mergeability", FALSE, "refreshed_pr_checks", {}, {"merged"})
<1>1. /\ Row("claim_issue", "todo", "claimed", "labels", FALSE, "none", {}, {})
      /\ Row("find_issue_pull_requests", "claimed", "associated_pr_checked", "find", FALSE, "none", {}, {})
      /\ Row("allocate_workspace", "associated_pr_checked", "workspace_ready", "allocate", FALSE, "none", {}, {})
      /\ Row("run_setup", "workspace_ready", "setup_complete", "setup", FALSE, "none", {}, {})
      /\ Row("research_issue", "setup_complete", "worker_complete", "codex", FALSE, "none", {"research"}, {"exists"})
      /\ Row("fix_issue", "setup_complete", "worker_complete", "codex", FALSE, "none", {"code"}, {"exists"})
  BY Tables, Names DEF UpToCodex, Row, Automatics, Gates, Step, Gate, Check, Initial, Refreshed
<1>2. /\ Row("check_pr_ci", "setup_complete", "pr_checks_complete", "ci", FALSE, "initial_pr_checks", {"exists"}, {})
      /\ Row("check_pr_comments", "setup_complete", "pr_checks_complete", "comments", FALSE, "initial_pr_checks", {"exists"}, {})
      /\ Row("check_pr_mergeability", "setup_complete", "pr_checks_complete", "mergeability", FALSE, "initial_pr_checks", {"exists"}, {})
  BY Tables, Names DEF FirstChecks, Row, Automatics, Gates, Step, Gate, Check, Initial, Refreshed
<1>3. /\ Row("fetch_ci_failure_context", "pr_checks_complete", "pr_feedback_context_ready", "context", FALSE, "none", {"failures"}, {})
      /\ Row("skip_ci_failure_context", "pr_checks_complete", "pr_feedback_context_ready", "noop", FALSE, "none", {}, {"failures"})
      /\ Row("address_pr_feedback", "pr_feedback_context_ready", "pr_follow_up_complete", "address", FALSE, "none", {"followup"}, {})
      /\ Row("push_pr_feedback_fix", "pr_follow_up_complete", "pr_waiting", "push", TRUE, "none", {}, {})
      /\ Row("wait_existing_pr", "pr_feedback_context_ready", "pr_waiting", "noop", FALSE, "none", {}, {"followup"})
  BY Tables, Names DEF FollowUp, Row, Automatics, Gates, Step, Gate, Check, Initial, Refreshed
<1>4. /\ Row("request_review", "worker_complete", "review", "labels", FALSE, "none", {"research"}, {})
      /\ Row("post_answer", "review", "done", "comment", TRUE, "none", {"research"}, {})
      /\ Row("auto_create_draft_pr", "worker_complete", "pr_ready", "create", FALSE, "none", {"code"}, {})
      /\ Row("create_draft_pr", "review", "pr_ready", "create", TRUE, "none", {"code"}, {})
      /\ Row("wait_created_pr", "pr_ready", "pr_waiting", "noop", FALSE, "none", {}, {})
      /\ Row("mark_blocked", "review", "blocked", "labels", TRUE, "none", {}, {})
  <2>1. Row("create_draft_pr", "review", "pr_ready", "create", TRUE, "none", {"code"}, {})
    <3>1. Def["create_draft_pr"] = [Gate("review", "pr_ready", "create", {"code"}) EXCEPT !.limit = 2]
      BY Tables DEF Review
    <3> QED BY <3>1, Names DEF Row, Automatics, Gates, Step, Gate
  <2> QED BY <2>1, Tables, Names DEF Review, Row, Automatics, Gates, Step, Gate
<1>5. /\ Row("check_pr_again", "pr_waiting", "pr_refreshed", "fetch", TRUE, "none", {}, {})
      /\ Row("cleanup_after_merge", "pr_refreshed", "done", "cleanup", FALSE, "none", {"merged"}, {})
      /\ Row("refresh_pr_ci", "pr_refreshed", "pr_checks_complete", "ci", FALSE, "refreshed_pr_checks", {}, {"merged"})
      /\ Row("refresh_pr_comments", "pr_refreshed", "pr_checks_complete", "comments", FALSE, "refreshed_pr_checks", {}, {"merged"})
      /\ Row("refresh_pr_mergeability", "pr_refreshed", "pr_checks_complete", "mergeability", FALSE, "refreshed_pr_checks", {}, {"merged"})
  BY Tables, Names DEF Again, Row, Automatics, Gates, Step, Gate, Check, Initial, Refreshed
<1> QED BY <1>1, <1>2, <1>3, <1>4, <1>5

InitialChecks == {"check_pr_ci", "check_pr_comments", "check_pr_mergeability"}
RefreshedChecks == {"refresh_pr_ci", "refresh_pr_comments", "refresh_pr_mergeability"}
Ready == merged \/ art.merged

LEMMA Froms ==
    /\ Leaving["todo"] = {"claim_issue"}
    /\ Leaving["claimed"] = {"find_issue_pull_requests"}
    /\ Leaving["associated_pr_checked"] = {"allocate_workspace"}
    /\ Leaving["workspace_ready"] = {"run_setup"}
    /\ Leaving["setup_complete"] = {"research_issue", "fix_issue"} \cup InitialChecks
    /\ Leaving["worker_complete"] = {"request_review", "auto_create_draft_pr"}
    /\ Leaving["review"] = {"post_answer", "create_draft_pr", "mark_blocked"}
    /\ Leaving["pr_ready"] = {"wait_created_pr"}
    /\ Leaving["pr_refreshed"] = {"cleanup_after_merge"} \cup RefreshedChecks
    /\ Leaving["pr_checks_complete"] = {"fetch_ci_failure_context", "skip_ci_failure_context"}
    /\ Leaving["pr_feedback_context_ready"] = {"address_pr_feedback", "wait_existing_pr"}
    /\ Leaving["pr_follow_up_complete"] = {"push_pr_feedback_fix"}
    /\ Leaving["pr_waiting"] = {"check_pr_again"}
<1>1. /\ Def["claim_issue"].from = "todo" /\ Def["find_issue_pull_requests"].from = "claimed" /\ Def["allocate_workspace"].from = "associated_pr_checked" /\ Def["run_setup"].from = "workspace_ready" /\ Def["research_issue"].from = "setup_complete" /\ Def["fix_issue"].from = "setup_complete"
      /\ Def["check_pr_ci"].from = "setup_complete" /\ Def["check_pr_comments"].from = "setup_complete" /\ Def["check_pr_mergeability"].from = "setup_complete"
      /\ Def["fetch_ci_failure_context"].from = "pr_checks_complete" /\ Def["skip_ci_failure_context"].from = "pr_checks_complete" /\ Def["address_pr_feedback"].from = "pr_feedback_context_ready" /\ Def["push_pr_feedback_fix"].from = "pr_follow_up_complete" /\ Def["wait_existing_pr"].from = "pr_feedback_context_ready"
      /\ Def["request_review"].from = "worker_complete" /\ Def["post_answer"].from = "review" /\ Def["auto_create_draft_pr"].from = "worker_complete" /\ Def["create_draft_pr"].from = "review" /\ Def["wait_created_pr"].from = "pr_ready" /\ Def["mark_blocked"].from = "review"
      /\ Def["check_pr_again"].from = "pr_waiting" /\ Def["cleanup_after_merge"].from = "pr_refreshed" /\ Def["refresh_pr_ci"].from = "pr_refreshed" /\ Def["refresh_pr_comments"].from = "pr_refreshed" /\ Def["refresh_pr_mergeability"].from = "pr_refreshed"
  BY Rows DEF Row
<1>2. \A m \in Transition : m \in Automatics \cup Gates
  BY Names
<1>3. \A s \in State : Leaving[s] = {m \in Transition : Def[m].from = s}
  BY DEF Leaving
<1> USE <1>1, <1>2, <1>3 DEF State, Terminal, InitialChecks, RefreshedChecks, Automatics, Gates
<1>4. Leaving["todo"] = {"claim_issue"}
  BY Names
<1>5. Leaving["claimed"] = {"find_issue_pull_requests"}
  BY Names
<1>6. Leaving["associated_pr_checked"] = {"allocate_workspace"}
  BY Names
<1>7. Leaving["workspace_ready"] = {"run_setup"}
  BY Names
<1>8. Leaving["setup_complete"] = {"research_issue", "fix_issue"} \cup InitialChecks
  BY Names
<1>9. Leaving["worker_complete"] = {"request_review", "auto_create_draft_pr"}
  BY Names
<1>10. Leaving["review"] = {"post_answer", "create_draft_pr", "mark_blocked"}
  BY Names
<1>11. Leaving["pr_ready"] = {"wait_created_pr"}
  BY Names
<1>12. Leaving["pr_refreshed"] = {"cleanup_after_merge"} \cup RefreshedChecks
  BY Names
<1>13. Leaving["pr_checks_complete"] = {"fetch_ci_failure_context", "skip_ci_failure_context"}
  BY Names
<1>14. Leaving["pr_feedback_context_ready"] = {"address_pr_feedback", "wait_existing_pr"}
  BY Names
<1>15. Leaving["pr_follow_up_complete"] = {"push_pr_feedback_fix"}
  BY Names
<1>16. Leaving["pr_waiting"] = {"check_pr_again"}
  BY Names
<1> QED BY <1>4, <1>5, <1>6, <1>7, <1>8, <1>9, <1>10, <1>11, <1>12, <1>13, <1>14, <1>15, <1>16

LEMMA HoldsIs ==
    /\ Holds("code") <=> job.task = "code"
    /\ Holds("research") <=> job.task = "research"
    /\ Holds("exists") <=> art.exists
    /\ Holds("merged") <=> Ready
    /\ Holds("failures") <=> art.failures
    /\ Holds("followup") <=> FollowUpNeeded
BY DEF Holds, Ready

(* The transitions that the conditions allow, state by state. *)
LEMMA Conditions ==
    ASSUME job.task \in {"code", "research"}
    PROVE  /\ Conditioned("todo", FALSE) = {"claim_issue"}
           /\ Conditioned("claimed", FALSE) = {"find_issue_pull_requests"}
           /\ Conditioned("associated_pr_checked", FALSE) = {"allocate_workspace"}
           /\ Conditioned("workspace_ready", FALSE) = {"run_setup"}
           /\ Conditioned("setup_complete", FALSE) =
                IF art.exists THEN InitialChecks
                ELSE IF job.task = "code" THEN {"fix_issue"} ELSE {"research_issue"}
           /\ Conditioned("worker_complete", FALSE) =
                IF job.task = "code" THEN {"auto_create_draft_pr"} ELSE {"request_review"}
           /\ Conditioned("review", FALSE) = {}
           /\ "mark_blocked" \in Conditioned("review", TRUE)
           /\ Conditioned("pr_ready", FALSE) = {"wait_created_pr"}
           /\ Conditioned("pr_refreshed", FALSE) =
                IF Ready THEN {"cleanup_after_merge"} ELSE RefreshedChecks
           /\ Conditioned("pr_checks_complete", FALSE) =
                {IF art.failures THEN "fetch_ci_failure_context" ELSE "skip_ci_failure_context"}
           /\ Conditioned("pr_feedback_context_ready", FALSE) =
                {IF FollowUpNeeded THEN "address_pr_feedback" ELSE "wait_existing_pr"}
           /\ Conditioned("pr_follow_up_complete", FALSE) = {}
           /\ Conditioned("pr_follow_up_complete", TRUE) = {"push_pr_feedback_fix"}
           /\ Conditioned("pr_waiting", FALSE) = {}
           /\ Conditioned("pr_waiting", TRUE) = {"check_pr_again"}
<1> USE Rows, Froms, HoldsIs DEF Row, Conditioned, InitialChecks, RefreshedChecks
<1>1. Conditioned("todo", FALSE) = {"claim_issue"}
  OBVIOUS
<1>2. Conditioned("claimed", FALSE) = {"find_issue_pull_requests"}
  OBVIOUS
<1>3. Conditioned("associated_pr_checked", FALSE) = {"allocate_workspace"}
  OBVIOUS
<1>4. Conditioned("workspace_ready", FALSE) = {"run_setup"}
  OBVIOUS
<1>5. Conditioned("setup_complete", FALSE) =
        IF art.exists THEN InitialChecks
        ELSE IF job.task = "code" THEN {"fix_issue"} ELSE {"research_issue"}
  OBVIOUS
<1>6. Conditioned("worker_complete", FALSE) =
        IF job.task = "code" THEN {"auto_create_draft_pr"} ELSE {"request_review"}
  OBVIOUS
<1>7. Conditioned("review", FALSE) = {} /\ "mark_blocked" \in Conditioned("review", TRUE)
  OBVIOUS
<1>8. Conditioned("pr_ready", FALSE) = {"wait_created_pr"}
  OBVIOUS
<1>9. Conditioned("pr_refreshed", FALSE) =
        IF Ready THEN {"cleanup_after_merge"} ELSE RefreshedChecks
  OBVIOUS
<1>10. Conditioned("pr_checks_complete", FALSE) =
         {IF art.failures THEN "fetch_ci_failure_context" ELSE "skip_ci_failure_context"}
  OBVIOUS
<1>11. Conditioned("pr_feedback_context_ready", FALSE) =
         {IF FollowUpNeeded THEN "address_pr_feedback" ELSE "wait_existing_pr"}
  OBVIOUS
<1>12. /\ Conditioned("pr_follow_up_complete", FALSE) = {}
       /\ Conditioned("pr_follow_up_complete", TRUE) = {"push_pr_feedback_fix"}
  OBVIOUS
<1>13. /\ Conditioned("pr_waiting", FALSE) = {}
       /\ Conditioned("pr_waiting", TRUE) = {"check_pr_again"}
  OBVIOUS
<1> QED
  BY ONLY <1>1, <1>2, <1>3, <1>4, <1>5, <1>6, <1>7, <1>8, <1>9, <1>10, <1>11, <1>12, <1>13

LEMMA OneTransition ==
    ASSUME NEW m, Conditioned(state, FALSE) = {m}
    PROVE  Exhausted(state, FALSE) # {} \/ (Batch # {} /\ IsBatch(Batch))
<1>1. SUFFICES ASSUME Exhausted(state, FALSE) = {} PROVE Batch = {m}
  BY <1>1, FS_Singleton DEF IsBatch
<1> QED BY <1>1 DEF Batch, Matching

LEMMA OneGroup ==
    ASSUME NEW set, NEW group, set # {}, group # "none", Conditioned(state, FALSE) = set,
           \A m \in set : Def[m].group = group
    PROVE  Exhausted(state, FALSE) # {} \/ (Batch # {} /\ IsBatch(Batch))
<1>1. SUFFICES ASSUME Exhausted(state, FALSE) = {} PROVE Batch # {} /\ IsBatch(Batch)
  BY <1>1
<1>2. Batch = set
  BY <1>1 DEF Batch, Matching
<1>3. {Def[m].group : m \in set} = {group}
  OBVIOUS
<1> QED BY <1>2, <1>3, FS_Singleton DEF IsBatch

(* The definition is unambiguous: one transition, or one group, or the gates. *)
LEMMA MoveKinds ==
    ASSUME state \in State, state \notin Terminal, job.task \in {"code", "research"}
    PROVE  \/ \E m : Conditioned(state, FALSE) = {m}
           \/ state = "setup_complete" /\ art.exists /\ Conditioned(state, FALSE) = InitialChecks
           \/ state = "pr_refreshed" /\ ~Ready /\ Conditioned(state, FALSE) = RefreshedChecks
           \/ /\ state \in {"review", "pr_follow_up_complete", "pr_waiting"}
              /\ Conditioned(state, FALSE) = {} /\ Conditioned(state, TRUE) # {}
<1>1. CASE state \in {"todo", "claimed", "associated_pr_checked", "workspace_ready", "pr_ready"}
  BY <1>1, Conditions
<1>2. CASE state \in {"pr_checks_complete", "pr_feedback_context_ready", "worker_complete"}
  BY <1>2, Conditions
<1>3. CASE state \in {"setup_complete", "pr_refreshed"}
  BY <1>3, Conditions
<1>4. CASE state \in {"review", "pr_follow_up_complete", "pr_waiting"}
  BY <1>4, Conditions
<1> QED BY <1>1, <1>2, <1>3, <1>4 DEF State

LEMMA MovesExist ==
    ASSUME state \in State, job.task \in {"code", "research"}
    PROVE  AlwaysAMove
<1>1. SUFFICES ASSUME state \notin Terminal
               PROVE  \/ Exhausted(state, FALSE) # {}
                      \/ Batch # {} /\ IsBatch(Batch)
                      \/ Batch = {} /\ Conditioned(state, TRUE) # {}
  BY DEF AlwaysAMove
<1>2. CASE \E m : Conditioned(state, FALSE) = {m}
  BY <1>2, OneTransition
<1>3. CASE Conditioned(state, FALSE) \in {InitialChecks, RefreshedChecks}
  <2>1. \A m \in InitialChecks : Def[m].group = "initial_pr_checks"
    BY Rows DEF Row, InitialChecks
  <2>2. \A m \in RefreshedChecks : Def[m].group = "refreshed_pr_checks"
    BY Rows DEF Row, RefreshedChecks
  <2>3. InitialChecks # {} /\ RefreshedChecks # {}
    BY DEF InitialChecks, RefreshedChecks
  <2> QED BY <1>3, <2>1, <2>2, <2>3, OneGroup
<1>4. CASE Conditioned(state, FALSE) = {} /\ Conditioned(state, TRUE) # {}
  BY <1>4 DEF Batch, Matching
<1> QED BY <1>1, <1>2, <1>3, <1>4, MoveKinds

(* The successes that a move has not consumed are of the group that is about to run, and *)
(* what they say has been read since a person last asked for a check.                    *)
CheckpointsOfTheGroup ==
    state \notin Terminal =>
        /\ \A m \in done : Def[m].action \in read
        /\ \/ done = {}
           \/ state = "setup_complete" /\ art.exists /\ done \subseteq InitialChecks
           \/ state = "pr_refreshed" /\ ~Ready /\ done \subseteq RefreshedChecks

(* Follow-up is decided when all three results have been read since then. *)
ChecksAreFresh ==
    state \in {"pr_checks_complete", "pr_feedback_context_ready"} =>
        {"ci", "comments", "mergeability"} \subseteq read
RoundsFresh == retries = 0 => CheckpointsOfTheGroup /\ ChecksAreFresh
RoundsInv == RoundTypes /\ hub.comments <= changes /\ RoundsFresh /\ FollowUpIsFresh

LEMMA DefTypes ==
    \A m \in Transition : Def[m].from \in State /\ Def[m].to \in State
<1>1. \A m \in Automatics \cup Gates : Def[m].from \in State /\ Def[m].to \in State
  BY Rows DEF Row, Automatics, Gates, State, Terminal
<1> QED BY <1>1, Names

HubType ==
    [state : {"none", "open", "merged", "closed"}, ci : {"pending", "success", "failure"},
     comments : 0..MaxChanges, conflict : BOOLEAN, found : BOOLEAN]
ArtType ==
    [exists : BOOLEAN, merged : BOOLEAN, failures : BOOLEAN,
     comments : 0..MaxChanges, conflict : BOOLEAN, logs : BOOLEAN]
GivenType == [fresh : BOOLEAN, failures : BOOLEAN, comments : 0..MaxChanges, logs : BOOLEAN]

LEMMA Bounds == MaxChanges \in Nat /\ MaxFaults \in Nat /\ MaxRetries \in Nat
BY DefinitionAssumption

LEMMA NewPullRequest ==
    /\ NoPR \in HubType /\ NoPR.comments = 0
    /\ \A found \in BOOLEAN : OpenPR(found) \in HubType /\ OpenPR(found).comments = 0
<1>1. NoPR \in HubType /\ NoPR.comments = 0
  BY Bounds DEF NoPR, HubType
<1>2. ASSUME NEW found \in BOOLEAN
      PROVE  OpenPR(found) \in HubType /\ OpenPR(found).comments = 0
  <2> DEFINE opened == [NoPR EXCEPT !.state = "open"]
  <2>1. opened \in HubType /\ opened.comments = 0
    BY <1>1 DEF HubType
  <2>2. OpenPR(found) = [opened EXCEPT !.found = found]
    BY DEF OpenPR
  <2> HIDE DEF opened
  <2>3. [opened EXCEPT !.found = found] \in HubType
    BY <2>1 DEF HubType
  <2>4. [opened EXCEPT !.found = found].comments = 0
    BY <2>1 DEF HubType
  <2> QED BY <2>2, <2>3, <2>4
<1> QED BY <1>1, <1>2

LEMMA NewArtifact ==
    /\ \A active \in BOOLEAN : [NoArtifact EXCEPT !.exists = active] \in ArtType
    /\ NoFollowUp \in GivenType
<1>1. NoArtifact \in ArtType /\ NoFollowUp \in GivenType
  BY Bounds DEF NoArtifact, NoFollowUp, ArtType, GivenType
<1>2. ASSUME NEW active \in BOOLEAN PROVE [NoArtifact EXCEPT !.exists = active] \in ArtType
  BY <1>1 DEF ArtType
<1> QED BY <1>1, <1>2

LEMMA FirstRound == ASSUME RoundsInit PROVE RoundsInv
<1>1. PICK k \in Kind, t \in {"code", "research"}, open \in BOOLEAN, s \in {"todo", "claimed"} :
        /\ state = s
        /\ job = Claim(k, t, open /\ s = "claimed")
        /\ hub = IF open THEN OpenPR(k = "issue") ELSE NoPR
        /\ art = ClaimArtifacts(job)
  BY DEF RoundsInit
<1>2. /\ merged = FALSE
      /\ tree = [behind |-> FALSE, work |-> FALSE]
      /\ failed = [m \in Transition |-> 0]
      /\ done = {} /\ read = {} /\ given = NoFollowUp
      /\ changes = 0 /\ faults = 0 /\ retries = 0
  BY DEF RoundsInit
<1>4. state \in State /\ state \notin Terminal
  BY <1>1 DEF State, Terminal
<1>5. job \in [kind : Kind, task : {"code", "research"}, active : BOOLEAN]
  BY <1>1 DEF Claim
<1>6. hub \in HubType /\ hub.comments = 0
  <2>1. (k = "issue") \in BOOLEAN
    OBVIOUS
  <2> QED BY <1>1, <2>1, NewPullRequest
<1>7. art \in ArtType
  <2>1. job.active \in BOOLEAN
    BY <1>5
  <2> QED BY <1>1, <2>1, NewArtifact DEF ClaimArtifacts
<1>8. merged \in BOOLEAN /\ tree \in [behind : BOOLEAN, work : BOOLEAN]
  BY <1>2
<1>9. failed \in [Transition -> Nat]
  BY <1>2
<1>10. done \subseteq Transition /\ read \subseteq {"ci", "comments", "mergeability"}
  BY <1>2
<1>11. changes \in 0..MaxChanges /\ faults \in 0..MaxFaults /\ retries \in 0..MaxRetries
  BY <1>2, Bounds
<1>12. RoundTypes /\ hub.comments <= changes
  BY <1>2, <1>4, <1>5, <1>6, <1>7, <1>8, <1>9, <1>10, <1>11, NewArtifact
     DEF RoundTypes, HubType, ArtType, GivenType
<1> QED BY <1>1, <1>2, <1>12 DEF RoundsInv, RoundsFresh, CheckpointsOfTheGroup, ChecksAreFresh,
                               FollowUpIsFresh

(* What the actions do, by the name of the action. *)
LEMMA Effects ==
    /\ \A action \in {"labels", "setup", "noop", "comment"} : Effect(action) <=> Nothing
    /\ Effect("find") <=> FindIssuePullRequests
    /\ Effect("allocate") <=> AllocateWorkspace
    /\ Effect("codex") <=> RunCodex
    /\ Effect("create") <=> CreateDraftPR
    /\ Effect("ci") <=> FetchCiStatus
    /\ Effect("comments") <=> FetchReviewComments
    /\ Effect("mergeability") <=> DetectMergeConflicts
    /\ Effect("context") <=> FetchCiFailureContext
    /\ Effect("address") <=> AddressFeedback
    /\ Effect("push") <=> PushUpdate
    /\ Effect("fetch") <=> FetchPullRequest
    /\ Effect("cleanup") <=> CleanUpAfterMerge
BY DEF Effect

LEMMA ActionNames ==
    \A m \in Transition : Def[m].action \in
        {"labels", "setup", "noop", "comment", "find", "allocate", "codex", "create", "ci",
         "comments", "mergeability", "context", "address", "push", "fetch", "cleanup"}
<1>1. \A m \in Automatics \cup Gates : Def[m].action \in
        {"labels", "setup", "noop", "comment", "find", "allocate", "codex", "create", "ci",
         "comments", "mergeability", "context", "address", "push", "fetch", "cleanup"}
  BY Rows DEF Row, Automatics, Gates
<1> QED BY <1>1, Names

TreeType == [behind : BOOLEAN, work : BOOLEAN]
RoundData ==
    /\ hub \in HubType /\ hub.comments <= changes
    /\ art \in ArtType /\ merged \in BOOLEAN /\ tree \in TreeType
    /\ read \subseteq {"ci", "comments", "mergeability"} /\ given \in GivenType
    /\ changes \in 0..MaxChanges

LEMMA EffectsKeepData ==
    ASSUME RoundData, NEW m \in Transition, Effect(Def[m].action), UNCHANGED changes
    PROVE  RoundData'
<1> USE DEF RoundData
<1>1. CASE Nothing
  BY <1>1 DEF Nothing, Keeps
<1>2. CASE FindIssuePullRequests
  <2>1. PICK found \in {hub.found, hub.found /\ hub.state = "open"} :
          /\ art' = [art EXCEPT !.exists = found]
          /\ merged' = (merged \/ (found /\ hub.state = "merged"))
    BY <1>2 DEF FindIssuePullRequests
  <2>2. read' = {} /\ given' = [given EXCEPT !.fresh = FALSE] /\ UNCHANGED <<hub, tree>>
    BY <1>2 DEF FindIssuePullRequests, Keeps
  <2>3. found \in BOOLEAN
    BY <2>1 DEF HubType
  <2>4. art' \in ArtType
    BY <2>1, <2>3 DEF ArtType
  <2>5. given' \in GivenType
    BY <2>2 DEF GivenType
  <2>6. merged' \in BOOLEAN
    BY <2>1
  <2> QED BY <2>2, <2>4, <2>5, <2>6
<1>3. CASE AllocateWorkspace
  <2>1. PICK behind \in {FALSE, art.exists} : tree' = [behind |-> behind, work |-> FALSE]
    BY <1>3 DEF AllocateWorkspace
  <2>2. behind \in BOOLEAN
    BY <2>1 DEF ArtType
  <2>3. tree' \in TreeType
    BY <2>1, <2>2 DEF TreeType
  <2> QED BY <1>3, <2>3 DEF AllocateWorkspace, Keeps
<1>4. ASSUME NEW work \in BOOLEAN, tree' = [tree EXCEPT !.work = @ \/ work]
      PROVE  tree' \in TreeType
  <2>1. (tree.work \/ work) \in BOOLEAN
    OBVIOUS
  <2> QED BY <1>4, <2>1 DEF TreeType
<1>5. CASE RunCodex
  BY <1>4, <1>5 DEF RunCodex, Keeps
<1>6. CASE CreateDraftPR
  <2>1. (job.kind = "issue") \in BOOLEAN
    OBVIOUS
  <2>2. hub' \in HubType /\ hub'.comments = 0
    BY <1>6, <2>1, NewPullRequest DEF CreateDraftPR
  <2>3. given' \in GivenType
    BY <1>6, NewArtifact DEF CreateDraftPR
  <2>4. art' \in ArtType
    BY <1>6 DEF CreateDraftPR, ArtType
  <2>5. tree' \in TreeType
    BY <1>6 DEF CreateDraftPR, TreeType
  <2> QED BY <1>6, <2>2, <2>3, <2>4, <2>5, Bounds DEF CreateDraftPR, Keeps
<1>7. CASE FetchCiStatus
  <2>1. (hub.ci = "failure") \in BOOLEAN
    OBVIOUS
  <2>2. art' \in ArtType
    BY <1>7, <2>1 DEF FetchCiStatus, ArtType
  <2> QED BY <1>7, <2>2 DEF FetchCiStatus, Keeps
<1>8. CASE FetchReviewComments
  <2>1. art' \in ArtType
    BY <1>8 DEF FetchReviewComments, ArtType, HubType
  <2> QED BY <1>8, <2>1 DEF FetchReviewComments, Keeps
<1>9. CASE DetectMergeConflicts
  <2>1. PICK known \in BOOLEAN : art' = [art EXCEPT !.conflict = hub.conflict /\ known]
    BY <1>9 DEF DetectMergeConflicts
  <2>2. (hub.conflict /\ known) \in BOOLEAN
    OBVIOUS
  <2>3. art' \in ArtType
    BY <2>1, <2>2 DEF ArtType
  <2> QED BY <1>9, <2>3 DEF DetectMergeConflicts, Keeps
<1>10. CASE FetchCiFailureContext
  <2>1. art' \in ArtType
    BY <1>10 DEF FetchCiFailureContext, ArtType
  <2> QED BY <1>10, <2>1 DEF FetchCiFailureContext, Keeps
<1>11. CASE AddressFeedback
  <2>1. tree' \in TreeType
    BY <1>4, <1>11 DEF AddressFeedback
  <2>2. ({"ci", "comments", "mergeability"} \subseteq read) \in BOOLEAN
    OBVIOUS
  <2>3. given' \in GivenType
    BY <1>11, <2>2 DEF AddressFeedback, FollowUpInput, GivenType, ArtType
  <2> QED BY <1>11, <2>1, <2>3 DEF AddressFeedback, Keeps
<1>12. CASE PushUpdate
  <2>1. hub' \in HubType /\ hub'.comments = hub.comments
    BY <1>12 DEF PushUpdate, HubType
  <2>2. tree' \in TreeType
    BY <1>12 DEF PushUpdate, TreeType
  <2> QED BY <1>12, <2>1, <2>2 DEF PushUpdate, Keeps
<1>13. CASE FetchPullRequest
  <2>1. (hub.state = "merged") \in BOOLEAN
    OBVIOUS
  <2>2. art' \in ArtType
    BY <1>13, <2>1 DEF FetchPullRequest, ArtType
  <2>3. given' \in GivenType
    BY <1>13 DEF FetchPullRequest, GivenType
  <2>4. merged' \in BOOLEAN
    BY <1>13 DEF FetchPullRequest
  <2> QED BY <1>13, <2>2, <2>3, <2>4 DEF FetchPullRequest, Keeps
<1>14. CASE CleanUpAfterMerge
  BY <1>1, <1>14 DEF CleanUpAfterMerge
<1> HIDE DEF RoundData
<1> QED
  BY <1>1, <1>2, <1>3, <1>5, <1>6, <1>7, <1>8, <1>9, <1>10, <1>11, <1>12, <1>13, <1>14,
     Effects, ActionNames

EngineTypes ==
    /\ state \in State /\ job \in [kind : Kind, task : {"code", "research"}, active : BOOLEAN]
    /\ failed \in [Transition -> Nat] /\ done \subseteq Transition
    /\ faults \in 0..MaxFaults /\ retries \in 0..MaxRetries

LEMMA TypeParts == RoundTypes /\ hub.comments <= changes <=> RoundData /\ EngineTypes
BY DEF RoundTypes, RoundData, EngineTypes, HubType, ArtType, TreeType, GivenType

LEMMA TypePartsNext ==
    RoundTypes' /\ hub'.comments <= changes' <=> RoundData' /\ EngineTypes'
BY DEF RoundTypes, RoundData, EngineTypes, HubType, ArtType, TreeType, GivenType

(* Nothing is left over when a state has a single transition, and the group is the batch  *)
(* of what is left of it.                                                                 *)
LEMMA BatchIs ==
    ASSUME RoundsInv, retries = 0, state \notin Terminal, Exhausted(state, FALSE) = {}
    PROVE  /\ Batch = Conditioned(state, FALSE)
           /\ done \subseteq Batch
           /\ done # {} => Batch \in {InitialChecks, RefreshedChecks}
           /\ \A m \in Batch : \/ Batch = {m}
                               \/ state = "setup_complete" /\ art.exists /\ Batch = InitialChecks
                               \/ state = "pr_refreshed" /\ ~Ready /\ Batch = RefreshedChecks
<1>1. job.task \in {"code", "research"} /\ state \in State
  BY DEF RoundsInv, RoundTypes
<1>2. Batch = Conditioned(state, FALSE)
  BY DEF Batch, Matching
<1>3. \/ done = {}
      \/ state = "setup_complete" /\ art.exists /\ done \subseteq InitialChecks
      \/ state = "pr_refreshed" /\ ~Ready /\ done \subseteq RefreshedChecks
  BY DEF RoundsInv, RoundsFresh, CheckpointsOfTheGroup
<1>4. CASE done = {}
  BY <1>1, <1>2, <1>4, MoveKinds
<1>5. CASE state = "setup_complete" /\ art.exists /\ done \subseteq InitialChecks
  <2>1. Batch = InitialChecks
    BY <1>1, <1>2, <1>5, Conditions
  <2> QED BY <1>2, <1>5, <2>1
<1>6. CASE state = "pr_refreshed" /\ ~Ready /\ done \subseteq RefreshedChecks
  <2>1. Batch = RefreshedChecks
    BY <1>1, <1>2, <1>6, Conditions
  <2> QED BY <1>2, <1>6, <2>1
<1> QED BY <1>3, <1>4, <1>5, <1>6

LEMMA AutomaticKeepsTypes ==
    ASSUME RoundsInv, NEW m \in Batch, RunAutomatic(Batch, m)
    PROVE  RoundData' /\ EngineTypes'
<1>1. m \in Transition
  BY DEF Batch, Matching, Conditioned, Leaving, RoundsInv, RoundTypes
<1>2. RoundData'
  BY <1>1, TypeParts, EffectsKeepData DEF RoundsInv, RunAutomatic
<1>3. state' \in State /\ done' \subseteq Transition
  BY <1>1, DefTypes DEF RunAutomatic, Consumed, RoundsInv, RoundTypes
<1> QED BY <1>2, <1>3, TypeParts DEF RunAutomatic, RoundsInv, EngineTypes

(* What a step of a check leaves alone. *)
LEMMA CheckKeeps ==
    ASSUME RoundData, NEW m \in InitialChecks \cup RefreshedChecks, Effect(Def[m].action)
    PROVE  /\ read' = read \cup {Def[m].action}
           /\ art'.exists = art.exists /\ (Ready' <=> Ready)
<1>1. CASE m \in {"check_pr_ci", "refresh_pr_ci"}
  <2>1. Def[m].action = "ci" /\ FetchCiStatus
    BY <1>1, Rows, Effects DEF Row
  <2> QED BY <2>1 DEF FetchCiStatus, Keeps, RoundData, ArtType, Ready
<1>2. CASE m \in {"check_pr_comments", "refresh_pr_comments"}
  <2>1. Def[m].action = "comments" /\ FetchReviewComments
    BY <1>2, Rows, Effects DEF Row
  <2> QED BY <2>1 DEF FetchReviewComments, Keeps, RoundData, ArtType, Ready
<1>3. CASE m \in {"check_pr_mergeability", "refresh_pr_mergeability"}
  <2>1. Def[m].action = "mergeability" /\ DetectMergeConflicts
    BY <1>3, Rows, Effects DEF Row
  <2> QED BY <2>1 DEF DetectMergeConflicts, Keeps, RoundData, ArtType, Ready
<1> QED BY <1>1, <1>2, <1>3 DEF InitialChecks, RefreshedChecks

(* Where the group goes, and what its members read. *)
LEMMA GroupReads ==
    ASSUME NEW set \in {InitialChecks, RefreshedChecks}
    PROVE  /\ set # {} /\ \A m \in set : Def[m].to = "pr_checks_complete"
           /\ \A topics : (\A m \in set : Def[m].action \in topics)
                            => {"ci", "comments", "mergeability"} \subseteq topics
BY Rows DEF Row, InitialChecks, RefreshedChecks

(* The transitions to the states in which follow-up is decided, and has been made. *)
LEMMA FollowUpMoves ==
    ASSUME NEW m \in Automatics
    PROVE  /\ Def[m].to = "pr_checks_complete" => m \in InitialChecks \cup RefreshedChecks
           /\ Def[m].to = "pr_feedback_context_ready" =>
                Def[m].from = "pr_checks_complete" /\ Def[m].action \in {"context", "noop"}
           /\ Def[m].to = "pr_follow_up_complete" =>
                Def[m].from = "pr_feedback_context_ready" /\ Def[m].action = "address"
BY Rows DEF Row, Automatics, InitialChecks, RefreshedChecks

LEMMA AutomaticKeepsFresh ==
    ASSUME RoundsInv, state \notin Terminal, Exhausted(state, FALSE) = {},
           NEW m \in Batch \ done, RunAutomatic(Batch, m)
    PROVE  RoundsInv'
<1>1. RoundData' /\ EngineTypes'
  BY AutomaticKeepsTypes
<1>2. RoundTypes' /\ hub'.comments <= changes'
  BY <1>1, TypePartsNext
<1>3. RoundData
  BY TypeParts DEF RoundsInv
<1>4. SUFFICES ASSUME retries = 0
               PROVE  /\ CheckpointsOfTheGroup' /\ ChecksAreFresh'
                      /\ state' = "pr_follow_up_complete" => given'.fresh
  BY <1>2 DEF RoundsInv, RoundsFresh, FollowUpIsFresh, RunAutomatic
<1>5. /\ Batch = Conditioned(state, FALSE) /\ done \subseteq Batch
      /\ \/ Batch = {m}
         \/ state = "setup_complete" /\ art.exists /\ Batch = InitialChecks
         \/ state = "pr_refreshed" /\ ~Ready /\ Batch = RefreshedChecks
  BY <1>4, BatchIs
<1>6. m \in Transition /\ Def[m].from = state /\ Def[m].human = FALSE
  BY <1>5 DEF Conditioned, Leaving, RoundsInv, RoundTypes
<1>7. m \in Automatics
  <2>1. \A g \in Gates : Def[g].human = TRUE
    BY Rows DEF Row, Gates
  <2> QED BY <1>6, <2>1, Names
<1>8. /\ \A d \in done : Def[d].action \in read
      /\ state \in {"pr_checks_complete", "pr_feedback_context_ready"} =>
           {"ci", "comments", "mergeability"} \subseteq read
  BY <1>4 DEF RoundsInv, RoundsFresh, CheckpointsOfTheGroup, ChecksAreFresh
<1>9. CASE Batch \subseteq done \cup {m}
  <2>1. state' = Def[m].to /\ done' = {}
    BY <1>5, <1>9 DEF RunAutomatic, Consumed
  <2>2. CheckpointsOfTheGroup'
    BY <2>1 DEF CheckpointsOfTheGroup
  <2>3. CASE state' = "pr_checks_complete"
    <3>1. m \in InitialChecks \cup RefreshedChecks
      BY <1>7, <2>1, <2>3, FollowUpMoves
    <3>2. Batch \in {InitialChecks, RefreshedChecks}
      <4>2. CASE m \in InitialChecks
        <5>1. state = "setup_complete" /\ art.exists
          BY <1>5, <1>6, <4>2, Rows, HoldsIs DEF Row, InitialChecks, Conditioned
        <5> QED BY <1>5, <5>1, Conditions DEF RoundsInv, RoundTypes
      <4>3. CASE m \in RefreshedChecks
        <5>1. state = "pr_refreshed" /\ ~Ready
          BY <1>5, <1>6, <4>3, Rows, HoldsIs DEF Row, RefreshedChecks, Conditioned
        <5> QED BY <1>5, <5>1, Conditions DEF RoundsInv, RoundTypes
      <4> QED BY <3>1, <4>2, <4>3
    <3>3. read' = read \cup {Def[m].action}
      BY <1>3, <3>1, CheckKeeps DEF RunAutomatic
    <3>4. {"ci", "comments", "mergeability"} \subseteq read'
      <4>1. \A b \in Batch : Def[b].action \in read'
        BY <1>8, <1>9, <3>3
      <4> QED BY <3>2, <4>1, GroupReads
    <3> QED BY <2>2, <2>3, <3>4 DEF ChecksAreFresh
  <2>4. CASE state' = "pr_feedback_context_ready"
    <3>1. state = "pr_checks_complete" /\ Def[m].action \in {"context", "noop"}
      BY <1>6, <1>7, <2>1, <2>4, FollowUpMoves
    <3>2. FetchCiFailureContext \/ Nothing
      BY <3>1, Effects DEF RunAutomatic
    <3>3. read' = read
      BY <3>2 DEF FetchCiFailureContext, Nothing, Keeps
    <3> QED BY <1>8, <2>2, <2>4, <3>1, <3>3 DEF ChecksAreFresh
  <2>5. CASE state' = "pr_follow_up_complete"
    <3>1. state = "pr_feedback_context_ready" /\ Def[m].action = "address"
      BY <1>6, <1>7, <2>1, <2>5, FollowUpMoves
    <3>2. given' = FollowUpInput
      BY <3>1, Effects DEF RunAutomatic, AddressFeedback
    <3>3. given'.fresh
      BY <1>8, <3>1, <3>2 DEF FollowUpInput
    <3> QED BY <2>2, <2>5, <3>3 DEF ChecksAreFresh
  <2> QED BY <2>2, <2>3, <2>4, <2>5 DEF ChecksAreFresh
<1>10. CASE ~(Batch \subseteq done \cup {m})
  <2>1. /\ \/ state = "setup_complete" /\ art.exists /\ Batch = InitialChecks
           \/ state = "pr_refreshed" /\ ~Ready /\ Batch = RefreshedChecks
        /\ m \in InitialChecks \cup RefreshedChecks
    BY <1>5, <1>10
  <2>2. state' = state /\ done' = done \cup {m}
    BY <1>10 DEF RunAutomatic
  <2>3. /\ read' = read \cup {Def[m].action}
        /\ art'.exists = art.exists /\ (Ready' <=> Ready)
    BY <1>3, <2>1, CheckKeeps DEF RunAutomatic
  <2>4. CheckpointsOfTheGroup'
    <3>1. \A d \in done' : Def[d].action \in read'
      BY <1>8, <2>2, <2>3
    <3>2. \/ state' = "setup_complete" /\ art'.exists /\ done' \subseteq InitialChecks
          \/ state' = "pr_refreshed" /\ ~Ready' /\ done' \subseteq RefreshedChecks
      BY <1>5, <2>1, <2>2, <2>3
    <3> QED BY <3>1, <3>2 DEF CheckpointsOfTheGroup
  <2>5. state' \notin {"pr_checks_complete", "pr_feedback_context_ready", "pr_follow_up_complete"}
    BY <2>1, <2>2
  <2> QED BY <2>4, <2>5 DEF ChecksAreFresh
<1> QED BY <1>9, <1>10

LEMMA ResumeKeepsFresh ==
    ASSUME RoundsInv, state \notin Terminal, Exhausted(state, FALSE) = {}, ResumeBatch(Batch)
    PROVE  RoundsInv'
<1> DEFINE m == CHOOSE m \in Batch : TRUE
<1>1. m \in Batch /\ m \in Transition
  BY DEF ResumeBatch, Batch, Matching, Conditioned, Leaving, RoundsInv, RoundTypes
<1>2. /\ state' = Def[m].to /\ done' = done \ Batch
      /\ UNCHANGED <<hub, art, tree, merged, read, given, job, changes, failed, faults, retries>>
  BY DEF ResumeBatch, Consumed, Nothing, Keeps
<1> HIDE DEF m
<1>3. state' \in State
  BY <1>1, <1>2, DefTypes
<1>4. RoundTypes' /\ hub'.comments <= changes'
  BY <1>2, <1>3 DEF RoundTypes, RoundsInv
<1>5. SUFFICES ASSUME retries = 0
               PROVE  /\ CheckpointsOfTheGroup' /\ ChecksAreFresh'
                      /\ state' = "pr_follow_up_complete" => given'.fresh
  BY <1>2, <1>4 DEF RoundsInv, RoundsFresh, FollowUpIsFresh
<1>6. Batch \in {InitialChecks, RefreshedChecks} /\ done = Batch
  BY <1>5, BatchIs DEF ResumeBatch
<1>7. state' = "pr_checks_complete" /\ done' = {}
  BY <1>1, <1>2, <1>6, GroupReads
<1>8. \A d \in Batch : Def[d].action \in read
  BY <1>5, <1>6 DEF RoundsInv, RoundsFresh, CheckpointsOfTheGroup
<1>9. {"ci", "comments", "mergeability"} \subseteq read'
  BY <1>2, <1>6, <1>8, GroupReads
<1> QED BY <1>7, <1>9 DEF CheckpointsOfTheGroup, ChecksAreFresh

LEMMA GivingUpKeepsFresh == ASSUME RoundsInv, GiveUp PROVE RoundsInv'
<1>1. /\ state' = "failed"
      /\ UNCHANGED <<hub, art, tree, merged, read, given, job, changes, failed, done, faults, retries>>
  BY DEF GiveUp, Nothing, Keeps
<1>2. RoundTypes' /\ hub'.comments <= changes'
  BY <1>1 DEF RoundTypes, RoundsInv, State, Terminal
<1> QED BY <1>1, <1>2 DEF RoundsInv, RoundsFresh, CheckpointsOfTheGroup, ChecksAreFresh,
                          FollowUpIsFresh, Terminal

LEMMA FailureKeepsFresh ==
    ASSUME RoundsInv, NEW m \in Transition, Fails(m)
    PROVE  RoundsInv'
<1>1. UNCHANGED <<hub, art, tree, merged, read, given, state, job, changes, done, retries>>
  BY DEF Fails, Nothing, Keeps
<1>2. failed' \in [Transition -> Nat]
  BY DEF Fails, RoundsInv, RoundTypes
<1>3. faults' \in 0..MaxFaults
  BY Bounds DEF Fails, Fault, RoundsInv, RoundTypes
<1>4. RoundTypes' /\ hub'.comments <= changes'
  BY <1>1, <1>2, <1>3 DEF RoundTypes, RoundsInv
<1> QED BY <1>1, <1>4 DEF RoundsInv, RoundsFresh, CheckpointsOfTheGroup, ChecksAreFresh,
                          FollowUpIsFresh, Ready

LEMMA GateKeepsFresh ==
    ASSUME RoundsInv, NEW m \in HumanTransition, RunGate(m)
    PROVE  RoundsInv'
<1>1. m \in Transition /\ Def[m].human = TRUE /\ Def[m].from = state
  BY DEF HumanTransition, RunGate, Open, Matching, Conditioned, Leaving, RoundsInv, RoundTypes
<1>2. m \in Gates
  <2>1. \A a \in Automatics : Def[a].human = FALSE
    BY Rows DEF Row, Automatics
  <2> QED BY <1>1, <2>1, Names
<1>3. RoundData'
  BY <1>1, TypeParts, EffectsKeepData DEF RunGate, RoundsInv
<1>4. state' = Def[m].to /\ state' \in State
  BY <1>1, DefTypes DEF RunGate
<1>5. RoundTypes' /\ hub'.comments <= changes'
  BY <1>3, <1>4, TypeParts, TypePartsNext DEF RunGate, RoundsInv, EngineTypes
<1>6. /\ state \in {"review", "pr_follow_up_complete", "pr_waiting"}
      /\ state' \in {"done", "blocked", "pr_ready", "pr_waiting", "pr_refreshed"}
  BY <1>1, <1>2, <1>4, Rows DEF Row, Gates
<1>7. retries = 0 => done' = {}
  BY <1>6 DEF RoundsInv, RoundsFresh, CheckpointsOfTheGroup, RunGate, Terminal
<1>8. retries' = retries
  BY DEF RunGate
<1> QED BY <1>5, <1>6, <1>7, <1>8 DEF RoundsInv, RoundsFresh, CheckpointsOfTheGroup,
                                      ChecksAreFresh, FollowUpIsFresh

LEMMA RetryKeepsFresh ==
    ASSUME RoundsInv, NEW m \in Retriable, RetryFailed(m)
    PROVE  RoundsInv'
<1>1. m \in Transition
  BY DefinitionAssumption
<1>2. RoundData'
  BY <1>1, TypeParts, EffectsKeepData DEF RetryFailed, RoundsInv
<1>3. state' \in State
  BY <1>1, DefTypes DEF RetryFailed
<1>4. retries' \in 0..MaxRetries /\ retries' # 0
  BY Bounds DEF RetryFailed, RoundsInv, RoundTypes
<1>5. EngineTypes'
  BY <1>3, <1>4, TypeParts DEF RetryFailed, RoundsInv, EngineTypes
<1> QED BY <1>2, <1>4, <1>5, TypePartsNext DEF RoundsInv, RoundsFresh, FollowUpIsFresh

LEMMA GitHubKeepsFresh == ASSUME RoundsInv, GitHub PROVE RoundsInv'
<1>1. UNCHANGED <<state, job, art, merged, failed, done, read, given, faults, retries>>
  BY DEF GitHub, CiEnds, PersonComments, BaseMoves, PersonPushes, Ends, Changes
<1>2. changes \in 0..MaxChanges /\ changes' = changes + 1 /\ changes < MaxChanges
  BY DEF GitHub, CiEnds, PersonComments, BaseMoves, PersonPushes, Ends, Changes, RoundsInv,
         RoundTypes
<1>3. hub \in HubType /\ tree \in TreeType /\ hub.comments <= changes
  BY DEF RoundsInv, RoundTypes, HubType, TreeType
<1>4. hub' \in HubType /\ tree' \in TreeType /\ hub'.comments <= changes'
  <2>1. ASSUME NEW result \in {"success", "failure"}, CiEnds(result)
        PROVE  hub' \in HubType /\ tree' \in TreeType /\ hub'.comments <= changes'
    BY <1>2, <1>3, <2>1, Bounds DEF CiEnds, HubType
  <2>2. CASE PersonComments
    BY <1>2, <1>3, <2>2, Bounds DEF PersonComments, HubType
  <2>3. CASE BaseMoves
    <3>1. (~hub.conflict) \in BOOLEAN
      OBVIOUS
    <3>2. hub' = [hub EXCEPT !.conflict = ~hub.conflict] /\ tree' = tree
      BY <2>3 DEF BaseMoves
    <3>3. hub' \in HubType
      BY <1>3, <3>1, <3>2 DEF HubType
    <3>4. hub'.comments = hub.comments
      BY <1>3, <3>2 DEF HubType
    <3> QED BY <1>2, <1>3, <3>2, <3>3, <3>4, Bounds DEF HubType
  <2>4. CASE PersonPushes
    <3>1. hub' = [hub EXCEPT !.ci = "pending"] /\ tree' = [tree EXCEPT !.behind = TRUE]
      BY <2>4 DEF PersonPushes
    <3>2. hub' \in HubType /\ hub'.comments = hub.comments
      BY <1>3, <3>1 DEF HubType
    <3>3. tree' \in TreeType
      BY <1>3, <3>1 DEF TreeType
    <3> QED BY <1>2, <1>3, <3>2, <3>3, Bounds DEF HubType
  <2>5. ASSUME NEW how \in {"merged", "closed"}, Ends(how)
        PROVE  hub' \in HubType /\ tree' \in TreeType /\ hub'.comments <= changes'
    BY <1>2, <1>3, <2>5, Bounds DEF Ends, HubType
  <2> QED BY <2>1, <2>2, <2>3, <2>4, <2>5 DEF GitHub
<1>5. changes' \in 0..MaxChanges
  BY <1>2, Bounds
<1>6. RoundTypes' /\ hub'.comments <= changes'
  BY <1>1, <1>4, <1>5 DEF RoundTypes, RoundsInv, HubType, TreeType
<1> QED BY <1>1, <1>6 DEF RoundsInv, RoundsFresh, CheckpointsOfTheGroup, ChecksAreFresh,
                          FollowUpIsFresh, Ready

LEMMA RoundsStep == RoundsInv /\ [RoundsNext]_roundVars => RoundsInv'
<1> SUFFICES ASSUME RoundsInv, [RoundsNext]_roundVars PROVE RoundsInv'
  OBVIOUS
<1>1. CASE Automatic
  <2>1. CASE GiveUp
    BY <2>1, GivingUpKeepsFresh
  <2>2. CASE Exhausted(state, FALSE) = {}
    <3>1. PICK batch : batch = Batch
      OBVIOUS
    <3>2. \/ \E m \in batch \ done : RunAutomatic(batch, m) \/ Fails(m)
          \/ ResumeBatch(batch)
      BY <1>1, <2>2, <3>1 DEF Automatic
    <3>3. state \notin Terminal
      BY <1>1 DEF Automatic
    <3>4. \A m \in batch : m \in Transition
      BY <3>1 DEF Batch, Matching, Conditioned, Leaving, RoundsInv, RoundTypes
    <3> QED BY <2>2, <3>1, <3>2, <3>3, <3>4, AutomaticKeepsFresh, FailureKeepsFresh,
               ResumeKeepsFresh
  <2> QED BY <1>1, <2>1, <2>2 DEF Automatic
<1>2. ASSUME NEW m \in HumanTransition, RunGate(m) \/ FailGate(m) PROVE RoundsInv'
  BY <1>2, GateKeepsFresh, FailureKeepsFresh DEF FailGate, HumanTransition
<1>3. CASE \E m \in Retriable : RetryFailed(m)
  BY <1>3, RetryKeepsFresh
<1>4. CASE GitHub
  BY <1>4, GitHubKeepsFresh
<1>5. CASE UNCHANGED roundVars
  BY <1>5 DEF roundVars, github, RoundsInv, RoundTypes, RoundsFresh, CheckpointsOfTheGroup,
              ChecksAreFresh, FollowUpIsFresh, Ready
<1> QED BY <1>1, <1>2, <1>3, <1>4, <1>5 DEF RoundsNext, Advance

(* Every variable of the rounds has its type. *)
THEOREM RoundsTyped == RoundsSpec => []RoundTypes
<1>1. RoundsInv => RoundTypes
  BY DEF RoundsInv
<1> QED BY <1>1, FirstRound, RoundsStep, PTL DEF RoundsSpec

(* Whatever the artifacts say, a state that is not terminal has one transition or group   *)
(* to run, or a gate to open, unless one is out of retries.                               *)
THEOREM RoundsNeverStall == RoundsSpec => []AlwaysAMove
<1>1. RoundsInv => AlwaysAMove
  BY MovesExist DEF RoundsInv, RoundTypes
<1> QED BY <1>1, FirstRound, RoundsStep, PTL DEF RoundsSpec

(* However checks run, fail and resume, a follow-up is made from results that were all    *)
(* read since a person last asked for them, as long as no failure was retried by hand.    *)
THEOREM FollowUpStaysFresh == RoundsSpec => []FollowUpIsFresh
<1>1. RoundsInv => FollowUpIsFresh
  BY DEF RoundsInv
<1> QED BY <1>1, FirstRound, RoundsStep, PTL DEF RoundsSpec
=============================================================================
