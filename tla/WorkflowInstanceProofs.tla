----------------------- MODULE WorkflowInstanceProofs -----------------------
(***************************************************************************)
(* Proofs about WorkflowInstance, for every workflow, provided the threads *)
(* follow one another: its types; that the retry limit of a transition     *)
(* bounds its failures over the whole life of the instance; that no success*)
(* is repeated; that it implements DurableWorkflow; that under review      *)
(* somebody can act; and that the groups leave a state only as a whole.    *)
(***************************************************************************)
EXTENDS WorkflowInstance, FiniteSetTheorems, TLAPS

(***************************************************************************)
(* The invariant                                                           *)
(***************************************************************************)

Holding == {"recheck", "run", "compare", "write", "record", "close"}
RowType == [pc : Pc, kind : Kind, sole : BOOLEAN, at : State,
            batch : SUBSET Transition, todo : SUBSET Transition,
            marked : SUBSET Transition, bad : BOOLEAN,
            yes : SUBSET Fact, row : BOOLEAN]

(* What a thread holds: it has actions under way only while it runs or has died, a batch  *)
(* from its start to its move; nothing is marked, since only a dead worker is at work     *)
(* when rows are marked.                                                                  *)
Row == {h \in RowType :
          /\ h.marked = {}
          /\ h.todo # {} => h.pc \in {"run", "dead"}
          /\ h.pc \in Holding => h.batch # {}
          /\ h.pc = "terminal" => h.at \in Terminal}

SuccessType == [own : BOOLEAN, group : BOOLEAN, yes : SUBSET Fact]

RowsTyped ==
    /\ state \in State
    /\ attempt \in {"queued", "running", "review", "failed"} \cup Terminal
    /\ gate \in [Human -> {"none", "pending", "running", "resolved"}]
    /\ fact \in [Fact -> {"absent", "yes", "no"}]
    /\ success \in [Transition -> SuccessType]
CountsTyped ==
    /\ failed \in [Transition -> Nat] /\ orphan \in [Transition -> Nat]
    /\ workerDeaths \in 0..MaxWorkerDeaths /\ serverDeaths \in 0..MaxServerDeaths
    /\ requeues \in 0..RetryLimit /\ retries \in 0..MaxRetries
Alone == \A t, u \in Thread : Busy(t) /\ Busy(u) => t = u

UnderWay(m) == \E t \in Thread : m \in th[t].todo
Limit(m) == Def[m].limit + 1 + retries + serverDeaths

(* An action that is under way still has its failure to come. *)
Counted ==
    \A m \in Transition :
        /\ orphan[m] =< serverDeaths
        /\ failed[m] + orphan[m] =< Limit(m)
        /\ UnderWay(m) => failed[m] + orphan[m] < Limit(m)

EngineInv == RowsTyped /\ CountsTyped /\ th \in [Thread -> Row] /\ Alone /\ Counted

LEMMA Bounds == /\ RetryLimit \in Nat /\ MaxWorkerDeaths \in Nat
                /\ MaxServerDeaths \in Nat /\ MaxRetries \in Nat
                /\ Initial \in State /\ Failed \in Terminal /\ Terminal \subseteq State
BY StateAssumption

LEMMA Limits == \A m \in Transition : Def[m].limit \in Nat /\ Def[m].from \in State /\ Def[m].to \in State
BY DefAssumption

(***************************************************************************)
(* What a thread holds                                                     *)
(***************************************************************************)

LEMMA IdleIsARow == Idle \in Row /\ Idle.pc = "idle" /\ Idle.todo = {}
BY Bounds DEF Idle, Row, RowType, Pc, Kind, Holding

LEMMA FreshRows ==
    ASSUME NEW k \in Kind
    PROVE  /\ [Idle EXCEPT !.pc = "loop", !.kind = k] \in Row
           /\ [Idle EXCEPT !.pc = "giveup", !.kind = k] \in Row
           /\ [Idle EXCEPT !.pc = "loop", !.kind = k].todo = {}
           /\ [Idle EXCEPT !.pc = "giveup", !.kind = k].todo = {}
BY Bounds DEF Idle, Row, RowType, Pc, Kind, Holding

LEMMA RowUpdates ==
    ASSUME NEW h \in Row
    PROVE  /\ [h EXCEPT !.pc = "dead"] \in Row
           /\ \A q \in {"loop", "raise", "stopped", "human_gate"} :
                h.todo = {} => [h EXCEPT !.pc = q] \in Row
           /\ \A q \in Holding : h.todo = {} /\ h.batch # {} => [h EXCEPT !.pc = q] \in Row
           /\ \A s \in Terminal : h.todo = {} => [h EXCEPT !.pc = "terminal", !.at = s] \in Row
           /\ \A b \in BOOLEAN : [h EXCEPT !.row = b] \in Row
           /\ \A q, s, b : /\ [h EXCEPT !.pc = q].todo = h.todo
                           /\ [h EXCEPT !.pc = q, !.at = s].todo = h.todo
                           /\ [h EXCEPT !.row = b].todo = h.todo
           /\ h \in RowType /\ h.marked = {} /\ h.todo \subseteq Transition
           /\ h.pc \notin {"run", "dead"} => h.todo = {}
           /\ h.pc \in Holding => h.batch # {} /\ The(h.batch) \in Transition
           /\ h.pc = "terminal" => h.at \in Terminal
BY Bounds DEF Row, RowType, Pc, Holding, The

(* A thread that starts the actions ms of a batch, or one action unless it has a checkpoint. *)
Fresh == {h \in RowType : h.marked = {} /\ h.todo = {}}

LEMMA FreshIs ==
    ASSUME NEW k \in Kind, NEW sole \in BOOLEAN, NEW s \in State, NEW row \in BOOLEAN
    PROVE  /\ [Idle EXCEPT !.kind = k, !.sole = sole, !.at = s, !.row = row] \in Fresh
           /\ [Idle EXCEPT !.kind = k, !.sole = sole, !.at = s] \in Fresh
           /\ [Idle EXCEPT !.kind = k, !.at = s] \in Fresh
BY Bounds DEF Idle, Fresh, RowType, Pc, Kind

LEMMA BegunRow ==
    ASSUME NEW h \in Fresh,
           NEW batch \in SUBSET Transition, batch # {}, NEW ms \in SUBSET Transition
    PROVE  /\ Begun(h, batch, ms) \in Row
           /\ Begun(h, batch, ms).todo = ms
           /\ [h EXCEPT !.batch = batch, !.pc = "compare"] \in Row
           /\ [h EXCEPT !.batch = batch, !.pc = "compare"].todo = {}
BY DEF Begun, Started, Fresh, Row, RowType, Pc, Holding

LEMMA GateRow ==
    ASSUME NEW k \in Kind, NEW m \in Transition
    PROVE  GateThread(k, m) \in Row /\ GateThread(k, m).todo = {m}
<1> DEFINE h == [Idle EXCEPT !.kind = k, !.sole = TRUE, !.at = Def[m].from, !.row = TRUE]
<1>1. h \in Fresh
  BY FreshIs, Limits
<1>2. GateThread(k, m) = Begun(h, {m}, {m})
  BY DEF GateThread
<1> HIDE DEF h
<1>3. Begun(h, {m}, {m}) \in Row /\ Begun(h, {m}, {m}).todo = {m}
  BY <1>1, BegunRow
<1> QED BY <1>2, <1>3

LEMMA SingleRow ==
    ASSUME NEW h \in Fresh, success \in [Transition -> SuccessType], NEW m \in Transition
    PROVE  RunSingle(h, m) \in Row /\ RunSingle(h, m).todo \subseteq {m}
<1>1. Begun(h, {m}, {m}) \in Row /\ Begun(h, {m}, {m}).todo = {m}
  BY BegunRow
<1>2. ASSUME NEW yes \in SUBSET Fact, NEW b \in BOOLEAN
      PROVE  /\ [h EXCEPT !.pc = "compare", !.batch = {m}, !.yes = yes, !.bad = b] \in Row
             /\ [h EXCEPT !.pc = "compare", !.batch = {m}, !.yes = yes, !.bad = b].todo = {}
  BY DEF Fresh, Row, RowType, Pc, Holding
<1>3. success[m].yes \in SUBSET Fact /\ h.sole \in BOOLEAN
  BY DEF SuccessType, Fresh, RowType
<1>4. /\ [h EXCEPT !.pc = "compare", !.batch = {m}, !.yes = success[m].yes, !.bad = h.sole] \in Row
      /\ [h EXCEPT !.pc = "compare", !.batch = {m}, !.yes = success[m].yes, !.bad = h.sole].todo = {}
  BY <1>2, <1>3
<1> QED BY <1>1, <1>4 DEF RunSingle

(* An action of a batch has returned. *)
LEMMA AfterRowIs ==
    ASSUME NEW h \in Row, h.pc = "run", NEW m \in h.todo, NEW ok \in BOOLEAN
    PROVE  /\ AfterRow(h, m, ok) \in Row
           /\ AfterRow(h, m, ok).todo = h.todo \ {m}
           /\ \A yes \in SUBSET Fact :
                /\ [AfterRow(h, m, ok) EXCEPT !.yes = yes] \in Row
                /\ [AfterRow(h, m, ok) EXCEPT !.yes = yes].todo = h.todo \ {m}
<1> DEFINE left == h.todo \ {m}
           bad == h.bad \/ ~ok
           pc == CASE left # {} -> "run"
                   [] left = {} /\ ~bad -> "compare"
                   [] left = {} /\ bad /\ h.sole -> "raise"
                   [] OTHER -> "loop"
<1>1. h \in RowType /\ h.marked = {} /\ h.batch # {}
  BY DEF Row, Holding
<1>2. pc \in {"run", "compare", "raise", "loop"} /\ (left # {} => pc = "run")
  OBVIOUS
<1>3. (bad /\ left # {}) \in BOOLEAN
  OBVIOUS
<1>4. AfterRow(h, m, ok) = [h EXCEPT !.pc = pc, !.todo = left, !.bad = bad /\ left # {}, !.marked = h.marked \ {m}]
  BY <1>1 DEF AfterRow, RowType
<1>5. ASSUME NEW b \in BOOLEAN, NEW q \in {"run", "compare", "raise", "loop"}, left # {} => q = "run"
      PROVE  LET new == [h EXCEPT !.pc = q, !.todo = left, !.bad = b, !.marked = h.marked \ {m}] IN
             /\ new \in Row /\ new.todo = left
             /\ \A yes \in SUBSET Fact : [new EXCEPT !.yes = yes] \in Row /\ [new EXCEPT !.yes = yes].todo = left
  BY <1>1, <1>5 DEF Row, RowType, Pc, Holding
<1>6. \E b \in BOOLEAN, q \in {"run", "compare", "raise", "loop"} :
        /\ left # {} => q = "run"
        /\ AfterRow(h, m, ok) = [h EXCEPT !.pc = q, !.todo = left, !.bad = b, !.marked = h.marked \ {m}]
  <2> HIDE DEF left, bad, pc
  <2> QED BY <1>2, <1>3, <1>4
<1>7. PICK b \in BOOLEAN, q \in {"run", "compare", "raise", "loop"} :
        /\ left # {} => q = "run"
        /\ AfterRow(h, m, ok) = [h EXCEPT !.pc = q, !.todo = left, !.bad = b, !.marked = h.marked \ {m}]
  BY <1>6
<1> DEFINE new == [h EXCEPT !.pc = q, !.todo = left, !.bad = b, !.marked = h.marked \ {m}]
<1>8. /\ new \in Row /\ new.todo = left
      /\ \A yes \in SUBSET Fact : [new EXCEPT !.yes = yes] \in Row /\ [new EXCEPT !.yes = yes].todo = left
  BY <1>5, <1>7
<1>9. AfterRow(h, m, ok) = new
  BY <1>7
<1> HIDE DEF new
<1> QED BY <1>8, <1>9

(***************************************************************************)
(* Steps of one thread                                                     *)
(***************************************************************************)

(* A thread changes what it holds; it was at work, or nobody was. *)
LEMMA ThreadMoves ==
    ASSUME th \in [Thread -> Row], Alone, NEW t \in Thread, NEW r \in Row,
           th' = [th EXCEPT ![t] = r], Busy(t) \/ \A u \in Thread : ~Busy(u)
    PROVE  /\ th' \in [Thread -> Row] /\ Alone'
           /\ \A m : UnderWay(m)' => m \in r.todo
<1>1. th' \in [Thread -> Row]
  OBVIOUS
<1>2. \A u \in Thread : u # t => ~Busy(u) /\ th'[u] = th[u]
  BY DEF Alone
<1>3. \A u \in Thread : u # t => th'[u].pc = "idle" /\ th'[u].todo = {}
  BY <1>2, RowUpdates DEF Busy
<1>4. th'[t] = r
  OBVIOUS
<1> QED BY <1>1, <1>3, <1>4 DEF Alone, Busy, UnderWay

CountsStay == UNCHANGED <<failed, orphan, serverDeaths, retries>>

(* Counts that stay, and nothing under way that was not, keep the bounds. *)
LEMMA CountedStays ==
    ASSUME Counted, CountsStay, \A m \in Transition : UnderWay(m)' => UnderWay(m)
    PROVE  Counted'
BY DEF Counted, CountsStay, Limit

(* Nor does an action that is started within its limit, when nothing is under way. *)
LEMMA CountedStarts ==
    ASSUME Counted, CountsTyped, CountsStay,
           \A m \in Transition : UnderWay(m)' => failed[m] =< Def[m].limit
    PROVE  Counted'
<1> SUFFICES ASSUME NEW m \in Transition
             PROVE  /\ orphan'[m] =< serverDeaths'
                    /\ failed'[m] + orphan'[m] =< Limit(m)'
                    /\ UnderWay(m)' => failed'[m] + orphan'[m] < Limit(m)'
  BY DEF Counted
<1>1. /\ failed[m] \in Nat /\ orphan[m] \in Nat /\ serverDeaths \in Nat /\ retries \in Nat
      /\ Def[m].limit \in Nat
  BY Bounds, Limits DEF CountsTyped
<1>2. orphan[m] =< serverDeaths /\ failed[m] + orphan[m] =< Limit(m)
  BY DEF Counted
<1> QED BY <1>1, <1>2 DEF CountsStay, Limit

LEMMA RecordedTypes ==
    ASSUME fact \in [Fact -> {"absent", "yes", "no"}], NEW ms, NEW yes
    PROVE  Recorded(ms, yes) \in [Fact -> {"absent", "yes", "no"}]
BY DEF Recorded

(* What a step of one thread puts in its place: nothing is started beyond its limit. *)
Placed(t) == \E r \in Row : /\ th' = [th EXCEPT ![t] = r]
                            /\ \A m \in r.todo : RetryAvailable(m)
LEMMA PlacedSilent ==
    ASSUME NEW t, NEW r \in Row, r.todo = {}, th' = [th EXCEPT ![t] = r]
    PROVE  Placed(t)
BY DEF Placed

(* The steps that only put one thread at another place. *)
LEMMA Places ==
    ASSUME EngineInv, NEW t \in Thread,
           \/ RunStartedHumanGate(t) \/ LoopEnds(t) \/ LoopRaises(t) \/ LoopRefused(t)
           \/ CompareState(t) \/ FinishTerminal(t) \/ FinishReview(t) \/ FinishStopped(t)
           \/ RaiseInLoop(t) \/ RaiseInGate(t) \/ GiveUp(t)
           \/ WriteState(t) \/ RecordArtifacts(t) \/ CloseGate(t)
    PROVE  UNCHANGED <<failed, orphan, counters>> /\ Busy(t) /\ Placed(t)
<1>h. th[t] \in Row /\ th \in [Thread -> Row] /\ state \in State
  BY DEF EngineInv, RowsTyped
<1>k. th[t].kind \in Kind
  BY <1>h DEF Row, RowType
<1>1. CASE RunStartedHumanGate(t)
  <2> DEFINE m == The(th[t].batch)
  <2>1. m \in Transition /\ th[t].todo = {}
    BY <1>1, <1>h, RowUpdates DEF RunStartedHumanGate, Holding
  <2>2. th' = [th EXCEPT ![t] = IF GateRuns(m) THEN GateThread("background", m)
                                ELSE [th[t] EXCEPT !.pc = "raise"]]
    BY <1>1, <1>h DEF RunStartedHumanGate
  <2>3. UNCHANGED <<failed, orphan, counters>> /\ Busy(t)
    BY <1>1 DEF RunStartedHumanGate, rows, Busy
  <2> HIDE DEF m
  <2>4. GateThread("background", m) \in Row /\ GateThread("background", m).todo = {m}
    BY <2>1, GateRow DEF Kind
  <2>5. [th[t] EXCEPT !.pc = "raise"] \in Row /\ [th[t] EXCEPT !.pc = "raise"].todo = {}
    BY <2>1, <1>h, RowUpdates
  <2>6. CASE GateRuns(m)
    BY <2>2, <2>3, <2>4, <2>6 DEF GateRuns, Placed
  <2>7. CASE ~GateRuns(m)
    BY <2>2, <2>3, <2>5, <2>7, PlacedSilent
  <2> QED BY <2>6, <2>7
<1>2. CASE LoopEnds(t) \/ LoopRaises(t) \/ LoopRefused(t)
  <2>1. th[t].pc = "loop" /\ th[t].todo = {}
    BY <1>2, <1>h, RowUpdates DEF LoopEnds, LoopRaises, LoopRefused, AtLoop
  <2>2. \/ th' = [th EXCEPT ![t] = [th[t] EXCEPT !.pc = "terminal", !.at = state]] /\ state \in Terminal
        \/ th' = [th EXCEPT ![t] = [th[t] EXCEPT !.pc = "raise"]]
        \/ th' = [th EXCEPT ![t] = [th[t] EXCEPT !.pc = "stopped"]]
    BY <1>2, <1>h DEF LoopEnds, LoopRaises, LoopRefused, Goto
  <2>3. UNCHANGED <<failed, orphan, counters>> /\ Busy(t)
    BY <1>2, <2>1 DEF LoopEnds, LoopRaises, LoopRefused, NothingChosen, rows, Busy
  <2>4. /\ [th[t] EXCEPT !.pc = "raise"] \in Row /\ [th[t] EXCEPT !.pc = "raise"].todo = {}
        /\ [th[t] EXCEPT !.pc = "stopped"] \in Row /\ [th[t] EXCEPT !.pc = "stopped"].todo = {}
    BY <2>1, <1>h, RowUpdates
  <2>5. CASE th' = [th EXCEPT ![t] = [th[t] EXCEPT !.pc = "terminal", !.at = state]] /\ state \in Terminal
    <3> DEFINE r == [th[t] EXCEPT !.pc = "terminal", !.at = state]
    <3>1. r \in Row
      BY <2>1, <2>5, <1>h, RowUpdates
    <3>2. r.todo = {}
      BY <2>1, <1>h DEF Row, RowType
    <3>3. th' = [th EXCEPT ![t] = r]
      BY <2>5
    <3> HIDE DEF r
    <3> QED BY <2>3, <3>1, <3>2, <3>3, PlacedSilent
  <2>6. CASE th' = [th EXCEPT ![t] = [th[t] EXCEPT !.pc = "raise"]]
    BY <2>3, <2>4, <2>6, PlacedSilent
  <2>7. CASE th' = [th EXCEPT ![t] = [th[t] EXCEPT !.pc = "stopped"]]
    BY <2>3, <2>4, <2>7, PlacedSilent
  <2> QED BY <2>2, <2>5, <2>6, <2>7
<1>3. CASE CompareState(t) \/ WriteState(t)
  <2>1. th[t].pc \in {"compare", "write"} /\ th[t].todo = {} /\ th[t].batch # {}
    BY <1>3, <1>h, RowUpdates DEF CompareState, WriteState, Holding
  <2>2. \/ th' = [th EXCEPT ![t] = [th[t] EXCEPT !.pc = "write"]]
        \/ th' = [th EXCEPT ![t] = [th[t] EXCEPT !.pc = "raise"]]
        \/ th' = [th EXCEPT ![t] = [th[t] EXCEPT !.pc = "record"]]
        \/ th' = [th EXCEPT ![t] = [Idle EXCEPT !.pc = "loop", !.kind = th[t].kind]]
    BY <1>3, <1>h DEF CompareState, WriteState, Goto
  <2>3. UNCHANGED <<failed, orphan, counters>> /\ Busy(t)
    BY <1>3, <2>1 DEF CompareState, WriteState, rows, Busy
  <2>4. /\ [th[t] EXCEPT !.pc = "write"] \in Row /\ [th[t] EXCEPT !.pc = "write"].todo = {}
        /\ [th[t] EXCEPT !.pc = "raise"] \in Row /\ [th[t] EXCEPT !.pc = "raise"].todo = {}
        /\ [th[t] EXCEPT !.pc = "record"] \in Row /\ [th[t] EXCEPT !.pc = "record"].todo = {}
    BY <2>1, <1>h, RowUpdates DEF Holding
  <2> QED BY <2>2, <2>3, <2>4, <1>k, PlacedSilent, FreshRows
<1>4. CASE RecordArtifacts(t) \/ CloseGate(t)
  <2>1. th[t].pc \in {"record", "close"} /\ th[t].todo = {} /\ th[t].batch # {}
    BY <1>4, <1>h, RowUpdates DEF RecordArtifacts, CloseGate, Holding
  <2>2. \/ th' = [th EXCEPT ![t] = [th[t] EXCEPT !.pc = "close"]]
        \/ th' = [th EXCEPT ![t] = [th[t] EXCEPT !.pc = "raise"]]
        \/ th' = [th EXCEPT ![t] = [Idle EXCEPT !.pc = "loop", !.kind = th[t].kind]]
    BY <1>4 DEF RecordArtifacts, CloseGate
  <2>3. UNCHANGED <<failed, orphan, counters>> /\ Busy(t)
    BY <1>4, <2>1 DEF RecordArtifacts, CloseGate, rows, Busy
  <2>4. /\ [th[t] EXCEPT !.pc = "close"] \in Row /\ [th[t] EXCEPT !.pc = "close"].todo = {}
        /\ [th[t] EXCEPT !.pc = "raise"] \in Row /\ [th[t] EXCEPT !.pc = "raise"].todo = {}
    BY <2>1, <1>h, RowUpdates DEF Holding
  <2> QED BY <2>2, <2>3, <2>4, <1>k, PlacedSilent, FreshRows
<1>5. CASE \/ FinishTerminal(t) \/ FinishReview(t) \/ FinishStopped(t)
           \/ RaiseInLoop(t) \/ RaiseInGate(t) \/ GiveUp(t)
  <2>1. th[t].pc \in {"terminal", "human_gate", "stopped", "raise", "giveup"} /\ th[t].todo = {}
    BY <1>5, <1>h, RowUpdates DEF FinishTerminal, FinishReview, FinishStopped, RaiseInLoop, RaiseInGate, GiveUp
  <2>2. \/ th' = [th EXCEPT ![t] = Idle]
        \/ th' = [th EXCEPT ![t] = [th[t] EXCEPT !.pc = "raise"]]
        \/ th' = [th EXCEPT ![t] = [Idle EXCEPT !.pc = "giveup", !.kind = th[t].kind]]
    BY <1>5, <1>h DEF FinishTerminal, FinishReview, FinishStopped, RaiseInLoop, RaiseInGate, GiveUp
  <2>3. UNCHANGED <<failed, orphan, counters>> /\ Busy(t)
    BY <1>5, <2>1 DEF FinishTerminal, FinishReview, FinishStopped, RaiseInLoop, RaiseInGate, GiveUp, rows, Busy
  <2>4. [th[t] EXCEPT !.pc = "raise"] \in Row /\ [th[t] EXCEPT !.pc = "raise"].todo = {}
    BY <2>1, <1>h, RowUpdates
  <2> QED BY <2>2, <2>3, <2>4, <1>k, PlacedSilent, FreshRows, IdleIsARow
<1> QED BY <1>1, <1>2, <1>3, <1>4, <1>5

(* The rows of the database keep their types in every step of a thread. *)
LEMMA RowsStayTyped ==
    ASSUME EngineInv, NEW t \in Thread,
           \/ RunStartedHumanGate(t) \/ LoopEnds(t) \/ LoopRaises(t) \/ LoopRefused(t)
           \/ CompareState(t) \/ FinishTerminal(t) \/ FinishReview(t) \/ FinishStopped(t)
           \/ RaiseInLoop(t) \/ RaiseInGate(t) \/ GiveUp(t)
           \/ WriteState(t) \/ RecordArtifacts(t) \/ CloseGate(t)
    PROVE  RowsTyped'
<1>1. RowsTyped /\ th[t] \in Row /\ Terminal \subseteq State /\ Failed \in State
  BY Bounds DEF EngineInv
<1>2. CASE RunStartedHumanGate(t) \/ LoopEnds(t) \/ LoopRaises(t) \/ LoopRefused(t)
           \/ CompareState(t) \/ FinishStopped(t)
  BY <1>1, <1>2 DEF RunStartedHumanGate, LoopEnds, LoopRaises, LoopRefused, CompareState,
                    FinishStopped, NothingChosen, rows, RowsTyped
<1>3. CASE FinishTerminal(t) \/ FinishReview(t) \/ GiveUp(t) \/ RaiseInLoop(t)
  <2>1. FinishTerminal(t) => th[t].at \in Terminal
    BY <1>1, RowUpdates DEF FinishTerminal
  <2> QED BY <1>1, <1>3, <2>1 DEF FinishTerminal, FinishReview, GiveUp, RaiseInLoop, rows, RowsTyped
<1>4. CASE RaiseInGate(t)
  BY <1>1, <1>4 DEF RaiseInGate, rows, RowsTyped
<1>5. CASE WriteState(t)
  <2>1. The(th[t].batch) \in Transition
    BY <1>1, <1>5, RowUpdates DEF WriteState, Holding
  <2>2. state' \in State
    BY <1>5, <2>1, Limits DEF WriteState
  <2>3. \A m \in Transition, b \in BOOLEAN : [success[m] EXCEPT !.group = b] \in SuccessType
    BY <1>1 DEF RowsTyped, SuccessType
  <2>4. NoSuccess \in SuccessType
    BY DEF NoSuccess, SuccessType
  <2>5. Consumed(th[t].batch) \in [Transition -> SuccessType]
    <3> SUFFICES ASSUME NEW m \in Transition PROVE Consumed(th[t].batch)[m] \in SuccessType
      BY DEF Consumed
    <3>1. success[m] \in SuccessType /\ success[m].group \in BOOLEAN
      BY <1>1 DEF RowsTyped, SuccessType
    <3> DEFINE g == success[m].group /\ \A n \in th[t].batch : Def[m].group # Def[n].group
    <3>2. g \in BOOLEAN
      BY <3>1
    <3>3. Consumed(th[t].batch)[m] = IF IsParallel(th[t].batch) THEN [success[m] EXCEPT !.group = g]
                                     ELSE IF m \in th[t].batch THEN NoSuccess ELSE success[m]
      BY DEF Consumed
    <3> HIDE DEF g
    <3> QED BY <2>3, <2>4, <3>1, <3>2, <3>3
  <2> QED BY <1>1, <1>5, <2>2, <2>5 DEF WriteState, RowsTyped
<1>6. CASE RecordArtifacts(t)
  BY <1>1, <1>6 DEF RecordArtifacts, Recorded, rows, RowsTyped
<1>7. CASE CloseGate(t)
  <2>1. gate' \in [Human -> {"none", "pending", "running", "resolved"}]
    BY <1>1, <1>7 DEF CloseGate, RowsTyped
  <2> QED BY <1>1, <1>7, <2>1 DEF CloseGate, rows, RowsTyped
<1> QED BY <1>2, <1>3, <1>4, <1>5, <1>6, <1>7

(* One thread was at work, or nobody: what it starts is within its limit. *)
LEMMA PlacedKeeps ==
    ASSUME EngineInv, RowsTyped', NEW t \in Thread, Placed(t),
           Busy(t) \/ \A u \in Thread : ~Busy(u), UNCHANGED <<failed, orphan, counters>>
    PROVE  EngineInv'
<1>1. PICK r \in Row : th' = [th EXCEPT ![t] = r] /\ \A m \in r.todo : RetryAvailable(m)
  BY DEF Placed
<1>2. /\ th' \in [Thread -> Row] /\ Alone'
      /\ \A m : UnderWay(m)' => m \in r.todo
  BY <1>1, ThreadMoves DEF EngineInv
<1>3. Counted'
  BY <1>1, <1>2, CountedStarts DEF RetryAvailable, CountsStay, counters, EngineInv
<1>4. CountsTyped'
  BY DEF CountsTyped, counters, EngineInv
<1> QED BY <1>2, <1>3, <1>4 DEF EngineInv

LEMMA LoopOpensGatesKeeps == ASSUME EngineInv, NEW t \in Thread, LoopOpensGates(t) PROVE EngineInv'
<1>1. /\ RowsTyped /\ CountsTyped /\ th \in [Thread -> Row] /\ Alone /\ Counted
      /\ UNCHANGED <<state, attempt, fact, failed, success, orphan, counters>>
  BY DEF EngineInv, LoopOpensGates, NothingChosen, rows
<1>2. /\ th[t].todo = {} /\ th[t].pc = "loop"
      /\ \A q \in {"stopped", "human_gate"} : [th[t] EXCEPT !.pc = q] \in Row
  BY <1>1, RowUpdates DEF LoopOpensGates, AtLoop
<1>3. ASSUME NEW u \in Thread \ {t}, NEW b \in BOOLEAN
      PROVE  /\ [th[u] EXCEPT !.row = b] \in Row
             /\ [th[u] EXCEPT !.row = b].pc = th[u].pc /\ [th[u] EXCEPT !.row = b].todo = th[u].todo
  <2>1. th[u] \in Row
    BY <1>1
  <2> QED BY <2>1 DEF Row, RowType
<1> DEFINE opened == Matching(state, "human")
           new == {m \in opened : ~GateIsOpen(m)}
           q == IF opened = {} THEN "stopped" ELSE "human_gate"
<1>4. th' = [u \in Thread |-> IF u = t THEN [th[t] EXCEPT !.pc = q]
                              ELSE [th[u] EXCEPT !.row = th[u].row /\ th[u].batch \cap new = {}]]
  BY DEF LoopOpensGates
<1>5. q \in {"stopped", "human_gate"}
  OBVIOUS
<1> HIDE DEF opened, new, q
<1>6. \A u \in Thread \ {t} : th'[u] \in Row /\ th'[u].pc = th[u].pc /\ th'[u].todo = th[u].todo
  <2> SUFFICES ASSUME NEW u \in Thread \ {t}
               PROVE  th'[u] \in Row /\ th'[u].pc = th[u].pc /\ th'[u].todo = th[u].todo
    OBVIOUS
  <2> DEFINE b == th[u].row /\ th[u].batch \cap new = {}
  <2>1. th[u].row \in BOOLEAN
    BY <1>1 DEF Row, RowType
  <2>2. b \in BOOLEAN
    BY <2>1
  <2>3. th'[u] = [th[u] EXCEPT !.row = b]
    BY <1>4
  <2> HIDE DEF b
  <2> QED BY <1>3, <2>2, <2>3
<1>7. th'[t] = [th[t] EXCEPT !.pc = q] /\ th'[t] \in Row /\ th'[t].todo = {}
  <2>1. th'[t] = [th[t] EXCEPT !.pc = q]
    BY <1>4
  <2>2. [th[t] EXCEPT !.pc = q] \in Row
    BY <1>2, <1>5
  <2>3. [th[t] EXCEPT !.pc = q].todo = {}
    BY <1>1, <1>2 DEF Row, RowType
  <2> QED BY <2>1, <2>2, <2>3
<1>8. th' \in [Thread -> Row]
  <2>1. DOMAIN th' = Thread /\ th' = [u \in Thread |-> th'[u]]
    BY <1>4
  <2> QED BY <1>6, <1>7, <2>1
<1>9. Alone'
  <2>1. \A u \in Thread : u # t => ~Busy(u)
    BY <1>1, <1>2 DEF Alone, Busy
  <2> QED BY <1>6, <2>1 DEF Alone, Busy
<1>10. Counted'
  <2>1. \A m \in Transition : UnderWay(m)' => UnderWay(m)
    BY <1>6, <1>7 DEF UnderWay
  <2> QED BY <1>1, <2>1, CountedStays DEF CountsStay, counters
<1>11. gate' \in [Human -> {"none", "pending", "running", "resolved"}]
  BY <1>1 DEF LoopOpensGates, RowsTyped
<1>12. RowsTyped' /\ CountsTyped'
  BY <1>1, <1>11 DEF RowsTyped, CountsTyped, counters
<1> QED BY <1>8, <1>9, <1>10, <1>12 DEF EngineInv

(* The loop starts a batch: each of its actions is within its limit. *)
LEMMA LoopStartsKeeps == ASSUME EngineInv, NEW t \in Thread, LoopStarts(t) PROVE EngineInv'
<1> DEFINE batch == Matching(state, "automatic")
           kept == {m \in batch : GroupCheckpoint(m)}
           h == [Idle EXCEPT !.kind = th[t].kind, !.at = state]
<1>1. /\ RowsTyped /\ CountsTyped /\ th \in [Thread -> Row] /\ Alone /\ Counted
      /\ UNCHANGED <<state, attempt, gate, failed, success, orphan, counters>>
      /\ Busy(t) /\ batch # {}
  BY DEF EngineInv, LoopStarts, rows, AtLoop, Busy
<1>2. h \in Fresh
  BY <1>1, FreshIs DEF RowsTyped, Row, RowType
<1>3. batch \subseteq Transition /\ \A m \in batch : RetryAvailable(m)
  BY DEF Matching, Conditioned
<1>4. The(batch) \in batch
  BY <1>1 DEF The
<1>5. \/ th' = [th EXCEPT ![t] = [h EXCEPT !.batch = batch, !.pc = "compare"]]
      \/ th' = [th EXCEPT ![t] = Begun(h, batch, batch \ kept)]
      \/ th' = [th EXCEPT ![t] = RunSingle(h, The(batch))]
  BY DEF LoopStarts
<1>6. fact' \in [Fact -> {"absent", "yes", "no"}]
  BY <1>1 DEF LoopStarts, Recorded, RowsTyped
<1>7. kept \subseteq batch
  OBVIOUS
<1> HIDE DEF batch, kept, h
<1>8. /\ [h EXCEPT !.batch = batch, !.pc = "compare"] \in Row
      /\ [h EXCEPT !.batch = batch, !.pc = "compare"].todo = {}
  BY <1>1, <1>2, <1>3, BegunRow
<1>9. Begun(h, batch, batch \ kept) \in Row /\ Begun(h, batch, batch \ kept).todo = batch \ kept
  <2>1. batch \ kept \in SUBSET Transition
    BY <1>3
  <2> QED BY <1>1, <1>2, <1>3, <2>1, BegunRow
<1>10. RunSingle(h, The(batch)) \in Row /\ RunSingle(h, The(batch)).todo \subseteq {The(batch)}
  BY <1>1, <1>2, <1>3, <1>4, SingleRow DEF RowsTyped
<1>11. Placed(t)
  <2>1. CASE th' = [th EXCEPT ![t] = [h EXCEPT !.batch = batch, !.pc = "compare"]]
    BY <1>8, <2>1, PlacedSilent
  <2>2. CASE th' = [th EXCEPT ![t] = Begun(h, batch, batch \ kept)]
    BY <1>3, <1>9, <2>2 DEF Placed
  <2>3. CASE th' = [th EXCEPT ![t] = RunSingle(h, The(batch))]
    BY <1>3, <1>4, <1>10, <2>3 DEF Placed
  <2> QED BY <1>5, <2>1, <2>2, <2>3
<1>12. RowsTyped'
  BY <1>1, <1>6 DEF RowsTyped
<1> QED BY <1>1, <1>11, <1>12, PlacedKeeps

(***************************************************************************)
(* Actions return                                                          *)
(***************************************************************************)

LEMMA ReturnsKeep ==
    ASSUME EngineInv, NEW t \in Thread, NEW m \in Transition, ActionReturns(t, m)
    PROVE  EngineInv'
<1>1. /\ RowsTyped /\ CountsTyped /\ th \in [Thread -> Row] /\ Alone /\ Counted
      /\ th[t] \in Row /\ th[t].pc = "run" /\ m \in th[t].todo /\ th[t].marked = {}
      /\ Busy(t) /\ m \notin th[t].marked
      /\ UNCHANGED <<state, attempt, gate, orphan, counters>>
  BY RowUpdates DEF EngineInv, ActionReturns, ActionSucceeds, ActionFails, Busy
<1>2. \E r \in Row : th' = [th EXCEPT ![t] = r] /\ r.todo = th[t].todo \ {m}
  <2>1. CASE ActionFails(t, m)
    BY <1>1, <2>1, AfterRowIs DEF ActionFails
  <2>2. CASE \E yes \in SUBSET Def[m].out : ActionSucceeds(t, m, yes)
    <3>1. PICK yes \in SUBSET Def[m].out : ActionSucceeds(t, m, yes)
      BY <2>2
    <3>2. PICK y \in SUBSET Fact : th' = [th EXCEPT ![t] = [AfterRow(th[t], m, TRUE) EXCEPT !.yes = y]]
      <4>1. yes \in SUBSET Fact
        BY <3>1, DefAssumption
      <4> QED BY <3>1, <4>1 DEF ActionSucceeds
    <3>3. /\ [AfterRow(th[t], m, TRUE) EXCEPT !.yes = y] \in Row
          /\ [AfterRow(th[t], m, TRUE) EXCEPT !.yes = y].todo = th[t].todo \ {m}
      BY <1>1, AfterRowIs
    <3> QED BY <3>2, <3>3
  <2> QED BY <2>1, <2>2 DEF ActionReturns
<1>3. PICK r \in Row : th' = [th EXCEPT ![t] = r] /\ r.todo = th[t].todo \ {m}
  BY <1>2
<1>4. /\ th' \in [Thread -> Row] /\ Alone'
      /\ \A n : UnderWay(n)' => n \in r.todo
  BY <1>1, <1>3, ThreadMoves
<1>5. \A n : UnderWay(n)' => n # m /\ UnderWay(n)
  BY <1>3, <1>4 DEF UnderWay
<1>6. CASE ActionFails(t, m)
  <2>1. failed' = [failed EXCEPT ![m] = failed[m] + 1] /\ UNCHANGED <<fact, success>>
    BY <1>1, <1>6 DEF ActionFails
  <2>2. failed' \in [Transition -> Nat]
    BY <1>1, <2>1 DEF CountsTyped
  <2>3. Counted'
    <3> SUFFICES ASSUME NEW n \in Transition
                 PROVE  /\ orphan'[n] =< serverDeaths'
                        /\ failed'[n] + orphan'[n] =< Limit(n)'
                        /\ UnderWay(n)' => failed'[n] + orphan'[n] < Limit(n)'
      BY DEF Counted
    <3>1. /\ failed[n] \in Nat /\ orphan[n] \in Nat /\ serverDeaths \in Nat /\ retries \in Nat
          /\ Def[n].limit \in Nat
      BY <1>1, Bounds, Limits DEF CountsTyped
    <3>2. /\ orphan[n] =< serverDeaths /\ failed[n] + orphan[n] =< Limit(n)
          /\ UnderWay(n) => failed[n] + orphan[n] < Limit(n)
      BY <1>1 DEF Counted
    <3>3. /\ n # m => failed'[n] = failed[n]
          /\ n = m => failed'[n] = failed[n] + 1
      BY <1>1, <2>1 DEF CountsTyped
    <3>4. UnderWay(m)
      BY <1>1 DEF UnderWay
    <3>5. Limit(n)' = Limit(n) /\ Limit(n) \in Nat /\ orphan'[n] = orphan[n] /\ serverDeaths' = serverDeaths
      BY <1>1, <3>1 DEF Limit, counters
    <3> QED BY <1>5, <3>1, <3>2, <3>3, <3>4, <3>5
  <2>4. RowsTyped' /\ CountsTyped'
    BY <1>1, <2>1, <2>2 DEF RowsTyped, CountsTyped, counters
  <2> QED BY <1>4, <2>3, <2>4 DEF EngineInv
<1>7. CASE \E yes \in SUBSET Def[m].out : ActionSucceeds(t, m, yes)
  <2>1. PICK yes \in SUBSET Def[m].out : ActionSucceeds(t, m, yes)
    BY <1>7
  <2>2. failed' = failed
    BY <1>1, <2>1 DEF ActionSucceeds, CountsTyped
  <2>3. Counted'
    BY <1>1, <1>5, <2>2, CountedStays DEF CountsStay, counters
  <2>4. success' \in [Transition -> SuccessType]
    <3>1. [own |-> TRUE, group |-> TRUE, yes |-> yes] \in SuccessType
      BY DefAssumption DEF SuccessType
    <3> QED BY <1>1, <2>1, <3>1 DEF ActionSucceeds, RowsTyped
  <2>5. fact' \in [Fact -> {"absent", "yes", "no"}]
    BY <1>1, <2>1 DEF ActionSucceeds, Recorded, RowsTyped
  <2>6. RowsTyped' /\ CountsTyped'
    BY <1>1, <2>2, <2>4, <2>5 DEF RowsTyped, CountsTyped, counters
  <2> QED BY <1>4, <2>3, <2>6 DEF EngineInv
<1> QED BY <1>6, <1>7 DEF ActionReturns

LEMMA StepKeeps == ASSUME EngineInv, NEW t \in Thread, Step(t) PROVE EngineInv'
<1>1. CASE \/ RunStartedHumanGate(t) \/ LoopEnds(t) \/ LoopRaises(t) \/ LoopRefused(t)
           \/ CompareState(t) \/ FinishTerminal(t) \/ FinishReview(t) \/ FinishStopped(t)
           \/ RaiseInLoop(t) \/ RaiseInGate(t) \/ GiveUp(t)
           \/ WriteState(t) \/ RecordArtifacts(t) \/ CloseGate(t)
  BY <1>1, Places, RowsStayTyped, PlacedKeeps
<1>2. CASE LoopOpensGates(t) \/ LoopStarts(t)
  BY <1>2, LoopOpensGatesKeeps, LoopStartsKeeps
<1>3. CASE \E m \in Transition : ActionReturns(t, m)
  BY <1>3, ReturnsKeep
<1> QED BY <1>1, <1>2, <1>3 DEF Step

(***************************************************************************)
(* Threads start, while nobody is at work                                  *)
(***************************************************************************)

OneStarts == \E t \in Thread : MayStart(t) /\ Placed(t)

LEMMA StartsKeep ==
    ASSUME EngineInv, ~Overlap,
           RunAttempt \/ AdvanceReady \/ \E t \in Request, m \in Human : RunHumanGate(t, m) \/ StartHumanGate(t, m)
    PROVE  EngineInv'
<1>1. RowsTyped /\ th \in [Thread -> Row]
  BY DEF EngineInv
<1>2. OneStarts
  <2>1. CASE RunAttempt
    <3>1. [Idle EXCEPT !.pc = "loop"] \in Row /\ [Idle EXCEPT !.pc = "loop"].todo = {}
      BY Bounds DEF Idle, Row, RowType, Pc, Kind, Holding
    <3>2. Placed("worker")
      BY <2>1, <3>1, PlacedSilent DEF RunAttempt
    <3> QED BY <2>1, <3>2 DEF RunAttempt, Thread, OneStarts
  <2>2. CASE AdvanceReady
    <3>1. /\ [Idle EXCEPT !.pc = "loop", !.kind = "cycle"] \in Row
          /\ [Idle EXCEPT !.pc = "loop", !.kind = "cycle"].todo = {}
      BY FreshRows DEF Kind
    <3>2. Placed("cycle")
      BY <2>2, <3>1, PlacedSilent DEF AdvanceReady
    <3> QED BY <2>2, <3>2 DEF AdvanceReady, Thread, OneStarts
  <2>3. ASSUME NEW t \in Request, NEW m \in Human, RunHumanGate(t, m) PROVE OneStarts
    <3>1. GateThread("gate", m) \in Row /\ GateThread("gate", m).todo = {m}
      BY GateRow DEF Kind, Human
    <3>2. Placed(t)
      BY <2>3, <3>1 DEF RunHumanGate, GateRuns, Placed
    <3> QED BY <2>3, <3>2 DEF RunHumanGate, Thread, OneStarts
  <2>4. ASSUME NEW t \in Request, NEW m \in Human, StartHumanGate(t, m) PROVE OneStarts
    <3> DEFINE g == GateThread("background", m)
    <3>1. g \in Row
      BY GateRow DEF Kind, Human
    <3>2. g.batch # {}
      BY DEF GateThread, Begun, Started, Idle
    <3>3. th' = [th EXCEPT ![t] = [g EXCEPT !.pc = "recheck", !.todo = {}]] /\ MayStart(t)
      BY <2>4 DEF StartHumanGate
    <3> HIDE DEF g
    <3>4. [g EXCEPT !.pc = "recheck", !.todo = {}] \in Row /\ [g EXCEPT !.pc = "recheck", !.todo = {}].todo = {}
      BY <3>1, <3>2 DEF Row, RowType, Pc, Holding
    <3>5. Placed(t)
      BY <3>3, <3>4, PlacedSilent
    <3> QED BY <3>3, <3>5 DEF Thread, OneStarts
  <2> QED BY <2>1, <2>2, <2>3, <2>4
<1>3. PICK t \in Thread : MayStart(t) /\ Placed(t)
  BY <1>2 DEF OneStarts
<1>4. UNCHANGED <<failed, orphan, counters>>
  BY DEF RunAttempt, AdvanceReady, RunHumanGate, StartHumanGate, rows
<1>5. RowsTyped'
  BY <1>1 DEF RunAttempt, AdvanceReady, RunHumanGate, StartHumanGate, StartGate, rows, RowsTyped
<1>6. \A u \in Thread : ~Busy(u)
  BY <1>3 DEF MayStart
<1> QED BY <1>3, <1>4, <1>5, <1>6, PlacedKeeps

(* A manual retry ignores the limit, and raises it by one. *)
LEMMA RetryKeeps ==
    ASSUME EngineInv, ~Overlap, NEW t \in Request, NEW m \in Transition, RetryFailedAction(t, m)
    PROVE  EngineInv'
<1> DEFINE h == [Idle EXCEPT !.kind = "retry", !.sole = TRUE, !.at = Def[m].from]
<1>1. /\ RowsTyped /\ CountsTyped /\ th \in [Thread -> Row] /\ Alone /\ Counted
      /\ t \in Thread /\ (\A u \in Thread : ~Busy(u))
      /\ UNCHANGED <<gate, fact, failed, success, orphan, workerDeaths, serverDeaths, requeues>>
      /\ retries' = retries + 1 /\ retries < MaxRetries
      /\ state' = Def[m].from /\ attempt' = "running"
      /\ th' = [th EXCEPT ![t] = RunSingle(h, m)]
  BY DEF EngineInv, RetryFailedAction, MayStart, RetryPrepared, rows, Thread
<1>2. h \in Fresh
  BY FreshIs, Limits DEF Kind
<1> HIDE DEF h
<1>3. RunSingle(h, m) \in Row
  BY <1>1, <1>2, SingleRow DEF RowsTyped
<1>4. th' \in [Thread -> Row] /\ Alone'
  BY <1>1, <1>3, ThreadMoves
<1>5. RowsTyped'
  BY <1>1, Limits DEF RowsTyped
<1>6. CountsTyped'
  BY <1>1, Bounds DEF CountsTyped
<1>7. Counted'
  <2> SUFFICES ASSUME NEW n \in Transition
               PROVE  orphan'[n] =< serverDeaths' /\ failed'[n] + orphan'[n] < Limit(n)'
    BY <1>1, <1>6, Limits, Bounds DEF Counted, CountsTyped, Limit
  <2>1. /\ failed[n] \in Nat /\ orphan[n] \in Nat /\ serverDeaths \in Nat /\ retries \in Nat
        /\ Def[n].limit \in Nat
    BY <1>1, Bounds, Limits DEF CountsTyped
  <2>2. orphan[n] =< serverDeaths /\ failed[n] + orphan[n] =< Def[n].limit + 1 + retries + serverDeaths
    BY <1>1 DEF Counted, Limit
  <2> QED BY <1>1, <2>1, <2>2 DEF Limit
<1> QED BY <1>4, <1>5, <1>6, <1>7 DEF EngineInv

(***************************************************************************)
(* Crashes                                                                 *)
(***************************************************************************)

(* Of a thread at work, the rows that are running are those that are under way. *)
LEMMA RunningRows ==
    ASSUME EngineInv, NEW u \in Thread, Busy(u), NEW T \in SUBSET Thread, u \in T, NEW m \in Transition
    PROVE  Cardinality({t \in T : m \in th[t].todo \ th[t].marked}) = IF UnderWay(m) THEN 1 ELSE 0
<1>1. \A t \in Thread : t # u => th[t].todo = {}
  BY RowUpdates DEF EngineInv, Alone, Busy
<1>2. \A t \in Thread : th[t].marked = {}
  BY RowUpdates DEF EngineInv
<1>3. CASE UnderWay(m)
  <2>1. {t \in T : m \in th[t].todo \ th[t].marked} = {u}
    BY <1>1, <1>2, <1>3 DEF UnderWay
  <2> QED BY <1>3, <2>1, FS_Singleton
<1>4. CASE ~UnderWay(m)
  <2>1. {t \in T : m \in th[t].todo \ th[t].marked} = {}
    BY <1>2, <1>4 DEF UnderWay
  <2> QED BY <1>4, <2>1, FS_EmptySet
<1> QED BY <1>3, <1>4

LEMMA WorkerDiesKeeps == ASSUME EngineInv, WorkerDies PROVE EngineInv'
<1>1. /\ RowsTyped /\ CountsTyped /\ th \in [Thread -> Row] /\ Alone /\ Counted
      /\ "worker" \in Thread /\ Busy("worker") /\ th["worker"] \in Row
      /\ th' = [th EXCEPT !["worker"] = [th["worker"] EXCEPT !.pc = "dead"]]
      /\ UNCHANGED <<state, attempt, gate, fact, failed, success, orphan, serverDeaths, requeues, retries>>
      /\ workerDeaths < MaxWorkerDeaths /\ workerDeaths' = workerDeaths + 1
  BY DEF EngineInv, WorkerDies, Goto, Busy, Thread, rows
<1>2. [th["worker"] EXCEPT !.pc = "dead"] \in Row
  BY <1>1, RowUpdates
<1>3. [th["worker"] EXCEPT !.pc = "dead"].todo = th["worker"].todo
  BY <1>1 DEF Row, RowType
<1>4. /\ th' \in [Thread -> Row] /\ Alone'
      /\ \A m : UnderWay(m)' => m \in th["worker"].todo
  BY <1>1, <1>2, <1>3, ThreadMoves
<1>5. Counted'
  <2>1. \A m \in Transition : UnderWay(m)' => UnderWay(m)
    BY <1>1, <1>4 DEF UnderWay
  <2> QED BY <1>1, <2>1, CountedStays DEF CountsStay
<1>6. RowsTyped' /\ CountsTyped'
  <2>1. workerDeaths' \in 0..MaxWorkerDeaths
    BY <1>1, Bounds DEF CountsTyped
  <2> QED BY <1>1, <2>1 DEF RowsTyped, CountsTyped
<1> QED BY <1>4, <1>5, <1>6 DEF EngineInv

(* Nothing is under way when every thread is idle. *)
LEMMA IdleThreads ==
    ASSUME th' \in [Thread -> Row], \A t \in Thread : th'[t].pc = "idle"
    PROVE  Alone' /\ \A m : ~UnderWay(m)'
BY RowUpdates DEF Alone, Busy, UnderWay

LEMMA FailAndRetryKeeps == ASSUME EngineInv, FailAndRetry PROVE EngineInv'
<1>1. /\ RowsTyped /\ CountsTyped /\ th \in [Thread -> Row] /\ Alone /\ Counted
      /\ "worker" \in Thread /\ Busy("worker")
      /\ UNCHANGED <<gate, fact, success, workerDeaths, serverDeaths, retries>>
  BY DEF EngineInv, FailAndRetry, Busy, Thread
<1>2. /\ th' \in [Thread -> Row] /\ \A t \in Thread : th'[t].pc = "idle"
  <2>1. \A t \in Thread : t # "worker" => th[t].pc = "idle" /\ th[t].todo = {} /\ th[t] \in Row
    BY <1>1, RowUpdates DEF Alone, Busy
  <2>2. ASSUME NEW t \in Thread, t # "worker"
        PROVE  /\ [th[t] EXCEPT !.marked = th[t].todo] \in Row
               /\ [th[t] EXCEPT !.marked = th[t].todo].pc = "idle"
    BY <2>1, <2>2 DEF Row, RowType, Holding
  <2>3. th' = [t \in Thread |-> IF t = "worker" THEN Idle ELSE [th[t] EXCEPT !.marked = th[t].todo]]
    BY DEF FailAndRetry
  <2> QED BY <2>2, <2>3, IdleIsARow
<1>3. Alone' /\ \A m : ~UnderWay(m)'
  BY <1>2, IdleThreads
<1>4. /\ orphan' = [m \in Transition |-> 0]
      /\ \A m \in Transition :
           failed'[m] = failed[m] + orphan[m] + IF UnderWay(m) THEN 1 ELSE 0
  <2>1. /\ orphan' = [m \in Transition |-> 0]
        /\ failed' = [m \in Transition |->
             failed[m] + orphan[m] + Cardinality({t \in Thread : m \in th[t].todo \ th[t].marked})]
    BY DEF FailAndRetry
  <2>2. \A m \in Transition :
          Cardinality({t \in Thread : m \in th[t].todo \ th[t].marked}) = IF UnderWay(m) THEN 1 ELSE 0
    BY <1>1, RunningRows
  <2> QED BY <2>1, <2>2
<1>5. failed' \in [Transition -> Nat]
  <2>1. ASSUME NEW m \in Transition PROVE failed'[m] \in Nat
    <3>1. failed[m] \in Nat /\ orphan[m] \in Nat
      BY <1>1 DEF CountsTyped
    <3>2. failed'[m] = failed[m] + orphan[m] + IF UnderWay(m) THEN 1 ELSE 0
      BY <1>4
    <3> QED BY <3>1, <3>2
  <2> DEFINE f(m) == failed[m] + orphan[m] + Cardinality({t \in Thread : m \in th[t].todo \ th[t].marked})
  <2>2. failed' = [m \in Transition |-> f(m)]
    BY DEF FailAndRetry
  <2> HIDE DEF f
  <2> QED BY <2>1, <2>2
<1>6. Counted'
  <2> SUFFICES ASSUME NEW m \in Transition
               PROVE  orphan'[m] =< serverDeaths' /\ failed'[m] + orphan'[m] =< Limit(m)'
    BY <1>3 DEF Counted
  <2>1. /\ failed[m] \in Nat /\ orphan[m] \in Nat /\ serverDeaths \in Nat /\ retries \in Nat
        /\ Def[m].limit \in Nat
    BY <1>1, Bounds, Limits DEF CountsTyped
  <2>2. /\ failed[m] + orphan[m] =< Limit(m)
        /\ UnderWay(m) => failed[m] + orphan[m] < Limit(m)
    BY <1>1 DEF Counted
  <2>3. Limit(m)' = Limit(m) /\ Limit(m) \in Nat
    BY <1>1, <2>1 DEF Limit
  <2> QED BY <1>1, <1>4, <2>1, <2>2, <2>3
<1>7. /\ state' \in State
      /\ attempt' \in {"queued", "running", "review", "failed"} \cup Terminal
      /\ requeues' \in 0..RetryLimit
  BY <1>1, Bounds DEF FailAndRetry, MayRequeue, GivenUp, RowsTyped, CountsTyped
<1>8. RowsTyped' /\ CountsTyped'
  BY <1>1, <1>4, <1>5, <1>7 DEF RowsTyped, CountsTyped
<1> QED BY <1>2, <1>3, <1>6, <1>8 DEF EngineInv

LEMMA ServerDiesKeeps == ASSUME EngineInv, ServerDies PROVE EngineInv'
<1> DEFINE gone == {t \in Thread \ {"worker"} : Busy(t)}
<1>1. /\ RowsTyped /\ CountsTyped /\ th \in [Thread -> Row] /\ Alone /\ Counted
      /\ gone # {} /\ serverDeaths < MaxServerDeaths /\ serverDeaths' = serverDeaths + 1
      /\ th' = [t \in Thread |-> IF t \in gone THEN Idle ELSE th[t]]
      /\ UNCHANGED <<state, attempt, gate, fact, failed, success, workerDeaths, requeues, retries>>
  BY DEF EngineInv, ServerDies
<1>2. PICK u \in Thread : u \in gone /\ Busy(u)
  BY <1>1
<1>3. /\ th' \in [Thread -> Row] /\ \A t \in Thread : th'[t].pc = "idle"
  <2>1. \A t \in Thread : t # u => th[t].pc = "idle"
    BY <1>1, <1>2 DEF Alone, Busy
  <2> QED BY <1>1, <1>2, <2>1, IdleIsARow
<1>4. Alone' /\ \A m : ~UnderWay(m)'
  BY <1>3, IdleThreads
<1>5. \A m \in Transition : orphan'[m] = orphan[m] + IF UnderWay(m) THEN 1 ELSE 0
  <2>1. orphan' = [m \in Transition |->
            orphan[m] + Cardinality({t \in gone : m \in th[t].todo \ th[t].marked})]
    BY DEF ServerDies
  <2>2. gone \in SUBSET Thread
    OBVIOUS
  <2> HIDE DEF gone
  <2> QED BY <1>2, <2>1, <2>2, RunningRows
<1>6. orphan' \in [Transition -> Nat]
  <2>1. \A m \in Transition : orphan'[m] \in Nat
    BY <1>1, <1>5 DEF CountsTyped
  <2>2. orphan' = [m \in Transition |-> orphan'[m]]
    BY DEF ServerDies
  <2> QED BY <2>1, <2>2
<1>7. Counted'
  <2> SUFFICES ASSUME NEW m \in Transition
               PROVE  orphan'[m] =< serverDeaths' /\ failed'[m] + orphan'[m] =< Limit(m)'
    BY <1>4 DEF Counted
  <2>1. /\ failed[m] \in Nat /\ orphan[m] \in Nat /\ serverDeaths \in Nat /\ retries \in Nat
        /\ Def[m].limit \in Nat
    BY <1>1, Bounds, Limits DEF CountsTyped
  <2>2. /\ orphan[m] =< serverDeaths /\ failed[m] + orphan[m] =< Limit(m)
    BY <1>1 DEF Counted
  <2>3. Limit(m)' = Limit(m) + 1 /\ Limit(m) \in Nat /\ failed'[m] = failed[m]
    BY <1>1, <2>1 DEF Limit
  <2> QED BY <1>1, <1>5, <2>1, <2>2, <2>3
<1>8. RowsTyped' /\ CountsTyped'
  <2>1. serverDeaths' \in 0..MaxServerDeaths
    BY <1>1, Bounds DEF CountsTyped
  <2> QED BY <1>1, <1>6, <2>1 DEF RowsTyped, CountsTyped
<1> QED BY <1>3, <1>4, <1>7, <1>8 DEF EngineInv

(***************************************************************************)
(* Theorems                                                                *)
(***************************************************************************)

LEMMA InitEngine == Init => EngineInv
<1> SUFFICES ASSUME Init PROVE EngineInv
  OBVIOUS
<1>1. RowsTyped
  BY Bounds DEF Init, Created, RowsTyped, NoSuccess, SuccessType
<1>2. CountsTyped
  BY Bounds DEF Init, Created, CountsTyped
<1>3. th \in [Thread -> Row] /\ Alone /\ \A m : ~UnderWay(m)
  BY IdleIsARow DEF Init, Alone, Busy, UnderWay
<1>4. Counted
  BY <1>2, <1>3, Limits DEF Init, Created, Counted, Limit
<1> QED BY <1>1, <1>2, <1>3, <1>4 DEF EngineInv

LEMMA NextEngine == ASSUME ~Overlap PROVE EngineInv /\ [Next]_vars => EngineInv'
<1> SUFFICES ASSUME EngineInv, [Next]_vars PROVE EngineInv'
  OBVIOUS
<1>1. CASE UNCHANGED vars
  <2>1. \A m : UnderWay(m)' <=> UnderWay(m)
    BY <1>1 DEF vars, UnderWay
  <2>2. UNCHANGED <<failed, orphan, counters>>
    BY <1>1 DEF vars, counters
  <2>3. Counted'
    BY <2>1, <2>2, CountedStays DEF CountsStay, counters, EngineInv
  <2>4. RowsTyped' /\ CountsTyped' /\ th' \in [Thread -> Row] /\ Alone'
    BY <1>1 DEF vars, EngineInv, RowsTyped, CountsTyped, Alone, Busy
  <2> QED BY <2>3, <2>4 DEF EngineInv
<1>2. CASE RunAttempt \/ AdvanceReady
  BY <1>2, StartsKeep
<1>3. CASE \E t \in Request : Decide(t)
  BY <1>3, StartsKeep, RetryKeeps DEF Decide
<1>4. CASE \E t \in Thread : Step(t)
  BY <1>4, StepKeeps
<1>5. CASE WorkerDies \/ FailAndRetry \/ ServerDies
  BY <1>5, WorkerDiesKeeps, FailAndRetryKeeps, ServerDiesKeeps
<1> QED BY <1>1, <1>2, <1>3, <1>4, <1>5 DEF Next

LEMMA EngineTypes == EngineInv => TypeOK
<1> SUFFICES ASSUME EngineInv PROVE TypeOK
  OBVIOUS
<1>1. th \in [Thread -> RowType]
  BY DEF EngineInv, Row
<1> QED BY <1>1 DEF EngineInv, RowsTyped, CountsTyped, TypeOK, RowType, SuccessType

(* As long as the threads of an instance follow one another, every variable keeps its     *)
(* type, for every workflow and every choice of crash windows.                            *)
THEOREM TypesAreKept == ASSUME ~Overlap PROVE Spec => []TypeOK
<1> QED BY InitEngine, NextEngine, EngineTypes, PTL DEF Spec

(* Then the failures of an action, whoever counts them, stay within one more than its     *)
(* limit, one for every manual retry and one for every death of the server                *)
(* (failed_workflow_action_runs, transition_retry_available).                             *)
THEOREM FailuresAreBounded == ASSUME ~Overlap PROVE Spec => []RetriesBounded
<1>1. EngineInv => RetriesBounded
  BY DEF EngineInv, Counted, Limit, RetriesBounded
<1> QED BY InitEngine, NextEngine, <1>1, PTL DEF Spec


(***************************************************************************)
(* What a thread at work holds                                             *)
(***************************************************************************)

Open == {m \in Transition : GroupCheckpoint(m)}
Working == {"run", "compare", "write"}
AtWork(t) == th[t].pc \in Working

(* A thread at work holds transitions of the state the instance is in. *)
HeldRow(h) ==
    /\ h.at = state /\ \A m \in h.batch : Def[m].from = state
    /\ h.todo \subseteq h.batch /\ IsBatch(h.batch)
Held == \A t \in Thread : AtWork(t) => HeldRow(th[t])

(* What it does not run any more has succeeded, unless an action of the batch failed. *)
SavedRow(h) ==
    /\ h.pc = "run" /\ ~h.bad => h.batch \ h.todo \subseteq Open
    /\ h.pc \in {"compare", "write"} => h.batch \subseteq Open
Companion(m, n) == n # m /\ Def[n].group = Def[m].group /\ Def[m].group # NoGroup
SavedSuccesses ==
    \A m \in Transition : success[m].own /\ ~success[m].group => \E n \in Transition : Companion(m, n)
SavedThreads == \A t \in Thread : SavedRow(th[t])
Saved == SavedSuccesses /\ SavedThreads

(* A gate's action is run alone, by a thread of the gate, and its success is followed by the move. *)
GateKind == {"gate", "background"}
GateAgrees(h) ==
    /\ h.pc = "recheck" => h.batch \subseteq Human
    /\ \A m \in h.batch \cap Human : h.pc \in Working => h.kind \in GateKind /\ h.batch = {m} /\ ~h.bad
Moving(t, m) == th[t].pc \in {"compare", "write"} /\ th[t].kind \in GateKind /\ th[t].batch = {m}
GatesAlone == \A t \in Thread : GateAgrees(th[t])
GatesMove == \A m \in Human \cap Open : \E t \in Thread : Moving(t, m)

(* What a thread holds that starts one action, or uses its checkpoint. *)
LEMMA SingleGives ==
    ASSUME NEW h \in Fresh, success \in [Transition -> SuccessType], NEW m \in Transition
    PROVE  LET r == RunSingle(h, m) IN
           /\ r.at = h.at /\ r.kind = h.kind /\ r.sole = h.sole /\ r.batch = {m} /\ r.todo \subseteq {m}
           /\ \/ r.pc = "run" /\ r.todo = {m} /\ r.bad = h.bad /\ ~success[m].own
              \/ r.pc = "compare" /\ r.todo = {} /\ r.bad = h.sole /\ success[m].own
BY DEF RunSingle, Begun, Started, Fresh, RowType, Checkpoint, SuccessType

(* What a thread holds that starts some actions of a batch, or has them all. *)
LEMMA BegunGives ==
    ASSUME NEW h \in Fresh, NEW batch, NEW ms
    PROVE  /\ LET r == Begun(h, batch, ms) IN
              /\ r.at = h.at /\ r.kind = h.kind /\ r.sole = h.sole /\ r.batch = batch
              /\ r.todo = ms /\ r.bad = h.bad /\ r.pc = "run"
           /\ LET r == [h EXCEPT !.batch = batch, !.pc = "compare"] IN
              /\ r.at = h.at /\ r.kind = h.kind /\ r.sole = h.sole /\ r.batch = batch
              /\ r.todo = {} /\ r.bad = h.bad /\ r.pc = "compare"
BY DEF Begun, Started, Fresh, RowType

(* What a gate's thread holds. *)
LEMMA GateGives ==
    ASSUME NEW k \in Kind, NEW m \in Transition
    PROVE  LET r == GateThread(k, m) IN
           /\ r.at = Def[m].from /\ r.kind = k /\ r.batch = {m} /\ r.todo = {m} /\ ~r.bad /\ r.pc = "run"
           /\ r.sole /\ r.row
BY DEF GateThread, Begun, Started, Idle

(* r is h after the action m has returned. *)
Returned(h, m, ok, r) ==
    /\ r.at = h.at /\ r.kind = h.kind /\ r.batch = h.batch /\ r.todo = h.todo \ {m}
    /\ r.sole = h.sole /\ r.row = h.row
    /\ r.pc \in {"run", "compare", "raise", "loop"}
    /\ (r.pc = "raise" => h.sole) /\ (r.pc = "loop" => ~h.sole) /\ (r.bad => r.pc = "run")
    /\ r.pc = "run" => r.todo # {} /\ (~r.bad => ok /\ ~h.bad)
    /\ r.pc = "compare" => ok /\ ~h.bad /\ r.todo = {} /\ ~r.bad
    /\ ok /\ ~h.bad /\ r.todo = {} => r.pc = "compare"

LEMMA AfterRowGives ==
    ASSUME NEW h \in Row, NEW m \in h.todo, NEW ok \in BOOLEAN, NEW r,
           \/ r = AfterRow(h, m, ok)
           \/ \E yes \in SUBSET Fact : r = [AfterRow(h, m, ok) EXCEPT !.yes = yes]
    PROVE  Returned(h, m, ok, r)
<1> DEFINE left == h.todo \ {m}
           bad == h.bad \/ ~ok
           pc == CASE left # {} -> "run"
                   [] left = {} /\ ~bad -> "compare"
                   [] left = {} /\ bad /\ h.sole -> "raise"
                   [] OTHER -> "loop"
<1>1. h \in RowType
  BY DEF Row
<1>2. /\ pc \in {"run", "compare", "raise", "loop"}
      /\ pc = "run" => left # {}
      /\ pc = "compare" <=> left = {} /\ ~bad
      /\ (pc = "raise" => h.sole) /\ (pc = "loop" => ~h.sole) /\ (bad /\ left # {} => pc = "run")
  OBVIOUS
<1>3. (bad /\ left # {}) \in BOOLEAN
  OBVIOUS
<1>4. AfterRow(h, m, ok) = [h EXCEPT !.pc = pc, !.todo = left, !.bad = bad /\ left # {}, !.marked = h.marked \ {m}]
  BY <1>1 DEF AfterRow, RowType
<1>5. PICK q, b :
        /\ q = pc /\ b = (bad /\ left # {})
        /\ AfterRow(h, m, ok) = [h EXCEPT !.pc = q, !.todo = left, !.bad = b, !.marked = h.marked \ {m}]
  BY <1>4
<1>6. /\ r.at = h.at /\ r.kind = h.kind /\ r.batch = h.batch /\ r.todo = left
      /\ r.pc = q /\ r.bad = b /\ r.sole = h.sole /\ r.row = h.row
  <2> DEFINE new == [h EXCEPT !.pc = q, !.todo = left, !.bad = b, !.marked = h.marked \ {m}]
  <2>1. /\ new.at = h.at /\ new.kind = h.kind /\ new.batch = h.batch /\ new.todo = left
        /\ new.pc = q /\ new.bad = b /\ new.sole = h.sole /\ new.row = h.row
        /\ \A yes : LET y == [new EXCEPT !.yes = yes] IN
             /\ y.at = h.at /\ y.kind = h.kind /\ y.batch = h.batch /\ y.todo = left
             /\ y.pc = q /\ y.bad = b /\ y.sole = h.sole /\ y.row = h.row
    BY <1>1 DEF RowType
  <2>2. r = new \/ \E yes : r = [new EXCEPT !.yes = yes]
    BY <1>5
  <2> HIDE DEF new
  <2> QED BY <2>1, <2>2
<1>7. h.bad \in BOOLEAN
  BY <1>1 DEF RowType
<1>8. q = pc /\ (b <=> (h.bad \/ ~ok) /\ left # {})
  BY <1>5
<1> QED
  <2>1. q \in {"run", "compare", "raise", "loop"} /\ (q = "run" => left # {})
        /\ (q = "compare" <=> left = {} /\ ~(h.bad \/ ~ok))
        /\ (q = "raise" => h.sole) /\ (q = "loop" => ~h.sole) /\ ((h.bad \/ ~ok) /\ left # {} => q = "run")
    BY <1>2, <1>8
  <2> HIDE DEF left
  <2>2. b <=> (h.bad \/ ~ok) /\ left # {}
    BY <1>8
  <2>3. r.todo = h.todo \ {m}
    BY <1>6 DEF left
  <2>4. (r.pc = "run" => r.todo # {} /\ (~r.bad => ok /\ ~h.bad)) /\ (r.pc = "compare" => ok /\ ~h.bad /\ r.todo = {} /\ ~r.bad)
        /\ (ok /\ ~h.bad /\ r.todo = {} => r.pc = "compare")
        /\ (r.pc = "raise" => h.sole) /\ (r.pc = "loop" => ~h.sole) /\ (r.bad => r.pc = "run")
    BY <1>6, <1>7, <2>1, <2>2
  <2> QED BY <1>6, <2>1, <2>3, <2>4 DEF Returned

(* Beside the thread that moves all are idle. *)
LEMMA OthersIdle ==
    ASSUME EngineInv, NEW t \in Thread, Busy(t) \/ \A u \in Thread : ~Busy(u), NEW r,
           th' = [th EXCEPT ![t] = r]
    PROVE  /\ th'[t] = r
           /\ \A u \in Thread : u # t => th[u].pc = "idle" /\ th'[u] = th[u]
BY DEF EngineInv, Alone, Busy

Rests(t) ==
    \/ LoopEnds(t) \/ LoopRaises(t) \/ LoopOpensGates(t) \/ LoopRefused(t)
    \/ WriteState(t) \/ RecordArtifacts(t) \/ CloseGate(t)
    \/ FinishTerminal(t) \/ FinishReview(t) \/ FinishStopped(t)
    \/ RaiseInLoop(t) \/ RaiseInGate(t) \/ GiveUp(t)
Resting == {"idle", "loop", "record", "close", "terminal", "human_gate", "stopped", "raise", "giveup"}

Rested(t) == \E r : th' = [th EXCEPT ![t] = r] /\ r.pc \in Resting
LEMMA RestedIs ==
    ASSUME NEW t, NEW r, r.pc \in Resting, th' = [th EXCEPT ![t] = r]
    PROVE  Rested(t)
BY DEF Rested

(* Whoever rests or moves the instance holds no action any more. *)
LEMMA RestsIdle ==
    ASSUME EngineInv, NEW t \in Thread, Rests(t)
    PROVE  /\ Busy(t) /\ th'[t].pc \in Resting
           /\ \A u \in Thread : u # t => th[u].pc = "idle" /\ th'[u].pc = "idle"
<1>1. th \in [Thread -> Row] /\ th[t] \in RowType
  BY DEF EngineInv, Row
<1>2. \A u \in Thread : \A b : [th[u] EXCEPT !.row = b].pc = th[u].pc
  <2> SUFFICES ASSUME NEW u \in Thread, NEW b PROVE [th[u] EXCEPT !.row = b].pc = th[u].pc
    OBVIOUS
  <2>1. th[u] \in RowType
    BY <1>1 DEF Row
  <2> QED BY <2>1 DEF RowType
<1>7. /\ [th[t] EXCEPT !.pc = "terminal", !.at = state].pc \in Resting
      /\ \A q : [th[t] EXCEPT !.pc = q].pc = q
      /\ [th[t] EXCEPT !.pc = "raise"].pc \in Resting /\ [th[t] EXCEPT !.pc = "stopped"].pc \in Resting
      /\ [th[t] EXCEPT !.pc = "record"].pc \in Resting /\ [th[t] EXCEPT !.pc = "close"].pc \in Resting
  BY <1>1 DEF RowType, Resting
<1>8. /\ [Idle EXCEPT !.pc = "loop", !.kind = th[t].kind].pc \in Resting
      /\ [Idle EXCEPT !.pc = "giveup", !.kind = th[t].kind].pc \in Resting
      /\ Idle.pc \in Resting
  BY DEF Idle, Resting
<1>3. Busy(t)
  BY DEF Rests, LoopEnds, LoopRaises, LoopOpensGates, LoopRefused, WriteState, RecordArtifacts, CloseGate,
         FinishTerminal, FinishReview, FinishStopped, RaiseInLoop, RaiseInGate, GiveUp, AtLoop, Busy
<1>4. \A u \in Thread : u # t => th[u].pc = "idle"
  BY <1>3 DEF EngineInv, Alone, Busy
<1>5. CASE LoopOpensGates(t)
  <2> DEFINE opened == Matching(state, "human")
             new == {m \in opened : ~GateIsOpen(m)}
             q == IF opened = {} THEN "stopped" ELSE "human_gate"
  <2>1. th' = [u \in Thread |-> IF u = t THEN [th[t] EXCEPT !.pc = q]
                                ELSE [th[u] EXCEPT !.row = th[u].row /\ th[u].batch \cap new = {}]]
    BY <1>5 DEF LoopOpensGates
  <2>2. q \in Resting
    BY DEF Resting
  <2> HIDE DEF opened, new, q
  <2>3. th'[t] = [th[t] EXCEPT !.pc = q]
    BY <2>1
  <2>4. \A u \in Thread : u # t => \E b : th'[u] = [th[u] EXCEPT !.row = b]
    BY <2>1
  <2>5. th'[t].pc \in Resting
    BY <1>7, <2>2, <2>3
  <2>6. ASSUME NEW u \in Thread, u # t PROVE th'[u].pc = "idle"
    <3>1. PICK b : th'[u] = [th[u] EXCEPT !.row = b]
      BY <2>4, <2>6
    <3>2. [th[u] EXCEPT !.row = b].pc = th[u].pc
      BY <1>2
    <3> QED BY <1>4, <2>6, <3>1, <3>2
  <2> QED BY <1>3, <1>4, <2>5, <2>6
<1>6. CASE ~LoopOpensGates(t)
  <2>1. Rested(t)
    <3>1. CASE LoopEnds(t) \/ LoopRaises(t) \/ LoopRefused(t)
      <4>1. \/ th' = [th EXCEPT ![t] = [th[t] EXCEPT !.pc = "terminal", !.at = state]]
            \/ th' = [th EXCEPT ![t] = [th[t] EXCEPT !.pc = "raise"]]
            \/ th' = [th EXCEPT ![t] = [th[t] EXCEPT !.pc = "stopped"]]
        BY <1>1, <3>1 DEF LoopEnds, LoopRaises, LoopRefused, Goto
      <4> QED BY <1>7, <1>8, <4>1, RestedIs
    <3>2. CASE WriteState(t) \/ RecordArtifacts(t) \/ CloseGate(t)
      <4>1. \/ th' = [th EXCEPT ![t] = [Idle EXCEPT !.pc = "loop", !.kind = th[t].kind]]
            \/ th' = [th EXCEPT ![t] = [th[t] EXCEPT !.pc = "record"]]
            \/ th' = [th EXCEPT ![t] = [th[t] EXCEPT !.pc = "close"]]
            \/ th' = [th EXCEPT ![t] = [th[t] EXCEPT !.pc = "raise"]]
        BY <1>1, <3>2 DEF WriteState, RecordArtifacts, CloseGate, Goto
      <4> QED BY <1>7, <1>8, <4>1, RestedIs
    <3>3. CASE FinishTerminal(t) \/ FinishReview(t) \/ FinishStopped(t) \/ RaiseInLoop(t) \/ RaiseInGate(t) \/ GiveUp(t)
      <4>1. \/ th' = [th EXCEPT ![t] = Idle]
            \/ th' = [th EXCEPT ![t] = [th[t] EXCEPT !.pc = "raise"]]
            \/ th' = [th EXCEPT ![t] = [Idle EXCEPT !.pc = "giveup", !.kind = th[t].kind]]
        BY <1>1, <3>3 DEF FinishTerminal, FinishReview, FinishStopped, RaiseInLoop, RaiseInGate, GiveUp
      <4> QED BY <1>7, <1>8, <4>1, RestedIs
    <3> QED BY <1>6, <3>1, <3>2, <3>3 DEF Rests
  <2>2. PICK r : th' = [th EXCEPT ![t] = r] /\ r.pc \in Resting
    BY <2>1 DEF Rested
  <2>3. th'[t] = r /\ \A u \in Thread : u # t => th[u].pc = "idle" /\ th'[u] = th[u]
    BY <1>3, <2>2, OthersIdle
  <2> QED BY <1>3, <2>2, <2>3
<1> QED BY <1>3, <1>4, <1>5, <1>6

Crashes == WorkerDies \/ FailAndRetry \/ ServerDies

(* Nobody is at work after a crash or a reconciliation, and no success is lost. *)
LEMMA CrashesIdle ==
    ASSUME EngineInv, Crashes
    PROVE  /\ \A u \in Thread : th'[u].pc \in {"idle", "dead"} /\ th'[u].todo \subseteq th[u].todo
           /\ UNCHANGED success
<1>1. /\ th \in [Thread -> Row] /\ "worker" \in Thread
      /\ \A u \in Thread : th[u] \in RowType
      /\ \A u, v \in Thread : Busy(u) /\ Busy(v) => u = v
  BY DEF EngineInv, Row, Thread, Alone
<1>2. UNCHANGED success
  BY DEF Crashes, WorkerDies, FailAndRetry, ServerDies, rows
<1>3. CASE WorkerDies
  <2>1. th' = [th EXCEPT !["worker"] = [th["worker"] EXCEPT !.pc = "dead"]] /\ Busy("worker")
    BY <1>3 DEF WorkerDies, Goto, Busy
  <2>2. \A u \in Thread : u # "worker" => th'[u] = th[u] /\ th[u].pc = "idle"
    BY <1>1, <2>1 DEF Busy
  <2>3. th'["worker"].pc = "dead" /\ th'["worker"].todo = th["worker"].todo
    BY <1>1, <2>1 DEF RowType
  <2> QED BY <1>2, <2>2, <2>3
<1>4. CASE FailAndRetry
  <2>1. /\ th' = [t \in Thread |-> IF t = "worker" THEN Idle ELSE [th[t] EXCEPT !.marked = th[t].todo]]
        /\ Busy("worker")
    BY <1>4 DEF FailAndRetry, Busy
  <2>2. \A u \in Thread : u # "worker" => th[u].pc = "idle"
    BY <1>1, <2>1 DEF Busy
  <2>3. ASSUME NEW u \in Thread, u # "worker"
        PROVE  th'[u].pc = "idle" /\ th'[u].todo = th[u].todo
    BY <1>1, <2>1, <2>2, <2>3 DEF RowType
  <2>4. th'["worker"].pc = "idle" /\ th'["worker"].todo = {}
    BY <1>1, <2>1, IdleIsARow
  <2> QED BY <1>2, <2>3, <2>4
<1>5. CASE ServerDies
  <2> DEFINE gone == {t \in Thread \ {"worker"} : Busy(t)}
  <2>1. th' = [t \in Thread |-> IF t \in gone THEN Idle ELSE th[t]] /\ gone # {}
    BY <1>5 DEF ServerDies
  <2>2. \A u \in Thread : u \notin gone => th[u].pc = "idle"
    BY <1>1, <2>1 DEF Busy
  <2> QED BY <1>2, <2>1, <2>2, IdleIsARow
<1> QED BY <1>3, <1>4, <1>5 DEF Crashes

(* What the loop starts is the whole of what may run, without what has succeeded. *)
Chosen(r) ==
    /\ r.at = state /\ r.batch = Conditioned(state, "automatic") /\ IsBatch(r.batch)
    /\ r.todo \subseteq r.batch /\ r.todo \cap Open = {} /\ ~r.bad /\ r.pc \in {"run", "compare"} /\ ~r.sole
    /\ r.pc = "compare" => r.todo = {}
    /\ \/ r.batch \ r.todo \subseteq Open
       \/ \E m \in Transition : r.batch = {m} /\ success[m].own /\ Conditioned(state, "automatic") = {m}

(* A batch that is not parallel has one member. *)
LEMMA SingleBatch ==
    ASSUME NEW batch \in SUBSET Transition, batch # {}, ~IsParallel(batch)
    PROVE  The(batch) \in Transition /\ batch = {The(batch)}
<1>1. The(batch) \in batch
  BY DEF The
<1>2. IsFiniteSet(batch) /\ Cardinality(batch) \in Nat
  BY StateAssumption, FS_Subset, FS_CardinalityType
<1>3. ASSUME NEW m \in batch PROVE m = The(batch)
  <2>1. {m, The(batch)} \subseteq batch
    BY <1>1
  <2>2. Cardinality({m, The(batch)}) =< Cardinality(batch)
    BY <1>2, <2>1, FS_Subset
  <2>3. Cardinality(batch) =< 1
    BY <1>2 DEF IsParallel
  <2>4. m # The(batch) => Cardinality({m, The(batch)}) = 2
    <3> SUFFICES ASSUME m # The(batch) PROVE Cardinality({m, The(batch)}) = 2
      OBVIOUS
    <3>1. IsFiniteSet({The(batch)}) /\ Cardinality({The(batch)}) = 1
      BY FS_Singleton
    <3>2. Cardinality({The(batch)} \cup {m}) = Cardinality({The(batch)}) + 1
      BY <3>1, FS_AddElement
    <3>3. {The(batch)} \cup {m} = {m, The(batch)}
      OBVIOUS
    <3> QED BY <3>1, <3>2, <3>3
  <2> QED BY <1>2, <2>2, <2>3, <2>4
<1> QED BY <1>1, <1>3

LEMMA OneIsABatch == ASSUME NEW m PROVE IsBatch({m}) /\ ~IsParallel({m})
BY FS_Singleton DEF IsBatch, IsParallel

(* The loop's choice. *)
LEMMA LoopStartsGives ==
    ASSUME EngineInv, NEW t \in Thread, LoopStarts(t)
    PROVE  /\ Busy(t) /\ UNCHANGED <<state, success>>
           /\ \E r : Chosen(r) /\ r.kind = th[t].kind /\ th' = [th EXCEPT ![t] = r]
<1> DEFINE batch == Matching(state, "automatic")
           kept == {m \in batch : GroupCheckpoint(m)}
           h == [Idle EXCEPT !.kind = th[t].kind, !.at = state]
<1>1. /\ success \in [Transition -> SuccessType] /\ th[t] \in RowType /\ state \in State
      /\ Busy(t) /\ batch # {} /\ IsBatch(batch) /\ UNCHANGED <<state, success>>
      /\ batch = Conditioned(state, "automatic") /\ batch \subseteq Transition
  BY DEF EngineInv, RowsTyped, Row, LoopStarts, rows, AtLoop, Busy, Exhausted, Matching, Conditioned
<1>2. h \in Fresh /\ h.at = state /\ ~h.bad /\ ~h.sole /\ h.kind = th[t].kind
  BY <1>1, FreshIs DEF RowType, Idle
<1>3. \/ th' = [th EXCEPT ![t] = [h EXCEPT !.batch = batch, !.pc = "compare"]] /\ kept = batch
      \/ th' = [th EXCEPT ![t] = Begun(h, batch, batch \ kept)]
      \/ th' = [th EXCEPT ![t] = RunSingle(h, The(batch))] /\ ~IsParallel(batch)
  BY DEF LoopStarts
<1>4. kept \subseteq Open /\ kept \subseteq batch /\ (batch \ kept) \cap Open = {}
  BY <1>1 DEF Open
<1>5. batch # {} /\ batch \in SUBSET Transition
  BY <1>1
<1> HIDE DEF batch, kept, h
<1>6. CASE th' = [th EXCEPT ![t] = [h EXCEPT !.batch = batch, !.pc = "compare"]] /\ kept = batch
  <2> DEFINE r == [h EXCEPT !.batch = batch, !.pc = "compare"]
  <2>1. /\ r.at = h.at /\ r.batch = batch /\ r.todo = {} /\ r.bad = h.bad /\ r.pc = "compare"
        /\ r.sole = h.sole /\ r.kind = h.kind
    BY <1>2, BegunGives
  <2> HIDE DEF r
  <2>2. Chosen(r)
    BY <1>1, <1>2, <1>4, <1>6, <2>1 DEF Chosen
  <2> QED BY <1>1, <1>2, <1>6, <2>1, <2>2 DEF r
<1>7. CASE th' = [th EXCEPT ![t] = Begun(h, batch, batch \ kept)]
  <2> DEFINE r == Begun(h, batch, batch \ kept)
  <2>1. /\ r.at = h.at /\ r.batch = batch /\ r.todo = batch \ kept /\ r.bad = h.bad /\ r.pc = "run"
        /\ r.sole = h.sole /\ r.kind = h.kind
    BY <1>2, BegunGives
  <2> HIDE DEF r
  <2>2. Chosen(r)
    BY <1>1, <1>2, <1>4, <2>1 DEF Chosen
  <2> QED BY <1>1, <1>2, <1>7, <2>1, <2>2 DEF r
<1>8. CASE th' = [th EXCEPT ![t] = RunSingle(h, The(batch))] /\ ~IsParallel(batch)
  <2>1. The(batch) \in Transition /\ batch = {The(batch)}
    BY <1>5, <1>8, SingleBatch
  <2> DEFINE r == RunSingle(h, The(batch))
             m == The(batch)
  <2>2. /\ r.at = h.at /\ r.batch = {m} /\ r.sole = h.sole /\ r.kind = h.kind
        /\ \/ r.pc = "run" /\ r.todo = {m} /\ r.bad = h.bad /\ ~success[m].own
           \/ r.pc = "compare" /\ r.todo = {} /\ r.bad = h.sole /\ success[m].own
    BY <1>1, <1>2, <2>1, SingleGives
  <2>3. ~h.sole
    BY <1>2 DEF h, Idle
  <2>4. m \in Transition /\ batch = {m} /\ IsBatch({m})
    BY <2>1, OneIsABatch
  <2> HIDE DEF r, m
  <2>5. Chosen(r)
    <3>1. CASE r.pc = "run" /\ r.todo = {m} /\ r.bad = h.bad /\ ~success[m].own
      BY <1>1, <1>2, <2>2, <2>4, <3>1 DEF Chosen, Open, GroupCheckpoint
    <3>2. CASE r.pc = "compare" /\ r.todo = {} /\ r.bad = h.sole /\ success[m].own
      BY <1>1, <1>2, <2>2, <2>3, <2>4, <3>2 DEF Chosen
    <3> QED BY <2>2, <3>1, <3>2
  <2> QED BY <1>1, <1>2, <1>8, <2>2, <2>5 DEF r
<1> QED BY <1>3, <1>6, <1>7, <1>8

(* The thread of a manual retry. *)
RetryThread(m) == [Idle EXCEPT !.kind = "retry", !.sole = TRUE, !.at = Def[m].from]

(* A manual retry. *)
LEMMA RetryGives ==
    ASSUME EngineInv, NEW t \in Request, NEW m \in Transition, RetryFailedAction(t, m), ~Overlap
    PROVE  /\ t \in Thread /\ (\A u \in Thread : ~Busy(u)) /\ state' = Def[m].from /\ UNCHANGED success
           /\ \E r : /\ th' = [th EXCEPT ![t] = r]
                     /\ r.at = Def[m].from /\ r.batch = {m} /\ r.todo \subseteq {m} /\ r.kind = "retry"
                     /\ \/ r.pc = "run" /\ r.todo = {m} /\ ~success[m].own
                        \/ r.pc = "compare" /\ r.todo = {} /\ success[m].own
<1>1. /\ t \in Thread /\ (\A u \in Thread : ~Busy(u)) /\ state' = Def[m].from /\ UNCHANGED success
      /\ th' = [th EXCEPT ![t] = RunSingle(RetryThread(m), m)] /\ success \in [Transition -> SuccessType]
  BY DEF RetryFailedAction, MayStart, RetryPrepared, rows, Thread, RetryThread, EngineInv, RowsTyped
<1>2. RetryThread(m) \in Fresh /\ RetryThread(m).at = Def[m].from /\ RetryThread(m).kind = "retry"
  <2>1. RetryThread(m) \in Fresh
    BY FreshIs, Limits DEF Kind, RetryThread
  <2> QED BY <2>1 DEF RetryThread, Idle
<1> DEFINE h == RetryThread(m)
           r == RunSingle(h, m)
<1> HIDE DEF h
<1>3. /\ r.at = h.at /\ r.batch = {m} /\ r.todo \subseteq {m} /\ r.kind = h.kind
      /\ \/ r.pc = "run" /\ r.todo = {m} /\ r.bad = h.bad /\ ~success[m].own
         \/ r.pc = "compare" /\ r.todo = {} /\ r.bad = h.sole /\ success[m].own
  BY <1>1, <1>2, SingleGives DEF h
<1>4. th' = [th EXCEPT ![t] = r] /\ h.at = Def[m].from /\ h.kind = "retry"
  BY <1>1, <1>2 DEF h
<1> HIDE DEF r
<1> QED BY <1>1, <1>3, <1>4

(* An action's return. *)
LEMMA ReturnsGive ==
    ASSUME EngineInv, NEW t \in Thread, NEW m \in Transition, ActionReturns(t, m)
    PROVE  /\ Busy(t) /\ th[t].pc = "run" /\ m \in th[t].todo /\ UNCHANGED state
           /\ \E ok \in BOOLEAN : \E r :
                /\ th' = [th EXCEPT ![t] = r] /\ Returned(th[t], m, ok, r)
                /\ IF ok THEN \E yes : success' = [success EXCEPT ![m] = [own |-> TRUE, group |-> TRUE, yes |-> yes]]
                         ELSE UNCHANGED success
<1>1. /\ Busy(t) /\ th[t].pc = "run" /\ m \in th[t].todo /\ UNCHANGED state /\ th[t] \in Row
  BY DEF EngineInv, ActionReturns, ActionSucceeds, ActionFails, Busy
<1>2. CASE ActionFails(t, m)
  <2>1. PICK r : r = AfterRow(th[t], m, FALSE)
    OBVIOUS
  <2>2. th' = [th EXCEPT ![t] = r] /\ UNCHANGED success
    BY <1>2, <2>1 DEF ActionFails
  <2>3. Returned(th[t], m, FALSE, r)
    BY <1>1, <2>1, AfterRowGives
  <2> QED BY <1>1, <2>2, <2>3
<1>3. ASSUME NEW yes \in SUBSET Def[m].out, ActionSucceeds(t, m, yes)
      PROVE  \E r :
                /\ th' = [th EXCEPT ![t] = r] /\ Returned(th[t], m, TRUE, r)
                /\ success' = [success EXCEPT ![m] = [own |-> TRUE, group |-> TRUE, yes |-> yes]]
  <2>1. yes \in SUBSET Fact
    BY DefAssumption
  <2>2. PICK y \in SUBSET Fact : th' = [th EXCEPT ![t] = [AfterRow(th[t], m, TRUE) EXCEPT !.yes = y]]
    BY <1>3, <2>1 DEF ActionSucceeds
  <2>3. PICK r : r = [AfterRow(th[t], m, TRUE) EXCEPT !.yes = y]
    OBVIOUS
  <2>4. Returned(th[t], m, TRUE, r)
    BY <1>1, <2>3, AfterRowGives
  <2>5. success' = [success EXCEPT ![m] = [own |-> TRUE, group |-> TRUE, yes |-> yes]]
    BY <1>3 DEF ActionSucceeds
  <2> QED BY <2>2, <2>3, <2>4, <2>5
<1>4. CASE \E yes \in SUBSET Def[m].out : ActionSucceeds(t, m, yes)
  <2>1. PICK yes \in SUBSET Def[m].out : ActionSucceeds(t, m, yes)
    BY <1>4
  <2> QED BY <1>1, <1>3, <2>1
<1> QED BY <1>2, <1>4 DEF ActionReturns

(* The thread of a gate begins its action. *)
GateBegun(r, m) ==
    /\ state = Def[m].from /\ r.at = state /\ r.kind \in GateKind
    /\ r.batch = {m} /\ r.todo = {m} /\ ~r.bad /\ r.pc = "run" /\ r.sole /\ r.row

(* A gate's start, its claim and its resumption. *)
LEMMA GateStarts ==
    ASSUME ~Overlap, NEW t \in Request, NEW m \in Human, RunHumanGate(t, m)
    PROVE  /\ t \in Thread /\ (\A u \in Thread : ~Busy(u)) /\ UNCHANGED <<state, success>>
           /\ \E r : th' = [th EXCEPT ![t] = r] /\ GateBegun(r, m)
<1>1. /\ t \in Thread /\ (\A u \in Thread : ~Busy(u)) /\ UNCHANGED <<state, success>>
      /\ th' = [th EXCEPT ![t] = GateThread("gate", m)] /\ state = Def[m].from /\ m \in Transition
  BY DEF RunHumanGate, MayStart, rows, Thread, GateRuns, Human
<1>2. PICK r : r = GateThread("gate", m)
  OBVIOUS
<1>3. GateBegun(r, m)
  BY <1>1, <1>2, GateGives DEF GateBegun, Kind, GateKind
<1> QED BY <1>1, <1>2, <1>3

LEMMA GateResumes ==
    ASSUME EngineInv, NEW t \in Thread, RunStartedHumanGate(t)
    PROVE  /\ Busy(t) /\ th[t].pc = "recheck" /\ UNCHANGED <<state, success>>
           /\ \E r : /\ th' = [th EXCEPT ![t] = r]
                     /\ \/ r.pc = "raise" /\ r.todo = {}
                        \/ \E m \in th[t].batch : m \in Transition /\ GateBegun(r, m)
<1> DEFINE m == The(th[t].batch)
<1>1. /\ Busy(t) /\ th[t].pc = "recheck" /\ UNCHANGED <<state, success>> /\ th[t] \in Row
      /\ th' = [th EXCEPT ![t] = IF GateRuns(m) THEN GateThread("background", m)
                                 ELSE [th[t] EXCEPT !.pc = "raise"]]
  BY DEF EngineInv, RunStartedHumanGate, rows, Busy
<1>2. m \in Transition /\ m \in th[t].batch /\ th[t].todo = {}
  BY <1>1, RowUpdates DEF Holding, The
<1> HIDE DEF m
<1>3. CASE GateRuns(m)
  <2>1. PICK r : r = GateThread("background", m)
    OBVIOUS
  <2>2. GateBegun(r, m)
    BY <1>2, <1>3, <2>1, GateGives DEF GateBegun, Kind, GateKind, GateRuns
  <2> QED BY <1>1, <1>2, <1>3, <2>1, <2>2
<1>4. CASE ~GateRuns(m)
  <2>1. PICK r : r = [th[t] EXCEPT !.pc = "raise"]
    OBVIOUS
  <2>2. r.pc = "raise" /\ r.todo = {}
    BY <1>1, <1>2, <2>1 DEF Row, RowType
  <2> QED BY <1>1, <1>4, <2>1, <2>2
<1> QED BY <1>3, <1>4

LEMMA GateClaims ==
    ASSUME ~Overlap, NEW t \in Request, NEW m \in Human, StartHumanGate(t, m)
    PROVE  /\ t \in Thread /\ (\A u \in Thread : ~Busy(u)) /\ UNCHANGED <<state, success>>
           /\ \E r : th' = [th EXCEPT ![t] = r] /\ r.pc = "recheck" /\ r.batch = {m} /\ r.todo = {}
<1>1. /\ t \in Thread /\ (\A u \in Thread : ~Busy(u)) /\ UNCHANGED <<state, success>>
      /\ th' = [th EXCEPT ![t] = [GateThread("background", m) EXCEPT !.pc = "recheck", !.todo = {}]]
  BY DEF StartHumanGate, MayStart, rows, Thread
<1>2. PICK r : r = [GateThread("background", m) EXCEPT !.pc = "recheck", !.todo = {}]
  OBVIOUS
<1>3. r.pc = "recheck" /\ r.batch = {m} /\ r.todo = {}
  BY <1>2 DEF GateThread, Begun, Started, Idle
<1> QED BY <1>1, <1>2, <1>3

(* The start of a worker or of the cycle. *)
LEMMA LoopsStart ==
    ASSUME ~Overlap, RunAttempt \/ AdvanceReady
    PROVE  /\ (\A u \in Thread : ~Busy(u)) /\ UNCHANGED <<state, success>>
           /\ \E t \in Thread : \E r : th' = [th EXCEPT ![t] = r] /\ r.pc = "loop" /\ r.todo = {}
<1>1. \E t \in Thread : /\ MayStart(t)
                        /\ \/ th' = [th EXCEPT ![t] = [Idle EXCEPT !.pc = "loop"]]
                           \/ th' = [th EXCEPT ![t] = [Idle EXCEPT !.pc = "loop", !.kind = "cycle"]]
  BY DEF RunAttempt, AdvanceReady, Thread
<1>2. UNCHANGED <<state, success>>
  BY DEF RunAttempt, AdvanceReady, rows
<1>3. \A r : r = [Idle EXCEPT !.pc = "loop"] \/ r = [Idle EXCEPT !.pc = "loop", !.kind = "cycle"]
               => r.pc = "loop" /\ r.todo = {}
  BY DEF Idle
<1>4. \A u \in Thread : ~Busy(u)
  BY <1>1 DEF MayStart
<1> QED BY <1>1, <1>2, <1>3, <1>4

(* The comparison before the move. *)
LEMMA CompareGives ==
    ASSUME EngineInv, NEW t \in Thread, CompareState(t)
    PROVE  /\ Busy(t) /\ th[t].pc = "compare" /\ UNCHANGED <<state, success>>
           /\ \E r : /\ th' = [th EXCEPT ![t] = r]
                     /\ r.pc = IF state = th[t].at THEN "write" ELSE "raise"
                     /\ r.at = th[t].at /\ r.kind = th[t].kind /\ r.batch = th[t].batch
                     /\ r.bad = th[t].bad /\ r.todo = {} /\ th[t].todo = {}
<1>1. /\ Busy(t) /\ th[t].pc = "compare" /\ UNCHANGED <<state, success>> /\ th[t] \in Row
      /\ th' = [th EXCEPT ![t] = [th[t] EXCEPT !.pc = IF state = th[t].at THEN "write" ELSE "raise"]]
  BY DEF EngineInv, CompareState, Goto, rows, Busy
<1>2. PICK q : q = IF state = th[t].at THEN "write" ELSE "raise"
  OBVIOUS
<1>3. PICK r : r = [th[t] EXCEPT !.pc = q]
  OBVIOUS
<1>4. th' = [th EXCEPT ![t] = r]
  BY <1>1, <1>2, <1>3
<1>5. /\ r.pc = q /\ r.at = th[t].at /\ r.kind = th[t].kind /\ r.batch = th[t].batch
      /\ r.bad = th[t].bad /\ r.todo = {} /\ th[t].todo = {}
  BY <1>1, <1>3 DEF Row, RowType
<1> QED BY <1>1, <1>2, <1>4, <1>5

(* A thread that moves is the only one at work. *)
LEMMA HeldStays ==
    ASSUME EngineInv, NEW t \in Thread, Busy(t) \/ \A u \in Thread : ~Busy(u), NEW r,
           th' = [th EXCEPT ![t] = r], r.pc \in Working => HeldRow(r)'
    PROVE  Held'
<1>1. th'[t] = r /\ \A u \in Thread : u # t => th'[u].pc = "idle"
  BY OthersIdle
<1> QED BY <1>1 DEF Held, AtWork, Working

(* A thread with one transition of the instance's state. *)
LEMMA OneIsHeld ==
    ASSUME NEW m \in Transition, NEW r, r.batch = {m}, r.todo \subseteq {m},
           r.at = Def[m].from, state' = Def[m].from
    PROVE  HeldRow(r)'
<1>1. IsBatch(r.batch)
  <2>1. IsBatch({m})
    BY OneIsABatch
  <2> QED BY <2>1
<1> QED BY <1>1 DEF HeldRow

(* Every step keeps what threads hold. *)
LEMMA NextHeld == ASSUME EngineInv, Held, ~Overlap, [Next]_vars PROVE Held'
<1>1. CASE RunAttempt \/ AdvanceReady
  <2>1. (\A u \in Thread : ~Busy(u)) /\ \E t \in Thread : \E r : th' = [th EXCEPT ![t] = r] /\ r.pc = "loop"
    BY <1>1, LoopsStart
  <2> QED BY <2>1, HeldStays DEF Working
<1>2. ASSUME NEW t \in Request, NEW m \in Human, RunHumanGate(t, m) PROVE Held'
  <2>1. PICK r : th' = [th EXCEPT ![t] = r] /\ GateBegun(r, m)
    BY <1>2, GateStarts
  <2>2. HeldRow(r)'
    BY <1>2, <2>1, OneIsHeld, GateStarts DEF GateBegun, Human
  <2> QED BY <1>2, <2>1, <2>2, GateStarts, HeldStays
<1>3. ASSUME NEW t \in Request, NEW m \in Human, StartHumanGate(t, m) PROVE Held'
  BY <1>3, GateClaims, HeldStays DEF Working
<1>4. ASSUME NEW t \in Request, NEW m \in Transition, RetryFailedAction(t, m) PROVE Held'
  <2>1. PICK r : /\ th' = [th EXCEPT ![t] = r] /\ r.at = Def[m].from /\ r.batch = {m} /\ r.todo \subseteq {m}
    BY <1>4, RetryGives
  <2>2. HeldRow(r)'
    BY <1>4, <2>1, OneIsHeld, RetryGives
  <2> QED BY <1>4, <2>1, <2>2, RetryGives, HeldStays
<1>5. ASSUME NEW t \in Thread, RunStartedHumanGate(t) PROVE Held'
  <2>1. PICK r : /\ th' = [th EXCEPT ![t] = r]
                 /\ r.pc = "raise" \/ \E m \in th[t].batch : m \in Transition /\ GateBegun(r, m)
    BY <1>5, GateResumes
  <2>2. r.pc \in Working => HeldRow(r)'
    BY <1>5, <2>1, OneIsHeld, GateResumes DEF GateBegun, Working
  <2> QED BY <1>5, <2>1, <2>2, GateResumes, HeldStays
<1>6. ASSUME NEW t \in Thread, LoopStarts(t) PROVE Held'
  <2>1. PICK r : Chosen(r) /\ th' = [th EXCEPT ![t] = r]
    BY <1>6, LoopStartsGives
  <2>2. HeldRow(r)'
    BY <1>6, <2>1, LoopStartsGives DEF HeldRow, Chosen, Conditioned
  <2> QED BY <1>6, <2>1, <2>2, LoopStartsGives, HeldStays
<1>7. ASSUME NEW t \in Thread, NEW m \in Transition, ActionReturns(t, m) PROVE Held'
  <2>1. PICK ok, r : ok \in BOOLEAN /\ th' = [th EXCEPT ![t] = r] /\ Returned(th[t], m, ok, r)
    BY <1>7, ReturnsGive
  <2>2. HeldRow(th[t]) /\ state' = state /\ Busy(t)
    BY <1>7, ReturnsGive DEF Held, AtWork, Working
  <2>3. HeldRow(r)'
    BY <2>1, <2>2 DEF HeldRow, Returned
  <2> QED BY <2>1, <2>2, <2>3, HeldStays
<1>8. ASSUME NEW t \in Thread, CompareState(t) PROVE Held'
  <2>1. PICK r : /\ th' = [th EXCEPT ![t] = r]
                 /\ r.at = th[t].at /\ r.batch = th[t].batch /\ r.todo = {}
    BY <1>8, CompareGives
  <2>2. HeldRow(th[t]) /\ state' = state /\ Busy(t)
    BY <1>8, CompareGives DEF Held, AtWork, Working
  <2>3. HeldRow(r)'
    BY <2>1, <2>2 DEF HeldRow
  <2> QED BY <2>1, <2>2, <2>3, HeldStays
<1>9. ASSUME NEW t \in Thread, Rests(t) PROVE Held'
  <2>1. \A u \in Thread : th'[u].pc \in Resting
    BY <1>9, RestsIdle DEF Resting
  <2> QED BY <2>1 DEF Held, AtWork, Working, Resting
<1>10. CASE Crashes
  BY <1>10, CrashesIdle DEF Held, AtWork, Working
<1>11. CASE UNCHANGED vars
  BY <1>11 DEF vars, Held, AtWork, HeldRow
<1> QED BY <1>1, <1>2, <1>3, <1>4, <1>5, <1>6, <1>7, <1>8, <1>9, <1>10, <1>11 DEF Next, Step, Decide, Rests, Crashes

(***************************************************************************)
(* Gates                                                                   *)
(***************************************************************************)

GatesStay == GatesAlone /\ GatesMove
NobodyMoves == \A u \in Thread : th[u].pc \notin {"compare", "write"}

(* No gate's success is open while nobody moves, in particular while nobody is at work. *)
LEMMA NoGateOpen ==
    /\ GatesMove /\ NobodyMoves => Human \cap Open = {}
    /\ (\A u \in Thread : ~Busy(u)) => NobodyMoves
BY DEF GatesMove, Moving, NobodyMoves, Busy

(* One thread is at work. *)
LEMMA OneAtWork ==
    ASSUME EngineInv, NEW t \in Thread, Busy(t)
    PROVE  \A u \in Thread : u # t => th[u].pc = "idle"
BY DEF EngineInv, Alone, Busy

(* Threads that rest or crash use no success but that of their move. *)
LEMMA RestsSave ==
    ASSUME NEW t \in Thread, Rests(t)
    PROVE  \/ WriteState(t) /\ th[t].pc = "write"
           \/ UNCHANGED success /\ th[t].pc \notin {"compare", "write"}
BY DEF Rests, LoopEnds, LoopRaises, LoopOpensGates, LoopRefused, WriteState, RecordArtifacts, CloseGate,
       FinishTerminal, FinishReview, FinishStopped, RaiseInLoop, RaiseInGate, GiveUp, AtLoop, NothingChosen, rows

LEMMA OpenStays == UNCHANGED success => Open' = Open
BY DEF Open, GroupCheckpoint

LEMMA GatesAloneStays ==
    ASSUME EngineInv, NEW t \in Thread, Busy(t) \/ \A u \in Thread : ~Busy(u), NEW r,
           th' = [th EXCEPT ![t] = r], GateAgrees(r)
    PROVE  GatesAlone'
<1>1. th'[t] = r /\ \A u \in Thread : u # t => th'[u].pc = "idle"
  BY OthersIdle
<1> QED BY <1>1 DEF GatesAlone, GateAgrees, Working

LEMMA OnlyAutomatic == \A m \in Transition : Def[m].trigger = "automatic" => m \notin Human
BY DEF Human

LEMMA ReturnsKeepGates ==
    ASSUME EngineInv, Held, GatesStay, NEW t \in Thread, NEW m \in Transition, ActionReturns(t, m)
    PROVE  GatesStay'
<1>1. /\ Busy(t) /\ th[t].pc = "run" /\ m \in th[t].todo /\ GateAgrees(th[t]) /\ HeldRow(th[t])
      /\ success \in [Transition -> SuccessType]
  BY ReturnsGive DEF GatesStay, GatesAlone, Held, AtWork, Working, EngineInv, RowsTyped
<1>2. PICK ok, r :
        /\ ok \in BOOLEAN /\ th' = [th EXCEPT ![t] = r] /\ Returned(th[t], m, ok, r)
        /\ IF ok THEN \E yes : success' = [success EXCEPT ![m] = [own |-> TRUE, group |-> TRUE, yes |-> yes]]
                 ELSE UNCHANGED success
  BY ReturnsGive
<1>3. NobodyMoves
  BY <1>1, OneAtWork DEF NobodyMoves
<1>4. Human \cap Open = {}
  BY <1>3, NoGateOpen DEF GatesStay
<1>5. Open' \subseteq Open \cup {m} /\ (~ok => Open' = Open)
  BY <1>1, <1>2 DEF Open, GroupCheckpoint
<1>6. ASSUME NEW n \in th[t].batch \cap Human
      PROVE  n = m /\ th[t].kind \in GateKind /\ th[t].batch = {n} /\ ~th[t].bad /\ r.todo = {}
  BY <1>1, <1>2, <1>6 DEF GateAgrees, HeldRow, Returned, Working
<1>7. GateAgrees(r)
  BY <1>2, <1>6 DEF GateAgrees, Returned, Working
<1>8. GatesAlone'
  BY <1>1, <1>2, <1>7, GatesAloneStays
<1>9. th'[t] = r
  BY <1>1, <1>2, OthersIdle
<1>10. ASSUME NEW n \in Human, n \in Open' PROVE Moving(t, n)'
  <2>1. n = m /\ ok
    BY <1>4, <1>5, <1>10
  <2>2. n \in th[t].batch
    BY <1>1, <2>1 DEF HeldRow
  <2> QED BY <1>2, <1>6, <1>9, <2>1, <2>2 DEF Moving, Returned
<1> QED BY <1>8, <1>10 DEF GatesStay, GatesMove

LEMMA CompareKeepsGates ==
    ASSUME EngineInv, Held, GatesStay, NEW t \in Thread, CompareState(t)
    PROVE  GatesStay'
<1>1. /\ Busy(t) /\ th[t].pc = "compare" /\ GateAgrees(th[t]) /\ HeldRow(th[t]) /\ UNCHANGED success
  BY CompareGives DEF GatesStay, GatesAlone, Held, AtWork, Working
<1>2. PICK r : /\ th' = [th EXCEPT ![t] = r]
               /\ r.pc = IF state = th[t].at THEN "write" ELSE "raise"
               /\ r.kind = th[t].kind /\ r.batch = th[t].batch /\ r.bad = th[t].bad
  BY CompareGives
<1>3. r.pc = "write"
  BY <1>1, <1>2 DEF HeldRow
<1>4. GateAgrees(r)
  BY <1>1, <1>2, <1>3 DEF GateAgrees, Working
<1>5. GatesAlone'
  BY <1>1, <1>2, <1>4, GatesAloneStays
<1>6. th'[t] = r
  BY <1>1, <1>2, OthersIdle
<1>7. ASSUME NEW n \in Human, n \in Open' PROVE Moving(t, n)'
  <2>1. PICK u \in Thread : Moving(u, n)
    BY <1>1, <1>7, OpenStays DEF GatesStay, GatesMove
  <2>2. u = t
    BY <1>1, <2>1, OneAtWork DEF Moving
  <2> QED BY <1>2, <1>3, <1>6, <2>1, <2>2 DEF Moving
<1> QED BY <1>5, <1>7 DEF GatesStay, GatesMove

LEMMA RestsKeepGates ==
    ASSUME EngineInv, GatesStay, NEW t \in Thread, Rests(t)
    PROVE  GatesStay'
<1>1. Busy(t) /\ \A u \in Thread : th'[u].pc \in Resting
  BY RestsIdle DEF Resting
<1>2. GatesAlone'
  BY <1>1 DEF GatesAlone, GateAgrees, Working, Resting
<1>3. Human \cap Open' = {}
  <2>1. CASE UNCHANGED success /\ th[t].pc \notin {"compare", "write"}
    <3>1. NobodyMoves
      BY <1>1, <2>1, OneAtWork DEF NobodyMoves
    <3> QED BY <2>1, <3>1, OpenStays, NoGateOpen DEF GatesStay
  <2>2. CASE WriteState(t) /\ th[t].pc = "write"
    <3> SUFFICES ASSUME NEW n \in Human, n \in Open' PROVE FALSE
      OBVIOUS
    <3>1. success' = Consumed(th[t].batch) /\ n \in Transition
      BY <2>2 DEF WriteState, Human
    <3>2. success \in [Transition -> SuccessType]
      BY DEF EngineInv, RowsTyped
    <3>3. success'[n].own /\ success'[n].group
      BY DEF Open, GroupCheckpoint
    <3>4. n \in Open
      <4>1. success'[n] = IF IsParallel(th[t].batch)
                          THEN [success[n] EXCEPT !.group = success[n].group
                                    /\ \A k \in th[t].batch : Def[n].group # Def[k].group]
                          ELSE IF n \in th[t].batch THEN NoSuccess ELSE success[n]
        BY <3>1 DEF Consumed
      <4>2. success'[n].own => success[n].own
        BY <3>2, <3>1, <4>1 DEF SuccessType, NoSuccess
      <4>3. success'[n].group => success[n].group
        BY <3>2, <3>1, <4>1 DEF SuccessType, NoSuccess
      <4> QED BY <3>1, <3>3, <4>2, <4>3 DEF Open, GroupCheckpoint
    <3>5. PICK u \in Thread : Moving(u, n)
      BY <3>4 DEF GatesStay, GatesMove
    <3>6. th[t].batch = {n}
      BY <1>1, <3>5, OneAtWork DEF Moving
    <3>7. success'[n] = NoSuccess
      BY <3>1, <3>6, OneIsABatch DEF Consumed
    <3> QED BY <3>3, <3>7 DEF NoSuccess
  <2> QED BY <2>1, <2>2, RestsSave
<1> QED BY <1>2, <1>3 DEF GatesStay, GatesMove

GatesSafe == (GateKind \X {"compare", "write"}) \cap CrashWindows = {}

LEMMA CrashesKeepGates == ASSUME EngineInv, GatesStay, Crashes, GatesSafe PROVE GatesStay'
<1>1. (\A u \in Thread : th'[u].pc \in {"idle", "dead"}) /\ UNCHANGED success
  BY CrashesIdle
<1>2. GatesAlone'
  BY <1>1 DEF GatesAlone, GateAgrees, Working
<1>3. Human \cap Open = {}
  <2> SUFFICES ASSUME NEW n \in Human, n \in Open PROVE FALSE
    OBVIOUS
  <2>1. PICK u \in Thread : Moving(u, n)
    BY DEF GatesStay, GatesMove
  <2>2. Busy(u) /\ ~MayDie(u) /\ th[u].pc # "dead"
    BY <2>1 DEF Moving, Busy, MayDie, GatesSafe
  <2>3. \A v \in Thread : Busy(v) => v = u
    BY <2>2, OneAtWork DEF Busy
  <2>4. ~WorkerDies /\ ~FailAndRetry
    BY <2>2, <2>3 DEF WorkerDies, FailAndRetry, Busy, Thread
  <2>5. ~ServerDies
    BY <2>2, <2>3 DEF ServerDies
  <2> QED BY <2>4, <2>5 DEF Crashes
<1> QED BY <1>1, <1>2, <1>3, OpenStays DEF GatesStay, GatesMove

(* Every step keeps gates alone and their successes followed by the move. *)
LEMMA NextGates ==
    ASSUME EngineInv, Held, GatesStay, ~Overlap, GatesSafe, [Next]_vars
    PROVE  GatesStay'
<1>q. ASSUME UNCHANGED success, Human \cap Open = {} PROVE GatesMove'
  BY <1>q, OpenStays DEF GatesMove
<1>1. CASE RunAttempt \/ AdvanceReady
  <2>1. /\ (\A u \in Thread : ~Busy(u)) /\ UNCHANGED success
        /\ \E t \in Thread : \E r : th' = [th EXCEPT ![t] = r] /\ r.pc = "loop"
    BY <1>1, LoopsStart
  <2>2. GatesAlone'
    BY <2>1, GatesAloneStays DEF GateAgrees, Working
  <2> QED BY <1>q, <2>1, <2>2, NoGateOpen DEF GatesStay
<1>2. ASSUME NEW t \in Request, NEW m \in Human, RunHumanGate(t, m) PROVE GatesStay'
  <2>1. PICK r : th' = [th EXCEPT ![t] = r] /\ GateBegun(r, m)
    BY <1>2, GateStarts
  <2>2. GateAgrees(r)
    BY <2>1 DEF GateAgrees, GateBegun
  <2>3. t \in Thread /\ (\A u \in Thread : ~Busy(u)) /\ UNCHANGED success
    BY <1>2, GateStarts
  <2> QED BY <1>q, <2>1, <2>2, <2>3, GatesAloneStays, NoGateOpen DEF GatesStay
<1>3. ASSUME NEW t \in Request, NEW m \in Human, StartHumanGate(t, m) PROVE GatesStay'
  <2>1. PICK r : th' = [th EXCEPT ![t] = r] /\ r.pc = "recheck" /\ r.batch = {m}
    BY <1>3, GateClaims
  <2>2. GateAgrees(r)
    BY <2>1 DEF GateAgrees, Working
  <2>3. t \in Thread /\ (\A u \in Thread : ~Busy(u)) /\ UNCHANGED success
    BY <1>3, GateClaims
  <2> QED BY <1>q, <2>1, <2>2, <2>3, GatesAloneStays, NoGateOpen DEF GatesStay
<1>4. ASSUME NEW t \in Request, NEW m \in Transition, RetryFailedAction(t, m) PROVE GatesStay'
  <2>1. PICK r : th' = [th EXCEPT ![t] = r] /\ r.batch = {m} /\ r.pc \in Working
    BY <1>4, RetryGives DEF Working
  <2>2. m \notin Human
    BY <1>4, OnlyAutomatic DEF RetryFailedAction, MayRetry
  <2>3. GateAgrees(r)
    BY <2>1, <2>2 DEF GateAgrees, Working
  <2>4. t \in Thread /\ (\A u \in Thread : ~Busy(u)) /\ UNCHANGED success
    BY <1>4, RetryGives
  <2> QED BY <1>q, <2>1, <2>3, <2>4, GatesAloneStays, NoGateOpen DEF GatesStay
<1>5. ASSUME NEW t \in Thread, RunStartedHumanGate(t) PROVE GatesStay'
  <2>1. PICK r : /\ th' = [th EXCEPT ![t] = r]
                 /\ r.pc = "raise" \/ \E m \in th[t].batch : m \in Transition /\ GateBegun(r, m)
    BY <1>5, GateResumes
  <2>2. GateAgrees(r)
    BY <2>1 DEF GateAgrees, GateBegun, Working
  <2>3. Busy(t) /\ th[t].pc = "recheck" /\ UNCHANGED success
    BY <1>5, GateResumes
  <2>4. NobodyMoves
    BY <2>3, OneAtWork DEF NobodyMoves
  <2> QED BY <1>q, <2>1, <2>2, <2>3, <2>4, GatesAloneStays, NoGateOpen DEF GatesStay
<1>6. ASSUME NEW t \in Thread, LoopStarts(t) PROVE GatesStay'
  <2>1. PICK r : Chosen(r) /\ th' = [th EXCEPT ![t] = r]
    BY <1>6, LoopStartsGives
  <2>2. GateAgrees(r)
    BY <2>1 DEF GateAgrees, Chosen, Conditioned, Human
  <2>3. Busy(t) /\ th[t].pc = "loop" /\ UNCHANGED success
    BY <1>6, LoopStartsGives DEF LoopStarts, AtLoop
  <2>4. NobodyMoves
    BY <2>3, OneAtWork DEF NobodyMoves
  <2> QED BY <1>q, <2>1, <2>2, <2>3, <2>4, GatesAloneStays, NoGateOpen DEF GatesStay
<1>7. CASE UNCHANGED vars
  BY <1>7 DEF vars, GatesStay, GatesAlone, GateAgrees, GatesMove, Moving, Open, GroupCheckpoint
<1> QED BY <1>1, <1>2, <1>3, <1>4, <1>5, <1>6, <1>7, ReturnsKeepGates, CompareKeepsGates, RestsKeepGates, CrashesKeepGates
      DEF Next, Step, Decide, Rests, Crashes

(* No step starts an action whose success is still to be used. *)
LEMMA NothingRepeated ==
    ASSUME EngineInv, EngineInv', Held, GatesStay, ~Overlap, Next, NEW n \in Open
    PROVE  Runs(n)' \subseteq Runs(n)
<1>s. ASSUME NEW t \in Thread, Busy(t) \/ \A u \in Thread : ~Busy(u), NEW r,
             th' = [th EXCEPT ![t] = r], n \in r.todo => n \in th[t].todo
      PROVE  Runs(n)' \subseteq Runs(n)
  BY <1>s, OthersIdle DEF Runs
<1>h. ASSUME NobodyMoves PROVE n \notin Human
  BY <1>h, NoGateOpen DEF GatesStay
<1>1. CASE RunAttempt \/ AdvanceReady
  <2>1. /\ (\A u \in Thread : ~Busy(u))
        /\ \E t \in Thread : \E r : th' = [th EXCEPT ![t] = r] /\ r.todo = {}
    BY <1>1, LoopsStart
  <2> QED BY <1>s, <2>1
<1>2. ASSUME NEW t \in Request, NEW m \in Human, RunHumanGate(t, m) PROVE Runs(n)' \subseteq Runs(n)
  <2>1. PICK r : th' = [th EXCEPT ![t] = r] /\ r.todo = {m}
    BY <1>2, GateStarts DEF GateBegun
  <2>2. t \in Thread /\ \A u \in Thread : ~Busy(u)
    BY <1>2, GateStarts
  <2>3. n # m
    BY <1>h, <2>2, NoGateOpen
  <2> QED BY <1>s, <2>1, <2>2, <2>3
<1>3. ASSUME NEW t \in Request, NEW m \in Human, StartHumanGate(t, m) PROVE Runs(n)' \subseteq Runs(n)
  <2>1. PICK r : th' = [th EXCEPT ![t] = r] /\ r.todo = {}
    BY <1>3, GateClaims
  <2> QED BY <1>3, <1>s, <2>1, GateClaims
<1>4. ASSUME NEW t \in Request, NEW m \in Transition, RetryFailedAction(t, m) PROVE Runs(n)' \subseteq Runs(n)
  <2>1. PICK r : th' = [th EXCEPT ![t] = r] /\ ((r.todo = {m} /\ ~success[m].own) \/ r.todo = {})
    BY <1>4, RetryGives
  <2>2. n \notin r.todo
    BY <2>1 DEF Open, GroupCheckpoint
  <2> QED BY <1>4, <1>s, <2>1, <2>2, RetryGives
<1>5. ASSUME NEW t \in Thread, RunStartedHumanGate(t) PROVE Runs(n)' \subseteq Runs(n)
  <2>1. PICK r : /\ th' = [th EXCEPT ![t] = r]
                 /\ r.todo = {} \/ \E m \in th[t].batch : r.todo = {m}
    BY <1>5, GateResumes DEF GateBegun
  <2>2. Busy(t) /\ th[t].pc = "recheck"
    BY <1>5, GateResumes
  <2>3. th[t].batch \subseteq Human
    BY <2>2 DEF GatesStay, GatesAlone, GateAgrees
  <2>4. NobodyMoves
    BY <2>2, OneAtWork DEF NobodyMoves
  <2> QED BY <1>h, <1>s, <2>1, <2>2, <2>3, <2>4
<1>6. ASSUME NEW t \in Thread, LoopStarts(t) PROVE Runs(n)' \subseteq Runs(n)
  <2>1. PICK r : th' = [th EXCEPT ![t] = r] /\ r.todo \cap Open = {}
    BY <1>6, LoopStartsGives DEF Chosen
  <2> QED BY <1>6, <1>s, <2>1, LoopStartsGives
<1>7. ASSUME NEW t \in Thread, NEW m \in Transition, ActionReturns(t, m) PROVE Runs(n)' \subseteq Runs(n)
  <2>1. PICK r : th' = [th EXCEPT ![t] = r] /\ r.todo = th[t].todo \ {m}
    BY <1>7, ReturnsGive DEF Returned
  <2> QED BY <1>7, <1>s, <2>1, ReturnsGive
<1>8. ASSUME NEW t \in Thread, CompareState(t) PROVE Runs(n)' \subseteq Runs(n)
  <2>1. PICK r : th' = [th EXCEPT ![t] = r] /\ r.todo = {}
    BY <1>8, CompareGives
  <2> QED BY <1>8, <1>s, <2>1, CompareGives
<1>9. ASSUME NEW t \in Thread, Rests(t) PROVE Runs(n)' \subseteq Runs(n)
  <2>1. \A u \in Thread : th'[u].pc \notin {"run", "dead"}
    BY <1>9, RestsIdle DEF Resting
  <2>2. \A u \in Thread : th'[u].todo = {}
    BY <2>1 DEF EngineInv, Row
  <2> QED BY <2>2 DEF Runs
<1>10. CASE Crashes
  BY <1>10, CrashesIdle DEF Runs
<1> QED BY <1>1, <1>2, <1>3, <1>4, <1>5, <1>6, <1>7, <1>8, <1>9, <1>10 DEF Next, Step, Decide, Rests, Crashes

LEMMA InitHeld == Init => Held /\ GatesStay
BY DEF Init, Created, Held, AtWork, Working, GatesStay, GatesAlone, GateAgrees, GatesMove, Idle, Open,
       GroupCheckpoint, NoSuccess

(* Once the success of an action is recorded, nobody starts the action again until the    *)
(* instance has moved with it, if the server does not die between the success of a gate's *)
(* action and its move, and the threads follow one another.                               *)
THEOREM NothingIsRepeated ==
    ASSUME ~Overlap, (GateKind \X {"compare", "write"}) \cap CrashWindows = {}
    PROVE  Spec => SuccessIsKept
<1> DEFINE Inv == EngineInv /\ Held /\ GatesStay
           Kept == \A m \in Transition : GroupCheckpoint(m) => Runs(m)' \subseteq Runs(m)
<1>1. Init => Inv
  BY InitEngine, InitHeld
<1>2. Inv /\ [Next]_vars => Inv'
  BY NextEngine, NextHeld, NextGates DEF GatesSafe
<1>3. Inv /\ [Next]_vars => [Kept]_vars
  <2> SUFFICES ASSUME Inv, Next PROVE Kept
    OBVIOUS
  <2>1. EngineInv'
    BY NextEngine
  <2> QED BY <2>1, NothingRepeated DEF Open
<1> HIDE DEF Inv, Kept
<1>4. [][Kept]_vars => SuccessIsKept
  BY DEF Kept, SuccessIsKept
<1>5. Spec => [][Kept]_vars
  BY <1>1, <1>2, <1>3, PTL DEF Spec
<1> QED BY <1>4, <1>5

(***************************************************************************)
(* The engine implements DurableWorkflow                                   *)
(***************************************************************************)

(* A parallel batch is of one group and has two members at least. *)
LEMMA ParallelBatch ==
    ASSUME NEW batch \in SUBSET Transition, IsBatch(batch), IsParallel(batch)
    PROVE  /\ \A m, n \in batch : Def[m].group = Def[n].group /\ Def[m].group # NoGroup /\ Def[m].to = Def[n].to
           /\ \A m \in batch : \E n \in batch : n # m
<1>1. IsFiniteSet(batch) /\ Cardinality(batch) \in Nat /\ Cardinality(batch) # 1
  BY StateAssumption, FS_Subset, FS_CardinalityType DEF IsParallel
<1>2. \A m, n \in batch : Def[m].group = Def[n].group /\ Def[m].group # NoGroup /\ Def[m].to = Def[n].to
  BY <1>1 DEF IsBatch
<1>3. ASSUME NEW m \in batch, \A n \in batch : n = m PROVE FALSE
  <2>1. batch = {m}
    BY <1>3
  <2> QED BY <1>1, <2>1, FS_Singleton
<1> QED BY <1>2, <1>3

(* What a move uses. *)
LEMMA MoveUses ==
    ASSUME EngineInv, Held, NEW t \in Thread, WriteState(t)
    PROVE  LET batch == th[t].batch IN
           /\ batch \in SUBSET Transition /\ batch # {} /\ The(batch) \in batch
           /\ IsBatch(batch) /\ state' = Def[The(batch)].to
           /\ \A m \in batch : Def[m].from = state
           /\ ~IsParallel(batch) => batch = {The(batch)}
           /\ \A m \in Transition :
                IF IsParallel(batch)
                THEN /\ success'[m].own = success[m].own
                     /\ success'[m].group = (success[m].group /\ \A n \in batch : Def[m].group # Def[n].group)
                ELSE success'[m] = IF m \in batch THEN NoSuccess ELSE success[m]
<1>1. /\ th[t] \in Row /\ th[t].pc = "write" /\ HeldRow(th[t]) /\ success \in [Transition -> SuccessType]
  BY DEF EngineInv, RowsTyped, WriteState, Held, AtWork, Working
<1>2. th[t].batch \in SUBSET Transition /\ th[t].batch # {}
  BY <1>1 DEF Row, RowType, Holding
<1>3. The(th[t].batch) \in th[t].batch
  BY <1>2 DEF The
<1>4. ~IsParallel(th[t].batch) => th[t].batch = {The(th[t].batch)}
  BY <1>2, SingleBatch
<1>5. state' = Def[The(th[t].batch)].to /\ success' = Consumed(th[t].batch)
  BY DEF WriteState
<1>6. ASSUME NEW m \in Transition
      PROVE  IF IsParallel(th[t].batch)
             THEN /\ success'[m].own = success[m].own
                  /\ success'[m].group = (success[m].group /\ \A n \in th[t].batch : Def[m].group # Def[n].group)
             ELSE success'[m] = IF m \in th[t].batch THEN NoSuccess ELSE success[m]
  <2>1. success'[m] = IF IsParallel(th[t].batch)
                      THEN [success[m] EXCEPT !.group = success[m].group
                                /\ \A n \in th[t].batch : Def[m].group # Def[n].group]
                      ELSE IF m \in th[t].batch THEN NoSuccess ELSE success[m]
    BY <1>5 DEF Consumed
  <2>2. \A b : /\ [success[m] EXCEPT !.group = b].own = success[m].own
               /\ [success[m] EXCEPT !.group = b].group = b
    BY <1>1 DEF SuccessType
  <2> QED BY <2>1, <2>2
<1> QED BY <1>1, <1>2, <1>3, <1>4, <1>5, <1>6 DEF HeldRow

(* A thread that moves is the only one whose batch has to be looked at. *)
LEMMA SavedStays ==
    ASSUME EngineInv, NEW t \in Thread, Busy(t) \/ \A u \in Thread : ~Busy(u), NEW r,
           th' = [th EXCEPT ![t] = r], SavedRow(r)'
    PROVE  SavedThreads'
<1>1. th'[t] = r /\ \A u \in Thread : u # t => th'[u].pc = "idle"
  BY OthersIdle
<1> QED BY <1>1 DEF SavedThreads, SavedRow

LEMMA ReturnsSave ==
    ASSUME EngineInv, Saved, NEW t \in Thread, NEW m \in Transition, ActionReturns(t, m)
    PROVE  Saved'
<1>1. /\ Busy(t) /\ th[t].pc = "run" /\ SavedRow(th[t]) /\ success \in [Transition -> SuccessType]
  BY ReturnsGive DEF Saved, SavedThreads, SavedSuccesses, EngineInv, RowsTyped
<1>2. PICK ok, r :
        /\ ok \in BOOLEAN /\ th' = [th EXCEPT ![t] = r] /\ Returned(th[t], m, ok, r)
        /\ IF ok THEN \E yes : success' = [success EXCEPT ![m] = [own |-> TRUE, group |-> TRUE, yes |-> yes]]
                 ELSE UNCHANGED success
  BY ReturnsGive
<1>3. /\ ok => Open' = Open \cup {m}
      /\ ~ok => Open' = Open
      /\ \A n \in Transition : success'[n].own /\ ~success'[n].group => success[n].own /\ ~success[n].group
  BY <1>1, <1>2 DEF Open, GroupCheckpoint
<1>4. SavedRow(r)'
  BY <1>1, <1>2, <1>3 DEF SavedRow, Returned
<1>5. SavedThreads'
  BY <1>1, <1>2, <1>4, SavedStays
<1>6. SavedSuccesses'
  BY <1>3 DEF Saved, SavedThreads, SavedSuccesses, Companion
<1> QED BY <1>5, <1>6 DEF Saved, SavedThreads, SavedSuccesses

LEMMA RestsSaved ==
    ASSUME EngineInv, Held, Saved, NEW t \in Thread, Rests(t)
    PROVE  Saved'
<1>1. \A u \in Thread : th'[u].pc \in Resting
  BY RestsIdle DEF Resting
<1>2. SavedThreads'
  BY <1>1 DEF SavedThreads, SavedRow, Resting
<1>3. SavedSuccesses'
  <2>1. CASE UNCHANGED success
    BY <2>1 DEF Saved, SavedThreads, SavedSuccesses, Companion
  <2>2. CASE WriteState(t)
    <3> SUFFICES ASSUME NEW m \in Transition, success'[m].own, ~success'[m].group
                 PROVE  \E n \in Transition : Companion(m, n)
      BY DEF SavedSuccesses, Companion
    <3> DEFINE batch == th[t].batch
    <3>1. CASE ~IsParallel(batch)
      <4>1. success'[m] = success[m]
        BY <2>2, <3>1, MoveUses DEF NoSuccess
      <4> QED BY <4>1 DEF Saved, SavedThreads, SavedSuccesses
    <3>2. CASE IsParallel(batch)
      <4>1. /\ success'[m].own = success[m].own
            /\ success'[m].group = (success[m].group /\ \A n \in batch : Def[m].group # Def[n].group)
        BY <2>2, <3>2, MoveUses
      <4>2. CASE ~success[m].group
        BY <4>1, <4>2 DEF Saved, SavedThreads, SavedSuccesses
      <4>3. CASE success[m].group
        <5>1. PICK n \in batch : Def[m].group = Def[n].group
          BY <4>1, <4>3
        <5>2. batch \in SUBSET Transition /\ IsBatch(batch)
          BY <2>2, MoveUses
        <5>3. PICK k \in batch : k # n
          BY <3>2, <5>2, ParallelBatch
        <5>4. Def[k].group = Def[n].group /\ Def[n].group # NoGroup
          BY <3>2, <5>2, ParallelBatch
        <5> QED BY <5>1, <5>2, <5>3, <5>4 DEF Companion
      <4> QED BY <4>2, <4>3
    <3> QED BY <3>1, <3>2
  <2> QED BY <2>1, <2>2, RestsSave
<1> QED BY <1>2, <1>3 DEF Saved, SavedThreads, SavedSuccesses

(* Every step keeps what has succeeded. *)
LEMMA NextSaved ==
    ASSUME EngineInv, Held, Saved, ~Overlap, GroupsAreWhole, [Next]_vars
    PROVE  Saved'
<1>q. ASSUME UNCHANGED success, SavedThreads' PROVE Saved'
  BY <1>q DEF Saved, SavedThreads, SavedSuccesses, Companion
<1>1. CASE RunAttempt \/ AdvanceReady
  <2>1. /\ (\A u \in Thread : ~Busy(u)) /\ UNCHANGED success
        /\ \E t \in Thread : \E r : th' = [th EXCEPT ![t] = r] /\ r.pc = "loop"
    BY <1>1, LoopsStart
  <2> QED BY <1>q, <2>1, SavedStays DEF SavedRow
<1>2. ASSUME NEW t \in Request, NEW m \in Human, RunHumanGate(t, m) PROVE Saved'
  <2>1. PICK r : th' = [th EXCEPT ![t] = r] /\ GateBegun(r, m)
    BY <1>2, GateStarts
  <2>2. SavedRow(r)'
    BY <2>1 DEF SavedRow, GateBegun
  <2> QED BY <1>2, <1>q, <2>1, <2>2, GateStarts, SavedStays
<1>3. ASSUME NEW t \in Request, NEW m \in Human, StartHumanGate(t, m) PROVE Saved'
  <2>1. PICK r : th' = [th EXCEPT ![t] = r] /\ r.pc = "recheck"
    BY <1>3, GateClaims
  <2>2. SavedRow(r)'
    BY <2>1 DEF SavedRow
  <2> QED BY <1>3, <1>q, <2>1, <2>2, GateClaims, SavedStays
<1>4. ASSUME NEW t \in Request, NEW m \in Transition, RetryFailedAction(t, m) PROVE Saved'
  <2>1. PICK r : /\ th' = [th EXCEPT ![t] = r] /\ r.batch = {m}
                 /\ \/ r.pc = "run" /\ r.todo = {m}
                    \/ r.pc = "compare" /\ success[m].own
    BY <1>4, RetryGives
  <2>2. UNCHANGED success /\ Def[m].group = NoGroup
    BY <1>4, RetryGives DEF RetryFailedAction, GroupsAreWhole
  <2>3. success[m].own => m \in Open
    BY <2>2 DEF Saved, SavedThreads, SavedSuccesses, Companion, Open, GroupCheckpoint
  <2>4. SavedRow(r)'
    BY <2>1, <2>2, <2>3, OpenStays DEF SavedRow
  <2> QED BY <1>4, <1>q, <2>1, <2>4, RetryGives, SavedStays
<1>5. ASSUME NEW t \in Thread, RunStartedHumanGate(t) PROVE Saved'
  <2>1. PICK r : /\ th' = [th EXCEPT ![t] = r]
                 /\ r.pc = "raise" \/ \E m \in th[t].batch : m \in Transition /\ GateBegun(r, m)
    BY <1>5, GateResumes
  <2>2. SavedRow(r)'
    BY <2>1 DEF SavedRow, GateBegun
  <2> QED BY <1>5, <1>q, <2>1, <2>2, GateResumes, SavedStays
<1>6. ASSUME NEW t \in Thread, LoopStarts(t) PROVE Saved'
  <2>1. PICK r : Chosen(r) /\ th' = [th EXCEPT ![t] = r]
    BY <1>6, LoopStartsGives
  <2>2. r.batch \ r.todo \subseteq Open
    <3> SUFFICES ASSUME NEW m \in Transition, r.batch = {m}, success[m].own, Conditioned(state, "automatic") = {m}
                 PROVE  m \in Open
      BY <2>1 DEF Chosen
    <3>1. ASSUME NEW n \in Transition, Companion(m, n) PROVE FALSE
      <4>1. Def[m].from = state /\ Def[m].trigger = "automatic" /\ ConditionMatches(Def[m].when)
        BY DEF Conditioned
      <4>2. Def[n].from = Def[m].from /\ Def[n].trigger = "automatic"
        BY <3>1, GroupAssumption DEF Companion
      <4>3. Def[n].when = Def[m].when
        BY <3>1 DEF GroupsAreWhole, Companion
      <4>4. n \in Conditioned(state, "automatic")
        BY <4>1, <4>2, <4>3 DEF Conditioned
      <4> QED BY <3>1, <4>4 DEF Companion
    <3> QED BY <3>1 DEF Saved, SavedThreads, SavedSuccesses, Open, GroupCheckpoint
  <2>3. SavedRow(r)'
    BY <1>6, <2>1, <2>2, LoopStartsGives, OpenStays DEF SavedRow, Chosen
  <2> QED BY <1>6, <1>q, <2>1, <2>3, LoopStartsGives, SavedStays
<1>7. ASSUME NEW t \in Thread, CompareState(t) PROVE Saved'
  <2>1. PICK r : th' = [th EXCEPT ![t] = r] /\ r.pc \in {"write", "raise"} /\ r.batch = th[t].batch
    BY <1>7, CompareGives
  <2>2. SavedRow(th[t]) /\ th[t].pc = "compare" /\ UNCHANGED success
    BY <1>7, CompareGives DEF Saved, SavedThreads, SavedSuccesses
  <2>3. SavedRow(r)'
    BY <2>1, <2>2, OpenStays DEF SavedRow
  <2> QED BY <1>7, <1>q, <2>1, <2>3, CompareGives, SavedStays
<1>8. CASE Crashes
  BY <1>8, <1>q, CrashesIdle DEF SavedThreads, SavedRow
<1>9. CASE UNCHANGED vars
  BY <1>9 DEF vars, Saved, SavedThreads, SavedSuccesses, SavedRow, Companion, Open, GroupCheckpoint
<1> QED BY <1>1, <1>2, <1>3, <1>4, <1>5, <1>6, <1>7, <1>8, <1>9, ReturnsSave, RestsSaved
      DEF Next, Step, Decide, Rests, Crashes

(* What the other steps of the loop, and crashes, do to the state: nothing, or they fail the instance. *)
LEMMA RestsFail ==
    ASSUME NEW t \in Thread, Rests(t), ~WriteState(t)
    PROVE  UNCHANGED success /\ (state' = state \/ state' = Failed)
BY DEF Rests, LoopEnds, LoopRaises, LoopOpensGates, LoopRefused, RecordArtifacts, CloseGate,
       FinishTerminal, FinishReview, FinishStopped, RaiseInLoop, RaiseInGate, GiveUp, NothingChosen, rows

LEMMA CrashesFail == ASSUME EngineInv, Crashes PROVE UNCHANGED success /\ (state' = state \/ state' = Failed)
BY CrashesIdle DEF Crashes, WorkerDies, FailAndRetry, ServerDies, GivenUp

(* A step that uses no success may leave the state or fail the instance. *)
LEMMA Fails ==
    ASSUME UNCHANGED success, state' = state \/ state' = Failed
    PROVE  [Durable!Next]_(Durable!vars)
BY DEF Durable!Next, Durable!Fail, Durable!vars, GroupCheckpoint

(* The move uses the successes of its batch, and with it those of the whole group. *)
LEMMA MoveIsDurable ==
    ASSUME EngineInv, Held, Saved, NEW t \in Thread, WriteState(t)
    PROVE  Durable!Move
<1> DEFINE batch == th[t].batch
<1>1. /\ batch \in SUBSET Transition /\ batch # {} /\ The(batch) \in batch
      /\ IsBatch(batch) /\ state' = Def[The(batch)].to
      /\ \A m \in batch : Def[m].from = state
  BY MoveUses
<1>2. batch \subseteq Open
  BY DEF Saved, SavedThreads, SavedRow, WriteState
<1>3. CASE IsParallel(batch)
  <2>1. \A m \in Transition :
          /\ success'[m].own = success[m].own
          /\ success'[m].group = (success[m].group /\ \A n \in batch : Def[m].group # Def[n].group)
    BY <1>3, MoveUses
  <2>2. Open' = {m \in Open : \A n \in batch : Def[m].group # Def[n].group}
    BY <2>1 DEF Open, GroupCheckpoint
  <2>3. The(batch) \in Open \ Open'
    BY <1>1, <1>2, <2>2
  <2>4. ASSUME NEW m \in Open \ Open' PROVE Def[m].from = state /\ Def[m].to = state'
    <3>1. PICK n \in batch : Def[m].group = Def[n].group
      BY <2>2
    <3>2. Def[n].group # NoGroup /\ Def[n].to = Def[The(batch)].to /\ n \in Transition
      BY <1>1, <1>3, ParallelBatch
    <3>3. Def[m].from = Def[n].from /\ Def[m].to = Def[n].to
      BY <3>1, <3>2, GroupAssumption DEF Open
    <3> QED BY <1>1, <3>2, <3>3
  <2>5. Open' \subseteq Open
    BY <2>2
  <2> QED BY <2>3, <2>4, <2>5 DEF Durable!Move, Open
<1>4. CASE ~IsParallel(batch)
  <2>1. /\ batch = {The(batch)}
        /\ \A m \in Transition : success'[m] = IF m \in batch THEN NoSuccess ELSE success[m]
    BY <1>4, MoveUses
  <2>2. Open' = Open \ batch
    BY <2>1 DEF Open, GroupCheckpoint, NoSuccess
  <2>3. Open \ Open' = batch /\ Open' \subseteq Open
    BY <1>2, <2>2
  <2>4. \A m \in batch : Def[m].from = state /\ Def[m].to = state' /\ m \in Transition
    BY <1>1, <2>1
  <2> QED BY <1>1, <2>3, <2>4 DEF Durable!Move, Open
<1> QED BY <1>3, <1>4

(* Every step is one of DurableWorkflow or changes nothing it sees. *)
LEMMA StepIsDurable ==
    ASSUME EngineInv, Held, Saved, ~Overlap, [Next]_vars
    PROVE  [Durable!Next]_(Durable!vars)
<1>1. CASE RunAttempt \/ AdvanceReady
  BY <1>1, LoopsStart, Fails
<1>2. ASSUME NEW t \in Request, NEW m \in Human, RunHumanGate(t, m) \/ StartHumanGate(t, m)
      PROVE  [Durable!Next]_(Durable!vars)
  BY <1>2, GateStarts, GateClaims, Fails
<1>3. ASSUME NEW t \in Request, NEW m \in Transition, RetryFailedAction(t, m) PROVE [Durable!Next]_(Durable!vars)
  <2>1. state = Failed /\ state' = Def[m].from /\ UNCHANGED success
    BY <1>3, RetryGives DEF RetryFailedAction
  <2>2. Durable!Retry(m)
    BY <2>1 DEF Durable!Retry, GroupCheckpoint
  <2> QED BY <2>2 DEF Durable!Next
<1>4. ASSUME NEW t \in Thread, RunStartedHumanGate(t) \/ LoopStarts(t) \/ CompareState(t)
      PROVE  [Durable!Next]_(Durable!vars)
  BY <1>4, GateResumes, LoopStartsGives, CompareGives, Fails
<1>5. ASSUME NEW t \in Thread, NEW m \in Transition, ActionReturns(t, m) PROVE [Durable!Next]_(Durable!vars)
  <2>1. /\ th[t].pc = "run" /\ m \in th[t].todo /\ UNCHANGED state /\ HeldRow(th[t])
        /\ success \in [Transition -> SuccessType]
    BY <1>5, ReturnsGive DEF Held, AtWork, Working, EngineInv, RowsTyped
  <2>2. Def[m].from = state
    BY <2>1 DEF HeldRow
  <2>3. \/ UNCHANGED success
        \/ \E yes : success' = [success EXCEPT ![m] = [own |-> TRUE, group |-> TRUE, yes |-> yes]]
    BY <1>5, ReturnsGive
  <2>4. CASE UNCHANGED success
    BY <2>1, <2>4, Fails
  <2>5. CASE \E yes : success' = [success EXCEPT ![m] = [own |-> TRUE, group |-> TRUE, yes |-> yes]]
    <3>1. Open' = Open \cup {m}
      BY <2>1, <2>5 DEF Open, GroupCheckpoint
    <3>2. CASE m \in Open
      BY <2>1, <3>1, <3>2 DEF Durable!vars, Open
    <3>3. CASE m \notin Open
      <4>1. Durable!Succeed(m)
        BY <2>1, <2>2, <3>1, <3>3 DEF Durable!Succeed, Open
      <4> QED BY <4>1 DEF Durable!Next
    <3> QED BY <3>2, <3>3
  <2> QED BY <2>3, <2>4, <2>5
<1>6. ASSUME NEW t \in Thread, Rests(t) PROVE [Durable!Next]_(Durable!vars)
  <2>1. WriteState(t) => Durable!Move
    BY MoveIsDurable
  <2> QED BY <1>6, <2>1, RestsFail, Fails DEF Durable!Next
<1>7. CASE Crashes
  BY <1>7, CrashesFail, Fails
<1>8. CASE UNCHANGED vars
  BY <1>8, Fails DEF vars
<1> QED BY <1>1, <1>2, <1>3, <1>4, <1>5, <1>6, <1>7, <1>8 DEF Next, Step, Decide, Rests, Crashes

(* The engine implements DurableWorkflow: a success is recorded once until the move of   *)
(* its batch uses it, a move uses only successes recorded before it and all those of its *)
(* group, and an action that has succeeded is not counted again before the move, through *)
(* crashes and retries (_succeeded_workflow_action, latest_succeeded_workflow_action_run,*)
(* transition_workflow_instance). This takes groups whose members wait for the same      *)
(* conditions and are not retried by hand: a member that moves alone takes its own       *)
(* success, which the group has already used, for its checkpoint.                        *)
THEOREM EngineIsDurable ==
    ASSUME ~Overlap,
           \A m, n \in Transition :
               (Def[m].group = Def[n].group /\ Def[m].group # NoGroup) => Def[m].when = Def[n].when,
           \A m \in Retriable : Def[m].group = NoGroup
    PROVE  Spec => ImplementsDurable
<1> DEFINE Inv == EngineInv /\ Held /\ Saved
<1>g. GroupsAreWhole
  BY DEF GroupsAreWhole, Companion
<1>1. Init => Inv
  <2>1. Init => Saved
    BY DEF Init, Created, Saved, SavedThreads, SavedSuccesses, SavedRow, Idle, NoSuccess
  <2> QED BY <2>1, InitEngine, InitHeld
<1>2. Inv /\ [Next]_vars => Inv'
  BY <1>g, NextEngine, NextHeld, NextSaved
<1>3. Inv /\ [Next]_vars => [Durable!Next]_(Durable!vars)
  BY StepIsDurable
<1>4. Init => Durable!Init
  BY DEF Init, Created, Durable!Init, GroupCheckpoint, NoSuccess
<1> HIDE DEF Inv
<1> QED BY <1>1, <1>2, <1>3, <1>4, PTL DEF Spec, ImplementsDurable, Durable!Spec

(***************************************************************************)
(* Somebody can act                                                        *)
(***************************************************************************)

(* The thread that runs a gate's action, from its claim to its close. *)
OfGate(h) == h.sole /\ h.kind \in GateKind
HoldsGate(h, m) ==
    /\ h.batch = {m} /\ h.todo \subseteq {m} /\ h.row /\ GateIsOpen(m)
    /\ h.pc \in {"recheck", "run", "compare", "write", "record", "close", "raise"}
    /\ h.pc # "raise" => RetryAvailable(m)
    /\ h.pc = "recheck" => h.kind = "background"

(* Only such a thread runs the action of a human transition. *)
Automatic(h) ==
    /\ h.todo \cap Human = {} /\ h.pc \notin {"recheck", "close"}
    /\ h.bad /\ h.kind \in GateKind => h.pc = "run"
RowAgrees(h) == IF OfGate(h) THEN \E m \in Human : HoldsGate(h, m) ELSE Automatic(h)
GateRows == th["worker"].kind = "worker" /\ \A t \in Thread : RowAgrees(th[t])

(* A running gate is held by a thread, and one whose retries are spent is open. *)
RunningHeld ==
    \A m \in Human : gate[m] = "running" =>
        \E t \in Thread : OfGate(th[t]) /\ th[t].kind = "background" /\ th[t].batch = {m}
SpentOpen == \A m \in Human : RetryAvailable(m) \/ GateIsOpen(m)
GatesHeld == GateRows /\ RunningHeld /\ SpentOpen

(* What nobody at work leaves behind: the next loop fails, or a gate is open and no         *)
(* automatic transition applies.                                                           *)
Waits ==
    \/ ChoiceFails
    \/ /\ Conditioned(state, "automatic") = {}
       /\ \E m \in Human : Def[m].from = state /\ GateIsOpen(m)

(* A request's thread that will read the instance again, whatever happens to it. *)
Advancing(h) ==
    /\ h.kind \in GateKind
    /\ h.pc \in {"write", "record", "close"} \/ (~h.sole /\ h.pc \in {"loop", "run", "compare"})

(* Under review the worker and the retries are done, and the cycle moves nothing. *)
Reviews(h) ==
    h.kind \in GateKind \/ (h.kind = "cycle" /\ h.pc \in {"loop", "terminal", "human_gate", "stopped", "raise"})
Place(h) ==
    /\ h.pc = "human_gate" => Waits
    /\ h.pc = "terminal" => state \in Terminal
    /\ attempt = "review" /\ h.pc # "idle" => Reviews(h)
InPlace == \A t \in Thread : Place(th[t])
Reviewed == attempt = "review" /\ Active => Waits \/ \E t \in Thread : Advancing(th[t])

(* Beside the thread t all are idle, before the step and after it, and hold what they held. *)
Same(h, r) == r.pc = h.pc /\ r.kind = h.kind /\ r.sole = h.sole /\ r.bad = h.bad /\ r.todo = h.todo
Beside(t) == \A u \in Thread : u # t => th[u].pc = "idle" /\ Same(th[u], th'[u])

LEMMA OneMoves ==
    ASSUME EngineInv, NEW t \in Thread, Busy(t) \/ \A u \in Thread : ~Busy(u), NEW r,
           th' = [th EXCEPT ![t] = r]
    PROVE  th'[t] = r /\ Beside(t)
BY OthersIdle DEF Beside, Same

(* Who is idle holds no gate. *)
LEMMA IdleIsAutomatic ==
    ASSUME NEW h, RowAgrees(h), h.pc \in {"idle", "dead", "loop", "terminal", "human_gate", "stopped", "giveup"}
    PROVE  ~OfGate(h) /\ Automatic(h)
BY DEF RowAgrees, HoldsGate

LEMMA SameIsAutomatic ==
    ASSUME NEW h, NEW r, Same(h, r), ~OfGate(h), Automatic(h)
    PROVE  ~OfGate(r) /\ RowAgrees(r)'
BY DEF Same, OfGate, Automatic, RowAgrees

(* One thread moves. *)
LEMMA RowsMove ==
    ASSUME GateRows, NEW t \in Thread, Beside(t), RowAgrees(th[t])', t = "worker" => th'[t].kind = "worker"
    PROVE  GateRows'
<1>1. ASSUME NEW u \in Thread, u # t PROVE RowAgrees(th[u])'
  BY <1>1, IdleIsAutomatic, SameIsAutomatic DEF GateRows, Beside
<1>2. th'["worker"].kind = "worker"
  BY DEF GateRows, Beside, Same, Thread
<1> QED BY <1>1, <1>2 DEF GateRows

(* What a running gate has, with one thread at work. *)
LEMMA RunningIs ==
    ASSUME GateRows, RunningHeld, NEW t \in Thread, Beside(t), NEW m \in Human, gate[m] = "running"
    PROVE  OfGate(th[t]) /\ th[t].kind = "background" /\ th[t].batch = {m}
BY IdleIsAutomatic DEF GateRows, RunningHeld, Beside

(* Steps that leave the gates and the threads that hold them. *)
Keeps(h, r) == OfGate(h) => OfGate(r) /\ r.kind = h.kind /\ r.batch = h.batch

LEMMA GatesMoved ==
    ASSUME GatesHeld, NEW t \in Thread, Beside(t), UNCHANGED gate,
           Keeps(th[t], th'[t]), RowAgrees(th[t])', t = "worker" => th'[t].kind = "worker",
           \A m \in Human : RetryAvailable(m) => RetryAvailable(m)' \/ GateIsOpen(m)
    PROVE  GatesHeld'
<1>1. GateRows'
  BY RowsMove DEF GatesHeld
<1>2. ASSUME NEW m \in Human, gate'[m] = "running"
      PROVE  \E u \in Thread : OfGate(th'[u]) /\ th'[u].kind = "background" /\ th'[u].batch = {m}
  <2>1. OfGate(th[t]) /\ th[t].kind = "background" /\ th[t].batch = {m}
    BY <1>2, RunningIs DEF GatesHeld
  <2> QED BY <2>1 DEF Keeps
<1>3. RunningHeld'
  BY <1>2 DEF RunningHeld, OfGate
<1>4. SpentOpen'
  BY DEF SpentOpen, GatesHeld, GateIsOpen
<1> QED BY <1>1, <1>3, <1>4 DEF GatesHeld

LEMMA AutomaticRow ==
    ASSUME NEW r, ~OfGate(r), Automatic(r)
    PROVE  RowAgrees(r)'
BY DEF RowAgrees, OfGate, Automatic

(* A thread that is no gate's thread becomes no gate's thread. *)
LEMMA AutomaticMoves ==
    ASSUME GatesHeld, NEW t \in Thread, Beside(t), UNCHANGED gate, ~OfGate(th[t]),
           ~OfGate(th'[t]), Automatic(th'[t]), t = "worker" => th'[t].kind = "worker",
           \A m \in Human : RetryAvailable(m) => RetryAvailable(m)'
    PROVE  GatesHeld'
BY GatesMoved, AutomaticRow DEF Keeps

(* What a thread holds before it starts and after it rests. *)
LEMMA RestingRows ==
    ASSUME NEW r, NEW k \in Kind,
           \/ r = Idle
           \/ r = [Idle EXCEPT !.pc = "loop"]
           \/ r = [Idle EXCEPT !.pc = "loop", !.kind = k]
           \/ r = [Idle EXCEPT !.pc = "giveup", !.kind = k]
    PROVE  /\ ~r.sole /\ ~r.bad /\ r.todo = {} /\ r.pc \in {"idle", "loop", "giveup"}
           /\ ~OfGate(r) /\ Automatic(r)
<1> DEFINE Rest(h) == ~h.sole /\ ~h.bad /\ h.todo = {} /\ h.pc \in {"idle", "loop", "giveup"}
<1>1. Rest(Idle) /\ Rest([Idle EXCEPT !.pc = "loop"])
  BY DEF Idle
<1>2. Rest([Idle EXCEPT !.pc = "loop", !.kind = k]) /\ Rest([Idle EXCEPT !.pc = "giveup", !.kind = k])
  BY DEF Idle
<1> HIDE DEF Rest
<1>3. Rest(r)
  BY <1>1, <1>2
<1>4. ~r.sole /\ ~r.bad /\ r.todo = {} /\ r.pc \in {"idle", "loop", "giveup"}
  BY <1>3 DEF Rest
<1> QED BY <1>4 DEF OfGate, Automatic

LEMMA MovedRow ==
    ASSUME NEW h \in Row, NEW q
    PROVE  LET r == [h EXCEPT !.pc = q] IN
           /\ r.pc = q /\ r.kind = h.kind /\ r.sole = h.sole /\ r.bad = h.bad /\ r.todo = h.todo
           /\ r.batch = h.batch /\ r.row = h.row /\ r.at = h.at
           /\ \A s : LET v == [h EXCEPT !.pc = q, !.at = s] IN
                v.pc = q /\ v.kind = h.kind /\ v.sole = h.sole /\ v.bad = h.bad /\ v.todo = h.todo
BY DEF Row, RowType

LEMMA BudgetsStay == UNCHANGED failed => \A m : RetryAvailable(m)' = RetryAvailable(m)
BY DEF RetryAvailable

LEMMA LoopsStartHold ==
    ASSUME EngineInv, GatesHeld, ~Overlap, RunAttempt \/ AdvanceReady
    PROVE  GatesHeld'
<1>1. PICK t, r :
        /\ t \in Thread /\ MayStart(t) /\ th' = [th EXCEPT ![t] = r] /\ (t = "worker" => r.kind = "worker")
        /\ r = [Idle EXCEPT !.pc = "loop"] \/ r = [Idle EXCEPT !.pc = "loop", !.kind = "cycle"]
  <2>1. CASE RunAttempt
    <3>1. PICK r : r = [Idle EXCEPT !.pc = "loop"]
      OBVIOUS
    <3>2. r.kind = "worker"
      BY <3>1 DEF Idle
    <3> QED BY <2>1, <3>1, <3>2 DEF RunAttempt, Thread
  <2>2. CASE AdvanceReady
    <3>1. PICK r : r = [Idle EXCEPT !.pc = "loop", !.kind = "cycle"]
      OBVIOUS
    <3> QED BY <2>2, <3>1 DEF AdvanceReady, Thread
  <2> QED BY <2>1, <2>2
<1>2. ~OfGate(r) /\ Automatic(r)
  BY <1>1, RestingRows DEF Kind
<1>3. t \in Thread /\ (\A u \in Thread : ~Busy(u)) /\ th'[t] = r /\ Beside(t)
  BY <1>1, OneMoves DEF MayStart
<1>4. ~OfGate(th[t])
  BY <1>3, IdleIsAutomatic DEF GatesHeld, GateRows, Busy
<1>5. UNCHANGED <<gate, failed>>
  BY DEF RunAttempt, AdvanceReady, rows
<1> QED BY <1>1, <1>2, <1>3, <1>4, <1>5, BudgetsStay, AutomaticMoves

(* A gate's thread and its gate. *)
LEMMA GateRowHolds ==
    ASSUME NEW r, NEW m \in Human, OfGate(r), r.batch = {m}, r.todo \subseteq {m}, r.row,
           r.pc \in {"run", "compare", "write", "record", "close"} \/ (r.pc = "recheck" /\ r.kind = "background"),
           GateIsOpen(m)', RetryAvailable(m)'
    PROVE  RowAgrees(r)'
BY DEF RowAgrees, HoldsGate, OfGate

LEMMA RequestIs ==
    ASSUME NEW t \in Request
    PROVE  t \in Thread /\ t # "worker" /\ t # "cycle"
BY StateAssumption DEF Thread

LEMMA RunHumanGateHolds ==
    ASSUME EngineInv, GatesHeld, ~Overlap, NEW t \in Request, NEW m \in Human, RunHumanGate(t, m)
    PROVE  GatesHeld'
<1>1. PICK r : r = GateThread("gate", m)
  OBVIOUS
<1>2. /\ t \in Thread /\ (\A u \in Thread : ~Busy(u)) /\ th' = [th EXCEPT ![t] = r]
      /\ UNCHANGED <<gate, failed>> /\ GateIsOpen(m) /\ RetryAvailable(m)
  BY <1>1, RequestIs DEF RunHumanGate, MayStart, rows, PendingGate, GateIsOpen, GateRuns
<1>3. OfGate(r) /\ r.batch = {m} /\ r.todo = {m} /\ r.pc = "run" /\ r.row
  BY <1>1, GateGives DEF OfGate, GateKind, Kind, Human
<1>4. th'[t] = r /\ Beside(t) /\ ~OfGate(th[t])
  BY <1>2, OneMoves, IdleIsAutomatic DEF GatesHeld, GateRows, Busy
<1>5. GateIsOpen(m)' /\ RetryAvailable(m)'
  BY <1>2, BudgetsStay DEF GateIsOpen
<1>6. RowAgrees(r)'
  BY <1>3, <1>5, GateRowHolds
<1> QED BY <1>2, <1>4, <1>6, RequestIs, BudgetsStay, GatesMoved DEF Keeps

LEMMA StartHumanGateHolds ==
    ASSUME EngineInv, GatesHeld, ~Overlap, NEW t \in Request, NEW m \in Human, StartHumanGate(t, m)
    PROVE  GatesHeld'
<1>1. PICK r : r = [GateThread("background", m) EXCEPT !.pc = "recheck", !.todo = {}]
  OBVIOUS
<1>2. /\ t \in Thread /\ t # "worker" /\ (\A u \in Thread : ~Busy(u)) /\ th' = [th EXCEPT ![t] = r]
      /\ UNCHANGED failed /\ gate' = [gate EXCEPT ![m] = "running"] /\ RetryAvailable(m)
      /\ gate \in [Human -> {"none", "pending", "running", "resolved"}]
  BY <1>1, RequestIs DEF StartHumanGate, StartGate, MayStart, rows, GateRuns, EngineInv, RowsTyped
<1>3. OfGate(r) /\ r.kind = "background" /\ r.batch = {m} /\ r.todo = {} /\ r.pc = "recheck" /\ r.row
  BY <1>1 DEF GateThread, Begun, Started, Idle, OfGate, GateKind
<1>4. th'[t] = r /\ Beside(t) /\ ~OfGate(th[t])
  BY <1>2, OneMoves, IdleIsAutomatic DEF GatesHeld, GateRows, Busy
<1>5. gate'[m] = "running" /\ \A n \in Human : n # m => gate'[n] = gate[n]
  BY <1>2
<1>6. RowAgrees(r)'
  BY <1>2, <1>3, <1>5, GateRowHolds, BudgetsStay DEF GateIsOpen
<1>7. GateRows'
  BY <1>2, <1>4, <1>6, RowsMove DEF GatesHeld
<1>8. ASSUME NEW n \in Human, n # m PROVE gate'[n] # "running"
  BY <1>2, <1>4, <1>5, <1>8, RunningIs DEF GatesHeld
<1>9. RunningHeld'
  <2> SUFFICES ASSUME NEW n \in Human, gate'[n] = "running"
               PROVE  \E u \in Thread : OfGate(th'[u]) /\ th'[u].kind = "background" /\ th'[u].batch = {n}
    BY DEF RunningHeld, OfGate
  <2>1. n = m
    BY <1>8
  <2> QED BY <1>2, <1>3, <1>4, <2>1
<1>10. SpentOpen'
  BY <1>2, <1>5, BudgetsStay DEF SpentOpen, GatesHeld, GateIsOpen
<1> QED BY <1>7, <1>9, <1>10 DEF GatesHeld

LEMMA RetryHolds ==
    ASSUME EngineInv, GatesHeld, ~Overlap, NEW t \in Request, NEW m \in Transition, RetryFailedAction(t, m)
    PROVE  GatesHeld'
<1>1. PICK r : /\ th' = [th EXCEPT ![t] = r] /\ r.kind = "retry" /\ r.todo \subseteq {m}
               /\ r.pc \in {"run", "compare"}
  BY RetryGives
<1>2. /\ t \in Thread /\ t # "worker" /\ (\A u \in Thread : ~Busy(u)) /\ UNCHANGED <<gate, failed>>
      /\ m \notin Human
  BY RequestIs, OnlyAutomatic DEF RetryFailedAction, MayStart, MayRetry, rows
<1>3. ~OfGate(r) /\ Automatic(r)
  BY <1>1, <1>2 DEF OfGate, Automatic, GateKind
<1>4. th'[t] = r /\ Beside(t) /\ ~OfGate(th[t])
  BY <1>1, <1>2, OneMoves, IdleIsAutomatic DEF GatesHeld, GateRows, Busy
<1> QED BY <1>2, <1>3, <1>4, BudgetsStay, AutomaticMoves

LEMMA GateResumesHolds ==
    ASSUME EngineInv, GatesHeld, NEW t \in Thread, RunStartedHumanGate(t)
    PROVE  GatesHeld'
<1>1. /\ th[t] \in Row /\ th[t].pc = "recheck" /\ Busy(t) /\ UNCHANGED <<gate, failed>> /\ RowAgrees(th[t])
  BY DEF EngineInv, RunStartedHumanGate, rows, Busy, GatesHeld, GateRows
<1>2. PICK m \in Human : HoldsGate(th[t], m)
  BY <1>1 DEF RowAgrees, Automatic
<1>3. OfGate(th[t])
  BY <1>1 DEF RowAgrees, Automatic
<1>4. The(th[t].batch) = m /\ th[t].kind = "background" /\ RetryAvailable(m) /\ GateIsOpen(m) /\ m \in Transition
  BY <1>1, <1>2 DEF The, HoldsGate, Human
<1>5. th' = [th EXCEPT ![t] = IF GateRuns(m) THEN GateThread("background", m) ELSE [th[t] EXCEPT !.pc = "raise"]]
  BY <1>4 DEF RunStartedHumanGate
<1>6. t # "worker"
  BY <1>4 DEF GatesHeld, GateRows
<1>7. PICK r : r = IF GateRuns(m) THEN GateThread("background", m) ELSE [th[t] EXCEPT !.pc = "raise"]
  OBVIOUS
<1>8. th'[t] = r /\ Beside(t)
  BY <1>1, <1>5, <1>7, OneMoves
<1>9. GateIsOpen(m)' /\ RetryAvailable(m)'
  BY <1>1, <1>4, BudgetsStay DEF GateIsOpen
<1>10. OfGate(r) /\ r.kind = "background" /\ r.batch = {m} /\ RowAgrees(r)'
  <2>1. CASE r = GateThread("background", m)
    <3>1. OfGate(r) /\ r.kind = "background" /\ r.batch = {m} /\ r.todo = {m} /\ r.pc = "run" /\ r.row
      BY <1>4, <2>1, GateGives DEF OfGate, GateKind, Kind
    <3> QED BY <1>9, <3>1, GateRowHolds
  <2>2. CASE r = [th[t] EXCEPT !.pc = "raise"]
    <3>1. /\ r.pc = "raise" /\ r.kind = th[t].kind /\ r.sole = th[t].sole /\ r.todo = th[t].todo
          /\ r.batch = th[t].batch /\ r.row = th[t].row
      BY <1>1, <2>2, MovedRow
    <3> QED BY <1>2, <1>3, <1>4, <1>9, <3>1 DEF RowAgrees, HoldsGate, OfGate
  <2> QED BY <1>7, <2>1, <2>2
<1> QED BY <1>1, <1>2, <1>3, <1>4, <1>6, <1>8, <1>10, BudgetsStay, GatesMoved DEF Keeps, HoldsGate

(* The steps of the loop that start nothing. *)
LEMMA LoopHolds ==
    ASSUME EngineInv, GatesHeld, NEW t \in Thread, LoopEnds(t) \/ LoopRaises(t) \/ LoopRefused(t)
    PROVE  GatesHeld'
<1>1. th[t] \in Row /\ th[t].pc = "loop" /\ Busy(t) /\ UNCHANGED <<gate, failed>> /\ th[t].todo = {}
  BY RowUpdates DEF EngineInv, LoopEnds, LoopRaises, LoopRefused, AtLoop, NothingChosen, rows, Busy
<1>2. ~OfGate(th[t]) /\ Automatic(th[t])
  BY <1>1, IdleIsAutomatic DEF GatesHeld, GateRows
<1>3. \E q \in {"terminal", "raise", "stopped"} :
        \/ th' = [th EXCEPT ![t] = [th[t] EXCEPT !.pc = q]]
        \/ th' = [th EXCEPT ![t] = [th[t] EXCEPT !.pc = q, !.at = state]]
  <2>1. CASE LoopEnds(t)
    <3>1. th' = [th EXCEPT ![t] = [th[t] EXCEPT !.pc = "terminal", !.at = state]]
      BY <1>1, <2>1 DEF LoopEnds
    <3> QED BY <3>1
  <2>2. CASE LoopRaises(t) \/ LoopRefused(t)
    <3>1. \/ th' = [th EXCEPT ![t] = [th[t] EXCEPT !.pc = "raise"]]
          \/ th' = [th EXCEPT ![t] = [th[t] EXCEPT !.pc = "stopped"]]
      BY <1>1, <2>2 DEF LoopRaises, LoopRefused, Goto
    <3> QED BY <3>1
  <2> QED BY <2>1, <2>2
<1>4. \E r : \E q \in {"terminal", "raise", "stopped"} :
        /\ th' = [th EXCEPT ![t] = r]
        /\ r.pc = q /\ r.kind = th[t].kind /\ r.sole = th[t].sole /\ r.bad = th[t].bad /\ r.todo = th[t].todo
  <2>1. PICK q \in {"terminal", "raise", "stopped"} :
          \/ th' = [th EXCEPT ![t] = [th[t] EXCEPT !.pc = q]]
          \/ th' = [th EXCEPT ![t] = [th[t] EXCEPT !.pc = q, !.at = state]]
    BY <1>3
  <2>2. PICK r, v : r = [th[t] EXCEPT !.pc = q] /\ v = [th[t] EXCEPT !.pc = q, !.at = state]
    OBVIOUS
  <2>3. /\ r.pc = q /\ r.kind = th[t].kind /\ r.sole = th[t].sole /\ r.bad = th[t].bad /\ r.todo = th[t].todo
        /\ v.pc = q /\ v.kind = th[t].kind /\ v.sole = th[t].sole /\ v.bad = th[t].bad /\ v.todo = th[t].todo
    BY <1>1, <2>2, MovedRow
  <2> QED BY <2>1, <2>2, <2>3
<1>5. PICK q, r :
        /\ q \in {"terminal", "raise", "stopped"} /\ th' = [th EXCEPT ![t] = r]
        /\ r.pc = q /\ r.kind = th[t].kind /\ r.sole = th[t].sole /\ r.bad = th[t].bad /\ r.todo = th[t].todo
  BY <1>4
<1>6. ~OfGate(r) /\ Automatic(r)
  BY <1>1, <1>2, <1>5 DEF OfGate, Automatic
<1>7. th'[t] = r /\ Beside(t)
  BY <1>1, <1>5, OneMoves
<1>8. t = "worker" => r.kind = "worker"
  BY <1>5 DEF GatesHeld, GateRows
<1> QED BY <1>1, <1>2, <1>6, <1>7, <1>8, BudgetsStay, AutomaticMoves

LEMMA LoopStartsHolds ==
    ASSUME EngineInv, GatesHeld, NEW t \in Thread, LoopStarts(t)
    PROVE  GatesHeld'
<1>1. th[t].pc = "loop" /\ Busy(t) /\ UNCHANGED <<gate, failed>>
  BY DEF LoopStarts, AtLoop, rows, Busy
<1>2. ~OfGate(th[t])
  BY <1>1, IdleIsAutomatic DEF GatesHeld, GateRows
<1>3. PICK r : Chosen(r) /\ r.kind = th[t].kind /\ th' = [th EXCEPT ![t] = r]
  BY LoopStartsGives
<1>4. r.todo \cap Human = {}
  BY <1>3, OnlyAutomatic DEF Chosen, Conditioned
<1>5. ~OfGate(r) /\ Automatic(r)
  BY <1>3, <1>4 DEF Chosen, OfGate, Automatic
<1>6. th'[t] = r /\ Beside(t)
  BY <1>1, <1>3, OneMoves
<1>7. t = "worker" => r.kind = "worker"
  BY <1>3 DEF GatesHeld, GateRows
<1> QED BY <1>1, <1>2, <1>5, <1>6, <1>7, BudgetsStay, AutomaticMoves

(* An action's return: a gate's action that fails leaves its gate open. *)
LEMMA ReturnsHold ==
    ASSUME EngineInv, GatesHeld, NEW t \in Thread, NEW m \in Transition, ActionReturns(t, m)
    PROVE  GatesHeld'
<1>1. /\ th[t] \in Row /\ th[t].pc = "run" /\ Busy(t) /\ m \in th[t].todo /\ UNCHANGED gate /\ RowAgrees(th[t])
      /\ th[t].marked = {} /\ failed \in [Transition -> Nat]
  BY DEF EngineInv, ActionReturns, ActionSucceeds, ActionFails, Busy, GatesHeld, GateRows, Row, CountsTyped
<1>2. PICK ok, r : /\ ok \in BOOLEAN /\ th' = [th EXCEPT ![t] = r] /\ Returned(th[t], m, ok, r)
                   /\ IF ok THEN UNCHANGED failed ELSE failed' = [failed EXCEPT ![m] = @ + 1]
  <2>1. CASE ActionFails(t, m)
    <3>1. PICK r : r = AfterRow(th[t], m, FALSE)
      OBVIOUS
    <3>2. th' = [th EXCEPT ![t] = r] /\ failed' = [failed EXCEPT ![m] = @ + 1]
      BY <1>1, <2>1, <3>1 DEF ActionFails
    <3>3. Returned(th[t], m, FALSE, r)
      BY <1>1, <3>1, AfterRowGives
    <3> QED BY <3>2, <3>3
  <2>2. CASE \E yes \in SUBSET Def[m].out : ActionSucceeds(t, m, yes)
    <3>1. PICK yes \in SUBSET Def[m].out : ActionSucceeds(t, m, yes)
      BY <2>2
    <3>2. yes \in SUBSET Fact
      BY DefAssumption
    <3>3. PICK y \in SUBSET Fact : th' = [th EXCEPT ![t] = [AfterRow(th[t], m, TRUE) EXCEPT !.yes = y]]
      BY <3>1, <3>2 DEF ActionSucceeds
    <3>4. PICK r : r = [AfterRow(th[t], m, TRUE) EXCEPT !.yes = y]
      OBVIOUS
    <3>5. Returned(th[t], m, TRUE, r)
      BY <1>1, <3>4, AfterRowGives
    <3>6. UNCHANGED failed
      <4>1. failed' = [failed EXCEPT ![m] = IF m \in th[t].marked THEN failed[m] - 1 ELSE failed[m]]
        BY <3>1 DEF ActionSucceeds
      <4> QED BY <1>1, <4>1
    <3> QED BY <3>3, <3>4, <3>5, <3>6
  <2> QED BY <2>1, <2>2 DEF ActionReturns
<1>3. th'[t] = r /\ Beside(t)
  BY <1>1, <1>2, OneMoves
<1>4. r.kind = th[t].kind /\ r.batch = th[t].batch /\ r.sole = th[t].sole
  BY <1>2 DEF Returned
<1>5. t = "worker" => r.kind = "worker"
  BY <1>4 DEF GatesHeld, GateRows
<1>6. ASSUME NEW n \in Transition, n # m PROVE RetryAvailable(n)' = RetryAvailable(n)
  BY <1>1, <1>2, <1>6 DEF RetryAvailable
<1>7. CASE OfGate(th[t])
  <2>1. PICK n \in Human : HoldsGate(th[t], n)
    BY <1>1, <1>7 DEF RowAgrees
  <2>2. n = m /\ r.todo = {} /\ GateIsOpen(m) /\ RetryAvailable(m) /\ r.batch = {m} /\ r.row
    BY <1>1, <1>2, <2>1 DEF HoldsGate, Returned
  <2>3. \/ ok /\ r.pc = "compare"
        \/ r.pc = "raise"
    BY <1>2, <1>7, <2>2 DEF Returned, OfGate
  <2>4. OfGate(r) /\ GateIsOpen(m)'
    BY <1>1, <1>4, <1>7, <2>2 DEF OfGate, GateIsOpen
  <2>5. r.pc = "compare" => RetryAvailable(m)'
    BY <1>2, <2>2, <2>3, BudgetsStay
  <2>6. RowAgrees(r)'
    BY <2>1, <2>2, <2>3, <2>4, <2>5 DEF RowAgrees, HoldsGate, OfGate
  <2> QED BY <1>1, <1>3, <1>4, <1>5, <1>6, <2>2, <2>4, <2>6, GatesMoved DEF Keeps, Human
<1>8. CASE ~OfGate(th[t])
  <2>1. Automatic(th[t]) /\ m \notin Human
    BY <1>1, <1>8 DEF RowAgrees, Automatic
  <2>2. ~OfGate(r) /\ Automatic(r)
    BY <1>2, <1>4, <1>8, <2>1 DEF OfGate, Automatic, Returned
  <2> QED BY <1>1, <1>3, <1>5, <1>6, <1>8, <2>1, <2>2, AutomaticMoves DEF Human
<1> QED BY <1>7, <1>8

(* A gate's thread goes on with its gate. *)
LEMMA GateGoesOn ==
    ASSUME EngineInv, GatesHeld, NEW t \in Thread, Busy(t), OfGate(th[t]), UNCHANGED <<gate, failed>>,
           NEW q \in {"write", "record", "close", "raise"},
           th[t].pc \in {"compare", "write", "record"}, th' = [th EXCEPT ![t] = [th[t] EXCEPT !.pc = q]]
    PROVE  GatesHeld'
<1>1. th[t] \in Row /\ RowAgrees(th[t])
  BY DEF EngineInv, GatesHeld, GateRows
<1>2. PICK m \in Human : HoldsGate(th[t], m)
  BY <1>1 DEF RowAgrees
<1>3. PICK r : r = [th[t] EXCEPT !.pc = q]
  OBVIOUS
<1>4. /\ r.pc = q /\ r.kind = th[t].kind /\ r.sole = th[t].sole /\ r.todo = th[t].todo
      /\ r.batch = th[t].batch /\ r.row = th[t].row
  BY <1>1, <1>3, MovedRow
<1>5. th'[t] = r /\ Beside(t)
  BY <1>3, OneMoves
<1>6. GateIsOpen(m)' /\ RetryAvailable(m)'
  BY <1>2, BudgetsStay DEF GateIsOpen, HoldsGate
<1>7. OfGate(r) /\ RowAgrees(r)'
  BY <1>2, <1>4, <1>6 DEF RowAgrees, HoldsGate, OfGate
<1> QED BY <1>4, <1>5, <1>7, BudgetsStay, GatesMoved DEF Keeps, GatesHeld, GateRows

(* Any other thread that does not run an action goes on. *)
LEMMA OtherGoesOn ==
    ASSUME EngineInv, GatesHeld, NEW t \in Thread, Busy(t), ~OfGate(th[t]), UNCHANGED <<gate, failed>>, NEW r,
           th' = [th EXCEPT ![t] = r], ~OfGate(r), Automatic(r), t = "worker" => r.kind = "worker"
    PROVE  GatesHeld'
<1>1. th'[t] = r /\ Beside(t)
  BY OneMoves
<1> QED BY <1>1, BudgetsStay, AutomaticMoves

LEMMA MovedIsAutomatic ==
    ASSUME NEW h \in Row, ~OfGate(h), Automatic(h), h.pc # "run", NEW q, q \notin {"recheck", "close"}
    PROVE  LET r == [h EXCEPT !.pc = q] IN ~OfGate(r) /\ Automatic(r) /\ r.kind = h.kind
<1>1. PICK r : r = [h EXCEPT !.pc = q]
  OBVIOUS
<1>2. r.pc = q /\ r.kind = h.kind /\ r.sole = h.sole /\ r.bad = h.bad /\ r.todo = h.todo
  BY <1>1, MovedRow
<1>3. ~OfGate(r) /\ Automatic(r) /\ r.kind = h.kind
  BY <1>2 DEF OfGate, Automatic
<1> QED BY <1>1, <1>3

LEMMA CompareHolds ==
    ASSUME EngineInv, GatesHeld, NEW t \in Thread, CompareState(t)
    PROVE  GatesHeld'
<1>1. PICK q \in {"write", "raise"} : th' = [th EXCEPT ![t] = [th[t] EXCEPT !.pc = q]]
  BY DEF CompareState, Goto
<1>2. /\ th[t] \in Row /\ th[t].pc = "compare" /\ Busy(t) /\ UNCHANGED <<gate, failed>> /\ RowAgrees(th[t])
      /\ (t = "worker" => th[t].kind = "worker")
  BY DEF EngineInv, CompareState, rows, Busy, GatesHeld, GateRows
<1>3. CASE OfGate(th[t])
  BY <1>1, <1>2, <1>3, GateGoesOn
<1>4. CASE ~OfGate(th[t])
  <2>1. PICK r : r = [th[t] EXCEPT !.pc = q]
    OBVIOUS
  <2>2. ~OfGate(r) /\ Automatic(r) /\ r.kind = th[t].kind
    BY <1>2, <1>4, <2>1, MovedIsAutomatic DEF RowAgrees
  <2> QED BY <1>1, <1>2, <1>4, <2>1, <2>2, OtherGoesOn
<1> QED BY <1>3, <1>4

LEMMA WriteHolds ==
    ASSUME EngineInv, GatesHeld, NEW t \in Thread, WriteState(t)
    PROVE  GatesHeld'
<1>1. /\ th[t] \in Row /\ th[t].pc = "write" /\ Busy(t) /\ UNCHANGED <<gate, failed>> /\ RowAgrees(th[t])
      /\ (t = "worker" => th[t].kind = "worker") /\ th[t].kind \in Kind
  BY DEF EngineInv, WriteState, rows, Busy, GatesHeld, GateRows, Row, RowType
<1>2. CASE OfGate(th[t])
  <2>1. ~IsParallel(th[t].batch)
    BY <1>1, <1>2, OneIsABatch DEF RowAgrees, HoldsGate
  <2>2. th' = [th EXCEPT ![t] = [th[t] EXCEPT !.pc = "record"]]
    BY <2>1 DEF WriteState, Goto
  <2> QED BY <1>1, <1>2, <2>2, GateGoesOn
<1>3. CASE ~OfGate(th[t])
  <2>1. PICK r, v : r = [th[t] EXCEPT !.pc = "record"] /\ v = [Idle EXCEPT !.pc = "loop", !.kind = th[t].kind]
    OBVIOUS
  <2>2. th' = [th EXCEPT ![t] = r] \/ th' = [th EXCEPT ![t] = v]
    BY <2>1 DEF WriteState, Goto
  <2>3. ~OfGate(r) /\ Automatic(r) /\ r.kind = th[t].kind
    BY <1>1, <1>3, <2>1, MovedIsAutomatic DEF RowAgrees
  <2>4. ~OfGate(v) /\ Automatic(v)
    BY <1>1, <2>1, RestingRows
  <2>5. v.kind = th[t].kind
    BY <2>1 DEF Idle
  <2> QED BY <1>1, <1>3, <2>2, <2>3, <2>4, <2>5, OtherGoesOn
<1> QED BY <1>2, <1>3

LEMMA RecordHolds ==
    ASSUME EngineInv, GatesHeld, NEW t \in Thread, RecordArtifacts(t)
    PROVE  GatesHeld'
<1>1. /\ th[t] \in Row /\ th[t].pc = "record" /\ Busy(t) /\ UNCHANGED <<gate, failed>> /\ RowAgrees(th[t])
      /\ (t = "worker" => th[t].kind = "worker") /\ th[t].kind \in Kind
  BY DEF EngineInv, RecordArtifacts, rows, Busy, GatesHeld, GateRows, Row, RowType
<1>2. CASE OfGate(th[t])
  <2>1. th' = [th EXCEPT ![t] = [th[t] EXCEPT !.pc = "close"]]
    BY <1>2 DEF RecordArtifacts, OfGate, GateKind
  <2> QED BY <1>1, <1>2, <2>1, GateGoesOn
<1>3. CASE ~OfGate(th[t])
  <2>1. PICK r, v : r = [th[t] EXCEPT !.pc = "raise"] /\ v = [Idle EXCEPT !.pc = "loop", !.kind = th[t].kind]
    OBVIOUS
  <2>2. th' = [th EXCEPT ![t] = r] \/ th' = [th EXCEPT ![t] = v]
    BY <1>3, <2>1 DEF RecordArtifacts, OfGate, GateKind
  <2>3. ~OfGate(r) /\ Automatic(r) /\ r.kind = th[t].kind
    BY <1>1, <1>3, <2>1, MovedIsAutomatic DEF RowAgrees
  <2>4. ~OfGate(v) /\ Automatic(v)
    BY <1>1, <2>1, RestingRows
  <2>5. v.kind = th[t].kind
    BY <2>1 DEF Idle
  <2> QED BY <1>1, <1>3, <2>2, <2>3, <2>4, <2>5, OtherGoesOn
<1> QED BY <1>2, <1>3

(* The gate is resolved: its retries were not spent. *)
LEMMA CloseHolds ==
    ASSUME EngineInv, GatesHeld, NEW t \in Thread, CloseGate(t)
    PROVE  GatesHeld'
<1>1. /\ th[t] \in Row /\ th[t].pc = "close" /\ Busy(t) /\ UNCHANGED failed /\ RowAgrees(th[t])
      /\ gate \in [Human -> {"none", "pending", "running", "resolved"}] /\ th[t].kind \in Kind
      /\ (t = "worker" => th[t].kind = "worker")
  BY DEF EngineInv, RowsTyped, CloseGate, rows, Busy, GatesHeld, GateRows, Row, RowType
<1>2. PICK m \in Human : HoldsGate(th[t], m)
  BY <1>1 DEF RowAgrees, Automatic
<1>3. The(th[t].batch) = m /\ th[t].batch = {m} /\ RetryAvailable(m) /\ th[t].row
  BY <1>1, <1>2 DEF The, HoldsGate
<1>4. gate' = [gate EXCEPT ![m] = "resolved"]
  BY <1>3 DEF CloseGate
<1>5. PICK r : r = [Idle EXCEPT !.pc = "loop", !.kind = th[t].kind]
  OBVIOUS
<1>6. ~OfGate(r) /\ Automatic(r)
  BY <1>1, <1>5, RestingRows
<1>7. r.kind = th[t].kind
  BY <1>5 DEF Idle
<1>8. th'[t] = r /\ Beside(t)
  <2>1. th' = [th EXCEPT ![t] = r]
    BY <1>5 DEF CloseGate
  <2> QED BY <1>1, <2>1, OneMoves
<1>9. GateRows'
  BY <1>1, <1>6, <1>7, <1>8, AutomaticRow, RowsMove DEF GatesHeld
<1>10. ASSUME NEW n \in Human PROVE gate'[n] # "running"
  <2>1. gate'[m] = "resolved" /\ (n # m => gate'[n] = gate[n])
    BY <1>1, <1>4
  <2>2. gate[n] = "running" => n = m
    BY <1>3, <1>8, RunningIs DEF GatesHeld
  <2> QED BY <2>1, <2>2
<1>11. RunningHeld'
  BY <1>10 DEF RunningHeld
<1>12. SpentOpen'
  BY <1>1, <1>3, <1>4, BudgetsStay DEF SpentOpen, GatesHeld, GateIsOpen
<1> QED BY <1>9, <1>11, <1>12 DEF GatesHeld

LEMMA FinishHolds ==
    ASSUME EngineInv, GatesHeld, NEW t \in Thread,
           FinishTerminal(t) \/ FinishReview(t) \/ FinishStopped(t) \/ RaiseInLoop(t) \/ GiveUp(t)
    PROVE  GatesHeld'
<1>1. /\ th[t] \in Row /\ Busy(t) /\ UNCHANGED <<gate, failed>> /\ RowAgrees(th[t])
      /\ (t = "worker" => th[t].kind = "worker") /\ th[t].kind \in Kind
      /\ \/ th[t].pc \in {"terminal", "human_gate", "stopped", "giveup"}
         \/ th[t].pc = "raise" /\ th[t].kind \notin GateKind
  BY DEF EngineInv, FinishTerminal, FinishReview, FinishStopped, RaiseInLoop, GiveUp, rows, Busy, GatesHeld,
         GateRows, Row, RowType, GateKind
<1>2. ~OfGate(th[t]) /\ Automatic(th[t]) /\ th[t].pc # "run"
  BY <1>1, IdleIsAutomatic DEF OfGate, RowAgrees
<1>3. PICK r, v : r = [th[t] EXCEPT !.pc = "raise"] /\ v = [Idle EXCEPT !.pc = "giveup", !.kind = th[t].kind]
  OBVIOUS
<1>4. th' = [th EXCEPT ![t] = r] \/ th' = [th EXCEPT ![t] = v] \/ th' = [th EXCEPT ![t] = Idle]
  BY <1>1, <1>3 DEF FinishTerminal, FinishReview, FinishStopped, RaiseInLoop, GiveUp
<1>5. ~OfGate(r) /\ Automatic(r) /\ r.kind = th[t].kind
  BY <1>1, <1>2, <1>3, MovedIsAutomatic
<1>6. ~OfGate(v) /\ Automatic(v) /\ ~OfGate(Idle) /\ Automatic(Idle)
  BY <1>1, <1>3, RestingRows
<1>7. v.kind = th[t].kind /\ Idle.kind = "worker"
  BY <1>3 DEF Idle
<1> QED BY <1>1, <1>2, <1>4, <1>5, <1>6, <1>7, OtherGoesOn

(* A gate run in the background is open again when its action fails. *)
LEMMA RaiseInGateHolds ==
    ASSUME EngineInv, GatesHeld, NEW t \in Thread, RaiseInGate(t)
    PROVE  GatesHeld'
<1>1. /\ Busy(t) /\ UNCHANGED failed /\ RowAgrees(th[t]) /\ th' = [th EXCEPT ![t] = Idle] /\ th[t].pc = "raise"
      /\ gate' = [m \in Human |-> IF /\ th[t].kind = "background" /\ th[t].row
                                     /\ m \in th[t].batch /\ gate[m] = "running"
                                  THEN "pending" ELSE gate[m]]
  BY DEF RaiseInGate, rows, Busy, GatesHeld, GateRows
<1>2. th'[t] = Idle /\ Beside(t)
  BY <1>1, OneMoves
<1>3. ~OfGate(Idle) /\ Automatic(Idle) /\ Idle.kind = "worker"
  BY RestingRows DEF Idle, Kind
<1>4. GateRows'
  BY <1>2, <1>3, AutomaticRow, RowsMove DEF GatesHeld
<1>5. ASSUME NEW n \in Human PROVE gate'[n] # "running"
  <2>1. SUFFICES ASSUME gate[n] = "running" PROVE gate'[n] # "running"
    BY <1>1
  <2>2. OfGate(th[t]) /\ th[t].kind = "background" /\ th[t].batch = {n}
    BY <1>2, <2>1, RunningIs DEF GatesHeld
  <2>3. th[t].row
    BY <1>1, <2>2 DEF RowAgrees, HoldsGate
  <2>4. n \in th[t].batch
    BY <2>2
  <2>5. gate'[n] = "pending"
    BY <1>1, <2>1, <2>2, <2>3, <2>4
  <2> QED BY <2>5
<1>6. RunningHeld'
  BY <1>5 DEF RunningHeld
<1>7. ASSUME NEW n \in Human, GateIsOpen(n) PROVE GateIsOpen(n)'
  BY <1>1, <1>7 DEF GateIsOpen
<1>8. SpentOpen'
  BY <1>1, <1>7, BudgetsStay DEF SpentOpen, GatesHeld
<1> QED BY <1>4, <1>6, <1>8 DEF GatesHeld

(* Gates are opened; none is running. *)
LEMMA OpensGive ==
    ASSUME EngineInv, GatesHeld, NEW t \in Thread, LoopOpensGates(t)
    PROVE  /\ th[t] \in Row /\ th[t].pc = "loop" /\ Busy(t) /\ UNCHANGED failed /\ ~OfGate(th[t])
           /\ th'[t] = [th[t] EXCEPT !.pc = IF Matching(state, "human") = {} THEN "stopped" ELSE "human_gate"]
           /\ Beside(t)
           /\ \A m \in Human : /\ gate'[m] # "running"
                               /\ GateIsOpen(m) \/ m \in Matching(state, "human") => gate'[m] = "pending"
<1> DEFINE opened == Matching(state, "human")
           new == {m \in opened : ~GateIsOpen(m)}
<1>1. /\ th \in [Thread -> Row] /\ th[t] \in Row /\ th[t].pc = "loop" /\ Busy(t) /\ UNCHANGED failed
      /\ gate' = [m \in Human |-> IF m \in new THEN "pending" ELSE gate[m]]
      /\ th' = [u \in Thread |->
                   IF u = t THEN [th[t] EXCEPT !.pc = IF opened = {} THEN "stopped" ELSE "human_gate"]
                   ELSE [th[u] EXCEPT !.row = th[u].row /\ th[u].batch \cap new = {}]]
  BY DEF EngineInv, LoopOpensGates, AtLoop, NothingChosen, rows, Busy
<1>2. ~OfGate(th[t])
  BY <1>1, IdleIsAutomatic DEF GatesHeld, GateRows
<1>3. \A u \in Thread : u # t => th[u].pc = "idle"
  BY <1>1, OneAtWork
<1>4. ASSUME NEW u \in Thread, u # t PROVE ~OfGate(th[u]) /\ Same(th[u], th'[u])
  <2>1. th'[u] = [th[u] EXCEPT !.row = th[u].row /\ th[u].batch \cap new = {}] /\ th[u] \in RowType
    BY <1>1, <1>4 DEF Row
  <2>2. ASSUME NEW b PROVE Same(th[u], [th[u] EXCEPT !.row = b])
    BY <2>1 DEF RowType, Same
  <2>3. Same(th[u], th'[u])
    BY <2>1, <2>2
  <2> QED BY <1>3, <1>4, <2>3, IdleIsAutomatic DEF GatesHeld, GateRows
<1>5. Beside(t)
  BY <1>3, <1>4 DEF Beside
<1>6. ASSUME NEW m \in Human PROVE gate[m] # "running"
  BY <1>2, <1>4 DEF GatesHeld, RunningHeld
<1>7. \A m \in Human : /\ gate'[m] # "running"
                       /\ GateIsOpen(m) \/ m \in opened => gate'[m] = "pending"
  BY <1>1, <1>6 DEF GateIsOpen
<1> QED BY <1>1, <1>2, <1>5, <1>7

LEMMA OpensHold ==
    ASSUME EngineInv, GatesHeld, NEW t \in Thread, LoopOpensGates(t)
    PROVE  GatesHeld'
<1>1. PICK q \in {"stopped", "human_gate"} : th'[t] = [th[t] EXCEPT !.pc = q]
  BY OpensGive
<1>2. PICK r : r = [th[t] EXCEPT !.pc = q]
  OBVIOUS
<1>3. Automatic(th[t])
  BY OpensGive DEF GatesHeld, GateRows, RowAgrees
<1>4. ~OfGate(r) /\ Automatic(r) /\ r.kind = th[t].kind
  BY <1>2, <1>3, OpensGive, MovedIsAutomatic
<1>5. t = "worker" => r.kind = "worker"
  BY <1>4 DEF GatesHeld, GateRows
<1>6. GateRows'
  BY <1>1, <1>2, <1>4, <1>5, OpensGive, AutomaticRow, RowsMove DEF GatesHeld
<1>7. RunningHeld'
  BY OpensGive DEF RunningHeld
<1>8. SpentOpen'
  BY OpensGive, BudgetsStay DEF SpentOpen, GatesHeld, GateIsOpen
<1> QED BY <1>6, <1>7, <1>8 DEF GatesHeld

(* The worker runs no gate: its death and its reconciliation leave them. *)
LEMMA WorkerDiesHolds ==
    ASSUME EngineInv, GatesHeld, WorkerDies
    PROVE  GatesHeld'
<1>1. /\ "worker" \in Thread /\ th["worker"] \in Row /\ Busy("worker") /\ UNCHANGED <<gate, failed>>
      /\ th["worker"].kind = "worker" /\ RowAgrees(th["worker"])
      /\ th' = [th EXCEPT !["worker"] = [th["worker"] EXCEPT !.pc = "dead"]]
  BY DEF EngineInv, WorkerDies, Thread, rows, Busy, GatesHeld, GateRows, Goto
<1>2. ~OfGate(th["worker"]) /\ Automatic(th["worker"])
  BY <1>1 DEF OfGate, GateKind, RowAgrees
<1>3. PICK r : r = [th["worker"] EXCEPT !.pc = "dead"]
  OBVIOUS
<1>4. r.pc = "dead" /\ r.kind = "worker" /\ r.todo = th["worker"].todo
  BY <1>1, <1>3, MovedRow
<1>5. ~OfGate(r) /\ Automatic(r)
  BY <1>2, <1>4 DEF OfGate, GateKind, Automatic
<1> QED BY <1>1, <1>2, <1>3, <1>4, <1>5, OtherGoesOn

LEMMA ReconciledIs ==
    ASSUME EngineInv, GatesHeld, FailAndRetry
    PROVE  /\ "worker" \in Thread /\ Busy("worker") /\ ~OfGate(th["worker"])
           /\ th'["worker"] = Idle /\ Beside("worker")
           /\ \A u \in Thread : ~OfGate(th[u]) /\ Automatic(th[u])
<1>1. /\ "worker" \in Thread /\ th["worker"].pc = "dead" /\ Busy("worker")
      /\ th' = [t \in Thread |-> IF t = "worker" THEN Idle ELSE [th[t] EXCEPT !.marked = th[t].todo]]
  BY DEF FailAndRetry, Thread, Busy
<1>2. \A u \in Thread : u # "worker" => th[u].pc = "idle"
  BY <1>1, OneAtWork
<1>3. \A u \in Thread : ~OfGate(th[u]) /\ Automatic(th[u])
  BY <1>1, <1>2, IdleIsAutomatic DEF GatesHeld, GateRows
<1>4. ASSUME NEW u \in Thread, u # "worker" PROVE Same(th[u], th'[u])
  <2>1. th[u] \in RowType /\ th'[u] = [th[u] EXCEPT !.marked = th[u].todo]
    BY <1>1, <1>4 DEF EngineInv, Row
  <2> QED BY <2>1 DEF RowType, Same
<1> QED BY <1>1, <1>2, <1>3, <1>4 DEF Beside

LEMMA FailAndRetryHolds ==
    ASSUME EngineInv, GatesHeld, FailAndRetry, serverDeaths = 0
    PROVE  GatesHeld'
<1>1. UNCHANGED gate
  BY DEF FailAndRetry
<1>2. ASSUME NEW m \in Human PROVE failed'[m] = failed[m]
  <2>1. /\ m \in Transition /\ failed[m] \in Nat /\ orphan[m] \in Nat /\ orphan[m] =< 0
    BY DEF EngineInv, CountsTyped, Counted, Human
  <2>2. {t \in Thread : m \in th[t].todo \ th[t].marked} = {}
    BY ReconciledIs DEF Automatic
  <2>3. failed'[m] = failed[m] + orphan[m] + Cardinality({t \in Thread : m \in th[t].todo \ th[t].marked})
    BY <2>1 DEF FailAndRetry
  <2> QED BY <2>1, <2>2, <2>3, FS_EmptySet
<1>3. \A m \in Human : RetryAvailable(m) => RetryAvailable(m)'
  BY <1>2 DEF RetryAvailable
<1>4. ~OfGate(Idle) /\ Automatic(Idle) /\ Idle.kind = "worker"
  BY RestingRows DEF Idle, Kind
<1> QED BY <1>1, <1>3, <1>4, ReconciledIs, AutomaticMoves

LEMMA InitGatesHeld == Init => GatesHeld
<1> SUFFICES ASSUME Init PROVE GatesHeld
  OBVIOUS
<1>1. \A t \in Thread : th[t] = Idle
  BY DEF Init
<1>2. ~OfGate(Idle) /\ Automatic(Idle) /\ Idle.kind = "worker"
  BY RestingRows DEF Idle, Kind
<1>3. GateRows
  BY <1>1, <1>2 DEF GateRows, RowAgrees, Thread
<1>4. RunningHeld
  BY DEF Init, Created, RunningHeld
<1>5. SpentOpen
  <2> SUFFICES ASSUME NEW m \in Human PROVE RetryAvailable(m)
    BY DEF SpentOpen
  <2>1. m \in Transition /\ Def[m].limit \in Nat
    BY Limits DEF Human
  <2> QED BY <2>1 DEF Init, Created, RetryAvailable
<1> QED BY <1>3, <1>4, <1>5 DEF GatesHeld

LEMMA ServerStays == ASSUME EngineInv, [Next]_vars, serverDeaths' = 0 PROVE serverDeaths = 0 /\ ~ServerDies
<1>1. serverDeaths \in Nat
  BY Bounds DEF EngineInv, CountsTyped
<1>2. ~ServerDies
  BY <1>1 DEF ServerDies
<1>3. ASSUME NEW t \in Request, Decide(t) PROVE UNCHANGED serverDeaths
  BY <1>3 DEF Decide, RunHumanGate, StartHumanGate, RetryFailedAction, counters
<1>4. ASSUME NEW t \in Thread, NEW m \in Transition, ActionReturns(t, m) PROVE UNCHANGED serverDeaths
  BY <1>4 DEF ActionReturns, ActionSucceeds, ActionFails, counters
<1>5. ASSUME NEW t \in Thread, RunStartedHumanGate(t) \/ LoopStarts(t) \/ CompareState(t) \/ Rests(t)
      PROVE  UNCHANGED serverDeaths
  BY <1>5 DEF Rests, RunStartedHumanGate, LoopEnds, LoopRaises, LoopOpensGates, LoopRefused, LoopStarts,
         NothingChosen, CompareState, WriteState, RecordArtifacts, CloseGate, FinishTerminal, FinishReview,
         FinishStopped, RaiseInLoop, RaiseInGate, GiveUp, counters
<1>6. RunAttempt \/ AdvanceReady \/ WorkerDies \/ FailAndRetry \/ UNCHANGED vars => UNCHANGED serverDeaths
  BY DEF RunAttempt, AdvanceReady, WorkerDies, FailAndRetry, counters, vars
<1>7. UNCHANGED serverDeaths
  BY <1>2, <1>3, <1>4, <1>5, <1>6 DEF Next, Step, Rests
<1> QED BY <1>2, <1>7

LEMMA NextGatesHeld ==
    ASSUME EngineInv, GatesHeld, ~Overlap, [Next]_vars, serverDeaths' = 0
    PROVE  GatesHeld'
<1>1. serverDeaths = 0 /\ ~ServerDies
  BY ServerStays
<1>2. ASSUME NEW t \in Request, Decide(t) PROVE GatesHeld'
  BY <1>2, RunHumanGateHolds, StartHumanGateHolds, RetryHolds DEF Decide
<1>3. ASSUME NEW t \in Thread, Step(t) PROVE GatesHeld'
  BY <1>3, GateResumesHolds, LoopHolds, OpensHold, LoopStartsHolds, ReturnsHold, CompareHolds, WriteHolds,
     RecordHolds, CloseHolds, FinishHolds, RaiseInGateHolds DEF Step
<1>4. CASE UNCHANGED vars
  <2>1. UNCHANGED <<gate, failed, th>>
    BY <1>4 DEF vars
  <2> QED BY <2>1 DEF GatesHeld, GateRows, RowAgrees, OfGate, HoldsGate, Automatic, RunningHeld, SpentOpen,
         GateIsOpen, RetryAvailable
<1> QED BY <1>1, <1>2, <1>3, <1>4, LoopsStartHold, WorkerDiesHolds, FailAndRetryHolds DEF Next

PlaceInv == InPlace /\ Reviewed

(* Who waits goes on waiting while the state, the artifacts and the budgets of automatic     *)
(* transitions stay and open gates stay open.                                               *)
AutomaticsStay ==
    \A m \in Transition : Def[m].trigger = "automatic" => RetryAvailable(m)' = RetryAvailable(m)
GatesStayOpen == \A m \in Human : GateIsOpen(m) => GateIsOpen(m)'

LEMMA WaitsStay ==
    ASSUME UNCHANGED <<state, fact>>, AutomaticsStay, GatesStayOpen, Waits
    PROVE  Waits'
<1>1. Conditioned(state, "automatic")' = Conditioned(state, "automatic")
  BY DEF Conditioned, ConditionMatches, Satisfied, Truthy
<1>2. Matching(state, "automatic")' = Matching(state, "automatic")
  BY <1>1 DEF AutomaticsStay, Matching, Conditioned
<1>3. Exhausted(state, "automatic")' = Exhausted(state, "automatic")
  BY <1>1, <1>2 DEF Exhausted
<1>4. ChoiceFails' <=> ChoiceFails
  BY <1>2, <1>3 DEF ChoiceFails
<1>5. \A m \in Human : Def[m].from = state /\ GateIsOpen(m) => Def[m].from = state' /\ GateIsOpen(m)'
  BY DEF GatesStayOpen
<1> QED BY <1>1, <1>4, <1>5 DEF Waits

LEMMA NothingStays == UNCHANGED <<gate, failed>> => AutomaticsStay /\ GatesStayOpen
BY BudgetsStay DEF AutomaticsStay, GatesStayOpen, GateIsOpen

(* Then the loop starts no batch. *)
LEMMA WaitsStartNothing ==
    Waits => ~(Exhausted(state, "automatic") = {} /\ Matching(state, "automatic") # {}
               /\ IsBatch(Matching(state, "automatic")))
BY DEF Waits, ChoiceFails, Matching

LEMMA PlacesMove ==
    ASSUME NEW t \in Thread, \A u \in Thread : u # t => th'[u].pc = "idle", Place(th[t])'
    PROVE  InPlace'
BY DEF InPlace, Place

LEMMA BesideIdle ==
    ASSUME NEW t \in Thread, Beside(t)
    PROVE  \A u \in Thread : u # t => th[u].pc = "idle" /\ th'[u].pc = "idle"
BY DEF Beside, Same

(* Under review a thread that does not advance leaves it waiting. *)
LEMMA WaitsBefore ==
    ASSUME PlaceInv, NEW t \in Thread, Beside(t), ~Advancing(th[t]), attempt = "review", Active
    PROVE  Waits
<1>1. \A u \in Thread : u # t => ~Advancing(th[u])
  BY BesideIdle DEF Advancing
<1> QED BY <1>1 DEF PlaceInv, Reviewed

(* A step that leaves state and attempt: it advances, or it waits as before. *)
LEMMA PlaceStays ==
    ASSUME PlaceInv, NEW t \in Thread, Beside(t), NEW r, th'[t] = r, UNCHANGED <<state, attempt, fact>>,
           AutomaticsStay, GatesStayOpen,
           Advancing(th[t]) /\ Active => Advancing(r) \/ Waits',
           r.pc \notin {"human_gate", "terminal"},
           attempt = "review" /\ r.pc # "idle" => Reviews(r)
    PROVE  PlaceInv'
<1>1. Place(r)'
  BY DEF Place, Reviews
<1>2. InPlace'
  BY <1>1, BesideIdle, PlacesMove
<1>3. Reviewed'
  <2> SUFFICES ASSUME attempt = "review", Active, ~Advancing(r) PROVE Waits'
    BY DEF Reviewed, Active, Advancing
  <2>1. CASE Advancing(th[t])
    BY <2>1
  <2>2. CASE ~Advancing(th[t])
    BY <2>2, WaitsBefore, WaitsStay
  <2> QED BY <2>1, <2>2
<1> QED BY <1>2, <1>3 DEF PlaceInv

(* The attempt is not, or no longer, under review, and nobody reaches a gate or the end. *)
LEMMA NotReviewed ==
    ASSUME NEW t \in Thread, Beside(t), NEW r, th'[t] = r, attempt' # "review",
           r.pc \notin {"human_gate", "terminal"}
    PROVE  PlaceInv'
<1>1. Place(r)'
  BY DEF Place
<1>2. InPlace'
  BY <1>1, BesideIdle, PlacesMove
<1> QED BY <1>2 DEF PlaceInv, Reviewed

LEMMA LoopsStartPlace ==
    ASSUME EngineInv, PlaceInv, ~Overlap, RunAttempt \/ AdvanceReady
    PROVE  PlaceInv'
<1>1. CASE RunAttempt
  <2>1. PICK r : r = [Idle EXCEPT !.pc = "loop"]
    OBVIOUS
  <2>2. "worker" \in Thread /\ (\A u \in Thread : ~Busy(u)) /\ th' = [th EXCEPT !["worker"] = r] /\ attempt' = "running"
    BY <1>1, <2>1 DEF RunAttempt, MayStart, Thread
  <2>3. r.pc = "loop"
    BY <2>1 DEF Idle
  <2> QED BY <2>2, <2>3, OneMoves, NotReviewed
<1>2. CASE AdvanceReady
  <2>1. PICK r : r = [Idle EXCEPT !.pc = "loop", !.kind = "cycle"]
    OBVIOUS
  <2>2. /\ "cycle" \in Thread /\ (\A u \in Thread : ~Busy(u)) /\ th' = [th EXCEPT !["cycle"] = r]
        /\ UNCHANGED <<state, attempt, fact, gate, failed>>
    BY <1>2, <2>1 DEF AdvanceReady, MayStart, Thread, rows
  <2>3. r.pc = "loop" /\ r.kind = "cycle"
    BY <2>1 DEF Idle
  <2>4. th'["cycle"] = r /\ Beside("cycle") /\ ~Advancing(th["cycle"])
    BY <2>2, OneMoves DEF Advancing, Busy
  <2> QED BY <2>2, <2>3, <2>4, NothingStays, PlaceStays DEF Reviews
<1> QED BY <1>1, <1>2

LEMMA DecidesPlace ==
    ASSUME EngineInv, PlaceInv, ~Overlap, NEW t \in Request, Decide(t)
    PROVE  PlaceInv'
<1>1. t \in Thread
  BY RequestIs
<1>2. ASSUME NEW m \in Human, RunHumanGate(t, m) \/ StartHumanGate(t, m) PROVE PlaceInv'
  <2>1. /\ (\A u \in Thread : ~Busy(u)) /\ UNCHANGED <<state, attempt, fact, failed>>
        /\ UNCHANGED gate \/ (PendingGate(m) /\ gate' = [gate EXCEPT ![m] = "running"])
        /\ gate \in [Human -> {"none", "pending", "running", "resolved"}]
    BY <1>2 DEF RunHumanGate, StartHumanGate, StartGate, MayStart, rows, EngineInv, RowsTyped
  <2>2. PICK r, v : /\ r = GateThread("gate", m)
                    /\ v = [GateThread("background", m) EXCEPT !.pc = "recheck", !.todo = {}]
    OBVIOUS
  <2>3. th' = [th EXCEPT ![t] = r] \/ th' = [th EXCEPT ![t] = v]
    BY <1>2, <2>2 DEF RunHumanGate, StartHumanGate
  <2>4. r.pc = "run" /\ r.kind = "gate" /\ v.pc = "recheck" /\ v.kind = "background"
    BY <2>2 DEF GateThread, Begun, Started, Idle
  <2>5. PICK w \in {r, v} : th' = [th EXCEPT ![t] = w]
    BY <2>3
  <2>6. th'[t] = w /\ Beside(t) /\ ~Advancing(th[t])
    BY <1>1, <2>1, <2>5, OneMoves DEF Advancing, Busy
  <2>7. AutomaticsStay /\ GatesStayOpen
    BY <2>1, BudgetsStay DEF AutomaticsStay, GatesStayOpen, GateIsOpen
  <2>8. w.pc \in {"run", "recheck"} /\ Reviews(w)
    BY <2>4, <2>5 DEF Reviews, GateKind
  <2> QED BY <1>1, <2>1, <2>6, <2>7, <2>8, PlaceStays
<1>3. ASSUME NEW m \in Transition, RetryFailedAction(t, m) PROVE PlaceInv'
  <2>1. PICK r : th' = [th EXCEPT ![t] = r] /\ r.pc \in {"run", "compare"}
    BY <1>3, RetryGives
  <2>2. attempt' = "running" /\ \A u \in Thread : ~Busy(u)
    BY <1>3 DEF RetryFailedAction, RetryPrepared, MayStart
  <2> QED BY <1>1, <2>1, <2>2, OneMoves, NotReviewed
<1> QED BY <1>2, <1>3 DEF Decide

LEMMA ResumesPlace ==
    ASSUME EngineInv, GatesHeld, PlaceInv, NEW t \in Thread, RunStartedHumanGate(t)
    PROVE  PlaceInv'
<1>1. PICK r : /\ th' = [th EXCEPT ![t] = r]
               /\ r.pc = "raise" \/ (r.pc = "run" /\ r.kind \in GateKind)
               /\ r.kind \in GateKind
  <2>1. th[t] \in Row /\ th[t].pc = "recheck" /\ th[t].kind \in GateKind
    BY DEF EngineInv, RunStartedHumanGate, GatesHeld, GateRows, RowAgrees, Automatic, OfGate
  <2>2. PICK r, v : r = GateThread("background", The(th[t].batch)) /\ v = [th[t] EXCEPT !.pc = "raise"]
    OBVIOUS
  <2>3. th' = [th EXCEPT ![t] = r] \/ th' = [th EXCEPT ![t] = v]
    BY <2>2 DEF RunStartedHumanGate
  <2>4. r.pc = "run" /\ r.kind = "background"
    BY <2>2 DEF GateThread, Begun, Started, Idle
  <2>5. v.pc = "raise" /\ v.kind = th[t].kind
    BY <2>1, <2>2, MovedRow
  <2> QED BY <2>1, <2>3, <2>4, <2>5 DEF GateKind
<1>2. Busy(t) /\ ~Advancing(th[t]) /\ UNCHANGED <<state, attempt, fact, gate, failed>>
  BY DEF RunStartedHumanGate, Busy, Advancing, rows
<1>3. th'[t] = r /\ Beside(t)
  BY <1>1, <1>2, OneMoves
<1> QED BY <1>1, <1>2, <1>3, NothingStays, PlaceStays DEF Reviews

LEMMA MayLoop ==
    ASSUME InPlace, NEW t \in Thread, th[t].pc # "idle", attempt = "review"
    PROVE  Reviews(th[t])
BY DEF InPlace, Place

LEMMA LoopEndsPlace ==
    ASSUME EngineInv, GatesHeld, PlaceInv, NEW t \in Thread, LoopEnds(t)
    PROVE  PlaceInv'
<1>1. /\ th[t] \in Row /\ th[t].pc = "loop" /\ Busy(t) /\ state \in Terminal /\ UNCHANGED <<state, attempt>>
      /\ th' = [th EXCEPT ![t] = [th[t] EXCEPT !.pc = "terminal", !.at = state]]
  BY DEF EngineInv, LoopEnds, AtLoop, NothingChosen, Busy
<1>2. PICK r : r = [th[t] EXCEPT !.pc = "terminal", !.at = state]
  OBVIOUS
<1>3. r.pc = "terminal" /\ r.kind = th[t].kind
  BY <1>1, <1>2, MovedRow
<1>4. th'[t] = r /\ Beside(t)
  BY <1>1, <1>2, OneMoves
<1>5. attempt = "review" => Reviews(r)
  BY <1>1, <1>3, MayLoop DEF PlaceInv, Reviews
<1>6. Place(r)'
  BY <1>1, <1>3, <1>5 DEF Place, Reviews
<1>7. InPlace'
  BY <1>4, <1>6, BesideIdle, PlacesMove
<1> QED BY <1>1, <1>7 DEF PlaceInv, Reviewed, Active

LEMMA LoopRaisesPlace ==
    ASSUME EngineInv, GatesHeld, PlaceInv, NEW t \in Thread, LoopRaises(t)
    PROVE  PlaceInv'
<1>1. /\ th[t] \in Row /\ th[t].pc = "loop" /\ Busy(t) /\ UNCHANGED <<state, attempt, fact, gate, failed>>
      /\ ChoiceFails /\ th' = [th EXCEPT ![t] = [th[t] EXCEPT !.pc = "raise"]]
  BY DEF EngineInv, LoopRaises, AtLoop, NothingChosen, Busy, rows, Goto
<1>2. PICK r : r = [th[t] EXCEPT !.pc = "raise"]
  OBVIOUS
<1>3. r.pc = "raise" /\ r.kind = th[t].kind
  BY <1>1, <1>2, MovedRow
<1>4. th'[t] = r /\ Beside(t)
  BY <1>1, <1>2, OneMoves
<1>5. attempt = "review" => Reviews(r)
  BY <1>1, <1>3, MayLoop DEF PlaceInv, Reviews
<1>6. Waits'
  BY <1>1, NothingStays, WaitsStay DEF Waits
<1> QED BY <1>1, <1>3, <1>4, <1>5, <1>6, NothingStays, PlaceStays

(* Only the cycle and a retry refuse anything, and the cycle has nothing to refuse under review. *)
LEMMA LoopRefusedPlace ==
    ASSUME EngineInv, GatesHeld, PlaceInv, NEW t \in Thread, LoopRefused(t)
    PROVE  PlaceInv'
<1>1. /\ th[t] \in Row /\ th[t].pc = "loop" /\ Busy(t) /\ UNCHANGED <<state, attempt, fact, gate, failed>>
      /\ Active /\ th' = [th EXCEPT ![t] = [th[t] EXCEPT !.pc = "stopped"]]
      /\ Exhausted(state, "automatic") = {} /\ Matching(state, "automatic") # {}
      /\ IsBatch(Matching(state, "automatic"))
  BY DEF EngineInv, LoopRefused, AtLoop, NothingChosen, Busy, rows, Goto, Active
<1>2. th[t].kind \notin GateKind
  BY DEF LoopRefused, Refused, GateKind
<1>3. PICK r : r = [th[t] EXCEPT !.pc = "stopped"]
  OBVIOUS
<1>4. r.pc = "stopped" /\ r.kind = th[t].kind
  BY <1>1, <1>3, MovedRow
<1>5. th'[t] = r /\ Beside(t)
  BY <1>1, <1>3, OneMoves
<1>6. attempt # "review"
  BY <1>1, <1>2, <1>5, WaitsBefore, WaitsStartNothing DEF Advancing
<1> QED BY <1>1, <1>4, <1>5, <1>6, NotReviewed

(* Gates are opened: a state without a dead end has one that is open. *)
LEMMA OpensPlace ==
    ASSUME NoDeadEnd, EngineInv, GatesHeld, PlaceInv, NEW t \in Thread, LoopOpensGates(t)
    PROVE  PlaceInv'
<1>1. /\ UNCHANGED <<state, attempt, fact, failed>> /\ Conditioned(state, "automatic") = {}
      /\ state \in State \ Terminal
  BY DEF LoopOpensGates, NothingChosen, rows, EngineInv, RowsTyped
<1>2. PICK q \in {"stopped", "human_gate"} : th'[t] = [th[t] EXCEPT !.pc = q]
  BY OpensGive
<1>3. PICK r : r = [th[t] EXCEPT !.pc = q]
  OBVIOUS
<1>4. r.pc = q /\ r.kind = th[t].kind
  BY <1>3, OpensGive, MovedRow
<1>5. PICK m \in Transition : Def[m].from = state /\ ConditionMatches(Def[m].when)
  BY <1>1 DEF NoDeadEnd, ConditionMatches, Truthy
<1>6. m \in Human /\ (GateIsOpen(m) \/ m \in Matching(state, "human"))
  <2>1. Def[m].trigger = "human"
    BY <1>1, <1>5, DefAssumption DEF Conditioned
  <2>2. m \in Human /\ m \in Conditioned(state, "human")
    BY <1>5, <2>1 DEF Human, Conditioned
  <2> QED BY <2>2 DEF GatesHeld, SpentOpen, Matching
<1>7. GateIsOpen(m)'
  BY <1>6, OpensGive DEF GateIsOpen
<1>8. Conditioned(state, "automatic")' = {}
  BY <1>1 DEF Conditioned, ConditionMatches, Satisfied, Truthy
<1>9. Waits'
  BY <1>1, <1>5, <1>6, <1>7, <1>8 DEF Waits
<1>10. attempt = "review" => Reviews(r)
  BY <1>4, OpensGive, MayLoop DEF PlaceInv, Reviews, Busy
<1>11. Place(r)'
  BY <1>1, <1>4, <1>9, <1>10 DEF Place, Reviews
<1>12. InPlace'
  BY <1>2, <1>3, <1>11, OpensGive, BesideIdle, PlacesMove
<1> QED BY <1>9, <1>12 DEF PlaceInv, Reviewed

(* A batch is started: under review by a request's thread, which advances. *)
LEMMA LoopStartsPlace ==
    ASSUME EngineInv, GatesHeld, PlaceInv, NEW t \in Thread, LoopStarts(t)
    PROVE  PlaceInv'
<1>1. /\ th[t].pc = "loop" /\ Busy(t) /\ UNCHANGED <<state, attempt>> /\ Active
      /\ Exhausted(state, "automatic") = {} /\ Matching(state, "automatic") # {}
      /\ IsBatch(Matching(state, "automatic"))
  BY DEF LoopStarts, AtLoop, Busy, Active
<1>2. PICK r : Chosen(r) /\ r.kind = th[t].kind /\ th' = [th EXCEPT ![t] = r]
  BY LoopStartsGives
<1>3. th'[t] = r /\ Beside(t) /\ r.pc \in {"run", "compare"} /\ ~r.sole
  BY <1>1, <1>2, OneMoves DEF Chosen
<1>4. CASE attempt = "review"
  <2>1. Advancing(th[t])
    BY <1>1, <1>3, <1>4, WaitsBefore, WaitsStartNothing
  <2>2. r.kind \in GateKind
    BY <1>2, <2>1 DEF Advancing
  <2>3. Place(r)'
    BY <1>3, <2>2 DEF Place, Reviews
  <2>4. InPlace'
    BY <1>3, <2>3, BesideIdle, PlacesMove
  <2>5. Advancing(r)
    BY <1>3, <2>2 DEF Advancing
  <2> QED BY <1>3, <2>4, <2>5 DEF PlaceInv, Reviewed, Advancing
<1>5. CASE attempt # "review"
  BY <1>1, <1>3, <1>5, NotReviewed
<1> QED BY <1>4, <1>5

LEMMA ReturnsPlace ==
    ASSUME EngineInv, GatesHeld, PlaceInv, NEW t \in Thread, NEW m \in Transition, ActionReturns(t, m)
    PROVE  PlaceInv'
<1>1. /\ th[t] \in Row /\ th[t].pc = "run" /\ Busy(t) /\ m \in th[t].todo /\ UNCHANGED <<state, attempt, gate>>
      /\ RowAgrees(th[t])
  BY DEF EngineInv, ActionReturns, ActionSucceeds, ActionFails, Busy, GatesHeld, GateRows
<1>2. PICK ok, r : /\ ok \in BOOLEAN /\ th' = [th EXCEPT ![t] = r] /\ Returned(th[t], m, ok, r)
  BY ReturnsGive
<1>3. th'[t] = r /\ Beside(t)
  BY <1>1, <1>2, OneMoves
<1>4. r.kind = th[t].kind /\ r.sole = th[t].sole /\ r.pc \notin {"human_gate", "terminal", "idle"}
  BY <1>2 DEF Returned
<1>5. CASE attempt # "review"
  BY <1>1, <1>3, <1>4, <1>5, NotReviewed
<1>6. CASE attempt = "review"
  <2>1. th[t].kind \in GateKind
    BY <1>1, <1>6, MayLoop DEF PlaceInv, Reviews
  <2>2. Reviews(r)
    BY <1>4, <2>1 DEF Reviews
  <2>3. CASE th[t].sole
    <3>1. PICK n \in Human : HoldsGate(th[t], n)
      BY <1>1, <2>1, <2>3 DEF RowAgrees, OfGate
    <3>2. n = m /\ th[t].batch = {m} /\ m \in Human
      BY <1>1, <3>1 DEF HoldsGate
    <3>3. UNCHANGED fact
      <4>1. ~IsParallel(th[t].batch)
        BY <3>2, OneIsABatch
      <4> QED BY <4>1 DEF ActionReturns, ActionSucceeds, ActionFails
    <3>4. AutomaticsStay
      <4> SUFFICES ASSUME NEW k \in Transition, Def[k].trigger = "automatic" PROVE failed'[k] = failed[k]
        BY DEF AutomaticsStay, RetryAvailable
      <4>1. k # m
        BY <3>2 DEF Human
      <4> QED BY <4>1 DEF ActionReturns, ActionSucceeds, ActionFails, EngineInv, CountsTyped
    <3>5. GatesStayOpen
      BY <1>1 DEF GatesStayOpen, GateIsOpen
    <3>6. ~Advancing(th[t])
      BY <1>1, <2>3 DEF Advancing
    <3> QED BY <1>1, <1>3, <1>4, <2>2, <3>3, <3>4, <3>5, <3>6, PlaceStays
  <2>4. CASE ~th[t].sole
    <3>1. Advancing(r)
      BY <1>2, <1>4, <2>1, <2>4 DEF Advancing, Returned
    <3>2. Place(r)'
      BY <1>4, <2>2 DEF Place, Reviews
    <3>3. InPlace'
      BY <1>3, <3>2, BesideIdle, PlacesMove
    <3> QED BY <1>3, <3>1, <3>3 DEF PlaceInv, Reviewed, Advancing
  <2> QED BY <2>3, <2>4
<1> QED BY <1>5, <1>6

(* A thread that is at work under review is a request's: it advances. *)
LEMMA AdvancesOn ==
    ASSUME PlaceInv, NEW t \in Thread, Beside(t), NEW r, th'[t] = r,
           r.pc \notin {"human_gate", "terminal"},
           attempt' = "review" => Advancing(r)
    PROVE  PlaceInv'
<1>1. Place(r)'
  BY DEF Place, Reviews, Advancing
<1>2. InPlace'
  BY <1>1, BesideIdle, PlacesMove
<1> QED BY <1>2 DEF PlaceInv, Reviewed, Advancing

LEMMA ComparePlace ==
    ASSUME EngineInv, GatesHeld, Held, PlaceInv, NEW t \in Thread, CompareState(t)
    PROVE  PlaceInv'
<1>1. /\ th[t] \in Row /\ th[t].pc = "compare" /\ Busy(t) /\ UNCHANGED <<state, attempt, fact, gate, failed>>
      /\ state = th[t].at
  BY DEF EngineInv, CompareState, Busy, rows, Held, AtWork, Working, HeldRow
<1>2. PICK r : r = [th[t] EXCEPT !.pc = "write"]
  OBVIOUS
<1>3. th' = [th EXCEPT ![t] = r]
  BY <1>1, <1>2 DEF CompareState, Goto
<1>4. r.pc = "write" /\ r.kind = th[t].kind
  BY <1>1, <1>2, MovedRow
<1>5. th'[t] = r /\ Beside(t)
  BY <1>1, <1>3, OneMoves
<1>6. attempt = "review" => Advancing(r)
  BY <1>1, <1>4, MayLoop DEF PlaceInv, Reviews, Advancing
<1> QED BY <1>1, <1>4, <1>5, <1>6, AdvancesOn

LEMMA WritePlace ==
    ASSUME EngineInv, PlaceInv, NEW t \in Thread, WriteState(t)
    PROVE  PlaceInv'
<1>1. th[t] \in Row /\ th[t].pc = "write" /\ Busy(t) /\ UNCHANGED attempt
  BY DEF EngineInv, WriteState, Busy
<1>2. PICK r, v : r = [th[t] EXCEPT !.pc = "record"] /\ v = [Idle EXCEPT !.pc = "loop", !.kind = th[t].kind]
  OBVIOUS
<1>3. PICK w \in {r, v} : th' = [th EXCEPT ![t] = w]
  BY <1>2 DEF WriteState, Goto
<1>4. r.pc = "record" /\ r.kind = th[t].kind
  BY <1>1, <1>2, MovedRow
<1>5. v.pc = "loop" /\ v.kind = th[t].kind /\ ~v.sole
  BY <1>2 DEF Idle
<1>6. th'[t] = w /\ Beside(t)
  BY <1>1, <1>3, OneMoves
<1>7. attempt = "review" => Advancing(w)
  BY <1>1, <1>3, <1>4, <1>5, MayLoop DEF PlaceInv, Reviews, Advancing
<1> QED BY <1>1, <1>3, <1>4, <1>5, <1>6, <1>7, AdvancesOn

LEMMA RecordPlace ==
    ASSUME EngineInv, GatesHeld, PlaceInv, NEW t \in Thread, RecordArtifacts(t)
    PROVE  PlaceInv'
<1>1. /\ th[t] \in Row /\ th[t].pc = "record" /\ Busy(t) /\ UNCHANGED attempt /\ RowAgrees(th[t])
  BY DEF EngineInv, RecordArtifacts, Busy, GatesHeld, GateRows
<1>2. PICK r, v, x : /\ r = [th[t] EXCEPT !.pc = "close"] /\ v = [Idle EXCEPT !.pc = "loop", !.kind = th[t].kind]
                     /\ x = [th[t] EXCEPT !.pc = "raise"]
  OBVIOUS
<1>3. \/ th' = [th EXCEPT ![t] = r] /\ OfGate(th[t])
      \/ th' = [th EXCEPT ![t] = v]
      \/ th' = [th EXCEPT ![t] = x] /\ ~OfGate(th[t]) /\ th[t].bad
  BY <1>2 DEF RecordArtifacts, OfGate, GateKind
<1>4. r.pc = "close" /\ r.kind = th[t].kind /\ x.pc = "raise"
  BY <1>1, <1>2, MovedRow
<1>5. v.pc = "loop" /\ v.kind = th[t].kind /\ ~v.sole
  BY <1>2 DEF Idle
<1>6. attempt = "review" => th[t].kind \in GateKind
  BY <1>1, MayLoop DEF PlaceInv, Reviews
<1>7. attempt = "review" => ~(~OfGate(th[t]) /\ th[t].bad)
  BY <1>1, <1>6 DEF RowAgrees, Automatic
<1>8. PICK w \in {r, v, x} : th' = [th EXCEPT ![t] = w] /\ (attempt = "review" => w \in {r, v})
  BY <1>3, <1>7
<1>9. th'[t] = w /\ Beside(t)
  BY <1>1, <1>8, OneMoves
<1>10. attempt = "review" => Advancing(w)
  BY <1>4, <1>5, <1>6, <1>8 DEF Advancing
<1> QED BY <1>1, <1>4, <1>5, <1>8, <1>9, <1>10, AdvancesOn

LEMMA ClosePlace ==
    ASSUME EngineInv, GatesHeld, PlaceInv, NEW t \in Thread, CloseGate(t)
    PROVE  PlaceInv'
<1>1. th[t].pc = "close" /\ Busy(t) /\ th[t].kind \in GateKind
  BY DEF CloseGate, Busy, GatesHeld, GateRows, RowAgrees, Automatic, OfGate
<1>2. PICK r : r = [Idle EXCEPT !.pc = "loop", !.kind = th[t].kind]
  OBVIOUS
<1>3. r.pc = "loop" /\ r.kind = th[t].kind /\ ~r.sole
  BY <1>2 DEF Idle
<1>4. th' = [th EXCEPT ![t] = r]
  BY <1>2 DEF CloseGate
<1>5. th'[t] = r /\ Beside(t)
  BY <1>1, <1>4, OneMoves
<1>6. Advancing(r)
  BY <1>1, <1>3 DEF Advancing
<1> QED BY <1>3, <1>5, <1>6, AdvancesOn

(* The loop's results. *)
LEMMA FinishesPlace ==
    ASSUME EngineInv, PlaceInv, NEW t \in Thread, FinishTerminal(t) \/ FinishReview(t)
    PROVE  PlaceInv'
<1>1. /\ Busy(t) /\ th' = [th EXCEPT ![t] = Idle] /\ UNCHANGED <<state, fact, gate, failed>>
      /\ Place(th[t])
  BY DEF FinishTerminal, FinishReview, Busy, rows, PlaceInv, InPlace
<1>2. th'[t] = Idle /\ Beside(t) /\ Idle.pc = "idle"
  BY <1>1, OneMoves, IdleIsARow
<1>3. Place(Idle)'
  BY <1>2 DEF Place
<1>4. InPlace'
  BY <1>2, <1>3, BesideIdle, PlacesMove
<1>5. CASE FinishTerminal(t)
  BY <1>1, <1>4, <1>5 DEF FinishTerminal, Place, PlaceInv, Reviewed, Active
<1>6. CASE FinishReview(t)
  <2>1. Waits
    BY <1>1, <1>6 DEF FinishReview, Place
  <2>2. Waits'
    BY <1>1, <2>1, NothingStays, WaitsStay
  <2> QED BY <1>4, <2>2 DEF PlaceInv, Reviewed
<1> QED BY <1>5, <1>6

LEMMA StoppedPlace ==
    ASSUME EngineInv, PlaceInv, NEW t \in Thread, FinishStopped(t)
    PROVE  PlaceInv'
<1>1. /\ th[t] \in Row /\ th[t].pc = "stopped" /\ Busy(t) /\ UNCHANGED <<state, attempt, fact, gate, failed>>
  BY DEF EngineInv, FinishStopped, Busy, rows
<1>2. PICK r : r = [th[t] EXCEPT !.pc = "raise"]
  OBVIOUS
<1>3. r.pc = "raise" /\ Idle.pc = "idle"
  BY <1>1, <1>2, MovedRow, IdleIsARow
<1>4. CASE EndsAttempt(t)
  <2>1. th' = [th EXCEPT ![t] = r]
    BY <1>1, <1>2, <1>4 DEF FinishStopped
  <2>2. attempt # "review"
    BY <1>1, <1>4, MayLoop DEF PlaceInv, Reviews, EndsAttempt, GateKind
  <2> QED BY <1>1, <1>3, <2>1, <2>2, OneMoves, NotReviewed
<1>5. CASE ~EndsAttempt(t)
  <2>1. th' = [th EXCEPT ![t] = Idle]
    BY <1>5 DEF FinishStopped
  <2>2. th'[t] = Idle /\ Beside(t) /\ ~Advancing(th[t])
    BY <1>1, <2>1, OneMoves DEF Advancing
  <2> QED BY <1>1, <1>3, <2>2, NothingStays, PlaceStays
<1> QED BY <1>4, <1>5

LEMMA RaisesPlace ==
    ASSUME EngineInv, PlaceInv, NEW t \in Thread, RaiseInLoop(t) \/ GiveUp(t)
    PROVE  PlaceInv'
<1>1. /\ th[t] \in Row /\ th[t].pc \in {"raise", "giveup"} /\ Busy(t)
  BY DEF EngineInv, RaiseInLoop, GiveUp, Busy
<1>2. PICK v : v = [Idle EXCEPT !.pc = "giveup", !.kind = th[t].kind]
  OBVIOUS
<1>3. v.pc = "giveup" /\ Idle.pc = "idle"
  BY <1>2 DEF Idle
<1>4. CASE GiveUp(t)
  BY <1>1, <1>3, <1>4, OneMoves, NotReviewed DEF GiveUp
<1>5. CASE RaiseInLoop(t)
  <2>1. PICK w \in {v, Idle} : th' = [th EXCEPT ![t] = w] /\ (w = v => EndsAttempt(t) \/ v = Idle)
    BY <1>2, <1>5 DEF RaiseInLoop
  <2>2. th'[t] = w /\ Beside(t) /\ UNCHANGED attempt /\ state' \in Terminal
    BY <1>1, <1>5, <2>1, OneMoves, Bounds DEF RaiseInLoop
  <2>3. attempt = "review" => w = Idle
    BY <1>1, <1>3, <2>1, MayLoop DEF PlaceInv, Reviews, EndsAttempt, GateKind
  <2>4. Place(w)'
    BY <1>3, <2>1, <2>2, <2>3 DEF Place
  <2>5. InPlace'
    BY <2>2, <2>4, BesideIdle, PlacesMove
  <2> QED BY <2>2, <2>5 DEF PlaceInv, Reviewed, Active
<1> QED BY <1>4, <1>5

LEMMA RaiseInGatePlace ==
    ASSUME EngineInv, PlaceInv, NEW t \in Thread, RaiseInGate(t)
    PROVE  PlaceInv'
<1>1. /\ th[t].pc = "raise" /\ Busy(t) /\ UNCHANGED <<state, attempt, fact, failed>> /\ th' = [th EXCEPT ![t] = Idle]
      /\ \A m \in Human : gate'[m] = gate[m] \/ gate'[m] = "pending"
  BY DEF RaiseInGate, Busy, rows
<1>2. th'[t] = Idle /\ Beside(t) /\ ~Advancing(th[t]) /\ Idle.pc = "idle"
  BY <1>1, OneMoves, IdleIsARow DEF Advancing
<1>3. AutomaticsStay /\ GatesStayOpen
  BY <1>1, BudgetsStay DEF AutomaticsStay, GatesStayOpen, GateIsOpen
<1> QED BY <1>1, <1>2, <1>3, PlaceStays

LEMMA CrashesPlace ==
    ASSUME EngineInv, GatesHeld, PlaceInv, WorkerDies \/ FailAndRetry
    PROVE  PlaceInv'
<1>1. CASE WorkerDies
  <2>1. /\ "worker" \in Thread /\ th["worker"] \in Row /\ Busy("worker") /\ UNCHANGED attempt
        /\ th["worker"].kind = "worker" /\ th' = [th EXCEPT !["worker"] = [th["worker"] EXCEPT !.pc = "dead"]]
    BY <1>1 DEF EngineInv, WorkerDies, Thread, Busy, GatesHeld, GateRows, Goto
  <2>2. PICK r : r = [th["worker"] EXCEPT !.pc = "dead"]
    OBVIOUS
  <2>3. r.pc = "dead"
    BY <2>1, <2>2, MovedRow
  <2>4. attempt # "review"
    BY <2>1, MayLoop DEF PlaceInv, Reviews, GateKind, Busy
  <2> QED BY <2>1, <2>2, <2>3, <2>4, OneMoves, NotReviewed
<1>2. CASE FailAndRetry
  <2>1. attempt' # "review"
    BY <1>2 DEF FailAndRetry
  <2> QED BY <1>2, <2>1, ReconciledIs, IdleIsARow, NotReviewed
<1> QED BY <1>1, <1>2

LEMMA NextPlace ==
    ASSUME NoDeadEnd, ~Overlap, EngineInv, Held, GatesHeld, PlaceInv, [Next]_vars, serverDeaths' = 0
    PROVE  PlaceInv'
<1>1. ~ServerDies
  BY ServerStays
<1>2. ASSUME NEW t \in Thread, Step(t) PROVE PlaceInv'
  BY <1>2, ResumesPlace, LoopEndsPlace, LoopRaisesPlace, LoopRefusedPlace, OpensPlace, LoopStartsPlace, ReturnsPlace,
     ComparePlace, WritePlace, RecordPlace, ClosePlace, FinishesPlace, StoppedPlace, RaisesPlace, RaiseInGatePlace
     DEF Step
<1>3. CASE UNCHANGED vars
  <2>1. UNCHANGED <<state, attempt, fact, gate, failed, th>>
    BY <1>3 DEF vars
  <2>2. Waits => Waits'
    BY <2>1, NothingStays, WaitsStay
  <2> QED BY <2>1, <2>2 DEF PlaceInv, InPlace, Place, Reviews, Reviewed, Active, Advancing
<1> QED BY <1>1, <1>2, <1>3, LoopsStartPlace, DecidesPlace, CrashesPlace DEF Next

WaitInv == serverDeaths = 0 => GatesHeld /\ PlaceInv

LEMMA InitWait == Init => WaitInv
<1> SUFFICES ASSUME Init PROVE GatesHeld /\ PlaceInv
  BY DEF WaitInv
<1>1. \A t \in Thread : th[t].pc = "idle"
  BY IdleIsARow DEF Init
<1>2. attempt # "review"
  BY DEF Init
<1> QED BY <1>1, <1>2, InitGatesHeld DEF PlaceInv, InPlace, Place, Reviewed

(* With nobody at work no gate is running. *)
LEMMA WaitingCanAct ==
    ASSUME WaitInv
    PROVE  SomeoneCanAct
<1> SUFFICES ASSUME AllIdle, Active, attempt = "review", serverDeaths = 0, ~ChoiceFails
             PROVE  \E m \in Human : Def[m].from = state /\ gate[m] = "pending"
  BY DEF SomeoneCanAct
<1>1. \A t \in Thread : th[t].pc = "idle" /\ ~OfGate(th[t])
  BY IdleIsAutomatic DEF AllIdle, Busy, WaitInv, GatesHeld, GateRows
<1>2. Waits
  BY <1>1 DEF WaitInv, PlaceInv, Reviewed, Advancing
<1>3. PICK m \in Human : Def[m].from = state /\ GateIsOpen(m)
  BY <1>2 DEF Waits
<1>4. gate[m] # "running"
  BY <1>1 DEF WaitInv, GatesHeld, RunningHeld
<1> QED BY <1>3, <1>4 DEF GateIsOpen

(* Nobody at work means somebody's turn: under review a gate of the state is pending, or the *)
(* next cycle fails the instance, however its actions failed and its worker died, in every   *)
(* workflow that leaves no state without a condition that holds.                             *)
THEOREM ReviewCanGoOn == ASSUME ~Overlap, NoDeadEnd PROVE Spec => []SomeoneCanAct
<1>1. Init => EngineInv /\ Held /\ WaitInv
  BY InitEngine, InitHeld, InitWait
<1>2. EngineInv /\ Held /\ WaitInv /\ [Next]_vars => (EngineInv /\ Held /\ WaitInv)'
  <2> SUFFICES ASSUME EngineInv, Held, WaitInv, [Next]_vars PROVE (EngineInv /\ Held /\ WaitInv)'
    OBVIOUS
  <2>1. EngineInv' /\ Held'
    BY NextEngine, NextHeld
  <2>2. ASSUME serverDeaths' = 0 PROVE GatesHeld' /\ PlaceInv'
    BY <2>2, ServerStays, NextGatesHeld, NextPlace DEF WaitInv
  <2> QED BY <2>1, <2>2 DEF WaitInv
<1>3. WaitInv => SomeoneCanAct
  BY WaitingCanAct
<1> QED BY <1>1, <1>2, <1>3, PTL DEF Spec

(***************************************************************************)
(* A state is left as a whole                                              *)
(***************************************************************************)

Grouped(s) == {m \in Conditioned(s, "automatic") : Def[m].group # NoGroup}

(* A thread at work has all of the groups that apply; where a gate is claimed none does. *)
WholeRow(h) ==
    /\ h.pc \in Working => Grouped(state) \subseteq h.batch
    /\ h.pc = "recheck" => Grouped(state) = {}
Whole == \A t \in Thread : WholeRow(th[t])

LEMMA ConditionsStay ==
    UNCHANGED <<state, fact>> => \A s : Conditioned(s, "automatic")' = Conditioned(s, "automatic")
BY DEF Conditioned, ConditionMatches, Satisfied, Truthy

(* What a group finds out changes no condition of its state. *)
LEMMA OutputsChangeNothing ==
    ASSUME GroupsAreAlone, fact \in [Fact -> {"absent", "yes", "no"}], UNCHANGED state,
           NEW ms \in SUBSET Transition, NEW yes, fact' = Recorded(ms, yes),
           \A m \in ms : Def[m].group # NoGroup /\ Def[m].from = state
    PROVE  Conditioned(state, "automatic")' = Conditioned(state, "automatic")
<1>1. ASSUME NEW n \in Transition, Def[n].from = state
      PROVE  ConditionMatches(Def[n].when)' <=> ConditionMatches(Def[n].when)
  <2>1. ASSUME NEW c \in Def[n].when, NEW f \in c.pos \cup c.neg PROVE f \in Fact /\ fact'[f] = fact[f]
    <3>1. f \in Fact
      BY DefAssumption DEF Clause
    <3>2. \A m \in ms : f \notin Def[m].out
      BY <1>1 DEF GroupsAreAlone
    <3> QED BY <3>1, <3>2 DEF Recorded
  <2>2. \A c \in Def[n].when : /\ c.pos \subseteq Truthy' <=> c.pos \subseteq Truthy
                               /\ c.neg \cap Truthy' = {} <=> c.neg \cap Truthy = {}
    BY <2>1 DEF Truthy
  <2> QED BY <2>2 DEF ConditionMatches, Satisfied
<1> QED BY <1>1 DEF Conditioned

LEMMA WholeStays ==
    ASSUME EngineInv, NEW t \in Thread, Busy(t) \/ \A u \in Thread : ~Busy(u), NEW r,
           th' = [th EXCEPT ![t] = r], r.pc \in Working \cup {"recheck"} => WholeRow(r)'
    PROVE  Whole'
<1>1. th'[t] = r /\ \A u \in Thread : u # t => th'[u].pc = "idle"
  BY OthersIdle
<1> QED BY <1>1 DEF Whole, WholeRow, Working

(* A gate, or a manual retry, starts where no group does. *)
LEMMA NoGroupHere ==
    ASSUME GroupsAreAlone, NEW n \in Transition,
           \/ n \in Human
           \/ n \in Retriable /\ Def[n].effect # "codex_worker"
    PROVE  /\ state = Def[n].from => Grouped(state) = {}
           /\ state' = Def[n].from => Grouped(state)' = {}
BY DEF GroupsAreAlone, Grouped, Conditioned, Human

(* Several transitions of one state that are chosen together are a group. *)
LEMMA LoopStartsWhole ==
    ASSUME GroupsAreAlone, EngineInv, NEW t \in Thread, LoopStarts(t)
    PROVE  Whole'
<1>1. PICK r : Chosen(r) /\ th' = [th EXCEPT ![t] = r]
  BY LoopStartsGives
<1>2. /\ Busy(t) /\ UNCHANGED state /\ fact \in [Fact -> {"absent", "yes", "no"}]
      /\ Matching(state, "automatic") = Conditioned(state, "automatic")
      /\ IsBatch(Matching(state, "automatic"))
  BY LoopStartsGives DEF LoopStarts, EngineInv, RowsTyped, Exhausted, Matching
<1>3. Conditioned(state, "automatic")' = Conditioned(state, "automatic")
  <2>1. CASE UNCHANGED fact
    BY <1>2, <2>1, ConditionsStay
  <2>2. CASE ~UNCHANGED fact
    <3> DEFINE batch == Matching(state, "automatic")
               kept == {m \in batch : GroupCheckpoint(m)}
    <3>1. IsParallel(batch) /\ fact' = Recorded(kept, [m \in kept |-> success[m].yes])
      BY <2>2 DEF LoopStarts
    <3>2. batch \in SUBSET Transition /\ \A m \in batch : Def[m].from = state
      BY DEF Matching, Conditioned
    <3>3. \A m \in batch : Def[m].group # NoGroup
      BY <1>2, <3>1, <3>2, ParallelBatch
    <3> QED BY <1>2, <3>1, <3>2, <3>3, OutputsChangeNothing
  <2> QED BY <2>1, <2>2
<1>4. WholeRow(r)'
  BY <1>1, <1>3 DEF WholeRow, Grouped, Chosen
<1> QED BY <1>1, <1>2, <1>4, WholeStays

LEMMA ReturnsWhole ==
    ASSUME GroupsAreAlone, EngineInv, Held, Whole, NEW t \in Thread, NEW m \in Transition, ActionReturns(t, m)
    PROVE  Whole'
<1>1. PICK ok, r : ok \in BOOLEAN /\ th' = [th EXCEPT ![t] = r] /\ Returned(th[t], m, ok, r)
  BY ReturnsGive
<1>2. /\ Busy(t) /\ th[t].pc = "run" /\ m \in th[t].todo /\ UNCHANGED state /\ th[t] \in Row
      /\ fact \in [Fact -> {"absent", "yes", "no"}] /\ HeldRow(th[t]) /\ WholeRow(th[t])
  BY ReturnsGive DEF EngineInv, RowsTyped, Held, Whole, AtWork, Working
<1>3. Grouped(state) \subseteq th[t].batch /\ r.pc # "recheck"
  BY <1>1, <1>2 DEF WholeRow, Working, Returned
<1>4. Conditioned(state, "automatic")' = Conditioned(state, "automatic")
  <2>1. CASE UNCHANGED fact
    BY <1>2, <2>1, ConditionsStay
  <2>2. CASE ~UNCHANGED fact
    <3>1. IsParallel(th[t].batch) /\ \E yes : fact' = Recorded({m}, [n \in {m} |-> yes])
      BY <2>2 DEF ActionReturns, ActionSucceeds, ActionFails
    <3>2. th[t].batch \in SUBSET Transition /\ m \in th[t].batch /\ Def[m].from = state /\ IsBatch(th[t].batch)
      BY <1>2 DEF HeldRow, Row, RowType
    <3>3. Def[m].group # NoGroup
      BY <3>1, <3>2, ParallelBatch
    <3> QED BY <1>2, <3>1, <3>2, <3>3, OutputsChangeNothing
  <2> QED BY <2>1, <2>2
<1>5. WholeRow(r)'
  BY <1>1, <1>2, <1>4, <1>3 DEF WholeRow, Grouped, Returned
<1> QED BY <1>1, <1>2, <1>5, WholeStays

LEMMA NextWhole ==
    ASSUME EngineInv, Held, Whole, ~Overlap, GroupsAreAlone, [Next]_vars
    PROVE  Whole'
<1>1. CASE RunAttempt \/ AdvanceReady
  <2>1. (\A u \in Thread : ~Busy(u)) /\ \E t \in Thread : \E r : th' = [th EXCEPT ![t] = r] /\ r.pc = "loop"
    BY <1>1, LoopsStart
  <2> QED BY <2>1, WholeStays DEF Working
<1>2. ASSUME NEW t \in Request, NEW m \in Human, RunHumanGate(t, m) PROVE Whole'
  <2>1. PICK r : th' = [th EXCEPT ![t] = r] /\ GateBegun(r, m)
    BY <1>2, GateStarts
  <2>2. m \in Transition /\ state' = Def[m].from
    BY <1>2, <2>1, GateStarts DEF GateBegun, Human
  <2>3. WholeRow(r)'
    BY <2>2, NoGroupHere DEF WholeRow
  <2> QED BY <1>2, <2>1, <2>3, GateStarts, WholeStays
<1>3. ASSUME NEW t \in Request, NEW m \in Human, StartHumanGate(t, m) PROVE Whole'
  <2>1. PICK r : th' = [th EXCEPT ![t] = r] /\ r.pc = "recheck"
    BY <1>3, GateClaims
  <2>2. m \in Transition /\ state' = Def[m].from
    BY <1>3 DEF StartHumanGate, GateRuns, Human
  <2>3. WholeRow(r)'
    BY <2>2, NoGroupHere DEF WholeRow
  <2> QED BY <1>3, <2>1, <2>3, GateClaims, WholeStays
<1>4. ASSUME NEW t \in Request, NEW m \in Transition, RetryFailedAction(t, m) PROVE Whole'
  <2>1. PICK r : th' = [th EXCEPT ![t] = r]
    BY <1>4, RetryGives
  <2>2. state' = Def[m].from /\ m \in Retriable /\ Def[m].effect # "codex_worker"
    BY <1>4 DEF RetryFailedAction, MayRetry, RetryPrepared
  <2>3. WholeRow(r)'
    BY <2>2, NoGroupHere DEF WholeRow
  <2> QED BY <1>4, <2>1, <2>3, RetryGives, WholeStays
<1>5. ASSUME NEW t \in Thread, RunStartedHumanGate(t) PROVE Whole'
  <2>1. PICK r : th' = [th EXCEPT ![t] = r]
    BY <1>5, GateResumes
  <2>2. Grouped(state) = {} /\ UNCHANGED <<state, fact>> /\ Busy(t)
    BY <1>5 DEF RunStartedHumanGate, Whole, WholeRow, Busy
  <2>3. WholeRow(r)'
    BY <2>2, ConditionsStay DEF WholeRow, Grouped
  <2> QED BY <2>1, <2>2, <2>3, WholeStays
<1>6. ASSUME NEW t \in Thread, CompareState(t) PROVE Whole'
  <2>1. PICK r : th' = [th EXCEPT ![t] = r] /\ r.batch = th[t].batch /\ r.pc # "recheck"
    BY <1>6, CompareGives
  <2>2. Grouped(state) \subseteq th[t].batch /\ UNCHANGED <<state, fact>> /\ Busy(t)
    BY <1>6, CompareGives DEF Whole, WholeRow, Working, CompareState
  <2>3. WholeRow(r)'
    BY <2>1, <2>2, ConditionsStay DEF WholeRow, Grouped
  <2> QED BY <2>1, <2>2, <2>3, WholeStays
<1>7. ASSUME NEW t \in Thread, Rests(t) PROVE Whole'
  <2>1. \A u \in Thread : th'[u].pc \in Resting
    BY <1>7, RestsIdle DEF Resting
  <2> QED BY <2>1 DEF Whole, WholeRow, Working, Resting
<1>8. CASE Crashes
  BY <1>8, CrashesIdle DEF Whole, WholeRow, Working
<1>9. CASE UNCHANGED vars
  BY <1>9, ConditionsStay DEF vars, Whole, WholeRow, Grouped
<1> QED BY <1>1, <1>2, <1>3, <1>4, <1>5, <1>6, <1>7, <1>8, <1>9, LoopStartsWhole, ReturnsWhole
      DEF Next, Step, Decide, Rests, Crashes

LEMMA InitWhole == Init => Whole
BY IdleIsARow DEF Init, Whole, WholeRow, Working

(* Only a move, a failure and a manual retry change the state. *)
LEMMA LeavesByMove ==
    ASSUME EngineInv, [Next]_vars, state \notin Terminal, state' # state, state' # Failed
    PROVE  \E t \in Thread : WriteState(t)
<1>1. ASSUME NEW t \in Request, Decide(t) PROVE FALSE
  <2>1. Failed \in Terminal
    BY Bounds
  <2> QED BY <1>1, <2>1 DEF Decide, RunHumanGate, StartHumanGate, RetryFailedAction
<1>2. ASSUME NEW t \in Thread, Step(t) PROVE WriteState(t)
  <2>1. ASSUME NEW m \in Transition, ActionReturns(t, m) PROVE FALSE
    BY <2>1, ReturnsGive
  <2>2. ~RunStartedHumanGate(t) /\ ~CompareState(t) /\ ~LoopStarts(t)
    BY DEF RunStartedHumanGate, CompareState, LoopStarts
  <2> QED BY <1>2, <2>1, <2>2, RestsFail DEF Step, Rests
<1>3. ~Crashes
  BY CrashesFail
<1>4. ~RunAttempt /\ ~AdvanceReady /\ ~UNCHANGED vars
  BY DEF RunAttempt, AdvanceReady, vars
<1> QED BY <1>1, <1>2, <1>3, <1>4 DEF Next, Crashes

LEMMA MoveIsWhole ==
    ASSUME EngineInv, Saved, Whole, [Next]_vars, NEW s \in State, state = s, state' # s, state' # Failed,
           NEW m \in GroupMoves(s)
    PROVE  GroupCheckpoint(m)
<1>1. m \in Grouped(state) /\ m \in Transition /\ state \notin Terminal
  BY DefAssumption DEF GroupMoves, Matching, Conditioned, Grouped
<1>2. PICK t \in Thread : WriteState(t)
  BY <1>1, LeavesByMove
<1>3. m \in th[t].batch
  BY <1>1, <1>2 DEF WriteState, Whole, WholeRow, Working
<1>4. th[t].batch \subseteq Open
  BY <1>2 DEF WriteState, Saved, SavedThreads, SavedRow
<1> QED BY <1>3, <1>4 DEF Open

(* A state is left by its groups only as a whole: the members that may run have all         *)
(* succeeded in this visit, whatever failed, crashed or was retried before (_run_parallel_  *)
(* batch).  The members of a group wait for the same conditions, no gate and no transition  *)
(* that is retried by hand leaves their state, and they do not decide their own conditions. *)
THEOREM StatesAreLeftAsAWhole ==
    ASSUME ~Overlap, GroupsAreWhole, GroupsAreAlone
    PROVE  Spec => BatchIsWhole
<1> DEFINE Left == \A s \in State :
                      (state = s /\ state' # s /\ state' # Failed /\ Conditioned(s, "human") = {})
                          => \A m \in GroupMoves(s) : GroupCheckpoint(m)
<1>1. Init => EngineInv /\ Held /\ Saved /\ Whole
  <2>1. Init => Saved
    BY DEF Init, Created, Saved, SavedThreads, SavedSuccesses, SavedRow, Idle, NoSuccess
  <2> QED BY <2>1, InitEngine, InitHeld, InitWhole
<1>2. EngineInv /\ Held /\ Saved /\ Whole /\ [Next]_vars => (EngineInv /\ Held /\ Saved /\ Whole)'
  BY NextEngine, NextHeld, NextSaved, NextWhole
<1>3. EngineInv /\ Held /\ Saved /\ Whole /\ [Next]_vars => [Left]_vars
  BY MoveIsWhole
<1>4. [][Left]_vars => BatchIsWhole
  BY DEF Left, BatchIsWhole
<1> HIDE DEF Left
<1>5. Spec => [][Left]_vars
  BY <1>1, <1>2, <1>3, PTL DEF Spec
<1> QED BY <1>4, <1>5
=============================================================================
