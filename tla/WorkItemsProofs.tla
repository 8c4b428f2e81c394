-------------------------- MODULE WorkItemsProofs --------------------------
(***************************************************************************)
(* Proofs about WorkItems: its types, that a run has one attempt, and that *)
(* a card in progress has unfinished work, whatever is moved, adjusted,    *)
(* archived, retried and merged while runs are claimed and end.  Assumed:  *)
(* requests and claims do not overlap, and the server does not die between *)
(* creating an attempt and assigning it.                                   *)
(***************************************************************************)
EXTENDS WorkItems, FiniteSetTheorems, TLAPS

(***************************************************************************)
(* The invariant                                                           *)
(***************************************************************************)

(* One thread at a time is claiming a run. *)
OneClaimer == \A t, u \in Thread : pc[t] \in ClaimPc /\ pc[u] \in ClaimPc => t = u

(* What a thread holds at each point, and what is true of it. *)
HandsAreGood ==
    \A t \in Thread :
        /\ pc[t] = "insert" => hand[t] \in SourceItem
        /\ pc[t] = "select" /\ t # "cycle" => hand[t] \in Run
        /\ pc[t] \in {"create", "assign"} => hand[t] \in Runs /\ run[hand[t]].attempt = Nothing
        /\ pc[t] = "assign" =>
             /\ made[t] \in Attempts /\ attempt[made[t]].run = hand[t]
             /\ attempt[made[t]].status = "queued"

(* A run belongs to a card. *)
RunsAreOfCards == \A r \in Runs : run[r].card \in Cards

(* An attempt is the one its run has, or about to be. *)
IsBeingAssigned(a) ==
    \E t \in Thread : pc[t] = "assign" /\ made[t] = a /\ hand[t] = attempt[a].run
AttemptsAreOfRuns ==
    \A a \in Attempts :
        /\ attempt[a].run \in Runs
        /\ run[attempt[a].run].attempt = a \/ IsBeingAssigned(a)

(* What a run has was made for it. *)
RunsKnowTheirs == \A r \in Runs : run[r].attempt # Nothing => run[r].attempt \in Attempts

ClaimInv ==
    /\ TypeOK /\ OneClaimer /\ HandsAreGood /\ RunsAreOfCards
    /\ AttemptsAreOfRuns /\ RunsKnowTheirs /\ InProgressHasWork

Claims == ~Overlap /\ "assign" \notin CrashWindows

(* The one thread that is assigning, or the run itself, tells two attempts of a run apart. *)
LEMMA RunsHaveOne == ClaimInv => OneAttemptPerRun
<1> SUFFICES ASSUME ClaimInv, NEW a \in Attempts, NEW b \in Attempts,
                    attempt[a].run = attempt[b].run
             PROVE  a = b
  BY DEF OneAttemptPerRun
<1>1. a # Nothing /\ b # Nothing
  BY SourceAssumption DEF Attempts
<1>2. CASE IsBeingAssigned(a) /\ IsBeingAssigned(b)
  BY <1>2 DEF ClaimInv, OneClaimer, IsBeingAssigned, ClaimPc
<1>3. CASE ~IsBeingAssigned(a) /\ IsBeingAssigned(b)
  BY <1>1, <1>3 DEF ClaimInv, HandsAreGood, AttemptsAreOfRuns, IsBeingAssigned
<1>4. CASE IsBeingAssigned(a) /\ ~IsBeingAssigned(b)
  BY <1>1, <1>4 DEF ClaimInv, HandsAreGood, AttemptsAreOfRuns, IsBeingAssigned
<1>5. CASE ~IsBeingAssigned(a) /\ ~IsBeingAssigned(b)
  BY <1>5 DEF ClaimInv, AttemptsAreOfRuns
<1> QED BY <1>2, <1>3, <1>4, <1>5

(***************************************************************************)
(* Types                                                                   *)
(***************************************************************************)

(* What active_attempt_counts counts is finite. *)
LEMMA CountsAreNumbers ==
    ASSUME NEW S \in SUBSET Attempt
    PROVE  Cardinality(S) \in Nat
<1>1. IsFiniteSet(Attempt)
  BY LimitsAssumption, FS_Interval DEF Attempt
<1> QED BY <1>1, FS_Subset, FS_CardinalityType

(* The initial state is of the right types. *)
LEMMA InitTypes == Init => TypeOK
BY LimitsAssumption DEF Init, TypeOK, CardType, RunType, AttemptType, CardState,
    RunStatus, AttemptStatus, ThreadPc, Executor

(* A new run of a card is a run. *)
LEMMA NewRunType == ASSUME NEW i \in Card PROVE NewRun(i) \in RunType
BY DEF NewRun, RunType, RunStatus

(* Writing the state of a run keeps the others, and what the run is of. *)
LEMMA SetRunFacts ==
    ASSUME TypeOK, NEW a \in Attempt, NEW s \in RunStatus \ {"none"}, SetRun(a, s)
    PROVE  /\ run' \in [Run -> RunType]
           /\ Runs' = Runs
           /\ \A r \in Run : /\ run'[r].card = run[r].card
                             /\ run'[r].attempt = run[r].attempt
                             /\ run[r].attempt # a => run'[r] = run[r]
<1>1. \A r \in Run : run[r] \in RunType
  BY DEF TypeOK
<1>2. \A r \in Run : run'[r] = IF r \in Runs /\ run[r].attempt = a
                               THEN [run[r] EXCEPT !.status = s] ELSE run[r]
  BY DEF SetRun
<1>3. \A r \in Run : run'[r] \in RunType
  BY <1>1, <1>2 DEF RunType
<1>4. run' \in [Run -> RunType]
  BY <1>3 DEF SetRun
<1>5. \A r \in Run : (run'[r].status # "none") = (run[r].status # "none")
  BY <1>1, <1>2 DEF RunType, Runs
<1>6. Runs' = Runs
  BY <1>5 DEF Runs
<1> QED BY <1>1, <1>2, <1>4, <1>6 DEF RunType

(* Every step keeps the types. *)
LEMMA NextTypes == ClaimInv /\ [Next]_vars => TypeOK'
<1> SUFFICES ASSUME ClaimInv, [Next]_vars PROVE TypeOK'
  OBVIOUS
<1> USE LimitsAssumption, SourceAssumption, ThreadAssumption
<1>t. /\ TypeOK
      /\ \A i \in Card : card[i] \in CardType
      /\ \A r \in Run : run[r] \in RunType
      /\ \A a \in Attempt : attempt[a] \in AttemptType
      /\ "cycle" \in Thread /\ Request \subseteq Thread
      /\ Cards \subseteq Card /\ Runs \subseteq Run /\ Attempts \subseteq Attempt
  BY DEF ClaimInv, TypeOK, Thread, Cards, Runs, Attempts
<1>r. \A a \in Attempts : attempt[a].run \in Run /\ run[attempt[a].run].card \in Card
  BY <1>t DEF ClaimInv, AttemptsAreOfRuns, RunsAreOfCards
<1>n. \A i \in Card : NewRun(i) \in RunType
  BY NewRunType
<1>c. \A S \in SUBSET Attempt : Cardinality(S) \in Nat
  BY CountsAreNumbers
<1>0. CASE UNCHANGED vars
  BY <1>0, <1>t DEF vars, threadVars, TypeOK
<1>1. ASSUME NEW i \in Card, Archive(i) PROVE TypeOK'
  <2>1. card' \in [Card -> CardType]
    <3> DEFINE new == [card[i] EXCEPT !.state = "done", !.active = FALSE]
    <3>1. new \in CardType
      BY <1>t DEF CardType, CardState
    <3>2. card' = [card EXCEPT ![i] = new]
      BY <1>1, <1>t DEF Archive, TypeOK
    <3> QED BY <1>t, <3>1, <3>2 DEF TypeOK
  <2> QED BY <1>1, <1>t, <2>1 DEF Archive, TypeOK, threadVars
<1>2. ASSUME NEW i \in Card, NEW x \in CardState \ {"none"}, Move(i, x) PROVE TypeOK'
  BY <1>2, <1>t, <1>n DEF Move, TypeOK, threadVars, CardType, CardState
<1>3. ASSUME NEW a \in Attempt, Adjust(a) PROVE TypeOK'
  BY <1>3, <1>t, <1>n, <1>r DEF Adjust, TypeOK, threadVars, CardType, CardState
<1>4. ASSUME NEW a \in Attempt, RetryAction(a) PROVE TypeOK'
  <2>1. run' \in [Run -> RunType]
    BY <1>4, <1>t, SetRunFacts DEF RetryAction, RunStatus
  <2> QED BY <1>4, <1>t, <2>1 DEF RetryAction, TypeOK, threadVars, AttemptType, AttemptStatus, Executor
<1>5. ASSUME NEW t \in Request, NEW s \in SourceItem, BeginActivate(t, s) PROVE TypeOK'
  BY <1>5, <1>t DEF BeginActivate, TypeOK, ThreadPc
<1>6. ASSUME NEW t \in Request, NEW q \in Repo, StartThread(t, q) PROVE TypeOK'
  BY <1>6, <1>t, <1>n DEF StartThread, NewId, TypeOK, ThreadPc, CardType, CardState
<1>7. ASSUME BeginClaims PROVE TypeOK'
  <2>1. \A q \in Repo \cup {"*"} :
          {a \in Counted : q \in {"*", RepoOfAttempt(a)}} \subseteq Attempt
    BY <1>t DEF Counted
  <2>2. counts' \in [Repo \cup {"*"} -> Nat]
    BY <1>7, <2>1, <1>c DEF BeginClaims
  <2> QED BY <1>7, <1>t, <2>2 DEF BeginClaims, TypeOK, ThreadPc
<1>8. ASSUME NEW r \in Run, SelectNext(r) PROVE TypeOK'
  BY <1>8, <1>t DEF SelectNext, TypeOK, ThreadPc
<1>9. ASSUME EndClaims PROVE TypeOK'
  BY <1>9, <1>t DEF EndClaims, TypeOK, ThreadPc
<1>10. ASSUME EndCycle PROVE TypeOK'
  BY <1>10, <1>t DEF EndCycle, TypeOK, ThreadPc
<1>11. ASSUME NEW t \in Request, SelectById(t) PROVE TypeOK'
  BY <1>11, <1>t DEF SelectById, TypeOK, ThreadPc
<1>12. ASSUME NEW t \in Thread, CreateAttempt(t) PROVE TypeOK'
  <2>1. hand[t] \in Run
    BY <1>12, <1>t DEF CreateAttempt, ClaimInv, HandsAreGood
  <2> QED BY <1>12, <1>t, <2>1 DEF CreateAttempt, NewId, TypeOK, ThreadPc, AttemptType, AttemptStatus, Executor
<1>13. ASSUME NEW t \in Thread, AssignRun(t) PROVE TypeOK'
  <2>1. hand[t] \in Run /\ made[t] \in Attempt /\ run[hand[t]].card \in Card
    BY <1>13, <1>t DEF AssignRun, ClaimInv, HandsAreGood, RunsAreOfCards
  <2>2. run' \in [Run -> RunType]
    BY <1>13, <1>t, <2>1 DEF AssignRun, TypeOK, RunType
  <2>3. card' \in [Card -> CardType]
    <3> DEFINE i == run[hand[t]].card
    <3>1. card' = [card EXCEPT ![i] = [card[i] EXCEPT !.state = "in_progress"]]
      BY <1>13, <2>1, <1>t DEF AssignRun, TypeOK
    <3>2. [card[i] EXCEPT !.state = "in_progress"] \in CardType
      BY <1>t, <2>1 DEF CardType, CardState
    <3> QED BY <1>t, <2>1, <3>1, <3>2 DEF TypeOK
  <2>4. counts' \in [Repo \cup {"*"} -> Nat]
    BY <1>13, <1>t DEF AssignRun, TypeOK
  <2> QED BY <1>13, <1>t, <2>2, <2>3, <2>4 DEF AssignRun, TypeOK, ThreadPc
<1>14. ASSUME NEW t \in Request, InsertCard(t) PROVE TypeOK'
  <2>1. hand[t] \in SourceItem
    BY <1>14, <1>t DEF InsertCard, ClaimInv, HandsAreGood
  <2>2. PICK i \in Card, r \in Run :
          /\ card' = [card EXCEPT ![i] =
               [state |-> "todo", active |-> TRUE, primary |-> hand[t],
                links |-> {hand[t]} \cup LinkedPRs[hand[t]], repo |-> RepoOf[hand[t]]]]
          /\ run' = [run EXCEPT ![r] = NewRun(i)]
    BY <1>14 DEF InsertCard
  <2>3. card' \in [Card -> CardType]
    BY <1>t, <2>1, <2>2 DEF TypeOK, CardType, CardState
  <2>4. run' \in [Run -> RunType]
    BY <1>t, <1>n, <2>2 DEF TypeOK
  <2> QED BY <1>14, <1>t, <2>3, <2>4 DEF InsertCard, TypeOK, ThreadPc
<1>15. ASSUME NEW a \in Attempt, StartAttempt(a) PROVE TypeOK'
  <2>1. run' \in [Run -> RunType]
    BY <1>15, <1>t, SetRunFacts DEF StartAttempt, RunStatus
  <2> QED BY <1>15, <1>t, <2>1 DEF StartAttempt, TypeOK, threadVars, AttemptType, AttemptStatus
<1>16. ASSUME NEW a \in Attempt, Requeue(a) PROVE TypeOK'
  <2>1. run' \in [Run -> RunType]
    BY <1>16, <1>t, SetRunFacts DEF Requeue, RunStatus
  <2>2. attempt' \in [Attempt -> AttemptType]
    BY <1>16, <1>t DEF Requeue, TypeOK, AttemptType, AttemptStatus
  <2> QED BY <1>16, <1>t, <2>1, <2>2 DEF Requeue, TypeOK, threadVars
<1>17. ASSUME NEW a \in Attempt, NEW s \in Settled, FinishAttempt(a, s) PROVE TypeOK'
  BY <1>17, <1>t DEF FinishAttempt, TypeOK, threadVars, AttemptType, AttemptStatus, Settled
<1>18. ASSUME NEW a \in Attempt, FinishRun(a) PROVE TypeOK'
  <2>1. run' \in [Run -> RunType]
    BY <1>18, <1>t, SetRunFacts DEF FinishRun, RunStatusFor, RunStatus, Settled
  <2>2. card' \in [Card -> CardType]
    BY <1>18, <1>t DEF FinishRun, CardType, CardState
  <2> QED BY <1>18, <1>t, <2>1, <2>2 DEF FinishRun, TypeOK, threadVars, Settled
<1>19. ASSUME NEW a \in Attempt, MarkMerged(a) PROVE TypeOK'
  BY <1>19, <1>t, <1>r DEF MarkMerged, TypeOK, threadVars, CardType, CardState
<1>20. ASSUME NEW i \in Card, AutoComplete(i) PROVE TypeOK'
  BY <1>20, <1>t DEF AutoComplete, TypeOK, threadVars, CardType, CardState
<1>21. CASE Crash
  <2>1. attempt' \in [Attempt -> AttemptType]
    BY <1>21, <1>t DEF Crash, AttemptType, Executor
  <2> QED BY <1>21, <1>t, <2>1 DEF Crash, TypeOK, ThreadPc
<1> QED
  BY <1>0, <1>1, <1>2, <1>3, <1>4, <1>5, <1>6, <1>7, <1>8, <1>9, <1>10, <1>11, <1>12,
     <1>13, <1>14, <1>15, <1>16, <1>17, <1>18, <1>19, <1>20, <1>21, <1>t
  DEF Next, UserStep, CycleStep, ClaimStep, WorkerStep

(***************************************************************************)
(* The claim's invariant                                                   *)
(***************************************************************************)

(* The initial state satisfies it: there is nothing. *)
LEMMA InitClaims == Init => ClaimInv
<1> SUFFICES ASSUME Init PROVE ClaimInv
  OBVIOUS
<1>1. Cards = {} /\ Runs = {} /\ Attempts = {}
  BY DEF Init, Cards, Runs, Attempts
<1>2. \A t \in Thread : pc[t] = "idle"
  BY DEF Init
<1> QED BY <1>1, <1>2, InitTypes DEF ClaimInv, OneClaimer, HandsAreGood, RunsAreOfCards,
    AttemptsAreOfRuns, RunsKnowTheirs, InProgressHasWork, ClaimPc

(* What a step does to cards alone matters to the cards in progress only. *)
LEMMA CardStep ==
    ASSUME ClaimInv, Cards \subseteq Cards', UNCHANGED <<run, attempt, result, threadVars>>
    PROVE  /\ OneClaimer' /\ HandsAreGood' /\ RunsAreOfCards' /\ AttemptsAreOfRuns'
           /\ RunsKnowTheirs'
BY DEF ClaimInv, OneClaimer, HandsAreGood, RunsAreOfCards, AttemptsAreOfRuns,
    RunsKnowTheirs, IsBeingAssigned, Runs, Attempts, threadVars

(* A card that ends a step outside progress, or was there before with its runs. *)
LEMMA CardsKeepWork ==
    ASSUME ClaimInv, UNCHANGED <<run, attempt, result>>,
           \A i \in Cards' : card'[i].active /\ card'[i].state = "in_progress" =>
               i \in Cards /\ card[i].active /\ card[i].state = "in_progress"
    PROVE  InProgressHasWork'
BY DEF ClaimInv, InProgressHasWork, Unfinished, Pending, Lost, Runs

(* A step of an attempt that is there changes no attempt's run, and no run's. *)
LEMMA AttemptStep ==
    ASSUME ClaimInv, NEW a \in Attempts, NEW s \in RunStatus \ {"none"}, SetRun(a, s),
           UNCHANGED threadVars, Cards' = Cards,
           Attempts' = Attempts, \A b \in Attempts : attempt'[b].run = attempt[b].run,
           \A b \in Attempts : b # a => attempt'[b].status = attempt[b].status,
           \A t \in Thread : pc[t] = "assign" => made[t] # a
    PROVE  /\ OneClaimer' /\ HandsAreGood' /\ RunsAreOfCards' /\ AttemptsAreOfRuns'
           /\ RunsKnowTheirs'
<1>1. Attempts \subseteq Attempt /\ Runs \subseteq Run
  BY DEF Attempts, Runs
<1>2. /\ Runs' = Runs
      /\ \A r \in Run : run'[r].card = run[r].card /\ run'[r].attempt = run[r].attempt
  BY <1>1, SetRunFacts DEF ClaimInv
<1>3. OneClaimer'
  BY DEF ClaimInv, OneClaimer, threadVars
<1>4. HandsAreGood'
  BY <1>1, <1>2 DEF ClaimInv, HandsAreGood, threadVars
<1>5. RunsAreOfCards'
  BY <1>1, <1>2 DEF ClaimInv, RunsAreOfCards
<1>6. AttemptsAreOfRuns'
  BY <1>1, <1>2 DEF ClaimInv, AttemptsAreOfRuns, IsBeingAssigned, threadVars
<1>7. RunsKnowTheirs'
  BY <1>1, <1>2 DEF ClaimInv, RunsKnowTheirs
<1> QED BY <1>3, <1>4, <1>5, <1>6, <1>7

(* A new run of a card, which nobody claims yet. *)
LEMMA NewRunStep ==
    ASSUME ClaimInv, NEW i \in Card, NEW r \in Run \ Runs,
           run' = [run EXCEPT ![r] = NewRun(i)], i \in Cards', Cards \subseteq Cards',
           UNCHANGED <<attempt, result, made>>,
           \A t \in Thread : \/ pc'[t] = pc[t] /\ hand'[t] = hand[t]
                             \/ pc'[t] = "idle" /\ pc[t] \notin ClaimPc
                             \/ /\ t # "cycle" /\ pc'[t] = "select" /\ hand'[t] = r
                                /\ \A u \in Thread : pc[u] \notin ClaimPc
                                /\ \A u \in Thread : u # t => pc'[u] = pc[u]
    PROVE  /\ OneClaimer' /\ HandsAreGood' /\ RunsAreOfCards' /\ AttemptsAreOfRuns'
           /\ RunsKnowTheirs'
           /\ Unfinished(r)' /\ r \in Runs' /\ run'[r].card = i
           /\ \A q \in Runs : q \in Runs' /\ run'[q] = run[q] /\ (Unfinished(q) => Unfinished(q)')
<1>1. Attempts' = Attempts /\ Runs \subseteq Run /\ Attempts \subseteq Attempt
  BY DEF Attempts, Runs
<1>2. /\ Runs' = Runs \cup {r} /\ run'[r] = NewRun(i)
      /\ \A q \in Run \ {r} : run'[q] = run[q]
  BY DEF ClaimInv, TypeOK, Runs, NewRun
<1>3. OneClaimer'
  BY DEF ClaimInv, OneClaimer, ClaimPc
<1>4. HandsAreGood'
  BY <1>1, <1>2 DEF ClaimInv, HandsAreGood, ClaimPc
<1>5. RunsAreOfCards'
  BY <1>1, <1>2 DEF ClaimInv, RunsAreOfCards, NewRun
<1>6. AttemptsAreOfRuns'
  BY <1>1, <1>2 DEF ClaimInv, AttemptsAreOfRuns, IsBeingAssigned, ClaimPc
<1>7. RunsKnowTheirs'
  BY <1>1, <1>2 DEF ClaimInv, RunsKnowTheirs, NewRun
<1>8. Unfinished(r)' /\ run'[r].card = i
  BY <1>2 DEF Unfinished, Pending, Lost, NewRun
<1>9. \A q \in Runs : q \in Runs' /\ run'[q] = run[q] /\ (Unfinished(q) => Unfinished(q)')
  BY <1>1, <1>2 DEF Unfinished, Pending, Lost
<1> QED BY <1>2, <1>3, <1>4, <1>5, <1>6, <1>7, <1>8, <1>9

(* Every step keeps the claims apart and the cards in progress at work. *)
LEMMA NextClaims == Claims /\ ClaimInv /\ [Next]_vars => ClaimInv'
<1> SUFFICES ASSUME Claims, ClaimInv, [Next]_vars PROVE ClaimInv'
  OBVIOUS
<1> DEFINE Rest == /\ OneClaimer /\ HandsAreGood /\ RunsAreOfCards /\ AttemptsAreOfRuns
                   /\ RunsKnowTheirs /\ InProgressHasWork
<1> SUFFICES Rest'
  BY NextTypes DEF ClaimInv
<1> USE SourceAssumption, ThreadAssumption
<1>t. /\ TypeOK /\ "cycle" \in Thread /\ Request \subseteq Thread
      /\ Cards \subseteq Card /\ Runs \subseteq Run /\ Attempts \subseteq Attempt
      /\ \A i \in Card : card[i] \in CardType
      /\ \A r \in Run : run[r] \in RunType
      /\ \A a \in Attempt : attempt[a] \in AttemptType
  BY DEF ClaimInv, TypeOK, Thread, Cards, Runs, Attempts
<1>r. \A a \in Attempts : attempt[a].run \in Runs /\ run[attempt[a].run].card \in Cards
  BY DEF ClaimInv, AttemptsAreOfRuns, RunsAreOfCards
<1>0. CASE UNCHANGED vars
  BY <1>0 DEF vars, threadVars, ClaimInv, OneClaimer, HandsAreGood, RunsAreOfCards,
      AttemptsAreOfRuns, RunsKnowTheirs, InProgressHasWork, IsBeingAssigned, Unfinished, Pending, Lost,
      Cards, Runs, Attempts
<1>1. ASSUME NEW i \in Card, Archive(i) PROVE Rest'
  <2>1. Cards' = Cards
    BY <1>1, <1>t DEF Archive, Cards, TypeOK
  <2>2. \A j \in Cards' : card'[j].active => card'[j] = card[j]
    BY <1>1, <1>t, <2>1 DEF Archive, TypeOK
  <2>3. InProgressHasWork'
    BY <1>1, <2>1, <2>2, CardsKeepWork DEF Archive
  <2> QED BY <1>1, <2>1, <2>3, CardStep DEF Archive
<1>2. ASSUME NEW i \in Card, NEW x \in CardState \ {"none"}, Move(i, x) PROVE Rest'
  <2>1. Cards' = Cards
    BY <1>2, <1>t DEF Move, Cards, TypeOK
  <2>2. CASE x = "in_progress"
    <3>1. PICK r \in Run \ Runs : run' = [run EXCEPT ![r] = NewRun(i)]
      BY <1>2, <2>2 DEF Move, NewId
    <3>2. i \in Cards' /\ UNCHANGED <<attempt, result, threadVars>>
      BY <1>2, <2>1 DEF Move
    <3>3. \A j \in Cards' : j # i => card'[j] = card[j]
      BY <1>2, <1>t DEF Move, TypeOK
    <3>4. /\ OneClaimer' /\ HandsAreGood' /\ RunsAreOfCards' /\ AttemptsAreOfRuns'
          /\ RunsKnowTheirs'
          /\ Unfinished(r)' /\ r \in Runs' /\ run'[r].card = i
          /\ \A q \in Runs : q \in Runs' /\ run'[q] = run[q] /\ (Unfinished(q) => Unfinished(q)')
      BY <2>1, <3>1, <3>2, NewRunStep DEF threadVars
    <3>5. InProgressHasWork'
      BY <2>1, <3>3, <3>4 DEF ClaimInv, InProgressHasWork
    <3> QED BY <3>4, <3>5
  <2>3. CASE x # "in_progress"
    <3>1. \A j \in Cards' : card'[j].state = "in_progress" => card'[j] = card[j]
      BY <1>2, <1>t, <2>1, <2>3 DEF Move, TypeOK, CardType
    <3>2. UNCHANGED <<run, attempt, result, threadVars>>
      BY <1>2, <2>3 DEF Move
    <3>3. InProgressHasWork'
      BY <2>1, <3>1, <3>2, CardsKeepWork
    <3> QED BY <2>1, <3>2, <3>3, CardStep
  <2> QED BY <2>2, <2>3
<1>3. ASSUME NEW a \in Attempt, Adjust(a) PROVE Rest'
  <2> DEFINE i == run[attempt[a].run].card
  <2>1. i \in Cards
    BY <1>3, <1>r DEF Adjust
  <2>2. Cards' = Cards /\ \A j \in Cards' : j # i => card'[j] = card[j]
    <3>1. card' = [card EXCEPT ![i] = [card[i] EXCEPT !.state = "in_progress"]]
      BY <1>3, <2>1, <1>t DEF Adjust, TypeOK
    <3>2. \A j \in Card : (card'[j].state # "none") = (card[j].state # "none")
      BY <3>1, <2>1, <1>t DEF TypeOK, CardType, Cards
    <3> QED BY <3>1, <3>2, <2>1, <1>t DEF Cards, TypeOK
  <2>3. PICK r \in Run \ Runs : run' = [run EXCEPT ![r] = NewRun(i)]
    BY <1>3 DEF Adjust, NewId
  <2>4. UNCHANGED <<attempt, result, threadVars>>
    BY <1>3 DEF Adjust
  <2>5. /\ OneClaimer' /\ HandsAreGood' /\ RunsAreOfCards' /\ AttemptsAreOfRuns'
        /\ RunsKnowTheirs'
        /\ Unfinished(r)' /\ r \in Runs' /\ run'[r].card = i
        /\ \A q \in Runs : q \in Runs' /\ run'[q] = run[q] /\ (Unfinished(q) => Unfinished(q)')
    <3> HIDE DEF i
    <3> QED BY <1>t, <2>1, <2>2, <2>3, <2>4, NewRunStep DEF threadVars
  <2>6. InProgressHasWork'
    BY <2>2, <2>5 DEF ClaimInv, InProgressHasWork
  <2> QED BY <2>5, <2>6
<1>4. ASSUME NEW a \in Attempt, RetryAction(a) PROVE Rest'
  <2>0. \A b \in Attempt : (attempt'[b].status # "none") = (attempt[b].status # "none")
    BY <1>4, <1>t DEF RetryAction, TypeOK, AttemptType
  <2>1. a \in Attempts /\ Attempts' = Attempts /\ Cards' = Cards
    BY <1>4, <2>0 DEF RetryAction, Attempts, Cards
  <2>2. \A t \in Thread : pc[t] = "assign" => made[t] # a
    BY <1>4 DEF RetryAction, ClaimInv, HandsAreGood
  <2>3. \A b \in Attempts : /\ attempt'[b].run = attempt[b].run
                            /\ b # a => attempt'[b] = attempt[b]
    BY <1>4, <1>t DEF RetryAction, TypeOK
  <2>4. SetRun(a, "running") /\ UNCHANGED threadVars
    BY <1>4 DEF RetryAction
  <2>5. /\ OneClaimer' /\ HandsAreGood' /\ RunsAreOfCards' /\ AttemptsAreOfRuns'
        /\ RunsKnowTheirs'
    BY <2>1, <2>2, <2>3, <2>4, AttemptStep DEF RunStatus
  <2>6. /\ Runs' = Runs
        /\ \A r \in Run : /\ run'[r].card = run[r].card /\ run'[r].attempt = run[r].attempt
                          /\ run[r].attempt # a => run'[r] = run[r]
    BY <1>t, <2>4, SetRunFacts DEF RunStatus
  <2>7. a # Nothing /\ attempt'[a].status = "running" /\ UNCHANGED <<card, result>>
    BY <1>4, <1>t, <2>1 DEF RetryAction, TypeOK
  <2>8. \A r \in Runs : Unfinished(r) => Unfinished(r)'
    BY <1>t, <2>3, <2>6, <2>7 DEF Unfinished, Pending, Lost, ClaimInv, RunsKnowTheirs
  <2>9. InProgressHasWork'
    BY <1>t, <2>1, <2>6, <2>7, <2>8 DEF ClaimInv, InProgressHasWork
  <2> QED BY <2>5, <2>9
<1>5. ASSUME NEW t \in Request, NEW s \in SourceItem, BeginActivate(t, s) PROVE Rest'
  <2>1. /\ UNCHANGED <<card, run, attempt, result, made>>
        /\ \A u \in Thread : /\ u # t => pc'[u] = pc[u] /\ hand'[u] = hand[u]
                             /\ u = t => pc'[u] = "insert" /\ hand'[u] = s
        /\ pc[t] = "idle"
    BY <1>5, <1>t DEF BeginActivate, TypeOK
  <2>2. Cards' = Cards /\ Runs' = Runs /\ Attempts' = Attempts
    BY <2>1 DEF Cards, Runs, Attempts
  <2>3. OneClaimer' /\ HandsAreGood' /\ RunsAreOfCards' /\ RunsKnowTheirs'
    BY <2>1, <2>2, <1>t DEF ClaimInv, OneClaimer, ClaimPc, HandsAreGood, RunsAreOfCards, RunsKnowTheirs
  <2>4. AttemptsAreOfRuns'
    BY <2>1, <2>2, <1>t DEF ClaimInv, AttemptsAreOfRuns, IsBeingAssigned
  <2>5. InProgressHasWork'
    BY <2>1, <2>2 DEF ClaimInv, InProgressHasWork, Unfinished, Pending, Lost
  <2> QED BY <2>3, <2>4, <2>5
<1>6. ASSUME NEW t \in Request, NEW q \in Repo, StartThread(t, q) PROVE Rest'
  <2>1. PICK i \in Card \ Cards, r \in Run \ Runs :
          /\ card' = [card EXCEPT ![i] =
               [state |-> "in_progress", active |-> TRUE, primary |-> Nothing,
                links |-> {}, repo |-> q]]
          /\ run' = [run EXCEPT ![r] = NewRun(i)]
          /\ hand' = [hand EXCEPT ![t] = r]
    BY <1>6 DEF StartThread, NewId
  <2>2. Cards' = Cards \cup {i} /\ \A j \in Cards : card'[j] = card[j]
    BY <2>1, <1>t DEF Cards, TypeOK
  <2>3. /\ UNCHANGED <<attempt, result, made>> /\ t # "cycle"
        /\ pc' = [pc EXCEPT ![t] = "select"] /\ \A u \in Thread : pc[u] \notin ClaimPc
    BY <1>6 DEF StartThread, Claims
  <2>4. \A u \in Thread : IF u = t THEN pc'[u] = "select" /\ hand'[u] = r
                                   ELSE pc'[u] = pc[u] /\ hand'[u] = hand[u]
    BY <2>1, <2>3, <1>t DEF TypeOK
  <2>5. /\ OneClaimer' /\ HandsAreGood' /\ RunsAreOfCards' /\ AttemptsAreOfRuns'
        /\ RunsKnowTheirs'
        /\ Unfinished(r)' /\ r \in Runs' /\ run'[r].card = i
        /\ \A p \in Runs : p \in Runs' /\ run'[p] = run[p] /\ (Unfinished(p) => Unfinished(p)')
    <3>1. \A u \in Thread :
            \/ pc'[u] = pc[u] /\ hand'[u] = hand[u]
            \/ pc'[u] = "idle" /\ pc[u] \notin ClaimPc
            \/ /\ u # "cycle" /\ pc'[u] = "select" /\ hand'[u] = r
               /\ \A v \in Thread : pc[v] \notin ClaimPc
               /\ \A v \in Thread : v # u => pc'[v] = pc[v]
      BY <2>3, <2>4
    <3>2. i \in Card /\ i \in Cards' /\ Cards \subseteq Cards'
      BY <2>2
    <3> QED BY <2>1, <2>3, <3>1, <3>2, NewRunStep
  <2>6. InProgressHasWork'
    BY <2>2, <2>5 DEF ClaimInv, InProgressHasWork
  <2> QED BY <2>5, <2>6
<1>7. ASSUME BeginClaims PROVE Rest'
  <2>1. /\ UNCHANGED <<card, run, attempt, result, hand, made>>
        /\ \A u \in Thread : pc'[u] = IF u = "cycle" THEN "select" ELSE pc[u]
        /\ pc["cycle"] = "idle" /\ \A u \in Request : pc[u] \notin ClaimPc
    BY <1>7, <1>t DEF BeginClaims, Claims, TypeOK
  <2> QED BY <2>1, <1>t DEF ClaimInv, OneClaimer, ClaimPc, HandsAreGood, RunsAreOfCards,
        AttemptsAreOfRuns, RunsKnowTheirs, InProgressHasWork, IsBeingAssigned, Unfinished, Pending, Lost,
        Cards, Runs, Attempts, Thread
<1>8. ASSUME NEW r \in Run, SelectNext(r) PROVE Rest'
  <2>1. /\ UNCHANGED <<card, run, attempt, result, made>>
        /\ \A u \in Thread : /\ u # "cycle" => pc'[u] = pc[u] /\ hand'[u] = hand[u]
                             /\ u = "cycle" => pc'[u] = "create" /\ hand'[u] = r
        /\ pc["cycle"] = "select"
    BY <1>8, <1>t DEF SelectNext, TypeOK
  <2>2. r \in Runs /\ run[r].attempt = Nothing
    BY <1>8 DEF SelectNext, Unblocked, Claimable, Runs
  <2>3. Cards' = Cards /\ Runs' = Runs /\ Attempts' = Attempts
    BY <2>1 DEF Cards, Runs, Attempts
  <2>4. OneClaimer' /\ HandsAreGood' /\ RunsAreOfCards' /\ RunsKnowTheirs'
    BY <2>1, <2>2, <2>3, <1>t DEF ClaimInv, OneClaimer, ClaimPc, HandsAreGood, RunsAreOfCards, RunsKnowTheirs
  <2>5. AttemptsAreOfRuns'
    BY <2>1, <2>3, <1>t DEF ClaimInv, AttemptsAreOfRuns, IsBeingAssigned
  <2>6. InProgressHasWork'
    BY <2>1, <2>3 DEF ClaimInv, InProgressHasWork, Unfinished, Pending, Lost
  <2> QED BY <2>4, <2>5, <2>6
<1>9. ASSUME EndClaims \/ EndCycle PROVE Rest'
  <2>1. /\ UNCHANGED <<card, run, attempt, result, hand, made>>
        /\ \A u \in Thread : u # "cycle" => pc'[u] = pc[u]
        /\ pc'["cycle"] \in {"start", "idle"} /\ pc["cycle"] \in {"select", "start"}
    BY <1>9, <1>t DEF EndClaims, EndCycle, TypeOK
  <2> QED BY <2>1, <1>t DEF ClaimInv, OneClaimer, ClaimPc, HandsAreGood, RunsAreOfCards,
        AttemptsAreOfRuns, RunsKnowTheirs, InProgressHasWork, IsBeingAssigned, Unfinished, Pending, Lost,
        Cards, Runs, Attempts
<1>10. ASSUME NEW t \in Request, SelectById(t) PROVE Rest'
  <2>1. /\ UNCHANGED <<card, run, attempt, result, made>>
        /\ \A u \in Thread : u # t => pc'[u] = pc[u] /\ hand'[u] = hand[u]
        /\ pc[t] = "select" /\ hand[t] \in Run
    BY <1>10, <1>t DEF SelectById, TypeOK, ClaimInv, HandsAreGood
  <2>2. \/ pc'[t] = "create" /\ hand'[t] \in Runs /\ run[hand'[t]].attempt = Nothing
        \/ pc'[t] = "idle"
    BY <1>10, <1>t, <2>1 DEF SelectById, TypeOK, Claimable, Runs
  <2>3. Cards' = Cards /\ Runs' = Runs /\ Attempts' = Attempts
    BY <2>1 DEF Cards, Runs, Attempts
  <2>4. OneClaimer' /\ HandsAreGood' /\ RunsAreOfCards' /\ RunsKnowTheirs'
    BY <2>1, <2>2, <2>3, <1>t DEF ClaimInv, OneClaimer, ClaimPc, HandsAreGood, RunsAreOfCards, RunsKnowTheirs
  <2>5. AttemptsAreOfRuns'
    BY <2>1, <2>2, <2>3, <1>t DEF ClaimInv, AttemptsAreOfRuns, IsBeingAssigned
  <2>6. InProgressHasWork'
    BY <2>1, <2>3 DEF ClaimInv, InProgressHasWork, Unfinished, Pending, Lost
  <2> QED BY <2>4, <2>5, <2>6
<1>11. ASSUME NEW t \in Thread, CreateAttempt(t) PROVE Rest'
  <2>1. PICK a \in Attempt \ Attempts :
          /\ attempt' = [attempt EXCEPT ![a] =
               [status |-> "queued", run |-> hand[t], retries |-> 0, by |-> "worker"]]
          /\ made' = [made EXCEPT ![t] = a]
    BY <1>11 DEF CreateAttempt, NewId
  <2>2. /\ UNCHANGED <<card, run, result, hand>> /\ pc[t] = "create"
        /\ \A u \in Thread : IF u = t THEN pc'[u] = "assign" /\ made'[u] = a
                                      ELSE pc'[u] = pc[u] /\ made'[u] = made[u]
    BY <1>11, <2>1, <1>t DEF CreateAttempt, TypeOK
  <2>3. /\ Attempts' = Attempts \cup {a} /\ \A b \in Attempts : attempt'[b] = attempt[b]
        /\ attempt'[a].run = hand[t] /\ attempt'[a].status = "queued"
    BY <2>1, <1>t DEF Attempts, TypeOK
  <2>4. Cards' = Cards /\ Runs' = Runs
    BY <2>2 DEF Cards, Runs
  <2>5. hand[t] \in Runs /\ run[hand[t]].attempt = Nothing
    BY <2>2 DEF ClaimInv, HandsAreGood
  <2>6. OneClaimer'
    BY <2>2 DEF ClaimInv, OneClaimer, ClaimPc
  <2>7. HandsAreGood'
    BY <2>2, <2>3, <2>4, <2>5 DEF ClaimInv, HandsAreGood, OneClaimer, ClaimPc
  <2>8. RunsAreOfCards' /\ RunsKnowTheirs'
    BY <2>2, <2>3, <2>4 DEF ClaimInv, RunsAreOfCards, RunsKnowTheirs
  <2>9. AttemptsAreOfRuns'
    BY <2>2, <2>3, <2>4, <2>5 DEF ClaimInv, AttemptsAreOfRuns, IsBeingAssigned
  <2>10. InProgressHasWork'
    BY <2>2, <2>3, <2>4 DEF ClaimInv, InProgressHasWork, Unfinished, Pending, Lost, RunsKnowTheirs
  <2> QED BY <2>6, <2>7, <2>8, <2>9, <2>10
<1>12. ASSUME NEW t \in Thread, AssignRun(t) PROVE Rest'
  <2>1. PICK r \in Runs, a \in Attempts :
          /\ r = hand[t] /\ run[r].attempt = Nothing /\ pc[t] = "assign"
          /\ a = made[t] /\ attempt[a].run = r /\ attempt[a].status = "queued"
    BY <1>12 DEF AssignRun, ClaimInv, HandsAreGood
  <2>2. a # Nothing /\ run[r].card \in Cards
    BY <2>1, <1>r, <1>t
  <2>3. /\ Runs' = Runs /\ run'[r].attempt = a /\ run'[r].card = run[r].card
        /\ \A q \in Run : q # r => run'[q] = run[q]
    <3>1. run' = [run EXCEPT ![r] = [run[r] EXCEPT !.attempt = a]]
      BY <1>12, <2>1, <1>t DEF AssignRun, TypeOK
    <3>2. \A q \in Run : (run'[q].status # "none") = (run[q].status # "none")
      BY <3>1, <1>t DEF TypeOK, RunType
    <3>3. Runs' = Runs
      BY <3>2 DEF Runs
    <3> QED BY <2>1, <3>1, <3>3, <1>t DEF TypeOK, RunType
  <2>4. Cards' = Cards /\ \A j \in Cards : j # run[r].card => card'[j] = card[j]
    <3>1. card' = [card EXCEPT ![run[r].card] = [card[run[r].card] EXCEPT !.state = "in_progress"]]
      BY <1>12, <2>1, <1>t, <2>2 DEF AssignRun, TypeOK
    <3>2. \A j \in Card : (card'[j].state # "none") = (card[j].state # "none")
      BY <3>1, <2>2, <1>t DEF TypeOK, CardType, Cards
    <3> QED BY <3>1, <3>2, <2>2, <1>t DEF Cards, TypeOK
  <2>5. /\ UNCHANGED <<attempt, result>> /\ Attempts' = Attempts
        /\ pc'[t] \in {"select", "idle"} /\ (t # "cycle" => pc'[t] = "idle")
        /\ \A u \in Thread : u # t => pc'[u] = pc[u] /\ hand'[u] = hand[u] /\ made'[u] = made[u]
    BY <1>12, <1>t DEF AssignRun, TypeOK, Attempts
  <2>6. \A u \in Thread : u # t => pc[u] \notin ClaimPc
    BY <2>1 DEF ClaimInv, OneClaimer, ClaimPc
  <2>7. OneClaimer'
    BY <2>5, <2>6 DEF OneClaimer
  <2>8. HandsAreGood'
    BY <2>5, <2>6 DEF ClaimInv, HandsAreGood, ClaimPc
  <2>9. RunsAreOfCards' /\ RunsKnowTheirs'
    BY <2>1, <2>3, <2>4, <2>5, <1>t DEF ClaimInv, RunsAreOfCards, RunsKnowTheirs
  <2>10. AttemptsAreOfRuns'
    <3> SUFFICES ASSUME NEW b \in Attempts
                 PROVE  attempt[b].run \in Runs /\ run'[attempt[b].run].attempt = b
      BY <2>3, <2>5 DEF AttemptsAreOfRuns
    <3>1. CASE attempt[b].run = r
      <4>1. IsBeingAssigned(b)
        BY <3>1, <2>1, <2>2, <1>t DEF ClaimInv, AttemptsAreOfRuns
      <4>2. b = a
        BY <4>1, <2>1, <2>6 DEF IsBeingAssigned, ClaimPc
      <4> QED BY <3>1, <4>2, <2>1, <2>3
    <3>2. CASE attempt[b].run # r
      <4>1. ~IsBeingAssigned(b)
        BY <3>2, <2>1, <2>6 DEF IsBeingAssigned, ClaimPc
      <4> QED BY <3>2, <4>1, <2>3, <1>t DEF ClaimInv, AttemptsAreOfRuns
    <3> QED BY <3>1, <3>2
  <2>11. Unfinished(r)' /\ \A q \in Runs : Unfinished(q) => Unfinished(q)'
    BY <2>1, <2>2, <2>3, <2>5, <1>t DEF Unfinished, Pending, Lost
  <2>12. InProgressHasWork'
    BY <2>1, <2>3, <2>4, <2>11, <1>t DEF ClaimInv, InProgressHasWork
  <2> QED BY <2>7, <2>8, <2>9, <2>10, <2>12
<1>13. ASSUME NEW t \in Request, InsertCard(t) PROVE Rest'
  <2>1. PICK i \in Card \ Cards, r \in Run \ Runs :
          /\ card' = [card EXCEPT ![i] =
               [state |-> "todo", active |-> TRUE, primary |-> hand[t],
                links |-> {hand[t]} \cup LinkedPRs[hand[t]], repo |-> RepoOf[hand[t]]]]
          /\ run' = [run EXCEPT ![r] = NewRun(i)]
    BY <1>13 DEF InsertCard, NewId
  <2>2. /\ Cards' = Cards \cup {i} /\ \A j \in Cards : card'[j] = card[j]
        /\ card'[i].state = "todo"
    BY <2>1, <1>t DEF Cards, TypeOK
  <2>3. /\ UNCHANGED <<attempt, result, made>>
        /\ \A u \in Thread : IF u = t THEN pc'[u] = "idle" /\ pc[u] = "insert"
                                      ELSE pc'[u] = pc[u] /\ hand'[u] = hand[u]
    BY <1>13, <1>t DEF InsertCard, TypeOK
  <2>4. \A u \in Thread :
            \/ pc'[u] = pc[u] /\ hand'[u] = hand[u]
            \/ pc'[u] = "idle" /\ pc[u] \notin ClaimPc
    BY <2>3 DEF ClaimPc
  <2>5. /\ OneClaimer' /\ HandsAreGood' /\ RunsAreOfCards' /\ AttemptsAreOfRuns'
        /\ RunsKnowTheirs'
        /\ \A p \in Runs : p \in Runs' /\ run'[p] = run[p] /\ (Unfinished(p) => Unfinished(p)')
    <3>1. i \in Card /\ i \in Cards' /\ Cards \subseteq Cards'
      BY <2>2
    <3> QED BY <2>1, <2>3, <2>4, <3>1, NewRunStep
  <2>6. InProgressHasWork'
    BY <2>2, <2>5 DEF ClaimInv, InProgressHasWork
  <2> QED BY <2>5, <2>6
<1>14. ASSUME NEW a \in Attempt, StartAttempt(a) \/ Requeue(a) PROVE Rest'
  <2>0. PICK s \in {"running", "queued"} :
          /\ SetRun(a, s) /\ attempt'[a].status = s /\ attempt'[a].run = attempt[a].run
          /\ attempt[a].status # "none" /\ \A b \in Attempt : b # a => attempt'[b] = attempt[b]
          /\ UNCHANGED <<card, result, threadVars>>
    BY <1>14, <1>t DEF StartAttempt, Requeue, TypeOK, AttemptType
  <2>1. a \in Attempts /\ Attempts' = Attempts /\ Cards' = Cards
    BY <2>0 DEF Attempts, Cards
  <2>2. \A t \in Thread : pc[t] = "assign" => made[t] # a
    <3>1. CASE Requeue(a)
      BY <3>1 DEF Requeue, ClaimInv, HandsAreGood
    <3>2. CASE StartAttempt(a)
      BY <3>2 DEF StartAttempt, Claims, ClaimPc, Thread
    <3> QED BY <1>14, <3>1, <3>2
  <2>3. /\ OneClaimer' /\ HandsAreGood' /\ RunsAreOfCards' /\ AttemptsAreOfRuns'
        /\ RunsKnowTheirs'
    BY <2>0, <2>1, <2>2, AttemptStep DEF RunStatus, Attempts
  <2>4. /\ Runs' = Runs
        /\ \A r \in Run : /\ run'[r].card = run[r].card /\ run'[r].attempt = run[r].attempt
                          /\ run[r].attempt # a => run'[r] = run[r]
    BY <1>t, <2>0, SetRunFacts DEF RunStatus
  <2>5. a # Nothing
    OBVIOUS
  <2>6. \A r \in Runs : Unfinished(r) => Unfinished(r)'
    BY <1>t, <2>0, <2>4, <2>5 DEF Unfinished, Pending, Lost, ClaimInv, RunsKnowTheirs
  <2>7. InProgressHasWork'
    BY <1>t, <2>0, <2>1, <2>4, <2>6 DEF ClaimInv, InProgressHasWork
  <2> QED BY <2>3, <2>7
<1>15. ASSUME NEW a \in Attempt, NEW s \in Settled, FinishAttempt(a, s) PROVE Rest'
  <2>0. /\ attempt'[a].run = attempt[a].run /\ attempt[a].status = "running"
        /\ attempt'[a].status = s /\ result'[a] = s
        /\ \A b \in Attempt : b # a => attempt'[b] = attempt[b] /\ result'[b] = result[b]
        /\ UNCHANGED <<card, run, threadVars>>
    BY <1>15, <1>t DEF FinishAttempt, TypeOK, AttemptType
  <2>1. Attempts' = Attempts /\ Cards' = Cards /\ Runs' = Runs
    BY <2>0 DEF Attempts, Cards, Runs, Settled
  <2>2. \A b \in Attempts : attempt'[b].run = attempt[b].run
    BY <2>0, <1>t
  <2>3. OneClaimer' /\ RunsAreOfCards' /\ RunsKnowTheirs'
    BY <2>0, <2>1 DEF ClaimInv, OneClaimer, RunsAreOfCards, RunsKnowTheirs, threadVars
  <2>4. HandsAreGood'
    BY <2>0, <2>1, <2>2, <1>t DEF ClaimInv, HandsAreGood, threadVars
  <2>5. AttemptsAreOfRuns'
    BY <2>0, <2>1, <2>2 DEF ClaimInv, AttemptsAreOfRuns, IsBeingAssigned, threadVars
  <2>6. \A r \in Runs : Unfinished(r) => Unfinished(r)'
    BY <2>0, <1>t DEF Unfinished, Pending, Lost, ClaimInv, RunsKnowTheirs, Settled
  <2>7. InProgressHasWork'
    BY <2>0, <2>1, <2>6 DEF ClaimInv, InProgressHasWork
  <2> QED BY <2>3, <2>4, <2>5, <2>7
<1>16. ASSUME NEW a \in Attempt, FinishRun(a) PROVE Rest'
  <2> DEFINE s == RunStatusFor(result[a])
  <2>1. SetRun(a, s) /\ s \in RunStatus \ {"none"} /\ UNCHANGED <<attempt, threadVars>>
    BY <1>16 DEF FinishRun, RunStatusFor, Settled, RunStatus
  <2>2. /\ Runs' = Runs
        /\ \A r \in Run : /\ run'[r].card = run[r].card /\ run'[r].attempt = run[r].attempt
                          /\ run[r].attempt # a => run'[r] = run[r]
    <3> HIDE DEF s
    <3> QED BY <1>t, <2>1, SetRunFacts
  <2>3. /\ \A i \in Card : card'[i] = card[i] \/
             (card'[i].state \in {"done", "in_review"} /\ card'[i].active = card[i].active)
        /\ \A i \in Card : card'[i].state = "in_progress" =>
             \A r \in Runs : run[r].card = i => run[r].attempt # a
    BY <1>16, <1>t DEF FinishRun, CardType
  <2>4. Cards \subseteq Cards'
    BY <2>3, <1>t DEF Cards
  <2>5. \A i \in Card : card'[i].state # "none" => i \in Cards \/ card'[i] # card[i]
    BY DEF Cards
  <2>6. \A i \in Card : card'[i] # card[i] => \E r \in Runs : run[r].card = i
    BY <1>16, <1>t DEF FinishRun
  <2>7. Cards' = Cards
    BY <2>4, <2>5, <2>6, <1>t DEF Cards, ClaimInv, RunsAreOfCards
  <2>8. OneClaimer' /\ RunsAreOfCards' /\ RunsKnowTheirs'
    BY <2>1, <2>2, <2>7, <1>t DEF ClaimInv, OneClaimer, RunsAreOfCards, RunsKnowTheirs, threadVars,
        Attempts
  <2>9. HandsAreGood'
    BY <2>1, <2>2, <1>t DEF ClaimInv, HandsAreGood, threadVars, Attempts
  <2>10. AttemptsAreOfRuns'
    BY <2>1, <2>2, <1>t DEF ClaimInv, AttemptsAreOfRuns, IsBeingAssigned, threadVars, Attempts
  <2>11. \A b \in Attempt : b # a => result'[b] = result[b]
    BY <1>16, <1>t DEF FinishRun, TypeOK
  <2>12. \A r \in Runs : Unfinished(r) /\ run[r].attempt # a => Unfinished(r)'
    BY <2>1, <2>2, <2>11, <1>t DEF Unfinished, Pending, Lost, ClaimInv, RunsKnowTheirs
  <2>13. InProgressHasWork'
    BY <2>2, <2>3, <2>7, <2>12, <1>t DEF ClaimInv, InProgressHasWork
  <2> QED BY <2>8, <2>9, <2>10, <2>13
<1>17. ASSUME NEW i \in Card, AutoComplete(i) PROVE Rest'
  <2>1. Cards' = Cards
    BY <1>17, <1>t DEF AutoComplete, Cards, TypeOK
  <2>2. \A j \in Cards' : card'[j].state = "in_progress" => card'[j] = card[j]
    BY <1>17, <1>t, <2>1 DEF AutoComplete, TypeOK
  <2>3. InProgressHasWork'
    BY <1>17, <2>1, <2>2, CardsKeepWork DEF AutoComplete
  <2> QED BY <1>17, <2>1, <2>3, CardStep DEF AutoComplete
<1>18. ASSUME NEW a \in Attempt, MarkMerged(a) PROVE Rest'
  <2>0. PICK i \in Cards : card' = [card EXCEPT ![i] = [card[i] EXCEPT !.state = "done"]]
    BY <1>18, <1>r, <1>t DEF MarkMerged, TypeOK
  <2>1. Cards' = Cards
    BY <2>0, <1>t DEF Cards, TypeOK
  <2>2. \A j \in Cards' : card'[j].state = "in_progress" => card'[j] = card[j]
    BY <2>0, <1>t, <2>1 DEF TypeOK
  <2>3. InProgressHasWork'
    BY <1>18, <2>1, <2>2, CardsKeepWork DEF MarkMerged
  <2> QED BY <1>18, <2>1, <2>3, CardStep DEF MarkMerged
<1>19. CASE Crash
  <2>1. \A t \in Thread : pc'[t] = "idle" /\ pc[t] # "assign"
    BY <1>19 DEF Crash, Claims
  <2>2. UNCHANGED <<card, run, result>>
    BY <1>19 DEF Crash
  <2>3. \A a \in Attempt :
          /\ attempt'[a].status = attempt[a].status
          /\ attempt'[a].run = attempt[a].run
          /\ attempt'[a].by = attempt[a].by \/ attempt'[a].by = "nobody"
    BY <1>19, <1>t DEF Crash, AttemptType
  <2>4. Attempts' = Attempts /\ Runs' = Runs /\ Cards' = Cards
    BY <2>2, <2>3 DEF Attempts, Runs, Cards
  <2>5. \A r \in Runs : Unfinished(r) => Unfinished(r)'
    BY <1>t, <2>2, <2>3 DEF Unfinished, Pending, Lost, ClaimInv, RunsKnowTheirs, Runs, RunType
  <2>6. InProgressHasWork'
    BY <2>2, <2>4, <2>5 DEF ClaimInv, InProgressHasWork
  <2>7. RunsKnowTheirs' /\ AttemptsAreOfRuns'
    BY <1>t, <2>1, <2>2, <2>3, <2>4 DEF ClaimInv, RunsKnowTheirs, AttemptsAreOfRuns, IsBeingAssigned,
        Runs, Attempts, RunType
  <2> QED BY <2>1, <2>2, <2>4, <2>6, <2>7 DEF ClaimInv, OneClaimer, ClaimPc, HandsAreGood, RunsAreOfCards
<1> HIDE DEF Rest
<1> QED
  BY <1>0, <1>1, <1>2, <1>3, <1>4, <1>5, <1>6, <1>7, <1>8, <1>9, <1>10, <1>11, <1>12,
     <1>13, <1>14, <1>15, <1>16, <1>17, <1>18, <1>19, <1>t
  DEF Next, UserStep, CycleStep, ClaimStep, WorkerStep

(***************************************************************************)
(* Theorems                                                                *)
(***************************************************************************)

(* As long as requests and claims do not overlap and no server dies inside *)
(* a claim, every variable keeps its type, and the claim's invariant holds.*)
THEOREM TypesAreKept == ASSUME Claims PROVE Spec => []TypeOK
<1>1. Init => ClaimInv
  BY InitClaims
<1>2. ClaimInv /\ [Next]_vars => ClaimInv'
  BY NextClaims
<1>3. ClaimInv => TypeOK
  BY DEF ClaimInv
<1> QED BY <1>1, <1>2, <1>3, PTL DEF Spec

(* Under the same assumptions a run never has two attempts: neither reruns *)
(* and adjustments of its card nor retries, requeues and deaths of the     *)
(* server between claims make the code create a second one (assign_run_    *)
(* attempt, claim_available).                                              *)
THEOREM RunsHaveOneAttempt == ASSUME Claims PROVE Spec => []OneAttemptPerRun
<1>1. Init => ClaimInv
  BY InitClaims
<1>2. ClaimInv /\ [Next]_vars => ClaimInv'
  BY NextClaims
<1>3. ClaimInv => OneAttemptPerRun
  BY RunsHaveOne
<1> QED BY <1>1, <1>2, <1>3, PTL DEF Spec

(* Under the same assumptions a card in progress on the board always has a *)
(* run that is waiting, at work, or about to move it on (move_work_item,   *)
(* request_adjustment, finish_attempt_run).                                *)
THEOREM CardsInProgressHaveWork == ASSUME Claims PROVE Spec => []InProgressHasWork
<1>1. Init => ClaimInv
  BY InitClaims
<1>2. ClaimInv /\ [Next]_vars => ClaimInv'
  BY NextClaims
<1>3. ClaimInv => InProgressHasWork
  BY DEF ClaimInv
<1> QED BY <1>1, <1>2, <1>3, PTL DEF Spec
=============================================================================
