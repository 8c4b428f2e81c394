---------------------- MODULE WorkflowVersionsProofs ----------------------
(***************************************************************************)
(* Proofs about WorkflowVersions: its types, that what the cycle and the   *)
(* workers stamp is what they ran, and where instances can stand.          *)
(***************************************************************************)
EXTENDS WorkflowVersions, TLAPS

(***************************************************************************)
(* The invariant                                                           *)
(***************************************************************************)

(* The version a process believes its definition to be is the row that holds it. *)
Genuine(rows, loaded) == loaded.version \in DOMAIN rows /\ rows[loaded.version] = loaded.content

CycleIsLoaded == phase # "load" => watcher \in Loaded /\ Genuine(versions, watcher)
LoadedIsGenuine ==
    /\ watcher # Nothing => Genuine(versions, watcher)
    /\ \A a \in Attempt : worker[a].stage = "running" => Genuine(versions, worker[a].using)

LastType == [by : {"web", "cycle", "worker"}, version : Nat, content : Valid]
StampIsGenuine ==
    last # Nothing =>
        /\ last \in LastType
        /\ last.by # "web" => Genuine(versions, last)

StampInv == TypeOK /\ CycleIsLoaded /\ LoadedIsGenuine /\ StampIsGenuine

(***************************************************************************)
(* Definitions                                                             *)
(***************************************************************************)

(* The states of a transition of an accepted definition are states of it. *)
LEMMA AcceptedTransition ==
    ASSUME NEW c \in Valid, NEW m \in Names(Definition[c])
    PROVE  /\ Definition[c].transitions[m].from \in States(Definition[c])
           /\ Definition[c].transitions[m].to \in States(Definition[c])
<1> DEFINE def == Definition[c]
           t == def.transitions[m]
<1>1. Errors(def) = {}
  BY DEF Valid, Accepts
<1>2. States(def) # {}
  BY <1>1 DEF Errors
<1>3. TransitionErrors(def, m) = {}
  <2>1. UNION {TransitionErrors(def, n) : n \in Names(def)} \subseteq Errors(def)
    BY <1>2 DEF Errors
  <2> QED BY <1>1, <2>1
<1>4. ASSUME t.from \notin States(def) PROVE FALSE
  <2>1. <<m, "from">> \in TransitionErrors(def, m)
    BY <1>4 DEF TransitionErrors
  <2> QED BY <1>3, <2>1
<1>5. ASSUME t.to \notin States(def) PROVE FALSE
  <2>1. <<m, "to">> \in TransitionErrors(def, m)
    BY <1>5 DEF TransitionErrors
  <2> QED BY <1>3, <2>1
<1> QED BY <1>4, <1>5

(* The state a new instance enters is one of a definition, or the default. *)
LEMMA EntryIsAState == \A c \in Valid : EntryState(Definition[c]) \in StateName
BY AcceptedTransition DEF EntryState, StateName

(* The rows there are keep what they hold when one is added. *)
OnlyAdded == UNCHANGED versions \/ \E c \in Valid : versions' = Append(versions, c)
LEMMA GenuineStays ==
    ASSUME TypeOK, OnlyAdded
    PROVE  /\ versions' \in Seq(Valid)
           /\ \A l : Genuine(versions, l) => Genuine(versions', l)
<1>1. CASE UNCHANGED versions
  BY <1>1 DEF Genuine, TypeOK
<1>2. CASE \E c \in Valid : versions' = Append(versions, c)
  BY <1>2 DEF Genuine, TypeOK
<1> QED BY <1>1, <1>2 DEF OnlyAdded

(***************************************************************************)
(* Steps                                                                   *)
(***************************************************************************)

(* What the processes hold has its type, and the rows hold it. *)
Held ==
    /\ phase \in {"load", "reconcile", "advance", "claim", "start"}
    /\ watcher \in Loaded \cup {Nothing} /\ web \in Loaded
    /\ worker \in [Attempt -> WorkerState]
    /\ CycleIsLoaded /\ LoadedIsGenuine

(* A process that takes over a row's definition holds what the row holds. *)
LEMMA HoldsKeeps ==
    ASSUME TypeOK, Held, OnlyAdded, NEW p, NEW content \in Valid, NEW id \in DOMAIN versions',
           versions'[id] = content, Holds(p, content, id)
    PROVE  Held'
<1> DEFINE loaded == [content |-> content, version |-> id]
<1>1. loaded \in Loaded /\ Genuine(versions', loaded)
  BY GenuineStays DEF Loaded, Genuine
<1>2. \A l : Genuine(versions, l) => Genuine(versions', l)
  BY GenuineStays
<1>3. /\ watcher' = IF p = "cycle" THEN loaded ELSE watcher
      /\ phase' = IF p = "cycle" THEN "reconcile" ELSE phase
      /\ web' = IF p = "web" THEN loaded ELSE web
      /\ worker' = IF p \in Attempt THEN [worker EXCEPT ![p] = [stage |-> "running", using |-> loaded]] ELSE worker
  BY DEF Holds
<1> HIDE DEF loaded
<1>4. [stage |-> "running", using |-> loaded] \in WorkerState
  BY <1>1 DEF WorkerState
<1>5. worker' \in [Attempt -> WorkerState]
  BY <1>3, <1>4 DEF Held
<1>6. \A a \in Attempt : worker'[a] = worker[a] \/ worker'[a].using = loaded
  BY <1>3 DEF Held
<1>7. LoadedIsGenuine'
  BY <1>1, <1>2, <1>3, <1>6 DEF LoadedIsGenuine, Held
<1>8. watcher' \in Loaded \cup {Nothing} /\ web' \in Loaded /\ CycleIsLoaded'
      /\ phase' \in {"load", "reconcile", "advance", "claim", "start"}
  BY <1>1, <1>2, <1>3 DEF Held, CycleIsLoaded
<1> QED BY <1>5, <1>7, <1>8 DEF Held

(* A process that records the file's content takes a row that holds it, or is about to insert one. *)
LEMMA RecordKeeps ==
    ASSUME TypeOK, Held, NEW p \in Process, file \in Valid, Record(p, file), UNCHANGED versions
    PROVE  Held' /\ saving' \in [Process -> Valid \cup {Nothing}]
<1>1. CASE Rows(file) # {}
  <2>1. PICK id \in Rows(file) : Holds(p, file, id) /\ UNCHANGED saving
    BY <1>1 DEF Record
  <2>2. id \in DOMAIN versions' /\ versions'[id] = file
    BY DEF Rows
  <2> QED BY <2>1, <2>2, HoldsKeeps DEF OnlyAdded, TypeOK
<1>2. CASE Rows(file) = {}
  <2>1. saving' = [saving EXCEPT ![p] = file] /\ UNCHANGED <<watcher, phase, web, worker>>
    BY <1>2 DEF Record
  <2> QED BY <2>1 DEF TypeOK, Held, CycleIsLoaded, LoadedIsGenuine
<1> QED BY <1>1, <1>2

(* What a transition makes of an instance, and how the step is stamped. *)
MovedBy(a, by, using) ==
    \E m \in Names(Definition[using.content]) :
        LET def == Definition[using.content]
            to == def.transitions[m].to IN
        /\ attempts' = [attempts EXCEPT ![a].state = to, ![a].active = to \notin def.terminals]
        /\ Stamp(by, using)

Row == [status : Status, state : StateName, active : BOOLEAN, version : Nat, retries : 0..RetryLimit]
AttemptTypes == attempts \in [Attempt -> Row]
CountTypes == counts \in [edits : 0..MaxEdits, crashes : 0..MaxCrashes, restarts : 0..MaxRestarts]

(* Assignments to an attempt's fields. *)
LEMMA RowUpdates ==
    ASSUME NEW row \in Row
    PROVE  /\ \A s \in Status : [row EXCEPT !.status = s] \in Row
           /\ \A s \in StateName : [row EXCEPT !.state = s] \in Row
           /\ \A b \in BOOLEAN : [row EXCEPT !.active = b] \in Row
           /\ \A n \in Nat : [row EXCEPT !.version = n] \in Row
           /\ row.retries < RetryLimit => [row EXCEPT !.retries = @ + 1] \in Row
           /\ row.status \in Status /\ row.active \in BOOLEAN
BY BoundsAssumption DEF Row

(* The instance stays in the states of accepted definitions, and the stamp is genuine. *)
LEMMA MoveKeeps ==
    ASSUME TypeOK, StampIsGenuine, UNCHANGED versions, NEW a \in Attempt,
           NEW by \in {"web", "cycle", "worker"}, NEW using \in Loaded,
           by # "web" => Genuine(versions, using), MovedBy(a, by, using)
    PROVE  AttemptTypes' /\ StampIsGenuine'
<1> DEFINE def == Definition[using.content]
<1>1. PICK m \in Names(def) :
        LET to == def.transitions[m].to IN
        /\ attempts' = [attempts EXCEPT ![a].state = to, ![a].active = to \notin def.terminals]
        /\ last' = [by |-> by, version |-> using.version, content |-> using.content]
  BY DEF MovedBy, Stamp
<1> DEFINE to == def.transitions[m].to
<1>2. using.content \in Valid /\ using.version \in Nat
  BY DEF Loaded
<1>3. to \in States(def) /\ to \in StateName
  BY <1>2, AcceptedTransition DEF StateName
<1>4. AttemptTypes'
  <2>1. (to \notin def.terminals) \in BOOLEAN
    OBVIOUS
  <2> HIDE DEF to, def
  <2>2. attempts \in [Attempt -> Row] /\ attempts[a] \in Row
    BY DEF TypeOK, Row
  <2>3. [attempts[a] EXCEPT !.state = to, !.active = to \notin def.terminals] \in Row
    BY <1>3, <2>1, <2>2 DEF Row
  <2> QED BY <1>1, <2>2, <2>3 DEF AttemptTypes, to
<1>5. StampIsGenuine'
  <2>1. last' \in LastType
    BY <1>1, <1>2 DEF LastType
  <2>2. last'.by # "web" => Genuine(versions', last')
    BY <1>1 DEF Genuine
  <2> QED BY <2>1, <2>2 DEF StampIsGenuine
<1> QED BY <1>4, <1>5

(* Gates that are opened are transitions of the definition at hand. *)
Opened(a, using) ==
    gates' = gates \/ \E ms \in SUBSET Names(Definition[using.content]) : gates' = [gates EXCEPT ![a] = @ \cup ms]
GateTypes == gates \in [Attempt -> SUBSET UNION {Names(Definition[c]) : c \in Valid}]
LEMMA GatesKeep ==
    ASSUME TypeOK, NEW a \in Attempt, NEW using \in Loaded, Opened(a, using)
    PROVE  GateTypes'
<1>1. using.content \in Valid
  BY DEF Loaded
<1>2. gates \in [Attempt -> SUBSET UNION {Names(Definition[c]) : c \in Valid}]
  BY DEF TypeOK
<1> QED BY <1>1, <1>2 DEF Opened, GateTypes

(* A step moves along a transition of the definition at hand, or ends and opens gates. *)
LEMMA OpensGates ==
    ASSUME NEW a \in Attempt, NEW using, NEW allowed, StepEnds(a, using, allowed)
    PROVE  Opened(a, using) /\ UNCHANGED last
<1>1. Opens(a, using) \in SUBSET Names(Definition[using.content])
  BY DEF Opens, Out
<1>2. gates' = [gates EXCEPT ![a] = @ \cup Opens(a, using)] /\ UNCHANGED last
  BY DEF StepEnds
<1> QED BY <1>1, <1>2 DEF Opened

LEMMA MovesBy ==
    ASSUME NEW a \in Attempt, NEW by, NEW using, NEW allowed, StepMoves(a, by, using, allowed)
    PROVE  MovedBy(a, by, using) /\ UNCHANGED <<gates, worker, phase, todo, deciding>>
<1> DEFINE def == Definition[using.content]
           auto == Out(def, attempts[a].state, FALSE)
           m == CHOOSE n \in auto : TRUE
<1>1. auto # {}
  BY DEF StepMoves, StopReason
<1>2. m \in Names(def)
  BY <1>1 DEF Out
<1> QED BY <1>2 DEF StepMoves, MovedBy, Stamp

(* The status, or the failure, of an attempt. *)
LEMMA OutcomeKeeps ==
    ASSUME AttemptTypes, NEW a \in Attempt,
           \/ UNCHANGED attempts
           \/ \E s \in Status : attempts' = [attempts EXCEPT ![a].status = s]
           \/ attempts' = [attempts EXCEPT ![a].state = "failed", ![a].active = FALSE]
           \/ attempts' = Failed(a)
    PROVE  AttemptTypes'
<1>1. attempts \in [Attempt -> Row] /\ attempts[a] \in Row /\ "failed" \in Status /\ "failed" \in StateName
  BY DEF AttemptTypes, Status, StateName
<1>2. [attempts[a] EXCEPT !.state = "failed", !.active = FALSE] \in Row
  BY <1>1 DEF Row
<1>3. [attempts[a] EXCEPT !.state = "failed", !.active = FALSE, !.status = "failed"] \in Row
  BY <1>1 DEF Row
<1>4. CASE UNCHANGED attempts
  BY <1>4, <1>1 DEF AttemptTypes
<1>5. CASE \E s \in Status : attempts' = [attempts EXCEPT ![a].status = s]
  BY <1>5, <1>1, RowUpdates DEF AttemptTypes
<1>6. CASE attempts' = [attempts EXCEPT ![a].state = "failed", ![a].active = FALSE]
  BY <1>6, <1>1, <1>2 DEF AttemptTypes
<1>7. CASE attempts' = Failed(a)
  BY <1>7, <1>1, <1>3 DEF AttemptTypes, Failed
<1> QED BY <1>4, <1>5, <1>6, <1>7

(* A step that records nothing of who moved leaves the last stamp as good as it was. *)
LEMMA StampStays ==
    ASSUME TypeOK, StampIsGenuine, OnlyAdded, UNCHANGED last
    PROVE  StampIsGenuine'
BY GenuineStays DEF StampIsGenuine

(* The initial state satisfies the invariant. *)
LEMMA InitStamp == Init => StampInv
<1> SUFFICES ASSUME Init PROVE StampInv
  OBVIOUS
<1> USE BoundsAssumption, ContentAssumption
<1>1. file \in Valid /\ file \in Content /\ versions \in Seq(Valid)
  <2>1. file \in Valid /\ versions = <<file>>
    BY DEF Init
  <2>2. file \in Content
    BY <2>1 DEF Valid
  <2> QED BY <2>1, <2>2
<1>2. web \in Loaded
  <2>1. web = [content |-> file, version |-> 1]
    BY DEF Init
  <2> QED BY <1>1, <2>1 DEF Loaded
<1>3. TypeOK
  <2>1. saving \in [Process -> Valid \cup {Nothing}] /\ phase = "load" /\ watcher = Nothing
    BY DEF Init
  <2>2. AttemptTypes
    <3>1. [status |-> "new", state |-> "", active |-> FALSE, version |-> 0, retries |-> 0] \in Row
      BY DEF Row, Status, StateName
    <3> QED BY <3>1 DEF Init, AttemptTypes
  <2>3. worker \in [Attempt -> WorkerState]
    BY DEF Init, At, WorkerState
  <2>4. gates \in [Attempt -> SUBSET UNION {Names(Definition[c]) : c \in Valid}] /\ deciding = {} /\ todo = {}
    BY DEF Init
  <2>5. CountTypes
    <3>1. counts = [edits |-> 0, crashes |-> 0, restarts |-> 0]
      BY DEF Init
    <3> QED BY <3>1 DEF CountTypes
  <2> QED BY <1>1, <1>2, <2>1, <2>2, <2>3, <2>4, <2>5 DEF TypeOK, AttemptTypes, CountTypes, Row
<1>4. CycleIsLoaded /\ LoadedIsGenuine /\ StampIsGenuine
  BY DEF Init, CycleIsLoaded, LoadedIsGenuine, StampIsGenuine, At
<1> QED BY <1>3, <1>4 DEF StampInv

(* Every step of every process keeps it. *)
LEMMA NextStamp == StampInv /\ [Next]_vars => StampInv'
<1> SUFFICES ASSUME StampInv, [Next]_vars PROVE StampInv'
  OBVIOUS
<1> USE BoundsAssumption, ContentAssumption
<1>t. TypeOK /\ CycleIsLoaded /\ LoadedIsGenuine /\ StampIsGenuine /\ Held
  BY DEF StampInv, Held, TypeOK
<1>c. AttemptTypes /\ CountTypes
  BY <1>t DEF TypeOK, AttemptTypes, CountTypes, Row
<1>0. CASE UNCHANGED vars
  BY <1>0, <1>t DEF vars, StampInv, TypeOK, CycleIsLoaded, LoadedIsGenuine, StampIsGenuine
<1>1. CASE EditFile
  <2>1. CountTypes'
    BY <1>1, <1>c DEF EditFile, CountTypes
  <2>2. file' \in Content
        /\ UNCHANGED <<versions, saving, phase, todo, watcher, web, attempts, worker, gates, deciding, last>>
    BY <1>1 DEF EditFile
  <2> QED BY <2>1, <2>2, <1>t DEF StampInv, TypeOK, CountTypes, CycleIsLoaded, LoadedIsGenuine, StampIsGenuine
<1>2. CASE Apply
  <2>1. PICK proposal \in Valid :
          /\ file' = proposal
          /\ \/ web' = [web EXCEPT !.content = proposal] /\ UNCHANGED saving
             \/ saving' = [saving EXCEPT !["web"] = proposal] /\ UNCHANGED web
    BY <1>2 DEF Apply
  <2>2. file' \in Content /\ web' \in Loaded /\ saving' \in [Process -> Valid \cup {Nothing}]
    <3>1. file' \in Content
      BY <2>1 DEF Valid
    <3>2. web' \in Loaded
      BY <2>1, <1>t DEF TypeOK, Loaded
    <3>3. saving' \in [Process -> Valid \cup {Nothing}]
      BY <2>1, <1>t DEF TypeOK
    <3> QED BY <3>1, <3>2, <3>3
  <2>3. CountTypes'
    BY <1>2, <1>c DEF Apply, CountTypes
  <2>4. UNCHANGED <<versions, phase, todo, watcher, attempts, worker, gates, deciding, last>>
    BY <1>2 DEF Apply
  <2> QED BY <2>2, <2>3, <2>4, <1>t DEF StampInv, TypeOK, CountTypes, CycleIsLoaded, LoadedIsGenuine, StampIsGenuine
<1>3. ASSUME NEW p \in Process, InsertVersion(p) PROVE StampInv'
  <2>1. saving[p] \in Valid /\ versions' = Append(versions, saving[p])
    BY <1>3, <1>t DEF InsertVersion, TypeOK
  <2>2. OnlyAdded
    BY <2>1 DEF OnlyAdded
  <2>3. Len(versions) + 1 \in DOMAIN versions' /\ versions'[Len(versions) + 1] = saving[p]
    BY <2>1, <1>t DEF TypeOK
  <2>4. Held'
    <3>1. CASE p = "web"
      <4>1. web' \in Loaded /\ UNCHANGED <<watcher, phase, worker>>
        BY <1>3, <2>1, <3>1, <1>t DEF InsertVersion, TypeOK, Loaded
      <4> QED BY <4>1, <2>2, <1>t, GenuineStays DEF Held, CycleIsLoaded, LoadedIsGenuine
    <3>2. CASE p # "web"
      BY <1>3, <2>1, <2>2, <2>3, <3>2, <1>t, HoldsKeeps DEF InsertVersion
    <3> QED BY <3>1, <3>2
  <2>5. StampIsGenuine'
    BY <1>3, <2>2, <1>t, StampStays DEF InsertVersion
  <2>6. versions' \in Seq(Valid) /\ saving' \in [Process -> Valid \cup {Nothing}]
    BY <1>3, <2>2, <1>t, GenuineStays DEF InsertVersion, TypeOK
  <2>7. UNCHANGED <<file, todo, attempts, gates, deciding, counts>>
    BY <1>3 DEF InsertVersion
  <2> QED BY <2>4, <2>5, <2>6, <2>7, <1>t DEF StampInv, TypeOK, Held
<1>4. ASSUME NEW a \in Attempt, WorkerLoad(a) PROVE StampInv'
  <2>1. Held' /\ saving' \in [Process -> Valid \cup {Nothing}]
    <3>1. CASE file \in Valid
      BY <1>4, <3>1, <1>t, RecordKeeps DEF WorkerLoad, Process
    <3>2. CASE file \notin Valid
      <4>1. worker' = [worker EXCEPT ![a] = At("dead")] /\ UNCHANGED <<saving, watcher, phase, web, versions>>
        BY <1>4, <3>2 DEF WorkerLoad
      <4>2. worker' \in [Attempt -> WorkerState]
        BY <4>1, <1>t DEF TypeOK, WorkerState
      <4>3. LoadedIsGenuine'
        BY <4>1, <1>t DEF TypeOK, LoadedIsGenuine, At
      <4> QED BY <4>1, <4>2, <4>3, <1>t DEF Held, TypeOK, CycleIsLoaded
    <3> QED BY <3>1, <3>2
  <2>2. UNCHANGED <<file, versions, todo, attempts, gates, deciding, last, counts>>
    BY <1>4 DEF WorkerLoad
  <2>3. StampIsGenuine'
    BY <2>2, <1>t, StampStays DEF OnlyAdded
  <2> QED BY <2>1, <2>2, <2>3, <1>t DEF StampInv, TypeOK, Held
<1>5. CASE Reload
  <2>1. Held' /\ saving' \in [Process -> Valid \cup {Nothing}]
    <3>1. CASE watcher # Nothing /\ watcher.content = file
      BY <1>5, <3>1, <1>t DEF Reload, Held, TypeOK, CycleIsLoaded, LoadedIsGenuine
    <3>2. CASE ~(watcher # Nothing /\ watcher.content = file)
      BY <1>5, <3>2, <1>t, RecordKeeps DEF Reload, Process
    <3> QED BY <3>1, <3>2
  <2>2. UNCHANGED <<file, versions, todo, attempts, gates, deciding, last, counts>>
    BY <1>5 DEF Reload
  <2>3. StampIsGenuine'
    BY <2>2, <1>t, StampStays DEF OnlyAdded
  <2> QED BY <2>1, <2>2, <2>3, <1>t DEF StampInv, TypeOK, Held
<1>6. ASSUME NEW a \in Attempt, WorkerDies(a) PROVE StampInv'
  <2>1. /\ worker' = [worker EXCEPT ![a] = At("dead")] /\ saving' = [saving EXCEPT ![a] = Nothing]
        /\ UNCHANGED <<file, versions, phase, todo, watcher, web, attempts, gates, deciding, last>>
    BY <1>6 DEF WorkerDies
  <2>2. worker' \in [Attempt -> WorkerState]
    BY <2>1, <1>t DEF TypeOK, WorkerState
  <2>3. LoadedIsGenuine'
    BY <2>1, <1>t DEF TypeOK, LoadedIsGenuine, At
  <2>4. saving' \in [Process -> Valid \cup {Nothing}]
    BY <2>1, <1>t DEF TypeOK
  <2>5. CountTypes'
    BY <1>6, <1>c DEF WorkerDies, CountTypes
  <2> QED BY <2>1, <2>2, <2>3, <2>4, <2>5, <1>t DEF StampInv, TypeOK, CountTypes, CycleIsLoaded, StampIsGenuine
<1>7. ASSUME NEW a \in Attempt, WorkerStep(a) PROVE StampInv'
  <2> DEFINE using == worker[a].using
             def == Definition[using.content]
  <2>1. /\ worker[a].stage = "running" /\ Genuine(versions, using)
        /\ UNCHANGED <<file, versions, saving, watcher, web, counts>>
    BY <1>7, <1>t DEF WorkerStep, LoadedIsGenuine
  <2>2. using \in Loaded
    BY <2>1, <1>t DEF TypeOK, WorkerState, At
  <2>3. CASE MovedBy(a, "worker", using) /\ UNCHANGED <<gates, worker, phase, todo, deciding>>
    <3>1. AttemptTypes' /\ StampIsGenuine'
      BY <2>1, <2>2, <2>3, <1>t, MoveKeeps
    <3> QED BY <2>1, <2>3, <3>1, <1>t DEF StampInv, TypeOK, AttemptTypes, Row, CycleIsLoaded, LoadedIsGenuine
  <2>4. CASE /\ worker' = [worker EXCEPT ![a] = At("none")] /\ UNCHANGED <<phase, todo, deciding, last>>
             /\ \/ attempts' = [attempts EXCEPT ![a].status = "done"]
                \/ attempts' = [attempts EXCEPT ![a].status = "review"]
                \/ attempts' = Failed(a)
             /\ Opened(a, using)
    <3>1. worker' \in [Attempt -> WorkerState] /\ LoadedIsGenuine'
      BY <2>1, <2>4, <1>t DEF LoadedIsGenuine, TypeOK, WorkerState, At
    <3>2. StampIsGenuine' /\ CycleIsLoaded'
      BY <2>1, <2>4, <1>t DEF StampIsGenuine, CycleIsLoaded
    <3>3. AttemptTypes'
      BY <2>4, <1>c, OutcomeKeeps DEF Status
    <3>4. GateTypes'
      BY <2>2, <2>4, <1>t, GatesKeep
    <3> QED BY <2>1, <2>4, <3>1, <3>2, <3>3, <3>4, <1>t DEF StampInv, TypeOK, AttemptTypes, GateTypes, Row
  <2>5. CASE StepMoves(a, "worker", using, EveryEffect)
    BY <2>3, <2>5, MovesBy
  <2>6. CASE StepEnds(a, using, EveryEffect)
    <3>1. Opened(a, using) /\ UNCHANGED last
      BY <2>6, OpensGates
    <3> QED BY <1>7, <2>4, <2>6, <3>1 DEF WorkerStep, WorkerOutcome, StepMoves, StepEnds
  <2> QED BY <1>7, <2>5, <2>6 DEF WorkerStep
<1>8. ASSUME NEW a \in Attempt, CycleStep(a) PROVE StampInv'
  <2> DEFINE def == Definition[watcher.content]
  <2>1. /\ watcher \in Loaded /\ Genuine(versions, watcher) /\ phase = "advance"
        /\ UNCHANGED <<file, versions, saving, watcher, web, counts>>
    BY <1>8, <1>t DEF CycleStep, CycleIsLoaded
  <2>2. CASE MovedBy(a, "cycle", watcher) /\ UNCHANGED <<gates, worker, phase, todo, deciding>>
    <3>1. AttemptTypes' /\ StampIsGenuine'
      BY <2>1, <2>2, <1>t, MoveKeeps
    <3> QED BY <2>1, <2>2, <3>1, <1>t DEF StampInv, TypeOK, AttemptTypes, Row, CycleIsLoaded, LoadedIsGenuine
  <2>3. CASE /\ phase' \in {"load", phase} /\ todo' \in {{}, todo \ {a}} /\ UNCHANGED <<worker, deciding, last>>
             /\ \/ attempts' = [attempts EXCEPT ![a].status = "done"]
                \/ attempts' = [attempts EXCEPT ![a].state = "failed", ![a].active = FALSE]
                \/ attempts' = attempts
             /\ Opened(a, watcher)
    <3>1. StampIsGenuine' /\ CycleIsLoaded' /\ LoadedIsGenuine'
      BY <2>1, <2>3, <1>t DEF StampIsGenuine, CycleIsLoaded, LoadedIsGenuine
    <3>2. AttemptTypes'
      BY <2>3, <1>c, OutcomeKeeps DEF Status
    <3>3. GateTypes'
      BY <2>1, <2>3, <1>t, GatesKeep
    <3> QED BY <2>1, <2>3, <3>1, <3>2, <3>3, <1>t DEF StampInv, TypeOK, AttemptTypes, GateTypes, Row
  <2>4. CASE StepMoves(a, "cycle", watcher, CycleEffects)
    BY <2>2, <2>4, MovesBy
  <2>5. CASE StepEnds(a, watcher, CycleEffects)
    <3>1. Opened(a, watcher) /\ UNCHANGED last
      BY <2>5, OpensGates
    <3> QED BY <1>8, <2>3, <2>5, <3>1 DEF CycleStep, StepMoves, StepEnds
  <2> QED BY <1>8, <2>4, <2>5 DEF CycleStep
<1>9. ASSUME NEW a \in Attempt, GateStep(a) PROVE StampInv'
  <2> DEFINE def == Definition[web.content]
  <2>1. web \in Loaded /\ UNCHANGED <<file, versions, saving, watcher, web, counts>>
    BY <1>9, <1>t DEF GateStep, TypeOK
  <2>2. CASE MovedBy(a, "web", web) /\ UNCHANGED <<gates, worker, phase, todo, deciding>>
    <3>1. AttemptTypes' /\ StampIsGenuine'
      BY <2>1, <2>2, <1>t, MoveKeeps
    <3> QED BY <2>1, <2>2, <3>1, <1>t DEF StampInv, TypeOK, AttemptTypes, Row, CycleIsLoaded, LoadedIsGenuine
  <2>3. CASE deciding' = deciding \ {a} /\ UNCHANGED <<attempts, worker, phase, todo, last>> /\ Opened(a, web)
    <3>1. GateTypes'
      BY <2>1, <2>3, <1>t, GatesKeep
    <3> QED BY <2>1, <2>3, <3>1, <1>t DEF StampInv, TypeOK, GateTypes, StampIsGenuine, CycleIsLoaded, LoadedIsGenuine
  <2>4. CASE StepMoves(a, "web", web, EveryEffect)
    BY <2>2, <2>4, MovesBy
  <2>5. CASE StepEnds(a, web, EveryEffect)
    <3>1. Opened(a, web) /\ UNCHANGED last
      BY <2>5, OpensGates
    <3> QED BY <1>9, <2>3, <2>5, <3>1 DEF GateStep, StepMoves, StepEnds
  <2> QED BY <1>9, <2>4, <2>5 DEF GateStep
<1>10. ASSUME NEW a \in Attempt, NEW m \in gates[a], RunGate(a, m) PROVE StampInv'
  <2>1. m \in Names(Definition[web.content]) /\ web \in Loaded /\ web.content \in Valid
    BY <1>10, <1>t DEF RunGate, TypeOK, Loaded
  <2> DEFINE def == Definition[web.content]
             to == def.transitions[m].to
  <2>2. to \in States(def) /\ to \in StateName
    BY <2>1, AcceptedTransition DEF StateName
  <2>3. /\ attempts' = [attempts EXCEPT ![a].state = to, ![a].active = to \notin def.terminals,
                                       ![a].status = IF to \in def.terminals THEN "done" ELSE @]
        /\ Stamp("web", web)
        /\ gates' = [gates EXCEPT ![a] = @ \ {m}] /\ deciding' = deciding \cup {a}
        /\ UNCHANGED <<file, versions, saving, phase, todo, watcher, web, worker, counts>>
    BY <1>10 DEF RunGate
  <2>4. AttemptTypes'
    <3>1. (to \notin def.terminals) \in BOOLEAN
      OBVIOUS
    <3>2. attempts[a] \in Row /\ "done" \in Status /\ attempts[a].status \in Status
      BY <1>c, RowUpdates DEF AttemptTypes, Status
    <3> HIDE DEF to, def
    <3>3. [attempts[a] EXCEPT !.state = to, !.active = to \notin def.terminals,
                              !.status = IF to \in def.terminals THEN "done" ELSE @] \in Row
      BY <2>2, <3>1, <3>2 DEF Row
    <3> QED BY <2>3, <3>3, <1>c DEF AttemptTypes
  <2>5. StampIsGenuine'
    <3>1. last' = [by |-> "web", version |-> web.version, content |-> web.content]
      BY <2>3 DEF Stamp
    <3>2. web.version \in Nat
      BY <2>1 DEF Loaded
    <3> QED BY <2>1, <3>1, <3>2 DEF StampIsGenuine, LastType
  <2>6. gates' \in [Attempt -> SUBSET UNION {Names(Definition[c]) : c \in Valid}]
    BY <2>3, <1>t DEF TypeOK
  <2> HIDE DEF def, to
  <2> QED BY <2>3, <2>4, <2>5, <2>6, <1>t DEF StampInv, TypeOK, AttemptTypes, CountTypes, Row, CycleIsLoaded, LoadedIsGenuine
<1>11. CASE Reconcile
  <2>1. phase = "reconcile" /\ phase' = "advance" /\ watcher \in Loaded /\ Genuine(versions, watcher)
    BY <1>11, <1>t DEF Reconcile, CycleIsLoaded
  <2>2. AttemptTypes'
    <3>1. \A a \in Attempt : Requeued(a) \in Row
      <4> SUFFICES ASSUME NEW a \in Attempt PROVE Requeued(a) \in Row
        OBVIOUS
      <4>1. attempts[a] \in Row /\ {"queued", "failed"} \subseteq Status
        BY <1>c DEF AttemptTypes, Status
      <4>2. CASE attempts[a].retries < RetryLimit
        <5>1. Requeued(a) = [attempts[a] EXCEPT !.status = "queued", !.retries = @ + 1]
          BY <4>2 DEF Requeued
        <5>2. [attempts[a] EXCEPT !.retries = @ + 1] \in Row
          BY <4>1, <4>2, RowUpdates
        <5>3. Requeued(a) = [[attempts[a] EXCEPT !.retries = @ + 1] EXCEPT !.status = "queued"]
          BY <4>1, <5>1 DEF Row
        <5> QED BY <4>1, <5>2, <5>3, RowUpdates
      <4>3. CASE ~(attempts[a].retries < RetryLimit)
        BY <4>1, <4>3, RowUpdates DEF Requeued
      <4> QED BY <4>2, <4>3
    <3> QED BY <1>11, <3>1, <1>c DEF Reconcile, AttemptTypes
  <2>3. worker' \in [Attempt -> WorkerState] /\ LoadedIsGenuine'
    BY <1>11, <1>t DEF Reconcile, LoadedIsGenuine, TypeOK, WorkerState, At
  <2>4. StampIsGenuine' /\ CycleIsLoaded'
    BY <1>11, <2>1, <1>t DEF Reconcile, StampIsGenuine, CycleIsLoaded
  <2>5. todo' \subseteq Attempt
    BY <1>11 DEF Reconcile, Ready
  <2> QED BY <1>11, <2>1, <2>2, <2>3, <2>4, <2>5, <1>t DEF Reconcile, StampInv, TypeOK, AttemptTypes, CountTypes, Row
<1>12. CASE AdvanceEnds
  BY <1>12, <1>t DEF AdvanceEnds, StampInv, TypeOK, CycleIsLoaded, LoadedIsGenuine, StampIsGenuine
<1>13. CASE Claim
  <2>1. phase = "claim" /\ phase' = "start" /\ watcher \in Loaded /\ Genuine(versions, watcher)
    BY <1>13, <1>t DEF Claim, CycleIsLoaded
  <2>2. AttemptTypes'
    <3>1. EntryState(Definition[watcher.content]) \in StateName /\ watcher.version \in Nat
      BY <2>1, EntryIsAState DEF Loaded
    <3>2. ASSUME NEW a \in Attempt,
                 attempts' = [attempts EXCEPT ![a].status = "queued", ![a].active = TRUE,
                                              ![a].state = EntryState(Definition[watcher.content]),
                                              ![a].version = watcher.version]
          PROVE  AttemptTypes'
      <4>1. attempts[a] \in Row /\ "queued" \in Status
        BY <1>c DEF AttemptTypes, Status
      <4>2. [attempts[a] EXCEPT !.status = "queued", !.active = TRUE,
                                !.state = EntryState(Definition[watcher.content]),
                                !.version = watcher.version] \in Row
        BY <3>1, <4>1 DEF Row
      <4> QED BY <3>2, <4>2, <1>c DEF AttemptTypes
    <3> QED BY <1>13, <3>2, <1>c DEF Claim, AttemptTypes
  <2>3. StampIsGenuine'
    <3>1. CASE UNCHANGED last
      BY <1>13, <3>1, <1>t, StampStays DEF Claim, OnlyAdded
    <3>2. CASE last' = [by |-> "cycle", version |-> watcher.version, content |-> watcher.content]
      BY <1>13, <2>1, <3>2 DEF Claim, StampIsGenuine, LastType, Loaded, Genuine
    <3> QED BY <1>13, <3>1, <3>2 DEF Claim, Stamp
  <2> QED BY <1>13, <2>1, <2>2, <2>3, <1>t DEF Claim, StampInv, TypeOK, AttemptTypes, CountTypes, Row, CycleIsLoaded, LoadedIsGenuine, StampIsGenuine
<1>14. CASE StartQueued
  <2>1. phase' = "load" /\ UNCHANGED <<file, versions, saving, todo, watcher, web, gates, deciding, last, counts>>
    BY <1>14 DEF StartQueued
  <2>2. AttemptTypes'
    <3>1. \A a \in Attempt : attempts[a] \in Row /\ [attempts[a] EXCEPT !.status = "running"] \in Row
      BY <1>c, RowUpdates DEF AttemptTypes, Status
    <3> QED BY <1>14, <3>1, <1>c DEF StartQueued, AttemptTypes
  <2>3. worker' \in [Attempt -> WorkerState] /\ LoadedIsGenuine'
    BY <1>14, <2>1, <1>t DEF StartQueued, LoadedIsGenuine, TypeOK, WorkerState, At
  <2>4. StampIsGenuine' /\ CycleIsLoaded'
    BY <2>1, <1>t DEF StampIsGenuine, CycleIsLoaded
  <2> QED BY <2>1, <2>2, <2>3, <2>4, <1>t DEF StampInv, TypeOK, AttemptTypes, CountTypes, Row
<1>15. CASE RestartServer
  <2>1. /\ file \in Valid /\ watcher' = Nothing /\ phase' = "load" /\ todo' = {} /\ deciding' = {}
        /\ versions' = IF Rows(file) # {} THEN versions ELSE Append(versions, file)
        /\ counts' = [counts EXCEPT !.restarts = @ + 1] /\ counts.restarts < MaxRestarts
        /\ saving' = [saving EXCEPT !["web"] = Nothing, !["cycle"] = Nothing]
        /\ UNCHANGED <<file, attempts, worker, gates, last>>
    BY <1>15 DEF RestartServer
  <2>2. OnlyAdded
    BY <2>1 DEF OnlyAdded
  <2>3. web' \in Loaded
    <3>1. PICK id : id = (IF Rows(file) # {} THEN CHOOSE i \in Rows(file) : TRUE ELSE Len(versions) + 1)
                    /\ web' = [content |-> file, version |-> id]
      BY <1>15 DEF RestartServer
    <3>2. id \in Nat \ {0}
      BY <3>1, <1>t DEF Rows, TypeOK
    <3> QED BY <2>1, <3>1, <3>2 DEF Loaded
  <2>4. CycleIsLoaded' /\ LoadedIsGenuine' /\ versions' \in Seq(Valid)
    BY <2>1, <2>2, <1>t, GenuineStays DEF CycleIsLoaded, LoadedIsGenuine
  <2>5. StampIsGenuine'
    BY <2>1, <2>2, <1>t, StampStays
  <2>6. saving' \in [Process -> Valid \cup {Nothing}]
    BY <2>1, <1>t DEF TypeOK
  <2>7. CountTypes'
    BY <2>1, <1>c DEF CountTypes
  <2> QED BY <2>1, <2>3, <2>4, <2>5, <2>6, <2>7, <1>t DEF StampInv, TypeOK, CountTypes
<1> QED BY <1>0, <1>1, <1>2, <1>3, <1>4, <1>5, <1>6, <1>7, <1>8, <1>9, <1>10, <1>11, <1>12, <1>13,
        <1>14, <1>15 DEF Next

(***************************************************************************)
(* Where instances stand                                                   *)
(***************************************************************************)

(* What the dashboard runs is stored, although its version may be that of another row. *)
WebIsStored == \E v \in DOMAIN versions : versions[v] = web.content

Known(rows, row) ==
    row.active =>
        \/ \E v \in DOMAIN rows : row.state \in States(Definition[rows[v]])
        \/ /\ row.state = "claimed" /\ row.version \in DOMAIN rows
           /\ ~HasEntry(Definition[rows[row.version]])

KnownInv == StampInv /\ WebIsStored /\ InstancesAreKnown

(* Rows are only added, so what is known stays known. *)
LEMMA NextOnlyAdds == StampInv /\ [Next]_vars => OnlyAdded
<1> SUFFICES ASSUME StampInv, [Next]_vars PROVE OnlyAdded
  OBVIOUS
<1>1. ASSUME NEW p \in Process, InsertVersion(p) PROVE OnlyAdded
  <2>1. saving[p] \in Valid /\ versions' = Append(versions, saving[p])
    BY <1>1 DEF InsertVersion, StampInv, TypeOK
  <2> QED BY <2>1 DEF OnlyAdded
<1>2. CASE RestartServer
  BY <1>2 DEF RestartServer, OnlyAdded
<1>3. CASE UNCHANGED versions
  BY <1>3 DEF OnlyAdded
<1> QED BY <1>1, <1>2, <1>3 DEF Next, vars, EditFile, Apply, WorkerLoad, WorkerStep, WorkerDies, CycleStep,
        GateStep, RunGate, Reload, Reconcile, AdvanceEnds, Claim, StartQueued

LEMMA KnownStays ==
    ASSUME TypeOK, OnlyAdded, NEW row, Known(versions, row)
    PROVE  Known(versions', row)
<1>1. CASE UNCHANGED versions
  BY <1>1
<1>2. CASE \E c \in Valid : versions' = Append(versions, c)
  <2>1. \A v \in DOMAIN versions : v \in DOMAIN versions' /\ versions'[v] = versions[v]
    BY <1>2 DEF TypeOK
  <2> QED BY <2>1 DEF Known
<1> QED BY <1>1, <1>2 DEF OnlyAdded

LEMMA KnownIs == InstancesAreKnown <=> \A a \in Attempt : Known(versions, attempts[a])
BY DEF InstancesAreKnown, Known

(* An instance that is not moved, and not made active, stands where it stood. *)
LEMMA UnmovedStays ==
    ASSUME KnownInv, OnlyAdded, NEW b \in Attempt,
           ~attempts'[b].active \/ /\ attempts'[b].active = attempts[b].active
                                   /\ attempts'[b].state = attempts[b].state
                                   /\ attempts'[b].version = attempts[b].version
    PROVE  Known(versions', attempts'[b])
<1>1. Known(versions, attempts[b]) /\ TypeOK
  BY KnownIs DEF KnownInv, StampInv
<1>2. Known(versions', attempts[b])
  BY <1>1, KnownStays
<1> QED BY <1>2 DEF Known

(* One that is moved stands in a state of the version it was moved by, which is stored. *)
LEMMA MovedIsKnown ==
    ASSUME KnownInv, OnlyAdded, UNCHANGED versions, NEW a \in Attempt, NEW by, NEW using \in Loaded,
           MovedBy(a, by, using), \E v \in DOMAIN versions : versions[v] = using.content
    PROVE  InstancesAreKnown'
<1> DEFINE def == Definition[using.content]
<1>1. PICK m \in Names(def) :
        attempts' = [attempts EXCEPT ![a].state = def.transitions[m].to,
                                     ![a].active = def.transitions[m].to \notin def.terminals]
  BY DEF MovedBy
<1>2. using.content \in Valid
  BY DEF Loaded
<1>3. def.transitions[m].to \in States(def)
  BY <1>2, AcceptedTransition
<1>4. attempts \in [Attempt -> Row]
  BY DEF KnownInv, StampInv, TypeOK, Row
<1>5. attempts'[a].state = def.transitions[m].to
  BY <1>1, <1>4 DEF Row
<1>6. Known(versions', attempts'[a])
  <2>1. PICK v \in DOMAIN versions : versions[v] = using.content
    OBVIOUS
  <2>2. v \in DOMAIN versions' /\ attempts'[a].state \in States(Definition[versions'[v]])
    BY <1>3, <1>5, <2>1
  <2> QED BY <2>2 DEF Known
<1>7. \A b \in Attempt \ {a} : attempts'[b] = attempts[b]
  BY <1>1, <1>4
<1>8. \A b \in Attempt \ {a} : Known(versions', attempts'[b])
  BY <1>7, UnmovedStays
<1> QED BY <1>6, <1>8 DEF InstancesAreKnown, Known

(* A new instance stands in a state of the version it is claimed with, or in the default. *)
LEMMA ClaimIsKnown == KnownInv /\ Claim => InstancesAreKnown'
<1> SUFFICES ASSUME KnownInv, Claim PROVE InstancesAreKnown'
  OBVIOUS
<1> DEFINE def == Definition[watcher.content]
<1>1. watcher \in Loaded /\ Genuine(versions, watcher) /\ UNCHANGED versions /\ OnlyAdded
  BY DEF KnownInv, StampInv, CycleIsLoaded, Claim, OnlyAdded
<1>2. attempts \in [Attempt -> Row]
  BY DEF KnownInv, StampInv, TypeOK, Row
<1>3. CASE UNCHANGED attempts
  BY <1>1, <1>3, UnmovedStays DEF InstancesAreKnown, Known
<1>4. ASSUME NEW a \in Attempt,
             attempts' = [attempts EXCEPT ![a].status = "queued", ![a].active = TRUE,
                                          ![a].state = EntryState(def), ![a].version = watcher.version]
      PROVE  InstancesAreKnown'
  <2>1. /\ attempts'[a].state = EntryState(def) /\ attempts'[a].version = watcher.version
        /\ \A b \in Attempt \ {a} : attempts'[b] = attempts[b]
    BY <1>2, <1>4 DEF Row
  <2>2. versions'[watcher.version] = watcher.content /\ watcher.version \in DOMAIN versions'
        /\ watcher.content \in Valid
    BY <1>1 DEF Genuine, Loaded
  <2>3. Known(versions', attempts'[a])
    <3>1. CASE "find_issue_pull_requests" \in Names(def)
      BY <2>1, <2>2, <3>1, AcceptedTransition DEF Known, EntryState
    <3>2. CASE "find_issue_pull_requests" \notin Names(def) /\ "allocate_workspace" \in Names(def)
      BY <2>1, <2>2, <3>2, AcceptedTransition DEF Known, EntryState
    <3>3. CASE "find_issue_pull_requests" \notin Names(def) /\ "allocate_workspace" \notin Names(def)
      BY <2>1, <2>2, <3>3 DEF Known, EntryState, HasEntry
    <3> QED BY <3>1, <3>2, <3>3
  <2>4. \A b \in Attempt \ {a} : Known(versions', attempts'[b])
    BY <1>1, <2>1, UnmovedStays
  <2> QED BY <2>3, <2>4 DEF InstancesAreKnown, Known
<1> QED BY <1>3, <1>4 DEF Claim

LEMMA InitKnown == Init => KnownInv
<1> SUFFICES ASSUME Init PROVE KnownInv
  OBVIOUS
<1>1. WebIsStored
  <2>1. versions = <<file>> /\ web.content = file
    BY DEF Init
  <2> QED BY <2>1 DEF WebIsStored
<1>2. InstancesAreKnown
  BY DEF Init, InstancesAreKnown
<1> QED BY <1>1, <1>2, InitStamp DEF KnownInv

(* What a gate's thread runs stays stored. *)
LEMMA NextWeb == KnownInv /\ [Next]_vars => WebIsStored'
<1> SUFFICES ASSUME KnownInv, [Next]_vars PROVE WebIsStored'
  OBVIOUS
<1>1. OnlyAdded /\ TypeOK
  BY NextOnlyAdds DEF KnownInv, StampInv
<1>2. \A c : (\E v \in DOMAIN versions : versions[v] = c) => \E v \in DOMAIN versions' : versions'[v] = c
  <2>1. CASE UNCHANGED versions
    BY <2>1
  <2>2. CASE \E c \in Valid : versions' = Append(versions, c)
    <3>1. \A v \in DOMAIN versions : v \in DOMAIN versions' /\ versions'[v] = versions[v]
      BY <1>1, <2>2 DEF TypeOK
    <3> QED BY <3>1
  <2> QED BY <1>1, <2>1, <2>2 DEF OnlyAdded
<1>3. CASE UNCHANGED web
  BY <1>2, <1>3 DEF KnownInv, WebIsStored
<1>4. CASE Apply
  <2>1. PICK proposal \in Valid :
          \/ Rows(proposal) # {} /\ web' = [web EXCEPT !.content = proposal]
          \/ UNCHANGED web
    BY <1>4 DEF Apply
  <2>2. CASE Rows(proposal) # {} /\ web' = [web EXCEPT !.content = proposal]
    <3>1. web'.content = proposal /\ UNCHANGED versions
      BY <1>4, <2>2, <1>1 DEF Apply, TypeOK, Loaded
    <3> QED BY <2>2, <3>1 DEF Rows, WebIsStored
  <2> QED BY <1>3, <2>1, <2>2
<1>5. ASSUME NEW p \in Process, InsertVersion(p) PROVE WebIsStored'
  <2>1. saving[p] \in Valid /\ versions' = Append(versions, saving[p])
    BY <1>1, <1>5 DEF InsertVersion, TypeOK
  <2>2. CASE p = "web"
    <3>1. web'.content = saving["web"]
      BY <1>1, <1>5, <2>2 DEF InsertVersion, TypeOK, Loaded
    <3>2. Len(versions) + 1 \in DOMAIN versions' /\ versions'[Len(versions) + 1] = saving["web"]
      BY <1>1, <2>1, <2>2 DEF TypeOK
    <3> QED BY <3>1, <3>2 DEF WebIsStored
  <2>3. CASE p # "web"
    BY <1>3, <1>5, <2>3 DEF InsertVersion, Holds
  <2> QED BY <2>2, <2>3
<1>6. CASE RestartServer
  <2>1. web'.content = file
    BY <1>6 DEF RestartServer
  <2>2. \E v \in DOMAIN versions' : versions'[v] = file
    <3>1. CASE Rows(file) # {}
      BY <1>6, <3>1 DEF RestartServer, Rows
    <3>2. CASE Rows(file) = {}
      <4>1. versions' = Append(versions, file) /\ file \in Valid
        BY <1>6, <3>2 DEF RestartServer
      <4>2. Len(versions) + 1 \in DOMAIN versions' /\ versions'[Len(versions) + 1] = file
        BY <1>1, <4>1 DEF TypeOK
      <4> QED BY <4>2
    <3> QED BY <3>1, <3>2
  <2> QED BY <2>1, <2>2 DEF WebIsStored
<1>7. ASSUME NEW a \in Attempt, WorkerLoad(a) PROVE WebIsStored'
  <2>1. CASE UNCHANGED web
    BY <1>3, <2>1
  <2>2. CASE ~UNCHANGED web
    <3>1. Rows(file) # {} /\ web'.content = file /\ UNCHANGED versions
      BY <1>7, <2>2 DEF WorkerLoad, Record, Holds
    <3> QED BY <3>1 DEF Rows, WebIsStored
  <2> QED BY <2>1, <2>2
<1>8. CASE Reload
  BY <1>3, <1>8 DEF Reload, Record, Holds
<1> QED BY <1>3, <1>4, <1>5, <1>6, <1>7, <1>8 DEF Next, vars, EditFile, WorkerStep, WorkerDies, CycleStep, GateStep,
        RunGate, Reconcile, AdvanceEnds, Claim, StartQueued

(* Every step leaves every instance under way where some stored version knows it. *)
LEMMA NextKnown == KnownInv /\ [Next]_vars => KnownInv'
<1> SUFFICES ASSUME KnownInv, [Next]_vars PROVE KnownInv'
  OBVIOUS
<1>0. StampInv' /\ WebIsStored'
  BY NextStamp, NextWeb DEF KnownInv
<1> SUFFICES InstancesAreKnown'
  BY <1>0 DEF KnownInv
<1>1. OnlyAdded
  BY NextOnlyAdds DEF KnownInv
<1>t. TypeOK /\ attempts \in [Attempt -> Row]
  BY DEF KnownInv, StampInv, TypeOK, Row
<1>u. ASSUME \A b \in Attempt : \/ ~attempts'[b].active
                                 \/ /\ attempts'[b].active = attempts[b].active
                                    /\ attempts'[b].state = attempts[b].state
                                    /\ attempts'[b].version = attempts[b].version
      PROVE  InstancesAreKnown'
  BY <1>1, <1>u, UnmovedStays DEF InstancesAreKnown, Known
<1>2. CASE UNCHANGED attempts
  BY <1>2, <1>u
<1>3. ASSUME NEW a \in Attempt, WorkerStep(a) PROVE InstancesAreKnown'
  <2>1. worker[a].using \in Loaded /\ Genuine(versions, worker[a].using)
    <3>1. worker[a].stage = "running" /\ worker[a] \in WorkerState /\ LoadedIsGenuine
      BY <1>3 DEF WorkerStep, KnownInv, StampInv, TypeOK
    <3> QED BY <3>1 DEF WorkerState, LoadedIsGenuine, At
  <2>2. CASE StepMoves(a, "worker", worker[a].using, EveryEffect)
    <3>1. MovedBy(a, "worker", worker[a].using) /\ UNCHANGED versions
      BY <1>3, <2>2, MovesBy DEF WorkerStep
    <3> QED BY <1>1, <2>1, <3>1, MovedIsKnown DEF Genuine
  <2>3. CASE \E reason : attempts' = WorkerOutcome(a, reason)
    <3>1. \/ attempts' = [attempts EXCEPT ![a].status = "done"]
          \/ attempts' = [attempts EXCEPT ![a].status = "review"]
          \/ attempts' = Failed(a)
      BY <2>3 DEF WorkerOutcome
    <3> QED BY <1>t, <1>u, <3>1 DEF Failed, Row
  <2> QED BY <1>3, <2>2, <2>3 DEF WorkerStep
<1>4. ASSUME NEW a \in Attempt, CycleStep(a) PROVE InstancesAreKnown'
  <2>1. watcher \in Loaded /\ Genuine(versions, watcher)
    BY <1>4 DEF CycleStep, KnownInv, StampInv, CycleIsLoaded
  <2>2. CASE StepMoves(a, "cycle", watcher, CycleEffects)
    <3>1. MovedBy(a, "cycle", watcher) /\ UNCHANGED versions
      BY <1>4, <2>2, MovesBy DEF CycleStep
    <3> QED BY <1>1, <2>1, <3>1, MovedIsKnown DEF Genuine
  <2>3. CASE \/ attempts' = [attempts EXCEPT ![a].status = "done"]
             \/ attempts' = [attempts EXCEPT ![a].state = "failed", ![a].active = FALSE]
             \/ attempts' = attempts
    BY <1>t, <1>u, <2>3 DEF Row
  <2> QED BY <1>4, <2>2, <2>3 DEF CycleStep
<1>5. ASSUME NEW a \in Attempt, GateStep(a) PROVE InstancesAreKnown'
  <2>1. web \in Loaded /\ \E v \in DOMAIN versions : versions[v] = web.content
    BY <1>t DEF KnownInv, WebIsStored, TypeOK
  <2>2. CASE StepMoves(a, "web", web, EveryEffect)
    <3>1. MovedBy(a, "web", web) /\ UNCHANGED versions
      BY <1>5, <2>2, MovesBy DEF GateStep
    <3> QED BY <1>1, <2>1, <3>1, MovedIsKnown
  <2> QED BY <1>2, <1>5, <2>2 DEF GateStep
<1>6. ASSUME NEW a \in Attempt, NEW m \in gates[a], RunGate(a, m) PROVE InstancesAreKnown'
  <2> DEFINE def == Definition[web.content]
             to == def.transitions[m].to
  <2>1. web.content \in Valid /\ m \in Names(def) /\ UNCHANGED versions
    BY <1>6, <1>t DEF RunGate, TypeOK, Loaded
  <2>2. to \in States(def)
    BY <2>1, AcceptedTransition
  <2>3. attempts' = [attempts EXCEPT ![a].state = to, ![a].active = to \notin def.terminals,
                                     ![a].status = IF to \in def.terminals THEN "done" ELSE @]
    BY <1>6 DEF RunGate
  <2> HIDE DEF to
  <2>4. attempts'[a].state = to /\ \A b \in Attempt \ {a} : attempts'[b] = attempts[b]
    BY <1>t, <2>3 DEF Row
  <2>5. Known(versions', attempts'[a])
    <3>1. PICK v \in DOMAIN versions : versions[v] = web.content
      BY DEF KnownInv, WebIsStored
    <3> QED BY <2>1, <2>2, <2>4, <3>1 DEF Known
  <2>6. \A b \in Attempt \ {a} : Known(versions', attempts'[b])
    BY <1>1, <2>4, UnmovedStays
  <2> QED BY <2>5, <2>6 DEF InstancesAreKnown, Known
<1>7. CASE Reconcile
  <2>1. \A a \in Attempt : attempts'[a] \in {attempts[a], Requeued(a)}
    BY <1>7 DEF Reconcile
  <2>2. \A a \in Attempt : Requeued(a).active = attempts[a].active /\ Requeued(a).state = attempts[a].state
                           /\ Requeued(a).version = attempts[a].version
    BY <1>t DEF Requeued, Row
  <2> QED BY <1>u, <2>1, <2>2
<1>8. CASE StartQueued
  <2>1. \A a \in Attempt : attempts'[a] \in {attempts[a], [attempts[a] EXCEPT !.status = "running"]}
    BY <1>8 DEF StartQueued
  <2> QED BY <1>t, <1>u, <2>1 DEF Row
<1>9. CASE Claim
  BY <1>9, ClaimIsKnown
<1> QED BY <1>2, <1>3, <1>4, <1>5, <1>6, <1>7, <1>8, <1>9 DEF Next, vars, EditFile, Apply, InsertVersion, WorkerLoad,
        WorkerDies, Reload, AdvanceEnds, RestartServer

(***************************************************************************)
(* Theorems                                                                *)
(***************************************************************************)

(* Every variable keeps its type, whatever the contents, definitions and bounds: an    *)
(* attempt is in a state some accepted definition has, and within its retries.         *)
THEOREM TypesAreKept == Spec => []TypeOK
<1>1. StampInv => TypeOK
  BY DEF StampInv
<1> QED BY <1>1, InitStamp, NextStamp, PTL DEF Spec

(* What the cycle and the workers stamp is the row that holds what they ran, for any   *)
(* number of edits, restarts and attempts.                                             *)
THEOREM StampsStayTrue == Spec => []StampsAreTrue
<1>1. StampInv => StampsAreTrue
  BY DEF StampInv, StampIsGenuine, Genuine, StampsAreTrue
<1> QED BY <1>1, InitStamp, NextStamp, PTL DEF Spec

(* Wherever the three processes' definitions lead an instance, one of the stored       *)
(* versions has the state it stands in, or it still stands in the default it was       *)
(* created in, for a reason that is in the version it was claimed with.                *)
THEOREM InstancesStayKnown == Spec => []InstancesAreKnown
<1>1. KnownInv => InstancesAreKnown
  BY DEF KnownInv
<1> QED BY <1>1, InitKnown, NextKnown, PTL DEF Spec
=============================================================================
