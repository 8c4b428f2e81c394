--------------------------- MODULE DurableWorkflow ---------------------------
(***************************************************************************)
(* What the workflow engine promises about one workflow instance, whatever *)
(* processes advance it and whichever of them die: an action succeeds at   *)
(* most once for every time the instance leaves its state with it, a move  *)
(* uses successes that were recorded before it and uses each of them once, *)
(* and the only other moves are a failure and a manual retry of a failed   *)
(* instance.  WorkflowInstance is shown to implement it.                   *)
(***************************************************************************)
CONSTANTS State,        \* the workflow's states
          Transition,   \* the names of its transitions
          From,         \* the state each transition leaves
          To,           \* the state each transition enters
          Initial,      \* the state an instance is created in
          Failed        \* the state of a failed instance

VARIABLES state,        \* workflow_instances.current_state
          open          \* the transitions with a success no move has used

vars == <<state, open>>

Init ==
    /\ state = Initial
    /\ open = {}

(* An action succeeds in the state its transition leaves.                  *)
Succeed(m) ==
    /\ state = From[m]
    /\ m \notin open
    /\ open' = open \union {m}
    /\ UNCHANGED state

(* The instance moves with the successes of a whole batch.                 *)
Move ==
    LET batch == open \ open' IN
    /\ batch # {} /\ open' \subseteq open
    /\ \A m \in batch : From[m] = state /\ To[m] = state'

(* The runtime gives the instance up.                                      *)
Fail ==
    /\ state' = Failed
    /\ UNCHANGED open

(* A person retries an action of a failed instance.                        *)
Retry(m) ==
    /\ state = Failed
    /\ state' = From[m]
    /\ UNCHANGED open

Next ==
    \/ \E m \in Transition : Succeed(m) \/ Retry(m)
    \/ Move \/ Fail

Spec == Init /\ [][Next]_vars
===============================================================================
