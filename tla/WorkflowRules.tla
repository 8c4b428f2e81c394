--------------------------- MODULE WorkflowRules ---------------------------
(***************************************************************************)
(* When a workflow definition is accepted.  A definition is a record:      *)
(*   initial      its initial state                                        *)
(*   terminals    the states it lists as terminal                          *)
(*   states       a function from its states to whether they are marked    *)
(*                terminal                                                 *)
(*   transitions  a function from names to transitions                     *)
(***************************************************************************)
EXTENDS Integers, FiniteSets, ActionRegistry

Transition(from, to, action) ==
    [from |-> from, to |-> to, action |-> action, human |-> FALSE, gate |-> FALSE, group |-> "",
     condition |-> "none", onFailure |-> "failed", limit |-> 0, timeout |-> 0, in |-> {}, out |-> {}]

Names(def) == DOMAIN def.transitions
States(def) == DOMAIN def.states

TerminalErrors(def) ==
    {<<"terminal", s>> : s \in {s \in def.terminals : s \notin States(def) \/ ~def.states[s]}}

\* The condition of a transition is not looked at.
TransitionErrors(def, name) ==
    LET t == def.transitions[name]
        known == t.action \in DOMAIN Registry
        bad == [from |-> t.from \notin States(def),
                to |-> t.to \notin States(def),
                on_failure |-> t.onFailure # "" /\ t.onFailure \notin States(def),
                action |-> ~known,
                trigger |-> known /\ IF t.human THEN ~Registry[t.action].human
                                                 ELSE ~Registry[t.action].automatic,
                inputs |-> known /\ ~(t.in \subseteq Registry[t.action].in),
                outputs |-> known /\ ~(t.out \subseteq Registry[t.action].out),
                gate |-> t.human /\ ~t.gate,
                parallel_group |-> t.group # "" /\ t.human,
                from_terminal |-> t.from \in def.terminals,
                retry_limit |-> t.limit < 0,
                timeout |-> t.timeout < 0]
    IN {<<name, error>> : error \in {e \in DOMAIN bad : bad[e]}}

Groups(def) == {def.transitions[m].group : m \in Names(def)} \ {""}
ParallelGroupErrors(def) ==
    {<<"group", g>> : g \in {g \in Groups(def) :
        LET members == {m \in Names(def) : def.transitions[m].group = g} IN
        \/ Cardinality(members) < 2
        \/ Cardinality({<<def.transitions[m].from, def.transitions[m].to>> : m \in members}) # 1}}

(* What the loop over the transitions has reached after n rounds that each add something. *)
Reached(def) ==
    LET Targets(set) == UNION {{def.transitions[m].to, def.transitions[m].onFailure} \ {""} :
                               m \in {m \in Names(def) : def.transitions[m].from \in set}}
        after[n \in Nat] == IF n = 0 THEN {def.initial} ELSE after[n - 1] \cup Targets(after[n - 1])
    IN after[2 * Cardinality(Names(def))]
UnreachableStateErrors(def) == {<<"unreachable", s>> : s \in States(def) \ Reached(def)}

Errors(def) ==
    IF States(def) = {} THEN {<<"states", "none">>}
    ELSE {<<"initial", def.initial>> : s \in {def.initial} \ States(def)}
         \cup TerminalErrors(def)
         \cup UNION {TransitionErrors(def, m) : m \in Names(def)}
         \cup ParallelGroupErrors(def)
         \cup UnreachableStateErrors(def)

Accepts(def) == Errors(def) = {}
=============================================================================
