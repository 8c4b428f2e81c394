---------------------------- MODULE SingleCycle ----------------------------
(***************************************************************************)
(* What the runtime promises of its cycles (spec.md, "Only one cycle       *)
(* should run at a time"): whichever process begins one finds no other     *)
(* process in the middle of one.  RuntimeLease implements it.              *)
(***************************************************************************)
CONSTANTS Process, Nobody

VARIABLE runner

Init == runner = Nobody

Begin(p) == runner = Nobody /\ runner' = p

End(p) == runner = p /\ runner' = Nobody

Next == \E p \in Process : Begin(p) \/ End(p)

Spec == Init /\ [][Next]_runner
=============================================================================
