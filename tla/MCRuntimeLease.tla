--------------------------- MODULE MCRuntimeLease ---------------------------
(***************************************************************************)
(* Instances of RuntimeLease for TLC.                                      *)
(***************************************************************************)
EXTENDS RuntimeLease, TLC

CONSTANTS p1, p2, p3, q1

ThreeProcesses == {p1, p2, p3}
OneRequest == {q1}
=============================================================================
