---------------------------- MODULE MCWorkItems ----------------------------
(***************************************************************************)
(* Instances of WorkItems for TLC.                                         *)
(***************************************************************************)
EXTENDS WorkItems, TLC

CONSTANTS s1, q1, t1

OneRepo == {q1}
OneRequest == {t1}

OneSource == {s1}
NoLinks == s1 :> {}
RepoOfIt == s1 :> q1

\* A crash anywhere but between creating an attempt and assigning it.
OutsideClaim == ThreadPc \ {"assign"}
============================================================================
