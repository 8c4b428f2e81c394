---------------------------- MODULE MCCodexTurn ----------------------------
(***************************************************************************)
(* Instances of CodexTurn for TLC.                                         *)
(***************************************************************************)
EXTENDS CodexTurn

TwoItems == {1, 2}
=============================================================================
