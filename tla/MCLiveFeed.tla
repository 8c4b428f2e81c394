----------------------------- MODULE MCLiveFeed -----------------------------
(***************************************************************************)
(* Instances of LiveFeed for TLC.                                          *)
(***************************************************************************)
EXTENDS LiveFeed

FewRows == [codex |-> 2, error |-> 1, timeline |-> 2]
=============================================================================
