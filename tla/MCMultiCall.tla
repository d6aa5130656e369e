----------------------------- MODULE MCMultiCall -----------------------------
(* Three calls, of which hooks may register some, and three calls of Do that   *)
(* may be answered for two blocks.                                             *)
EXTENDS MultiCall

MCBlocks == {1, 2}
=============================================================================
