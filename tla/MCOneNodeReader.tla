--------------------------- MODULE MCOneNodeReader ---------------------------
(* Three calls on one node: enough for two to queue behind the mutex while the *)
(* third looks at the fields.                                                  *)
EXTENDS OneNodeReader

CONSTANTS c1, c2, c3

MCCalls == {c1, c2, c3}
=============================================================================
