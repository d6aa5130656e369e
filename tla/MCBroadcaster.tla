---------------------------- MODULE MCBroadcaster ----------------------------
(* Three nodes, as NewBSCBroadcaster and NewGenericBroadcaster with any subset *)
(* of them reachable.                                                          *)
EXTENDS Broadcaster

CONSTANTS n1, n2, n3

MCNodes == {n1, n2, n3}
=============================================================================
