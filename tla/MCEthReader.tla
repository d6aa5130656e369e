----------------------------- MODULE MCEthReader -----------------------------
(* Instances of EthReader: three nodes, two distinguishable answers.  NewBSCReader *)
(* has three nodes, NewEthReader two, the others one.                              *)
EXTENDS EthReader

CONSTANTS n1, n2, n3, v1, v2

MCNodes == {n1, n2, n3}
MCValues == {v1, v2}
=============================================================================
