------------------------------ MODULE MCAccount ------------------------------
(* Two operations at once of every pair of methods, over two nodes.  Neither   *)
(* operations nor nodes differ but by their names.                             *)
EXTENDS Account, TLC

CONSTANTS o1, o2, n1, n2

MCOps == {o1, o2}
MCNodes == {n1, n2}
Symmetry == Permutations(MCOps) \cup Permutations(MCNodes)
=============================================================================
