--------------------------- MODULE MCLedgerSigner ----------------------------
(* Two calls of one to three chunks each, for the chains of the library and    *)
(* for two whose IDs wrap around in a byte.                                    *)
EXTENDS LedgerSigner

CONSTANTS c1, c2

MCCalls == {c1, c2}
MCChains == {1, 3, 4, 14, 15, 42, 56, 88, 97, 124, 300}
MCMainnet == {1}
=============================================================================
