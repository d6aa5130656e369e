--------------------------- MODULE MCTrezorSigner ----------------------------
EXTENDS TrezorSigner
CONSTANTS c1, c2
MCCalls == {c1, c2}
MCChains == {88, 300, 513}
=============================================================================
