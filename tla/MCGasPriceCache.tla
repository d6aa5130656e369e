--------------------------- MODULE MCGasPriceCache ---------------------------
(* Two callers, a time-out of one second and seven half seconds of time: the   *)
(* cache expires twice.  Only whether a price is zero matters; NaN, which is   *)
(* equal to nothing, stands for all other floats.                              *)
EXTENDS GasPriceCache

CONSTANTS c1, c2, NaN

MCCallers == {c1, c2}
MCPrices == {0, NaN}
=============================================================================
