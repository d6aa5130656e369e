---------------------------- MODULE MCHidExchange ----------------------------
(* Frames of 12 bytes, so that requests of both drivers take one to three      *)
(* frames and replies one to three, ending before, on and after every edge.    *)
EXTENDS HidExchange

MCReqLengths == {0, 3, 4, 6, 7, 8}
MCRepLengths == 0..15
=============================================================================
