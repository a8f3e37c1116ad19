--------------------------- MODULE MCFloodingOutput ---------------------------
(* Two neighbours and a few messages, for TLC. *)
EXTENDS FloodingOutput

CONSTANTS a, b, m1, m2
===============================================================================
