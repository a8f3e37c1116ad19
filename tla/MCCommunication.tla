---------------------------- MODULE MCCommunication ----------------------------
(* Small messages over a connection with small fragments, for TLC. *)
EXTENDS Communication, TLC

CONSTANTS m1, m2, m3

\* With room for two bytes: one that fills a fragment, one that needs two, one
\* that fills two.
SizesAtTheBoundary == m1 :> 2 @@ m2 :> 3 @@ m3 :> 4
===============================================================================
