----------------------------- MODULE MCWebClient -----------------------------
(* Three pages and two answers, one with a URL that is not UTF-8, for TLC. *)
EXTENDS WebClient

CONSTANTS p1, p2, p3, r1, r2, bad

GoodAndBad == <<<<r1, r2>>, <<bad, r1>>>>
===============================================================================
