----------------------------- MODULE MCCliClient -----------------------------
(* Short files over two letters and short conversations, for TLC. *)
EXTENDS CliClient

CONSTANTS x, y
===============================================================================
