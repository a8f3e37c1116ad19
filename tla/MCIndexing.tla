------------------------------ MODULE MCIndexing ------------------------------
(* A small web for TLC. *)
EXTENDS Indexing, TLC

CONSTANTS a, b, u1, u2, u3, u4

\* Pages that link back and forth, and one, u4, three links away from u1.
SmallWeb == u1 :> {u2} @@ u2 :> {u1, u3} @@ u3 :> {u2, u4} @@ u4 :> {u1}

\* "A", "a" and the bytes next to the upper case letters, "[" and "{".
SmallWords == u1 :> {<<65>>} @@ u2 :> {<<97>>, <<91>>} @@ u3 :> {<<97>>} @@ u4 :> {<<123>>}

Lengths == u1 :> 3 @@ u2 :> 2 @@ u3 :> 4 @@ u4 :> 1
===============================================================================
