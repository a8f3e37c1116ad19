------------------------------ MODULE MCFlooding ------------------------------
(* Small networks of search services for TLC. *)
EXTENDS Flooding

CONSTANTS a, b, c, d, e, k1, k2

Both(pairs) == pairs \cup {<<q[2], q[1]>> : q \in pairs}

\* a - b - c - d - a with a chord b - d, and e behind c: cycles to flood round, ways
\* of different length, and a node only reachable through another.
HouseWithTail == Both({<<a, b>>, <<b, c>>, <<c, d>>, <<a, d>>, <<b, d>>, <<c, e>>})

Triangle == Both({<<a, b>>, <<b, c>>, <<a, c>>})

TwoHolders == {<<a, k1>>, <<e, k1>>}

\* Anybody for anything, under any flow.
AnySearch == Node \X Flow \X Keyword

\* A search that can be answered, and two that push it out of tables of two.
OneAndTwoMore == {<<a, 1, k1>>, <<b, 2, k2>>, <<b, 3, k2>>}

OneHolder == {<<c, k1>>}
===============================================================================
