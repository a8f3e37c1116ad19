----------------------------- MODULE SearchService -----------------------------
(***************************************************************************)
(* What the network of search services promises to its users, with no      *)
(* routing, no flooding and no packets: a search may be answered by any    *)
(* peer that has the keyword, the answer reaches the searcher or nobody,   *)
(* and what was found before a peer forgot its index may still arrive.     *)
(***************************************************************************)
EXTENDS Integers

CONSTANTS Node, Flow, Keyword, None

VARIABLES search,  \* per flow: who searches for what
          indexed, \* the node-keyword pairs that were ever stored
          answers  \* per node: the results handed to its client

vars == <<search, indexed, answers>>

Init ==
    /\ search = [f \in Flow |-> None]
    /\ indexed = {}
    /\ answers = [n \in Node |-> {}]

Index(n, k) ==
    /\ indexed' = indexed \cup {<<n, k>>}
    /\ UNCHANGED <<search, answers>>

\* A search starts; if its node has the keyword itself, that is an answer.
Start(n, f, k) ==
    /\ search[f] = None
    /\ search' = [search EXCEPT ![f] = [node |-> n, keyword |-> k]]
    /\ \E results \in SUBSET {[flow_id |-> f, result |-> [holder |-> n, keyword |-> k]]} :
          /\ results # {} => <<n, k>> \in indexed
          /\ answers' = [answers EXCEPT ![n] = @ \cup results]
    /\ UNCHANGED indexed

\* What peer m has indexed for the keyword of f reaches the node that searches.
Deliver(f, m) ==
    /\ search[f] # None
    /\ <<m, search[f].keyword>> \in indexed
    /\ answers' = [answers EXCEPT ![search[f].node] = @ \cup
           {[flow_id |-> f, result |-> [holder |-> m, keyword |-> search[f].keyword]]}]
    /\ UNCHANGED <<search, indexed>>

Next ==
    \/ \E n \in Node, k \in Keyword : Index(n, k)
    \/ \E n \in Node, f \in Flow, k \in Keyword : Start(n, f, k)
    \/ \E f \in Flow, m \in Node : Deliver(f, m)

Spec == Init /\ [][Next]_vars
===============================================================================
