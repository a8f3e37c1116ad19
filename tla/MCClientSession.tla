---------------------------- MODULE MCClientSession ----------------------------
(* A few clients with a few requests each, for TLC. *)
EXTENDS ClientSession, TLC

CONSTANTS web, cli1, f1, f2

Search(id) == [action |-> "search", id |-> id]
Add(id) == [action |-> "add", id |-> id]

\* The web client numbers its requests, the command line client makes one with id 0.
\* Two searches fill the ring, and every request of the web client may overtake the
\* transmission of the one before.
WebAndCli == web :> <<Search(1), Add(2), Search(3)>> @@ cli1 :> <<Add(0)>>

TwoClients == web :> <<Search(1)>> @@ cli1 :> <<Search(0)>>

OneClient == cli1 :> <<Search(0)>>
===============================================================================
