------------------------------- MODULE PacketBag -------------------------------
(***************************************************************************)
(* What the flooding component expects of its way to its neighbours, and   *)
(* what Flooding takes for granted of the network: a message goes to each  *)
(* of its receivers once or is lost, in any order, and never back to the   *)
(* peer it came from.                                                      *)
(***************************************************************************)
CONSTANTS Message, \* the messages, each sent once
          Peer,    \* the neighbours
          None,    \* the origin of a message from this node
          Unsent   \* a message that was not sent so far

VARIABLES origin,   \* per message: where it came from; Unsent
          inFlight, \* the packets on their way
          delivered \* the packets that arrived

vars == <<origin, inFlight, delivered>>

Packet == [message: Message, peer: Peer]

Init ==
    /\ origin = [m \in Message |-> Unsent]
    /\ inFlight = {} /\ delivered = {}

\* A message from sender leaves for some of the other peers.
Send(m, sender, receivers) ==
    /\ origin[m] = Unsent
    /\ receivers \subseteq Peer \ {sender}
    /\ origin' = [origin EXCEPT ![m] = sender]
    /\ inFlight' = inFlight \cup {[message |-> m, peer |-> p] : p \in receivers}
    /\ UNCHANGED delivered

Deliver(packet) ==
    /\ packet \in inFlight
    /\ inFlight' = inFlight \ {packet}
    /\ delivered' = delivered \cup {packet}
    /\ UNCHANGED origin

\* A peer that goes takes all the packets that are on their way to it.
Lose(packets) ==
    /\ packets \subseteq inFlight
    /\ inFlight' = inFlight \ packets
    /\ UNCHANGED <<origin, delivered>>

Next ==
    \/ \E m \in Message, sender \in Peer \cup {None}, receivers \in SUBSET Peer :
          Send(m, sender, receivers)
    \/ \E packet \in Packet : Deliver(packet)
    \/ \E packets \in SUBSET Packet : Lose(packets)

Spec == Init /\ [][Next]_vars
===============================================================================
