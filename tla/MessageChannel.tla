---------------------------- MODULE MessageChannel ----------------------------
(***************************************************************************)
(* What the communication component promises to the client and the         *)
(* service: messages of any size arrive whole, in the order they were      *)
(* sent, and a new session starts with nothing left of the old one.        *)
(***************************************************************************)
EXTENDS Integers, Sequences

CONSTANTS Message, \* the messages
          Content  \* what each message consists of

VARIABLES sent,      \* the messages transmitted in this session
          delivered  \* the buffers handed to the listeners in this session

vars == <<sent, delivered>>

Init == sent = <<>> /\ delivered = <<>>

Send(m) ==
    /\ sent' = Append(sent, m)
    /\ UNCHANGED delivered

Deliver ==
    /\ Len(delivered) < Len(sent)
    /\ delivered' = Append(delivered, Content[sent[Len(delivered) + 1]])
    /\ UNCHANGED sent

Reset == sent' = <<>> /\ delivered' = <<>>

Next == (\E m \in Message : Send(m)) \/ Deliver \/ Reset

Spec == Init /\ [][Next]_vars
===============================================================================
