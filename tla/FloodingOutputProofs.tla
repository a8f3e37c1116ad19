-------------------------- MODULE FloodingOutputProofs --------------------------
(***************************************************************************)
(* The flooding component's output, for any number of messages and peers,  *)
(* any room in the core and any timeout: no message waits without a task,  *)
(* no block is used after it was freed, and each message reaches each      *)
(* receiver once or is lost.                                               *)
(***************************************************************************)
EXTENDS FloodingOutput, TLAPS

Distinct(s) == \A i, j \in DOMAIN s : s[i] = s[j] => i = j

\* Nothing has become of a packet so far.
Untouched(x) ==
    /\ x \notin ElementsOf(queue) /\ x \notin Requested
    /\ timer[x] = Off /\ x \notin freed

\* The packets of a message that was not sent, or whose iteration has yet to come to
\* their peer, are untouched.
Fresh ==
    \A m \in Message :
        /\ origin[m] = Unsent => todo[m] = {}
        /\ \A p \in Peer :
              origin[m] = Unsent \/ p \in todo[m] => Untouched(PacketTo(m, p))

\* The core has each request once, for the peer it is meant for, and gives it up
\* before its free task runs.
RequestsSound ==
    \A p \in Peer :
        /\ Distinct(request[p])
        /\ \A x \in ElementsOf(request[p]) : x.peer = p /\ timer[x] <= MaxDelay

Inv == TypeOK /\ NeverStuck /\ MemorySafe /\ Fresh /\ RequestsSound

-------------------------------------------------------------------------------

\* What an empty, a longer and a shorter sequence consist of.
LEMMA EmptyElements == ElementsOf(<<>>) = {} /\ Distinct(<<>>)
  BY DEF ElementsOf, Distinct

LEMMA AppendElements ==
    ASSUME NEW S, NEW s \in Seq(S), NEW e \in S
    PROVE  /\ Append(s, e) \in Seq(S) /\ Len(Append(s, e)) = Len(s) + 1
           /\ ElementsOf(Append(s, e)) = ElementsOf(s) \cup {e}
           /\ Distinct(s) /\ e \notin ElementsOf(s) => Distinct(Append(s, e))
  <1> DEFINE t == Append(s, e)
  <1>1. /\ t \in Seq(S) /\ Len(t) = Len(s) + 1 /\ t[Len(s) + 1] = e
        /\ \A i \in 1 .. Len(s) : t[i] = s[i]
    OBVIOUS
  <1>2. DOMAIN t = 1 .. Len(s) + 1 /\ DOMAIN s = 1 .. Len(s) /\ Len(s) \in Nat
    BY <1>1
  <1> HIDE DEF t
  <1>3. ElementsOf(t) \subseteq ElementsOf(s) \cup {e}
    <2> SUFFICES ASSUME NEW i \in DOMAIN t PROVE t[i] \in ElementsOf(s) \cup {e}
      BY DEF ElementsOf
    <2>1. CASE i = Len(s) + 1
      BY <2>1, <1>1
    <2>2. CASE i \in 1 .. Len(s)
      BY <2>2, <1>1, <1>2 DEF ElementsOf
    <2> QED
      BY <2>1, <2>2, <1>2
  <1>4. ElementsOf(s) \cup {e} \subseteq ElementsOf(t)
    <2>1. e \in ElementsOf(t)
      <3>1. Len(s) + 1 \in DOMAIN t
        BY <1>2
      <3> QED
        BY <3>1, <1>1 DEF ElementsOf
    <2>2. ASSUME NEW i \in DOMAIN s PROVE s[i] \in ElementsOf(t)
      <3>1. i \in DOMAIN t /\ t[i] = s[i]
        BY <1>1, <1>2
      <3> QED
        BY <3>1 DEF ElementsOf
    <2> QED
      BY <2>1, <2>2 DEF ElementsOf
  <1>5. ASSUME Distinct(s), e \notin ElementsOf(s) PROVE Distinct(t)
    <2> SUFFICES ASSUME NEW i \in DOMAIN t, NEW j \in DOMAIN t, t[i] = t[j] PROVE i = j
      BY DEF Distinct
    <2>1. \A l \in 1 .. Len(s) : t[l] # e
      BY <1>1, <1>2, <1>5 DEF ElementsOf
    <2>2. CASE i \in 1 .. Len(s) /\ j \in 1 .. Len(s)
      BY <2>2, <1>1, <1>2, <1>5 DEF Distinct
    <2> QED
      BY <2>1, <2>2, <1>1, <1>2
  <1> QED
    BY <1>1, <1>3, <1>4, <1>5 DEF t

LEMMA TailElements ==
    ASSUME NEW S, NEW s \in Seq(S), s # <<>>, Distinct(s)
    PROVE  /\ Tail(s) \in Seq(S) /\ Len(Tail(s)) = Len(s) - 1
           /\ Head(s) \in S /\ Head(s) \in ElementsOf(s)
           /\ ElementsOf(Tail(s)) = ElementsOf(s) \ {Head(s)}
           /\ Distinct(Tail(s))
  <1> DEFINE t == Tail(s)
  <1>1. /\ t \in Seq(S) /\ Len(t) = Len(s) - 1 /\ Head(s) = s[1] /\ Len(s) \in Nat \ {0}
        /\ \A i \in 1 .. Len(s) - 1 : t[i] = s[i + 1]
    OBVIOUS
  <1>2. DOMAIN t = 1 .. Len(s) - 1 /\ DOMAIN s = 1 .. Len(s)
    BY <1>1
  <1> HIDE DEF t
  <1>3. ElementsOf(t) \subseteq ElementsOf(s) \ {Head(s)}
    <2> SUFFICES ASSUME NEW i \in DOMAIN t PROVE t[i] \in ElementsOf(s) /\ t[i] # Head(s)
      BY DEF ElementsOf
    <2>1. t[i] = s[i + 1] /\ i + 1 \in DOMAIN s /\ 1 \in DOMAIN s /\ i + 1 # 1
      BY <1>1, <1>2
    <2> QED
      BY <2>1, <1>1 DEF Distinct, ElementsOf
  <1>4. ElementsOf(s) \ {Head(s)} \subseteq ElementsOf(t)
    <2> SUFFICES ASSUME NEW i \in DOMAIN s, s[i] # Head(s) PROVE s[i] \in ElementsOf(t)
      BY DEF ElementsOf
    <2>1. i - 1 \in DOMAIN t /\ t[i - 1] = s[i]
      BY <1>1, <1>2
    <2> QED
      BY <2>1 DEF ElementsOf
  <1>5. Distinct(t)
    <2> SUFFICES ASSUME NEW i \in DOMAIN t, NEW j \in DOMAIN t, t[i] = t[j] PROVE i = j
      BY DEF Distinct
    <2>1. s[i + 1] = s[j + 1] /\ i + 1 \in DOMAIN s /\ j + 1 \in DOMAIN s
      BY <1>1, <1>2
    <2>2. i + 1 = j + 1
      BY <2>1 DEF Distinct
    <2> QED
      BY <2>2, <1>2
  <1>6. Head(s) \in ElementsOf(s) /\ Head(s) \in S
    BY <1>1, <1>2 DEF ElementsOf
  <1> QED
    BY <1>1, <1>3, <1>4, <1>5, <1>6 DEF t

\* Packets are the same when their messages and their peers are.
LEMMA Packets ==
    /\ \A m \in Message, p \in Peer : PacketTo(m, p) \in Packet
    /\ \A x \in Packet : \E m \in Message, p \in Peer : x = PacketTo(m, p) /\ x.peer = p
    /\ \A m, n, p, q : PacketTo(m, p) = PacketTo(n, q) => m = n /\ p = q
  <1>1. \A m, n, p, q : PacketTo(m, p) = PacketTo(n, q) => m = n /\ p = q
    <2> SUFFICES ASSUME NEW m, NEW n, NEW p, NEW q, PacketTo(m, p) = PacketTo(n, q)
                 PROVE  m = n /\ p = q
      OBVIOUS
    <2>1. /\ PacketTo(m, p).message = m /\ PacketTo(m, p).peer = p
          /\ PacketTo(n, q).message = n /\ PacketTo(n, q).peer = q
      BY DEF PacketTo
    <2> QED
      BY <2>1
  <1> QED
    BY <1>1 DEF Packet, PacketTo

LEMMA RequestedOfPeer ==
    \A x : x \in Requested <=> \E p \in Peer : x \in ElementsOf(request[p])
  BY DEF Requested

-------------------------------------------------------------------------------

LEMMA InitInv == Init => Inv
  <1> SUFFICES ASSUME Init PROVE Inv
    OBVIOUS
  <1>1. /\ ElementsOf(queue) = {} /\ DOMAIN queue = {} /\ Len(queue) = 0
        /\ \A p \in Peer : ElementsOf(request[p]) = {} /\ Distinct(request[p])
    BY EmptyElements DEF Init
  <1>2. Requested = {}
    BY <1>1, RequestedOfPeer
  <1>3. TypeOK
    BY FloodingOutputAssumption DEF Init, TypeOK, Off, FreeDelay
  <1>4. NeverStuck
    BY <1>1 DEF Init, NeverStuck
  <1>5. MemorySafe
    BY <1>1, <1>2 DEF Init, MemorySafe
  <1>6. Fresh
    BY <1>1, <1>2, Packets DEF Init, Fresh, Untouched
  <1>7. RequestsSound
    BY <1>1 DEF RequestsSound
  <1> QED
    BY <1>3, <1>4, <1>5, <1>6, <1>7 DEF Inv

\* What a step does to the iterations: no packet becomes untouched again, and a copy
\* stays while its message has peers to go to.
Iterates ==
    \A m \in Message :
        /\ origin'[m] = Unsent => todo'[m] = {}
        /\ \A p \in Peer :
              origin'[m] = Unsent \/ p \in todo'[m] => origin[m] = Unsent \/ p \in todo[m]
        /\ todo'[m] # {} => copy'[m] = "held"

\* A step of an iteration that sends nothing.
LEMMA QuietInv ==
    ASSUME Inv, TypeOK', Iterates, UNCHANGED <<queue, tasks, request, timer, freed>>
    PROVE  Inv'
  <1>1. Requested' = Requested
    BY DEF Requested
  <1>2. Fresh'
    BY <1>1 DEF Inv, Fresh, Iterates, Untouched
  <1>3. MemorySafe'
    BY <1>1 DEF Inv, MemorySafe, Iterates
  <1> QED
    BY <1>2, <1>3 DEF Inv, NeverStuck, RequestsSound

\* A step that sends an untouched packet.
LEMMA SendInv ==
    ASSUME Inv, TypeOK', Iterates, UNCHANGED <<request, timer, freed>>,
           NEW m \in Message, NEW p \in Peer,
           ToPeerMessageSend(PacketTo(m, p)), Untouched(PacketTo(m, p)),
           origin'[m] # Unsent, p \notin todo'[m]
    PROVE  Inv'
  <1> DEFINE x == PacketTo(m, p)
  <1> USE DEF Inv
  <1>1. x \in Packet /\ queue \in Seq(Packet)
    BY Packets DEF TypeOK
  <1>2. x \notin ElementsOf(queue) /\ x \notin Requested /\ timer[x] = Off /\ x \notin freed
    BY DEF Untouched
  <1>3. Distinct(queue)
    BY DEF MemorySafe, Distinct
  <1>4. queue' = Append(queue, x) /\ tasks' = tasks + 1
    BY DEF ToPeerMessageSend
  <1>5. /\ ElementsOf(queue') = ElementsOf(queue) \cup {x} /\ Len(queue') = Len(queue) + 1
        /\ Distinct(queue')
    BY <1>1, <1>2, <1>3, <1>4, AppendElements
  <1>6. Requested' = Requested
    BY DEF Requested
  <1>7. NeverStuck'
    BY <1>1, <1>4, <1>5 DEF NeverStuck, TypeOK
  <1>8. MemorySafe'
    BY <1>2, <1>5, <1>6 DEF MemorySafe, Iterates, Distinct
  <1>9. Fresh'
    <2> SUFFICES ASSUME NEW n \in Message, NEW q \in Peer,
                        origin'[n] = Unsent \/ q \in todo'[n]
                 PROVE  Untouched(PacketTo(n, q))'
      BY DEF Fresh, Iterates
    <2>1. PacketTo(n, q) # x
      BY Packets
    <2>2. Untouched(PacketTo(n, q))
      BY DEF Fresh, Iterates
    <2> QED
      BY <2>1, <2>2, <1>5, <1>6 DEF Untouched
  <1> QED
    BY <1>7, <1>8, <1>9 DEF RequestsSound

\* A step after which the core has fewer requests.
LEMMA FewerRequestsInv ==
    ASSUME Inv, TypeOK', UNCHANGED <<origin, copy, todo, queue, timer, freed>>,
           tasks' \in {tasks, tasks + 1},
           \A p \in Peer : Distinct(request'[p])
                           /\ ElementsOf(request'[p]) \subseteq ElementsOf(request[p])
    PROVE  Inv'
  <1> USE DEF Inv
  <1>1. Requested' \subseteq Requested
    BY DEF Requested
  <1>2. NeverStuck'
    BY DEF NeverStuck, TypeOK
  <1>3. MemorySafe'
    BY <1>1 DEF MemorySafe
  <1>4. Fresh'
    BY <1>1 DEF Fresh, Untouched
  <1>5. RequestsSound'
    BY DEF RequestsSound
  <1> QED
    BY <1>2, <1>3, <1>4, <1>5

-------------------------------------------------------------------------------

LEMMA ConnectInv ==
    ASSUME Inv, NEW p \in Peer, Connect(p)
    PROVE  Inv'
  <1>1. TypeOK'
    BY DEF Connect, Inv, TypeOK
  <1>2. Iterates
    BY DEF Connect, Iterates, Inv, Fresh, MemorySafe
  <1> QED
    BY <1>1, <1>2, QuietInv DEF Connect

LEMMA DisconnectInv ==
    ASSUME Inv, NEW p \in Peer, Disconnect(p)
    PROVE  Inv'
  <1>1. \A x \in ElementsOf(request[p]) : x \in Packet
    BY DEF Inv, TypeOK, ElementsOf
  <1>2. TypeOK'
    BY <1>1 DEF Disconnect, Inv, TypeOK
  <1>3. request'[p] = <<>> /\ \A q \in Peer : q # p => request'[q] = request[q]
    BY DEF Disconnect, Inv, TypeOK
  <1>4. \A q \in Peer : Distinct(request'[q])
                        /\ ElementsOf(request'[q]) \subseteq ElementsOf(request[q])
    BY <1>3, EmptyElements DEF Inv, RequestsSound
  <1> QED
    BY <1>2, <1>4, FewerRequestsInv DEF Disconnect

LEMMA DataFloodInv ==
    ASSUME Inv, NEW m \in Flooded, NEW sender \in Peer \cup {None}, DataFlood(m, sender)
    PROVE  Inv'
  <1>1. m \in Message /\ sender # Unsent
    BY FloodingOutputAssumption
  <1>2. TypeOK'
    BY <1>1 DEF DataFlood, Inv, TypeOK
  <1>3. Iterates
    BY <1>1 DEF DataFlood, Iterates, Inv, TypeOK, Fresh, MemorySafe
  <1> QED
    BY <1>2, <1>3, QuietInv DEF DataFlood

LEMMA EndOfTTLInv ==
    ASSUME Inv, NEW m \in Flooded, EndOfTTL(m)
    PROVE  Inv'
  <1>1. m \in Message /\ None # Unsent
    BY FloodingOutputAssumption
  <1>2. TypeOK'
    BY <1>1 DEF EndOfTTL, Inv, TypeOK
  <1>3. Iterates
    BY <1>1 DEF EndOfTTL, Iterates, Inv, TypeOK, Fresh, MemorySafe
  <1> QED
    BY <1>2, <1>3, QuietInv DEF EndOfTTL

LEMMA RelayInv ==
    ASSUME Inv, NEW m \in Message \ Flooded, NEW p \in Peer, Relay(m, p)
    PROVE  Inv'
  <1>1. m \in Message /\ None # Unsent
    BY FloodingOutputAssumption
  <1>2. PacketTo(m, p) \in Packet
    BY Packets
  <1>3. TypeOK'
    BY <1>1, <1>2 DEF Relay, ToPeerMessageSend, Inv, TypeOK
  <1>4. Iterates
    BY <1>1 DEF Relay, Iterates, Inv, TypeOK, Fresh, MemorySafe
  <1>5. Untouched(PacketTo(m, p))
    BY DEF Relay, Inv, Fresh
  <1>6. origin'[m] # Unsent /\ p \notin todo'[m]
    BY <1>1 DEF Relay, Inv, TypeOK, Fresh
  <1> QED
    BY <1>3, <1>4, <1>5, <1>6, SendInv DEF Relay

LEMMA PeerIterateHandlerInv ==
    ASSUME Inv, NEW m \in Message, NEW p \in Peer, PeerIterateHandler(m, p)
    PROVE  Inv'
  <1>1. PacketTo(m, p) \in Packet
    BY Packets
  <1>2. TypeOK'
    <2>1. queue' \in Seq(Packet) /\ tasks' \in Nat
      <3>1. queue \in Seq(Packet) /\ tasks \in Nat
        BY DEF Inv, TypeOK
      <3>2. \/ queue' = queue /\ tasks' = tasks
            \/ queue' = Append(queue, PacketTo(m, p)) /\ tasks' = tasks + 1
        BY DEF PeerIterateHandler, ToPeerMessageSend
      <3> QED
        BY <1>1, <3>1, <3>2
    <2>2. todo' \in [Message -> SUBSET Peer]
      BY DEF PeerIterateHandler, Inv, TypeOK
    <2> QED
      BY <2>1, <2>2 DEF PeerIterateHandler, Inv, TypeOK
  <1>3. Iterates
    BY DEF PeerIterateHandler, Iterates, Inv, TypeOK, Fresh, MemorySafe
  <1>4. CASE p = origin[m]
    BY <1>2, <1>3, <1>4, QuietInv DEF PeerIterateHandler
  <1>5. CASE p # origin[m]
    <2>1. Untouched(PacketTo(m, p))
      BY DEF PeerIterateHandler, Inv, Fresh
    <2>2. origin'[m] # Unsent /\ p \notin todo'[m]
      BY DEF PeerIterateHandler, Inv, TypeOK, Fresh
    <2> QED
      BY <1>2, <1>3, <1>5, <2>1, <2>2, SendInv DEF PeerIterateHandler
  <1> QED
    BY <1>4, <1>5

LEMMA PeerIterateEndInv ==
    ASSUME Inv, NEW m \in Message, PeerIterateEnd(m)
    PROVE  Inv'
  <1>1. TypeOK'
    BY DEF PeerIterateEnd, Inv, TypeOK
  <1>2. Iterates
    BY DEF PeerIterateEnd, Iterates, Inv, TypeOK, Fresh, MemorySafe
  <1> QED
    BY <1>1, <1>2, QuietInv DEF PeerIterateEnd

LEMMA TransmitNextInv ==
    ASSUME Inv, TransmitNext
    PROVE  Inv'
  <1> USE DEF Inv
  <1>1. CASE queue = <<>>
    <2>1. UNCHANGED <<connected, origin, copy, todo, queue, request, timer, freed,
                      arrived, dropped>> /\ tasks > 0 /\ tasks' = tasks - 1
      BY <1>1 DEF TransmitNext
    <2>2. Requested' = Requested
      BY <2>1 DEF Requested
    <2>3. TypeOK'
      BY <2>1 DEF TypeOK
    <2>4. NeverStuck'
      BY <1>1, <2>1 DEF NeverStuck, TypeOK
    <2>5. MemorySafe'
      BY <2>1, <2>2 DEF MemorySafe
    <2>6. Fresh'
      BY <2>1, <2>2 DEF Fresh, Untouched
    <2>7. RequestsSound'
      BY <2>1 DEF RequestsSound
    <2> QED
      BY <2>3, <2>4, <2>5, <2>6, <2>7
  <1>2. CASE queue # <<>>
    <2> DEFINE x == Head(queue)
    <2>1. /\ queue' = Tail(queue) /\ HandOver(x) /\ tasks > 0 /\ tasks' = tasks - 1
          /\ UNCHANGED <<connected, origin, copy, todo, freed, arrived>>
      BY <1>2 DEF TransmitNext
    <2>2. queue \in Seq(Packet) /\ Distinct(queue)
      BY DEF TypeOK, MemorySafe, Distinct
    <2>3. /\ queue' \in Seq(Packet) /\ Len(queue') = Len(queue) - 1 /\ Distinct(queue')
          /\ x \in Packet /\ x \in ElementsOf(queue)
          /\ ElementsOf(queue') = ElementsOf(queue) \ {x}
      BY <1>2, <2>1, <2>2, TailElements
    <2> HIDE DEF x
    <2>4. x.peer \in Peer
      BY <2>3 DEF Packet
    <2>5. x \notin freed /\ timer[x] = Off /\ x \notin Requested
      BY <2>3 DEF MemorySafe
    <2>6. timer' = [timer EXCEPT ![x] = 0]
      BY <2>1 DEF HandOver
    <2>7. \/ request' = request
          \/ request' = [request EXCEPT ![x.peer] = Append(@, x)]
      BY <2>1 DEF HandOver
    <2>8. \A p \in Peer : p # x.peer => request'[p] = request[p]
      BY <2>4, <2>7 DEF TypeOK
    <2>9. x \notin ElementsOf(request[x.peer]) /\ request[x.peer] \in Seq(Packet)
      BY <2>4, <2>5, RequestedOfPeer DEF TypeOK
    <2>10. /\ request' \in [Peer -> Seq(Packet)]
           /\ Distinct(request'[x.peer])
           /\ ElementsOf(request'[x.peer]) \subseteq ElementsOf(request[x.peer]) \cup {x}
      <3>1. CASE request' = request
        BY <2>4, <3>1 DEF TypeOK, RequestsSound
      <3>2. CASE request' = [request EXCEPT ![x.peer] = Append(@, x)]
        <4>1. request'[x.peer] = Append(request[x.peer], x)
          BY <2>4, <3>2 DEF TypeOK
        <4>2. Distinct(request[x.peer])
          BY <2>4 DEF RequestsSound
        <4>3. /\ Append(request[x.peer], x) \in Seq(Packet)
              /\ ElementsOf(Append(request[x.peer], x)) = ElementsOf(request[x.peer]) \cup {x}
              /\ Distinct(Append(request[x.peer], x))
          BY <2>3, <2>9, <4>2, AppendElements
        <4> QED
          BY <3>2, <4>1, <4>3 DEF TypeOK
      <3> QED
        BY <2>7, <3>1, <3>2
    <2>11. \A y : y \in Requested' => y \in Requested \/ y = x
      <3>1. \A y : y \in Requested' <=> \E p \in Peer : y \in ElementsOf(request'[p])
        BY DEF Requested
      <3> QED
        BY <3>1, <2>8, <2>10, RequestedOfPeer
    <2>12. TypeOK'
      <3>1. tasks' \in Nat
        BY <2>1 DEF TypeOK
      <3>2. timer' \in [Packet -> Off .. FreeDelay]
        BY <2>3, <2>6, FloodingOutputAssumption DEF TypeOK, Off, FreeDelay
      <3>3. dropped' \subseteq Packet
        BY <2>1, <2>3 DEF HandOver, TypeOK
      <3> QED
        BY <2>1, <2>3, <2>10, <3>1, <3>2, <3>3 DEF TypeOK
    <2>13. NeverStuck'
      BY <2>1, <2>2, <2>3 DEF NeverStuck, TypeOK
    <2>14. timer'[x] = 0 /\ \A y \in Packet : y # x => timer'[y] = timer[y]
      BY <2>3, <2>6 DEF TypeOK
    <2>15. \A y \in Requested \cup ElementsOf(queue) : y \in Packet
      BY RequestedOfPeer DEF TypeOK, ElementsOf
    <2>16. MemorySafe'
      <3>1. \A y \in Requested' : y \notin freed' /\ timer'[y] # Off
        BY <2>1, <2>5, <2>11, <2>14, <2>15 DEF MemorySafe, Off
      <3>2. \A y \in ElementsOf(queue') : y \notin freed' /\ timer'[y] = Off
        BY <2>1, <2>3, <2>14, <2>15 DEF MemorySafe
      <3>3. \A y \in Packet : timer'[y] # Off => y \notin freed'
        BY <2>1, <2>5, <2>14 DEF MemorySafe
      <3>4. \A i, j \in DOMAIN queue' : queue'[i] = queue'[j] => i = j
        BY <2>3 DEF Distinct
      <3> QED
        BY <2>1, <3>1, <3>2, <3>3, <3>4 DEF MemorySafe
    <2>17. Fresh'
      <3> SUFFICES ASSUME NEW m \in Message, NEW p \in Peer,
                          origin[m] = Unsent \/ p \in todo[m]
                   PROVE  Untouched(PacketTo(m, p))'
        BY <2>1 DEF Fresh
      <3>1. Untouched(PacketTo(m, p)) /\ PacketTo(m, p) \in Packet
        BY Packets DEF Fresh
      <3>2. PacketTo(m, p) # x
        BY <3>1, <2>3 DEF Untouched
      <3> QED
        BY <3>1, <3>2, <2>1, <2>3, <2>11, <2>14 DEF Untouched
    <2>18. RequestsSound'
      <3> SUFFICES ASSUME NEW p \in Peer
                   PROVE  /\ Distinct(request'[p])
                          /\ \A y \in ElementsOf(request'[p]) : y.peer = p /\ timer'[y] <= MaxDelay
        BY DEF RequestsSound
      <3>1. \A y \in ElementsOf(request[p]) : y \in Packet /\ y # x
        BY <2>5, <2>15, RequestedOfPeer
      <3>2. \A y \in ElementsOf(request[p]) : y.peer = p /\ timer'[y] <= MaxDelay
        BY <3>1, <2>14 DEF RequestsSound
      <3>3. CASE p # x.peer
        BY <3>2, <3>3, <2>8 DEF RequestsSound
      <3>4. CASE p = x.peer
        <4>1. timer'[x] <= MaxDelay
          BY <2>14, FloodingOutputAssumption
        <4> QED
          BY <3>2, <3>4, <4>1, <2>10
      <3> QED
        BY <3>3, <3>4
    <2> QED
      BY <2>12, <2>13, <2>16, <2>17, <2>18
  <1> QED
    BY <1>1, <1>2

\* The core's oldest request of p leaves it.
LEMMA OldestRequest ==
    ASSUME Inv, NEW p \in Peer, request[p] # <<>>, request' = [request EXCEPT ![p] = Tail(@)]
    PROVE  /\ Head(request[p]) \in Packet /\ Head(request[p]) \in ElementsOf(request[p])
           /\ request' \in [Peer -> Seq(Packet)]
           /\ ElementsOf(request'[p]) = ElementsOf(request[p]) \ {Head(request[p])}
           /\ \A q \in Peer : Distinct(request'[q])
                              /\ ElementsOf(request'[q]) \subseteq ElementsOf(request[q])
  <1>1. request[p] \in Seq(Packet) /\ Distinct(request[p])
    BY DEF Inv, TypeOK, RequestsSound
  <1>2. /\ Tail(request[p]) \in Seq(Packet)
        /\ Head(request[p]) \in Packet /\ Head(request[p]) \in ElementsOf(request[p])
        /\ ElementsOf(Tail(request[p])) = ElementsOf(request[p]) \ {Head(request[p])}
        /\ Distinct(Tail(request[p]))
    BY <1>1, TailElements
  <1>3. request'[p] = Tail(request[p]) /\ \A q \in Peer : q # p => request'[q] = request[q]
    BY DEF Inv, TypeOK
  <1>4. request' \in [Peer -> Seq(Packet)]
    BY <1>2 DEF Inv, TypeOK
  <1> QED
    BY <1>2, <1>3, <1>4 DEF Inv, RequestsSound

LEMMA NotifyTransmitReadyInv ==
    ASSUME Inv, NEW p \in Peer, NotifyTransmitReady(p)
    PROVE  Inv'
  <1>1. request[p] # <<>> /\ request' = [request EXCEPT ![p] = Tail(@)]
    BY DEF NotifyTransmitReady
  <1>2. TypeOK'
    BY <1>1, OldestRequest DEF NotifyTransmitReady, Inv, TypeOK
  <1> QED
    BY <1>1, <1>2, OldestRequest, FewerRequestsInv DEF NotifyTransmitReady

LEMMA RequestTimeoutInv ==
    ASSUME Inv, NEW p \in Peer, RequestTimeout(p)
    PROVE  Inv'
  <1>1. request[p] # <<>> /\ request' = [request EXCEPT ![p] = Tail(@)]
    BY DEF RequestTimeout
  <1>2. TypeOK'
    BY <1>1, OldestRequest DEF RequestTimeout, Inv, TypeOK
  <1> QED
    BY <1>1, <1>2, OldestRequest, FewerRequestsInv DEF RequestTimeout

\* A packet that is due to be freed is not used any more: the core has given it up a
\* second ago at the latest.
LEMMA FreeTaskInv ==
    ASSUME Inv, NEW x \in Packet, QueuedMessageFreeTask(x)
    PROVE  Inv'
  <1> USE DEF Inv
  <1>1. /\ timer[x] = FreeDelay /\ timer' = [timer EXCEPT ![x] = Off]
        /\ freed' = freed \cup {x}
        /\ UNCHANGED <<connected, origin, copy, todo, queue, tasks, request, arrived, dropped>>
    BY DEF QueuedMessageFreeTask
  <1>2. timer'[x] = Off /\ \A y \in Packet : y # x => timer'[y] = timer[y]
    BY <1>1 DEF TypeOK
  <1>3. FreeDelay # Off /\ ~(FreeDelay <= MaxDelay)
    BY FloodingOutputAssumption DEF FreeDelay, Off
  <1>4. x \notin Requested
    BY <1>1, <1>3, RequestedOfPeer DEF RequestsSound
  <1>5. x \notin ElementsOf(queue)
    BY <1>1, <1>3 DEF MemorySafe
  <1>6. Requested' = Requested
    BY <1>1 DEF Requested
  <1>7. \A y \in Requested \cup ElementsOf(queue) : y \in Packet
    BY RequestedOfPeer DEF TypeOK, ElementsOf
  <1>8. TypeOK'
    BY <1>1, FloodingOutputAssumption DEF TypeOK, Off, FreeDelay
  <1>9. NeverStuck'
    BY <1>1 DEF NeverStuck
  <1>10. MemorySafe'
    <2>1. \A y \in Requested' : y \notin freed' /\ timer'[y] # Off
      BY <1>1, <1>2, <1>4, <1>6, <1>7 DEF MemorySafe
    <2>2. \A y \in ElementsOf(queue') : y \notin freed' /\ timer'[y] = Off
      BY <1>1, <1>2, <1>5, <1>7 DEF MemorySafe
    <2>3. \A y \in Packet : timer'[y] # Off => y \notin freed'
      BY <1>1, <1>2 DEF MemorySafe
    <2> QED
      BY <1>1, <2>1, <2>2, <2>3 DEF MemorySafe
  <1>11. Fresh'
    <2> SUFFICES ASSUME NEW m \in Message, NEW p \in Peer, origin[m] = Unsent \/ p \in todo[m]
                 PROVE  Untouched(PacketTo(m, p))'
      BY <1>1 DEF Fresh
    <2>1. Untouched(PacketTo(m, p)) /\ PacketTo(m, p) \in Packet
      BY Packets DEF Fresh
    <2>2. PacketTo(m, p) # x
      BY <2>1, <1>1, <1>3 DEF Untouched
    <2> QED
      BY <2>1, <2>2, <1>1, <1>2, <1>6 DEF Untouched
  <1>12. RequestsSound'
    <2> SUFFICES ASSUME NEW p \in Peer, NEW y \in ElementsOf(request[p])
                 PROVE  y.peer = p /\ timer'[y] <= MaxDelay
      BY <1>1 DEF RequestsSound
    <2>1. y \in Packet /\ y # x
      BY <1>4, <1>7, RequestedOfPeer
    <2> QED
      BY <2>1, <1>2 DEF RequestsSound
  <1> QED
    BY <1>8, <1>9, <1>10, <1>11, <1>12

LEMMA TickInv ==
    ASSUME Inv, Tick
    PROVE  Inv'
  <1> USE DEF Inv
  <1>1. /\ \A x \in Packet : timer[x] < FreeDelay
        /\ \A x \in Requested : timer[x] < MaxDelay
        /\ timer' = [x \in Packet |-> IF timer[x] = Off THEN Off ELSE timer[x] + 1]
        /\ UNCHANGED <<connected, origin, copy, todo, queue, tasks, request, freed,
                       arrived, dropped>>
    BY DEF Tick
  <1>2. Requested' = Requested
    BY <1>1 DEF Requested
  <1>3. \A y \in Requested \cup ElementsOf(queue) : y \in Packet
    BY RequestedOfPeer DEF TypeOK, ElementsOf
  <1>4. \A x \in Packet : timer[x] \in Off .. FreeDelay
    BY DEF TypeOK
  <1>5. TypeOK'
    <2>1. timer' \in [Packet -> Off .. FreeDelay]
      BY <1>1, <1>4, FloodingOutputAssumption DEF Off, FreeDelay
    <2> QED
      BY <1>1, <2>1 DEF TypeOK
  <1>6. \A x \in Packet : timer'[x] = Off <=> timer[x] = Off
    BY <1>1, <1>4, FloodingOutputAssumption DEF Off, FreeDelay
  <1>7. MemorySafe'
    BY <1>1, <1>2, <1>3, <1>6 DEF MemorySafe
  <1>8. Fresh'
    BY <1>1, <1>2, <1>6, Packets DEF Fresh, Untouched
  <1>9. RequestsSound'
    <2> SUFFICES ASSUME NEW p \in Peer, NEW y \in ElementsOf(request[p])
                 PROVE  y.peer = p /\ timer'[y] <= MaxDelay
      BY <1>1 DEF RequestsSound
    <2>1. y \in Packet /\ y \in Requested
      BY <1>3, RequestedOfPeer
    <2>2. timer[y] < MaxDelay /\ y.peer = p
      BY <2>1, <1>1 DEF RequestsSound
    <2> QED
      BY <2>1, <2>2, <1>1, <1>4, FloodingOutputAssumption DEF Off, FreeDelay
  <1> QED
    BY <1>1, <1>5, <1>7, <1>8, <1>9 DEF NeverStuck

LEMMA NextInv ==
    ASSUME Inv, [Next]_vars
    PROVE  Inv'
  <1>1. CASE UNCHANGED vars
    <2>1. UNCHANGED vars => Requested' = Requested
      BY DEF vars, Requested
    <2> QED
      BY <1>1, <2>1 DEF vars, Inv, TypeOK, NeverStuck, MemorySafe, Fresh, RequestsSound, Untouched
  <1>2. CASE Next
    BY <1>2, ConnectInv, DisconnectInv, DataFloodInv, EndOfTTLInv, RelayInv,
       PeerIterateHandlerInv, PeerIterateEndInv, TransmitNextInv, NotifyTransmitReadyInv,
       RequestTimeoutInv, FreeTaskInv, TickInv DEF Next
  <1> QED
    BY <1>1, <1>2

LEMMA InvariantInv == Spec => []Inv
  <1>1. Init => Inv
    BY InitInv
  <1>2. Inv /\ [Next]_vars => Inv'
    BY NextInv
  <1> QED
    BY <1>1, <1>2, PTL DEF Spec

\* The variables of the flooding component's output are well typed.
THEOREM OutputTypes == Spec => []TypeOK
  <1>1. Inv => TypeOK
    BY DEF Inv
  <1> QED
    BY <1>1, InvariantInv, PTL

\* However many messages there are, and whatever the core does with them, none of
\* them waits in the queue without a transmit task to come.
THEOREM OutputNeverStuck == Spec => []NeverStuck
  <1>1. Inv => NeverStuck
    BY DEF Inv
  <1> QED
    BY <1>1, InvariantInv, PTL

\* No packet is freed twice or while the queue or the core refers to it, and no
\* iteration uses a copy that was freed.
THEOREM OutputMemorySafe == Spec => []MemorySafe
  <1>1. Inv => MemorySafe
    BY DEF Inv
  <1> QED
    BY <1>1, InvariantInv, PTL

-------------------------------------------------------------------------------

\* The packets an iteration has yet to send.
ToSend(x) == \E m \in Message : \E p \in todo[m] \ {origin[m]} : x = PacketTo(m, p)

LEMMA InFlightMember ==
    \A x : x \in InFlight <=> ToSend(x) \/ x \in ElementsOf(queue) \/ x \in Requested
  BY DEF InFlight, ToSend

\* A packet is on its way in one place only.
LEMMA OnePlace ==
    ASSUME Inv
    PROVE  \A x : /\ ToSend(x) => x \notin ElementsOf(queue) /\ x \notin Requested
                  /\ x \in ElementsOf(queue) => x \notin Requested
  <1>1. \A x : ToSend(x) => x \notin ElementsOf(queue) /\ x \notin Requested
    BY DEF ToSend, Inv, TypeOK, Fresh, Untouched
  <1>2. \A x \in ElementsOf(queue) : x \notin Requested
    BY DEF Inv, MemorySafe
  <1> QED
    BY <1>1, <1>2

LEMMA InFlightPackets ==
    ASSUME TypeOK
    PROVE  \A x \in InFlight : x \in Packet
  <1>1. \A x : ToSend(x) => x \in Packet
    BY Packets DEF ToSend, TypeOK
  <1>2. \A x \in ElementsOf(queue) : x \in Packet
    BY DEF TypeOK, ElementsOf
  <1>3. \A x \in Requested : x \in Packet
    BY RequestedOfPeer DEF TypeOK, ElementsOf
  <1> QED
    BY <1>1, <1>2, <1>3, InFlightMember

\* Packets that leave the core and go nowhere else are no longer on their way.
LEMMA LeaveCore ==
    ASSUME Inv, UNCHANGED <<origin, todo, queue>>, NEW p \in Peer, NEW gone,
           gone \subseteq ElementsOf(request[p]),
           request' \in [Peer -> Seq(Packet)],
           ElementsOf(request'[p]) = ElementsOf(request[p]) \ gone,
           \A q \in Peer : q # p => request'[q] = request[q]
    PROVE  /\ gone \subseteq InFlight /\ gone \subseteq Packet
           /\ InFlight' = InFlight \ gone
  <1>1. \A x : x \in Requested' <=> \E q \in Peer : x \in ElementsOf(request'[q])
    BY DEF Requested
  <1>2. \A q \in Peer : q # p => gone \cap ElementsOf(request[q]) = {}
    BY DEF Inv, RequestsSound
  <1>3. Requested' = Requested \ gone
    BY <1>1, <1>2, RequestedOfPeer
  <1>4. gone \subseteq Requested
    BY RequestedOfPeer
  <1>5. \A x : x \in InFlight' <=> ToSend(x) \/ x \in ElementsOf(queue) \/ x \in Requested'
    BY DEF InFlight, ToSend
  <1>6. InFlight' = InFlight \ gone
    BY <1>3, <1>4, <1>5, OnePlace, InFlightMember
  <1> QED
    BY <1>4, <1>6, InFlightMember, InFlightPackets DEF Inv

LEMMA DisconnectImplements ==
    ASSUME Inv, NEW p \in Peer, Disconnect(p)
    PROVE  Bag!Next
  <1> DEFINE gone == ElementsOf(request[p])
  <1>1. request'[p] = <<>> /\ \A q \in Peer : q # p => request'[q] = request[q]
    BY DEF Disconnect, Inv, TypeOK
  <1>2. ElementsOf(request'[p]) = gone \ gone
    BY <1>1, EmptyElements
  <1>3. request' \in [Peer -> Seq(Packet)]
    BY DEF Disconnect, Inv, TypeOK
  <1>4. /\ gone \subseteq InFlight /\ gone \subseteq Packet
        /\ InFlight' = InFlight \ gone
    BY <1>1, <1>2, <1>3, LeaveCore DEF Disconnect
  <1>5. Bag!Lose(gone) /\ gone \in SUBSET Bag!Packet
    BY <1>4 DEF Disconnect, Bag!Lose, Bag!Packet, Packet
  <1> QED
    BY <1>5 DEF Bag!Next

LEMMA DataFloodImplements ==
    ASSUME Inv, NEW m \in Flooded, NEW sender \in Peer \cup {None}, DataFlood(m, sender)
    PROVE  Bag!Next
  <1> DEFINE receivers == connected \ {sender}
             sent == {PacketTo(m, p) : p \in receivers}
  <1>1. m \in Message /\ receivers \in SUBSET Peer /\ receivers \subseteq Peer \ {sender}
    BY FloodingOutputAssumption DEF Inv, TypeOK
  <1>2. /\ origin[m] = Unsent /\ todo[m] = {}
        /\ origin'[m] = sender /\ todo'[m] = connected
        /\ \A n \in Message : n # m => origin'[n] = origin[n] /\ todo'[n] = todo[n]
    BY <1>1 DEF DataFlood, Inv, TypeOK, Fresh
  <1>3. \A x : ToSend(x)' <=> ToSend(x) \/ x \in sent
    BY <1>1, <1>2 DEF ToSend
  <1>4. Requested' = Requested /\ queue' = queue
    BY DEF DataFlood, Requested
  <1>5. \A x : x \in InFlight' <=> ToSend(x)' \/ x \in ElementsOf(queue') \/ x \in Requested'
    BY DEF InFlight, ToSend
  <1>6. InFlight' = InFlight \cup sent
    BY <1>3, <1>4, <1>5, InFlightMember
  <1>7. Bag!Send(m, sender, receivers)
    BY <1>1, <1>6 DEF DataFlood, Bag!Send, PacketTo
  <1> QED
    BY <1>1, <1>7 DEF Bag!Next

LEMMA EndOfTTLImplements ==
    ASSUME Inv, NEW m \in Flooded, EndOfTTL(m)
    PROVE  Bag!Next
  <1>1. m \in Message /\ None \in Peer \cup {None}
    BY FloodingOutputAssumption
  <1>2. /\ todo[m] = {} /\ todo' = todo
        /\ \A n \in Message : n # m => origin'[n] = origin[n]
    BY <1>1 DEF EndOfTTL, Inv, TypeOK, Fresh
  <1>3. \A x : ToSend(x)' <=> ToSend(x)
    BY <1>2 DEF ToSend
  <1>4. Requested' = Requested /\ queue' = queue
    BY DEF EndOfTTL, Requested
  <1>5. \A x : x \in InFlight' <=> ToSend(x)' \/ x \in ElementsOf(queue') \/ x \in Requested'
    BY DEF InFlight, ToSend
  <1>6. InFlight' = InFlight
    BY <1>3, <1>4, <1>5, InFlightMember
  <1>7. Bag!Send(m, None, {})
    BY <1>6 DEF EndOfTTL, Bag!Send
  <1> QED
    BY <1>1, <1>7 DEF Bag!Next

\* A packet that is sent is the one more in the queue.
LEMMA SentPacket ==
    ASSUME TypeOK, NEW x \in Packet, ToPeerMessageSend(x)
    PROVE  ElementsOf(queue') = ElementsOf(queue) \cup {x}
  BY AppendElements DEF TypeOK, ToPeerMessageSend

LEMMA RelayImplements ==
    ASSUME Inv, NEW m \in Message \ Flooded, NEW p \in Peer, Relay(m, p)
    PROVE  Bag!Next
  <1> DEFINE x == PacketTo(m, p)
  <1>1. /\ m \in Message /\ None \in Peer \cup {None}
        /\ {p} \in SUBSET Peer /\ {p} \subseteq Peer \ {None}
    BY FloodingOutputAssumption
  <1>2. ElementsOf(queue') = ElementsOf(queue) \cup {x}
    BY <1>1, Packets, SentPacket DEF Relay, Inv
  <1>3. /\ todo[m] = {} /\ todo' = todo
        /\ \A n \in Message : n # m => origin'[n] = origin[n]
    BY <1>1 DEF Relay, Inv, TypeOK, Fresh
  <1>4. \A y : ToSend(y)' <=> ToSend(y)
    BY <1>3 DEF ToSend
  <1>5. Requested' = Requested
    BY DEF Relay, Requested
  <1>6. \A y : y \in InFlight' <=> ToSend(y)' \/ y \in ElementsOf(queue') \/ y \in Requested'
    BY DEF InFlight, ToSend
  <1>7. InFlight' = InFlight \cup {PacketTo(m, q) : q \in {p}}
    BY <1>2, <1>4, <1>5, <1>6, InFlightMember
  <1>8. Bag!Send(m, None, {p})
    BY <1>1, <1>7 DEF Relay, Bag!Send, PacketTo
  <1> QED
    BY <1>1, <1>8 DEF Bag!Next

\* The iteration moves a packet from what it has to send into the queue.
LEMMA PeerIterateHandlerImplements ==
    ASSUME Inv, NEW m \in Message, NEW p \in Peer, PeerIterateHandler(m, p)
    PROVE  UNCHANGED Bag!vars
  <1> DEFINE x == PacketTo(m, p)
  <1>1. /\ p \in todo[m] /\ todo'[m] = todo[m] \ {p} /\ origin' = origin
        /\ \A n \in Message : n # m => todo'[n] = todo[n]
    BY DEF PeerIterateHandler, Inv, TypeOK
  <1>2. Requested' = Requested /\ arrived' = arrived
    BY DEF PeerIterateHandler, Requested
  <1>3. \A y : y \in InFlight' <=> ToSend(y)' \/ y \in ElementsOf(queue') \/ y \in Requested'
    BY DEF InFlight, ToSend
  <1>4. CASE p = origin[m]
    <2>1. queue' = queue
      BY <1>4 DEF PeerIterateHandler
    <2>2. \A n \in Message : todo'[n] \ {origin'[n]} = todo[n] \ {origin[n]}
      BY <1>1, <1>4
    <2>3. \A y : ToSend(y)' <=> ToSend(y)
      BY <2>2 DEF ToSend
    <2>4. InFlight' = InFlight
      BY <1>2, <1>3, <2>1, <2>3, InFlightMember
    <2> QED
      BY <1>1, <1>2, <2>4 DEF Bag!vars
  <1>5. CASE p # origin[m]
    <2>1. ElementsOf(queue') = ElementsOf(queue) \cup {x}
      BY <1>5, Packets, SentPacket DEF PeerIterateHandler, Inv
    <2>2. \A y : ToSend(y) <=> ToSend(y)' \/ y = x
      <3>1. ToSend(x)
        BY <1>1, <1>5 DEF ToSend
      <3>2. \A y : ToSend(y)' => ToSend(y)
        BY <1>1 DEF ToSend
      <3>3. ASSUME NEW n \in Message, NEW q \in todo[n] \ {origin[n]}, PacketTo(n, q) # x
            PROVE  ToSend(PacketTo(n, q))'
        <4>1. q \in todo'[n] \ {origin'[n]}
          BY <1>1, <3>3
        <4> QED
          BY <4>1 DEF ToSend
      <3> QED
        BY <3>1, <3>2, <3>3 DEF ToSend
    <2>3. InFlight' = InFlight
      BY <1>2, <1>3, <2>1, <2>2, InFlightMember
    <2> QED
      BY <1>1, <1>2, <2>3 DEF Bag!vars
  <1> QED
    BY <1>4, <1>5

\* A packet that leaves the queue is on its way still, or was lost.
LEMMA TransmitNextImplements ==
    ASSUME Inv, TransmitNext
    PROVE  [Bag!Next]_(Bag!vars)
  <1>1. UNCHANGED <<origin, todo, arrived>>
    BY DEF TransmitNext
  <1>2. \A y : /\ y \in InFlight' <=> ToSend(y)' \/ y \in ElementsOf(queue') \/ y \in Requested'
               /\ ToSend(y)' <=> ToSend(y)
    BY <1>1 DEF InFlight, ToSend
  <1>3. CASE queue = <<>>
    <2>1. queue' = queue /\ Requested' = Requested
      BY <1>3 DEF TransmitNext, Requested
    <2>2. InFlight' = InFlight
      BY <1>2, <2>1, InFlightMember
    <2> QED
      BY <1>1, <2>2 DEF Bag!vars
  <1>4. CASE queue # <<>>
    <2> DEFINE x == Head(queue)
    <2>1. queue' = Tail(queue) /\ HandOver(x)
      BY <1>4 DEF TransmitNext
    <2>2. queue \in Seq(Packet) /\ Distinct(queue)
      BY DEF Inv, TypeOK, MemorySafe, Distinct
    <2>3. /\ x \in Packet /\ x \in ElementsOf(queue)
          /\ ElementsOf(queue') = ElementsOf(queue) \ {x}
      BY <1>4, <2>1, <2>2, TailElements
    <2> HIDE DEF x
    <2>4. x.peer \in Peer
      BY <2>3 DEF Packet
    <2>5. CASE request' = request
      <3>1. Requested' = Requested
        BY <2>5 DEF Requested
      <3>2. InFlight' = InFlight \ {x}
        BY <1>2, <2>3, <3>1, InFlightMember, OnePlace
      <3>3. x \in InFlight
        BY <2>3, InFlightMember
      <3>4. Bag!Lose({x}) /\ {x} \in SUBSET Bag!Packet
        BY <1>1, <2>3, <3>2, <3>3 DEF Bag!Lose, Bag!Packet, Packet
      <3> QED
        BY <3>4 DEF Bag!Next
    <2>6. CASE request' = [request EXCEPT ![x.peer] = Append(@, x)]
      <3>1. request[x.peer] \in Seq(Packet)
        BY <2>4 DEF Inv, TypeOK
      <3>2. /\ request'[x.peer] = Append(request[x.peer], x)
            /\ \A p \in Peer : p # x.peer => request'[p] = request[p]
        BY <2>4, <2>6 DEF Inv, TypeOK
      <3>3. ElementsOf(request'[x.peer]) = ElementsOf(request[x.peer]) \cup {x}
        BY <2>3, <3>1, <3>2, AppendElements
      <3>4. \A y : y \in Requested' <=> \E p \in Peer : y \in ElementsOf(request'[p])
        BY DEF Requested
      <3>5. Requested' = Requested \cup {x}
        BY <2>4, <3>2, <3>3, <3>4, RequestedOfPeer
      <3>6. InFlight' = InFlight
        BY <1>2, <2>3, <3>5, InFlightMember
      <3> QED
        BY <1>1, <3>6 DEF Bag!vars
    <2> QED
      BY <2>1, <2>5, <2>6 DEF HandOver
  <1> QED
    BY <1>3, <1>4

\* The oldest request leaves the core and nothing else changes its place.
LEMMA OldestLeaves ==
    ASSUME Inv, NEW p \in Peer, request[p] # <<>>, request' = [request EXCEPT ![p] = Tail(@)],
           UNCHANGED <<origin, todo, queue>>
    PROVE  LET x == Head(request[p])
           IN  x \in InFlight /\ x \in Packet /\ InFlight' = InFlight \ {x}
  <1> DEFINE x == Head(request[p])
  <1>1. /\ x \in ElementsOf(request[p])
        /\ request' \in [Peer -> Seq(Packet)]
        /\ ElementsOf(request'[p]) = ElementsOf(request[p]) \ {x}
    BY OldestRequest
  <1>2. \A q \in Peer : q # p => request'[q] = request[q]
    BY DEF Inv, TypeOK
  <1> DEFINE gone == {x}
  <1>3. /\ gone \subseteq ElementsOf(request[p])
        /\ ElementsOf(request'[p]) = ElementsOf(request[p]) \ gone
    BY <1>1
  <1> HIDE DEF x, gone
  <1>4. gone \subseteq InFlight /\ gone \subseteq Packet /\ InFlight' = InFlight \ gone
    BY <1>1, <1>2, <1>3, LeaveCore
  <1> QED
    BY <1>4 DEF x, gone

LEMMA NotifyTransmitReadyImplements ==
    ASSUME Inv, NEW p \in Peer, NotifyTransmitReady(p)
    PROVE  Bag!Next
  <1> DEFINE x == Head(request[p])
  <1>1. x \in InFlight /\ x \in Packet /\ InFlight' = InFlight \ {x}
    BY OldestLeaves DEF NotifyTransmitReady
  <1>2. Bag!Deliver(x) /\ x \in Bag!Packet
    BY <1>1 DEF NotifyTransmitReady, Bag!Deliver, Bag!Packet, Packet
  <1> QED
    BY <1>2 DEF Bag!Next

LEMMA RequestTimeoutImplements ==
    ASSUME Inv, NEW p \in Peer, RequestTimeout(p)
    PROVE  Bag!Next
  <1> DEFINE x == Head(request[p])
  <1>1. x \in InFlight /\ x \in Packet /\ InFlight' = InFlight \ {x}
    BY OldestLeaves DEF RequestTimeout
  <1>2. Bag!Lose({x}) /\ {x} \in SUBSET Bag!Packet
    BY <1>1 DEF RequestTimeout, Bag!Lose, Bag!Packet, Packet
  <1> QED
    BY <1>2 DEF Bag!Next

\* The other steps change nothing that the bag is about.
LEMMA QuietImplements ==
    ASSUME UNCHANGED <<origin, todo, queue, request, arrived>>
    PROVE  UNCHANGED Bag!vars
  <1>1. InFlight' = InFlight
    BY DEF InFlight, Requested
  <1> QED
    BY <1>1 DEF Bag!vars

LEMMA BagStep ==
    ASSUME Inv, [Next]_vars
    PROVE  [Bag!Next]_(Bag!vars)
  <1>1. ASSUME NEW p \in Peer, Connect(p) \/ Disconnect(p)
        PROVE  [Bag!Next]_(Bag!vars)
    BY <1>1, QuietImplements, DisconnectImplements DEF Connect
  <1>2. ASSUME NEW m \in Flooded, NEW sender \in Peer \cup {None}, DataFlood(m, sender)
        PROVE  Bag!Next
    BY <1>2, DataFloodImplements
  <1>3. ASSUME NEW m \in Flooded, EndOfTTL(m) PROVE Bag!Next
    BY <1>3, EndOfTTLImplements
  <1>4. ASSUME NEW m \in Message \ Flooded, NEW p \in Peer, Relay(m, p) PROVE Bag!Next
    BY <1>4, RelayImplements
  <1>5. ASSUME NEW m \in Message, NEW p \in Peer, PeerIterateHandler(m, p)
        PROVE  UNCHANGED Bag!vars
    BY <1>5, PeerIterateHandlerImplements
  <1>6. ASSUME NEW m \in Message, PeerIterateEnd(m) PROVE UNCHANGED Bag!vars
    BY <1>6, QuietImplements DEF PeerIterateEnd
  <1>7. ASSUME NEW p \in Peer, NotifyTransmitReady(p) \/ RequestTimeout(p) PROVE Bag!Next
    BY <1>7, NotifyTransmitReadyImplements, RequestTimeoutImplements
  <1>8. ASSUME NEW x \in Packet, QueuedMessageFreeTask(x) PROVE UNCHANGED Bag!vars
    BY <1>8, QuietImplements DEF QueuedMessageFreeTask
  <1>9. Tick => UNCHANGED Bag!vars
    BY QuietImplements DEF Tick
  <1>10. UNCHANGED vars => UNCHANGED Bag!vars
    BY QuietImplements DEF vars
  <1> QED
    BY <1>1, <1>2, <1>3, <1>4, <1>5, <1>6, <1>7, <1>8, <1>9, <1>10, TransmitNextImplements
    DEF Next

\* With its iterations, queue, tasks, timers and the core's refusals the component
\* implements the bag of packets: a message gets to each of its receivers at most
\* once and never back to where it came from.
THEOREM OutputImplementsBag == Spec => ImplementsPacketBag
  <1>1. Init => Bag!Init
    <2> SUFFICES ASSUME Init PROVE Bag!Init
      OBVIOUS
    <2>1. ElementsOf(queue) = {} /\ \A p \in Peer : ElementsOf(request[p]) = {}
      BY EmptyElements DEF Init
    <2>2. \A x : ~ToSend(x)
      BY DEF Init, ToSend
    <2>3. InFlight = {}
      BY <2>1, <2>2, InFlightMember, RequestedOfPeer
    <2> QED
      BY <2>3 DEF Init, Bag!Init
  <1>2. Inv /\ [Next]_vars => [Bag!Next]_(Bag!vars)
    BY BagStep
  <1> QED
    BY <1>1, <1>2, InvariantInv, PTL DEF Spec, ImplementsPacketBag, Bag!Spec
===============================================================================
