---------------------------- MODULE FloodingOutput ----------------------------
(***************************************************************************)
(* How the flooding component of one node gets its messages to its         *)
(* neighbours (service/flooding/flooding.c): a request is flooded by an    *)
(* asynchronous iteration over the peers, a response goes to one peer; a   *)
(* message for a peer waits in the output queue, and a task per message    *)
(* hands it to the core.                                                   *)
(*                                                                         *)
(* The core is external.  As the code uses it, it keeps up to CoreQueue    *)
(* requests to transmit per peer, in order, refuses one for a peer that is *)
(* not connected or has too many, forgets those of a peer that             *)
(* disconnects, and gives one up after MaxDelay without calling back.      *)
(* A packet is also the heap block that holds it.                          *)
(***************************************************************************)
EXTENDS Integers, Sequences

CONSTANTS Message,   \* bound: the messages, each sent once
          Flooded,   \* those that are requests; the others are responses
          Peer,      \* the other peers
          None,      \* the NULL sender of a local request
          Unsent,    \* a message that was not sent so far
          CoreQueue, \* how many requests the core keeps per peer: 42
          MaxDelay   \* how long the core tries to serve one: a minute

ASSUME FloodingOutputAssumption ==
    /\ Flooded \subseteq Message
    /\ None \notin Peer /\ Unsent \notin Peer \cup {None}
    /\ CoreQueue \in Nat \ {0}
    /\ MaxDelay \in Nat \ {0}

VARIABLES
    connected, \* the peers the core is connected to
    origin,    \* per message: where it came from (parameters->sender); Unsent
    copy,      \* per message: what became of the block it is flooded from
    todo,      \* per message: the peers its iteration has yet to come to
    queue,     \* gnunet_search_flooding_message_queue
    tasks,     \* how many transmit_next tasks are scheduled with no delay
    request,   \* per peer: the packets the core is asked to transmit
    timer,     \* per packet: how long its free task has been scheduled; Off
    freed,     \* the packets whose memory was freed
    arrived,   \* history: the packets that were transmitted
    dropped    \* history: the packets the core refused, forgot or gave up

vars == <<connected, origin, copy, todo, queue, tasks, request, timer, freed,
          arrived, dropped>>

-------------------------------------------------------------------------------

Packet == [message: Message, peer: Peer]

PacketTo(m, p) == [message |-> m, peer |-> p]

Off == -1

\* Mutant: the free task runs before the core has given up.
FreeDelayTooShort == MaxDelay - 1

\* The free task runs a second after the core has given up.
FreeDelay == MaxDelay + 1

ElementsOf(s) == {s[i] : i \in DOMAIN s}

Requested == UNION {ElementsOf(request[p]) : p \in Peer}

\* Mutant: messages are queued, but only the first of them gets a task.
ToPeerMessageSendOneTask(packet) ==
    /\ queue' = Append(queue, packet)
    /\ tasks' = IF queue = <<>> /\ tasks = 0 THEN 1 ELSE tasks

\* gnunet_search_flooding_to_peer_message_send: every message gets its own task.
ToPeerMessageSend(packet) ==
    /\ queue' = Append(queue, packet)
    /\ tasks' = tasks + 1

-------------------------------------------------------------------------------

Init ==
    /\ connected = {}
    /\ origin = [m \in Message |-> Unsent]
    /\ copy = [m \in Message |-> "none"]
    /\ todo = [m \in Message |-> {}]
    /\ queue = <<>> /\ tasks = 0
    /\ request = [p \in Peer |-> <<>>]
    /\ timer = [x \in Packet |-> Off]
    /\ freed = {} /\ arrived = {} /\ dropped = {}

Connect(p) ==
    /\ p \notin connected
    /\ connected' = connected \cup {p}
    /\ UNCHANGED <<origin, copy, todo, queue, tasks, request, timer, freed, arrived, dropped>>

\* The core forgets what it was to transmit to p; nobody is told.
Disconnect(p) ==
    /\ p \in connected
    /\ connected' = connected \ {p}
    /\ request' = [request EXCEPT ![p] = <<>>]
    /\ dropped' = dropped \cup ElementsOf(request[p])
    /\ UNCHANGED <<origin, copy, todo, queue, tasks, timer, freed, arrived>>

\* gnunet_search_flooding_data_flood: the iteration over the peers starts with a
\* copy of the message.
DataFlood(m, sender) ==
    /\ origin[m] = Unsent
    /\ origin' = [origin EXCEPT ![m] = sender]
    /\ copy' = [copy EXCEPT ![m] = "held"]
    /\ todo' = [todo EXCEPT ![m] = connected]
    /\ UNCHANGED <<connected, queue, tasks, request, timer, freed, arrived, dropped>>

\* A request whose ttl ran out was copied before that was known.
EndOfTTL(m) ==
    /\ origin[m] = Unsent
    /\ origin' = [origin EXCEPT ![m] = None]
    /\ copy' = [copy EXCEPT ![m] = "lost"]
    /\ UNCHANGED <<connected, todo, queue, tasks, request, timer, freed, arrived, dropped>>

\* A response is relayed to one peer and the copy freed at once.
Relay(m, p) ==
    /\ origin[m] = Unsent
    /\ origin' = [origin EXCEPT ![m] = None]
    /\ copy' = [copy EXCEPT ![m] = "freed"]
    /\ ToPeerMessageSend(PacketTo(m, p))
    /\ UNCHANGED <<connected, todo, request, timer, freed, arrived, dropped>>

\* Mutant: the message also goes back to where it came from.
PeerIterateHandlerToSender(m, p) ==
    /\ p \in todo[m]
    /\ todo' = [todo EXCEPT ![m] = @ \ {p}]
    /\ ToPeerMessageSend(PacketTo(m, p))
    /\ UNCHANGED <<connected, origin, copy, request, timer, freed, arrived, dropped>>

\* The iteration comes to a peer; the sender is skipped.
PeerIterateHandler(m, p) ==
    /\ p \in todo[m]
    /\ todo' = [todo EXCEPT ![m] = @ \ {p}]
    /\ IF p = origin[m]
       THEN UNCHANGED <<queue, tasks>>
       ELSE ToPeerMessageSend(PacketTo(m, p))
    /\ UNCHANGED <<connected, origin, copy, request, timer, freed, arrived, dropped>>

\* The iteration ends with a NULL peer.
PeerIterateEnd(m) ==
    /\ copy[m] = "held" /\ todo[m] = {}
    /\ copy' = [copy EXCEPT ![m] = "freed"]
    /\ UNCHANGED <<connected, origin, todo, queue, tasks, request, timer, freed,
                   arrived, dropped>>

\* Mutant: only a packet that the core takes gets a free task.
HandOverLeaking(packet) ==
    LET p == packet.peer
    IN  IF p \in connected /\ Len(request[p]) < CoreQueue
        THEN /\ request' = [request EXCEPT ![p] = Append(@, packet)]
             /\ timer' = [timer EXCEPT ![packet] = 0]
             /\ UNCHANGED dropped
        ELSE /\ dropped' = dropped \cup {packet}
             /\ UNCHANGED <<request, timer>>

\* The core is asked to transmit a packet and may refuse, which the code does not
\* look at: the free task is scheduled in any case.
HandOver(packet) ==
    LET p == packet.peer
    IN  /\ timer' = [timer EXCEPT ![packet] = 0]
        /\ IF p \in connected /\ Len(request[p]) < CoreQueue
           THEN /\ request' = [request EXCEPT ![p] = Append(@, packet)]
                /\ UNCHANGED dropped
           ELSE /\ dropped' = dropped \cup {packet}
                /\ UNCHANGED request

\* Mutant: the task runs once more when the queue is empty.
TransmitNextUnscheduled ==
    /\ tasks > 0 \/ queue = <<>>
    /\ tasks' = tasks - 1
    /\ IF queue = <<>>
       THEN UNCHANGED <<queue, request, timer, dropped>>
       ELSE queue' = Tail(queue) /\ HandOver(Head(queue))
    /\ UNCHANGED <<connected, origin, copy, todo, freed, arrived>>

\* gnunet_search_flooding_transmit_next: a packet leaves the queue, if there is one.
TransmitNext ==
    /\ tasks > 0
    /\ tasks' = tasks - 1
    /\ IF queue = <<>>
       THEN UNCHANGED <<queue, request, timer, dropped>>
       ELSE queue' = Tail(queue) /\ HandOver(Head(queue))
    /\ UNCHANGED <<connected, origin, copy, todo, freed, arrived>>

\* The core has room for the next packet of p; the packet is copied.
NotifyTransmitReady(p) ==
    /\ request[p] # <<>>
    /\ request' = [request EXCEPT ![p] = Tail(@)]
    /\ arrived' = arrived \cup {Head(request[p])}
    /\ tasks' = tasks + 1
    /\ UNCHANGED <<connected, origin, copy, todo, queue, timer, freed, dropped>>

\* The core gives up the oldest request of p; nobody is told.
RequestTimeout(p) ==
    /\ request[p] # <<>> /\ timer[Head(request[p])] = MaxDelay
    /\ request' = [request EXCEPT ![p] = Tail(@)]
    /\ dropped' = dropped \cup {Head(request[p])}
    /\ UNCHANGED <<connected, origin, copy, todo, queue, tasks, timer, freed, arrived>>

QueuedMessageFreeTask(x) ==
    /\ timer[x] = FreeDelay
    /\ timer' = [timer EXCEPT ![x] = Off]
    /\ freed' = freed \cup {x}
    /\ UNCHANGED <<connected, origin, copy, todo, queue, tasks, request, arrived, dropped>>

\* Time passes, but not past a task or a timeout that is due.
Tick ==
    /\ tasks = 0
    /\ \E x \in Packet : timer[x] # Off
    /\ \A x \in Packet : timer[x] < FreeDelay
    /\ \A x \in Requested : timer[x] < MaxDelay
    /\ timer' = [x \in Packet |-> IF timer[x] = Off THEN Off ELSE timer[x] + 1]
    /\ UNCHANGED <<connected, origin, copy, todo, queue, tasks, request, freed,
                   arrived, dropped>>

Next ==
    \/ \E p \in Peer : Connect(p) \/ Disconnect(p)
    \/ \E m \in Flooded, sender \in Peer \cup {None} : DataFlood(m, sender)
    \/ \E m \in Flooded : EndOfTTL(m)
    \/ \E m \in Message \ Flooded, p \in Peer : Relay(m, p)
    \/ \E m \in Message, p \in Peer : PeerIterateHandler(m, p)
    \/ \E m \in Message : PeerIterateEnd(m)
    \/ TransmitNext
    \/ \E p \in Peer : NotifyTransmitReady(p) \/ RequestTimeout(p)
    \/ \E x \in Packet : QueuedMessageFreeTask(x)
    \/ Tick

Spec == Init /\ [][Next]_vars

\* The iterations go on, the scheduler runs every task that is due, time passes,
\* and the core serves a request or gives it up.
Fairness ==
    /\ \A m \in Message : WF_vars((\E p \in Peer : PeerIterateHandler(m, p)) \/ PeerIterateEnd(m))
    /\ WF_vars(TransmitNext)
    /\ \A p \in Peer : WF_vars(NotifyTransmitReady(p) \/ RequestTimeout(p))
    /\ WF_vars(\E x \in Packet : QueuedMessageFreeTask(x))
    /\ WF_vars(Tick)

FairSpec == Spec /\ Fairness

-------------------------------------------------------------------------------
(***************************************************************************)
(* Properties                                                              *)
(***************************************************************************)

\* Every variable has its type.
TypeOK ==
    /\ connected \subseteq Peer
    /\ origin \in [Message -> Peer \cup {None, Unsent}]
    /\ copy \in [Message -> {"none", "held", "freed", "lost"}]
    /\ todo \in [Message -> SUBSET Peer]
    /\ queue \in Seq(Packet)
    /\ tasks \in Nat
    /\ request \in [Peer -> Seq(Packet)]
    /\ timer \in [Packet -> Off .. FreeDelay]
    /\ freed \subseteq Packet /\ arrived \subseteq Packet /\ dropped \subseteq Packet

\* A message in the queue always has a task to come for it, though tasks also run
\* for nothing: every message brings its own, and only a task takes one away.
NeverStuck == Len(queue) <= tasks

\* A packet is freed once, and not while the queue or the core still refers to it,
\* and an iteration never uses the copy of its message after it was freed.
MemorySafe ==
    /\ \A x \in Requested : x \notin freed /\ timer[x] # Off
    /\ \A x \in ElementsOf(queue) : x \notin freed /\ timer[x] = Off
    /\ \A i, j \in DOMAIN queue : queue[i] = queue[j] => i = j
    /\ \A x \in Packet : timer[x] # Off => x \notin freed
    /\ \A m \in Message : todo[m] # {} => copy[m] = "held"

\* The packets that are bound for a peer.
InFlight ==
    (UNION {{PacketTo(m, p) : p \in todo[m] \ {origin[m]}} : m \in Message})
        \cup ElementsOf(queue) \cup Requested

\* A message reaches each receiver once or is lost, and never returns to its sender:
\* with its iterations, queue, tasks and timers the component is what Flooding
\* takes it for.
Bag == INSTANCE PacketBag WITH inFlight <- InFlight, delivered <- arrived

ImplementsPacketBag == Bag!Spec

\* A packet in the queue gets transmitted unless the core drops it, and either way
\* its memory is freed in the end.
Drained ==
    \A x \in Packet : x \in ElementsOf(queue) ~> x \in freed \cap (arrived \cup dropped)
===============================================================================
