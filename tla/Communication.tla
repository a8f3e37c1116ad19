---------------------------- MODULE Communication ----------------------------
(***************************************************************************)
(* One direction of the connection between a client and the service        *)
(* (communication/communication.c, used by both ends): the sender splits a *)
(* message into fragments, queues them and passes them to GNUnet one at a  *)
(* time; the receiver puts the fragments together again.                   *)
(*                                                                         *)
(* GNUnet is external.  As the code uses it, it holds at most one request  *)
(* to transmit, refuses a second one, calls transmit_ready when it can     *)
(* send, and drops a request it could not serve within max_delay without   *)
(* calling back.  The connection itself is reliable and keeps the order.   *)
(* A fragment is also the heap block that holds it.                        *)
(***************************************************************************)
EXTENDS Integers, Sequences

LOCAL INSTANCE SequencesExt

CONSTANTS Message,    \* bound: the messages, each transmitted at most once
          Size,       \* the size of each message
          MaxPayload, \* how much of a message fits into one fragment
          MaxDelay,   \* how long GNUnet tries to serve a request
          NoRequest,  \* GNUnet has no request to transmit
          Overlap,    \* may a message be transmitted while another is under way
          Stalls,     \* may GNUnet fail to serve a request in time
          Reconnects, \* may the client disconnect and another one connect
          Others      \* may other clients of the service disconnect

ASSUME CommunicationAssumption ==
    /\ Size \in [Message -> Nat \ {0}]
    /\ MaxPayload \in Nat \ {0}
    /\ MaxDelay \in Nat \ {0}
    /\ Overlap \in BOOLEAN /\ Stalls \in BOOLEAN /\ Reconnects \in BOOLEAN
    /\ Others \in BOOLEAN

VARIABLES
    queue,     \* gnunet_search_communication_message_queue
    tasks,     \* how many transmit_next tasks are scheduled with no delay
    request,   \* the fragment GNUnet is asked to transmit
    timer,     \* per fragment: how long its free task has been scheduled; Off
    freed,     \* the fragments whose memory was freed
    wire,      \* the fragments on the connection
    fragments, \* the receiver's queue of fragments
    sent,      \* history: the messages transmitted in this session
    used,      \* history: the messages transmitted in any session
    refused,   \* history: the fragments GNUnet refused
    delivered  \* history: the buffers passed to the listeners in this session

vars == <<queue, tasks, request, timer, freed, wire, fragments,
          sent, used, refused, delivered>>

-------------------------------------------------------------------------------

\* A byte is named by its message and its position.
Bytes(m) == [i \in 1 .. Size[m] |-> <<m, i>>]

\* The number of fragments of m: a last part that fills a fragment is not split.
Parts(m) == (Size[m] + MaxPayload - 1) \div MaxPayload

\* Mutant: a part overlaps the next by a byte.
FragmentOverlapping(m, i) ==
    [payload |-> SubSeq(Bytes(m), (i - 1) * MaxPayload + 1,
                        IF i < Parts(m) THEN i * MaxPayload + 1 ELSE Size[m]),
     fragmented |-> Parts(m) > 1,
     last |-> Parts(m) > 1 /\ i = Parts(m)]

\* transmit cuts from the front; fragmented is set once a part does not fit.
Fragment(m, i) ==
    [payload |-> SubSeq(Bytes(m), (i - 1) * MaxPayload + 1,
                        IF i < Parts(m) THEN i * MaxPayload ELSE Size[m]),
     fragmented |-> Parts(m) > 1,
     last |-> Parts(m) > 1 /\ i = Parts(m)]

Split(m) == [i \in 1 .. Parts(m) |-> Fragment(m, i)]

Fragments == UNION {{Fragment(m, i) : i \in 1 .. Parts(m)} : m \in Message}

ASSUME NoRequestAssumption == NoRequest \notin Fragments

\* Mutant: the free task runs before GNUnet has given up.
FreeDelayTooShort == MaxDelay - 1

\* The free task runs a second after GNUnet has given up on the request.
FreeDelay == MaxDelay + 1

Off == -1

\* The payloads of a sequence of fragments, put together.
Assembled(s) == FlattenSeq([i \in DOMAIN s |-> s[i].payload])

Queued == {queue[i] : i \in DOMAIN queue}

Idle == queue = <<>> /\ tasks = 0 /\ request = NoRequest

-------------------------------------------------------------------------------

Init ==
    /\ queue = <<>> /\ tasks = 0 /\ request = NoRequest
    /\ timer = [p \in Fragments |-> Off] /\ freed = {}
    /\ wire = <<>> /\ fragments = <<>>
    /\ sent = <<>> /\ used = {} /\ refused = {} /\ delivered = <<>>

\* gnunet_search_communication_transmit: one task, however many fragments.
Transmit(m) ==
    /\ m \notin used
    /\ Overlap \/ Idle
    /\ queue' = queue \o Split(m)
    /\ tasks' = tasks + 1
    /\ sent' = Append(sent, m)
    /\ used' = used \cup {m}
    /\ UNCHANGED <<request, timer, freed, wire, fragments, refused, delivered>>

\* The task dequeues a fragment, asks GNUnet to transmit it, ignores the answer
\* and schedules the free task.
TransmitNext ==
    /\ tasks > 0
    /\ tasks' = tasks - 1
    /\ IF queue = <<>>
       THEN UNCHANGED <<queue, request, timer, refused>>
       ELSE /\ queue' = Tail(queue)
            /\ timer' = [timer EXCEPT ![Head(queue)] = 0]
            /\ IF request = NoRequest
               THEN request' = Head(queue) /\ UNCHANGED refused
               ELSE refused' = refused \cup {Head(queue)} /\ UNCHANGED request
    /\ UNCHANGED <<freed, wire, fragments, sent, used, delivered>>

\* Mutant: nobody sends the next fragment.
TransmitReadyAlone ==
    /\ request # NoRequest
    /\ wire' = Append(wire, request)
    /\ request' = NoRequest
    /\ UNCHANGED <<queue, tasks, timer, freed, fragments, sent, used, refused, delivered>>

\* GNUnet has room for the fragment (line 129 asserts that it never calls with less):
\* it is copied, and the next task scheduled.
TransmitReady ==
    /\ request # NoRequest
    /\ wire' = Append(wire, request)
    /\ request' = NoRequest
    /\ tasks' = tasks + 1
    /\ UNCHANGED <<queue, timer, freed, fragments, sent, used, refused, delivered>>

\* GNUnet gives up; nobody is told.
RequestTimeout ==
    /\ Stalls
    /\ request # NoRequest
    /\ timer[request] = MaxDelay
    /\ request' = NoRequest
    /\ UNCHANGED <<queue, tasks, timer, freed, wire, fragments, sent, used, refused, delivered>>

QueuedMessageFreeTask(p) ==
    /\ timer[p] = FreeDelay
    /\ timer' = [timer EXCEPT ![p] = Off]
    /\ freed' = freed \cup {p}
    /\ UNCHANGED <<queue, tasks, request, wire, fragments, sent, used, refused, delivered>>

\* Time passes for the free tasks, but not past a task or a timeout that is due.
Tick ==
    /\ tasks = 0
    /\ \E p \in Fragments : timer[p] # Off
    /\ \A p \in Fragments : timer[p] < FreeDelay
    /\ request # NoRequest => timer[request] < MaxDelay
    /\ timer' = [p \in Fragments |-> IF timer[p] = Off THEN Off ELSE timer[p] + 1]
    /\ UNCHANGED <<queue, tasks, request, freed, wire, fragments, sent, used, refused, delivered>>

\* gnunet_search_communication_receive.  Line 282 asserts that a message holds both
\* headers, as every fragment does.
Receive ==
    /\ wire # <<>>
    /\ wire' = Tail(wire)
    /\ LET p == Head(wire)
       IN  CASE p.fragmented /\ p.last ->
                  /\ delivered' = Append(delivered, Assembled(fragments) \o p.payload)
                  /\ fragments' = <<>>
             [] p.fragmented /\ ~p.last ->
                  /\ fragments' = Append(fragments, p)
                  /\ UNCHANGED delivered
             [] ~p.fragmented ->
                  /\ delivered' = Append(delivered, p.payload)
                  /\ UNCHANGED fragments
    /\ UNCHANGED <<queue, tasks, request, timer, freed, sent, used, refused>>

\* Mutants: the flush forgets the received fragments, or the memory of the queue.
DisconnectKeepingFragments ==
    /\ Reconnects
    /\ queue' = <<>>
    /\ freed' = freed \cup Queued
    /\ request' = NoRequest /\ wire' = <<>>
    /\ sent' = <<>> /\ delivered' = <<>>
    /\ UNCHANGED <<fragments, tasks, timer, used, refused>>

DisconnectLeaking ==
    /\ Reconnects
    /\ queue' = <<>> /\ fragments' = <<>>
    /\ request' = NoRequest /\ wire' = <<>>
    /\ sent' = <<>> /\ delivered' = <<>>
    /\ UNCHANGED <<tasks, timer, freed, used, refused>>

\* The client disconnects: GNUnet drops its connection and its request, and
\* gnunet_search_communication_flush empties both queues.  Scheduled tasks stay.
Disconnect ==
    /\ Reconnects
    /\ queue' = <<>>
    /\ freed' = freed \cup Queued
    /\ fragments' = <<>>
    /\ request' = NoRequest /\ wire' = <<>>
    /\ sent' = <<>> /\ delivered' = <<>>
    /\ UNCHANGED <<tasks, timer, used, refused>>

\* Another client of the service disconnects: the service flushes its queues whoever
\* it was (client-communication.c:209), its end being the one that sends or the one
\* that receives.  The connection and the request of this client stay.
OtherDisconnect ==
    /\ Others
    /\ \/ queue' = <<>> /\ freed' = freed \cup Queued /\ UNCHANGED fragments
       \/ fragments' = <<>> /\ UNCHANGED <<queue, freed>>
    /\ UNCHANGED <<tasks, request, timer, wire, sent, used, refused, delivered>>

Next ==
    \/ \E m \in Message : Transmit(m)
    \/ TransmitNext
    \/ TransmitReady
    \/ RequestTimeout
    \/ \E p \in Fragments : QueuedMessageFreeTask(p)
    \/ Tick
    \/ Receive
    \/ Disconnect
    \/ OtherDisconnect

Spec == Init /\ [][Next]_vars

\* The scheduler runs every task that is due, time passes, and what is on the
\* connection arrives.  Without Stalls GNUnet serves every request; with it,
\* only the timeout is certain.
Fairness ==
    /\ WF_vars(TransmitNext) /\ WF_vars(Receive)
    /\ \A p \in Fragments : WF_vars(QueuedMessageFreeTask(p))
    /\ WF_vars(Tick)
    /\ WF_vars(TransmitReady \/ RequestTimeout)
    /\ ~Stalls => WF_vars(TransmitReady)

FairSpec == Spec /\ Fairness

-------------------------------------------------------------------------------
(***************************************************************************)
(* Properties                                                              *)
(***************************************************************************)

TypeOK ==
    /\ queue \in Seq(Fragments) /\ wire \in Seq(Fragments) /\ fragments \in Seq(Fragments)
    /\ tasks \in Nat
    /\ request \in Fragments \cup {NoRequest}
    /\ timer \in [Fragments -> Off .. FreeDelay]
    /\ freed \subseteq Fragments /\ refused \subseteq Fragments
    /\ sent \in Seq(Message) /\ used \subseteq Message
    /\ \A i \in DOMAIN delivered : delivered[i] \in Seq(Message \X Nat)

\* The memory of a fragment is freed once, and not while the queue or GNUnet still
\* refers to it: the free task comes after GNUnet has given up, and a flush frees
\* only what no free task will free.
MemorySafe ==
    /\ request # NoRequest => request \notin freed
    /\ \A p \in Queued : p \notin freed /\ timer[p] = Off /\ p # request
    /\ \A p \in Fragments : timer[p] # Off => p \notin freed
    /\ \A i, j \in DOMAIN queue : queue[i] = queue[j] => i = j

\* Every fragment is freed, whether it was transmitted, refused or flushed.
NothingLeaks == \A p \in Fragments : p \in Queued ~> p \in freed

\* x was transmitted before y.
Before(x, y) ==
    \/ \E i, j \in DOMAIN sent : i < j /\ sent[i] = x[1] /\ sent[j] = y[1]
    \/ x[1] = y[1] /\ x[2] < y[2]

\* Whatever is lost on the way, a listener never gets a byte twice, and the bytes of
\* a buffer are in the order in which they were transmitted.
BytesInOrder ==
    \A i, j \in DOMAIN delivered :
        \A k \in DOMAIN delivered[i], l \in DOMAIN delivered[j] :
            /\ i = j /\ k < l => Before(delivered[i][k], delivered[j][l])
            /\ delivered[i][k] = delivered[j][l] => i = j /\ k = l

\* A listener gets what was transmitted: whole messages, in order, and after a
\* reconnect nothing of the session before.
Channel == INSTANCE MessageChannel WITH Content <- [m \in Message |-> Bytes(m)]

ImplementsChannel == Channel!Spec

\* A message that is transmitted arrives, unless the client disconnects.
Arrives ==
    \A m \in Message :
        (\E i \in DOMAIN sent : sent[i] = m) ~>
            \/ \E i \in DOMAIN delivered : delivered[i] = Bytes(m)
            \/ sent = <<>>

\* The size a listener gets is the size in the header of the message
\* (client-communication.c:141 and gnunet-search.c:81 assert it).
SizeMatches ==
    \A i \in DOMAIN delivered : \E m \in Message : delivered[i] = Bytes(m)
===============================================================================
