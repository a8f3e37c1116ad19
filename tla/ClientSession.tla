---------------------------- MODULE ClientSession ----------------------------
(***************************************************************************)
(* The sessions of clients with the service                                *)
(* (service/client-communication/client-communication.c): one client at a  *)
(* time, the mapping of flow ids to the request ids the client chose, and  *)
(* the flush at the end of a session.                                      *)
(*                                                                         *)
(* Both ends transmit with communication.c, of which Communication has the *)
(* bytes and the memory: a message is cut into pieces that are queued, a   *)
(* task takes one and asks GNUnet to transmit it.  GNUnet is external: it  *)
(* holds one request per connection and end, refuses a second one, or      *)
(* gives up one it cannot serve; in either case the piece is lost and      *)
(* nobody is told.  Here a search is one piece, an add command two and a   *)
(* response one.  The flooding component is external as well: it hands     *)
(* over answers to flows that were started.                                *)
(***************************************************************************)
EXTENDS FlowTable, FiniteSets, Sequences

CONSTANTS Client,    \* the clients, each connecting once
          Requests,  \* bound: per client, the requests it makes, in order
          Flow,      \* flow ids; a search draws a fresh one
          MaxAnswers,\* bound: how many answers a flow gets
          None       \* the NULL client; no request of GNUnet; a flow nobody asked for

Request == [action: {"search", "add"}, id: Nat]

\* A piece of a request on its way: all of it, its first or its last fragment.
Piece == [request: Request, part: {"whole", "first", "last"}]

Response == [type: {"result"}, id: Nat, flow: Flow] \cup [type: {"done"}, id: Nat]

Mapping == [flow_id: Flow, request_id: Nat]

ASSUME ClientSessionAssumption ==
    /\ Requests \in [Client -> Seq(Request)]
    /\ MaxAnswers \in Nat
    /\ None \notin Client \cup Piece \cup Response \cup [client: Client, id: Nat]
    /\ Blank \notin Mapping

VARIABLES
    connected, \* the clients with a connection to the service
    closing,   \* the clients whose connection GNUnet was told to close
    made,      \* per client: how many of its requests it has made
    commands,  \* per client: the pieces in its output queue
    sending,   \* per client: the piece GNUnet is asked to transmit
    timers,    \* per client: how many of its transmit_next tasks are scheduled
    wire,      \* per client: the pieces on its connection to the service
    client,    \* gnunet_search_client_communication_client
    mappings,  \* the ring of mappings from flow ids to request ids
    fragments, \* the pieces of a command received so far
    output,    \* the responses in the output queue of the service
    replying,  \* per client: the response GNUnet is asked to transmit to it
    tasks,     \* how many transmit_next tasks of the service are scheduled
    inbox,     \* per client: the responses it received
    asked,     \* history: per flow, the client and the request it answers
    answered,  \* history: per flow, how many answers arrived
    lost,      \* history: per client, the pieces and responses GNUnet did not take
    stalled,   \* history: GNUnet gave up, and the end it left may wait for ever
    cut,       \* history: a disconnect ended the session of another client
    failure    \* why the service is gone: a command of the wrong size, no client

sender == <<made, commands, sending, timers>>
receiver == <<client, mappings, fragments, asked, answered>>
replies == <<output, replying, tasks, inbox>>
history == <<lost, stalled, cut>>

vars == <<connected, closing, sender, wire, receiver, replies, history, failure>>

-------------------------------------------------------------------------------

Pieces(r) == IF r.action = "search"
             THEN <<[request |-> r, part |-> "whole"]>>
             ELSE <<[request |-> r, part |-> "first"], [request |-> r, part |-> "last"]>>

\* The request id a response to flow carries: 0 when it is mapped no more.
RequestId(table, flow) ==
    IF Contains(table, flow) THEN Lookup(table, flow).request_id ELSE 0

\* The response with an answer to flow.
Result(table, flow) == [type |-> "result", id |-> RequestId(table, flow), flow |-> flow]

Done(r) == [type |-> "done", id |-> r.id]

\* gnunet_search_communication_transmit on the side of the service.
Transmit(response) ==
    /\ output' = Append(output, response)
    /\ tasks' = tasks + 1
    /\ UNCHANGED <<replying, inbox>>

-------------------------------------------------------------------------------

Init ==
    /\ connected = {} /\ closing = {}
    /\ made = [c \in Client |-> 0]
    /\ commands = [c \in Client |-> <<>>]
    /\ sending = [c \in Client |-> None]
    /\ timers = [c \in Client |-> 0]
    /\ wire = [c \in Client |-> <<>>]
    /\ client = None
    /\ mappings = EmptyTable
    /\ fragments = <<>>
    /\ output = <<>> /\ replying = [c \in Client |-> None] /\ tasks = 0
    /\ inbox = [c \in Client |-> {}]
    /\ asked = [f \in Flow |-> None]
    /\ answered = [f \in Flow |-> 0]
    /\ lost = [c \in Client |-> {}] /\ stalled = FALSE /\ cut = FALSE
    /\ failure = "none"

\* A client connects with its first request and makes more over the same
\* connection: the command line client just one, with id 0, the web client many.
\* All pieces of the request are queued, and one task is scheduled.
MakeRequest(c) ==
    /\ made[c] < Len(Requests[c])
    /\ made[c] = 0 \/ c \in connected \ closing
    /\ connected' = connected \cup {c}
    /\ made' = [made EXCEPT ![c] = @ + 1]
    /\ commands' = [commands EXCEPT ![c] = @ \o Pieces(Requests[c][made[c] + 1])]
    /\ timers' = [timers EXCEPT ![c] = @ + 1]
    /\ UNCHANGED <<closing, sending, wire, receiver, replies, history, failure>>

\* The task of a client takes a piece and asks GNUnet to transmit it, which refuses
\* while it has another one.
ClientTransmitNext(c) ==
    /\ c \in connected \ closing
    /\ timers[c] > 0
    /\ timers' = [timers EXCEPT ![c] = @ - 1]
    /\ IF commands[c] = <<>>
       THEN UNCHANGED <<commands, sending, lost>>
       ELSE /\ commands' = [commands EXCEPT ![c] = Tail(@)]
            /\ IF sending[c] = None
               THEN sending' = [sending EXCEPT ![c] = Head(commands[c])] /\ UNCHANGED lost
               ELSE /\ lost' = [lost EXCEPT ![c] = @ \cup {Head(commands[c])}]
                    /\ UNCHANGED sending
    /\ UNCHANGED <<connected, closing, made, wire, receiver, replies, stalled, cut, failure>>

\* GNUnet has room for the piece of a client, which schedules the next task.
ClientTransmitReady(c) ==
    /\ c \in connected \ closing
    /\ sending[c] # None
    /\ wire' = [wire EXCEPT ![c] = Append(@, sending[c])]
    /\ sending' = [sending EXCEPT ![c] = None]
    /\ timers' = [timers EXCEPT ![c] = @ + 1]
    /\ UNCHANGED <<connected, closing, made, commands, receiver, replies, history, failure>>

\* GNUnet gives up the piece of a client.
ClientTimeout(c) ==
    /\ c \in connected \ closing
    /\ sending[c] # None
    /\ sending' = [sending EXCEPT ![c] = None]
    /\ lost' = [lost EXCEPT ![c] = @ \cup {sending[c]}]
    /\ stalled' = TRUE
    /\ UNCHANGED <<connected, closing, made, commands, timers, wire, receiver, replies, cut,
                   failure>>

\* Mutant: only the first piece of a client is accepted.
AcceptsOnce(c) == client = None

\* gnunet_search_client_communication_message_handle: the service takes c for its
\* client if it has none or has c already.
Accepts(c) == client \in {None, c}

\* A piece of c arrives and is taken.
Take(c) ==
    /\ c \in connected \ closing
    /\ wire[c] # <<>> /\ Accepts(c)
    /\ client' = c
    /\ wire' = [wire EXCEPT ![c] = Tail(@)]

\* Mutant: the request is flooded before its flow is mapped.
HandleSearchMappedLate(c, flow) ==
    /\ Take(c)
    /\ Head(wire[c]).part = "whole"
    /\ asked[flow] = None
    /\ LET id == Head(wire[c]).request.id
       IN  /\ mappings' = Insert(mappings, [flow_id |-> flow, request_id |-> id])
           /\ asked' = [asked EXCEPT ![flow] = [client |-> c, id |-> id]]
    /\ \/ UNCHANGED <<replies, answered>>
       \/ /\ answered[flow] < MaxAnswers
          /\ answered' = [answered EXCEPT ![flow] = @ + 1]
          /\ Transmit(Result(mappings, flow))
    /\ UNCHANGED <<connected, closing, sender, fragments, history, failure>>

\* A whole search: a fresh flow id is mapped to the request id and flooded, which
\* searches this node first: its answer is there before the handler returns.
HandleSearch(c, flow) ==
    /\ Take(c)
    /\ Head(wire[c]).part = "whole"
    /\ asked[flow] = None
    /\ LET id == Head(wire[c]).request.id
       IN  /\ mappings' = Insert(mappings, [flow_id |-> flow, request_id |-> id])
           /\ asked' = [asked EXCEPT ![flow] = [client |-> c, id |-> id]]
    /\ \/ UNCHANGED <<replies, answered>>
       \/ /\ answered[flow] < MaxAnswers
          /\ answered' = [answered EXCEPT ![flow] = @ + 1]
          /\ Transmit(Result(mappings', flow))
    /\ UNCHANGED <<connected, closing, sender, fragments, history, failure>>

\* The first fragment of an add command is kept.
KeepFragment(c) ==
    /\ Take(c)
    /\ Head(wire[c]).part = "first"
    /\ fragments' = Append(fragments, Head(wire[c]))
    /\ UNCHANGED <<connected, closing, sender, mappings, asked, answered, replies, history,
                   failure>>

\* The last fragment completes it: the size has to be right, the URLs are put into
\* the DHT and the command is acknowledged.
HandleAdd(c) ==
    /\ Take(c)
    /\ Head(wire[c]).part = "last"
    /\ fragments' = <<>>
    /\ LET r == Head(wire[c]).request
       IN  IF Append(fragments, Head(wire[c])) = Pieces(r)
           THEN Transmit(Done(r)) /\ UNCHANGED failure
           ELSE failure' = "size" /\ UNCHANGED replies
    /\ UNCHANGED <<connected, closing, sender, mappings, asked, answered, history>>

\* Another client has the session: the piece of c is not processed, and GNUNET_NO
\* lets GNUnet close the connection, from which nothing more is read.
Refuse(c) ==
    /\ c \in connected \ closing
    /\ wire[c] # <<>> /\ ~Accepts(c)
    /\ wire' = [wire EXCEPT ![c] = <<>>]
    /\ closing' = closing \cup {c}
    /\ UNCHANGED <<connected, sender, receiver, replies, history, failure>>

\* Flooding hands over an answer to one of this node's flows; whoever asked may
\* have gone.
ReceiveAnswer(flow) ==
    /\ asked[flow] # None
    /\ answered[flow] < MaxAnswers
    /\ answered' = [answered EXCEPT ![flow] = @ + 1]
    /\ Transmit(Result(mappings, flow))
    /\ UNCHANGED <<connected, closing, sender, wire, client, mappings, fragments, asked,
                   history, failure>>

\* The task of the service takes a response and asks GNUnet to transmit it to whoever
\* is the client now, which refuses while it has another one for that client.
TransmitNext ==
    /\ tasks > 0
    /\ tasks' = tasks - 1
    /\ \/ output = <<>> /\ UNCHANGED <<output, replying, lost, failure>>
       \/ /\ output # <<>>
          /\ output' = Tail(output)
          /\ \/ client = None /\ failure' = "client" /\ UNCHANGED <<replying, lost>>
             \/ /\ client # None /\ replying[client] = None
                /\ replying' = [replying EXCEPT ![client] = Head(output)]
                /\ UNCHANGED <<lost, failure>>
             \/ /\ client # None /\ replying[client] # None
                /\ lost' = [lost EXCEPT ![client] = @ \cup {Head(output)}]
                /\ UNCHANGED <<replying, failure>>
    /\ UNCHANGED <<connected, closing, sender, wire, receiver, inbox, stalled, cut>>

\* GNUnet has room for the response to c, which schedules the next task.
TransmitReady(c) ==
    /\ replying[c] # None
    /\ inbox' = [inbox EXCEPT ![c] = @ \cup {replying[c]}]
    /\ replying' = [replying EXCEPT ![c] = None]
    /\ tasks' = tasks + 1
    /\ UNCHANGED <<connected, closing, sender, wire, receiver, output, history, failure>>

\* GNUnet gives up the response to c.
Timeout(c) ==
    /\ replying[c] # None
    /\ replying' = [replying EXCEPT ![c] = None]
    /\ lost' = [lost EXCEPT ![c] = @ \cup {replying[c]}]
    /\ stalled' = TRUE
    /\ UNCHANGED <<connected, closing, sender, wire, receiver, output, tasks, inbox, cut, failure>>

\* What GNUnet does when c disconnects: nothing more comes from it or goes to it.
Gone(c) ==
    /\ c \in connected
    /\ connected' = connected \ {c} /\ closing' = closing \ {c}
    /\ commands' = [commands EXCEPT ![c] = <<>>]
    /\ sending' = [sending EXCEPT ![c] = None]
    /\ timers' = [timers EXCEPT ![c] = 0]
    /\ wire' = [wire EXCEPT ![c] = <<>>]
    /\ replying' = [replying EXCEPT ![c] = None]

\* Mutants: the flush keeps the mappings, or the fragments.
DisconnectKeepingMappings(c) ==
    /\ Gone(c)
    /\ client' = None
    /\ cut' = (cut \/ client \notin {None, c})
    /\ fragments' = <<>> /\ output' = <<>>
    /\ UNCHANGED <<made, mappings, tasks, inbox, asked, answered, lost, stalled, failure>>

DisconnectKeepingFragments(c) ==
    /\ Gone(c)
    /\ client' = None
    /\ cut' = (cut \/ client \notin {None, c})
    /\ mappings' = [mappings EXCEPT !.length = 0, !.index = 0]
    /\ output' = <<>>
    /\ UNCHANGED <<made, fragments, tasks, inbox, asked, answered, lost, stalled, failure>>

\* A client disconnects, whichever it is: everything of the session is flushed, but
\* for the tasks and what GNUnet is asked to transmit to the other clients.
Disconnect(c) ==
    /\ Gone(c)
    /\ client' = None
    /\ cut' = (cut \/ client \notin {None, c})
    /\ mappings' = [mappings EXCEPT !.length = 0, !.index = 0]
    /\ fragments' = <<>> /\ output' = <<>>
    /\ UNCHANGED <<made, tasks, inbox, asked, answered, lost, stalled, failure>>

\* The service runs.
Runs == failure = "none"

Next ==
    /\ Runs
    /\ \/ \E c \in Client : MakeRequest(c)
       \/ \E c \in Client : ClientTransmitNext(c)
       \/ \E c \in Client : ClientTransmitReady(c)
       \/ \E c \in Client : ClientTimeout(c)
       \/ \E c \in Client, f \in Flow : HandleSearch(c, f)
       \/ \E c \in Client : KeepFragment(c)
       \/ \E c \in Client : HandleAdd(c)
       \/ \E c \in Client : Refuse(c)
       \/ \E f \in Flow : ReceiveAnswer(f)
       \/ TransmitNext
       \/ \E c \in Client : TransmitReady(c)
       \/ \E c \in Client : Timeout(c)
       \/ \E c \in Client : Disconnect(c)

Spec == Init /\ [][Next]_vars

\* The event loops of the clients and the service run the tasks and handle what
\* arrives, and GNUnet serves a request or gives it up.
Fairness ==
    /\ \A c \in Client :
          /\ WF_vars(Runs /\ ClientTransmitNext(c))
          /\ WF_vars(Runs /\ (ClientTransmitReady(c) \/ ClientTimeout(c)))
          /\ WF_vars(Runs /\ ((\E f \in Flow : HandleSearch(c, f)) \/ KeepFragment(c)
                               \/ HandleAdd(c) \/ Refuse(c)))
          /\ WF_vars(Runs /\ (TransmitReady(c) \/ Timeout(c)))
    /\ WF_vars(Runs /\ TransmitNext)

FairSpec == Spec /\ Fairness

-------------------------------------------------------------------------------
(***************************************************************************)
(* Properties                                                              *)
(***************************************************************************)

TypeOK ==
    /\ connected \subseteq Client /\ closing \subseteq Client
    /\ made \in [Client -> Nat] /\ \A c \in Client : made[c] <= Len(Requests[c])
    /\ commands \in [Client -> Seq(Piece)] /\ wire \in [Client -> Seq(Piece)]
    /\ sending \in [Client -> Piece \cup {None}] /\ timers \in [Client -> Nat]
    /\ client \in Client \cup {None}
    /\ mappings \in FlowTableOf(Mapping)
    /\ fragments \in Seq(Piece)
    /\ output \in Seq(Response) /\ tasks \in Nat
    /\ replying \in [Client -> Response \cup {None}]
    /\ inbox \in [Client -> SUBSET Response]
    /\ asked \in [Flow -> [client: Client, id: Nat] \cup {None}]
    /\ answered \in [Flow -> 0 .. MaxAnswers]
    /\ lost \in [Client -> SUBSET (Piece \cup Response)]
    /\ stalled \in BOOLEAN /\ cut \in BOOLEAN
    /\ failure \in {"none", "size", "client"}

ResultsOf(c) == {r \in inbox[c] : r.type = "result"}

\* A response that names a request names one of the client that gets it: no session
\* sees the request ids of another, whatever is flushed in between by whom.
AnswersToAsker ==
    \A c \in Client : \A r \in ResultsOf(c) :
        r.id # 0 => asked[r.flow] = [client |-> c, id |-> r.id]

\* Nobody has disconnected so far, though others may have tried to connect.
Undisturbed == \A c \in Client : made[c] > 0 => c \in connected

\* The ring has room for every search.
Roomy == IsFiniteSet(Flow) /\ Cardinality(Flow) <= TableSize

\* protocol: "The service will use the same id for every answer to that request":
\* it does while the mapping is in the ring and no disconnect flushed it.
SameIdForEveryAnswer ==
    Undisturbed /\ Roomy =>
        \A c \in Client : \A r \in ResultsOf(c) : r.id = asked[r.flow].id

\* GNUnet has taken every piece of a command so far (and may have lost responses).
PiecesKept == \A c \in Client : lost[c] \cap Piece = {}

\* The fragments of a command are the whole command when the last one arrives, over
\* sessions that follow each other, end in the middle of a command or refuse clients
\* that send theirs in between: as long as GNUnet took every piece and only refused
\* clients that are still connected, or the client itself, end a session.
CommandsWhole == ~cut /\ PiecesKept => failure # "size"

\* An add command of the client that has the session is acknowledged to it, unless
\* somebody disconnects, GNUnet refuses a piece of that client or the acknowledgement,
\* or gives up a request, or a command is not whole.
Acknowledged ==
    \A c \in Client : \A i \in DOMAIN Requests[c] :
        (Undisturbed /\ client = c /\ made[c] >= i /\ Requests[c][i].action = "add") ~>
            \/ Done(Requests[c][i]) \in inbox[c]
            \/ ~Undisturbed \/ stalled \/ failure = "size"
            \/ \E p \in lost[c] : p \in Piece \/ p = Done(Requests[c][i])

\* client-communication.c:207: the client of a disconnect is "not used since only
\* one client is allowed to connect": a session ends when its client goes.
SessionKept == [][client # None /\ client' # client => client \notin connected']_vars

\* client-communication.c:49: there is a client "the service is communicating with"
\* whenever it transmits.
ClientThere == failure # "client"
===============================================================================
