------------------------------- MODULE Flooding -------------------------------
(***************************************************************************)
(* A network of gnunet-search services that flood search requests and      *)
(* route the answers back (service/flooding/flooding.c).                   *)
(*                                                                         *)
(* Every service runs one event loop, so a handler is one atomic step.     *)
(* Between the handler that sends a message and the handler that receives  *)
(* it lie an asynchronous iteration over the peers, the output queue and   *)
(* the GNUnet core; here they are one unordered bag of packets in flight.  *)
(* The storage is a set of keywords per node; a result is named by the     *)
(* node that holds it and the keyword it was found under.                  *)
(***************************************************************************)
EXTENDS FlowTable, FiniteSets, Bags

CONSTANTS Node,        \* the peers
          Link,        \* which pairs of peers are connected
          Flow,        \* flow ids; a search draws one no other search has.  They
                       \* are random, so here they are numbered as they are drawn
          Keyword,     \* normalised keywords
          MaxTTL,      \* the ttl of a message that originates locally
          None,        \* the NULL sender of a local message; no search yet
          Startable,   \* bound: who may search for what under which flow
          Indexable,   \* bound: the node-keyword pairs that may get indexed
          Lossy,       \* whether packets may be lost
          Restartable  \* bound: the nodes whose service may restart

\* What a client asked for.
Search == [node: Node, keyword: Keyword]

\* A route back: the peer the request came from, or NULL for an own request.
RoutingEntry ==
    {e \in [flow_id: Flow, next_hop: Node \cup {None}, own_request: BOOLEAN] :
        e.own_request <=> e.next_hop = None}

ASSUME FloodingAssumption ==
    /\ Link \subseteq Node \X Node
    /\ \A n, m \in Node : <<n, m>> \in Link => n # m /\ <<m, n>> \in Link
    /\ Flow \subseteq Nat
    /\ MaxTTL \in 1 .. 255
    /\ None \notin Node \cup Search
    /\ Blank \notin RoutingEntry
    /\ Startable \subseteq Node \X Flow \X Keyword
    /\ Indexable \subseteq Node \X Keyword
    /\ Lossy \in BOOLEAN
    /\ Restartable \subseteq Node

VARIABLES
    routing_table, \* per node: the ring of routing entries
    storage,       \* per node: the keywords it has URLs for
    network,       \* the bag of packets in flight
    answers,       \* per node: the results handed to its client
    search,        \* history: who searches for what under a flow id
    indexed,       \* history: the node-keyword pairs that were ever stored
    accepted       \* history: per node and flow, the ttl the request had when
                   \* the node last processed it; 0: not yet

vars == <<routing_table, storage, network, answers, search, indexed, accepted>>

-------------------------------------------------------------------------------

\* What a response carries: the URLs that holder stores for keyword.
Result == [holder: Node, keyword: Keyword]

Request == [from: Node, to: Node, type: {"request"},
            flow_id: Flow, ttl: 1 .. MaxTTL - 1, keyword: Keyword]

Response == [from: Node, to: Node, type: {"response"},
             flow_id: Flow, ttl: 1 .. MaxTTL - 1, result: Result]

Answer == [flow_id: Flow, result: Result]

InFlight == BagToSet(network)

Neighbours(n) == {m \in Node : <<n, m>> \in Link}

\* Mutant: every hop costs two.
DecrementTwice(ttl) == (ttl + 254) % 256

\* ttl is a uint8_t and is decremented before it is compared with zero.
Decrement(ttl) == (ttl + 255) % 256

\* Mutant: every route is taken for an own request.
RouteToOwn(flow, sender) ==
    [flow_id |-> flow, next_hop |-> None, own_request |-> TRUE]

\* A new entry; the next hop of an own request is never read.
RouteTo(flow, sender) ==
    [flow_id |-> flow, next_hop |-> sender, own_request |-> sender = None]

\* Mutant: a request whose ttl ran out is flooded as well.
FloodedWithoutCheck(n, sender, flow, ttl, keyword) ==
    {[from |-> n, to |-> m, type |-> "request",
      flow_id |-> flow, ttl |-> Decrement(ttl), keyword |-> keyword] :
        m \in Neighbours(n) \ {sender}}

\* Mutant: the last hop is not taken.
FloodedOneHopShort(n, sender, flow, ttl, keyword) ==
    {p \in FloodedWithoutCheck(n, sender, flow, ttl, keyword) : p.ttl > 1}

\* The copies of a request that leave n, for every neighbour but the sender.
Flooded(n, sender, flow, ttl, keyword) ==
    {[from |-> n, to |-> m, type |-> "request",
      flow_id |-> flow, ttl |-> Decrement(ttl), keyword |-> keyword] :
        m \in IF Decrement(ttl) > 0 THEN Neighbours(n) \ {sender} ELSE {}}

\* Mutant: a response is relayed with the ttl it came with.
RelayedUndecremented(n, table, flow, ttl, result) ==
    IF Contains(table, flow) /\ ~Lookup(table, flow).own_request
    THEN {[from |-> n, to |-> Lookup(table, flow).next_hop, type |-> "response",
           flow_id |-> flow, ttl |-> ttl, result |-> result]}
    ELSE {}

\* Where n routes a response: to the next hop the table has for its flow ...
Relayed(n, table, flow, ttl, result) ==
    IF Contains(table, flow) /\ ~Lookup(table, flow).own_request /\ Decrement(ttl) > 0
    THEN {[from |-> n, to |-> Lookup(table, flow).next_hop, type |-> "response",
           flow_id |-> flow, ttl |-> Decrement(ttl), result |-> result]}
    ELSE {}

\* ... or, when the flow is its own, to its client.  A response to a flow the
\* table does not have is discarded.
Delivered(table, flow, result) ==
    IF Contains(table, flow) /\ Lookup(table, flow).own_request
    THEN {[flow_id |-> flow, result |-> result]}
    ELSE {}

\* Mutant: the lookup matches any stored keyword.
FoundAnything(n, keyword) == {[holder |-> n, keyword |-> k] : k \in storage[n]}

\* The results of the local search that a request triggers.  Every request carries
\* the terminator of its keyword, which flooding.c:423 looks for.
Found(n, keyword) ==
    {[holder |-> n, keyword |-> k] : k \in storage[n] \cap {keyword}}

-------------------------------------------------------------------------------

Init ==
    /\ routing_table = [n \in Node |-> EmptyTable]
    /\ storage = [n \in Node |-> {}]
    /\ network = EmptyBag
    /\ answers = [n \in Node |-> {}]
    /\ search = [f \in Flow |-> None]
    /\ indexed = {}
    /\ accepted = [n \in Node |-> [f \in Flow |-> 0]]

\* A request whose flow n does not know: enter the flow, search the storage,
\* route the result like any response that originates here, flood the rest.
ProcessNewRequest(n, sender, flow, ttl, keyword, consumed) ==
    LET table == Insert(routing_table[n], RouteTo(flow, sender))
        sent  == Flooded(n, sender, flow, ttl, keyword) \cup
                 UNION {Relayed(n, table, flow, MaxTTL, r) : r \in Found(n, keyword)}
    IN  /\ ~Contains(routing_table[n], flow)
        /\ routing_table' = [routing_table EXCEPT ![n] = table]
        /\ network' = (network (-) SetToBag(consumed)) (+) SetToBag(sent)
        /\ answers' = [answers EXCEPT ![n] =
              @ \cup UNION {Delivered(table, flow, r) : r \in Found(n, keyword)}]
        /\ accepted' = [accepted EXCEPT ![n][flow] = ttl]

\* The client of n searches, under the next flow id.
StartSearch(n, flow, keyword) ==
    /\ <<n, flow, keyword>> \in Startable
    /\ search[flow] = None
    /\ \A earlier \in Flow : earlier < flow => search[earlier] # None
    /\ ProcessNewRequest(n, None, flow, MaxTTL, keyword, {})
    /\ search' = [search EXCEPT ![flow] = [node |-> n, keyword |-> keyword]]
    /\ UNCHANGED <<storage, indexed>>

\* Every message holds the headers that flooding.c:537 asserts.
ReceiveNewRequest(p) ==
    /\ p.type = "request"
    /\ ProcessNewRequest(p.to, p.from, p.flow_id, p.ttl, p.keyword, {p})
    /\ UNCHANGED <<storage, search, indexed>>

\* Mutant: the storage is searched before the flow is looked up.
ReceiveKnownRequestSearching(p) ==
    LET table == routing_table[p.to]
        found == Found(p.to, p.keyword)
    IN  /\ p.type = "request"
        /\ Contains(table, p.flow_id)
        /\ network' = (network (-) SetToBag({p})) (+)
              SetToBag(UNION {Relayed(p.to, table, p.flow_id, MaxTTL, r) : r \in found})
        /\ UNCHANGED <<routing_table, storage, answers, search, indexed, accepted>>

\* A request whose flow is already in the table came round in a cycle.
ReceiveKnownRequest(p) ==
    /\ p.type = "request"
    /\ Contains(routing_table[p.to], p.flow_id)
    /\ network' = network (-) SetToBag({p})
    /\ UNCHANGED <<routing_table, storage, answers, search, indexed, accepted>>

ReceiveResponse(p) ==
    LET table == routing_table[p.to]
    IN  /\ p.type = "response"
        /\ network' = (network (-) SetToBag({p}))
                         (+) SetToBag(Relayed(p.to, table, p.flow_id, p.ttl, p.result))
        /\ answers' = [answers EXCEPT ![p.to] =
                          @ \cup Delivered(table, p.flow_id, p.result)]
        /\ UNCHANGED <<routing_table, storage, search, indexed, accepted>>

Receive(p) == ReceiveNewRequest(p) \/ ReceiveKnownRequest(p) \/ ReceiveResponse(p)

\* A packet is dropped: a peer disconnects, the request to transmit times out,
\* the service that queued it stops.
Lose(p) ==
    /\ Lossy
    /\ network' = network (-) SetToBag({p})
    /\ UNCHANGED <<routing_table, storage, answers, search, indexed, accepted>>

\* The storage of n learns URLs for a keyword.
Index(n, keyword) ==
    /\ <<n, keyword>> \in Indexable
    /\ storage' = [storage EXCEPT ![n] = @ \cup {keyword}]
    /\ indexed' = indexed \cup {<<n, keyword>>}
    /\ UNCHANGED <<routing_table, network, answers, search, accepted>>

\* The service of n stops and starts again: everything it knew was in memory.
Restart(n) ==
    /\ n \in Restartable
    /\ routing_table' = [routing_table EXCEPT ![n] = EmptyTable]
    /\ storage' = [storage EXCEPT ![n] = {}]
    /\ UNCHANGED <<network, answers, search, indexed, accepted>>

Next ==
    \/ \E n \in Node, f \in Flow, k \in Keyword : StartSearch(n, f, k)
    \/ \E p \in InFlight : Receive(p)
    \/ \E p \in InFlight : Lose(p)
    \/ \E n \in Node, k \in Keyword : Index(n, k)
    \/ \E n \in Node : Restart(n)

Spec == Init /\ [][Next]_vars

\* The core eventually hands every packet it does not lose to its receiver.
Fairness == WF_vars(\E p \in InFlight : Receive(p))

FairSpec == Spec /\ Fairness

-------------------------------------------------------------------------------
(***************************************************************************)
(* Properties                                                              *)
(***************************************************************************)

\* Every variable has its type.  The ttl of a packet in flight is at least 1
\* (a message that ran out is not sent) and below MaxTTL: the uint8_t never
\* wraps.
TypeOK ==
    /\ routing_table \in [Node -> FlowTableOf(RoutingEntry)]
    /\ storage \in [Node -> SUBSET Keyword]
    /\ IsABag(network)
    /\ InFlight \subseteq Request \cup Response
    /\ answers \in [Node -> SUBSET Answer]
    /\ search \in [Flow -> Search \cup {None}]
    /\ indexed \subseteq Node \X Keyword
    /\ accepted \in [Node -> [Flow -> 0 .. MaxTTL]]

Started(f) == search[f] # None

Requests(f) == {p \in InFlight : p.type = "request" /\ p.flow_id = f}

Responses(f) == {p \in InFlight : p.type = "response" /\ p.flow_id = f}

\* A lookup in the routing table finds the one entry of the flow, whatever was
\* evicted, looped back or received again before: the check for a known flow and
\* the insertion keep the ring free of duplicates and of unwritten slots, also
\* when it has wrapped and the entry in question is behind the index.
RoutingTableSound ==
    \A n \in Node : WellFormed(routing_table[n]) /\ NoDuplicate(routing_table[n])

\* A client only ever gets answers to searches it started itself, for the keyword
\* it asked for, from a peer that indexed that keyword.  It holds when tables
\* overflow, when packets are lost and when services restart: a response that
\* lost its way is discarded somewhere, never delivered to somebody else.
AnswersMatchSearch ==
    \A n \in Node : \A a \in answers[n] :
        /\ search[a.flow_id] = [node |-> n, keyword |-> a.result.keyword]
        /\ <<a.result.holder, a.result.keyword>> \in indexed

\* No table overflows and no service forgets: the conditions under which routes
\* stay in place.
Roomy ==
    IsFiniteSet(Flow) /\ Cardinality(Flow) <= TableSize /\ Restartable = {}

\* The routes of a flow form a tree towards its origin: a node that processed the
\* request still has the route, only the origin's is its own, and any other
\* route leads to a connected peer that processed the request one hop earlier.
RoutesLeadHome ==
    Roomy => \A n \in Node, f \in Flow : accepted[n][f] # 0 =>
        /\ Contains(routing_table[n], f)
        /\ LET route == Lookup(routing_table[n], f)
           IN  IF route.own_request
               THEN search[f].node = n /\ accepted[n][f] = MaxTTL
               ELSE /\ route.next_hop \in Neighbours(n)
                    /\ accepted[route.next_hop][f] = accepted[n][f] + 1

\* A response never runs out of ttl and never meets a node without its route: on
\* its way home the ttl it has lost is the hops the request gained, so at every
\* hop the rest suffices for the rest of the way.
ResponsesGetHome ==
    Roomy => \A f \in Flow : \A p \in Responses(f) :
        /\ accepted[p.to][f] # 0
        /\ p.ttl + accepted[p.to][f] = MaxTTL + accepted[p.result.holder][f]

\* A peer answers a search once: of the result of one holder for one flow there
\* is a single copy, in flight or delivered, however many copies of the request
\* reach the holder.
AnswerOnce ==
    Roomy => \A f \in Flow : \A p \in Responses(f) :
        /\ network[p] = 1
        /\ \A q \in Responses(f) : q.result.holder = p.result.holder => q = p
        /\ \A n \in Node : [flow_id |-> f, result |-> p.result] \notin answers[n]

\* Once a node processed a request it never processes that request again: a copy
\* that comes round in a cycle, also one with more ttl left, is discarded.
ProcessedOnce ==
    [][Roomy => \A n \in Node, f \in Flow :
          accepted[n][f] # 0 =>
              /\ accepted'[n][f] = accepted[n][f]
              /\ Lookup(routing_table[n], f)' = Lookup(routing_table[n], f)]_vars

\* Flooding stops: even when every table overflows, a request is processed again
\* and answers go round in loops, the ttl uses up everything in flight.
Quiescence == <>[](network = EmptyBag)

\* With room for every flow, no loss and ttl enough for the longest path, a search
\* gets the answer of every peer that had the keyword before the request came.
SearchComplete ==
    \A f \in Flow, m \in Node, k \in Keyword :
        ( /\ Roomy /\ ~Lossy /\ MaxTTL >= Cardinality(Node)
          /\ Started(f) /\ search[f].keyword = k
          /\ k \in storage[m] /\ accepted[m][f] = 0 )
        ~> \E n \in Node :
              /\ search[f] = [node |-> n, keyword |-> k]
              /\ [flow_id |-> f, result |-> [holder |-> m, keyword |-> k]] \in answers[n]

\* Flooding and routing implement the abstract search service.
Abstract == INSTANCE SearchService

ImplementsSearchService == Abstract!Spec
===============================================================================
