---------------------------- MODULE FloodingProofs ----------------------------
(***************************************************************************)
(* What holds of Flooding for every network, every number of flows and     *)
(* every size of the routing table, with loss and restarts; and what holds *)
(* in addition when the routing tables have room for every flow.           *)
(***************************************************************************)
EXTENDS Flooding, FlowTableProofs

-------------------------------------------------------------------------------
(* Bags *)

\* Adding a set to a bag of packets gives a bag of the packets of both.
LEMMA AddToBag ==
    ASSUME NEW B, NEW S, IsABag(B)
    PROVE  /\ IsABag(B (+) SetToBag(S))
           /\ DOMAIN (B (+) SetToBag(S)) = DOMAIN B \cup S
  <1>1. IsABag(SetToBag(S)) /\ DOMAIN SetToBag(S) = S
    BY DEF SetToBag, IsABag
  <1> QED
    BY <1>1 DEF IsABag, (+), BagToSet

\* Taking a set away from a bag of packets leaves a bag of some of its packets.
LEMMA TakeFromBag ==
    ASSUME NEW B, NEW S, IsABag(B)
    PROVE  /\ IsABag(B (-) SetToBag(S))
           /\ DOMAIN (B (-) SetToBag(S)) \subseteq DOMAIN B
  <1>1. IsABag(SetToBag(S)) /\ DOMAIN SetToBag(S) = S
    BY DEF SetToBag, IsABag
  <1> QED
    BY <1>1 DEF IsABag, (-), BagToSet

\* What a handler does to the packets in flight: it consumes some and sends others.
LEMMA ConsumeAndSend ==
    ASSUME NEW B, NEW C, NEW S, NEW after, IsABag(B),
           after = (B (-) SetToBag(C)) (+) SetToBag(S)
    PROVE  IsABag(after) /\ DOMAIN after \subseteq DOMAIN B \cup S
  <1>1. IsABag(B (-) SetToBag(C)) /\ DOMAIN (B (-) SetToBag(C)) \subseteq DOMAIN B
    BY TakeFromBag
  <1> DEFINE rest == B (-) SetToBag(C)
  <1> HIDE DEF rest
  <1>2. IsABag(rest (+) SetToBag(S)) /\ DOMAIN (rest (+) SetToBag(S)) = DOMAIN rest \cup S
    BY <1>1, AddToBag DEF rest
  <1> QED
    BY <1>1, <1>2 DEF rest

-------------------------------------------------------------------------------
(* Types *)

\* The ttl of a message that is sent on stays between 1 and MaxTTL - 1.
LEMMA DecrementValue ==
    ASSUME NEW ttl \in 1 .. MaxTTL
    PROVE  Decrement(ttl) = ttl - 1
  BY FloodingAssumption DEF Decrement

\* A route to the sender of a request is a routing entry.
LEMMA RouteToType ==
    ASSUME NEW flow \in Flow, NEW sender \in Node \cup {None}
    PROVE  RouteTo(flow, sender) \in RoutingEntry
  BY DEF RouteTo, RoutingEntry

\* What a node sends on are packets.
LEMMA RelayedType ==
    ASSUME NEW n \in Node, NEW table \in FlowTableOf(RoutingEntry),
           WellFormed(table), NoDuplicate(table),
           NEW flow \in Flow, NEW ttl \in 1 .. MaxTTL, NEW result \in Result
    PROVE  /\ Relayed(n, table, flow, ttl, result) \subseteq Response
           /\ Delivered(table, flow, result) \subseteq Answer
  <1>1. Relayed(n, table, flow, ttl, result) \subseteq Response
    BY LookupContained, DecrementValue, FloodingAssumption
    DEF Relayed, Response, RoutingEntry
  <1>2. Delivered(table, flow, result) \subseteq Answer
    BY DEF Delivered, Answer
  <1> QED
    BY <1>1, <1>2

LEMMA FloodedType ==
    ASSUME NEW n \in Node, NEW sender \in Node \cup {None}, NEW flow \in Flow,
           NEW ttl \in 1 .. MaxTTL, NEW keyword \in Keyword
    PROVE  Flooded(n, sender, flow, ttl, keyword) \subseteq Request
  <1>1. Decrement(ttl) > 0 => Decrement(ttl) \in 1 .. MaxTTL - 1
    BY DecrementValue, FloodingAssumption
  <1>2. \A m \in Neighbours(n) : m \in Node
    BY DEF Neighbours
  <1> QED
    BY <1>1, <1>2 DEF Flooded, Request

LEMMA FoundType ==
    ASSUME TypeOK, NEW n \in Node, NEW keyword \in Keyword
    PROVE  Found(n, keyword) \subseteq Result
  BY DEF Found, Result, TypeOK

\* The table of a node after it entered a flow it did not know.
LEMMA EnterFlow ==
    ASSUME TypeOK, RoutingTableSound,
           NEW n \in Node, NEW sender \in Node \cup {None}, NEW flow \in Flow,
           ~Contains(routing_table[n], flow)
    PROVE  LET table == Insert(routing_table[n], RouteTo(flow, sender))
           IN  /\ table \in FlowTableOf(RoutingEntry)
               /\ WellFormed(table)
               /\ NoDuplicate(table)
               /\ Contains(table, flow)
               /\ Lookup(table, flow) = RouteTo(flow, sender)
               /\ \A i \in Live(table) :
                     \/ table.slot[i] = RouteTo(flow, sender)
                     \/ i \in Live(routing_table[n])
                        /\ table.slot[i] = routing_table[n].slot[i]
  <1> DEFINE before == routing_table[n]
             entry == RouteTo(flow, sender)
             table == Insert(before, entry)
  <1>1. before \in FlowTableOf(RoutingEntry) /\ WellFormed(before) /\ NoDuplicate(before)
    BY DEF TypeOK, RoutingTableSound
  <1>2. entry \in RoutingEntry /\ entry.flow_id = flow
    BY RouteToType DEF RouteTo
  <1>3. Blank \notin RoutingEntry
    BY FloodingAssumption
  <1>4. table \in FlowTableOf(RoutingEntry) /\ WellFormed(table)
    BY <1>1, <1>2, <1>3, InsertType
  <1>5. NoDuplicate(table)
    BY <1>1, <1>2, InsertNoDuplicate
  <1>6. /\ before.index \in Live(table)
        /\ table.slot[before.index] = entry
        /\ \A i \in Live(table) :
              i # before.index => i \in Live(before) /\ table.slot[i] = before.slot[i]
    BY <1>1, <1>2, InsertLive
  <1>7. table.length \in Nat
    BY <1>4, TableSizeAssumption DEF FlowTableOf
  <1>8. Lookup(table, flow) = entry
    BY <1>2, <1>5, <1>6, <1>7, LookupFinds
  <1>9. Contains(table, flow)
    BY <1>2, <1>6 DEF Contains
  <1> QED
    BY <1>4, <1>5, <1>6, <1>8, <1>9

\* Processing a new request keeps everything it touches well typed and the tables
\* sound.
LEMMA ProcessNewRequestType ==
    ASSUME TypeOK, RoutingTableSound,
           NEW n \in Node, NEW sender \in Node \cup {None}, NEW flow \in Flow,
           NEW ttl \in 1 .. MaxTTL, NEW keyword \in Keyword, NEW consumed,
           ProcessNewRequest(n, sender, flow, ttl, keyword, consumed)
    PROVE  /\ routing_table' \in [Node -> FlowTableOf(RoutingEntry)]
           /\ IsABag(network') /\ InFlight' \subseteq Request \cup Response
           /\ answers' \in [Node -> SUBSET Answer]
           /\ accepted' \in [Node -> [Flow -> 0 .. MaxTTL]]
           /\ RoutingTableSound'
  <1> DEFINE table == Insert(routing_table[n], RouteTo(flow, sender))
             sent == Flooded(n, sender, flow, ttl, keyword) \cup
                     UNION {Relayed(n, table, flow, MaxTTL, r) : r \in Found(n, keyword)}
  <1>1. /\ table \in FlowTableOf(RoutingEntry)
        /\ WellFormed(table) /\ NoDuplicate(table)
    BY EnterFlow DEF ProcessNewRequest
  <1>2. MaxTTL \in 1 .. MaxTTL
    BY FloodingAssumption
  <1>3. \A r \in Found(n, keyword) :
            /\ Relayed(n, table, flow, MaxTTL, r) \subseteq Response
            /\ Delivered(table, flow, r) \subseteq Answer
    BY <1>1, <1>2, FoundType, RelayedType
  <1>4. sent \subseteq Request \cup Response
    BY <1>3, FloodedType
  <1>5. routing_table' \in [Node -> FlowTableOf(RoutingEntry)] /\ RoutingTableSound'
    BY <1>1 DEF ProcessNewRequest, TypeOK, RoutingTableSound
  <1>6. IsABag(network') /\ InFlight' \subseteq Request \cup Response
    <2>1. network' = (network (-) SetToBag(consumed)) (+) SetToBag(sent)
      BY DEF ProcessNewRequest
    <2>2. IsABag(network)
      BY DEF TypeOK
    <2>3. IsABag(network') /\ DOMAIN network' \subseteq DOMAIN network \cup sent
      BY <2>1, <2>2, ConsumeAndSend
    <2> QED
      BY <2>3, <1>4 DEF InFlight, BagToSet, TypeOK
  <1>7. answers' \in [Node -> SUBSET Answer]
    BY <1>3 DEF ProcessNewRequest, TypeOK
  <1>8. accepted' \in [Node -> [Flow -> 0 .. MaxTTL]]
    BY FloodingAssumption DEF ProcessNewRequest, TypeOK
  <1> QED
    BY <1>5, <1>6, <1>7, <1>8

\* Every step keeps the types and the soundness of the tables.
LEMMA SoundStep ==
    ASSUME TypeOK, RoutingTableSound, [Next]_vars
    PROVE  TypeOK' /\ RoutingTableSound'
  <1>1. ASSUME NEW n \in Node, NEW f \in Flow, NEW k \in Keyword, StartSearch(n, f, k)
        PROVE  TypeOK' /\ RoutingTableSound'
    <2>1. ProcessNewRequest(n, None, f, MaxTTL, k, {})
      BY <1>1 DEF StartSearch
    <2>2. MaxTTL \in 1 .. MaxTTL
      BY FloodingAssumption
    <2>3. /\ routing_table' \in [Node -> FlowTableOf(RoutingEntry)]
          /\ IsABag(network') /\ InFlight' \subseteq Request \cup Response
          /\ answers' \in [Node -> SUBSET Answer]
          /\ accepted' \in [Node -> [Flow -> 0 .. MaxTTL]]
          /\ RoutingTableSound'
      BY <2>1, <2>2, ProcessNewRequestType
    <2>4. search' \in [Flow -> Search \cup {None}]
      BY <1>1 DEF StartSearch, TypeOK, Search
    <2> QED
      BY <1>1, <2>3, <2>4 DEF StartSearch, TypeOK
  <1>2. ASSUME NEW p \in InFlight, ReceiveNewRequest(p)
        PROVE  TypeOK' /\ RoutingTableSound'
    <2>1. p \in Request
      BY <1>2 DEF ReceiveNewRequest, TypeOK, Response
    <2>2. /\ p.to \in Node /\ p.from \in Node \cup {None} /\ p.flow_id \in Flow
          /\ p.ttl \in 1 .. MaxTTL /\ p.keyword \in Keyword
      BY <2>1, FloodingAssumption DEF Request
    <2>3. ProcessNewRequest(p.to, p.from, p.flow_id, p.ttl, p.keyword, {p})
      BY <1>2 DEF ReceiveNewRequest
    <2>4. /\ routing_table' \in [Node -> FlowTableOf(RoutingEntry)]
          /\ IsABag(network') /\ InFlight' \subseteq Request \cup Response
          /\ answers' \in [Node -> SUBSET Answer]
          /\ accepted' \in [Node -> [Flow -> 0 .. MaxTTL]]
          /\ RoutingTableSound'
      BY <2>2, <2>3, ProcessNewRequestType
    <2> QED
      BY <1>2, <2>4 DEF ReceiveNewRequest, TypeOK
  <1>3. ASSUME NEW p \in InFlight, ReceiveKnownRequest(p) \/ Lose(p)
        PROVE  TypeOK' /\ RoutingTableSound'
    <2>1. IsABag(network') /\ DOMAIN network' \subseteq DOMAIN network
      BY <1>3, TakeFromBag DEF ReceiveKnownRequest, Lose, TypeOK
    <2> QED
      BY <1>3, <2>1 DEF ReceiveKnownRequest, Lose, TypeOK, RoutingTableSound, InFlight, BagToSet
  <1>4. ASSUME NEW p \in InFlight, ReceiveResponse(p)
        PROVE  TypeOK' /\ RoutingTableSound'
    <2> DEFINE table == routing_table[p.to]
               sent == Relayed(p.to, table, p.flow_id, p.ttl, p.result)
    <2>1. p \in Response
      BY <1>4 DEF ReceiveResponse, TypeOK, Request
    <2>2. /\ p.to \in Node /\ p.flow_id \in Flow
          /\ p.ttl \in 1 .. MaxTTL /\ p.result \in Result
      BY <2>1, FloodingAssumption DEF Response
    <2>3. table \in FlowTableOf(RoutingEntry) /\ WellFormed(table) /\ NoDuplicate(table)
      BY <2>2 DEF TypeOK, RoutingTableSound
    <2>4. /\ sent \subseteq Response
          /\ Delivered(table, p.flow_id, p.result) \subseteq Answer
      BY <2>2, <2>3, RelayedType
    <2>5. IsABag(network') /\ DOMAIN network' \subseteq DOMAIN network \cup sent
      <3>1. network' = (network (-) SetToBag({p})) (+) SetToBag(sent)
        BY <1>4 DEF ReceiveResponse
      <3>2. IsABag(network)
        BY DEF TypeOK
      <3> QED
        BY <3>1, <3>2, ConsumeAndSend
    <2>6. answers' \in [Node -> SUBSET Answer]
      BY <1>4, <2>4 DEF ReceiveResponse, TypeOK
    <2>7. InFlight' \subseteq Request \cup Response
      BY <2>4, <2>5 DEF InFlight, BagToSet, TypeOK
    <2> QED
      BY <1>4, <2>5, <2>6, <2>7 DEF ReceiveResponse, TypeOK, RoutingTableSound
  <1>5. ASSUME NEW n \in Node, NEW k \in Keyword, Index(n, k)
        PROVE  TypeOK' /\ RoutingTableSound'
    BY <1>5 DEF Index, TypeOK, RoutingTableSound, InFlight
  <1>6. ASSUME NEW n \in Node, Restart(n)
        PROVE  TypeOK' /\ RoutingTableSound'
    BY <1>6, EmptyTableSound DEF Restart, TypeOK, RoutingTableSound, InFlight
  <1>7. CASE UNCHANGED vars
    BY <1>7 DEF vars, TypeOK, RoutingTableSound, InFlight
  <1> QED
    BY <1>1, <1>2, <1>3, <1>4, <1>5, <1>6, <1>7 DEF Next, Receive

\* The initial state is well typed and its tables are sound.
LEMMA SoundInit == Init => TypeOK /\ RoutingTableSound
  <1> SUFFICES ASSUME Init PROVE TypeOK /\ RoutingTableSound
    OBVIOUS
  <1>1. IsABag(network) /\ InFlight = {}
    BY DEF Init, EmptyBag, SetToBag, IsABag, InFlight, BagToSet
  <1>2. /\ routing_table \in [Node -> FlowTableOf(RoutingEntry)]
        /\ RoutingTableSound
    BY EmptyTableSound DEF Init, RoutingTableSound
  <1> QED
    BY <1>1, <1>2, FloodingAssumption DEF Init, TypeOK

\* In every reachable state the variables are well typed ...
THEOREM TypeCorrect == Spec => []TypeOK
  <1>1. TypeOK /\ RoutingTableSound /\ [Next]_vars => (TypeOK /\ RoutingTableSound)'
    BY SoundStep
  <1> QED
    BY <1>1, SoundInit, PTL DEF Spec

\* ... and every routing table has at most one entry for a flow, so that the first
\* match a lookup stops at is the only one.
THEOREM RoutingTablesSound == Spec => []RoutingTableSound
  <1>1. TypeOK /\ RoutingTableSound /\ [Next]_vars => (TypeOK /\ RoutingTableSound)'
    BY SoundStep
  <1> QED
    BY <1>1, SoundInit, PTL DEF Spec

-------------------------------------------------------------------------------
(* Who gets which answer *)

\* Every trace of a flow leads back to its search: packets carry its keyword, only
\* the searcher's table calls the flow its own, and a response carries what its
\* holder indexed.
PacketTrue(p) ==
    /\ Started(p.flow_id)
    /\ p.type = "request" => p.keyword = search[p.flow_id].keyword
    /\ p.type = "response" =>
          /\ p.result.keyword = search[p.flow_id].keyword
          /\ <<p.result.holder, p.result.keyword>> \in indexed

RouteTrue(n, route) ==
    /\ Started(route.flow_id)
    /\ route.own_request => search[route.flow_id].node = n

TableTrue(n, table) == \A i \in Live(table) : RouteTrue(n, table.slot[i])

Provenance ==
    /\ \A p \in InFlight : PacketTrue(p)
    /\ \A n \in Node : TableTrue(n, routing_table[n])
    /\ \A n \in Node : \A k \in storage[n] : <<n, k>> \in indexed
    /\ AnswersMatchSearch

Inv == TypeOK /\ RoutingTableSound /\ Provenance

LEMMA ProvenanceInit == Init => Provenance
  <1> SUFFICES ASSUME Init PROVE Provenance
    OBVIOUS
  <1>1. InFlight = {}
    BY DEF Init, EmptyBag, SetToBag, InFlight, BagToSet
  <1>2. \A n \in Node : TableTrue(n, routing_table[n])
    BY EmptyTableSound DEF Init, TableTrue
  <1> QED
    BY <1>1, <1>2 DEF Init, Provenance, AnswersMatchSearch

\* A response to a flow that leads back to its search is relayed unchanged, and
\* delivered only at the node that searches.
LEMMA RelayedTrue ==
    ASSUME NEW n \in Node, NEW table \in FlowTableOf(RoutingEntry),
           WellFormed(table), NoDuplicate(table), TableTrue(n, table),
           NEW flow \in Flow, NEW ttl, NEW result
    PROVE  /\ \A p \in Relayed(n, table, flow, ttl, result) :
                 p.type = "response" /\ p.flow_id = flow /\ p.result = result
           /\ \A x \in Delivered(table, flow, result) :
                 /\ x = [flow_id |-> flow, result |-> result]
                 /\ Started(flow) /\ search[flow].node = n
  <1>1. ASSUME Contains(table, flow) PROVE RouteTrue(n, Lookup(table, flow))
                                           /\ Lookup(table, flow).flow_id = flow
    BY <1>1, LookupContained DEF TableTrue
  <1> QED
    BY <1>1 DEF Relayed, Delivered, RouteTrue

\* What ProcessNewRequest needs to keep the provenance: the flow leads back to a
\* search in the next state, and a local request comes from its searcher.
LEMMA ProcessNewRequestTrue ==
    ASSUME Inv,
           NEW n \in Node, NEW sender \in Node \cup {None}, NEW flow \in Flow,
           NEW ttl \in 1 .. MaxTTL, NEW keyword \in Keyword, NEW consumed,
           ProcessNewRequest(n, sender, flow, ttl, keyword, consumed),
           UNCHANGED <<storage, indexed>>,
           \A f \in Flow : Started(f) => search'[f] = search[f],
           search'[flow] \in Search, search'[flow].keyword = keyword,
           sender = None => search'[flow].node = n
    PROVE  Provenance'
  <1> DEFINE before == routing_table[n]
             entry == RouteTo(flow, sender)
             table == Insert(before, entry)
             sent == Flooded(n, sender, flow, ttl, keyword) \cup
                     UNION {Relayed(n, table, flow, MaxTTL, r) : r \in Found(n, keyword)}
             new == UNION {Delivered(table, flow, r) : r \in Found(n, keyword)}
  <1> USE DEF Inv
  <1>1. Started(flow)'
    BY FloodingAssumption DEF Started
  <1>2. /\ Contains(table, flow)
        /\ Lookup(table, flow) = entry
        /\ \A i \in Live(table) : \/ table.slot[i] = entry
                                  \/ i \in Live(before) /\ table.slot[i] = before.slot[i]
    BY EnterFlow DEF ProcessNewRequest
  <1>3. entry.flow_id = flow /\ (entry.own_request <=> sender = None)
        /\ entry.next_hop = sender
    BY DEF RouteTo
  <1>4. \A r \in Found(n, keyword) :
            /\ r.keyword = search'[flow].keyword
            /\ <<r.holder, r.keyword>> \in indexed'
    BY DEF Found, Provenance
  <1>5. \A m \in Node, i \in Slot : i \in Live(routing_table[m]) =>
            routing_table[m].slot[i].flow_id \in Flow
    BY TableSizeAssumption
    DEF TypeOK, RoutingTableSound, FlowTableOf, WellFormed, RoutingEntry
  <1>6. \A p \in InFlight' : PacketTrue(p)'
    <2>1. DOMAIN network' \subseteq DOMAIN network \cup sent
      <3>1. network' = (network (-) SetToBag(consumed)) (+) SetToBag(sent)
        BY DEF ProcessNewRequest
      <3>2. IsABag(network)
        BY DEF TypeOK
      <3> QED
        BY <3>1, <3>2, ConsumeAndSend
    <2>2. ASSUME NEW p \in InFlight PROVE PacketTrue(p)'
      <3>1. p.flow_id \in Flow
        BY DEF TypeOK, Request, Response
      <3> QED
        BY <3>1, FloodingAssumption DEF Provenance, PacketTrue, Started, TypeOK
    <2>3. ASSUME NEW p \in Flooded(n, sender, flow, ttl, keyword) PROVE PacketTrue(p)'
      BY <1>1 DEF Flooded, PacketTrue
    <2>4. ASSUME NEW r \in Found(n, keyword), NEW p \in Relayed(n, table, flow, MaxTTL, r)
          PROVE  PacketTrue(p)'
      <3>1. p.type = "response" /\ p.flow_id = flow /\ p.result = r
        BY <2>4 DEF Relayed
      <3> QED
        BY <3>1, <1>1, <1>4 DEF PacketTrue
    <2> QED
      BY <2>1, <2>2, <2>3, <2>4 DEF InFlight, BagToSet
  <1>7. \A m \in Node : TableTrue(m, routing_table[m])'
    <2> SUFFICES ASSUME NEW m \in Node, NEW i \in Live(routing_table'[m])
                 PROVE  RouteTrue(m, routing_table[m].slot[i])'
      BY DEF TableTrue
    <2>1. CASE m = n /\ table.slot[i] = entry
      BY <2>1, <1>1, <1>3 DEF ProcessNewRequest, RouteTrue, TypeOK
    <2>2. CASE i \in Live(routing_table[m])
               /\ routing_table'[m].slot[i] = routing_table[m].slot[i]
      <3>1. i \in Slot
        BY <2>2, TableSizeAssumption DEF TypeOK, FlowTableOf, Live, Slot
      <3>2. RouteTrue(m, routing_table[m].slot[i])
        BY <2>2 DEF Provenance, TableTrue
      <3> QED
        BY <3>1, <3>2, <2>2, <1>5, FloodingAssumption DEF RouteTrue, Started, TypeOK
    <2> QED
      BY <2>1, <2>2, <1>2 DEF ProcessNewRequest, TypeOK
  <1>8. \A m \in Node : \A k \in storage'[m] : <<m, k>> \in indexed'
    BY DEF Provenance
  <1>9. AnswersMatchSearch'
    <2> SUFFICES ASSUME NEW m \in Node, NEW x \in answers'[m]
                 PROVE  /\ search'[x.flow_id] = [node |-> m, keyword |-> x.result.keyword]
                        /\ <<x.result.holder, x.result.keyword>> \in indexed'
      BY DEF AnswersMatchSearch
    <2>1. CASE x \in answers[m]
      <3>1. x.flow_id \in Flow
        BY <2>1 DEF TypeOK, Answer
      <3>2. search[x.flow_id] = [node |-> m, keyword |-> x.result.keyword]
            /\ <<x.result.holder, x.result.keyword>> \in indexed
        BY <2>1 DEF Provenance, AnswersMatchSearch
      <3>3. [node |-> m, keyword |-> x.result.keyword] \in Search
        BY <2>1 DEF TypeOK, Answer, Result, Search
      <3> QED
        BY <3>1, <3>2, <3>3, FloodingAssumption DEF Started
    <2>2. CASE m = n /\ x \in new
      <3>1. PICK r \in Found(n, keyword) : x \in Delivered(table, flow, r)
        BY <2>2
      <3>2. x = [flow_id |-> flow, result |-> r] /\ entry.own_request
        BY <3>1, <1>2 DEF Delivered
      <3>3. search'[flow].node = n
        BY <3>2, <1>3
      <3> QED
        BY <3>2, <3>3, <1>4, <2>2 DEF Search
    <2> QED
      BY <2>1, <2>2 DEF ProcessNewRequest, TypeOK
  <1> QED
    BY <1>6, <1>7, <1>8, <1>9 DEF Provenance

\* Nothing but packets changed, and the ones in flight now lead back to their search.
LEMMA OnlyPacketsChange ==
    ASSUME Inv, UNCHANGED <<routing_table, storage, answers, search, indexed>>,
           \A p \in InFlight' : PacketTrue(p)
    PROVE  Provenance'
  BY DEF Inv, Provenance, PacketTrue, TableTrue, RouteTrue, Started, AnswersMatchSearch

\* The step of a response: it is relayed, delivered, or discarded.
LEMMA ReceiveResponseTrue ==
    ASSUME Inv, NEW p \in InFlight, ReceiveResponse(p)
    PROVE  /\ Provenance'
           /\ \A x \in Delivered(routing_table[p.to], p.flow_id, p.result) :
                 /\ x = [flow_id |-> p.flow_id, result |-> p.result]
                 /\ search[p.flow_id].node = p.to
  <1> DEFINE table == routing_table[p.to]
             sent == Relayed(p.to, table, p.flow_id, p.ttl, p.result)
             new == Delivered(table, p.flow_id, p.result)
  <1> USE DEF Inv
  <1>1. /\ p \in Response /\ p.to \in Node /\ p.flow_id \in Flow /\ p.type = "response"
    BY DEF ReceiveResponse, TypeOK, Request, Response
  <1>2. /\ table \in FlowTableOf(RoutingEntry) /\ WellFormed(table)
        /\ NoDuplicate(table) /\ TableTrue(p.to, table)
    BY <1>1 DEF TypeOK, RoutingTableSound, Provenance
  <1>3. /\ \A q \in sent : /\ q.type = "response" /\ q.flow_id = p.flow_id
                           /\ q.result = p.result
        /\ \A x \in new : /\ x = [flow_id |-> p.flow_id, result |-> p.result]
                          /\ Started(p.flow_id) /\ search[p.flow_id].node = p.to
    BY <1>1, <1>2, RelayedTrue
  <1>4. PacketTrue(p)
    BY DEF Provenance
  <1>5. \A q \in InFlight' : PacketTrue(q)
    <2>1. DOMAIN network' \subseteq DOMAIN network \cup sent
      <3>1. network' = (network (-) SetToBag({p})) (+) SetToBag(sent)
        BY DEF ReceiveResponse
      <3>2. IsABag(network)
        BY DEF TypeOK
      <3> QED
        BY <3>1, <3>2, ConsumeAndSend
    <2>2. \A q \in sent : PacketTrue(q)
      BY <1>1, <1>3, <1>4 DEF PacketTrue
    <2> QED
      BY <2>1, <2>2 DEF Provenance, InFlight, BagToSet
  <1>6. ASSUME NEW m \in Node, NEW x \in answers'[m]
        PROVE  /\ search[x.flow_id] = [node |-> m, keyword |-> x.result.keyword]
               /\ <<x.result.holder, x.result.keyword>> \in indexed
    <2>1. CASE x \in answers[m]
      BY <2>1 DEF Provenance, AnswersMatchSearch
    <2>2. CASE m = p.to /\ x \in new
      <3>1. search[p.flow_id] \in Search
        BY <1>1, <1>3, <2>2 DEF TypeOK, Started
      <3> QED
        BY <3>1, <1>1, <1>3, <1>4, <2>2 DEF PacketTrue, Search
    <2> QED
      BY <2>1, <2>2, <1>1 DEF ReceiveResponse, TypeOK
  <1>7. Provenance'
    <2>1. AnswersMatchSearch'
      BY <1>6 DEF ReceiveResponse, AnswersMatchSearch
    <2>2. (\A q \in InFlight : PacketTrue(q))'
      BY <1>5 DEF ReceiveResponse, PacketTrue, Started
    <2> QED
      BY <2>1, <2>2
      DEF ReceiveResponse, Provenance, TableTrue, RouteTrue, Started
  <1> QED
    BY <1>3, <1>7

LEMMA ProvenanceStep ==
    ASSUME Inv, [Next]_vars
    PROVE  Provenance'
  <1> USE DEF Inv
  <1>1. ASSUME NEW n \in Node, NEW f \in Flow, NEW k \in Keyword, StartSearch(n, f, k)
        PROVE  Provenance'
    <2>1. /\ ProcessNewRequest(n, None, f, MaxTTL, k, {})
          /\ UNCHANGED <<storage, indexed>>
      BY <1>1 DEF StartSearch
    <2>2. /\ \A g \in Flow : Started(g) => search'[g] = search[g]
          /\ search'[f] \in Search /\ search'[f].keyword = k /\ search'[f].node = n
      BY <1>1 DEF StartSearch, Started, Search, TypeOK
    <2>3. MaxTTL \in 1 .. MaxTTL
      BY FloodingAssumption
    <2> QED
      BY <2>1, <2>2, <2>3, ProcessNewRequestTrue
  <1>2. ASSUME NEW p \in InFlight, ReceiveNewRequest(p)
        PROVE  Provenance'
    <2>1. p \in Request /\ p.type = "request"
      BY <1>2 DEF ReceiveNewRequest, TypeOK, Response
    <2>2. /\ p.to \in Node /\ p.from \in Node /\ p.flow_id \in Flow
          /\ p.ttl \in 1 .. MaxTTL /\ p.keyword \in Keyword
      BY <2>1, FloodingAssumption DEF Request
    <2>3. /\ ProcessNewRequest(p.to, p.from, p.flow_id, p.ttl, p.keyword, {p})
          /\ UNCHANGED <<storage, search, indexed>>
      BY <1>2 DEF ReceiveNewRequest
    <2>4. search[p.flow_id] \in Search /\ search[p.flow_id].keyword = p.keyword
      BY <2>1, <2>2 DEF Provenance, PacketTrue, Started, TypeOK
    <2>5. p.from # None
      BY <2>2, FloodingAssumption
    <2> QED
      BY <2>2, <2>3, <2>4, <2>5, ProcessNewRequestTrue
  <1>3. ASSUME NEW p \in InFlight, ReceiveKnownRequest(p) \/ Lose(p)
        PROVE  Provenance'
    <2>1. DOMAIN network' \subseteq DOMAIN network
      BY <1>3, TakeFromBag DEF ReceiveKnownRequest, Lose, TypeOK
    <2>2. \A q \in InFlight' : PacketTrue(q)
      BY <2>1 DEF Provenance, InFlight, BagToSet
    <2>3. UNCHANGED <<routing_table, storage, answers, search, indexed>>
      BY <1>3 DEF ReceiveKnownRequest, Lose
    <2> QED
      BY <2>2, <2>3, OnlyPacketsChange
  <1>4. ASSUME NEW p \in InFlight, ReceiveResponse(p)
        PROVE  Provenance'
    BY <1>4, ReceiveResponseTrue
  <1>5. ASSUME NEW n \in Node, NEW k \in Keyword, Index(n, k)
        PROVE  Provenance'
    BY <1>5 DEF Index, Provenance, TypeOK, InFlight, PacketTrue, Started,
                TableTrue, RouteTrue, AnswersMatchSearch
  <1>6. ASSUME NEW n \in Node, Restart(n)
        PROVE  Provenance'
    <2>1. \A m \in Node : TableTrue(m, routing_table[m])'
      BY <1>6, EmptyTableSound
      DEF Restart, Provenance, TypeOK, TableTrue, RouteTrue, Started
    <2> QED
      BY <2>1, <1>6 DEF Restart, Provenance, TypeOK, InFlight, PacketTrue, Started,
                        AnswersMatchSearch
  <1>7. CASE UNCHANGED vars
    BY <1>7 DEF vars, Provenance, InFlight, PacketTrue, Started, TableTrue, RouteTrue,
                AnswersMatchSearch
  <1> QED
    BY <1>1, <1>2, <1>3, <1>4, <1>5, <1>6, <1>7 DEF Next, Receive

LEMMA InvariantInv == Spec => []Inv
  <1>1. Init => Inv
    BY SoundInit, ProvenanceInit DEF Inv
  <1>2. Inv /\ [Next]_vars => Inv'
    BY SoundStep, ProvenanceStep DEF Inv
  <1> QED
    BY <1>1, <1>2, PTL DEF Spec

\* A client gets answers only to its own searches, for the keyword it asked for,
\* from peers that indexed it: with any topology, any table size, loss and restarts.
THEOREM AnswersMatch == Spec => []AnswersMatchSearch
  <1>1. Inv => AnswersMatchSearch
    BY DEF Inv, Provenance
  <1> QED
    BY <1>1, InvariantInv, PTL

-------------------------------------------------------------------------------
(* Flooding implements the search service *)

\* Processing a request answers the client of this node only if it sent the request.
LEMMA LocalAnswers ==
    ASSUME Inv,
           NEW n \in Node, NEW sender \in Node \cup {None}, NEW flow \in Flow,
           NEW ttl, NEW keyword \in Keyword, NEW consumed,
           ProcessNewRequest(n, sender, flow, ttl, keyword, consumed)
    PROVE  IF sender = None
           THEN answers' = [answers EXCEPT ![n] = @ \cup
                               {[flow_id |-> flow, result |-> r] : r \in Found(n, keyword)}]
           ELSE answers' = answers
  <1> DEFINE table == Insert(routing_table[n], RouteTo(flow, sender))
             new == UNION {Delivered(table, flow, r) : r \in Found(n, keyword)}
  <1>1. Contains(table, flow) /\ Lookup(table, flow) = RouteTo(flow, sender)
    BY EnterFlow DEF ProcessNewRequest, Inv
  <1>2. answers' = [answers EXCEPT ![n] = @ \cup new]
    BY DEF ProcessNewRequest
  <1>3. Lookup(table, flow).own_request = (sender = None)
    BY <1>1 DEF RouteTo
  <1>4. CASE sender = None
    <2>1. \A r : Delivered(table, flow, r) = {[flow_id |-> flow, result |-> r]}
      BY <1>1, <1>3, <1>4 DEF Delivered
    <2>2. new = {[flow_id |-> flow, result |-> r] : r \in Found(n, keyword)}
      BY <2>1
    <2> QED
      BY <1>2, <1>4, <2>2
  <1>5. CASE sender # None
    <2>1. \A r : Delivered(table, flow, r) = {}
      BY <1>1, <1>3, <1>5 DEF Delivered
    <2>2. new = {}
      BY <2>1
    <2> QED
      BY <1>2, <1>5, <2>2 DEF Inv, TypeOK
  <1> QED
    BY <1>4, <1>5

\* Every step of the network is a step of the abstract service, or none.
LEMMA AbstractStep ==
    ASSUME Inv, [Next]_vars
    PROVE  [Abstract!Next]_(Abstract!vars)
  <1> USE DEF Abstract!vars
  <1>1. ASSUME NEW n \in Node, NEW f \in Flow, NEW k \in Keyword, StartSearch(n, f, k)
        PROVE  Abstract!Start(n, f, k)
    <2> DEFINE all == {[flow_id |-> f, result |-> [holder |-> n, keyword |-> k]]}
               new == {[flow_id |-> f, result |-> r] : r \in Found(n, k)}
    <2>1. answers' = [answers EXCEPT ![n] = @ \cup new]
      BY <1>1, LocalAnswers DEF StartSearch
    <2>2. new \in SUBSET all /\ (new # {} => k \in storage[n])
      BY DEF Found
    <2>3. new # {} => <<n, k>> \in indexed
      BY <2>2 DEF Inv, Provenance
    <2> QED
      BY <1>1, <2>1, <2>2, <2>3 DEF StartSearch, Abstract!Start
  <1>2. ASSUME NEW p \in InFlight, ReceiveNewRequest(p)
        PROVE  UNCHANGED Abstract!vars
    <2>1. p \in Request
      BY <1>2 DEF ReceiveNewRequest, Inv, TypeOK, Response
    <2>2. /\ p.to \in Node /\ p.from \in Node /\ p.from # None /\ p.flow_id \in Flow
          /\ p.keyword \in Keyword
      BY <2>1, FloodingAssumption DEF Request
    <2>3. answers' = answers
      BY <1>2, <2>2, LocalAnswers DEF ReceiveNewRequest
    <2> QED
      BY <1>2, <2>3 DEF ReceiveNewRequest
  <1>3. ASSUME NEW p \in InFlight, ReceiveResponse(p)
        PROVE  (\E f \in Flow, m \in Node : Abstract!Deliver(f, m)) \/ UNCHANGED Abstract!vars
    <2> DEFINE new == Delivered(routing_table[p.to], p.flow_id, p.result)
    <2>1. /\ p \in Response /\ p.type = "response" /\ p.flow_id \in Flow
          /\ p.to \in Node /\ p.result \in Result
      BY <1>3 DEF ReceiveResponse, Inv, TypeOK, Request, Response
    <2>2. /\ answers' = [answers EXCEPT ![p.to] = @ \cup new]
          /\ UNCHANGED <<search, indexed>>
      BY <1>3 DEF ReceiveResponse
    <2>3. CASE new = {}
      BY <2>2, <2>3 DEF Inv, TypeOK
    <2>4. CASE new # {}
      <3>1. new = {[flow_id |-> p.flow_id, result |-> p.result]}
        BY <2>4 DEF Delivered
      <3>2. search[p.flow_id].node = p.to
        BY <1>3, <2>4, ReceiveResponseTrue
      <3>3. /\ search[p.flow_id] # None
            /\ p.result.keyword = search[p.flow_id].keyword
            /\ <<p.result.holder, p.result.keyword>> \in indexed
        BY <2>1 DEF Inv, Provenance, PacketTrue, Started
      <3>4. p.result.holder \in Node
            /\ p.result = [holder |-> p.result.holder, keyword |-> search[p.flow_id].keyword]
        BY <2>1, <3>3 DEF Result
      <3>5. Abstract!Deliver(p.flow_id, p.result.holder)
        BY <2>2, <3>1, <3>2, <3>3, <3>4 DEF Abstract!Deliver
      <3> QED
        BY <2>1, <3>4, <3>5
    <2> QED
      BY <2>3, <2>4
  <1>4. ASSUME NEW p \in InFlight, ReceiveKnownRequest(p) \/ Lose(p)
        PROVE  UNCHANGED Abstract!vars
    BY <1>4 DEF ReceiveKnownRequest, Lose
  <1>5. ASSUME NEW n \in Node, NEW k \in Keyword, Index(n, k)
        PROVE  Abstract!Index(n, k)
    BY <1>5 DEF Index, Abstract!Index
  <1>6. ASSUME NEW n \in Node, Restart(n)
        PROVE  UNCHANGED Abstract!vars
    BY <1>6 DEF Restart
  <1>7. CASE UNCHANGED vars
    BY <1>7 DEF vars
  <1> QED
    BY <1>1, <1>2, <1>3, <1>4, <1>5, <1>6, <1>7 DEF Next, Receive, Abstract!Next

\* The flooding network implements the abstract search service: whatever way the
\* packets take, a client sees answers of the service and nothing else.
THEOREM Implementation == Spec => ImplementsSearchService
  <1>1. Init => Abstract!Init
    BY DEF Init, Abstract!Init
  <1>2. Inv /\ [Next]_vars => [Abstract!Next]_(Abstract!vars)
    BY AbstractStep
  <1> QED
    BY <1>1, <1>2, InvariantInv, PTL DEF Spec, ImplementsSearchService, Abstract!Spec

-------------------------------------------------------------------------------
(***************************************************************************)
(* Routes, when the routing tables have room for every flow and no service *)
(* restarts: for every network, with any loss, they lead home, responses   *)
(* come all the way, and a peer processes and answers a search once.       *)
(***************************************************************************)

\* The ttl that a request had when a node processed it is the ttl of its route: one
\* less than where the route leads, and MaxTTL at the origin.
RouteHome(n, f) ==
    LET route == Lookup(routing_table[n], f)
    IN  IF route.own_request
        THEN search[f].node = n /\ accepted[n][f] = MaxTTL
        ELSE /\ route.next_hop \in Neighbours(n)
             /\ accepted[route.next_hop][f] = accepted[n][f] + 1

\* A node has a route for the flows it processed and for no other.
RoutesKnown ==
    \A n \in Node, f \in Flow :
        /\ Contains(routing_table[n], f) <=> accepted[n][f] # 0
        /\ accepted[n][f] # 0 => Started(f) /\ RouteHome(n, f)

\* A request comes from a neighbour that processed it with one more ttl.
RequestsOut ==
    \A p \in InFlight : p.type = "request" =>
        /\ p.from \in Neighbours(p.to)
        /\ accepted[p.from][p.flow_id] = p.ttl + 1

\* A response comes from a holder that processed its request, and has lost as much
\* ttl on its way as the request from here to the holder.
ResponseHome(p) ==
    /\ accepted[p.to][p.flow_id] # 0
    /\ accepted[p.result.holder][p.flow_id] # 0
    /\ p.ttl + accepted[p.to][p.flow_id] = MaxTTL + accepted[p.result.holder][p.flow_id]

ResponsesOut == \A p \in InFlight : p.type = "response" => ResponseHome(p)

\* An answer comes from a holder that processed its request.
AnswersFrom ==
    \A n \in Node : \A a \in answers[n] : accepted[a.result.holder][a.flow_id] # 0

\* There is one copy of a response, and it was not delivered.
OnlyCopy(p) ==
    /\ network[p] = 1
    /\ \A q \in InFlight :
          q.type = "response" /\ q.flow_id = p.flow_id /\ q.result.holder = p.result.holder
              => q = p
    /\ \A n \in Node : [flow_id |-> p.flow_id, result |-> p.result] \notin answers[n]

OnlyCopies == \A p \in InFlight : p.type = "response" => OnlyCopy(p)

Home == RoutesKnown /\ RequestsOut /\ ResponsesOut /\ AnswersFrom /\ OnlyCopies

-------------------------------------------------------------------------------
(* Bags *)

\* How often a packet is in flight after a handler consumed and sent some.
LEMMA CopiesAfter ==
    ASSUME NEW B, NEW C, NEW S, NEW after, IsABag(B),
           after = (B (-) SetToBag(C)) (+) SetToBag(S), NEW x
    PROVE  /\ x \in DOMAIN after =>
                 x \in S \/ (x \in DOMAIN B /\ (x \in C => B[x] # 1))
           /\ x \in DOMAIN after /\ x \notin S /\ x \notin C => after[x] = B[x]
           /\ x \in S /\ (x \notin DOMAIN B \/ (x \in C /\ B[x] = 1)) => after[x] = 1
  <1> DEFINE rest == B (-) SetToBag(C)
  <1>1. DOMAIN SetToBag(C) = C /\ (\A y \in C : SetToBag(C)[y] = 1)
    BY DEF SetToBag
  <1>2. DOMAIN SetToBag(S) = S /\ (\A y \in S : SetToBag(S)[y] = 1)
    BY DEF SetToBag
  <1>3. \A y \in DOMAIN B : B[y] \in Nat \ {0}
    BY DEF IsABag
  <1>4. \A y : /\ y \in DOMAIN rest <=> y \in DOMAIN B /\ (y \in C => B[y] # 1)
               /\ y \in DOMAIN rest /\ y \notin C => rest[y] = B[y]
    BY <1>1, <1>3 DEF (-)
  <1>5. \A y \in DOMAIN rest : rest[y] \in Nat
    BY <1>1, <1>3 DEF (-)
  <1> HIDE DEF rest
  <1>6. /\ DOMAIN (rest (+) SetToBag(S)) = DOMAIN rest \cup S
        /\ \A y \in DOMAIN rest \cup S :
              (rest (+) SetToBag(S))[y] = (IF y \in DOMAIN rest THEN rest[y] ELSE 0)
                                            + (IF y \in S THEN 1 ELSE 0)
    BY <1>2 DEF (+)
  <1>7. after = rest (+) SetToBag(S)
    BY DEF rest
  <1> QED
    BY <1>4, <1>5, <1>6, <1>7, <1>3

\* A handler that sends nothing.
LEMMA CopiesLeft ==
    ASSUME NEW B, NEW C, NEW after, IsABag(B), after = B (-) SetToBag(C), NEW x
    PROVE  /\ x \in DOMAIN after => x \in DOMAIN B /\ (x \in C => B[x] # 1)
           /\ x \in DOMAIN after /\ x \notin C => after[x] = B[x]
  <1>1. DOMAIN SetToBag(C) = C /\ (\A y \in C : SetToBag(C)[y] = 1)
    BY DEF SetToBag
  <1> QED
    BY <1>1 DEF IsABag, (-)

-------------------------------------------------------------------------------
(* What processing a request changes *)

\* A route is an own one when there is no sender.
LEMMA RouteToFields ==
    ASSUME NEW flow, NEW sender
    PROVE  /\ RouteTo(flow, sender).own_request <=> sender = None
           /\ RouteTo(flow, sender).next_hop = sender
  <1>1. RouteTo(flow, sender).own_request = (sender = None)
    BY DEF RouteTo
  <1>2. RouteTo(flow, sender).next_hop = sender
    BY DEF RouteTo
  <1>3. CASE sender = None
    <2>1. RouteTo(flow, sender).own_request = TRUE
      BY <1>1, <1>3
    <2> QED
      BY <2>1, <1>2, <1>3
  <1>4. CASE sender # None
    <2>1. RouteTo(flow, sender).own_request = FALSE
      BY <1>1, <1>4
    <2> QED
      BY <2>1, <1>2, <1>4
  <1> QED
    BY <1>3, <1>4

\* It is the first time; the node keeps the routes it has and gets the new one.
LEMMA RoutesKept ==
    ASSUME Roomy, Inv, RoutesKnown,
           NEW n \in Node, NEW sender \in Node \cup {None}, NEW flow \in Flow,
           NEW ttl \in 1 .. MaxTTL, NEW keyword, NEW consumed,
           ProcessNewRequest(n, sender, flow, ttl, keyword, consumed)
    PROVE  /\ accepted[n][flow] = 0 /\ accepted'[n][flow] = ttl
           /\ Contains(routing_table'[n], flow)
           /\ Lookup(routing_table'[n], flow) = RouteTo(flow, sender)
           /\ \A m \in Node, f \in Flow : ~(m = n /\ f = flow) =>
                 /\ accepted'[m][f] = accepted[m][f]
                 /\ Contains(routing_table'[m], f) <=> Contains(routing_table[m], f)
                 /\ Contains(routing_table[m], f) =>
                       Lookup(routing_table'[m], f) = Lookup(routing_table[m], f)
  <1> USE DEF Inv
  <1> DEFINE before == routing_table[n]
             entry == RouteTo(flow, sender)
             table == Insert(before, entry)
  <1>1. /\ ~Contains(before, flow)
        /\ routing_table' = [routing_table EXCEPT ![n] = table]
        /\ accepted' = [accepted EXCEPT ![n][flow] = ttl]
    BY DEF ProcessNewRequest
  <1>2. before \in FlowTableOf(RoutingEntry) /\ WellFormed(before) /\ NoDuplicate(before)
    BY DEF TypeOK, RoutingTableSound
  <1>3. entry \in RoutingEntry /\ entry.flow_id = flow
    BY RouteToType DEF RouteTo
  <1>4. Blank \notin RoutingEntry /\ (\A e \in RoutingEntry : e.flow_id \in Flow)
    BY FloodingAssumption DEF RoutingEntry
  <1>5. before.length < TableSize
    BY <1>1, <1>2, <1>4, RoomForNewFlow DEF Roomy
  <1>6. \A f : f # flow =>
            /\ Contains(table, f) <=> Contains(before, f)
            /\ Contains(before, f) => Lookup(table, f) = Lookup(before, f)
    BY <1>1, <1>2, <1>3, <1>4, <1>5, InsertKeeps
  <1>7. Contains(table, flow) /\ Lookup(table, flow) = entry
    BY <1>1, EnterFlow
  <1> HIDE DEF table
  <1>8. routing_table'[n] = table /\ (\A m \in Node \ {n} : routing_table'[m] = routing_table[m])
    BY <1>1 DEF TypeOK
  <1>9. /\ accepted'[n][flow] = ttl
        /\ \A m \in Node, f \in Flow : ~(m = n /\ f = flow) => accepted'[m][f] = accepted[m][f]
    BY <1>1 DEF TypeOK
  <1>10. accepted[n][flow] = 0
    BY <1>1 DEF RoutesKnown
  <1> QED
    BY <1>6, <1>7, <1>8, <1>9, <1>10

\* What a node has accepted stays as it is.
LEMMA AcceptedKept ==
    ASSUME Roomy, Inv, RoutesKnown,
           NEW n \in Node, NEW sender \in Node \cup {None}, NEW flow \in Flow,
           NEW ttl \in 1 .. MaxTTL, NEW keyword, NEW consumed,
           ProcessNewRequest(n, sender, flow, ttl, keyword, consumed)
    PROVE  /\ accepted[n][flow] = 0 /\ accepted'[n][flow] = ttl
           /\ \A m \in Node, f \in Flow : accepted[m][f] # 0 => accepted'[m][f] = accepted[m][f]
  BY RoutesKept

\* The routes still lead home, the new one to the sender of the request.
LEMMA RoutesStep ==
    ASSUME Roomy, Inv, RoutesKnown,
           NEW n \in Node, NEW sender \in Node \cup {None}, NEW flow \in Flow,
           NEW ttl \in 1 .. MaxTTL, NEW keyword, NEW consumed,
           ProcessNewRequest(n, sender, flow, ttl, keyword, consumed),
           \A g \in Flow : Started(g) => search'[g] = search[g],
           search'[flow] # None,
           sender = None => search'[flow].node = n /\ ttl = MaxTTL,
           sender # None => sender \in Neighbours(n) /\ accepted[sender][flow] = ttl + 1
    PROVE  RoutesKnown'
  <1>1. /\ accepted[n][flow] = 0 /\ accepted'[n][flow] = ttl
        /\ Contains(routing_table'[n], flow)
        /\ Lookup(routing_table'[n], flow) = RouteTo(flow, sender)
        /\ \A m \in Node, f \in Flow : ~(m = n /\ f = flow) =>
              /\ accepted'[m][f] = accepted[m][f]
              /\ Contains(routing_table'[m], f) <=> Contains(routing_table[m], f)
              /\ Contains(routing_table[m], f) =>
                    Lookup(routing_table'[m], f) = Lookup(routing_table[m], f)
    BY RoutesKept
  <1>2. \A m, k \in Node, f \in Flow : accepted[m][f] # 0 => accepted'[m][f] = accepted[m][f]
    BY <1>1
  <1>3. accepted \in [Node -> [Flow -> 0 .. MaxTTL]]
    BY DEF Inv, TypeOK
  <1> SUFFICES ASSUME NEW m \in Node, NEW f \in Flow
               PROVE  /\ Contains(routing_table'[m], f) <=> accepted'[m][f] # 0
                      /\ accepted'[m][f] # 0 => Started(f)' /\ RouteHome(m, f)'
    BY DEF RoutesKnown
  <1>4. CASE m = n /\ f = flow
    <2>1. Contains(routing_table'[m], f) /\ accepted'[m][f] # 0 /\ Started(f)'
      BY <1>1, <1>4 DEF Started
    <2>2. CASE sender = None
      BY <2>1, <2>2, <1>1, <1>4, RouteToFields DEF RouteHome
    <2>3. CASE sender # None
      <3>1. sender \in Node /\ accepted'[sender][flow] = ttl + 1
        BY <2>3, <1>1, <1>3
      <3>2. /\ ~Lookup(routing_table'[m], f).own_request
            /\ Lookup(routing_table'[m], f).next_hop = sender
        BY <2>3, <1>1, <1>4, RouteToFields
      <3>3. RouteHome(m, f)'
        BY <3>1, <3>2, <2>3, <1>1, <1>4 DEF RouteHome, Neighbours
      <3> QED
        BY <3>3, <2>1
    <2> QED
      BY <2>1, <2>2, <2>3
  <1>5. CASE ~(m = n /\ f = flow)
    <2>1. Contains(routing_table'[m], f) <=> accepted'[m][f] # 0
      BY <1>1, <1>5 DEF RoutesKnown
    <2>2. ASSUME accepted'[m][f] # 0 PROVE Started(f)' /\ RouteHome(m, f)'
      <3>1. /\ accepted[m][f] # 0 /\ accepted'[m][f] = accepted[m][f]
            /\ Lookup(routing_table'[m], f) = Lookup(routing_table[m], f)
            /\ Started(f) /\ RouteHome(m, f)
        BY <2>2, <1>1, <1>5 DEF RoutesKnown
      <3>2. search'[f] = search[f]
        BY <3>1
      <3> DEFINE route == Lookup(routing_table[m], f)
      <3>3. CASE route.own_request
        BY <3>1, <3>2, <3>3 DEF RouteHome, Started
      <3>4. CASE ~route.own_request
        <4>1. /\ route.next_hop \in Neighbours(m) /\ route.next_hop \in Node
              /\ accepted[route.next_hop][f] = accepted[m][f] + 1
          BY <3>1, <3>4 DEF RouteHome, Neighbours
        <4>2. accepted[route.next_hop][f] # 0
          BY <4>1, <1>3
        <4>3. accepted'[route.next_hop][f] = accepted[route.next_hop][f]
          BY <4>1, <4>2, <1>2
        <4> QED
          BY <4>1, <4>3, <3>1, <3>2, <3>4 DEF RouteHome, Started, Neighbours
      <3> QED
        BY <3>3, <3>4
    <2> QED
      BY <2>1, <2>2
  <1> QED
    BY <1>4, <1>5

\* Requests still come from where the routes lead.
LEMMA RequestsStep ==
    ASSUME Roomy, Inv, RoutesKnown, RequestsOut,
           NEW n \in Node, NEW sender \in Node \cup {None}, NEW flow \in Flow,
           NEW ttl \in 1 .. MaxTTL, NEW keyword, NEW consumed,
           ProcessNewRequest(n, sender, flow, ttl, keyword, consumed)
    PROVE  RequestsOut'
  <1> DEFINE table == Insert(routing_table[n], RouteTo(flow, sender))
             responses == UNION {Relayed(n, table, flow, MaxTTL, r) : r \in Found(n, keyword)}
             sent == Flooded(n, sender, flow, ttl, keyword) \cup responses
  <1>1. /\ accepted'[n][flow] = ttl
        /\ \A m \in Node, f \in Flow : accepted[m][f] # 0 => accepted'[m][f] = accepted[m][f]
    BY AcceptedKept
  <1>2. accepted \in [Node -> [Flow -> 0 .. MaxTTL]] /\ IsABag(network)
        /\ InFlight \subseteq Request \cup Response
    BY DEF Inv, TypeOK
  <1>3. network' = (network (-) SetToBag(consumed)) (+) SetToBag(sent)
    BY DEF ProcessNewRequest
  <1>4. \A p \in InFlight' : p \in InFlight \/ p \in sent
    BY <1>2, <1>3, ConsumeAndSend DEF InFlight, BagToSet
  <1>5. ASSUME NEW p \in InFlight, p.type = "request"
        PROVE  p.from \in Neighbours(p.to) /\ accepted'[p.from][p.flow_id] = p.ttl + 1
    <2>1. p.from \in Node /\ p.flow_id \in Flow /\ p.ttl \in 1 .. MaxTTL - 1
      BY <1>2 DEF Request, Response
    <2>2. p.from \in Neighbours(p.to) /\ accepted[p.from][p.flow_id] = p.ttl + 1
      BY <1>5 DEF RequestsOut
    <2>3. accepted[p.from][p.flow_id] # 0
      BY <2>1, <2>2
    <2> QED
      BY <2>1, <2>2, <2>3, <1>1
  <1>6. ASSUME NEW p \in Flooded(n, sender, flow, ttl, keyword)
        PROVE  p.from \in Neighbours(p.to) /\ accepted'[p.from][p.flow_id] = p.ttl + 1
    <2>1. /\ p.from = n /\ p.to \in Neighbours(n) /\ p.flow_id = flow
          /\ p.ttl = Decrement(ttl)
      BY <1>6 DEF Flooded
    <2>2. n \in Neighbours(p.to)
      BY <2>1, FloodingAssumption DEF Neighbours
    <2>3. p.ttl + 1 = ttl
      BY <2>1, DecrementValue
    <2> QED
      BY <2>1, <2>2, <2>3, <1>1
  <1>7. \A p \in responses : p.type # "request"
    BY DEF Relayed
  <1> QED
    BY <1>4, <1>5, <1>6, <1>7 DEF RequestsOut, Neighbours

\* A node that finds something sends one response towards the sender or, when there
\* is none, gives one answer to its client.
LEMMA OneResult ==
    ASSUME Inv,
           NEW n \in Node, NEW sender \in Node \cup {None}, NEW flow \in Flow,
           NEW keyword, ~Contains(routing_table[n], flow), NEW r \in Found(n, keyword)
    PROVE  LET table == Insert(routing_table[n], RouteTo(flow, sender))
           IN  /\ \A p \in Relayed(n, table, flow, MaxTTL, r) :
                     /\ sender # None
                     /\ p = [from |-> n, to |-> sender, type |-> "response", flow_id |-> flow,
                             ttl |-> MaxTTL - 1, result |-> [holder |-> n, keyword |-> keyword]]
               /\ \A a \in Delivered(table, flow, r) :
                     /\ sender = None
                     /\ a = [flow_id |-> flow, result |-> [holder |-> n, keyword |-> keyword]]
  <1> DEFINE table == Insert(routing_table[n], RouteTo(flow, sender))
  <1>1. Contains(table, flow) /\ Lookup(table, flow) = RouteTo(flow, sender)
    BY EnterFlow DEF Inv
  <1>2. r = [holder |-> n, keyword |-> keyword]
    BY DEF Found
  <1>3. Decrement(MaxTTL) = MaxTTL - 1
    BY DecrementValue, FloodingAssumption
  <1>4. /\ Lookup(table, flow).own_request <=> sender = None
        /\ Lookup(table, flow).next_hop = sender
    BY <1>1, RouteToFields
  <1> HIDE DEF table
  <1>5. \A p \in Relayed(n, table, flow, MaxTTL, r) :
            /\ sender # None
            /\ p = [from |-> n, to |-> sender, type |-> "response", flow_id |-> flow,
                    ttl |-> MaxTTL - 1, result |-> [holder |-> n, keyword |-> keyword]]
    BY <1>2, <1>3, <1>4 DEF Relayed
  <1>6. \A a \in Delivered(table, flow, r) :
            /\ sender = None
            /\ a = [flow_id |-> flow, result |-> [holder |-> n, keyword |-> keyword]]
    BY <1>2, <1>4 DEF Delivered
  <1> QED
    BY <1>5, <1>6 DEF table

\* Nobody has seen a response of this node to the flow; the new one, if there is one,
\* is the only one.
LEMMA ResponsesStep ==
    ASSUME Roomy, Inv, RoutesKnown, ResponsesOut, AnswersFrom, OnlyCopies,
           NEW n \in Node, NEW sender \in Node \cup {None}, NEW flow \in Flow,
           NEW ttl \in 1 .. MaxTTL, NEW keyword,
           NEW consumed, \A p \in consumed : p.type = "request",
           ProcessNewRequest(n, sender, flow, ttl, keyword, consumed),
           sender # None => accepted[sender][flow] = ttl + 1
    PROVE  ResponsesOut' /\ AnswersFrom' /\ OnlyCopies'
  <1> DEFINE table == Insert(routing_table[n], RouteTo(flow, sender))
             requests == Flooded(n, sender, flow, ttl, keyword)
             responses == UNION {Relayed(n, table, flow, MaxTTL, r) : r \in Found(n, keyword)}
             new == UNION {Delivered(table, flow, r) : r \in Found(n, keyword)}
             response == [from |-> n, to |-> sender, type |-> "response", flow_id |-> flow,
                          ttl |-> MaxTTL - 1, result |-> [holder |-> n, keyword |-> keyword]]
  <1>1. /\ accepted[n][flow] = 0 /\ accepted'[n][flow] = ttl
        /\ \A m \in Node, f \in Flow : accepted[m][f] # 0 => accepted'[m][f] = accepted[m][f]
    BY AcceptedKept
  <1>2. /\ accepted \in [Node -> [Flow -> 0 .. MaxTTL]] /\ IsABag(network)
        /\ InFlight \subseteq Request \cup Response
        /\ answers \in [Node -> SUBSET Answer]
    BY DEF Inv, TypeOK
  <1>3. /\ network' = (network (-) SetToBag(consumed)) (+) SetToBag(requests \cup responses)
        /\ answers' = [answers EXCEPT ![n] = @ \cup new]
        /\ ~Contains(routing_table[n], flow)
    BY DEF ProcessNewRequest
  <1>4. /\ \A p \in responses : sender # None /\ p = response
        /\ \A a \in new : /\ sender = None
                         /\ a = [flow_id |-> flow, result |-> [holder |-> n, keyword |-> keyword]]
    BY <1>3, OneResult
  <1>5. \A p \in requests : p.type = "request"
    BY DEF Flooded
  <1> HIDE DEF requests, responses, new
  <1>6. ASSUME NEW p \in InFlight', p.type = "response", p \notin responses
        PROVE  p \in InFlight /\ network'[p] = network[p] /\ p \in Response
    <2>1. p \notin consumed /\ p \notin requests \cup responses
      BY <1>5, <1>6
    <2>2. p \in DOMAIN network /\ network'[p] = network[p]
      BY <2>1, <1>2, <1>3, CopiesAfter DEF InFlight, BagToSet
    <2> QED
      BY <2>2, <1>2, <1>6 DEF InFlight, BagToSet, Request
  <1>7. \A p \in InFlight : p.type = "response" =>
            ~(p.flow_id = flow /\ p.result.holder = n)
    BY <1>1 DEF ResponsesOut, ResponseHome
  <1>8. \A m \in Node : \A a \in answers[m] : ~(a.flow_id = flow /\ a.result.holder = n)
    BY <1>1 DEF AnswersFrom
  <1>9. response.type = "response" /\ response.flow_id = flow /\ response.result.holder = n
        /\ response.result = [holder |-> n, keyword |-> keyword]
        /\ response.to = sender /\ response.ttl = MaxTTL - 1
    OBVIOUS
  <1> HIDE DEF response
  <1>10. ResponsesOut'
    <2> SUFFICES ASSUME NEW p \in InFlight', p.type = "response" PROVE ResponseHome(p)'
      BY DEF ResponsesOut
    <2>1. CASE p \in responses
      <3>1. /\ p = response /\ sender \in Node /\ accepted[sender][flow] = ttl + 1
        BY <2>1, <1>4
      <3>2. accepted'[sender][flow] = ttl + 1
        BY <3>1, <1>1, <1>2
      <3> QED
        BY <3>1, <3>2, <1>1, <1>9, FloodingAssumption DEF ResponseHome
    <2>2. CASE p \notin responses
      <3>1. p \in InFlight /\ p \in Response /\ ResponseHome(p)
        BY <2>2, <1>6 DEF ResponsesOut
      <3>2. p.to \in Node /\ p.flow_id \in Flow /\ p.result.holder \in Node
        BY <3>1 DEF Response, Result
      <3> QED
        BY <3>1, <3>2, <1>1 DEF ResponseHome
    <2> QED
      BY <2>1, <2>2
  <1>11. AnswersFrom'
    <2> SUFFICES ASSUME NEW m \in Node, NEW a \in answers'[m]
                 PROVE  accepted'[a.result.holder][a.flow_id] # 0
      BY DEF AnswersFrom
    <2>1. CASE a \in answers[m]
      <3>1. a.result.holder \in Node /\ a.flow_id \in Flow
        BY <2>1, <1>2 DEF Answer, Result
      <3> QED
        BY <2>1, <3>1, <1>1 DEF AnswersFrom
    <2>2. CASE a \in new
      BY <2>2, <1>1, <1>4
    <2> QED
      BY <2>1, <2>2, <1>2, <1>3
  <1>12. OnlyCopies'
    <2> SUFFICES ASSUME NEW p \in InFlight', p.type = "response" PROVE OnlyCopy(p)'
      BY DEF OnlyCopies
    <2>1. CASE p \in responses
      <3>1. p = response /\ sender # None /\ new = {}
        BY <2>1, <1>4
      <3>2. p \notin DOMAIN network
        BY <3>1, <1>7, <1>9 DEF InFlight, BagToSet
      <3>3. network'[p] = 1
        BY <2>1, <3>2, <1>2, <1>3, CopiesAfter
      <3>4. ASSUME NEW q \in InFlight', q.type = "response", q.flow_id = p.flow_id,
                   q.result.holder = p.result.holder
            PROVE  q = p
        BY <3>1, <3>4, <1>4, <1>6, <1>7, <1>9
      <3>5. ASSUME NEW m \in Node
            PROVE  [flow_id |-> p.flow_id, result |-> p.result] \notin answers'[m]
        <4>1. answers'[m] = answers[m]
          BY <3>1, <1>2, <1>3
        <4> QED
          BY <4>1, <3>1, <1>8, <1>9
      <3> QED
        BY <3>3, <3>4, <3>5 DEF OnlyCopy
    <2>2. CASE p \notin responses
      <3>1. p \in InFlight /\ network'[p] = network[p] /\ OnlyCopy(p)
        BY <2>2, <1>6 DEF OnlyCopies
      <3>2. ~(p.flow_id = flow /\ p.result.holder = n)
        BY <3>1, <1>7
      <3>3. ASSUME NEW q \in InFlight', q.type = "response", q.flow_id = p.flow_id,
                   q.result.holder = p.result.holder
            PROVE  q = p
        <4>1. q \notin responses
          BY <3>2, <3>3, <1>4, <1>9
        <4> QED
          BY <4>1, <3>1, <3>3, <1>6 DEF OnlyCopy
      <3>4. ASSUME NEW m \in Node
            PROVE  [flow_id |-> p.flow_id, result |-> p.result] \notin answers'[m]
        <4>1. [flow_id |-> p.flow_id, result |-> p.result] \notin new
          BY <3>2, <1>4
        <4> QED
          BY <4>1, <3>1, <1>2, <1>3 DEF OnlyCopy
      <3> QED
        BY <3>1, <3>3, <3>4 DEF OnlyCopy
    <2> QED
      BY <2>1, <2>2
  <1> QED
    BY <1>10, <1>11, <1>12

-------------------------------------------------------------------------------
(* The steps *)

\* Only packets that were in flight are, and none of them twice.
LEMMA FewerPackets ==
    ASSUME Inv, Home, UNCHANGED <<routing_table, answers, search, accepted>>,
           NEW p, network' = network (-) SetToBag({p})
    PROVE  Home'
  <1> USE DEF Home
  <1>1. IsABag(network)
    BY DEF Inv, TypeOK
  <1>2. \A x \in InFlight' : x \in InFlight /\ (x = p => network[x] # 1)
                            /\ (x # p => network'[x] = network[x])
    BY <1>1, CopiesLeft DEF InFlight, BagToSet
  <1>3. RoutesKnown'
    BY DEF RoutesKnown, Started, RouteHome
  <1>4. RequestsOut' /\ ResponsesOut' /\ AnswersFrom'
    BY <1>2 DEF RequestsOut, ResponsesOut, ResponseHome, AnswersFrom
  <1>5. OnlyCopies'
    BY <1>2 DEF OnlyCopies, OnlyCopy
  <1> QED
    BY <1>3, <1>4, <1>5

\* A relayed response takes the place of the one that came; a delivered one leaves
\* none.
LEMMA ReceiveResponseHome ==
    ASSUME Inv, Home, NEW p \in InFlight, ReceiveResponse(p)
    PROVE  Home'
  <1> USE DEF Home
  <1> DEFINE n == p.to
             f == p.flow_id
             table == routing_table[n]
             route == Lookup(table, f)
             sent == Relayed(n, table, f, p.ttl, p.result)
             new == Delivered(table, f, p.result)
  <1>1. /\ network' = (network (-) SetToBag({p})) (+) SetToBag(sent)
        /\ answers' = [answers EXCEPT ![n] = @ \cup new]
        /\ UNCHANGED <<routing_table, search, accepted>>
        /\ p.type = "response"
    BY DEF ReceiveResponse
  <1>2. /\ accepted \in [Node -> [Flow -> 0 .. MaxTTL]] /\ IsABag(network)
        /\ InFlight \subseteq Request \cup Response
        /\ answers \in [Node -> SUBSET Answer]
    BY DEF Inv, TypeOK
  <1>3. /\ p \in Response /\ n \in Node /\ f \in Flow /\ p.ttl \in 1 .. MaxTTL
        /\ p.result.holder \in Node
    BY <1>1, <1>2, FloodingAssumption DEF Request, Response, Result
  <1>4. ResponseHome(p) /\ OnlyCopy(p)
    BY <1>1 DEF ResponsesOut, OnlyCopies
  <1>5. Contains(table, f) /\ RouteHome(n, f)
    BY <1>3, <1>4 DEF ResponseHome, RoutesKnown
  <1>6. \A q \in sent : /\ ~route.own_request /\ q.type = "response"
                        /\ q.to = route.next_hop /\ q.flow_id = f
                        /\ q.ttl = p.ttl - 1 /\ q.result = p.result
    BY <1>3, DecrementValue DEF Relayed
  <1>7. \A q, r \in sent : q = r
    BY DEF Relayed
  <1>8. \A a \in new : route.own_request /\ a = [flow_id |-> f, result |-> p.result]
    BY DEF Delivered
  <1> HIDE DEF sent, new
  <1>9. \A q \in sent : q \notin DOMAIN network
    <2> SUFFICES ASSUME NEW q \in sent, q \in DOMAIN network PROVE FALSE
      OBVIOUS
    <2>1. q = p
      BY <1>4, <1>6 DEF OnlyCopy, InFlight, BagToSet
    <2> QED
      BY <2>1, <1>3, <1>6
  <1>10. ASSUME NEW q \in InFlight', q \notin sent
         PROVE  q \in InFlight /\ q # p /\ network'[q] = network[q]
    <2>1. q \in DOMAIN network /\ (q = p => network[q] # 1)
      BY <1>1, <1>2, <1>10, CopiesAfter DEF InFlight, BagToSet
    <2>2. q # p
      BY <2>1, <1>4 DEF OnlyCopy
    <2>3. network'[q] = network[q]
      BY <2>2, <1>1, <1>2, <1>10, CopiesAfter DEF InFlight, BagToSet
    <2> QED
      BY <2>1, <2>2, <2>3 DEF InFlight, BagToSet
  <1>11. RoutesKnown'
    BY <1>1 DEF RoutesKnown, Started, RouteHome
  <1>12. RequestsOut'
    BY <1>1, <1>6, <1>10 DEF RequestsOut
  <1>13. ResponsesOut'
    <2> SUFFICES ASSUME NEW q \in InFlight', q.type = "response" PROVE ResponseHome(q)'
      BY DEF ResponsesOut
    <2>1. CASE q \in sent
      <3>1. /\ route.next_hop \in Node
            /\ accepted[route.next_hop][f] = accepted[n][f] + 1
        BY <2>1, <1>5, <1>6 DEF RouteHome, Neighbours
      <3>2. accepted[n][f] \in 0 .. MaxTTL /\ accepted[p.result.holder][f] \in 0 .. MaxTTL
        BY <1>2, <1>3
      <3> QED
        BY <2>1, <3>1, <3>2, <1>1, <1>3, <1>4, <1>6, FloodingAssumption DEF ResponseHome
    <2>2. CASE q \notin sent
      BY <2>2, <1>1, <1>10 DEF ResponsesOut, ResponseHome
    <2> QED
      BY <2>1, <2>2
  <1>14. AnswersFrom'
    <2> SUFFICES ASSUME NEW m \in Node, NEW a \in answers'[m]
                 PROVE  accepted[a.result.holder][a.flow_id] # 0
      BY <1>1 DEF AnswersFrom
    <2>1. CASE a \in answers[m]
      BY <2>1 DEF AnswersFrom
    <2>2. CASE a \in new
      BY <2>2, <1>4, <1>8 DEF ResponseHome
    <2> QED
      BY <2>1, <2>2, <1>1, <1>2
  <1>15. OnlyCopies'
    <2> SUFFICES ASSUME NEW q \in InFlight', q.type = "response" PROVE OnlyCopy(q)'
      BY DEF OnlyCopies
    <2>1. CASE q \in sent
      <3>1. network'[q] = 1
        BY <2>1, <1>1, <1>2, <1>9, CopiesAfter
      <3>2. ASSUME NEW r \in InFlight', r.type = "response", r.flow_id = q.flow_id,
                   r.result.holder = q.result.holder
            PROVE  r = q
        BY <2>1, <3>2, <1>4, <1>6, <1>7, <1>10 DEF OnlyCopy
      <3>3. answers' = answers
        BY <2>1, <1>1, <1>2, <1>6, <1>8
      <3>4. \A m \in Node : [flow_id |-> q.flow_id, result |-> q.result] \notin answers'[m]
        BY <2>1, <3>3, <1>4, <1>6 DEF OnlyCopy
      <3> QED
        BY <3>1, <3>2, <3>4 DEF OnlyCopy
    <2>2. CASE q \notin sent
      <3>1. q \in InFlight /\ q # p /\ network'[q] = network[q] /\ OnlyCopy(q)
        BY <2>2, <1>10 DEF OnlyCopies
      <3>2. ~(q.flow_id = f /\ q.result.holder = p.result.holder)
        BY <3>1, <1>4 DEF OnlyCopy
      <3>3. ASSUME NEW r \in InFlight', r.type = "response", r.flow_id = q.flow_id,
                   r.result.holder = q.result.holder
            PROVE  r = q
        BY <3>1, <3>2, <3>3, <1>6, <1>10 DEF OnlyCopy
      <3>4. [flow_id |-> q.flow_id, result |-> q.result] \notin new
        BY <3>2, <1>8
      <3>5. \A m \in Node : [flow_id |-> q.flow_id, result |-> q.result] \notin answers'[m]
        BY <3>1, <3>4, <1>1, <1>2 DEF OnlyCopy
      <3> QED
        BY <3>1, <3>3, <3>5 DEF OnlyCopy
    <2> QED
      BY <2>1, <2>2
  <1> QED
    BY <1>11, <1>12, <1>13, <1>14, <1>15

LEMMA HomeInit == Init => Home
  <1> SUFFICES ASSUME Init PROVE Home
    OBVIOUS
  <1>1. InFlight = {}
    BY DEF Init, InFlight, BagToSet, EmptyBag, SetToBag
  <1>2. RoutesKnown
    BY EmptyTableSound DEF Init, RoutesKnown, Contains
  <1>3. AnswersFrom
    BY DEF Init, AnswersFrom
  <1> QED
    BY <1>1, <1>2, <1>3 DEF Home, RequestsOut, ResponsesOut, OnlyCopies

LEMMA HomeStep ==
    ASSUME Roomy, Inv, Home, [Next]_vars
    PROVE  Home'
  <1> USE DEF Home
  <1>1. ASSUME NEW n \in Node, NEW k \in Keyword, NEW f \in Flow, StartSearch(n, f, k)
        PROVE  Home'
    <2>1. ProcessNewRequest(n, None, f, MaxTTL, k, {}) /\ search[f] = None
      BY <1>1 DEF StartSearch
    <2>2. /\ \A g \in Flow : Started(g) => search'[g] = search[g]
          /\ search'[f] # None /\ search'[f].node = n
      <3>1. search'[f] = [node |-> n, keyword |-> k]
        BY <1>1 DEF StartSearch, Inv, TypeOK
      <3>2. [node |-> n, keyword |-> k] \in Search /\ [node |-> n, keyword |-> k].node = n
        BY DEF Search
      <3>3. \A g \in Flow : Started(g) => search'[g] = search[g]
        BY <1>1 DEF StartSearch, Started, Inv, TypeOK
      <3> QED
        BY <3>1, <3>2, <3>3, FloodingAssumption
    <2>3. MaxTTL \in 1 .. MaxTTL
      BY FloodingAssumption
    <2>4. RoutesKnown'
      BY <2>1, <2>2, <2>3, RoutesStep
    <2>5. RequestsOut'
      BY <2>1, <2>3, RequestsStep
    <2>6. ResponsesOut' /\ AnswersFrom' /\ OnlyCopies'
      BY <2>1, <2>3, ResponsesStep
    <2> QED
      BY <2>4, <2>5, <2>6
  <1>2. ASSUME NEW p \in InFlight, ReceiveNewRequest(p)
        PROVE  Home'
    <2>1. p \in Request /\ p.type = "request"
      BY <1>2 DEF ReceiveNewRequest, Inv, TypeOK, Response
    <2>2. /\ p.to \in Node /\ p.from \in Node /\ p.flow_id \in Flow
          /\ p.ttl \in 1 .. MaxTTL /\ p.from # None
      BY <2>1, FloodingAssumption DEF Request
    <2>3. /\ ProcessNewRequest(p.to, p.from, p.flow_id, p.ttl, p.keyword, {p})
          /\ search' = search
      BY <1>2 DEF ReceiveNewRequest
    <2>4. p.from \in Neighbours(p.to) /\ accepted[p.from][p.flow_id] = p.ttl + 1
      BY <2>1 DEF RequestsOut
    <2>5. search[p.flow_id] # None
      BY <2>1, <2>2 DEF Inv, Provenance, PacketTrue, Started
    <2>6. RoutesKnown'
      BY <2>2, <2>3, <2>4, <2>5, RoutesStep
    <2>7. RequestsOut'
      BY <2>2, <2>3, RequestsStep
    <2>8. ResponsesOut' /\ AnswersFrom' /\ OnlyCopies'
      BY <2>1, <2>2, <2>3, <2>4, ResponsesStep
    <2> QED
      BY <2>6, <2>7, <2>8
  <1>3. ASSUME NEW p \in InFlight, ReceiveKnownRequest(p) \/ Lose(p)
        PROVE  Home'
    BY <1>3, FewerPackets DEF ReceiveKnownRequest, Lose
  <1>4. ASSUME NEW p \in InFlight, ReceiveResponse(p)
        PROVE  Home'
    BY <1>4, ReceiveResponseHome
  <1>5. CASE UNCHANGED <<routing_table, network, answers, search, accepted>>
    BY <1>5 DEF RoutesKnown, RouteHome, Started, RequestsOut, ResponsesOut, ResponseHome,
                AnswersFrom, OnlyCopies, OnlyCopy, InFlight
  <1>6. ASSUME NEW n \in Node, Restart(n) PROVE FALSE
    BY <1>6 DEF Restart, Roomy
  <1> QED
    BY <1>1, <1>2, <1>3, <1>4, <1>5, <1>6 DEF Next, Receive, Index, vars

\* A step changes neither the ttl a request was processed with nor its route.
LEMMA ProcessedStep ==
    ASSUME Roomy, Inv, Home, [Next]_vars, NEW n \in Node, NEW f \in Flow, accepted[n][f] # 0
    PROVE  /\ accepted'[n][f] = accepted[n][f]
           /\ Lookup(routing_table[n], f)' = Lookup(routing_table[n], f)
  <1> USE DEF Home
  <1>1. ASSUME NEW m \in Node, NEW sender \in Node \cup {None}, NEW flow \in Flow,
               NEW ttl \in 1 .. MaxTTL, NEW keyword, NEW consumed,
               ProcessNewRequest(m, sender, flow, ttl, keyword, consumed)
        PROVE  /\ accepted'[n][f] = accepted[n][f]
               /\ Lookup(routing_table[n], f)' = Lookup(routing_table[n], f)
    <2>1. Contains(routing_table[n], f)
      BY DEF RoutesKnown
    <2>2. accepted[m][flow] = 0 /\ accepted'[n][f] = accepted[n][f]
      BY <1>1, AcceptedKept
    <2>3. ~(n = m /\ f = flow)
      BY <2>2
    <2> QED
      BY <1>1, <2>1, <2>2, <2>3, RoutesKept
  <1>2. MaxTTL \in 1 .. MaxTTL
    BY FloodingAssumption
  <1>3. ASSUME NEW m \in Node, NEW g \in Flow, NEW k \in Keyword, StartSearch(m, g, k)
        PROVE  ProcessNewRequest(m, None, g, MaxTTL, k, {})
    BY <1>3 DEF StartSearch
  <1>4. ASSUME NEW p \in InFlight, ReceiveNewRequest(p)
        PROVE  /\ ProcessNewRequest(p.to, p.from, p.flow_id, p.ttl, p.keyword, {p})
               /\ p.to \in Node /\ p.from \in Node /\ p.flow_id \in Flow /\ p.ttl \in 1 .. MaxTTL
    BY <1>4, FloodingAssumption DEF ReceiveNewRequest, Inv, TypeOK, Request, Response
  <1>5. CASE UNCHANGED <<routing_table, accepted>>
    BY <1>5
  <1>6. ASSUME NEW m \in Node, Restart(m) PROVE FALSE
    BY <1>6 DEF Restart, Roomy
  <1> QED
    BY <1>1, <1>2, <1>3, <1>4, <1>5, <1>6
    DEF Next, Receive, ReceiveKnownRequest, ReceiveResponse, Lose, Index, vars

LEMMA InvariantHome == Spec => [](Roomy => Home)
  <1>1. Init => (Roomy => Home)
    BY HomeInit
  <1>2. Inv /\ (Roomy => Home) /\ [Next]_vars => (Roomy => Home)'
    BY HomeStep DEF Roomy
  <1> QED
    BY <1>1, <1>2, InvariantInv, PTL DEF Spec

\* Whichever copy of a request comes first where, the routes of a flow form a tree
\* with its root at the searcher.
THEOREM RoutesLead == Spec => []RoutesLeadHome
  <1>1. (Roomy => Home) => RoutesLeadHome
    BY DEF Home, RoutesKnown, RouteHome, RoutesLeadHome
  <1> QED
    BY <1>1, InvariantHome, PTL

\* On every network, with any ttl, a response that set out has ttl enough for the
\* way back, and every node on it has the route.
THEOREM ResponsesGet == Spec => []ResponsesGetHome
  <1>1. (Roomy => Home) => ResponsesGetHome
    BY DEF Home, ResponsesOut, ResponseHome, ResponsesGetHome, Responses
  <1> QED
    BY <1>1, InvariantHome, PTL

\* However many copies of a request reach a peer, its answer is in flight or was
\* delivered once.
THEOREM AnswersOnce == Spec => []AnswerOnce
  <1>1. (Roomy => Home) => AnswerOnce
    BY DEF Home, OnlyCopies, OnlyCopy, AnswerOnce, Responses
  <1> QED
    BY <1>1, InvariantHome, PTL

\* No step makes a node process a request again or change the route of a flow.
THEOREM RequestsProcessedOnce == Spec => ProcessedOnce
  <1>1. Inv /\ (Roomy => Home) /\ [Next]_vars =>
            [Roomy => \A n \in Node, f \in Flow :
                accepted[n][f] # 0 =>
                    /\ accepted'[n][f] = accepted[n][f]
                    /\ Lookup(routing_table[n], f)' = Lookup(routing_table[n], f)]_vars
    BY ProcessedStep
  <1> QED
    BY <1>1, InvariantInv, InvariantHome, PTL DEF Spec, ProcessedOnce

-------------------------------------------------------------------------------
(***************************************************************************)
(* Why flooding stops, with any overflow, loss and restarts                *)
(***************************************************************************)

\* How many copies of x are in the bag B.
Copies(x, B) == IF x \in DOMAIN B THEN B[x] ELSE 0

\* q is of the flow of p and has less ahead of it: a response to a request, or a packet
\* of the same kind with one less ttl.
Shorter(q, p) ==
    /\ q.flow_id = p.flow_id
    /\ \/ p.type = "request" /\ q.type = "response"
       \/ p.type = q.type /\ q.ttl + 1 = p.ttl

\* More copies of a packet get in flight only when its search starts, or when a packet
\* is used up that had more ahead of it.
TtlUsedUp ==
    [][\A q \in InFlight' : Copies(q, network') > Copies(q, network) =>
          \/ search[q.flow_id] = None /\ search'[q.flow_id] # None
          \/ \E p \in InFlight :
                Shorter(q, p) /\ Copies(p, network') = Copies(p, network) - 1]_vars

\* A handler that consumes C and sends S.
LEMMA CopiesChanged ==
    ASSUME NEW B, NEW C, NEW S, NEW after, IsABag(B),
           after = (B (-) SetToBag(C)) (+) SetToBag(S), NEW x
    PROVE  /\ x \in S \/ ~(Copies(x, after) > Copies(x, B))
           /\ x \in C \ S /\ x \in DOMAIN B => Copies(x, after) = Copies(x, B) - 1
  <1> DEFINE rest == B (-) SetToBag(C)
  <1>1. DOMAIN SetToBag(C) = C /\ (\A y \in C : SetToBag(C)[y] = 1)
    BY DEF SetToBag
  <1>2. DOMAIN SetToBag(S) = S /\ (\A y \in S : SetToBag(S)[y] = 1)
    BY DEF SetToBag
  <1>3. \A y \in DOMAIN B : B[y] \in Nat \ {0}
    BY DEF IsABag
  <1>4. /\ x \in DOMAIN rest <=> x \in DOMAIN B /\ (x \in C => B[x] # 1)
        /\ x \in DOMAIN rest => rest[x] = IF x \in C THEN B[x] - 1 ELSE B[x]
    BY <1>1, <1>3 DEF (-)
  <1> HIDE DEF rest
  <1>5. /\ DOMAIN (rest (+) SetToBag(S)) = DOMAIN rest \cup S
        /\ \A y \in DOMAIN rest \cup S :
              (rest (+) SetToBag(S))[y] = (IF y \in DOMAIN rest THEN rest[y] ELSE 0)
                                            + (IF y \in S THEN 1 ELSE 0)
    BY <1>2 DEF (+)
  <1>6. after = rest (+) SetToBag(S)
    BY DEF rest
  <1>7. /\ Copies(x, after) = IF x \in DOMAIN after THEN after[x] ELSE 0
        /\ Copies(x, B) = IF x \in DOMAIN B THEN B[x] ELSE 0
    BY DEF Copies
  <1> QED
    BY <1>3, <1>4, <1>5, <1>6, <1>7

\* A handler that sends nothing adds no copy.
LEMMA NoneAdded ==
    ASSUME NEW B, NEW C, NEW after, IsABag(B), after = B (-) SetToBag(C), NEW x
    PROVE  ~(Copies(x, after) > Copies(x, B))
  <1>1. DOMAIN SetToBag(C) = C /\ (\A y \in C : SetToBag(C)[y] = 1)
    BY DEF SetToBag
  <1>2. \A y \in DOMAIN B : B[y] \in Nat \ {0}
    BY DEF IsABag
  <1>3. /\ x \in DOMAIN after => x \in DOMAIN B
        /\ x \in DOMAIN after => after[x] = IF x \in C THEN B[x] - 1 ELSE B[x]
    BY <1>1, <1>2 DEF (-)
  <1> QED
    BY <1>2, <1>3 DEF Copies

\* What a peer sends when it processes a request.
SentOut(n, sender, flow, ttl, keyword) ==
    LET table == Insert(routing_table[n], RouteTo(flow, sender))
    IN  Flooded(n, sender, flow, ttl, keyword) \cup
          UNION {Relayed(n, table, flow, MaxTTL, r) : r \in Found(n, keyword)}

\* It is the request with one less ttl, and responses.
LEMMA SentShorter ==
    ASSUME NEW n, NEW sender, NEW flow, NEW ttl \in 1 .. MaxTTL, NEW keyword,
           NEW q \in SentOut(n, sender, flow, ttl, keyword)
    PROVE  /\ q.flow_id = flow
           /\ q.type = "response" \/ (q.type = "request" /\ q.ttl + 1 = ttl)
  <1> DEFINE table == Insert(routing_table[n], RouteTo(flow, sender))
  <1>1. ASSUME q \in Flooded(n, sender, flow, ttl, keyword)
        PROVE  q.flow_id = flow /\ q.type = "request" /\ q.ttl + 1 = ttl
    <2>1. q.flow_id = flow /\ q.type = "request" /\ q.ttl = Decrement(ttl)
      BY <1>1 DEF Flooded
    <2> QED
      BY <2>1, DecrementValue
  <1>2. ASSUME NEW r \in Found(n, keyword), q \in Relayed(n, table, flow, MaxTTL, r)
        PROVE  q.flow_id = flow /\ q.type = "response"
    BY <1>2 DEF Relayed
  <1> QED
    BY <1>1, <1>2 DEF SentOut

\* Every step that adds a copy starts a search or uses up a packet with more ahead.
LEMMA TtlStep ==
    ASSUME Inv, Next, NEW q \in InFlight', Copies(q, network') > Copies(q, network)
    PROVE  \/ search[q.flow_id] = None /\ search'[q.flow_id] # None
           \/ \E p \in InFlight :
                 Shorter(q, p) /\ Copies(p, network') = Copies(p, network) - 1
  <1>0. IsABag(network) /\ InFlight \subseteq Request \cup Response /\ InFlight = DOMAIN network
    BY DEF Inv, TypeOK, InFlight, BagToSet
  <1>1. ASSUME NEW n \in Node, NEW f \in Flow, NEW k \in Keyword, StartSearch(n, f, k)
        PROVE  search[q.flow_id] = None /\ search'[q.flow_id] # None
    <2> DEFINE sent == SentOut(n, None, f, MaxTTL, k)
    <2>1. network' = (network (-) SetToBag({})) (+) SetToBag(sent)
      BY <1>1 DEF StartSearch, ProcessNewRequest, SentOut
    <2>2. q \in sent
      BY <1>0, <2>1, CopiesChanged
    <2>3. q.flow_id = f
      BY <2>2, SentShorter, FloodingAssumption
    <2>4. search[f] = None /\ search'[f] \in Search
      BY <1>1 DEF StartSearch, Inv, TypeOK, Search
    <2> QED
      BY <2>3, <2>4, FloodingAssumption
  <1>2. ASSUME NEW p \in InFlight, ReceiveNewRequest(p)
        PROVE  Shorter(q, p) /\ Copies(p, network') = Copies(p, network) - 1
    <2> DEFINE sent == SentOut(p.to, p.from, p.flow_id, p.ttl, p.keyword)
    <2>1. network' = (network (-) SetToBag({p})) (+) SetToBag(sent)
      BY <1>2 DEF ReceiveNewRequest, ProcessNewRequest, SentOut
    <2>2. p.type = "request" /\ p.ttl \in 1 .. MaxTTL
      <3>1. p.type = "request" /\ p \in Request
        BY <1>0, <1>2 DEF ReceiveNewRequest, Response
      <3> QED
        BY <3>1, FloodingAssumption DEF Request
    <2>3. \A s \in sent : /\ s.flow_id = p.flow_id
                          /\ s.type = "response" \/ (s.type = "request" /\ s.ttl + 1 = p.ttl)
      BY <2>2, SentShorter
    <2> HIDE DEF sent
    <2>4. q \in sent
      BY <1>0, <2>1, CopiesChanged
    <2>5. p \notin sent
      BY <2>2, <2>3
    <2>6. Copies(p, network') = Copies(p, network) - 1
      BY <1>0, <2>1, <2>5, CopiesChanged
    <2> QED
      BY <2>2, <2>3, <2>4, <2>6 DEF Shorter
  <1>3. ASSUME NEW p \in InFlight, ReceiveResponse(p)
        PROVE  Shorter(q, p) /\ Copies(p, network') = Copies(p, network) - 1
    <2> DEFINE sent == Relayed(p.to, routing_table[p.to], p.flow_id, p.ttl, p.result)
    <2>1. network' = (network (-) SetToBag({p})) (+) SetToBag(sent)
      BY <1>3 DEF ReceiveResponse
    <2>2. p.type = "response" /\ p.ttl \in 1 .. MaxTTL
      <3>1. p.type = "response" /\ p \in Response
        BY <1>0, <1>3 DEF ReceiveResponse, Request
      <3> QED
        BY <3>1, FloodingAssumption DEF Response
    <2>3. \A s \in sent : s.flow_id = p.flow_id /\ s.type = p.type /\ s.ttl + 1 = p.ttl
      BY <2>2, DecrementValue DEF Relayed
    <2> HIDE DEF sent
    <2>4. q \in sent
      BY <1>0, <2>1, CopiesChanged
    <2>5. p \notin sent
      BY <2>2, <2>3
    <2>6. Copies(p, network') = Copies(p, network) - 1
      BY <1>0, <2>1, <2>5, CopiesChanged
    <2> QED
      BY <2>3, <2>4, <2>6 DEF Shorter
  <1>4. ASSUME NEW p \in InFlight, ReceiveKnownRequest(p) \/ Lose(p)
        PROVE  FALSE
    BY <1>0, <1>4, NoneAdded DEF ReceiveKnownRequest, Lose
  <1>5. CASE UNCHANGED network
    <2>1. Copies(q, network) \in Nat
      BY <1>0 DEF Copies, IsABag
    <2> QED
      BY <1>5, <2>1
  <1> QED
    BY <1>1, <1>2, <1>3, <1>4, <1>5 DEF Next, Receive, Index, Restart

\* Whatever tables forget, every packet that is sent on has less ahead of it than the one
\* it comes from, of which there are finitely many kinds below it: flooding and answers
\* use up what a search starts (flooding.c:573, 605).
THEOREM PacketsUsedUp == Spec => TtlUsedUp
  <1>1. Inv /\ [Next]_vars =>
            [\A q \in InFlight' : Copies(q, network') > Copies(q, network) =>
                \/ search[q.flow_id] = None /\ search'[q.flow_id] # None
                \/ \E p \in InFlight :
                      Shorter(q, p) /\ Copies(p, network') = Copies(p, network) - 1]_vars
    BY TtlStep
  <1> QED
    BY <1>1, InvariantInv, PTL DEF Spec, TtlUsedUp
===============================================================================
