-------------------------- MODULE ClientSessionProofs --------------------------
(***************************************************************************)
(* No session sees the request ids of another, and commands are put        *)
(* together whole, for any number of clients, requests and mappings.       *)
(***************************************************************************)
EXTENDS ClientSession, FlowTableProofs, SequenceTheorems

USE DEF sender, receiver, replies, history

\* The session of the current client asked for flow under id.
AskedHere(flow, id) ==
    asked[flow] # None /\ asked[flow] = [client |-> client, id |-> id]

\* What the session remembers and has yet to send belongs to its client.
MappingsBelong ==
    \A i \in Live(mappings) :
        AskedHere(mappings.slot[i].flow_id, mappings.slot[i].request_id)

OutputBelongs ==
    \A i \in DOMAIN output :
        output[i].type = "result" /\ output[i].id # 0 =>
            AskedHere(output[i].flow, output[i].id)

\* What GNUnet is asked to transmit to a client belongs to that client, whoever the
\* client of the session is by now.
ReplyBelongs(c, r) ==
    r.type = "result" /\ r.id # 0 =>
        asked[r.flow] # None /\ asked[r.flow] = [client |-> c, id |-> r.id]

RepliesBelong == \A c \in Client : replying[c] # None => ReplyBelongs(c, replying[c])

Inv ==
    /\ TypeOK
    /\ WellFormed(mappings) /\ NoDuplicate(mappings)
    /\ MappingsBelong /\ OutputBelongs /\ RepliesBelong /\ AnswersToAsker

\* An action that is none of the session's own: what it remembers stays.
LEMMA BelongsFrame ==
    ASSUME Inv, TypeOK', UNCHANGED <<client, mappings, output, replying, inbox, asked>>
    PROVE  Inv'
  BY DEF Inv, MappingsBelong, OutputBelongs, RepliesBelong, ReplyBelongs, AnswersToAsker,
         ResultsOf, AskedHere

-------------------------------------------------------------------------------

\* A live slot of the ring holds a mapping.
LEMMA LiveMapping ==
    ASSUME TypeOK, WellFormed(mappings), NEW i \in Live(mappings)
    PROVE  mappings.slot[i] \in Mapping
  <1>1. i \in Slot
    BY TableSizeAssumption DEF TypeOK, FlowTableOf, Live, Slot
  <1> QED
    BY <1>1 DEF TypeOK, FlowTableOf, WellFormed

\* Whoever asked, it was a client.
LEMMA AskedByClient ==
    ASSUME TypeOK, NEW flow \in Flow, NEW id, AskedHere(flow, id)
    PROVE  client \in Client
  BY DEF TypeOK, AskedHere

\* When the service takes a piece of c, what it remembers belongs to c already.
LEMMA StillBelongs ==
    ASSUME Inv, NEW c \in Client, Accepts(c), client' = c,
           NEW flow \in Flow, NEW id, AskedHere(flow, id), asked'[flow] = asked[flow]
    PROVE  AskedHere(flow, id)'
  <1>1. client = c
    BY AskedByClient, ClientSessionAssumption DEF Accepts, Inv
  <1> QED
    BY <1>1 DEF AskedHere

\* A response is a result for a flow, or an acknowledgement.
LEMMA ResponseKinds ==
    ASSUME NEW r \in Response, r.type = "result"
    PROVE  r.flow \in Flow /\ r.id \in Nat
  BY DEF Response

\* The response with an answer is well typed, and the id it carries is the one a live
\* mapping of the flow has.
LEMMA ResultMapped ==
    ASSUME NEW table \in FlowTableOf(Mapping), WellFormed(table), NoDuplicate(table),
           NEW flow \in Flow
    PROVE  /\ Result(table, flow) \in Response
           /\ Result(table, flow).type = "result" /\ Result(table, flow).flow = flow
           /\ Result(table, flow).id # 0 =>
                 \E i \in Live(table) : /\ table.slot[i].flow_id = flow
                                       /\ table.slot[i].request_id = Result(table, flow).id
  <1>1. CASE Contains(table, flow)
    <2>1. /\ Lookup(table, flow) \in Mapping
          /\ Lookup(table, flow).flow_id = flow
          /\ \E i \in Live(table) : Lookup(table, flow) = table.slot[i]
      BY <1>1, LookupContained
    <2>2. RequestId(table, flow) = Lookup(table, flow).request_id
      BY <1>1 DEF RequestId
    <2>3. RequestId(table, flow) \in Nat
      BY <2>1, <2>2 DEF Mapping
    <2> QED
      BY <2>1, <2>2, <2>3 DEF Result, Response
  <1>2. CASE ~Contains(table, flow)
    <2>1. RequestId(table, flow) = 0
      BY <1>2 DEF RequestId
    <2> QED
      BY <2>1 DEF Result, Response
  <1> QED
    BY <1>1, <1>2

-------------------------------------------------------------------------------

LEMMA InitInv == Init => Inv
  <1> SUFFICES ASSUME Init PROVE Inv
    OBVIOUS
  <1>1. /\ mappings \in FlowTableOf(Mapping) /\ WellFormed(mappings)
        /\ NoDuplicate(mappings) /\ Live(mappings) = {}
    BY EmptyTableSound DEF Init
  <1>2. /\ <<>> \in Seq(Piece) /\ <<>> \in Seq(Response)
        /\ commands \in [Client -> Seq(Piece)] /\ wire \in [Client -> Seq(Piece)]
        /\ sending \in [Client -> Piece \cup {None}] /\ timers \in [Client -> Nat]
        /\ replying \in [Client -> Response \cup {None}]
        /\ inbox \in [Client -> SUBSET Response]
        /\ lost \in [Client -> SUBSET (Piece \cup Response)]
    BY DEF Init
  <1>3. /\ made \in [Client -> Nat] /\ \A c \in Client : made[c] <= Len(Requests[c])
        /\ answered \in [Flow -> 0 .. MaxAnswers]
        /\ asked \in [Flow -> [client: Client, id: Nat] \cup {None}]
    BY ClientSessionAssumption DEF Init
  <1>4. TypeOK
    BY <1>1, <1>2, <1>3 DEF Init, TypeOK
  <1> QED
    BY <1>1, <1>4 DEF Init, Inv, MappingsBelong, OutputBelongs, RepliesBelong,
                     AnswersToAsker, ResultsOf

\* The requests are well typed, and so are the pieces they are sent in.
LEMMA PiecesType ==
    ASSUME NEW r \in Request
    PROVE  Pieces(r) \in Seq(Piece)
  <1>1. \A p \in {"whole", "first", "last"} : [request |-> r, part |-> p] \in Piece
    BY DEF Piece
  <1>2. /\ <<[request |-> r, part |-> "whole"]>> \in Seq(Piece)
        /\ <<[request |-> r, part |-> "first"], [request |-> r, part |-> "last"]>> \in Seq(Piece)
    BY <1>1
  <1> QED
    BY <1>2 DEF Pieces

LEMMA MakeRequestInv ==
    ASSUME Inv, NEW c \in Client, MakeRequest(c)
    PROVE  Inv'
  <1>1. /\ Requests[c] \in Seq(Request) /\ made[c] \in Nat /\ made[c] <= Len(Requests[c])
        /\ commands[c] \in Seq(Piece)
    BY ClientSessionAssumption DEF Inv, TypeOK
  <1>2. made[c] + 1 \in 1 .. Len(Requests[c])
    BY <1>1 DEF MakeRequest
  <1>3. Requests[c][made[c] + 1] \in Request
    BY <1>1, <1>2
  <1>4. commands[c] \o Pieces(Requests[c][made[c] + 1]) \in Seq(Piece)
    BY <1>1, <1>3, PiecesType
  <1>5. commands' \in [Client -> Seq(Piece)] /\ timers' \in [Client -> Nat]
    BY <1>4 DEF MakeRequest, Inv, TypeOK
  <1>6. made' \in [Client -> Nat] /\ \A d \in Client : made'[d] <= Len(Requests[d])
    BY <1>1, <1>2 DEF MakeRequest, Inv, TypeOK
  <1>7. TypeOK'
    BY <1>5, <1>6 DEF MakeRequest, Inv, TypeOK
  <1> QED
    BY <1>7, BelongsFrame DEF MakeRequest

LEMMA ClientTransmitNextInv ==
    ASSUME Inv, NEW c \in Client, ClientTransmitNext(c)
    PROVE  Inv'
  <1>1. timers' \in [Client -> Nat]
    BY DEF ClientTransmitNext, Inv, TypeOK
  <1>2. CASE commands[c] = <<>>
    <2>1. TypeOK'
      BY <1>1, <1>2 DEF ClientTransmitNext, Inv, TypeOK
    <2> QED
      BY <1>2, <2>1, BelongsFrame DEF ClientTransmitNext
  <1>3. CASE commands[c] # <<>>
    <2>1. /\ Head(commands[c]) \in Piece
          /\ [commands EXCEPT ![c] = Tail(@)] \in [Client -> Seq(Piece)]
      BY <1>3 DEF Inv, TypeOK
    <2>2. /\ sending' \in [Client -> Piece \cup {None}]
          /\ lost' \in [Client -> SUBSET (Piece \cup Response)]
      <3>1. lost[c] \cup {Head(commands[c])} \in SUBSET (Piece \cup Response)
        BY <2>1 DEF Inv, TypeOK
      <3> QED
        BY <1>3, <2>1, <3>1 DEF ClientTransmitNext, Inv, TypeOK
    <2>3. TypeOK'
      BY <1>1, <1>3, <2>1, <2>2 DEF ClientTransmitNext, Inv, TypeOK
    <2> QED
      BY <2>3, BelongsFrame DEF ClientTransmitNext
  <1> QED
    BY <1>2, <1>3

LEMMA ClientTransmitReadyInv ==
    ASSUME Inv, NEW c \in Client, ClientTransmitReady(c)
    PROVE  Inv'
  <1>1. Append(wire[c], sending[c]) \in Seq(Piece)
    BY DEF ClientTransmitReady, Inv, TypeOK
  <1>2. /\ wire' \in [Client -> Seq(Piece)] /\ timers' \in [Client -> Nat]
        /\ sending' \in [Client -> Piece \cup {None}]
    BY <1>1 DEF ClientTransmitReady, Inv, TypeOK
  <1>3. TypeOK'
    BY <1>2 DEF ClientTransmitReady, Inv, TypeOK
  <1> QED
    BY <1>3, BelongsFrame DEF ClientTransmitReady

LEMMA ClientTimeoutInv ==
    ASSUME Inv, NEW c \in Client, ClientTimeout(c)
    PROVE  Inv'
  <1>1. lost[c] \cup {sending[c]} \in SUBSET (Piece \cup Response)
    BY DEF ClientTimeout, Inv, TypeOK
  <1>2. /\ lost' \in [Client -> SUBSET (Piece \cup Response)]
        /\ sending' \in [Client -> Piece \cup {None}]
    BY <1>1 DEF ClientTimeout, Inv, TypeOK
  <1>3. TypeOK'
    BY <1>2 DEF ClientTimeout, Inv, TypeOK
  <1> QED
    BY <1>3, BelongsFrame DEF ClientTimeout

\* What is left of the pieces on a wire are pieces.
LEMMA TakePiece ==
    ASSUME TypeOK, NEW c \in Client, wire[c] # <<>>
    PROVE  /\ Head(wire[c]) \in Piece
           /\ [wire EXCEPT ![c] = Tail(@)] \in [Client -> Seq(Piece)]
  BY DEF TypeOK

LEMMA HandleSearchInv ==
    ASSUME Inv, NEW c \in Client, NEW f \in Flow, HandleSearch(c, f)
    PROVE  Inv'
  <1> DEFINE id == Head(wire[c]).request.id
             entry == [flow_id |-> f, request_id |-> id]
  <1> USE DEF Inv
  <1>1. /\ Head(wire[c]) \in Piece /\ wire' \in [Client -> Seq(Piece)]
    BY TakePiece DEF HandleSearch, Take
  <1>2. id \in Nat /\ entry \in Mapping
    BY <1>1 DEF Piece, Request, Mapping
  <1>3. /\ mappings' = Insert(mappings, entry) /\ client' = c /\ Accepts(c)
        /\ asked' = [asked EXCEPT ![f] = [client |-> c, id |-> id]]
        /\ asked[f] = None
    BY DEF HandleSearch, Take
  <1>4. mappings \in FlowTableOf(Mapping) /\ Blank \notin Mapping
    BY ClientSessionAssumption DEF TypeOK
  <1>5. mappings' \in FlowTableOf(Mapping) /\ WellFormed(mappings')
    BY <1>2, <1>3, <1>4, InsertType
  <1>6. ~Contains(mappings, f)
    BY <1>3 DEF Contains, MappingsBelong, AskedHere
  <1>7. NoDuplicate(mappings')
    BY <1>2, <1>3, <1>4, <1>6, InsertNoDuplicate
  <1> DEFINE result == Result(mappings', f)
  <1>8. /\ result \in Response /\ result.type = "result" /\ result.flow = f
        /\ result.id # 0 =>
              \E i \in Live(mappings') : /\ mappings'.slot[i].flow_id = f
                                        /\ mappings'.slot[i].request_id = result.id
    BY <1>5, <1>7, ResultMapped
  <1>9. output \in Seq(Response) /\ (output' = output \/ output' = Append(output, result))
    BY DEF HandleSearch, Transmit, TypeOK
  <1>10. TypeOK'
    <2>1. output' \in Seq(Response)
      BY <1>8, <1>9
    <2>2. asked' \in [Flow -> [client: Client, id: Nat] \cup {None}]
      BY <1>2, <1>3 DEF TypeOK
    <2>3. answered' \in [Flow -> 0 .. MaxAnswers]
      <3>1. CASE answered' = answered
        BY <3>1 DEF TypeOK
      <3>2. CASE answered[f] < MaxAnswers /\ answered' = [answered EXCEPT ![f] = @ + 1]
        BY <3>2, ClientSessionAssumption DEF TypeOK
      <3> QED
        BY <3>1, <3>2 DEF HandleSearch
    <2>4. tasks' \in Nat /\ UNCHANGED <<replying, inbox>>
      BY DEF HandleSearch, Transmit, TypeOK
    <2> QED
      BY <1>1, <1>5, <2>1, <2>2, <2>3, <2>4 DEF HandleSearch, Take, TypeOK
  <1>11. \A g \in Flow : asked[g] # None => asked'[g] = asked[g]
    BY <1>3 DEF TypeOK
  <1>12. asked'[f] # None /\ asked'[f] = [client |-> client', id |-> id]
    <2>1. asked'[f] = [client |-> c, id |-> id]
      BY <1>3 DEF TypeOK
    <2>2. [client |-> c, id |-> id] \in [client: Client, id: Nat]
      BY <1>2
    <2> QED
      BY <2>1, <2>2, <1>3, ClientSessionAssumption
  <1>13. MappingsBelong'
    <2> SUFFICES ASSUME NEW i \in Live(mappings')
                 PROVE  /\ asked'[mappings'.slot[i].flow_id] # None
                        /\ asked'[mappings'.slot[i].flow_id]
                             = [client |-> client', id |-> mappings'.slot[i].request_id]
      BY DEF MappingsBelong, Live, AskedHere
    <2>1. CASE i = mappings.index
      <3>1. mappings'.slot[i] = entry
        BY <2>1, <1>2, <1>3, <1>4, InsertLive
      <3> QED
        BY <3>1, <1>12
    <2>2. CASE i # mappings.index
      <3>1. i \in Live(mappings) /\ mappings'.slot[i] = mappings.slot[i]
        BY <2>2, <1>2, <1>3, <1>4, InsertLive
      <3>2. mappings.slot[i] \in Mapping
        BY <3>1, LiveMapping
      <3>3. AskedHere(mappings.slot[i].flow_id, mappings.slot[i].request_id)
        BY <3>1 DEF MappingsBelong
      <3>4. /\ mappings.slot[i].flow_id \in Flow
            /\ asked'[mappings.slot[i].flow_id] = asked[mappings.slot[i].flow_id]
        BY <3>2, <3>3, <1>11 DEF Mapping, AskedHere
      <3>5. AskedHere(mappings.slot[i].flow_id, mappings.slot[i].request_id)
            => client = c
        BY <3>4, <1>3, AskedByClient, ClientSessionAssumption DEF Accepts
      <3> QED
        BY <3>1, <3>3, <3>4, <3>5, <1>3 DEF AskedHere
    <2> QED
      BY <2>1, <2>2
  <1>14. OutputBelongs'
    <2> SUFFICES ASSUME NEW i \in DOMAIN output', output'[i].type = "result", output'[i].id # 0
                 PROVE  /\ asked'[output'[i].flow] # None
                        /\ asked'[output'[i].flow] = [client |-> client', id |-> output'[i].id]
      BY DEF OutputBelongs, AskedHere
    <2>1. CASE i \in DOMAIN output /\ output'[i] = output[i]
      <3>1. output[i].flow \in Flow
        BY <2>1, <1>9, ResponseKinds
      <3>2. AskedHere(output[i].flow, output[i].id)
        BY <2>1 DEF OutputBelongs
      <3>3. asked'[output[i].flow] = asked[output[i].flow] /\ client = c
        BY <3>1, <3>2, <1>3, <1>11, AskedByClient, ClientSessionAssumption
        DEF AskedHere, Accepts
      <3> QED
        BY <2>1, <3>2, <3>3, <1>3 DEF AskedHere
    <2>2. CASE output'[i] = result
      <3>1. PICK j \in Live(mappings') : /\ mappings'.slot[j].flow_id = f
                                         /\ mappings'.slot[j].request_id = result.id
        BY <2>2, <1>8
      <3>2. /\ asked'[mappings'.slot[j].flow_id] # None
            /\ asked'[mappings'.slot[j].flow_id]
                 = [client |-> client', id |-> mappings'.slot[j].request_id]
        BY <1>13 DEF MappingsBelong, Live, AskedHere
      <3> QED
        BY <2>2, <3>1, <3>2, <1>8
    <2> QED
      BY <2>1, <2>2, <1>8, <1>9
  <1>15. AnswersToAsker'
    <2> SUFFICES ASSUME NEW d \in Client, NEW r \in inbox[d], r.type = "result", r.id # 0
                 PROVE  asked'[r.flow] = [client |-> d, id |-> r.id]
      BY DEF HandleSearch, Transmit, AnswersToAsker, ResultsOf
    <2>1. r.flow \in Flow /\ r.id \in Nat
      BY ResponseKinds DEF TypeOK
    <2>2. asked[r.flow] = [client |-> d, id |-> r.id]
      BY DEF AnswersToAsker, ResultsOf
    <2>3. asked[r.flow] # None
      <3>1. [client |-> d, id |-> r.id] \in [client: Client, id: Nat]
        BY <2>1
      <3> QED
        BY <2>2, <3>1, ClientSessionAssumption
    <2> QED
      BY <2>1, <2>2, <2>3, <1>11
  <1>16. RepliesBelong'
    <2> SUFFICES ASSUME NEW d \in Client, replying[d] # None, replying[d].type = "result",
                        replying[d].id # 0
                 PROVE  LET r == replying[d]
                        IN  asked'[r.flow] # None /\ asked'[r.flow] = [client |-> d, id |-> r.id]
      BY DEF HandleSearch, Transmit, RepliesBelong, ReplyBelongs
    <2>1. replying[d] \in Response
      BY DEF TypeOK
    <2>2. replying[d].flow \in Flow
      BY <2>1, ResponseKinds
    <2> QED
      BY <2>2, <1>11 DEF RepliesBelong, ReplyBelongs
  <1> QED
    BY <1>5, <1>7, <1>10, <1>13, <1>14, <1>15, <1>16

\* A step that leaves the mappings and the queue as they are, and c the client.
LEMMA TakePieceInv ==
    ASSUME Inv, NEW c \in Client, Accepts(c), client' = c, TypeOK',
           UNCHANGED <<mappings, replying, inbox, asked>>,
           \A i \in DOMAIN output' :
               \/ i \in DOMAIN output /\ output'[i] = output[i]
               \/ output'[i].type # "result"
    PROVE  Inv'
  <1> USE DEF Inv
  <1>1. MappingsBelong'
    <2> SUFFICES ASSUME NEW i \in Live(mappings)
                 PROVE  AskedHere(mappings.slot[i].flow_id, mappings.slot[i].request_id)'
      BY DEF MappingsBelong, Live, AskedHere
    <2>1. mappings.slot[i] \in Mapping
      BY LiveMapping
    <2>2. AskedHere(mappings.slot[i].flow_id, mappings.slot[i].request_id)
      BY DEF MappingsBelong
    <2>3. client = c
      BY <2>1, <2>2, AskedByClient, ClientSessionAssumption DEF Accepts, Mapping
    <2> QED
      BY <2>2, <2>3 DEF AskedHere
  <1>2. OutputBelongs'
    <2> SUFFICES ASSUME NEW i \in DOMAIN output', output'[i].type = "result", output'[i].id # 0
                 PROVE  /\ asked'[output'[i].flow] # None
                        /\ asked'[output'[i].flow] = [client |-> client', id |-> output'[i].id]
      BY DEF OutputBelongs, AskedHere
    <2>1. i \in DOMAIN output /\ output'[i] = output[i]
      OBVIOUS
    <2>2. output[i].flow \in Flow
      BY <2>1, ResponseKinds DEF TypeOK
    <2>3. AskedHere(output[i].flow, output[i].id)
      BY <2>1 DEF OutputBelongs
    <2>4. client = c
      BY <2>2, <2>3, AskedByClient, ClientSessionAssumption DEF Accepts
    <2> QED
      BY <2>1, <2>3, <2>4 DEF AskedHere
  <1>3. AnswersToAsker' /\ RepliesBelong'
    BY DEF AnswersToAsker, ResultsOf, RepliesBelong, ReplyBelongs
  <1> QED
    BY <1>1, <1>2, <1>3

LEMMA KeepFragmentInv ==
    ASSUME Inv, NEW c \in Client, KeepFragment(c)
    PROVE  Inv'
  <1>1. TypeOK'
    BY TakePiece DEF KeepFragment, Take, Inv, TypeOK
  <1> QED
    BY <1>1, TakePieceInv DEF KeepFragment, Take

LEMMA HandleAddInv ==
    ASSUME Inv, NEW c \in Client, HandleAdd(c)
    PROVE  Inv'
  <1> DEFINE r == Head(wire[c]).request
  <1>1. Head(wire[c]) \in Piece /\ wire' \in [Client -> Seq(Piece)]
    BY TakePiece DEF HandleAdd, Take, Inv
  <1>2. Done(r) \in Response /\ Done(r).type # "result"
    BY <1>1 DEF Piece, Request, Response, Done
  <1>3. output \in Seq(Response) /\ tasks \in Nat
    BY DEF Inv, TypeOK
  <1>4. /\ output' = Append(output, Done(r)) \/ output' = output
        /\ tasks' = tasks + 1 \/ tasks' = tasks
        /\ UNCHANGED <<replying, inbox>> /\ failure' \in {failure, "size"}
    BY DEF HandleAdd, Transmit
  <1>5. output' \in Seq(Response) /\ tasks' \in Nat
    BY <1>2, <1>3, <1>4
  <1>6. \A i \in DOMAIN output' :
            \/ i \in DOMAIN output /\ output'[i] = output[i]
            \/ output'[i].type # "result"
    BY <1>2, <1>3, <1>4
  <1>7. TypeOK'
    BY <1>1, <1>4, <1>5 DEF HandleAdd, Take, Inv, TypeOK
  <1> QED
    BY <1>4, <1>6, <1>7, TakePieceInv DEF HandleAdd, Take

LEMMA RefuseInv ==
    ASSUME Inv, NEW c \in Client, Refuse(c)
    PROVE  Inv'
  <1>1. TypeOK'
    BY TakePiece DEF Refuse, Inv, TypeOK
  <1> QED
    BY <1>1, BelongsFrame DEF Refuse

LEMMA ReceiveAnswerInv ==
    ASSUME Inv, NEW f \in Flow, ReceiveAnswer(f)
    PROVE  Inv'
  <1> DEFINE result == Result(mappings, f)
  <1> USE DEF Inv
  <1>1. result \in Response /\ (result.id # 0 => AskedHere(f, result.id))
        /\ result.flow = f
    BY ResultMapped DEF TypeOK, MappingsBelong
  <1>3. output \in Seq(Response) /\ output' = Append(output, result) /\ tasks' \in Nat
        /\ UNCHANGED <<replying, inbox>>
    BY DEF ReceiveAnswer, Transmit, TypeOK
  <1>4. output' \in Seq(Response)
    BY <1>1, <1>3
  <1>5. TypeOK'
    <2>1. answered[f] + 1 \in 0 .. MaxAnswers
      BY ClientSessionAssumption DEF ReceiveAnswer, TypeOK
    <2>2. answered' \in [Flow -> 0 .. MaxAnswers]
      BY <2>1 DEF ReceiveAnswer, TypeOK
    <2> QED
      BY <1>3, <1>4, <2>2 DEF ReceiveAnswer, TypeOK
  <1>6. OutputBelongs'
    <2> SUFFICES ASSUME NEW i \in DOMAIN output', output'[i].type = "result", output'[i].id # 0
                 PROVE  AskedHere(output'[i].flow, output'[i].id)
      BY DEF ReceiveAnswer, OutputBelongs, AskedHere
    <2>1. CASE i \in DOMAIN output /\ output'[i] = output[i]
      BY <2>1 DEF OutputBelongs
    <2>2. CASE output'[i] = result
      BY <2>2, <1>1
    <2> QED
      BY <2>1, <2>2, <1>3
  <1> QED
    BY <1>3, <1>5, <1>6 DEF ReceiveAnswer, MappingsBelong, RepliesBelong, ReplyBelongs,
                            AnswersToAsker, ResultsOf, AskedHere

\* The queue without its first response is still the session's, and the response too.
LEMMA TakeResponse ==
    ASSUME Inv, output # <<>>
    PROVE  /\ Head(output) \in Response /\ Tail(output) \in Seq(Response)
           /\ ReplyBelongs(client, Head(output))
           /\ \A i \in DOMAIN Tail(output) :
                 i + 1 \in DOMAIN output /\ Tail(output)[i] = output[i + 1]
  <1>1. output \in Seq(Response)
    BY DEF Inv, TypeOK
  <1>2. /\ Head(output) \in Response /\ Tail(output) \in Seq(Response)
        /\ 1 \in DOMAIN output /\ Head(output) = output[1]
    BY <1>1
  <1>3. \A i \in DOMAIN Tail(output) : i + 1 \in DOMAIN output /\ Tail(output)[i] = output[i + 1]
    BY <1>1
  <1> QED
    BY <1>2, <1>3 DEF Inv, OutputBelongs, AskedHere, ReplyBelongs

LEMMA TransmitNextInv ==
    ASSUME Inv, TransmitNext
    PROVE  Inv'
  <1>1. tasks' \in Nat
    BY DEF TransmitNext, Inv, TypeOK
  <1>2. CASE output = <<>>
    <2>1. UNCHANGED <<output, replying, lost, failure>>
      BY <1>2 DEF TransmitNext
    <2>2. TypeOK'
      BY <1>1, <2>1 DEF TransmitNext, Inv, TypeOK
    <2> QED
      BY <2>1, <2>2, BelongsFrame DEF TransmitNext
  <1>3. CASE output # <<>>
    <2>1. /\ output' = Tail(output)
          /\ failure' \in {failure, "client"}
          /\ \/ UNCHANGED <<replying, lost>>
             \/ /\ client # None /\ replying' = [replying EXCEPT ![client] = Head(output)]
                /\ UNCHANGED lost
             \/ /\ client # None /\ lost' = [lost EXCEPT ![client] = @ \cup {Head(output)}]
                /\ UNCHANGED replying
      BY <1>3 DEF TransmitNext
    <2>2. /\ Head(output) \in Response /\ Tail(output) \in Seq(Response)
          /\ ReplyBelongs(client, Head(output))
          /\ \A i \in DOMAIN Tail(output) :
                i + 1 \in DOMAIN output /\ Tail(output)[i] = output[i + 1]
      BY <1>3, TakeResponse
    <2>3. client # None => client \in Client
      BY DEF Inv, TypeOK
    <2>4. replying' \in [Client -> Response \cup {None}]
      BY <2>1, <2>2, <2>3 DEF Inv, TypeOK
    <2>5. lost' \in [Client -> SUBSET (Piece \cup Response)]
      <3>1. client # None => lost[client] \cup {Head(output)} \in SUBSET (Piece \cup Response)
        BY <2>2, <2>3 DEF Inv, TypeOK
      <3> QED
        BY <2>1, <3>1 DEF Inv, TypeOK
    <2>6. TypeOK'
      BY <1>1, <2>1, <2>2, <2>4, <2>5 DEF TransmitNext, Inv, TypeOK
    <2>7. OutputBelongs'
      BY <2>1, <2>2 DEF TransmitNext, Inv, OutputBelongs, AskedHere
    <2>8. RepliesBelong'
      <3>1. \A c \in Client :
                \/ replying'[c] = replying[c]
                \/ c = client /\ replying'[c] = Head(output)
        BY <2>1, <2>3 DEF Inv, TypeOK
      <3> QED
        BY <2>2, <3>1 DEF TransmitNext, Inv, RepliesBelong, ReplyBelongs
    <2> QED
      BY <2>6, <2>7, <2>8 DEF TransmitNext, Inv, MappingsBelong, AnswersToAsker, ResultsOf,
                              AskedHere
  <1> QED
    BY <1>2, <1>3

LEMMA TransmitReadyInv ==
    ASSUME Inv, NEW c \in Client, TransmitReady(c)
    PROVE  Inv'
  <1>1. /\ replying[c] # None /\ replying[c] \in Response /\ inbox[c] \in SUBSET Response
        /\ inbox' = [inbox EXCEPT ![c] = @ \cup {replying[c]}]
        /\ replying' = [replying EXCEPT ![c] = None]
    BY DEF TransmitReady, Inv, TypeOK
  <1>2. /\ inbox' \in [Client -> SUBSET Response] /\ tasks' \in Nat
        /\ replying' \in [Client -> Response \cup {None}]
    <2>1. inbox[c] \cup {replying[c]} \in SUBSET Response
      BY <1>1
    <2> QED
      BY <1>1, <2>1 DEF TransmitReady, Inv, TypeOK
  <1>3. TypeOK'
    BY <1>2 DEF TransmitReady, Inv, TypeOK
  <1>4. AnswersToAsker'
    <2> SUFFICES ASSUME NEW d \in Client, NEW r \in inbox'[d], r.type = "result", r.id # 0
                 PROVE  asked[r.flow] = [client |-> d, id |-> r.id]
      BY DEF TransmitReady, AnswersToAsker, ResultsOf
    <2>1. CASE r \in inbox[d]
      BY <2>1 DEF Inv, AnswersToAsker, ResultsOf
    <2>2. CASE d = c /\ r = replying[c]
      BY <1>1, <2>2 DEF Inv, RepliesBelong, ReplyBelongs
    <2> QED
      BY <1>1, <2>1, <2>2 DEF Inv, TypeOK
  <1>5. RepliesBelong'
    BY <1>1 DEF TransmitReady, Inv, TypeOK, RepliesBelong, ReplyBelongs
  <1> QED
    BY <1>3, <1>4, <1>5 DEF TransmitReady, Inv, MappingsBelong, OutputBelongs, AskedHere

LEMMA TimeoutInv ==
    ASSUME Inv, NEW c \in Client, Timeout(c)
    PROVE  Inv'
  <1>1. replying' = [replying EXCEPT ![c] = None] /\ replying[c] \in Response
    BY DEF Timeout, Inv, TypeOK
  <1>2. lost[c] \cup {replying[c]} \in SUBSET (Piece \cup Response)
    BY <1>1 DEF Inv, TypeOK
  <1>3. /\ lost' \in [Client -> SUBSET (Piece \cup Response)]
        /\ replying' \in [Client -> Response \cup {None}]
    BY <1>1, <1>2 DEF Timeout, Inv, TypeOK
  <1>4. TypeOK'
    BY <1>3 DEF Timeout, Inv, TypeOK
  <1>5. RepliesBelong'
    BY <1>1 DEF Timeout, Inv, TypeOK, RepliesBelong, ReplyBelongs
  <1> QED
    BY <1>4, <1>5 DEF Timeout, Inv, MappingsBelong, OutputBelongs, AnswersToAsker, ResultsOf,
                      AskedHere

LEMMA DisconnectInv ==
    ASSUME Inv, NEW c \in Client, Disconnect(c)
    PROVE  Inv'
  <1> USE DEF Inv
  <1>1. mappings' = [mappings EXCEPT !.length = 0, !.index = 0]
    BY DEF Disconnect
  <1>2. /\ mappings' \in FlowTableOf(Mapping) /\ WellFormed(mappings')
        /\ NoDuplicate(mappings') /\ Live(mappings') = {}
    BY <1>1, FlushedTable DEF TypeOK
  <1>3. TypeOK'
    <2>1. /\ connected' \subseteq Client /\ closing' \subseteq Client
          /\ commands' \in [Client -> Seq(Piece)] /\ wire' \in [Client -> Seq(Piece)]
          /\ sending' \in [Client -> Piece \cup {None}] /\ timers' \in [Client -> Nat]
          /\ replying' \in [Client -> Response \cup {None}]
      BY DEF Disconnect, Gone, TypeOK
    <2>2. cut' \in BOOLEAN
      BY DEF Disconnect, TypeOK
    <2> QED
      BY <1>2, <2>1, <2>2 DEF Disconnect, TypeOK
  <1>4. MappingsBelong'
    BY <1>2 DEF MappingsBelong
  <1>5. RepliesBelong'
    BY DEF Disconnect, Gone, TypeOK, RepliesBelong, ReplyBelongs
  <1> QED
    BY <1>2, <1>3, <1>4, <1>5 DEF Disconnect, OutputBelongs, AnswersToAsker, ResultsOf

LEMMA NextInv ==
    ASSUME Inv, [Next]_vars
    PROVE  Inv'
  <1>1. CASE UNCHANGED vars
    BY <1>1 DEF vars, Inv, TypeOK, MappingsBelong, OutputBelongs, RepliesBelong, ReplyBelongs,
                AnswersToAsker, ResultsOf, AskedHere
  <1>2. CASE Next
    BY <1>2, MakeRequestInv, ClientTransmitNextInv, ClientTransmitReadyInv, ClientTimeoutInv,
       HandleSearchInv, KeepFragmentInv, HandleAddInv, RefuseInv, ReceiveAnswerInv,
       TransmitNextInv, TransmitReadyInv, TimeoutInv, DisconnectInv DEF Next
  <1> QED
    BY <1>1, <1>2

LEMMA InvariantInv == Spec => []Inv
  <1>1. Init => Inv
    BY InitInv
  <1>2. Inv /\ [Next]_vars => Inv'
    BY NextInv
  <1> QED
    BY <1>1, <1>2, PTL DEF Spec

\* The variables of the client sessions are well typed in every reachable state.
THEOREM SessionTypes == Spec => []TypeOK
  <1>1. Inv => TypeOK
    BY DEF Inv
  <1> QED
    BY <1>1, InvariantInv, PTL

\* A response that names a request goes to the client that made it under that id,
\* however sessions follow each other or second clients come and go.
THEOREM AnswersReachAsker == Spec => []AnswersToAsker
  <1>1. Inv => AnswersToAsker
    BY DEF Inv
  <1> QED
    BY <1>1, InvariantInv, PTL

-------------------------------------------------------------------------------
(* While nobody disconnects *)

\* A client that is connected has made a request.
ConnectedToAsk == \A c \in connected : made[c] > 0

\* Every flow that was asked for is mapped to its request.
AskedMapped ==
    \A f \in Flow : asked[f] # None =>
        Contains(mappings, f) /\ Lookup(mappings, f).request_id = asked[f].id

\* A response has the id of the request it answers.
SameId(r) == r.type = "result" => asked[r.flow] # None /\ r.id = asked[r.flow].id

ResponsesSameId ==
    /\ \A i \in DOMAIN output : SameId(output[i])
    /\ \A c \in Client : replying[c] # None => SameId(replying[c])
    /\ \A c \in Client : \A r \in inbox[c] : SameId(r)

\* What the session is as long as nobody disconnects.
UndisturbedInv ==
    ConnectedToAsk /\ (Undisturbed /\ Roomy => AskedMapped /\ ResponsesSameId)

\* Once somebody has disconnected that stays so.
LEMMA MakeRequestUndisturbed ==
    ASSUME Inv, ConnectedToAsk, NEW c \in Client, MakeRequest(c)
    PROVE  ConnectedToAsk' /\ (Undisturbed' => Undisturbed)
  <1>1. made \in [Client -> Nat] /\ connected \subseteq Client
    BY DEF Inv, TypeOK
  <1>2. /\ connected' = connected \cup {c} /\ made' = [made EXCEPT ![c] = @ + 1]
        /\ made[c] = 0 \/ c \in connected
    BY DEF MakeRequest
  <1> QED
    BY <1>1, <1>2 DEF ConnectedToAsk, Undisturbed

LEMMA DisconnectDisturbs ==
    ASSUME Inv, ConnectedToAsk, NEW c \in Client, Disconnect(c)
    PROVE  ConnectedToAsk' /\ ~Undisturbed'
  BY DEF Disconnect, Gone, ConnectedToAsk, Undisturbed, Inv, TypeOK

\* The answer to a mapped flow has the id of its request.
LEMMA ResultSameId ==
    ASSUME NEW table, NEW flow, Contains(table, flow)
    PROVE  Result(table, flow).id = Lookup(table, flow).request_id
  BY DEF Result, RequestId

\* The search that is new gets a mapping, and the others keep theirs.
LEMMA HandleSearchMapped ==
    ASSUME Roomy, Inv, AskedMapped, ResponsesSameId,
           NEW c \in Client, NEW f \in Flow, HandleSearch(c, f)
    PROVE  AskedMapped' /\ ResponsesSameId'
  <1> DEFINE id == Head(wire[c]).request.id
             entry == [flow_id |-> f, request_id |-> id]
             result == Result(mappings', f)
  <1> USE DEF Inv
  <1>1. /\ Head(wire[c]) \in Piece
    BY TakePiece DEF HandleSearch, Take
  <1>2. id \in Nat /\ entry \in Mapping /\ entry.flow_id = f
    BY <1>1 DEF Piece, Request, Mapping
  <1>3. /\ mappings' = Insert(mappings, entry)
        /\ asked' = [asked EXCEPT ![f] = [client |-> c, id |-> id]]
        /\ asked[f] = None /\ inbox' = inbox /\ replying' = replying
        /\ output' = output \/ output' = Append(output, result)
    BY DEF HandleSearch, Transmit
  <1>4. /\ mappings \in FlowTableOf(Mapping) /\ Blank \notin Mapping
        /\ \A e \in Mapping : e.flow_id \in Flow
    BY ClientSessionAssumption DEF TypeOK, Mapping
  <1>5. ~Contains(mappings, f)
    BY <1>3 DEF Contains, MappingsBelong, AskedHere
  <1>6. mappings.length < TableSize
    BY <1>4, <1>5, RoomForNewFlow DEF Roomy
  <1>7. \A g : g # f => /\ Contains(mappings', g) <=> Contains(mappings, g)
                        /\ Contains(mappings, g) =>
                              Lookup(mappings', g) = Lookup(mappings, g)
    BY <1>2, <1>3, <1>4, <1>5, <1>6, InsertKeeps
  <1>8. Contains(mappings', f) /\ Lookup(mappings', f) = entry
    <2>1. mappings' \in FlowTableOf(Mapping) /\ NoDuplicate(mappings')
      BY <1>2, <1>3, <1>4, <1>5, InsertType, InsertNoDuplicate
    <2>2. mappings.index \in Live(mappings') /\ mappings'.slot[mappings.index] = entry
      BY <1>2, <1>3, <1>4, InsertLive
    <2>3. mappings'.length \in Nat
      BY <2>1, TableSizeAssumption DEF FlowTableOf
    <2> QED
      BY <2>1, <2>2, <2>3, <1>2, LookupFinds DEF Contains
  <1>9. /\ asked'[f] = [client |-> c, id |-> id]
        /\ \A g \in Flow \ {f} : asked'[g] = asked[g]
    BY <1>3 DEF TypeOK
  <1>10. asked'[f] # None /\ asked'[f].id = id
    <2>1. [client |-> c, id |-> id] \in [client: Client, id: Nat]
      BY <1>2
    <2> QED
      BY <2>1, <1>9, ClientSessionAssumption
  <1>11. AskedMapped'
    BY <1>7, <1>8, <1>9, <1>10 DEF AskedMapped
  <1> DEFINE Same(r) == r.type = "result" => asked'[r.flow] # None /\ r.id = asked'[r.flow].id
  <1>12. ASSUME NEW r \in Response, SameId(r) PROVE Same(r)
    <2>1. CASE r.type = "result"
      <3>1. r.flow \in Flow /\ r.flow # f
        BY <2>1, <1>3, <1>12, ResponseKinds DEF SameId
      <3> QED
        BY <3>1, <1>9, <1>12 DEF SameId
    <2> QED
      BY <2>1
  <1>13. Same(result)
    <2>1. result.flow = f /\ result.id = id
      BY <1>8, ResultSameId DEF Result
    <2> QED
      BY <2>1, <1>10
  <1>14. /\ output \in Seq(Response) /\ inbox \in [Client -> SUBSET Response]
         /\ replying \in [Client -> Response \cup {None}]
    BY DEF TypeOK
  <1> HIDE DEF result, Same
  <1>15. \A i \in DOMAIN output' : Same(output'[i])
    <2> SUFFICES ASSUME NEW i \in DOMAIN output' PROVE Same(output'[i])
      OBVIOUS
    <2>1. (i \in DOMAIN output /\ output'[i] = output[i]) \/ output'[i] = result
      BY <1>3, <1>14
    <2>2. CASE i \in DOMAIN output /\ output'[i] = output[i]
      <3>1. output[i] \in Response /\ SameId(output[i])
        BY <2>2, <1>14 DEF ResponsesSameId
      <3> QED
        BY <3>1, <2>2, <1>12
    <2> QED
      BY <2>1, <2>2, <1>13
  <1>16. \A d \in Client : \A r \in inbox'[d] : Same(r)
    BY <1>3, <1>12, <1>14 DEF ResponsesSameId
  <1>17. \A d \in Client : replying'[d] # None => Same(replying'[d])
    BY <1>3, <1>12, <1>14 DEF ResponsesSameId
  <1> QED
    BY <1>11, <1>15, <1>16, <1>17 DEF ResponsesSameId, SameId, Same

LEMMA IdsStep ==
    ASSUME Roomy, Inv, AskedMapped, ResponsesSameId, Next, ~\E c \in Client : Disconnect(c)
    PROVE  AskedMapped' /\ ResponsesSameId'
  <1>1. output \in Seq(Response) /\ inbox \in [Client -> SUBSET Response]
    BY DEF Inv, TypeOK
  <1>2. CASE UNCHANGED <<mappings, asked, output, replying, inbox>>
    BY <1>2 DEF AskedMapped, ResponsesSameId, SameId
  <1>3. ASSUME NEW c \in Client, HandleAdd(c)
        PROVE  AskedMapped' /\ ResponsesSameId'
    <2> DEFINE done == Done(Head(wire[c]).request)
    <2>1. /\ UNCHANGED <<mappings, asked, replying, inbox>>
          /\ output' = output \/ output' = Append(output, done)
      BY <1>3 DEF HandleAdd, Transmit
    <2>2. \A i \in DOMAIN output' :
              (i \in DOMAIN output /\ output'[i] = output[i]) \/ output'[i].type = "done"
      BY <2>1, <1>1 DEF Done
    <2> QED
      BY <2>1, <2>2 DEF AskedMapped, ResponsesSameId, SameId
  <1>4. ASSUME NEW f \in Flow, ReceiveAnswer(f)
        PROVE  AskedMapped' /\ ResponsesSameId'
    <2> DEFINE result == Result(mappings, f)
    <2>1. /\ UNCHANGED <<mappings, asked, replying, inbox>> /\ asked[f] # None
          /\ output' = Append(output, result)
      BY <1>4 DEF ReceiveAnswer, Transmit
    <2>2. result.flow = f /\ result.id = asked[f].id
      BY <2>1, ResultSameId DEF AskedMapped, Result
    <2>3. SameId(result)
      BY <2>1, <2>2 DEF SameId
    <2> HIDE DEF result
    <2>4. \A i \in DOMAIN output' :
              (i \in DOMAIN output /\ output'[i] = output[i]) \/ output'[i] = result
      BY <2>1, <1>1
    <2> QED
      BY <2>1, <2>3, <2>4 DEF AskedMapped, ResponsesSameId, SameId
  <1>5. ASSUME TransmitNext
        PROVE  AskedMapped' /\ ResponsesSameId'
    <2>1. /\ UNCHANGED <<mappings, asked, inbox>>
          /\ \/ UNCHANGED <<output, replying>>
             \/ /\ output # <<>> /\ output' = Tail(output)
                /\ \/ UNCHANGED replying
                   \/ replying' = [replying EXCEPT ![client] = Head(output)]
      BY <1>5 DEF TransmitNext
    <2>2. CASE output # <<>> /\ output' = Tail(output)
      <3>1. /\ 1 \in DOMAIN output /\ Head(output) = output[1]
            /\ \A i \in DOMAIN output' : i + 1 \in DOMAIN output /\ output'[i] = output[i + 1]
        BY <2>2, <1>1
      <3>2. \A c \in Client : replying'[c] = replying[c] \/ replying'[c] = Head(output)
        BY <2>1 DEF Inv, TypeOK
      <3> QED
        BY <2>1, <2>2, <3>1, <3>2 DEF AskedMapped, ResponsesSameId, SameId
    <2> QED
      BY <2>1, <2>2 DEF AskedMapped, ResponsesSameId, SameId
  <1>6. ASSUME NEW c \in Client, TransmitReady(c) \/ Timeout(c) \/ Disconnect(c)
        PROVE  ~Disconnect(c) => AskedMapped' /\ ResponsesSameId'
    <2> SUFFICES ASSUME ~Disconnect(c) PROVE AskedMapped' /\ ResponsesSameId'
      OBVIOUS
    <2>1. /\ UNCHANGED <<mappings, asked, output>>
          /\ replying' = [replying EXCEPT ![c] = None] /\ replying[c] # None
          /\ inbox' = inbox \/ inbox' = [inbox EXCEPT ![c] = @ \cup {replying[c]}]
      BY <1>6 DEF TransmitReady, Timeout
    <2>2. \A d \in Client : \A r \in inbox'[d] : r \in inbox[d] \/ r = replying[c]
      BY <2>1, <1>1
    <2>3. \A d \in Client : replying'[d] = None \/ replying'[d] = replying[d]
      BY <2>1 DEF Inv, TypeOK
    <2> QED
      BY <2>1, <2>2, <2>3 DEF AskedMapped, ResponsesSameId, SameId
  <1> QED
    BY <1>2, <1>3, <1>4, <1>5, <1>6, HandleSearchMapped
    DEF Next, MakeRequest, ClientTransmitNext, ClientTransmitReady, ClientTimeout, KeepFragment,
        Take, Refuse

-------------------------------------------------------------------------------

LEMMA UndisturbedInit == Init => UndisturbedInv
  BY DEF Init, UndisturbedInv, ConnectedToAsk, AskedMapped, ResponsesSameId

LEMMA UndisturbedStep ==
    ASSUME Inv, UndisturbedInv, [Next]_vars
    PROVE  UndisturbedInv'
  <1> USE DEF UndisturbedInv
  <1>1. CASE UNCHANGED vars
    BY <1>1 DEF vars, ConnectedToAsk, Undisturbed, Roomy, AskedMapped, ResponsesSameId, SameId
  <1>2. CASE Next /\ \E c \in Client : Disconnect(c)
    BY <1>2, DisconnectDisturbs
  <1>3. CASE Next /\ ~\E c \in Client : Disconnect(c)
    <2>1. ConnectedToAsk' /\ (Undisturbed' => Undisturbed)
      <3>1. CASE UNCHANGED <<connected, made>>
        BY <3>1 DEF ConnectedToAsk, Undisturbed
      <3> QED
        BY <3>1, <1>3, MakeRequestUndisturbed
        DEF Next, ClientTransmitNext, ClientTransmitReady, ClientTimeout, HandleSearch,
            KeepFragment, HandleAdd, Refuse, ReceiveAnswer, TransmitNext, TransmitReady, Timeout
    <2>2. Undisturbed /\ Roomy => AskedMapped' /\ ResponsesSameId'
      BY <1>3, IdsStep
    <2> QED
      BY <2>1, <2>2 DEF Roomy
  <1> QED
    BY <1>1, <1>2, <1>3

LEMMA InvariantUndisturbed == Spec => []UndisturbedInv
  <1> QED
    BY UndisturbedInit, UndisturbedStep, InvariantInv, PTL DEF Spec

\* As long as nobody disconnects and the ring has room for every search, every answer
\* carries the id of its request, for any number of clients and requests.
THEOREM SameIds == Spec => []SameIdForEveryAnswer
  <1>1. UndisturbedInv => SameIdForEveryAnswer
    BY DEF UndisturbedInv, ResponsesSameId, SameId, SameIdForEveryAnswer, ResultsOf
  <1> QED
    BY <1>1, InvariantUndisturbed, PTL

-------------------------------------------------------------------------------
(* The pieces of commands *)

First(r) == [request |-> r, part |-> "first"]

Last(r) == [request |-> r, part |-> "last"]

\* The pieces of c that the service has yet to read, when GNUnet takes them all.
Stream(c) ==
    (wire[c] \o (IF sending[c] = None THEN <<>> ELSE <<sending[c]>>)) \o commands[c]

\* The fragments that are those of c.
Kept(c) == IF client = c THEN fragments ELSE <<>>

\* In s the two pieces of an add command follow each other; if the first of them was
\* taken it is what is kept, and the second is the next piece.
InOrder(s, kept) ==
    /\ \A i \in DOMAIN s :
          LET r == s[i].request
          IN  /\ s[i].part = "first" => i + 1 \in DOMAIN s /\ s[i + 1] = Last(r)
              /\ s[i].part = "last" =>
                    /\ r.action # "search"
                    /\ IF i = 1 THEN kept = <<First(r)>> ELSE s[i - 1] = First(r)
    /\ kept # <<>> => s # <<>> /\ Head(s).part = "last"

CommandsFollow ==
    /\ failure # "size"
    /\ client = None => fragments = <<>>
    /\ fragments # <<>> => client \notin closing
    /\ \A c \in Client \ closing : InOrder(Stream(c), Kept(c))

CommandsInv == ~cut /\ PiecesKept => CommandsFollow

\* A piece is one of the three kinds.
LEMMA PieceKinds ==
    ASSUME NEW p \in Piece
    PROVE  /\ p.request \in Request
           /\ p.part \in {"whole", "first", "last"}
           /\ p.part = "first" => p = First(p.request)
           /\ p.part = "last" => p = Last(p.request)
  BY DEF Piece, First, Last

\* t is s with the pieces of r at its end.
IsExtension(s, t, r) ==
    /\ Len(s) \in Nat /\ DOMAIN s = 1 .. Len(s)
    /\ \A i \in DOMAIN s : i \in DOMAIN t /\ t[i] = s[i]
    /\ \A i \in DOMAIN t \ DOMAIN s :
          \/ t[i].part = "whole"
          \/ t[i] = First(r) /\ i + 1 \in DOMAIN t /\ t[i + 1] = Last(r)
          \/ t[i] = Last(r) /\ r.action # "search" /\ i # 1 /\ t[i - 1] = First(r)
    /\ s # <<>> => t # <<>> /\ Head(t) = Head(s)

\* What the pieces of a request add to a wire.
LEMMA AddedPieces ==
    ASSUME NEW s \in Seq(Piece), NEW r \in Request
    PROVE  IsExtension(s, s \o Pieces(r), r)
  <1> DEFINE t == s \o Pieces(r)
  <1> SUFFICES IsExtension(s, t, r)
    OBVIOUS
  <1>1. Len(s) \in Nat /\ DOMAIN s = 1 .. Len(s) /\ Pieces(r) \in Seq(Piece)
    BY PiecesType
  <1>2. /\ Len(t) = Len(s) + Len(Pieces(r)) /\ DOMAIN t = 1 .. Len(t)
        /\ \A i \in 1 .. Len(t) : t[i] = IF i <= Len(s) THEN s[i] ELSE Pieces(r)[i - Len(s)]
        /\ Len(Pieces(r)) \in Nat
    BY <1>1
  <1>3. s # <<>> => t # <<>> /\ Head(t) = Head(s)
    BY <1>1
  <1>4. \A i \in DOMAIN s : i \in DOMAIN t /\ t[i] = s[i]
    BY <1>1, <1>2
  <1>5. CASE r.action = "search"
    <2>1. Len(Pieces(r)) = 1 /\ Pieces(r)[1].part = "whole"
      BY <1>5 DEF Pieces
    <2>2. \A i \in DOMAIN t \ DOMAIN s : t[i] = Pieces(r)[1]
      BY <2>1, <1>1, <1>2
    <2> HIDE DEF t
    <2> QED
      BY <2>1, <2>2, <1>1, <1>3, <1>4 DEF IsExtension
  <1>6. CASE r.action # "search"
    <2>1. Len(Pieces(r)) = 2 /\ Pieces(r)[1] = First(r) /\ Pieces(r)[2] = Last(r)
      BY <1>6 DEF Pieces, First, Last
    <2> DEFINE n == Len(s)
    <2> HIDE DEF n, t
    <2>2. /\ n \in Nat /\ DOMAIN s = 1 .. n /\ DOMAIN t = 1 .. n + 2
          /\ t[n + 1] = First(r) /\ t[n + 2] = Last(r)
      BY <2>1, <1>1, <1>2 DEF n
    <2>3. ASSUME NEW i \in DOMAIN t \ DOMAIN s
          PROVE  \/ t[i] = First(r) /\ i + 1 \in DOMAIN t /\ t[i + 1] = Last(r)
                 \/ t[i] = Last(r) /\ i # 1 /\ t[i - 1] = First(r)
      <3>1. CASE i = n + 1
        <4>1. i + 1 = n + 2 /\ i + 1 \in DOMAIN t
          BY <3>1, <2>2
        <4> QED
          BY <4>1, <3>1, <2>2
      <3>2. CASE i = n + 2
        <4>1. i - 1 = n + 1 /\ i # 1
          BY <3>2, <2>2
        <4> QED
          BY <4>1, <3>2, <2>2
      <3> QED
        BY <3>1, <3>2, <2>2
    <2> QED
      BY <2>3, <1>1, <1>3, <1>4, <1>6 DEF IsExtension
  <1> QED
    BY <1>5, <1>6

\* A request adds its pieces in order.
LEMMA AddInOrder ==
    ASSUME NEW s \in Seq(Piece), NEW r \in Request, NEW kept, InOrder(s, kept)
    PROVE  InOrder(s \o Pieces(r), kept)
  <1> DEFINE t == s \o Pieces(r)
  <1>1. IsExtension(s, t, r)
    BY AddedPieces
  <1> HIDE DEF t
  <1>2. /\ First(r).request = r /\ First(r).part = "first"
        /\ Last(r).request = r /\ Last(r).part = "last"
    BY DEF First, Last
  <1>3. ASSUME NEW i \in DOMAIN t
        PROVE  LET q == t[i].request
               IN  /\ t[i].part = "first" => i + 1 \in DOMAIN t /\ t[i + 1] = Last(q)
                   /\ t[i].part = "last" =>
                         /\ q.action # "search"
                         /\ IF i = 1 THEN kept = <<First(q)>> ELSE t[i - 1] = First(q)
    <2>1. CASE i \in DOMAIN s
      <3>1. t[i] = s[i]
        BY <2>1, <1>1 DEF IsExtension
      <3>2. i # 1 => i - 1 \in DOMAIN s
        BY <2>1, <1>1 DEF IsExtension
      <3> QED
        BY <2>1, <3>1, <3>2, <1>1 DEF InOrder, IsExtension
    <2>2. CASE i \notin DOMAIN s
      BY <2>2, <1>1, <1>2 DEF IsExtension
    <2> QED
      BY <2>1, <2>2
  <1>4. kept # <<>> => t # <<>> /\ Head(t).part = "last"
    BY <1>1 DEF InOrder, IsExtension
  <1>5. InOrder(t, kept)
    BY <1>3, <1>4 DEF InOrder
  <1> QED
    BY <1>5 DEF t

\* The first piece is taken, and kept if it is the first of a command.
LEMMA TakeInOrder ==
    ASSUME NEW s \in Seq(Piece), s # <<>>, NEW kept, InOrder(s, kept)
    PROVE  InOrder(Tail(s), IF Head(s).part = "first" THEN <<Head(s)>> ELSE <<>>)
  <1> DEFINE t == Tail(s)
             rest == IF Head(s).part = "first" THEN <<Head(s)>> ELSE <<>>
  <1>1. /\ DOMAIN s = 1 .. Len(s) /\ Len(s) \in Nat \ {0} /\ DOMAIN t = 1 .. Len(s) - 1
        /\ \A i \in 1 .. Len(s) - 1 : t[i] = s[i + 1]
        /\ Head(s) = s[1] /\ s[1] \in Piece
        /\ Len(s) > 1 => t # <<>> /\ Head(t) = s[2]
    <2>1. Len(s) \in Nat \ {0} /\ DOMAIN s = 1 .. Len(s) /\ Head(s) = s[1]
      OBVIOUS
    <2>2. s[1] \in Piece
      BY <2>1
    <2>3. t \in Seq(Piece) /\ Len(t) = Len(s) - 1 /\ DOMAIN t = 1 .. Len(s) - 1
      OBVIOUS
    <2>4. \A i \in 1 .. Len(s) - 1 : t[i] = s[i + 1]
      OBVIOUS
    <2> HIDE DEF t
    <2>5. Len(s) > 1 => t # <<>> /\ Head(t) = t[1]
      BY <2>1, <2>3
    <2> QED
      BY <2>1, <2>2, <2>3, <2>4, <2>5
  <1>2. /\ s[1].part = "first" => s[1] = First(s[1].request)
        /\ \A i \in DOMAIN s : s[i].part \in {"whole", "first", "last"}
    BY <1>1, PieceKinds
  <1> HIDE DEF t
  <1>3. ASSUME NEW i \in DOMAIN t, t[i].part = "first"
        PROVE  i + 1 \in DOMAIN t /\ t[i + 1] = Last(t[i].request)
    <2>1. i + 1 \in DOMAIN s /\ s[i + 1] = t[i]
      BY <1>1
    <2>2. i + 2 \in DOMAIN s /\ s[i + 2] = Last(t[i].request)
      BY <2>1, <1>1, <1>3 DEF InOrder
    <2> QED
      BY <2>2, <1>1
  <1>4. ASSUME NEW i \in DOMAIN t, t[i].part = "last"
        PROVE  /\ t[i].request.action # "search"
               /\ IF i = 1 THEN rest = <<First(t[i].request)>>
                           ELSE t[i - 1] = First(t[i].request)
    <2> DEFINE j == i + 1
    <2>1. j \in DOMAIN s /\ s[j] = t[i] /\ j # 1 /\ j - 1 = i
      BY <1>1
    <2> HIDE DEF j
    <2>2. /\ s[j].part = "last" => /\ s[j].request.action # "search"
                                   /\ j # 1 => s[j - 1] = First(s[j].request)
      BY <2>1 DEF InOrder
    <2>3. t[i].request.action # "search" /\ s[i] = First(t[i].request)
      BY <2>1, <2>2, <1>4
    <2>4. CASE i = 1
      <3>1. s[1] = First(t[i].request) /\ First(t[i].request).part = "first"
        BY <2>3, <2>4 DEF First
      <3> QED
        BY <3>1, <2>3, <2>4, <1>1
    <2>5. CASE i # 1
      <3>1. i - 1 \in 1 .. Len(s) - 1 /\ i - 1 + 1 = i
        BY <2>5, <1>1
      <3> QED
        BY <3>1, <2>3, <2>5, <1>1
    <2> QED
      BY <2>3, <2>4, <2>5
  <1>5. rest # <<>> => t # <<>> /\ Head(t).part = "last"
    <2> SUFFICES ASSUME rest # <<>> PROVE t # <<>> /\ Head(t).part = "last"
      OBVIOUS
    <2>1. s[1].part = "first"
      BY <1>1
    <2>2. 2 \in DOMAIN s /\ s[2] = Last(s[1].request)
      BY <2>1, <1>1 DEF InOrder
    <2> QED
      BY <2>2, <1>1 DEF Last
  <1>6. InOrder(t, rest)
    BY <1>3, <1>4, <1>5 DEF InOrder
  <1> QED
    BY <1>6 DEF t

\* The next piece tells what is kept.
LEMMA NextTellsKept ==
    ASSUME NEW s \in Seq(Piece), s # <<>>, NEW kept, InOrder(s, kept)
    PROVE  /\ Head(s).part # "last" => kept = <<>>
           /\ Head(s).part = "last" => /\ Head(s).request.action # "search"
                                       /\ kept = <<First(Head(s).request)>>
  <1>1. 1 \in DOMAIN s /\ Head(s) = s[1]
    OBVIOUS
  <1> QED
    BY <1>1 DEF InOrder

\* What follows one element makes two.
LEMMA AppendToOne ==
    ASSUME NEW S, NEW x \in S, NEW y \in S
    PROVE  Append(<<x>>, y) = <<x, y>>
  <1>1. <<x>> \in Seq(S) /\ <<x, y>> \in Seq(S)
    OBVIOUS
  <1>2. Append(<<x>>, y) \in Seq(S) /\ Len(Append(<<x>>, y)) = 2 /\ Len(<<x, y>>) = 2
    BY <1>1
  <1>3. Append(<<x>>, y)[1] = x /\ Append(<<x>>, y)[2] = y
    BY <1>1
  <1>4. \A i \in 1 .. Len(Append(<<x>>, y)) : Append(<<x>>, y)[i] = <<x, y>>[i]
    BY <1>2, <1>3
  <1> QED
    BY <1>1, <1>2, <1>4, SeqEqual

\* The stream of a client whose pieces are where they were.
LEMMA StreamFrame ==
    ASSUME NEW c \in Client, wire'[c] = wire[c], sending'[c] = sending[c],
           commands'[c] = commands[c]
    PROVE  Stream(c)' = Stream(c)
  BY DEF Stream

LEMMA StreamType ==
    ASSUME TypeOK, NEW c \in Client
    PROVE  Stream(c) \in Seq(Piece)
  <1>1. wire[c] \in Seq(Piece) /\ commands[c] \in Seq(Piece) /\ sending[c] \in Piece \cup {None}
    BY DEF TypeOK
  <1>2. (IF sending[c] = None THEN <<>> ELSE <<sending[c]>>) \in Seq(Piece)
    BY <1>1
  <1> QED
    BY <1>1, <1>2 DEF Stream

\* Sequences of pieces: how they are put together does not matter.
LEMMA Regroup ==
    ASSUME NEW s \in Seq(Piece), NEW t \in Seq(Piece), NEW u \in Seq(Piece)
    PROVE  (s \o t) \o u = s \o (t \o u)
  BY ConcatAssociative

\* A piece in front of a sequence, and a sequence as its first piece and the rest.
LEMMA ConsAt ==
    ASSUME NEW h \in Piece, NEW t \in Seq(Piece)
    PROVE  /\ <<h>> \o t \in Seq(Piece) /\ Len(<<h>> \o t) = 1 + Len(t)
           /\ \A i \in 1 .. 1 + Len(t) :
                 (<<h>> \o t)[i] = IF i <= 1 THEN <<h>>[i] ELSE t[i - 1]
  <1>1. <<h>> \in Seq(Piece) /\ Len(<<h>>) = 1
    OBVIOUS
  <1> QED
    BY <1>1, ConcatProperties, Zenon

LEMMA FrontAndRest ==
    ASSUME NEW s \in Seq(Piece), s # <<>>
    PROVE  /\ Head(s) \in Piece /\ Tail(s) \in Seq(Piece)
           /\ <<Head(s)>> \o Tail(s) = s
  <1> DEFINE n == Len(s)
             h == Head(s)
             t == Tail(s)
             a == <<h>> \o t
  <1>1. /\ n \in Nat \ {0} /\ h = s[1] /\ h \in Piece
    OBVIOUS
  <1>2. /\ t \in Seq(Piece) /\ Len(t) = n - 1 /\ \A i \in 1 .. n - 1 : t[i] = s[i + 1]
    OBVIOUS
  <1>3. <<h>> \in Seq(Piece) /\ Len(<<h>>) = 1 /\ <<h>>[1] = h
    BY <1>1
  <1> HIDE DEF n, h, t
  <1>4. /\ a \in Seq(Piece) /\ Len(a) = 1 + Len(t)
        /\ \A i \in 1 .. 1 + Len(t) : a[i] = IF i <= 1 THEN <<h>>[i] ELSE t[i - 1]
    BY <1>1, <1>2, ConsAt
  <1> HIDE DEF a
  <1>5. Len(a) = n /\ \A i \in 1 .. n : a[i] = s[i]
    <2>1. Len(a) = n
      BY <1>1, <1>2, <1>4
    <2>2. ASSUME NEW i \in 1 .. n PROVE a[i] = s[i]
      <3>1. CASE i = 1
        BY <3>1, <1>1, <1>2, <1>3, <1>4
      <3>2. CASE i # 1
        <4>1. i - 1 \in 1 .. n - 1 /\ i - 1 + 1 = i /\ i \in 1 .. 1 + Len(t) /\ ~(i <= 1)
          BY <3>2, <1>1, <1>2
        <4> QED
          BY <4>1, <1>2, <1>4
      <3> QED
        BY <3>1, <3>2
    <2> QED
      BY <2>1, <2>2
  <1>6. a = s
    BY <1>4, <1>5, SeqEqual DEF n
  <1> QED
    BY <1>1, <1>2, <1>6 DEF a, h, t

LEMMA Cons ==
    ASSUME NEW h \in Piece, NEW t \in Seq(Piece)
    PROVE  <<h>> \o t # <<>> /\ Head(<<h>> \o t) = h /\ Tail(<<h>> \o t) = t
  <1> DEFINE a == <<h>> \o t
             n == Len(t)
             b == Tail(a)
  <1>1. <<h>> \in Seq(Piece) /\ Len(<<h>>) = 1 /\ <<h>>[1] = h /\ n \in Nat
    OBVIOUS
  <1>2. /\ a \in Seq(Piece) /\ Len(a) = 1 + n
        /\ \A i \in 1 .. 1 + n : a[i] = IF i <= 1 THEN <<h>>[i] ELSE t[i - 1]
    BY <1>1, ConcatProperties, Zenon
  <1> HIDE DEF a, n
  <1>3. a # <<>> /\ Head(a) = a[1] /\ a[1] = h
    BY <1>1, <1>2
  <1>4. b \in Seq(Piece) /\ Len(b) = n /\ \A i \in 1 .. n : b[i] = a[i + 1]
    BY <1>1, <1>2, <1>3
  <1> HIDE DEF b
  <1>5. ASSUME NEW i \in 1 .. n PROVE b[i] = t[i]
    <2>1. i + 1 \in 1 .. 1 + n /\ i + 1 - 1 = i /\ ~(i + 1 <= 1)
      BY <1>1
    <2> QED
      BY <2>1, <1>2, <1>4
  <1>6. b = t
    BY <1>4, <1>5, SeqEqual DEF n
  <1> QED
    BY <1>3, <1>6 DEF a, b

\* What is put behind a sequence leaves its front as it is.
LEMMA HeadTailOfConcat ==
    ASSUME NEW s \in Seq(Piece), s # <<>>, NEW t \in Seq(Piece)
    PROVE  s \o t # <<>> /\ Head(s \o t) = Head(s) /\ Tail(s \o t) = Tail(s) \o t
  <1> DEFINE h == Head(s)
             r == Tail(s)
  <1>1. h \in Piece /\ r \in Seq(Piece) /\ <<h>> \o r = s
    BY FrontAndRest
  <1>2. r \o t \in Seq(Piece) /\ <<h>> \in Seq(Piece)
    BY <1>1
  <1> HIDE DEF h, r
  <1>3. s \o t = <<h>> \o (r \o t)
    BY <1>1, <1>2, Regroup
  <1>4. /\ <<h>> \o (r \o t) # <<>> /\ Head(<<h>> \o (r \o t)) = h
        /\ Tail(<<h>> \o (r \o t)) = r \o t
    BY <1>1, <1>2, Cons
  <1> QED
    BY <1>3, <1>4, Zenon DEF h, r

\* Nothing is lost of what is passed from the queue to GNUnet or from there to the wire.
LEMMA HandedOn ==
    ASSUME NEW w \in Seq(Piece), NEW q \in Seq(Piece)
    PROVE  /\ q # <<>> => (w \o <<Head(q)>>) \o Tail(q) = (w \o <<>>) \o q
           /\ \A x \in Piece : (Append(w, x) \o <<>>) \o q = (w \o <<x>>) \o q
  <1>1. ASSUME q # <<>>
        PROVE  (w \o <<Head(q)>>) \o Tail(q) = (w \o <<>>) \o q
    <2>1. /\ Head(q) \in Piece /\ Tail(q) \in Seq(Piece) /\ <<Head(q)>> \o Tail(q) = q
      BY <1>1, FrontAndRest
    <2>2. <<Head(q)>> \in Seq(Piece)
      BY <2>1
    <2>3. (w \o <<Head(q)>>) \o Tail(q) = w \o (<<Head(q)>> \o Tail(q))
      BY <2>1, <2>2, Regroup, Zenon
    <2>4. w \o <<>> = w
      OBVIOUS
    <2> QED
      BY <2>1, <2>3, <2>4, Zenon
  <1>2. ASSUME NEW x \in Piece
        PROVE  (Append(w, x) \o <<>>) \o q = (w \o <<x>>) \o q
    <2>1. Append(w, x) = w \o <<x>>
      BY AppendIsConcat
    <2>2. w \o <<x>> \in Seq(Piece)
      OBVIOUS
    <2>3. (w \o <<x>>) \o <<>> = w \o <<x>>
      BY <2>2
    <2> QED
      BY <2>1, <2>3, Zenon
  <1> QED
    BY <1>1, <1>2
\* The service reads from the front of the stream.
LEMMA StreamTail ==
    ASSUME TypeOK, NEW c \in Client, wire[c] # <<>>, wire' = [wire EXCEPT ![c] = Tail(@)],
           UNCHANGED <<sending, commands>>
    PROVE  /\ Stream(c) # <<>> /\ Head(Stream(c)) = Head(wire[c])
           /\ Stream(c)' = Tail(Stream(c))
  <1> DEFINE p == IF sending[c] = None THEN <<>> ELSE <<sending[c]>>
             w == wire[c]
             q == commands[c]
  <1>1. w \in Seq(Piece) /\ w # <<>> /\ q \in Seq(Piece) /\ p \in Seq(Piece)
    BY DEF TypeOK
  <1>2. wire'[c] = Tail(w)
    BY DEF TypeOK
  <1>3. Stream(c) = (w \o p) \o q /\ Stream(c)' = (Tail(w) \o p) \o q
    BY <1>2 DEF Stream
  <1> HIDE DEF p, w, q
  <1>4. w \o p # <<>> /\ Head(w \o p) = Head(w) /\ Tail(w \o p) = Tail(w) \o p
    BY <1>1, HeadTailOfConcat
  <1>5. w \o p \in Seq(Piece)
    BY <1>1
  <1>6. /\ (w \o p) \o q # <<>> /\ Head((w \o p) \o q) = Head(w \o p)
        /\ Tail((w \o p) \o q) = Tail(w \o p) \o q
    BY <1>1, <1>4, <1>5, HeadTailOfConcat
  <1> QED
    BY <1>3, <1>4, <1>6 DEF w

LEMMA MakeRequestFollows ==
    ASSUME Inv, CommandsFollow, NEW c \in Client, MakeRequest(c)
    PROVE  CommandsFollow'
  <1> DEFINE r == Requests[c][made[c] + 1]
             w == wire[c] \o (IF sending[c] = None THEN <<>> ELSE <<sending[c]>>)
  <1>1. r \in Request
    <2>1. made[c] \in Nat /\ made[c] < Len(Requests[c]) /\ Requests[c] \in Seq(Request)
      BY ClientSessionAssumption DEF Inv, TypeOK, MakeRequest
    <2>2. made[c] + 1 \in 1 .. Len(Requests[c])
      BY <2>1
    <2> QED
      BY <2>1, <2>2
  <1>2. /\ UNCHANGED <<client, closing, fragments, failure, wire, sending>>
        /\ commands' = [commands EXCEPT ![c] = @ \o Pieces(r)]
    BY DEF MakeRequest
  <1>3. /\ commands'[c] = commands[c] \o Pieces(r)
        /\ \A d \in Client \ {c} : commands'[d] = commands[d]
    BY <1>2 DEF Inv, TypeOK
  <1>4. \A d \in Client \ {c} : Stream(d)' = Stream(d)
    BY <1>2, <1>3, StreamFrame
  <1>5. commands[c] \in Seq(Piece) /\ w \in Seq(Piece) /\ Pieces(r) \in Seq(Piece)
    <2>1. wire[c] \in Seq(Piece) /\ sending[c] \in Piece \cup {None}
      BY DEF Inv, TypeOK
    <2>2. (IF sending[c] = None THEN <<>> ELSE <<sending[c]>>) \in Seq(Piece)
      BY <2>1
    <2> QED
      BY <2>1, <2>2, <1>1, PiecesType DEF Inv, TypeOK
  <1>6. Stream(c) = w \o commands[c] /\ Stream(c)' = w \o (commands[c] \o Pieces(r))
    BY <1>2, <1>3 DEF Stream
  <1> HIDE DEF r, w
  <1>7. Stream(c)' = Stream(c) \o Pieces(r)
    <2>1. w \o (commands[c] \o Pieces(r)) = (w \o commands[c]) \o Pieces(r)
      BY <1>5, Regroup, Zenon
    <2> QED
      BY <1>6, <2>1
  <1>8. c \notin closing => InOrder(Stream(c)', Kept(c))
    BY <1>1, <1>7, AddInOrder, StreamType DEF CommandsFollow, Inv
  <1>9. \A d \in Client : Kept(d)' = Kept(d)
    BY <1>2 DEF Kept
  <1> QED
    BY <1>2, <1>4, <1>8, <1>9 DEF CommandsFollow

\* The service takes a piece: what follows is in order, and what it keeps.
LEMMA TakeFollows ==
    ASSUME Inv, CommandsFollow, NEW c \in Client, Take(c), UNCHANGED <<closing, sending, commands>>,
           fragments' = IF Head(wire[c]).part = "first" THEN <<Head(wire[c])>> ELSE <<>>,
           failure' # "size"
    PROVE  CommandsFollow'
  <1>1. /\ c \notin closing /\ wire[c] # <<>> /\ client \in {None, c} /\ client' = c
        /\ wire' = [wire EXCEPT ![c] = Tail(@)] /\ c # None
    BY ClientSessionAssumption DEF Take, Accepts
  <1>2. /\ Stream(c) # <<>> /\ Head(Stream(c)) = Head(wire[c])
        /\ Stream(c)' = Tail(Stream(c))
    BY <1>1, StreamTail DEF Inv
  <1>3. InOrder(Stream(c)', fragments')
    BY <1>1, <1>2, TakeInOrder, StreamType DEF CommandsFollow, Inv
  <1>4. ASSUME NEW d \in Client \ closing, d # c PROVE InOrder(Stream(d)', Kept(d)')
    <2>1. Stream(d)' = Stream(d)
      BY <1>1, <1>4, StreamFrame DEF Inv, TypeOK
    <2>2. Kept(d) = <<>> /\ Kept(d)' = <<>>
      BY <1>1, <1>4, ClientSessionAssumption DEF Kept
    <2> QED
      BY <2>1, <2>2 DEF CommandsFollow
  <1>5. Kept(c)' = fragments'
    BY <1>1 DEF Kept
  <1> QED
    BY <1>1, <1>3, <1>4, <1>5 DEF CommandsFollow

\* What is kept when a piece of c is taken.
LEMMA TakenKept ==
    ASSUME Inv, CommandsFollow, NEW c \in Client, Take(c)
    PROVE  /\ Head(wire[c]).part # "last" => fragments = <<>>
           /\ Head(wire[c]).part = "last" => /\ Head(wire[c]).request.action # "search"
                                             /\ fragments = <<First(Head(wire[c]).request)>>
  <1>1. c \notin closing /\ wire[c] # <<>> /\ client \in {None, c} /\ c # None
    BY ClientSessionAssumption DEF Take, Accepts
  <1>2. Kept(c) = fragments
    BY <1>1 DEF Kept, CommandsFollow
  <1>3. Stream(c) # <<>> /\ Head(Stream(c)) = Head(wire[c])
    <2> DEFINE p == IF sending[c] = None THEN <<>> ELSE <<sending[c]>>
    <2>1. wire[c] \in Seq(Piece) /\ commands[c] \in Seq(Piece) /\ p \in Seq(Piece)
      BY DEF Inv, TypeOK
    <2>2. Stream(c) = (wire[c] \o p) \o commands[c]
      BY DEF Stream
    <2> HIDE DEF p
    <2>3. /\ wire[c] \o p \in Seq(Piece) /\ wire[c] \o p # <<>>
          /\ Head(wire[c] \o p) = Head(wire[c])
      BY <1>1, <2>1, HeadTailOfConcat
    <2>4. /\ (wire[c] \o p) \o commands[c] # <<>>
          /\ Head((wire[c] \o p) \o commands[c]) = Head(wire[c] \o p)
      BY <2>1, <2>3, HeadTailOfConcat, Zenon
    <2> QED
      BY <2>2, <2>3, <2>4, Zenon
  <1> QED
    BY <1>1, <1>2, <1>3, NextTellsKept, StreamType DEF CommandsFollow, Inv

\* Nobody's pieces move, or only from one place to the next.
LEMMA StreamsStay ==
    ASSUME CommandsFollow, UNCHANGED <<client, closing, fragments>>, failure' # "size",
           \A d \in Client : Stream(d)' = Stream(d)
    PROVE  CommandsFollow'
  BY DEF CommandsFollow, Kept

LEMMA CommandsStep ==
    ASSUME Inv, CommandsFollow, Next, ~cut', PiecesKept'
    PROVE  CommandsFollow'
  <1>1. failure = "none"
    BY DEF Next, Runs
  <1>2. ASSUME NEW c \in Client, NEW f \in Flow, HandleSearch(c, f)
        PROVE  CommandsFollow'
    <2>1. fragments = <<>>
      BY <1>2, TakenKept DEF HandleSearch
    <2> QED
      BY <2>1, <1>1, <1>2, TakeFollows DEF HandleSearch
  <1>3. ASSUME NEW c \in Client, KeepFragment(c)
        PROVE  CommandsFollow'
    <2>1. fragments = <<>>
      BY <1>3, TakenKept DEF KeepFragment
    <2>2. fragments' = <<Head(wire[c])>>
      BY <2>1, <1>3 DEF KeepFragment
    <2> QED
      BY <2>2, <1>1, <1>3, TakeFollows DEF KeepFragment
  <1>4. ASSUME NEW c \in Client, HandleAdd(c)
        PROVE  CommandsFollow'
    <2> DEFINE r == Head(wire[c]).request
    <2>1. /\ Head(wire[c]) \in Piece /\ Head(wire[c]).part = "last"
          /\ r.action # "search" /\ fragments = <<First(r)>>
      BY <1>4, TakePiece, TakenKept DEF HandleAdd, Take, Inv
    <2>2. Head(wire[c]) = Last(r)
      BY <2>1, PieceKinds
    <2>3. Append(fragments, Head(wire[c])) = Pieces(r)
      <3>1. Pieces(r) = <<First(r), Last(r)>>
        BY <2>1 DEF Pieces, First, Last
      <3>2. First(r) \in Piece /\ Last(r) \in Piece
        BY <2>1, PieceKinds DEF First, Last, Piece
      <3>3. Append(<<First(r)>>, Last(r)) = <<First(r), Last(r)>>
        BY <3>2, AppendToOne
      <3> QED
        BY <2>1, <2>2, <3>1, <3>3
    <2>4. failure' = failure
      BY <2>3, <1>4 DEF HandleAdd
    <2> QED
      BY <2>1, <2>4, <1>1, <1>4, TakeFollows DEF HandleAdd
  <1>5. ASSUME NEW c \in Client, Refuse(c)
        PROVE  CommandsFollow'
    <2>1. /\ wire' = [wire EXCEPT ![c] = <<>>] /\ closing' = closing \cup {c} /\ client # c
          /\ UNCHANGED <<client, fragments, failure, sending, commands>>
      BY <1>5 DEF Refuse, Accepts
    <2>2. ASSUME NEW d \in Client \ closing' PROVE InOrder(Stream(d)', Kept(d)')
      <3>1. d # c /\ d \notin closing
        BY <2>1
      <3>2. Stream(d)' = Stream(d)
        BY <2>1, <3>1, StreamFrame DEF Inv, TypeOK
      <3> QED
        BY <2>1, <3>1, <3>2 DEF CommandsFollow, Kept
    <2> QED
      BY <2>1, <2>2 DEF CommandsFollow
  <1>6. ASSUME NEW c \in Client, Disconnect(c)
        PROVE  CommandsFollow'
    <2>1. /\ client \in {None, c} /\ client' = None /\ fragments' = <<>>
          /\ closing' = closing \ {c} /\ failure' = failure
          /\ wire' = [wire EXCEPT ![c] = <<>>] /\ sending' = [sending EXCEPT ![c] = None]
          /\ commands' = [commands EXCEPT ![c] = <<>>]
      BY <1>6 DEF Disconnect, Gone
    <2>2. ASSUME NEW d \in Client \ closing' PROVE InOrder(Stream(d)', Kept(d)')
      <3>1. Kept(d)' = <<>>
        BY <2>1 DEF Kept
      <3>2. CASE d = c
        <4>1. wire'[d] = <<>> /\ sending'[d] = None /\ commands'[d] = <<>>
          BY <2>1, <3>2 DEF Inv, TypeOK
        <4>2. <<>> \in Seq(Piece)
          OBVIOUS
        <4>3. Stream(d)' = <<>>
          BY <4>1, <4>2 DEF Stream
        <4> QED
          BY <3>1, <4>3 DEF InOrder
      <3>3. CASE d # c
        <4>1. d \notin closing /\ Stream(d)' = Stream(d)
          BY <2>1, <3>3, StreamFrame DEF Inv, TypeOK
        <4>2. Kept(d) = <<>>
          BY <2>1, <3>3, ClientSessionAssumption DEF Kept
        <4> QED
          BY <3>1, <4>1, <4>2 DEF CommandsFollow
      <3> QED
        BY <3>2, <3>3
    <2> QED
      BY <2>1, <2>2 DEF CommandsFollow
  <1>7. ASSUME NEW c \in Client, ClientTransmitNext(c)
        PROVE  CommandsFollow'
    <2>1. CASE commands[c] = <<>>
      <3>1. UNCHANGED <<wire, sending, commands, client, closing, fragments, failure>>
        BY <1>7, <2>1 DEF ClientTransmitNext
      <3> QED
        BY <3>1, StreamFrame, StreamsStay DEF CommandsFollow
    <2>2. CASE commands[c] # <<>>
      <3>1. commands[c] \in Seq(Piece) /\ Head(commands[c]) \in Piece /\ wire[c] \in Seq(Piece)
        BY <2>2 DEF Inv, TypeOK
      <3>2. sending[c] = None
        <4> SUFFICES ASSUME sending[c] # None PROVE FALSE
          OBVIOUS
        <4>1. Head(commands[c]) \in lost'[c]
          BY <1>7, <2>2 DEF ClientTransmitNext, Inv, TypeOK
        <4> QED
          BY <3>1, <4>1 DEF PiecesKept
      <3>3. /\ sending' = [sending EXCEPT ![c] = Head(commands[c])]
            /\ commands' = [commands EXCEPT ![c] = Tail(@)]
            /\ UNCHANGED <<wire, client, closing, fragments, failure>>
        BY <1>7, <2>2, <3>2 DEF ClientTransmitNext
      <3>4. /\ sending'[c] = Head(commands[c]) /\ commands'[c] = Tail(commands[c])
            /\ sending'[c] # None
        BY <3>1, <3>3, ClientSessionAssumption DEF Inv, TypeOK
      <3>5. Stream(c)' = Stream(c)
        <4>1. /\ Stream(c) = (wire[c] \o <<>>) \o commands[c]
              /\ Stream(c)' = (wire[c] \o <<Head(commands[c])>>) \o Tail(commands[c])
          BY <3>2, <3>3, <3>4 DEF Stream
        <4> QED
          BY <2>2, <3>1, <4>1, HandedOn
      <3>6. \A d \in Client \ {c} : Stream(d)' = Stream(d)
        BY <3>3, StreamFrame DEF Inv, TypeOK
      <3> QED
        BY <3>3, <3>5, <3>6, StreamsStay DEF CommandsFollow
    <2> QED
      BY <2>1, <2>2
  <1>8. ASSUME NEW c \in Client, ClientTransmitReady(c)
        PROVE  CommandsFollow'
    <2>1. /\ sending[c] # None
          /\ wire' = [wire EXCEPT ![c] = Append(@, sending[c])]
          /\ sending' = [sending EXCEPT ![c] = None]
          /\ UNCHANGED <<commands, client, closing, fragments, failure>>
      BY <1>8 DEF ClientTransmitReady
    <2>2. /\ commands[c] \in Seq(Piece) /\ wire[c] \in Seq(Piece) /\ sending[c] \in Piece
          /\ wire'[c] = Append(wire[c], sending[c]) /\ sending'[c] = None
      BY <2>1 DEF Inv, TypeOK
    <2>3. Stream(c)' = Stream(c)
      <3>1. /\ Stream(c) = (wire[c] \o <<sending[c]>>) \o commands[c]
            /\ Stream(c)' = (Append(wire[c], sending[c]) \o <<>>) \o commands[c]
        BY <2>1, <2>2 DEF Stream
      <3>2. \A x \in Piece : (Append(wire[c], x) \o <<>>) \o commands[c]
                              = (wire[c] \o <<x>>) \o commands[c]
        BY <2>2, HandedOn
      <3>3. (Append(wire[c], sending[c]) \o <<>>) \o commands[c]
                = (wire[c] \o <<sending[c]>>) \o commands[c]
        BY <2>2, <3>2, Zenon
      <3> QED
        BY <3>1, <3>3, Zenon
    <2>4. \A d \in Client \ {c} : Stream(d)' = Stream(d)
      BY <2>1, StreamFrame DEF Inv, TypeOK
    <2> QED
      BY <2>1, <2>3, <2>4, StreamsStay DEF CommandsFollow
  <1>9. ASSUME NEW c \in Client, ClientTimeout(c)
        PROVE  FALSE
    <2>1. sending[c] \in Piece /\ sending[c] \in lost'[c]
      BY <1>9 DEF ClientTimeout, Inv, TypeOK
    <2> QED
      BY <2>1 DEF PiecesKept
  <1>10. CASE /\ UNCHANGED <<wire, sending, commands, client, closing, fragments>>
              /\ failure' # "size"
    BY <1>10, StreamFrame, StreamsStay
  <1> QED
    BY <1>1, <1>2, <1>3, <1>4, <1>5, <1>6, <1>7, <1>8, <1>9, <1>10, MakeRequestFollows
    DEF Next, ReceiveAnswer, TransmitNext, TransmitReady, Timeout

\* What was lost stays lost, and a session that was cut stays cut.
LEMMA HistoryGrows ==
    ASSUME Inv, Next
    PROVE  (cut => cut') /\ (PiecesKept' => PiecesKept)
  <1>1. \A c \in Client : lost[c] \subseteq lost'[c]
    <2>1. lost \in [Client -> SUBSET (Piece \cup Response)]
      BY DEF Inv, TypeOK
    <2>2. \/ lost' = lost
          \/ \E c \in Client, x \in Piece \cup Response : lost' = [lost EXCEPT ![c] = @ \cup {x}]
      <3>1. ASSUME NEW c \in Client, ClientTransmitNext(c), lost' # lost
            PROVE  \E x \in Piece \cup Response : lost' = [lost EXCEPT ![c] = @ \cup {x}]
        <4>1. commands[c] # <<>> /\ lost' = [lost EXCEPT ![c] = @ \cup {Head(commands[c])}]
          BY <3>1 DEF ClientTransmitNext
        <4>2. Head(commands[c]) \in Piece
          BY <4>1 DEF Inv, TypeOK
        <4> QED
          BY <4>1, <4>2
      <3>2. ASSUME NEW c \in Client, ClientTimeout(c)
            PROVE  \E x \in Piece \cup Response : lost' = [lost EXCEPT ![c] = @ \cup {x}]
        BY <3>2 DEF ClientTimeout, Inv, TypeOK
      <3>3. ASSUME NEW c \in Client, Timeout(c)
            PROVE  \E x \in Piece \cup Response : lost' = [lost EXCEPT ![c] = @ \cup {x}]
        BY <3>3 DEF Timeout, Inv, TypeOK
      <3>4. ASSUME TransmitNext, lost' # lost
            PROVE  \E c \in Client, x \in Piece \cup Response :
                       lost' = [lost EXCEPT ![c] = @ \cup {x}]
        <4>1. /\ output # <<>> /\ client \in Client
              /\ lost' = [lost EXCEPT ![client] = @ \cup {Head(output)}]
          BY <3>4 DEF TransmitNext, Inv, TypeOK
        <4> QED
          BY <4>1, TakeResponse
      <3> QED
        BY <3>1, <3>2, <3>3, <3>4
        DEF Next, MakeRequest, ClientTransmitReady, HandleSearch, KeepFragment, HandleAdd, Refuse,
            ReceiveAnswer, TransmitReady, Disconnect
    <2> QED
      BY <2>1, <2>2
  <1>2. cut => cut'
    BY DEF Next, MakeRequest, ClientTransmitNext, ClientTransmitReady, ClientTimeout, HandleSearch,
           KeepFragment, HandleAdd, Refuse, ReceiveAnswer, TransmitNext, TransmitReady, Timeout,
           Disconnect
  <1> QED
    BY <1>1, <1>2 DEF PiecesKept

\* A command is whole when its last piece arrives, for any clients and requests, over
\* sessions that follow each other, end in the middle of a command or refuse clients: as
\* long as GNUnet neither refuses nor gives up a piece, and no client ends the session of
\* another.
THEOREM CommandsAreWhole == Spec => []CommandsWhole
  <1>1. Init => CommandsInv
    <2> SUFFICES ASSUME Init PROVE CommandsFollow
      BY DEF CommandsInv
    <2>1. ASSUME NEW c \in Client PROVE Stream(c) = <<>>
      <3>1. <<>> \in Seq(Piece)
        OBVIOUS
      <3> QED
        BY <3>1 DEF Init, Stream
    <2> QED
      BY <2>1 DEF Init, CommandsFollow, InOrder, Kept
  <1>2. Inv /\ CommandsInv /\ [Next]_vars => CommandsInv'
    <2>1. ASSUME UNCHANGED vars, CommandsInv PROVE CommandsInv'
      BY <2>1 DEF vars, CommandsInv, CommandsFollow, PiecesKept, Stream, Kept
    <2> QED
      BY <2>1, CommandsStep, HistoryGrows DEF CommandsInv
  <1>3. CommandsInv => CommandsWhole
    BY DEF CommandsInv, CommandsFollow, CommandsWhole
  <1> QED
    BY <1>1, <1>2, <1>3, InvariantInv, PTL DEF Spec

-------------------------------------------------------------------------------
(* Who the client is *)

\* There is a client when something was asked for or waits to be transmitted.
ClientKnown ==
    /\ failure # "client"
    /\ output # <<>> => client # None
    /\ \A f \in Flow : asked[f] # None => client # None

\* While nobody disconnects the service keeps the client that asked.
LEMMA ClientKnownStep ==
    ASSUME Inv, UndisturbedInv, Undisturbed => ClientKnown, [Next]_vars
    PROVE  Undisturbed' => ClientKnown'
  <1>1. None \notin Client
    BY ClientSessionAssumption
  <1>2. CASE UNCHANGED vars
    BY <1>2 DEF vars, Undisturbed, ClientKnown
  <1>3. ASSUME NEW c \in Client, MakeRequest(c)
        PROVE  Undisturbed' => ClientKnown'
    <2>1. Undisturbed' => Undisturbed
      BY <1>3, MakeRequestUndisturbed DEF UndisturbedInv
    <2> QED
      BY <1>3, <2>1 DEF MakeRequest, ClientKnown
  <1>4. ASSUME Runs, NEW c \in Client, Take(c), failure' # "client",
               UNCHANGED <<connected, made>>
        PROVE  Undisturbed' => ClientKnown'
    BY <1>1, <1>4 DEF ClientKnown, Take
  <1>5. ASSUME NEW f \in Flow, ReceiveAnswer(f)
        PROVE  Undisturbed' => ClientKnown'
    BY <1>5 DEF ReceiveAnswer, Undisturbed, ClientKnown
  <1>6. CASE TransmitNext
    BY <1>6 DEF TransmitNext, Undisturbed, ClientKnown
  <1>7. CASE UNCHANGED <<connected, made, client, output, asked, failure>>
    BY <1>7 DEF Undisturbed, ClientKnown
  <1>8. ASSUME NEW c \in Client, Disconnect(c)
        PROVE  Undisturbed' => ClientKnown'
    BY <1>8, DisconnectDisturbs DEF UndisturbedInv
  <1> QED
    BY <1>2, <1>3, <1>4, <1>5, <1>6, <1>7, <1>8
    DEF Next, Runs, ClientTransmitNext, ClientTransmitReady, ClientTimeout, HandleSearch,
        KeepFragment, HandleAdd, Refuse, TransmitReady, Timeout

\* As long as nobody disconnects there is a client to transmit to, as the code takes for
\* granted (client-communication.c:49): ClientThere fails only after a disconnect.
THEOREM ClientIsThere == Spec => [](Undisturbed => ClientThere)
  <1>1. Init => ClientKnown
    BY DEF Init, ClientKnown
  <1>2. Inv /\ UndisturbedInv /\ (Undisturbed => ClientKnown) /\ [Next]_vars
            => (Undisturbed => ClientKnown)'
    BY ClientKnownStep
  <1>3. ClientKnown => ClientThere
    BY DEF ClientKnown, ClientThere
  <1> QED
    BY <1>1, <1>2, <1>3, InvariantInv, InvariantUndisturbed, PTL DEF Spec

\* With one client only, which the disconnect handler takes for granted
\* (client-communication.c:207), a session ends when its client goes: SessionKept fails
\* only when a second client is refused.
THEOREM SessionIsKept == (\A c, d \in Client : c = d) /\ Spec => SessionKept
  <1>1. CASE \A c, d \in Client : c = d
    <2>1. Inv /\ [Next]_vars => [client # None /\ client' # client => client \notin connected']_vars
      <3> SUFFICES ASSUME Inv, Next, client # None, client' # client
                   PROVE  client \notin connected'
        BY DEF vars
      <3>1. client \in Client
        BY DEF Inv, TypeOK
      <3>2. PICK c \in Client : Disconnect(c)
        <4>1. ~\E c \in Client : client' = c
          BY <1>1, <3>1
        <4>2. UNCHANGED client \/ (\E c \in Client : client' = c) \/ (\E c \in Client : Disconnect(c))
          BY Zenon
          DEF Next, MakeRequest, ClientTransmitNext, ClientTransmitReady, ClientTimeout,
              HandleSearch, KeepFragment, HandleAdd, Take, Refuse, ReceiveAnswer, TransmitNext,
              TransmitReady, Timeout
        <4> QED
          BY <4>1, <4>2
      <3>3. c = client
        BY <1>1, <3>1
      <3> QED
        BY <3>2, <3>3 DEF Disconnect, Gone
    <2> QED
      BY <2>1, InvariantInv, PTL DEF Spec, SessionKept
  <1> QED
    BY <1>1
===============================================================================
