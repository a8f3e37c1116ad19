# gnunet-search in TLA+

gnunet-search is a distributed web search on top of GNUnet. A *service* runs on
every peer; a command line *client* and a *web front end* talk to it. This
directory holds TLA+ models of its parts, TLC configurations that model-check
them, and TLAPS proofs of their central invariants. Source paths below are
relative to `src/src/search/` of the checked tree.

## 1. Inventory

### Components

| component | state it keeps | operations | talks to |
|---|---|---|---|
| flooding `service/flooding/flooding.c` | routing table: ring of 25 (flow id, next hop, own request) with length and index; output queue | send own data, receive a packet from a peer, look for a local result, route or discard a response, transmit | GNUnet core (peers), storage (through a callback), client-communication (answers) |
| client-communication `service/client-communication/client-communication.c` | the one client; ring of 15 mappings from flow id to request id | receive a command, answer it, forward an answer under the request's id, flush when a client disconnects | communication, flooding, url-processor, dht |
| communication `communication/communication.c` (both ends) | output queue of fragments, received fragments, one scheduled task per transmit, one free timer per dequeued fragment | transmit, transmit_next, transmit_ready, free task, receive, flush | GNUnet server/client transport, listeners |
| storage `service/storage/storage.c` | map from keyword to list of values, in memory only | add a value once, look up, serialise to a size, free at the end | collections library |
| dht `service/dht/dht.c` | monitor handle | put a URL (or a list) with a parameter, parse what the monitor sees | GNUnet DHT, url-processor |
| url-processor `service/url-processor/url-processor.c` | none | crawl a URL, put its links with the parameter lowered, store it under its keywords | crawler library, dht, storage |
| normalization `service/normalization/normalization.c` | none | upper to lower case, byte by byte | storage, client-communication |
| web-client `web-client/gnunet-search-web.c`, `web-client/www/result_loader.js` | list of queries with their results and its length (the id of the newest); event loop; per page an offset | start a search, poll, receive a response, select() loop | libmicrohttpd, server-communication, browsers |
| server-communication `client/server-communication/server-communication.c` | connection, receive loop | connect, transmit, receive | communication, GNUnet client |
| cli-client `cli-client/gnunet-search.c`, `cli-client/util/client-util.c` | the one request | read a file of URLs, send an add or a search, print answers | server-communication |
| service main, globals, util | configuration, handles | start, stop, split a command | all |
| search_api, `test_search_api.c` | none | none (an empty template; its test starts a service of another name) | - |

The components of one process share one GNUnet event loop: handlers and tasks
are atomic and interleave only between each other. What is hard here is
therefore not threads but the order of tasks, timers and packets: copies of a
request over several paths; routes, mappings and ids that live in small rings
and are overwritten; sessions that end while answers are under way; one task
per message where GNUnet takes one request at a time; a blocking select() in an
event loop. `PROJECT.json` lists these under `hazards`, each at its line.

### What makes each component correct

- **flooding**: a response reaches only the client that searched, and only with
  what was indexed; routes form a tree that leads home; a peer processes and
  answers a request once; everything dies out; with room and ttl enough, every
  answer arrives. Below that, its output: a message reaches each receiver once or
  is lost and never returns to its sender, no message waits without a task, a
  packet's memory is freed, once, and not while it is in use.
- **communication**: messages arrive whole, in order, and nothing crosses from
  one session to the next; fragments are freed, once, and not while in use.
- **client-communication**: a response names a request of the client that gets
  it; every answer to a request has the same id; a command whose pieces GNUnet
  takes is whole; adds are acknowledged.
- **storage, dht, url-processor, normalization**: the crawl ends, stays within
  two links and misses nothing there; no page is listed twice; replies are true
  and fit; what a restart loses comes back when its URL is added again.
- **server-communication**: GNUnet is asked to receive exactly once at a time as
  long as there is something to come.
- **cli-client**: the lines of a file arrive at the service as its URLs; every
  answer reaches the user, and an add command ends.
- **web front end**: a page shows the results of its own query and no others; in
  order and once, as long as all of them can be encoded.

## 2. Modules

| module | models | extends / uses |
|---|---|---|
| `FlowTable` | the ring buffer used for routes and for mappings | - |
| `Flooding` | a network of services that flood and route back | `FlowTable`, `SearchService` |
| `SearchService` | abstract: who may get which answer | - |
| `FloodingOutput` | one node's way to its neighbours: iteration, queue, tasks, timers | `PacketBag` |
| `PacketBag` | abstract: each receiver once, in any order, or lost | - |
| `Communication` | one direction of a client connection | `MessageChannel` |
| `MessageChannel` | abstract: whole messages, in order, per session | - |
| `ClientSession` | the service's sessions with clients | `FlowTable` |
| `Indexing` | from an added URL to a search reply | - |
| `UrlFile` | from a file of URLs to the URLs of an add command | - |
| `CliClient` | the command line client on its connection, its receive loop and its end | `UrlFile` |
| `WebClient` | the web front end, its pages and its event loop | - |
| `FlowTableProofs`, `FloodingProofs`, `FloodingOutputProofs`, `CommunicationProofs`, `ClientSessionProofs`, `IndexingProofs`, `CliClientProofs`, `WebClientProofs` | theorems | the modules they name, `TLAPS` |
| `MCFlooding`, `MCFloodingOutput`, `MCCommunication`, `MCClientSession`, `MCIndexing`, `MCCliClient`, `MCWebClient` | small instances for TLC | the modules they name |

`PROJECT.json` maps every definition to its lines. The definitions marked as
mutants in the modules are plausible bugs; each property is violated when the
definition it stands next to is replaced by one of them.

**FlowTable / Flooding.** `Insert` writes at the ring's index, advances it
modulo the size and lets the length grow up to it, as `peer_message_process`
does. A packet handler is one action: `ReceiveNewRequest` enters the route,
searches the storage, routes what it found like a response that originates
here, and floods the rest; `ReceiveKnownRequest` discards; `ReceiveResponse`
relays, delivers or discards. `StartSearch` is the same handler with a NULL
sender. `Decrement` keeps the width of `ttl` (8 bits). Between sending and
receiving lie the iteration over the peers, the output queue and the core: they
are one bag of packets, so that any delay and any order is possible, and `Lose`
is a transmission that fails. That this is what they amount to is shown by
`FloodingOutput`. `Restart` empties what was in memory. `Flow` numbers the flow
ids in the order in which searches draw them, which is a bound on the inputs and not
on the network: a flow id only ever gets compared. `Startable` bounds who searches
for what. URLs are abstracted to "the result of this holder for this keyword".

**FloodingOutput / PacketBag.** `DataFlood` copies a message and starts an
iteration over the peers; `PeerIterateHandler` is one callback of it, with the
sender skipped, `PeerIterateEnd` the last. Each message is queued with a task of
its own, unlike in `Communication`. `TransmitNext` is such a task: the core is
external, keeps up to `CoreQueue` requests per peer, refuses further ones and
those for peers it is not connected to, forgets those of a peer that goes, and
gives up after `MaxDelay` without a word; in every case the free task is
scheduled. `EndOfTTL` is the request whose ttl ran out after it was copied. The
refinement takes as in flight what iterations have yet to reach (but for the
sender), what is queued and what the core holds; the tasks and timers are
stutters of `PacketBag`, a refusal, a timeout or a peer that goes is its `Lose`.

**Communication.** A byte is named by its message and position, so that a lost,
repeated or misplaced byte is visible. A fragment stands for its heap block.
GNUnet is external and modelled as the code uses it: it holds one request,
refuses a second, calls `transmit_ready` when it can send and gives up silently
after `MaxDelay`. `Tick` lets the free timers run (tasks without delay and
timeouts that are due come first). `Disconnect` is that of the client whose
connection this is; `OtherDisconnect` that of another client of the service, which
flushes the queues of the service all the same, be it the sender or the receiver,
and leaves the connection and GNUnet's request as they are.

**ClientSession.** A search is one piece, an add command two, a response one, which
is the least with which commands can be cut and mixed. Both ends transmit as
`communication.c` does, and the module takes that over from `Communication` piece
by piece, without bytes, memory and time. On the side of a client `commands` is its
output queue, `timers` its scheduled tasks and `sending` what GNUnet is asked to
transmit; on the side of the service these are `output`, `tasks` and `replying`, the
last per client, because the request to GNUnet belongs to a connection while the
queue and the tasks belong to the service and outlive a session.
`MakeRequest` queues a request, `ClientTransmitNext` is the task, whose request
GNUnet refuses when it has another, `ClientTransmitReady` puts the piece on the
connection, `ClientTimeout` is GNUnet giving up. `HandleSearch`, `KeepFragment` and
`HandleAdd` are the service receiving a piece (`Take`), `Refuse` is a piece of
another client, whose connection is closed (`GNUNET_NO`): a disconnect of its own
follows (`closing`). `ReceiveAnswer` is flooding's callback;
`TransmitNext`, `TransmitReady` and `Timeout` transmit responses, to whoever is the
client when the task runs. `Disconnect` flushes the session, whoever goes.
The histories `lost`, `stalled` and `cut` say what GNUnet did not take, that it gave
up a request, and that a disconnect ended the session of another client.
The failed assertion on a command's size and the use of a NULL client end the
service (`failure`).

**Indexing.** Words are sequences of bytes because their case matters; URLs are
model values with a length. The DHT shows every put to at least one monitor,
chosen anew each time. A put that a monitor sees again before it has handled
the first counts once. `Restart` empties a peer's storage, which is in memory
only, and loses what its monitor had yet to handle; clients may then add their
URLs again.

**UrlFile.** One action per iteration of the loops in `urls_read` and
`cmd_urls_get`. The line and the array have the sizes the code believes in and
the room they really have; a write beyond sets `overrun` and ends the run,
because nothing can be said about the memory then. The byte compared at the end
of the file, which was never read, is any byte. `Joined` is what the serialiser
writes, every string with a terminator: NUL in a command, a newline in a file.

**CliClient.** Its requests to receive are counted (`armed`): GNUnet calls back
once for each. The loop of `server-communication.c` asks again after a fragment
that is not the last, the handler of `gnunet-search.c` after a result, and nobody
after an acknowledgement or a NULL message. `Reading` blocks the callbacks
because the file is read in one go inside `gnunet_search_run`. The service is
external; `ServeAdd` takes the command apart with `UrlFile`'s `CmdUrlsGet`. That
the service goes, or refuses this client, looks the same from here.

**WebClient.** The event loop alternates between `select`, where HTTP requests
are served, and `tasks`, where GNUnet's callbacks run; it blocks in `select`
until there is a request. The length of the query list, which is also the
newest id, wraps at `IdSpace` (an unsigned short). A page's state is that of
`result_loader.js`: it waits for its timer, polls, and appends what it loads. A URL
outside of `Utf8` is one of which `json_string` makes NULL, which the JSON array does
not take (`Encoded`): the page gets the others, and as it counts what it got, its
next offset is too small and it gets the last ones again. A search may be lost on
its way to the service, as GNUnet may refuse it.

## 3. Runs

| run | instance | what it shows |
|---|---|---|
| `flooding_routes` | 5 peers, two cycles that share an edge and a tail; 1 flow; holders at the roof and at the tail; room, no loss | `RoutesLeadHome`, `ResponsesGetHome`, `AnswerOnce`, `ProcessedOnce`, `SearchComplete` |
| `flooding_faults` | triangle, 3 flows, 2 keywords, tables of two entries, loss, one peer restarts | `TypeOK`, `RoutingTableSound`, `AnswersMatchSearch`, `ImplementsSearchService`, and `Quiescence` although flows evict each other and are processed again |
| `flooding_output` | one request and one response for two peers that come and go; the core keeps one request per peer | `ImplementsPacketBag`, `NeverStuck`, `MemorySafe`, `Drained`, `TypeOK` |
| `communication_sessions` | messages that fill one fragment, need two, fill two; a message is sent when the one before has left; disconnects at any time | `ImplementsChannel`, `Arrives`, `NothingLeaks` |
| `communication_overlap` | the same messages at any time; GNUnet refuses or gives up requests; this client and others disconnect | `MemorySafe`, `BytesInOrder`: fragments are lost, but memory and order are right |
| `communication_size` | the same, one refusal suffices | finding: `SizeMatches` violated |
| `session_clients` | a web client with a search, an add and a search, a command line client with an add, 2 flows; GNUnet refuses or gives up requests | `AnswersToAsker`, `SameIdForEveryAnswer`, `CommandsWhole`, `Acknowledged`, `TypeOK` |
| `session_kept` | two clients | finding: `SessionKept` violated |
| `session_no_client` | one client | finding: `ClientThere` violated |
| `indexing` | 2 peers, one of which may restart, 4 pages that link back and forth, one of them three links away | `IndexedNearby`, `NoUrlTwice`, `RepliesRight`, `CrawlEnds`, `Findable`, `TypeOK` |
| `cli_client` | every file of up to 6 bytes over 2 letters and newline, an array of 3, a line of 1; or a search with up to 3 results of one or two fragments; a service that may go | `InBounds`, `UrlsArrive`, `ListensOnce`, `Answered`, `CliTypeOK` |
| `web` | 3 pages, one of which may be closed, ids 0..2, 2 answers of 2 URLs, one of which is not UTF-8 | `OwnResults`, `ShownInOrder`, `ResultsShown`, `TypeOK` |

**Bounds, and why they are enough.** Five peers give two paths of different
length between most pairs, so that a copy with less ttl may come first, and a
peer that only another one reaches; `MaxTTL = 5` is just the longest simple
path, the least for which `SearchComplete` holds. In `flooding_faults` a ring of two
entries gets three flows: its index wraps, it evicts, and a flow that was evicted
comes back while others are live, at the start of the ring or at its end. In `flooding_output` two packets for
one peer are enough for the core to refuse the second, two peers for a message
to have a sender and a receiver, and `MaxDelay = 2` lets requests be given up
and free tasks run between two tasks; its safety is proved for every bound.
A fragment that holds two bytes
has messages below, at and above its boundary. In `session_clients` every
request of the web client may be transmitted while the one before is under way, on
both sides, the add of the other client may be cut or refused between its pieces, and
the ring has just room for every flow
(it overflows in `flooding_faults`; what the ring guarantees is proved for
every size, and so is what restarts of any peer cannot break).
In `indexing` a page is reached again with a lower parameter
(1 -> 2 -> 1), links form cycles, one page is just out of reach, and one peer
restarts once, before, amid or after the crawl, whose URL may be added again then.
In `web` one page that is closed shows what closing
can do to the event loop and to the ids of the others, and an answer that cannot be
encoded as a whole follows on one that can;
the third query wraps the ids: `Numbered` is the part of the run before that,
`TypeOK` the part after. In `cli_client` a line outgrows its room twice and the
array once, and two results of a search may be under way while a third is cut
short. No symmetry is used. `CHECK_DEADLOCK FALSE` is set where
all packets may have arrived, all requests been made or the service failed:
these systems stop.

**Fairness, and why the code justifies it.** The scheduler of GNUnet runs
every task that is due and the core hands over every packet it does not lose:
weak fairness of those actions, never of a client's or a browser's decision,
a loss, a restart, a refusal or a disconnect. In `Communication` the
transport serves every request unless `Stalls`; in `ClientSession` it serves a request
or gives it up, at either end; in `FloodingOutput` the core
serves a request or gives it up, and an iteration over peers goes on, whichever
peer it comes to. In `CliClient` the client's event loop runs and a service that
is there takes the command; nothing makes it answer a search. In `WebClient` serving a
request and running the tasks are disabled while the loop is in its other
phase, hence strong fairness; a page that is open keeps polling.
`Arrives` and `ResultsShown` depend on nothing else.

### Findings

1. `SizeMatches` (`communication/communication.c:193`): GNUnet's refusal of a
   second request is not looked at, so a fragment in the middle is dropped, the
   others arrive, and the receiver hands over a buffer shorter than its message;
   both receivers assert that it is not.
2. `SessionKept` (`client-communication.c:209`): the disconnect handler flushes
   the session whichever client disconnected, also one that was refused; its
   comment assumes there is only one.
3. `ClientThere` (`client-communication.c:200`): an answer that arrives after
   the client's disconnect is transmitted to a NULL client.

Seen while modelling, without a run of their own: known results are listed
again, because the `continue` at `gnunet-search-web.c:264` continues the inner
loop (`ReceiveResponse` of `WebClient` appends all); the copy of a request leaks
when its ttl has run out (`flooding.c:570`, `EndOfTTL`); the command line client
waits for ever when its file holds no URL or the service has gone or refuses it
(`Answered` names these cases); two transmits in a row give
GNUnet two requests although the comment at `communication.c:54` says messages
are sent one after one; when GNUnet gives up on a request, nobody schedules the
next transmission (`communication.c:182`) and what is queued waits for the next
`transmit`; an answer whose mapping is gone is sent with id 0, which the command
line client also chose for its own request (`client-communication.c:313`,
`gnunet-search.c:167`); the ids of the web front end wrap at 2^16 while the list
grows on (`gnunet-search-web.c:317`); `client-util.c:81` reallocates the array of
URLs with the number of elements as its size in bytes, so a file of more than 32
URLs overruns it (`overrun` in `UrlFile`, which `InBounds` excludes with
`Small`); at the end of a file without a final newline `client-util.c:73`
compares a byte that was not read, and the last URL may lose its last byte
(`UrlsArrive` allows for that byte and nothing else);
a URL that is not UTF-8 is not shown and makes its page repeat others
(`gnunet-search-web.c:287`, `Encoded`).

What is assumed of the external code: GNUnet's core and transport give a request
up without calling back, timers run in the order of their deadlines, a
connection keeps the order of what it carries, and the core never drops a packet
it has handed over.

Checks that the messages of this program pass are left out, with a comment at the
action: the assertions at `communication.c:282` and `flooding.c:537` and the first of
`gnunet-search-web.c` (`:234`), that a fragment, a packet or a response holds its
headers; the search for the keyword's end at `flooding.c:419`, as every keyword is sent
with its terminator; and the assertion at `communication.c:129` on what GNUnet's
callback promises. The assertions that a message has the size in its header may fail:
that of `client-communication.c:141` is `failure` in `ClientSession`, and those of the
clients (`gnunet-search.c:81`, `gnunet-search-web.c:240`) are `SizeMatches` in
`Communication`; `CliClient` and `WebClient` take responses as whole.

## 4. Proofs

All for any values of the constants that satisfy the modules' assumptions.

| theorem | establishes |
|---|---|
| `FloodingProofs!TypeCorrect` | types; no packet in flight has ttl 0 or one that wrapped |
| `FloodingProofs!RoutingTablesSound` | a ring holds no flow twice and uses no unwritten slot |
| `FloodingProofs!AnswersMatch` | clients get answers to their own searches only, from peers that indexed the keyword |
| `FloodingProofs!Implementation` | `Flooding` implements `SearchService` |
| `FloodingProofs!RoutesLead` | with room for every flow, routes lead from peer to peer to the one that searches |
| `FloodingProofs!ResponsesGet` | with room, a response always finds a route |
| `FloodingProofs!AnswersOnce` | with room, no result is delivered twice to a search |
| `FloodingProofs!RequestsProcessedOnce` | with room, no peer processes a request again (an action property) |
| `FloodingProofs!PacketsUsedUp` | what is sent uses up a packet of its flow with more ahead, unless a search starts |
| `FloodingOutputProofs!OutputTypes` | types |
| `FloodingOutputProofs!OutputNeverStuck` | there are at least as many tasks as queued messages |
| `FloodingOutputProofs!OutputMemorySafe` | no packet is freed twice or while in use, no freed copy is used |
| `FloodingOutputProofs!OutputImplementsBag` | `FloodingOutput` implements `PacketBag` |
| `CommunicationProofs!MemoryIsSafe` | a fragment is freed once and not while in use |
| `CommunicationProofs!BytesStayInOrder` | no byte is delivered twice, and those of a buffer are in order, whatever is lost |
| `CommunicationProofs!ImplementsTheChannel` | unless messages overlap, GNUnet stalls or another client disconnects, `Communication` implements `MessageChannel` |
| `CommunicationProofs!SizesRight` | nor does, then, a buffer differ in size from its message |
| `ClientSessionProofs!SessionTypes` | types |
| `ClientSessionProofs!AnswersReachAsker` | a response that names a request goes to the client that made it |
| `ClientSessionProofs!SameIds` | while nobody disconnects, all answers to a search carry its id |
| `ClientSessionProofs!CommandsAreWhole` | as long as GNUnet takes every piece and nobody ends the session of another, commands are whole |
| `ClientSessionProofs!ClientIsThere` | while nobody disconnects, there is a client to transmit to |
| `ClientSessionProofs!SessionIsKept` | with a single client, a session ends only when it goes (an action property) |
| `IndexingProofs!IndexingTypes` | types; no parameter is lowered below zero |
| `IndexingProofs!CrawlStaysNear` | only pages within two links of an added one are indexed |
| `IndexingProofs!ListedOnce` | no keyword lists a page twice |
| `IndexingProofs!RepliesAreRight` | a reply names only pages with the word, the oldest first, as many as fit |
| `IndexingProofs!CrawlsUsedUp` | a put is for a URL added now, or uses up one with a higher parameter |
| `CliClientProofs!UrlsGetThere` | unless reading overran its arrays, the service gets the lines of a file in order, but perhaps for the last byte of an unterminated one |
| `CliClientProofs!UrlsInBounds` | reading stays in its buffers for files for which the array need not grow (`Small`) |
| `CliClientProofs!CliTypes` | types; no more results are shown than were sent |
| `CliClientProofs!ListensToOne` | GNUnet is asked to receive exactly once at a time |
| `WebClientProofs!WebTypes` | types, also when the ids wrap |
| `WebClientProofs!InOrder` | a page shows its query's results from the first on, without gap or repetition, if all can be encoded |
| `WebClientProofs!Own` | a page shows only what was answered under its id |

**Flooding.** `AnswersMatchSearch` is not inductive: whether a response may be
delivered depends on the table and on the packet. The invariant adds
`Provenance`: every packet in flight carries the keyword of its flow's search,
every response a result that was indexed, and every live routing entry that is
marked as an own request lies at the node that searches. It holds when tables
overflow because an overwritten route is only ever learned again from a request
packet, and those mark no route as own. It needs `RoutingTableSound`, because
`Lookup` returns the entry it claims to only if no flow is in the ring twice.
`FlowTableProofs` holds the ring's lemmas, for every size: what `Insert`
keeps and what `Lookup` finds. The refinement follows from the invariant:
a step that delivers maps to `SearchService!Deliver`, `StartSearch` to
`Start`, `Index` to `Index`, everything else stutters.

**Routes.** `RoutesLeadHome`, `ResponsesGetHome`, `AnswerOnce` and `ProcessedOnce`
suppose `Roomy`: finitely many flows, no more than the ring has entries, and no
restart. Then `Insert` evicts nothing (`FlowTableProofs!RoomForNewFlow`,
`InsertKeeps`): a full ring without repetitions would inject its entries into the
flows other than the new one, and there are too few. The invariant (`Home`) relates
routes and packets by the ttl with which a peer processed a request (the history
variable `accepted`): a peer has a route for the flows it processed, to a neighbour
that processed them with one more ttl (`RoutesKnown`); a request in flight comes
from such a neighbour (`RequestsOut`); a response is at a peer that processed its
request, and has lost as much ttl as the request on the way from there to its holder
(`ResponsesOut`), so the ttl, which decreases along a route, leads home and lasts;
answers come from peers that processed the request (`AnswersFrom`); and of a
response there is one copy, which was not delivered (`OnlyCopies`).

**FloodingOutput.** The invariant adds to `TypeOK`, `NeverStuck` and `MemorySafe`
that the packets of a message that was not sent, or that its iteration has yet to
reach, are nowhere (`Fresh`) and that the core holds a packet once, for the peer it
is bound to, no longer than `MaxDelay` (`RequestsSound`): that is why the free task
a second later frees nothing that is in use. For the refinement each step is shown
to send, to deliver, to lose or to leave the three parts of `InFlight` together as
they are; that they are disjoint comes from `Fresh` and `MemorySafe`.

**Communication.** `MemorySafe` needs two additions of the same kind:
`AskedInTime`, the free task of the fragment GNUnet holds has not run for longer
than `MaxDelay`, and `Untouched`, the fragments of a message that was not
transmitted are nowhere. Fragments are heap blocks, told apart by what they hold:
`FragmentsDiffer` proves that no two parts of messages are equal, because each
starts with a byte of its own (an argument about `\div`, in `PartsCover`).

`BytesInOrder` speaks of what was delivered; a byte gets there through three
places, the connection, GNUnet's request and the queue, which one after the other
hold what is under way (`UnderWay`). The invariant (`OrderInv`) says that buffers,
the fragments kept and what is under way follow each other: every byte of one is
earlier than every byte of what comes after it, and no two buffers share one. Every
step appends the parts of a new message, takes a fragment out of the middle (a
refusal, a timeout), hands over the first, or empties all (`StepUnderWay`), and
each of these keeps the order.

For the refinement nothing may be missing: with one message at a time there is
one task or one request (`OneRequest`), so nothing is refused, and without stalls
nothing is given up. Then (`ChannelInv`) what was delivered are the first messages
sent, what is kept is the beginning of the next one, and what is under way is the
rest, part after part (`Remaining`). Nor may another client disconnect, which
would flush what is queued or kept (`~Others`). The hypotheses are what the component
relies on and does not enforce: the runs `communication_overlap` and
`communication_size` show what happens without them. `SizesRight` says from the other
side that the finding on `SizeMatches` has no other cause.

**Indexing.** A put with parameter 2, 1 or 0 is of a URL at most 0, 1 or 2 links
from an added one (`PutsNear`); following a link and lowering the parameter keeps
that. For `RepliesRight` the invariant adds that pages are stored under their
keywords only (`StoredUnderKeywords`); two words with the same keyword differ by
the case of letters (`SameNormalized`, byte by byte); and the largest beginning of a
list that fits exists, fits, and cannot be longer (`SerializedIs`).

**CliClient.** The steps of the client are steps of `UrlFile` or leave its
variables alone, so the invariants about the file are proved once for both. For
`UrlsArrive`, while the file is read, the lines in the array, the line read so far
and the rest of the file are the file (`ReadSoFar`); afterwards the array is
complete, and the URLs parsed followed by those the command still holds are the
array (`ToParse`). Parsing finds the first terminator because no byte of a URL
is one. For `InBounds` the array has one URL per newline that was read (`RoomInv`).
`ListensOnce` is inductive once nothing is asked for before there is a connection
(`ListenInv`); that no more is shown than sent counts the results that are on their
way as well (`ShownInv`).

**Recursive functions.** What was put together from fragments or strings
(`FlattenSeq` of the community modules) and the sizes of URLs added up are
recursive functions, and the library's induction theorems, which take a predicate
as a parameter, cannot be used here. Their lemmas argue with a smallest
counterexample instead: a set of naturals that is not empty has a smallest
element (`Smallest`, from `WFMin` and the well-foundedness of the naturals). In that
way the functions are shown to exist, to agree on sequences that begin alike, and
to go on by one element when a sequence does. The lemmas on `FlattenSeq` are in
`CommunicationProofs` and again in `CliClientProofs`; those on `Encoded` are in
`WebClientProofs`.

**WebClient.** While the ids last they are positions in the list of queries
(`Counted`, `PagesFit`), so that a page polls its own query, what it shows together
with what is on its way to it is the beginning of that query, and all of that query
came in under the page's id (`Follows`). `Encoded` is a recursive function, of which
the proof needs that it exists (`EncodesExists`), that what it leaves are elements of
the list (`EncodedElements`), and that it leaves all when all can be encoded.

**ClientSession.** `AnswersToAsker` speaks of what arrived; the invariant adds
that the mappings in use, the responses in the queue and those GNUnet is asked to
transmit belong to the client they are for (`MappingsBelong`, `OutputBelongs`,
`RepliesBelong`). The step that matters is
`Disconnect`: it flushes mappings and queue, so a new client starts with neither, and
the request to GNUnet that it leaves is for the client of the old session. That also
shows why the mutant that keeps the mappings breaks it.
`SameIdForEveryAnswer` is about a session that nobody disturbs: with room for every
search, one that was asked is mapped to its id from then on (`AskedMapped`).

`CommandsWhole` holds over any sessions. What a client has on the connection, with
GNUnet and in its queue, in this order, is a stream of pieces (`Stream`), and the
invariant (`CommandsFollow`) says of every client that is not being closed that the two
pieces of each of its adds follow each other there, where the first may already be what
the service keeps. Every step appends a request, hands a piece on within the stream, or
takes its head; a piece that GNUnet refuses or gives up would be taken out of the middle,
which the hypothesis `PiecesKept` excludes; a refused client is closed and its stream
with it; and a flush leaves nothing kept, which is right for the client that goes and
wrong for one that stays (`~cut`).

`ClientIsThere` and `SessionIsKept` are the other side of the findings on
`ClientThere` and `SessionKept`: what the code takes for granted holds until
somebody disconnects, and as long as there is a single client.

**Model-checked only.** All liveness (`Quiescence`, `SearchComplete`, `Drained`,
`Arrives`, `NothingLeaks`, `Acknowledged`, `CrawlEnds`, `Findable`, `Answered`,
`ResultsShown`): the proof system has no rule for fairness that its backends can
use here. Every invariant, action property and refinement that a passing run
checks is proved as well. Two theorems give the safety half of a liveness
property: `PacketsUsedUp` (for `Quiescence`, with any overflow, loss and restarts)
and `CrawlsUsedUp` (for `CrawlEnds`) show that a step adds packets or puts only by
using up one that had more ahead of it, or when a client starts something; what
clients start is bounded. That every packet and put is handled in the end is
fairness.

## 5. Not modelled

- The final release of everything when a service stops
  (`gnunet_search_flooding_free` and its like): nothing follows it. A restart loses
  what was in memory.
- Templates, static files and HTTP statuses of the web server.
- The chance that `rand()` draws a flow id twice: every search has a flow of its
  own.
- The size of keywords: the assertion at `flooding.c:641` has no counterpart.
- A composition of sessions, flooding and indexing in one state machine. The
  parts meet in few places (a search started by a session, a reply taken from the
  storage, an answer handed back), each of which is an input or an output of the
  modules; a product of their states is beyond TLC without bounds that leave
  nothing of each part.
- External code: the DHT, the core, the transport, the crawler, the collections
  and browsers appear as the code uses them.
- `search_api` is an empty template; build files and translations have no runtime
  behaviour.

## 6. Order of the work

The modules were written in this order, the most important behaviour first:
`FlowTable` and `Flooding` refining `SearchService`, with proofs; `Communication`
refining `MessageChannel`; `ClientSession`, with proofs; `Indexing`, `UrlFile` and
`WebClient`; `FloodingOutput` refining `PacketBag`, with proofs; `CliClient`; the
theorems on routes, sessions, fragments, crawling and pages; those on
the order of bytes and the channel, on the command line client and its files, and
on replies; those that delimit the findings.

Left: nothing that is safety; liveness stays with TLC.

## 7. Running

    tlc -config FloodingRoutes.cfg MCFlooding
    tlapm FloodingProofs.tla

Each run takes at most two minutes, each proof module less than two.
