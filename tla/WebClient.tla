------------------------------ MODULE WebClient ------------------------------
(***************************************************************************)
(* The web front end (web-client/gnunet-search-web.c): a web server that   *)
(* hands searches to the service, collects the results per query, and      *)
(* serves them to pages that poll for them (www/result_loader.js).         *)
(*                                                                         *)
(* The server runs in the event loop of GNUnet: a task that blocks in      *)
(* select() until there is an HTTP request and schedules itself again.     *)
(* Only between two of these does the loop run the other tasks, those that *)
(* talk to the service among them.  Browsers and the service are external: *)
(* a page keeps polling until it is closed, the service answers a search   *)
(* under the id it came with, or under 0 when it has forgotten it.         *)
(***************************************************************************)
EXTENDS Integers, Sequences

LOCAL INSTANCE SequencesExt

CONSTANTS Page,      \* bound: the pages that get opened, each for one search
          Closable,  \* bound: those of them that get closed
          Result,    \* URLs
          Utf8,      \* those of them that are valid UTF-8
          Answers,   \* bound: the lists of URLs that peers answer with, one by one
          IdSpace,   \* an id is an unsigned short: 2^16
          NoQuery    \* a page whose search has not been served; NULL

ASSUME WebClientAssumption ==
    /\ Answers \in Seq(Seq(Result)) /\ Utf8 \subseteq Result
    /\ IdSpace \in Nat \ {0}
    /\ NoQuery \notin Nat

VARIABLES
    queries, \* gnunet_search_web_query_list: the results of each query
    len,     \* its length as the code counts it
    page,    \* per page: what it does, the id of its query, the results it shows,
             \* the results on their way to it
    loop,    \* what the event loop does: select, or run the other tasks
    outbox,  \* the ids of the searches to be transmitted to the service
    asked,   \* the ids of the searches the service got
    inbox,   \* the responses of the service that were not yet received
    query,   \* history: per page, the position of its query in the list
    found,   \* history: per query, the results received under its id
    answered \* history: how many answers the service sent

vars == <<queries, len, page, loop, outbox, asked, inbox, query, found, answered>>

-------------------------------------------------------------------------------

\* Mutants: the list is not walked but taken from its end; the last query is not
\* found.
LookupLast(id) ==
    IF id = 0 \/ len < id THEN NoQuery ELSE len

LookupQueryButLast(id) ==
    IF id = 0 \/ len <= id THEN NoQuery ELSE id

\* gnunet_search_web_lookup_query: the position of the query with an id.
LookupQuery(id) ==
    IF id = 0 \/ len < id THEN NoQuery ELSE id

\* Of a URL that is not UTF-8 json_string makes NULL, which is not appended.
Encoded(urls) ==
    LET upTo[n \in 0 .. Len(urls)] ==
            IF n = 0 THEN <<>>
            ELSE IF urls[n] \in Utf8 THEN Append(upTo[n - 1], urls[n]) ELSE upTo[n - 1]
    IN  upTo[Len(urls)]

\* Mutant: the offset is taken for the first result to send.
RenderedFromOffset(id, offset) ==
    IF LookupQuery(id) = NoQuery THEN <<>>
    ELSE Encoded(SubSeq(queries[LookupQuery(id)], IF offset = 0 THEN 1 ELSE offset,
                        Len(queries[LookupQuery(id)])))

\* gnunet_search_web_render_results: what the query has from offset on.
Rendered(id, offset) ==
    IF LookupQuery(id) = NoQuery THEN <<>>
    ELSE Encoded(SubSeq(queries[LookupQuery(id)], offset + 1,
                        Len(queries[LookupQuery(id)])))

\* Mutant: the number of queries outgrows the ids.
NextIdWide == len + 1

NextId == (len + 1) % IdSpace

-------------------------------------------------------------------------------

Init ==
    /\ queries = <<>> /\ len = 0
    /\ page = [p \in Page |-> [state |-> "new", id |-> 0, shown |-> <<>>, reply |-> <<>>]]
    /\ loop = "select"
    /\ outbox = <<>> /\ asked = {} /\ inbox = <<>>
    /\ query = [p \in Page |-> NoQuery]
    /\ found = <<>> /\ answered = 0

\* A browser asks for the page of a search.
OpenPage(p) ==
    /\ page[p].state = "new"
    /\ page' = [page EXCEPT ![p].state = "opening"]
    /\ UNCHANGED <<queries, len, loop, outbox, asked, inbox, query, found, answered>>

\* The page is gone; a request it has open is not served.
ClosePage(p) ==
    /\ p \in Closable /\ page[p].state \notin {"new", "closed"}
    /\ page' = [page EXCEPT ![p] = [state |-> "closed", id |-> 0, shown |-> <<>>, reply |-> <<>>]]
    /\ UNCHANGED <<queries, len, loop, outbox, asked, inbox, query, found, answered>>

\* GET /?q=: gnunet_search_web_start_search appends a query, numbers it, queues
\* the search for transmission, and the page is rendered with the id.
StartSearch(p) ==
    /\ loop = "select" /\ page[p].state = "opening"
    /\ loop' = "tasks"
    /\ queries' = Append(queries, <<>>)
    /\ len' = NextId
    /\ outbox' = Append(outbox, len')
    /\ page' = [page EXCEPT ![p].state = "waiting", ![p].id = len']
    /\ query' = [query EXCEPT ![p] = Len(queries')]
    /\ found' = Append(found, {})
    /\ UNCHANGED <<asked, inbox, answered>>

\* load_results sends a request for the results from its offset on.
Poll(p) ==
    /\ page[p].state = "waiting"
    /\ page' = [page EXCEPT ![p].state = "polling"]
    /\ UNCHANGED <<queries, len, loop, outbox, asked, inbox, query, found, answered>>

\* GET /results: the reply lists the results of the query from the offset on.
RenderResults(p) ==
    /\ loop = "select" /\ page[p].state = "polling"
    /\ loop' = "tasks"
    /\ page' = [page EXCEPT ![p].state = "loading",
                            ![p].reply = Rendered(page[p].id, Len(page[p].shown))]
    /\ UNCHANGED <<queries, len, outbox, asked, inbox, query, found, answered>>

\* The reply arrives: every result is appended to the page and counted, and the
\* timer of the next poll is set.
LoadResults(p) ==
    /\ page[p].state = "loading"
    /\ page' = [page EXCEPT ![p].state = "waiting", ![p].reply = <<>>,
                            ![p].shown = page[p].shown \o page[p].reply]
    /\ UNCHANGED <<queries, len, loop, outbox, asked, inbox, query, found, answered>>

\* The other tasks have run; gnunet_search_web_process_requests selects again.
ProcessRequests ==
    /\ loop = "tasks"
    /\ loop' = "select"
    /\ UNCHANGED <<queries, len, page, outbox, asked, inbox, query, found, answered>>

\* A queued search goes to the service, or is lost when GNUnet has another one to
\* transmit (communication.c:193).
TransmitSearch ==
    /\ loop = "tasks" /\ outbox # <<>>
    /\ outbox' = Tail(outbox)
    /\ asked' \in {asked, asked \cup {Head(outbox)}}
    /\ UNCHANGED <<queries, len, page, loop, inbox, query, found, answered>>

\* The service answers a search, or one it no longer has the id of.
AnswerSearch(id) ==
    /\ id \in asked \cup {0} /\ asked # {}
    /\ answered < Len(Answers)
    /\ answered' = answered + 1
    /\ inbox' = Append(inbox, [id |-> id, urls |-> Answers[answered']])
    /\ UNCHANGED <<queries, len, page, loop, outbox, asked, query, found>>

\* A response arrives: its URLs are appended to the query it belongs to (the
\* continue that is to skip a known one continues the inner loop).  It is whole, as
\* lines 234 and 240 assert; when it might not be is a question to Communication.
ReceiveResponse ==
    /\ loop = "tasks" /\ inbox # <<>>
    /\ inbox' = Tail(inbox)
    /\ LET r == Head(inbox)
           i == LookupQuery(r.id)
       IN  /\ queries' = IF i = NoQuery THEN queries ELSE [queries EXCEPT ![i] = @ \o r.urls]
           /\ found' = [j \in DOMAIN found |->
                 found[j] \cup
                   IF \E p \in Page : query[p] = j /\ page[p].id = r.id /\ r.id # 0
                   THEN ToSet(r.urls) ELSE {}]
    /\ UNCHANGED <<len, page, loop, outbox, asked, query, answered>>

Next ==
    \/ \E p \in Page : OpenPage(p) \/ ClosePage(p) \/ StartSearch(p) \/ Poll(p)
                       \/ RenderResults(p) \/ LoadResults(p)
    \/ ProcessRequests
    \/ TransmitSearch
    \/ \E id \in 0 .. IdSpace - 1 : AnswerSearch(id)
    \/ ReceiveResponse

Spec == Init /\ [][Next]_vars

\* The timer of a page fires and its replies arrive.  The server serves every
\* request, but only while it selects; the loop runs the tasks that are ready, but
\* only between two selects: both are enabled again and again at best.
Fairness ==
    /\ \A p \in Page : /\ WF_vars(Poll(p) \/ LoadResults(p))
                       /\ SF_vars(StartSearch(p) \/ RenderResults(p))
    /\ WF_vars(ProcessRequests)
    /\ SF_vars(TransmitSearch \/ ReceiveResponse)

FairSpec == Spec /\ Fairness

-------------------------------------------------------------------------------
(***************************************************************************)
(* Properties                                                              *)
(***************************************************************************)

PageState == [state: {"new", "opening", "waiting", "polling", "loading", "closed"},
              id: 0 .. IdSpace - 1, shown: Seq(Result), reply: Seq(Result)]

TypeOK ==
    /\ queries \in Seq(Seq(Result))
    /\ len \in 0 .. IdSpace - 1
    /\ page \in [Page -> PageState]
    /\ loop \in {"select", "tasks"}
    /\ outbox \in Seq(0 .. IdSpace - 1) /\ asked \subseteq 0 .. IdSpace - 1
    /\ inbox \in Seq([id: 0 .. IdSpace - 1, urls: Seq(Result)])
    /\ query \in [Page -> {NoQuery} \cup DOMAIN queries]
    /\ DOMAIN found = DOMAIN queries
    /\ answered \in 0 .. Len(Answers)

Served == {p \in Page : query[p] # NoQuery}

\* The ids have not run out.
Numbered == Len(queries) < IdSpace

\* What a page shows is what its query has, from the first result on without a gap
\* or a repetition, however results and polls interleave.  (A result that cannot be
\* encoded is not counted by the page, which then gets others again.)
ShownInOrder ==
    Numbered => \A p \in Served :
        ToSet(queries[query[p]]) \subseteq Utf8 =>
            IsPrefix(page[p].shown \o page[p].reply, queries[query[p]])

\* A page shows only what the service answered under the id of its search.
OwnResults ==
    Numbered => \A p \in Served : ToSet(page[p].shown) \subseteq found[query[p]]

\* What the service answered to the search of p, received or not.
AnsweredTo(p) ==
    found[query[p]] \cup
        UNION {ToSet(inbox[i].urls) : i \in {j \in DOMAIN inbox : inbox[j].id = page[p].id}}

\* What the service answers to the search of a page gets shown while the page is
\* open and the ids suffice, if it can be encoded: the polls of the page also keep
\* the event loop going, and what cannot be encoded holds up nothing else.
ResultsShown ==
    \A p \in Page : []<>(page[p].id # 0 /\ Numbered =>
                            AnsweredTo(p) \cap Utf8 \subseteq ToSet(page[p].shown))
=============================================================================
