------------------------------- MODULE Indexing -------------------------------
(***************************************************************************)
(* How the keywords of web pages get into the storages of the peers        *)
(* (service/dht, service/url-processor, service/normalization and          *)
(* service/storage): a URL a client adds is put into the DHT; a peer that  *)
(* sees the put crawls the page, puts the URLs it links to and stores the  *)
(* page under its keywords.                                                *)
(*                                                                         *)
(* The DHT, the crawler and the collections are external.  The DHT shows   *)
(* a put to the monitors of at least one peer; the crawler returns the     *)
(* links and the words of a page, which do not change.  Strings that are   *)
(* parsed back unchanged (the key "search:url:<parameter>:<url>") are      *)
(* records; words are sequences of bytes because their case matters.       *)
(***************************************************************************)
EXTENDS Integers, Sequences

LOCAL INSTANCE SequencesExt

CONSTANTS Node,       \* the peers
          Url,        \* the URLs
          Links,      \* per URL: the URLs its page links to
          Words,      \* per URL: the words of its page as they are written
          Length,     \* per URL: its length
          Addable,    \* bound: the URLs clients add, each once between two restarts
          Restartable,\* bound: the peers that may restart, each once
          MaximalSize \* how much a response of the flooding component holds

Byte == 0 .. 255

ASSUME IndexingAssumption ==
    /\ Links \in [Url -> SUBSET Url]
    /\ \A u \in Url : Words[u] \subseteq Seq(Byte)
    /\ Length \in [Url -> Nat]
    /\ Addable \subseteq Url
    /\ Restartable \subseteq Node
    /\ MaximalSize \in Nat

VARIABLES
    puts,    \* the puts a peer's monitor has yet to handle; one it sees again
             \* before that counts once
    storage, \* per node and keyword: the array list of URLs; empty: no such key
    added,   \* history: the URLs that clients added
    since,   \* history: those they added since the last restart of a peer
    restarted\* history: the peers that restarted

vars == <<puts, storage, added, since, restarted>>

-------------------------------------------------------------------------------

\* Mutant: one letter too few is taken for upper case.
NormalizedMissesA(word) ==
    [i \in DOMAIN word |-> IF word[i] \in 66 .. 90 THEN word[i] + 32 ELSE word[i]]

\* 'A' .. 'Z' become 'a' .. 'z'; every other byte stays.
Normalized(word) ==
    [i \in DOMAIN word |-> IF word[i] \in 65 .. 90 THEN word[i] + 32 ELSE word[i]]

Keywords(u) == {Normalized(w) : w \in Words[u]}

Keyword == UNION {Keywords(u) : u \in Url}

\* Mutant: the values of a known key are not searched.
KeyValueAddBlindly(values, value) == Append(values, value)

KeyValueAdd(values, value) ==
    IF value \in ToSet(values) THEN values ELSE Append(values, value)

\* Mutant: a URL counts without its terminator.
SizeWithoutTerminator(u) == Length[u]

SizeOf(u) == Length[u] + 1

\* URLs are written until the first that does not fit.
Serialized(values) ==
    LET size[i \in 0 .. Len(values)] == IF i = 0 THEN 0 ELSE size[i - 1] + SizeOf(values[i])
        fits == {i \in 0 .. Len(values) : size[i] <= MaximalSize}
    IN  SubSeq(values, 1, CHOOSE i \in fits : \A j \in fits : j <= i)

\* What n answers to a search for word: nothing when it has no such keyword.
Reply(n, word) ==
    IF Normalized(word) \in Keyword THEN Serialized(storage[n][Normalized(word)]) ELSE <<>>

\* The parameter a client's URLs are put with.
Depth == 2

Put == [at: Node, url: Url, parameter: 0 .. Depth]

\* The ways the DHT may show puts of urls to the peers: each URL to at least one.
Shown(urls, parameter) ==
    {{[at |-> s[1], url |-> s[2], parameter |-> parameter] : s \in seen} :
        seen \in {S \in SUBSET (Node \X urls) : \A u \in urls : \E s \in S : s[2] = u}}

\* Mutants: the parameter is not lowered; the last level is followed as well.
FollowedUndiminished(p) ==
    IF p.parameter > 0 THEN Shown(Links[p.url], p.parameter) ELSE {{}}

FollowedBelowZero(p) == Shown(Links[p.url], p.parameter - 1)

\* The links of a page are put with a lowered parameter, until it is zero.
Followed(p) ==
    IF p.parameter > 0 THEN Shown(Links[p.url], p.parameter - 1) ELSE {{}}

-------------------------------------------------------------------------------

Init ==
    /\ puts = {}
    /\ storage = [n \in Node |-> [k \in Keyword |-> <<>>]]
    /\ added = {} /\ since = {} /\ restarted = {}

\* A client's add command: gnunet_search_dht_url_list_put(urls, urls_length, 2).
UrlListPut(urls) ==
    /\ urls # {} /\ urls \subseteq Addable \ since
    /\ added' = added \cup urls /\ since' = since \cup urls
    /\ \E new \in Shown(urls, Depth) : puts' = puts \cup new
    /\ UNCHANGED <<storage, restarted>>

\* The DHT monitor of a peer sees a put: the page is crawled, its links are put,
\* and it is stored under each of its keywords.
IncomingUrlProcess(p) ==
    /\ \E new \in Followed(p) : puts' = (puts \ {p}) \cup new
    /\ storage' = [storage EXCEPT ![p.at] =
          [k \in Keyword |-> IF k \in Keywords(p.url) THEN KeyValueAdd(@[k], p.url) ELSE @[k]]]
    /\ UNCHANGED <<added, since, restarted>>

\* A peer crashes or is stopped, and starts again: its storage was only in memory,
\* and its monitor misses the puts it was shown meanwhile.
Restart(n) ==
    /\ n \in Restartable \ restarted
    /\ storage' = [storage EXCEPT ![n] = [k \in Keyword |-> <<>>]]
    /\ puts' = {p \in puts : p.at # n}
    /\ restarted' = restarted \cup {n}
    /\ since' = {}
    /\ UNCHANGED added

Next ==
    \/ \E urls \in SUBSET Url : UrlListPut(urls)
    \/ \E p \in puts : IncomingUrlProcess(p)
    \/ \E n \in Node : Restart(n)

Spec == Init /\ [][Next]_vars

\* The DHT calls the monitor of every peer it shows a put to.
Fairness == \A p \in Put : WF_vars(p \in puts /\ IncomingUrlProcess(p))

FairSpec == Spec /\ Fairness

-------------------------------------------------------------------------------
(***************************************************************************)
(* Properties                                                              *)
(***************************************************************************)

TypeOK ==
    /\ puts \subseteq Put
    /\ storage \in [Node -> [Keyword -> Seq(Url)]]
    /\ added \subseteq Addable /\ since \subseteq added /\ restarted \subseteq Restartable

\* The URLs at most one link away from urls; at most Depth links away.
Linked(urls) == urls \cup UNION {Links[u] : u \in urls}

Nearby(urls) == Linked(Linked(urls))

\* Crawling stays within two links of what clients added, round every cycle of
\* links and whichever way a page was reached first.
IndexedNearby ==
    \A n \in Node, k \in Keyword : ToSet(storage[n][k]) \subseteq Nearby(added)

\* A page that is crawled again, over another path or by another put, is not stored
\* under a keyword again.
NoUrlTwice ==
    \A n \in Node, k \in Keyword : \A i, j \in DOMAIN storage[n][k] :
        storage[n][k][i] = storage[n][k][j] => i = j

\* Two words are the same but for the case of their letters.
SameWord(v, w) ==
    /\ DOMAIN v = DOMAIN w
    /\ \A i \in DOMAIN v : \/ v[i] = w[i]
                           \/ v[i] \in 65 .. 90 /\ w[i] = v[i] + 32
                           \/ w[i] \in 65 .. 90 /\ v[i] = w[i] + 32

AllWords == UNION {Words[u] : u \in Url}

\* The bytes that urls take with their terminators.
Total(urls) ==
    LET total[i \in 0 .. Len(urls)] ==
            IF i = 0 THEN 0 ELSE total[i - 1] + (Length[urls[i]] + 1)
    IN  total[Len(urls)]

\* A search finds a page only if the searched word is on it, in whatever case; the
\* reply fits into a message, consists of whole URLs, the oldest first, and leaves
\* out no URL for which there was room.
RepliesRight ==
    \A n \in Node, w \in AllWords :
        LET reply == Reply(n, w)
            all   == storage[n][Normalized(w)]
        IN  /\ \A u \in ToSet(reply) : \E v \in Words[u] : SameWord(v, w)
            /\ IsPrefix(reply, all)
            /\ Total(reply) <= MaximalSize
            /\ reply # all => Total(SubSeq(all, 1, Len(reply) + 1)) > MaximalSize

\* The crawl that an add command starts comes to an end.
CrawlEnds == puts # {} ~> puts = {}

\* A page within two links of an added one gets found under each of its words,
\* however the word is capitalised, by a peer that has seen a put of it.  A restart
\* may lose it; to add the URL again is enough to get it back.
Findable ==
    \A u \in Url : \A w \in {x \in AllWords : \E v \in Words[u] : SameWord(v, x)} :
        u \in Nearby(since) ~>
            \/ \E n \in Node : u \in ToSet(storage[n][Normalized(w)])
            \/ since = {}
===============================================================================
