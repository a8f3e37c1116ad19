---------------------------- MODULE WebClientProofs ----------------------------
(***************************************************************************)
(* A page of the web front end shows its own results, in order, for any    *)
(* pages, results and answers and any number of ids, while they last.      *)
(***************************************************************************)
EXTENDS WebClient, SequenceTheorems, TLAPS

LOCAL INSTANCE SequencesExt
LOCAL INSTANCE WellFoundedInduction

-------------------------------------------------------------------------------
(***************************************************************************)
(* Sequences                                                               *)
(***************************************************************************)

\* s is the beginning of t, element by element.
Leads(s, t) == Len(s) <= Len(t) /\ \A i \in 1 .. Len(s) : s[i] = t[i]

\* That is what a prefix is.
LEMMA PrefixLeads ==
    ASSUME NEW S, NEW s \in Seq(S), NEW t \in Seq(S)
    PROVE  IsPrefix(s, t) <=> Leads(s, t)
<1>1. ASSUME Len(s) <= Len(t), NEW i \in 1 .. Len(s)
      PROVE  SubSeq(s, 1, Len(s))[i] = s[i] /\ SubSeq(t, 1, Len(s))[i] = t[i]
  BY <1>1
<1>2. ASSUME Len(s) <= Len(t)
      PROVE  /\ SubSeq(s, 1, Len(s)) = s
             /\ SubSeq(t, 1, Len(s)) \in Seq(S) /\ Len(SubSeq(t, 1, Len(s))) = Len(s)
  BY <1>2, SubSeqFull
<1> QED
  BY <1>1, <1>2, SeqEqual DEF IsPrefix, Leads

\* An element of a concatenation is one of either part.
LEMMA ConcatElements ==
    ASSUME NEW S, NEW s \in Seq(S), NEW t \in Seq(S), NEW i \in DOMAIN (s \o t)
    PROVE  \/ i \in DOMAIN s /\ (s \o t)[i] = s[i]
           \/ i - Len(s) \in DOMAIN t /\ (s \o t)[i] = t[i - Len(s)]
<1>1. Len(s) \in Nat /\ Len(t) \in Nat /\ i \in 1 .. Len(s) + Len(t)
  OBVIOUS
<1>2. CASE i <= Len(s)
  BY <1>1, <1>2
<1>3. CASE i > Len(s)
  BY <1>1, <1>3
<1> QED
  BY <1>1, <1>2, <1>3

\* What starts with s has its elements.
LEMMA LeadsFirst ==
    ASSUME NEW S, NEW s \in Seq(S), NEW t \in Seq(S), NEW w \in Seq(S), Leads(s \o t, w),
           NEW i \in DOMAIN s
    PROVE  i \in DOMAIN w /\ s[i] = w[i]
<1>1. Len(s) \in Nat /\ Len(t) \in Nat /\ Len(w) \in Nat /\ i \in 1 .. Len(s)
  OBVIOUS
<1>2. Len(s \o t) = Len(s) + Len(t) /\ (s \o t)[i] = s[i]
  BY <1>1
<1> QED
  BY <1>1, <1>2 DEF Leads

\* What leads s also leads what s grows to.
LEMMA LeadsOn ==
    ASSUME NEW S, NEW r \in Seq(S), NEW s \in Seq(S), NEW t \in Seq(S), Leads(r, s)
    PROVE  Leads(r, s \o t)
BY DEF Leads

\* The part of t that follows s completes it.
LEMMA LeadsRest ==
    ASSUME NEW S, NEW s \in Seq(S), NEW t \in Seq(S), Leads(s, t)
    PROVE  /\ SubSeq(t, Len(s) + 1, Len(t)) \in Seq(S)
           /\ Leads(s \o SubSeq(t, Len(s) + 1, Len(t)), t)
<1> DEFINE rest == SubSeq(t, Len(s) + 1, Len(t))
<1>1. /\ rest \in Seq(S) /\ Len(rest) = Len(t) - Len(s)
      /\ \A i \in 1 .. Len(rest) : rest[i] = t[Len(s) + i]
  BY DEF Leads
<1>2. Len(s \o rest) = Len(t)
  BY <1>1
<1>3. ASSUME NEW i \in 1 .. Len(t)
      PROVE  (s \o rest)[i] = t[i]
  <2>1. CASE i <= Len(s)
    BY <2>1, <1>1 DEF Leads
  <2>2. CASE i > Len(s)
    BY <2>2, <1>1
  <2> QED
    BY <2>1, <2>2
<1> QED
  BY <1>1, <1>2, <1>3 DEF Leads

-------------------------------------------------------------------------------
(***************************************************************************)
(* What can be encoded                                                     *)
(***************************************************************************)

\* The set of pairs of naturals in order, on which induction rests.
LEMMA NaturalsWellFounded ==
    IsWellFoundedOn({r \in Nat \X Nat : r[1] < r[2]}, Nat)
  BY NatLessThanWellFounded DEF OpToRel

\* A set of naturals that is not empty has a smallest element.
LEMMA Smallest ==
    ASSUME NEW T \in SUBSET Nat, T # {}
    PROVE  \E n \in T : \A m \in T : n <= m
<1> DEFINE R == {r \in Nat \X Nat : r[1] < r[2]}
<1>1. IsWellFoundedOn(R, Nat)
  BY NaturalsWellFounded
<1> HIDE DEF R
<1>2. PICK n \in T : \A m \in T : ~(<<m, n>> \in R)
  BY <1>1, WFMin
<1>3. \A m \in T : m \in Nat /\ ~(m < n)
  BY <1>2 DEF R
<1> QED
  BY <1>3

\* The equation of the function that Encoded defines recursively, up to n.
Encodes(f, s, n) ==
    f = [i \in 0 .. n |->
            IF i = 0 THEN <<>>
            ELSE IF s[i] \in Utf8 THEN Append(f[i - 1], s[i]) ELSE f[i - 1]]

\* There is such a function: the smallest n without one would have one.
LEMMA EncodesExists ==
    ASSUME NEW s, NEW l \in Nat
    PROVE  \E f : Encodes(f, s, l)
<1> DEFINE Bad == {n \in Nat : n <= l /\ ~(\E f : Encodes(f, s, n))}
<1>1. SUFFICES ASSUME Bad # {} PROVE FALSE
  OBVIOUS
<1>2. PICK n \in Bad : \A m \in Bad : n <= m
  BY <1>1, Smallest
<1>3. n # 0
  <2> DEFINE f == [i \in 0 .. 0 |-> <<>>]
  <2>1. Encodes(f, s, 0)
    BY DEF Encodes
  <2> QED
    BY <2>1
<1>4. PICK f : Encodes(f, s, n - 1)
  <2>1. n - 1 \in Nat /\ n - 1 <= l /\ ~(n <= n - 1)
    BY <1>2, <1>3
  <2>2. n - 1 \notin Bad
    BY <1>2, <2>1
  <2> QED
    BY <2>1, <2>2, Zenon
<1> DEFINE last == IF s[n] \in Utf8 THEN Append(f[n - 1], s[n]) ELSE f[n - 1]
           g == [i \in 0 .. n |-> IF i = n THEN last ELSE f[i]]
<1>5. \A i \in 0 .. n : g[i] = IF i = 0 THEN <<>>
                                ELSE IF s[i] \in Utf8 THEN Append(g[i - 1], s[i]) ELSE g[i - 1]
  <2> TAKE i \in 0 .. n
  <2>1. CASE i = n
    <3>1. i - 1 \in 0 .. n /\ i - 1 # n /\ g[i - 1] = f[i - 1]
      BY <1>3, <2>1
    <3> QED
      BY <1>3, <2>1, <3>1
  <2>2. CASE i # n
    <3>1. i \in 0 .. n - 1 /\ (i # 0 => i - 1 \in 0 .. n /\ i - 1 # n)
      BY <1>3, <2>2
    <3>2. f[i] = IF i = 0 THEN <<>>
                 ELSE IF s[i] \in Utf8 THEN Append(f[i - 1], s[i]) ELSE f[i - 1]
      BY <1>4, <3>1, Zenon DEF Encodes
    <3> QED
      BY <2>2, <3>1, <3>2
  <2> QED
    BY <2>1, <2>2
<1> HIDE DEF g
<1>6. g = [i \in 0 .. n |-> g[i]]
  BY DEF g
<1>7. Encodes(g, s, n)
  BY <1>5, <1>6, Zenon DEF Encodes
<1> QED
  BY <1>2, <1>7

\* What is encoded of s is a sequence of elements of s, and all of s if that is UTF-8.
LEMMA EncodedElements ==
    ASSUME NEW S, NEW s \in Seq(S)
    PROVE  /\ Encoded(s) \in Seq(S)
           /\ \A i \in DOMAIN Encoded(s) : \E j \in DOMAIN s : Encoded(s)[i] = s[j]
           /\ (\A j \in DOMAIN s : s[j] \in Utf8) => Encoded(s) = s
<1> DEFINE f == CHOOSE f : Encodes(f, s, Len(s))
<1>1. Len(s) \in Nat /\ DOMAIN s = 1 .. Len(s)
  OBVIOUS
<1>2. Encodes(f, s, Len(s))
  BY <1>1, EncodesExists, Zenon
<1>3. Encoded(s) = f[Len(s)]
  BY DEF Encoded, Encodes
<1> HIDE DEF f
<1> DEFINE Fine(n) == /\ f[n] \in Seq(S) /\ Len(f[n]) <= n
                      /\ \A i \in DOMAIN f[n] : \E j \in DOMAIN s : f[n][i] = s[j]
                      /\ (\A j \in DOMAIN s : s[j] \in Utf8) => Len(f[n]) = n /\ Leads(f[n], s)
           Bad == {n \in 0 .. Len(s) : ~Fine(n)}
<1>4. Bad = {}
  <2>1. SUFFICES ASSUME Bad # {} PROVE FALSE
    OBVIOUS
  <2>2. PICK n \in Bad : \A m \in Bad : n <= m
    BY <2>1, Smallest, Bad \in SUBSET Nat
  <2>3. n \in 0 .. Len(s) /\ ~Fine(n)
    BY <2>2
  <2>4. f[n] = IF n = 0 THEN <<>>
               ELSE IF s[n] \in Utf8 THEN Append(f[n - 1], s[n]) ELSE f[n - 1]
    BY <1>2, <2>3, Zenon DEF Encodes
  <2>5. n # 0
    <3>1. <<>> \in Seq(S) /\ Len(<<>>) = 0 /\ DOMAIN <<>> = {}
      OBVIOUS
    <3>2. ASSUME n = 0 PROVE Fine(n)
      BY <1>1, <2>4, <3>1, <3>2 DEF Leads
    <3> QED
      BY <2>3, <3>2
  <2>6. Fine(n - 1)
    <3>1. n - 1 \in 0 .. Len(s) /\ ~(n <= n - 1)
      BY <1>1, <2>3, <2>5
    <3> QED
      BY <2>2, <3>1
  <2>7. s[n] \in S /\ n \in DOMAIN s
    BY <1>1, <2>3, <2>5
  <2> DEFINE e == f[n - 1]
  <2>8. /\ e \in Seq(S) /\ Len(e) <= n - 1 /\ Len(e) \in Nat
        /\ \A i \in DOMAIN e : \E j \in DOMAIN s : e[i] = s[j]
        /\ (\A j \in DOMAIN s : s[j] \in Utf8) => Len(e) = n - 1 /\ Leads(e, s)
    BY <2>6
  <2>9. f[n] = IF s[n] \in Utf8 THEN Append(e, s[n]) ELSE e
    BY <2>4, <2>5
  <2> HIDE DEF e
  <2>10. CASE s[n] \in Utf8
    <3> DEFINE t == Append(e, s[n])
    <3>1. /\ t \in Seq(S) /\ Len(t) = Len(e) + 1 /\ DOMAIN t = 1 .. Len(e) + 1
          /\ \A i \in 1 .. Len(e) : t[i] = e[i]
          /\ t[Len(e) + 1] = s[n]
      BY <2>7, <2>8
    <3>2. \A i \in DOMAIN t : i \in DOMAIN e \/ i = Len(e) + 1
      BY <2>8, <3>1
    <3>3. f[n] = t
      BY <2>9, <2>10
    <3> HIDE DEF t
    <3>4. \A i \in DOMAIN t : \E j \in DOMAIN s : t[i] = s[j]
      <4> TAKE i \in DOMAIN t
      <4>1. CASE i \in DOMAIN e
        <5>1. t[i] = e[i]
          BY <2>8, <3>1, <4>1
        <5> QED
          BY <2>8, <4>1, <5>1
      <4>2. CASE i = Len(e) + 1
        BY <2>7, <3>1, <4>2
      <4> QED
        BY <3>2, <4>1, <4>2
    <3>5. (\A j \in DOMAIN s : s[j] \in Utf8) => Len(t) = n /\ Leads(t, s)
      BY <1>1, <2>3, <2>8, <3>1, <3>2 DEF Leads
    <3>6. Len(t) <= n
      BY <2>3, <2>8, <3>1
    <3> QED
      BY <2>3, <3>1, <3>3, <3>4, <3>5, <3>6
  <2>11. CASE s[n] \notin Utf8
    <3>1. Len(e) <= n
      BY <2>3, <2>8
    <3> QED
      BY <2>3, <2>7, <2>8, <2>9, <2>11, <3>1
  <2> QED
    BY <2>10, <2>11
<1>5. Fine(Len(s))
  BY <1>1, <1>4
<1>6. (\A j \in DOMAIN s : s[j] \in Utf8) => Encoded(s) = s
  BY <1>1, <1>3, <1>5, SeqEqual DEF Leads
<1> QED
  BY <1>3, <1>5, <1>6

-------------------------------------------------------------------------------
(***************************************************************************)
(* Types                                                                   *)
(***************************************************************************)

\* The ids never outrun the list.
Counted == len <= Len(queries)

\* An id that is found is a position in the list.
LEMMA Looked ==
    ASSUME TypeOK, Counted, NEW id \in Nat, LookupQuery(id) # NoQuery
    PROVE  LookupQuery(id) = id /\ id \in DOMAIN queries /\ queries[id] \in Seq(Result)
<1>1. LookupQuery(id) = id /\ id # 0 /\ id <= len
  BY DEF LookupQuery, TypeOK
<1>2. id \in 1 .. Len(queries)
  BY <1>1 DEF TypeOK, Counted
<1> QED
  BY <1>1, <1>2 DEF TypeOK

\* What a query sends is a sequence of results.
LEMMA RenderedType ==
    ASSUME TypeOK, Counted, NEW p \in Page
    PROVE  Rendered(page[p].id, Len(page[p].shown)) \in Seq(Result)
<1>1. page[p].shown \in Seq(Result) /\ page[p].id \in Nat
  BY WebClientAssumption DEF TypeOK, PageState
<1>2. CASE LookupQuery(page[p].id) = NoQuery
  BY <1>2 DEF Rendered
<1>3. CASE LookupQuery(page[p].id) # NoQuery
  <2> DEFINE list == queries[LookupQuery(page[p].id)]
             rest == SubSeq(list, Len(page[p].shown) + 1, Len(list))
  <2>1. list \in Seq(Result)
    BY <1>1, <1>3, Looked
  <2>2. rest \in Seq(Result)
    BY <1>1, <2>1
  <2>3. Rendered(page[p].id, Len(page[p].shown)) = Encoded(rest)
    BY <1>3 DEF Rendered
  <2> HIDE DEF rest
  <2> QED
    BY <2>2, <2>3, EncodedElements
<1> QED
  BY <1>2, <1>3

\* The next id is one, and the list stays ahead of it.
LEMMA NextIdType ==
    ASSUME TypeOK, Counted
    PROVE  /\ NextId \in 0 .. IdSpace - 1
           /\ NextId <= Len(queries) + 1
           /\ len + 1 < IdSpace => NextId = len + 1
<1>1. len \in 0 .. IdSpace - 1 /\ IdSpace \in Nat \ {0}
  BY WebClientAssumption DEF TypeOK
<1>2. CASE len + 1 < IdSpace
  BY <1>1, <1>2 DEF NextId, Counted
<1>3. CASE len + 1 = IdSpace
  <2>1. NextId = 0
    BY <1>1, <1>3 DEF NextId
  <2> QED
    BY <2>1, <1>1, <1>3 DEF TypeOK
<1> QED
  BY <1>1, <1>2, <1>3

\* The initial state is well typed.
LEMMA InitTypes == Init => TypeOK /\ Counted
<1> SUFFICES ASSUME Init PROVE TypeOK /\ Counted
  OBVIOUS
<1>1. 0 \in 0 .. IdSpace - 1 /\ 0 \in 0 .. Len(Answers)
  BY WebClientAssumption
<1>2. page \in [Page -> PageState]
  BY <1>1 DEF Init, PageState
<1> QED
  BY <1>1, <1>2 DEF Init, TypeOK, Counted

\* Every step keeps the types, and the list ahead of the ids.
LEMMA StepTypes ==
    ASSUME TypeOK, Counted, [Next]_vars
    PROVE  TypeOK' /\ Counted'
<1>0. CASE UNCHANGED vars
  BY <1>0 DEF vars, TypeOK, Counted, PageState
<1>1. ASSUME NEW p \in Page, OpenPage(p) PROVE TypeOK' /\ Counted'
  <2>1. page' \in [Page -> PageState]
    BY <1>1 DEF OpenPage, TypeOK, PageState
  <2> QED
    BY <1>1, <2>1 DEF OpenPage, TypeOK, Counted
<1>2. ASSUME NEW p \in Page, ClosePage(p) PROVE TypeOK' /\ Counted'
  <2>1. [state |-> "closed", id |-> 0, shown |-> <<>>, reply |-> <<>>] \in PageState
    BY WebClientAssumption DEF PageState
  <2>2. page' \in [Page -> PageState]
    BY <1>2, <2>1 DEF ClosePage, TypeOK
  <2> QED
    BY <1>2, <2>2 DEF ClosePage, TypeOK, Counted
<1>3. ASSUME NEW p \in Page, StartSearch(p) PROVE TypeOK' /\ Counted'
  <2>1. len' = NextId /\ len' \in 0 .. IdSpace - 1 /\ len' <= Len(queries) + 1
    BY <1>3, NextIdType DEF StartSearch
  <2>2. queries' \in Seq(Seq(Result)) /\ Len(queries') = Len(queries) + 1
    BY <1>3 DEF StartSearch, TypeOK
  <2>3. page' \in [Page -> PageState]
    BY <1>3, <2>1 DEF StartSearch, TypeOK, PageState
  <2>4. outbox' \in Seq(0 .. IdSpace - 1)
    BY <1>3, <2>1 DEF StartSearch, TypeOK
  <2>5. query' \in [Page -> {NoQuery} \cup DOMAIN queries']
    BY <1>3, <2>2 DEF StartSearch, TypeOK
  <2>6. DOMAIN found' = DOMAIN queries'
    BY <1>3 DEF StartSearch, TypeOK
  <2> QED
    BY <1>3, <2>1, <2>2, <2>3, <2>4, <2>5, <2>6 DEF StartSearch, TypeOK, Counted
<1>4. ASSUME NEW p \in Page, Poll(p) PROVE TypeOK' /\ Counted'
  <2>1. page' \in [Page -> PageState]
    BY <1>4 DEF Poll, TypeOK, PageState
  <2> QED
    BY <1>4, <2>1 DEF Poll, TypeOK, Counted
<1>5. ASSUME NEW p \in Page, RenderResults(p) PROVE TypeOK' /\ Counted'
  <2>1. page' \in [Page -> PageState]
    BY <1>5, RenderedType DEF RenderResults, TypeOK, PageState
  <2> QED
    BY <1>5, <2>1 DEF RenderResults, TypeOK, Counted
<1>6. ASSUME NEW p \in Page, LoadResults(p) PROVE TypeOK' /\ Counted'
  <2> DEFINE loaded == [page EXCEPT ![p].shown = page[p].shown \o page[p].reply]
             emptied == [loaded EXCEPT ![p].reply = <<>>]
  <2>1. page[p].shown \o page[p].reply \in Seq(Result) /\ <<>> \in Seq(Result)
    BY ConcatProperties DEF TypeOK, PageState
  <2>2. loaded \in [Page -> PageState]
    BY <2>1 DEF TypeOK, PageState
  <2>3. emptied \in [Page -> PageState]
    BY <2>1, <2>2 DEF PageState
  <2>4. page' = [emptied EXCEPT ![p].state = "waiting"]
    BY <1>6 DEF LoadResults, TypeOK, PageState
  <2> HIDE DEF loaded, emptied
  <2>5. page' \in [Page -> PageState]
    BY <2>3, <2>4 DEF PageState
  <2> QED
    BY <1>6, <2>5 DEF LoadResults, TypeOK, Counted
<1>7. CASE ProcessRequests
  BY <1>7 DEF ProcessRequests, TypeOK, Counted
<1>8. CASE TransmitSearch
  <2>1. outbox' \in Seq(0 .. IdSpace - 1) /\ asked' \subseteq 0 .. IdSpace - 1
    BY <1>8, HeadTailProperties DEF TransmitSearch, TypeOK
  <2> QED
    BY <1>8, <2>1 DEF TransmitSearch, TypeOK, Counted
<1>9. ASSUME NEW id \in 0 .. IdSpace - 1, AnswerSearch(id)
      PROVE  TypeOK' /\ Counted'
  <2>1. answered' \in 1 .. Len(Answers)
    BY <1>9, WebClientAssumption DEF AnswerSearch, TypeOK
  <2>2. Answers[answered'] \in Seq(Result)
    BY <2>1, WebClientAssumption
  <2>3. inbox' \in Seq([id: 0 .. IdSpace - 1, urls: Seq(Result)])
    BY <1>9, <2>2 DEF AnswerSearch, TypeOK
  <2> QED
    BY <1>9, <2>1, <2>3 DEF AnswerSearch, TypeOK, Counted
<1>10. CASE ReceiveResponse
  <2> DEFINE r == Head(inbox)
             i == LookupQuery(r.id)
  <2>1. /\ r \in [id: 0 .. IdSpace - 1, urls: Seq(Result)]
        /\ inbox' \in Seq([id: 0 .. IdSpace - 1, urls: Seq(Result)])
    BY <1>10, HeadTailProperties DEF ReceiveResponse, TypeOK
  <2>2. r.id \in Nat /\ r.urls \in Seq(Result)
    BY <2>1, WebClientAssumption
  <2>3. queries' \in Seq(Seq(Result)) /\ Len(queries') = Len(queries) /\ DOMAIN queries' = DOMAIN queries
    <3>1. CASE i = NoQuery
      BY <1>10, <3>1 DEF ReceiveResponse, TypeOK
    <3>2. CASE i # NoQuery
      <4>1. i \in 1 .. Len(queries) /\ queries[i] \o r.urls \in Seq(Result)
        BY <2>2, <3>2, Looked DEF TypeOK
      <4>2. queries' = [queries EXCEPT ![i] = queries[i] \o r.urls]
        BY <1>10, <3>2 DEF ReceiveResponse
      <4> QED
        BY <4>1, <4>2, ExceptSeq DEF TypeOK
    <3> QED
      BY <3>1, <3>2
  <2>4. DOMAIN found' = DOMAIN queries'
    BY <1>10, <2>3 DEF ReceiveResponse, TypeOK
  <2> QED
    BY <1>10, <2>1, <2>3, <2>4 DEF ReceiveResponse, TypeOK, Counted
<1> QED
  BY <1>0, <1>1, <1>2, <1>3, <1>4, <1>5, <1>6, <1>7, <1>8, <1>9, <1>10 DEF Next

\* The lists, ids and pages of the web front end are well typed for any number of
\* pages and ids, also when the ids wrap (gnunet-search-web.c:317).
THEOREM WebTypes == Spec => []TypeOK
<1>1. (TypeOK /\ Counted) /\ [Next]_vars => (TypeOK /\ Counted)'
  BY StepTypes
<1>2. Spec => [](TypeOK /\ Counted)
  BY <1>1, InitTypes, PTL DEF Spec
<1> QED
  BY <1>2, PTL

-------------------------------------------------------------------------------
(***************************************************************************)
(* Queries and pages                                                       *)
(*                                                                         *)
(* While the ids last they are the positions of the queries, so a page     *)
(* that was served polls its own query, and what it shows and has under    *)
(* way is the beginning of that query's results.                           *)
(***************************************************************************)

AllUtf8(urls) == \A i \in DOMAIN urls : urls[i] \in Utf8

\* A page's query and what the page has of it.
Follows(p) ==
    /\ query[p] # NoQuery /\ page[p].id = query[p]
    /\ AllUtf8(queries[query[p]]) =>
          Leads(page[p].shown \o page[p].reply, queries[query[p]])
    /\ \A i \in DOMAIN queries[query[p]] : queries[query[p]][i] \in found[query[p]]
    /\ \A i \in DOMAIN page[p].shown : page[p].shown[i] \in found[query[p]]
    /\ \A i \in DOMAIN page[p].reply : page[p].reply[i] \in found[query[p]]

PageFits(p) ==
    /\ page[p].state \in {"new", "opening"} => query[p] = NoQuery
    /\ page[p].state \in {"new", "opening", "closed"} => page[p].shown = <<>>
    /\ page[p].state # "loading" => page[p].reply = <<>>
    /\ page[p].state \in {"waiting", "polling", "loading"} => Follows(p)

PagesFit == Numbered => len = Len(queries) /\ \A p \in Page : PageFits(p)

Inv == TypeOK /\ Counted /\ PagesFit

\* A page that is as it was, whose query is as it was, still fits.
LEMMA FitsOn ==
    ASSUME TypeOK, NEW p \in Page, PageFits(p),
           page'[p] = page[p], query'[p] = query[p],
           query[p] # NoQuery =>
               queries'[query[p]] = queries[query[p]] /\ found'[query[p]] = found[query[p]]
    PROVE  PageFits(p)'
BY DEF PageFits, Follows

\* At first there is no query.
LEMMA InitFits == Init => PagesFit
BY DEF Init, PagesFit, PageFits

\* No step takes a page off its query while the ids last.
LEMMA StepFits ==
    ASSUME Inv, TypeOK', [Next]_vars, Numbered'
    PROVE  len' = Len(queries') /\ \A p \in Page : PageFits(p)'
<1> USE DEF Inv
<1>n. Len(queries') >= Len(queries) => Numbered
  BY WebClientAssumption DEF Numbered, TypeOK
<1>k. ASSUME NEW p \in Page, UNCHANGED <<queries, len, query, found>>,
             \A q \in Page : q # p => page'[q] = page[q], PageFits(p) => PageFits(p)'
      PROVE  len' = Len(queries') /\ \A q \in Page : PageFits(q)'
  <2>1. Numbered /\ len = Len(queries) /\ \A q \in Page : PageFits(q)
    BY <1>k DEF Numbered, PagesFit
  <2>2. ASSUME NEW q \in Page, q # p PROVE PageFits(q)'
    BY <1>k, <2>1, <2>2, FitsOn
  <2> QED
    BY <1>k, <2>1, <2>2
<1>u. ASSUME UNCHANGED <<queries, len, page, query, found>>
      PROVE  len' = Len(queries') /\ \A q \in Page : PageFits(q)'
  BY <1>u DEF Numbered, PagesFit, PageFits, Follows
<1>0. CASE UNCHANGED vars
  BY <1>0, <1>u DEF vars
<1>1. ASSUME NEW p \in Page, OpenPage(p)
      PROVE  len' = Len(queries') /\ \A q \in Page : PageFits(q)'
  <2>1. PageFits(p) => PageFits(p)'
    BY <1>1 DEF OpenPage, TypeOK, PageState, PageFits, Follows
  <2> QED
    BY <1>1, <1>k, <2>1 DEF OpenPage, TypeOK
<1>2. ASSUME NEW p \in Page, ClosePage(p)
      PROVE  len' = Len(queries') /\ \A q \in Page : PageFits(q)'
  <2>1. PageFits(p) => PageFits(p)'
    BY <1>2 DEF ClosePage, TypeOK, PageState, PageFits, Follows
  <2> QED
    BY <1>2, <1>k, <2>1 DEF ClosePage, TypeOK
<1>3. ASSUME NEW p \in Page, StartSearch(p)
      PROVE  len' = Len(queries') /\ \A q \in Page : PageFits(q)'
  <2>1. /\ queries' = Append(queries, <<>>) /\ Len(queries') = Len(queries) + 1
        /\ found' = Append(found, {})
    BY <1>3 DEF StartSearch, TypeOK
  <2>2. Numbered /\ len = Len(queries) /\ \A q \in Page : PageFits(q)
    BY <1>n, <2>1 DEF PagesFit, TypeOK
  <2>3. len' = Len(queries')
    <3>1. len + 1 < IdSpace
      BY <2>1, <2>2 DEF Numbered
    <3> QED
      BY <1>3, <2>1, <2>2, <3>1, NextIdType DEF StartSearch
  <2>4. ASSUME NEW q \in Page, q # p PROVE PageFits(q)'
    <3>1. page'[q] = page[q] /\ query'[q] = query[q]
      BY <1>3, <2>4 DEF StartSearch, TypeOK
    <3>2. query[q] # NoQuery => query[q] \in 1 .. Len(queries)
      BY DEF TypeOK
    <3>3. query[q] # NoQuery => queries'[query[q]] = queries[query[q]]
      BY <2>1, <3>2 DEF TypeOK
    <3>4. query[q] # NoQuery => found'[query[q]] = found[query[q]]
      BY <2>1, <3>2 DEF TypeOK
    <3> QED
      BY <2>2, <3>1, <3>3, <3>4, FitsOn
  <2>5. PageFits(p)'
    <3>1. /\ page'[p].state = "waiting" /\ page'[p].id = len'
          /\ page'[p].shown = <<>> /\ page'[p].reply = <<>>
          /\ query'[p] = Len(queries')
      BY <1>3, <2>2 DEF StartSearch, TypeOK, PageState, PageFits
    <3>2. queries'[Len(queries')] = <<>> /\ query'[p] # NoQuery
      BY <2>1, <3>1, WebClientAssumption DEF TypeOK
    <3>3. Leads(page'[p].shown \o page'[p].reply, queries'[query'[p]])
      BY <3>1, <3>2 DEF Leads
    <3> QED
      BY <2>3, <3>1, <3>2, <3>3 DEF PageFits, Follows
  <2> QED
    BY <2>3, <2>4, <2>5
<1>4. ASSUME NEW p \in Page, Poll(p)
      PROVE  len' = Len(queries') /\ \A q \in Page : PageFits(q)'
  <2>1. PageFits(p) => PageFits(p)'
    BY <1>4 DEF Poll, TypeOK, PageState, PageFits, Follows
  <2> QED
    BY <1>4, <1>k, <2>1 DEF Poll, TypeOK
<1>5. ASSUME NEW p \in Page, RenderResults(p)
      PROVE  len' = Len(queries') /\ \A q \in Page : PageFits(q)'
  <2>1. ASSUME PageFits(p) PROVE PageFits(p)'
    <3>1. /\ Follows(p) /\ page[p].reply = <<>> /\ page[p].shown \in Seq(Result)
          /\ query[p] \in 1 .. Len(queries) /\ queries[query[p]] \in Seq(Result)
      <4>1. Follows(p) /\ page[p].reply = <<>>
        BY <1>5, <2>1 DEF RenderResults, PageFits
      <4>2. page[p].shown \in Seq(Result)
        BY DEF TypeOK, PageState
      <4>3. query[p] \in 1 .. Len(queries)
        BY <4>1 DEF Follows, TypeOK
      <4> QED
        BY <4>1, <4>2, <4>3 DEF TypeOK
    <3> DEFINE list == queries[query[p]]
               rest == SubSeq(list, Len(page[p].shown) + 1, Len(list))
    <3>2. AllUtf8(list) => Leads(page[p].shown, list)
      BY <3>1, ConcatEmptySeq DEF Follows
    <3>3. len = Len(queries)
      BY <1>5, <1>n DEF RenderResults, PagesFit, TypeOK
    <3>4. LookupQuery(page[p].id) = query[p] /\ query[p] # NoQuery
      BY <3>1, <3>3 DEF Follows, LookupQuery
    <3>5. /\ page'[p].state = "loading" /\ page'[p].id = page[p].id
          /\ page'[p].shown = page[p].shown
          /\ page'[p].reply = Encoded(rest)
          /\ UNCHANGED <<queries, query, found>>
      BY <1>5, <3>4 DEF RenderResults, Rendered, TypeOK, PageState
    <3>6. /\ rest \in Seq(Result)
          /\ \A i \in DOMAIN rest : \E j \in DOMAIN list : rest[i] = list[j]
      <4> DEFINE from == Len(page[p].shown)
      <4>1. list \in Seq(Result) /\ from \in Nat /\ Len(list) \in Nat
        BY <3>1
      <4> HIDE DEF from, list
      <4>2. /\ SubSeq(list, from + 1, Len(list)) \in Seq(Result)
            /\ \A i \in DOMAIN SubSeq(list, from + 1, Len(list)) :
                  /\ from + i \in DOMAIN list
                  /\ SubSeq(list, from + 1, Len(list))[i] = list[from + i]
        BY <4>1
      <4> QED
        BY <4>2 DEF from
    <3>7. AllUtf8(list) => Leads(page'[p].shown \o page'[p].reply, list)
      <4> SUFFICES ASSUME AllUtf8(list) PROVE Leads(page'[p].shown \o page'[p].reply, list)
        OBVIOUS
      <4>1. Encoded(rest) = rest
        <5>1. \A i \in DOMAIN rest : rest[i] \in Utf8
          BY <3>6 DEF AllUtf8
        <5> HIDE DEF rest
        <5> QED
          BY <3>6, <5>1, EncodedElements
      <4> QED
        BY <3>1, <3>2, <3>5, <4>1, LeadsRest
    <3>8. \A i \in DOMAIN page'[p].reply : page'[p].reply[i] \in found[query[p]]
      <4> HIDE DEF rest
      <4>1. \A i \in DOMAIN page'[p].reply : \E j \in DOMAIN rest : page'[p].reply[i] = rest[j]
        BY <3>5, <3>6, EncodedElements
      <4>2. \A i \in DOMAIN page'[p].reply : \E j \in DOMAIN list : page'[p].reply[i] = list[j]
        BY <3>6, <4>1
      <4> QED
        BY <3>1, <4>2 DEF Follows
    <3> HIDE DEF rest
    <3> QED
      BY <3>1, <3>5, <3>7, <3>8 DEF PageFits, Follows
  <2> QED
    BY <1>5, <1>k, <2>1 DEF RenderResults, TypeOK
<1>6. ASSUME NEW p \in Page, LoadResults(p)
      PROVE  len' = Len(queries') /\ \A q \in Page : PageFits(q)'
  <2>1. ASSUME PageFits(p) PROVE PageFits(p)'
    <3>1. /\ page'[p].state = "waiting" /\ page'[p].id = page[p].id
          /\ page'[p].shown = page[p].shown \o page[p].reply /\ page'[p].reply = <<>>
          /\ UNCHANGED <<queries, query, found>>
      BY <1>6 DEF LoadResults, TypeOK, PageState
    <3>2. /\ page[p].shown \o page[p].reply \in Seq(Result) /\ Follows(p)
          /\ page[p].shown \in Seq(Result) /\ page[p].reply \in Seq(Result)
      BY <1>6, <2>1, ConcatProperties DEF LoadResults, PageFits, TypeOK, PageState
    <3>3. page'[p].shown \o page'[p].reply = page[p].shown \o page[p].reply
      BY <3>1, <3>2, ConcatEmptySeq
    <3>4. ASSUME NEW i \in DOMAIN page'[p].shown PROVE page'[p].shown[i] \in found[query[p]]
      <4> DEFINE a == page[p].shown
                 b == page[p].reply
      <4>1. a \in Seq(Result) /\ b \in Seq(Result) /\ i \in DOMAIN (a \o b)
        BY <3>1, <3>2, <3>4
      <4>2. \/ i \in DOMAIN a /\ (a \o b)[i] = a[i]
            \/ i - Len(a) \in DOMAIN b /\ (a \o b)[i] = b[i - Len(a)]
        BY <4>1, ConcatElements
      <4> QED
        BY <3>1, <3>2, <4>2 DEF Follows
    <3>5. DOMAIN page'[p].reply = {}
      BY <3>1
    <3> QED
      BY <3>1, <3>2, <3>3, <3>4, <3>5 DEF PageFits, Follows
  <2> QED
    BY <1>6, <1>k, <2>1 DEF LoadResults, TypeOK
<1>7. CASE ProcessRequests
  BY <1>7, <1>u DEF ProcessRequests
<1>8. CASE TransmitSearch
  BY <1>8, <1>u DEF TransmitSearch
<1>9. ASSUME NEW id \in 0 .. IdSpace - 1, AnswerSearch(id)
      PROVE  len' = Len(queries') /\ \A q \in Page : PageFits(q)'
  BY <1>9, <1>u DEF AnswerSearch
<1>10. CASE ReceiveResponse
  <2> DEFINE r == Head(inbox)
             i == LookupQuery(r.id)
  <2>1. r.id \in Nat /\ r.urls \in Seq(Result)
    <3>1. r \in [id: 0 .. IdSpace - 1, urls: Seq(Result)]
      BY <1>10, HeadTailProperties DEF ReceiveResponse, TypeOK
    <3> QED
      BY <3>1, WebClientAssumption
  <2>2. Len(queries') = Len(queries) /\ UNCHANGED <<len, page, query>>
    <3>1. CASE i = NoQuery
      BY <1>10, <3>1 DEF ReceiveResponse
    <3>2. CASE i # NoQuery
      <4>1. i \in 1 .. Len(queries) /\ queries[i] \o r.urls \in Seq(Result)
        BY <2>1, <3>2, Looked, ConcatProperties DEF TypeOK
      <4>2. queries' = [queries EXCEPT ![i] = queries[i] \o r.urls]
        BY <1>10, <3>2 DEF ReceiveResponse
      <4> QED
        BY <1>10, <4>1, <4>2, ExceptSeq DEF ReceiveResponse, TypeOK
    <3> QED
      BY <3>1, <3>2
  <2>3. Numbered /\ len = Len(queries) /\ \A q \in Page : PageFits(q)
    BY <1>n, <2>2 DEF PagesFit, TypeOK
  <2>4. ASSUME NEW q \in Page PROVE PageFits(q)'
    <3> DEFINE j == query[q]
    <3>1. CASE ~Follows(q)
      BY <2>2, <2>3, <3>1 DEF PageFits
    <3>2. CASE Follows(q)
      <4>1. j \in 1 .. Len(queries) /\ j # NoQuery /\ j = page[q].id /\ j \in DOMAIN found
        BY <3>2 DEF Follows, TypeOK
      <4>2. queries[j] \in Seq(Result) /\ Len(queries[j]) \in Nat /\ page[q].shown \o page[q].reply \in Seq(Result)
        BY <4>1, ConcatProperties DEF TypeOK, PageState
      <4>3. CASE r.id = j
        <5>1. i = j
          BY <2>3, <4>1, <4>3 DEF LookupQuery
        <5>2. queries'[j] = queries[j] \o r.urls
          BY <1>10, <4>1, <5>1 DEF ReceiveResponse, TypeOK
        <5>3. found'[j] = found[j] \cup ToSet(r.urls)
          BY <1>10, <4>1, <4>3 DEF ReceiveResponse
        <5>4. AllUtf8(queries'[j]) => Leads(page[q].shown \o page[q].reply, queries'[j])
          <6> DEFINE old == queries[j]
                     new == old \o r.urls
          <6> SUFFICES ASSUME AllUtf8(new)
                       PROVE  Leads(page[q].shown \o page[q].reply, new)
            BY <5>2
          <6>1. AllUtf8(old)
            <7>0. old \in Seq(Result) /\ r.urls \in Seq(Result)
              BY <2>1, <4>2
            <7> HIDE DEF old, r
            <7>1. \A k \in DOMAIN old : k \in DOMAIN new /\ new[k] = old[k]
              BY <7>0
            <7> HIDE DEF new
            <7> QED
              BY <7>1 DEF AllUtf8
          <6>2. Leads(page[q].shown \o page[q].reply, old)
            BY <3>2, <6>1 DEF Follows
          <6> QED
            BY <2>1, <4>2, <6>2, LeadsOn
        <5>5. ASSUME NEW k \in DOMAIN queries'[j] PROVE queries'[j][k] \in found'[j]
          <6>1. \/ k \in DOMAIN queries[j] /\ queries'[j][k] = queries[j][k]
                \/ /\ k - Len(queries[j]) \in DOMAIN r.urls
                   /\ queries'[j][k] = r.urls[k - Len(queries[j])]
            <7> DEFINE grown == queries[j] \o r.urls
            <7>1. queries'[j] = grown /\ k \in DOMAIN grown
              BY <5>2, <5>5
            <7>2. \/ k \in DOMAIN queries[j] /\ grown[k] = queries[j][k]
                  \/ /\ k - Len(queries[j]) \in DOMAIN r.urls
                     /\ grown[k] = r.urls[k - Len(queries[j])]
              BY <2>1, <4>2, <7>1, ConcatElements
            <7> QED
              BY <7>1, <7>2
          <6>2. CASE k \in DOMAIN queries[j] /\ queries'[j][k] = queries[j][k]
            BY <3>2, <5>3, <6>2 DEF Follows
          <6>3. CASE /\ k - Len(queries[j]) \in DOMAIN r.urls
                     /\ queries'[j][k] = r.urls[k - Len(queries[j])]
            BY <5>3, <6>3 DEF ToSet
          <6> QED
            BY <6>1, <6>2, <6>3
        <5> QED
          BY <2>2, <2>3, <3>2, <5>3, <5>4, <5>5 DEF PageFits, Follows
      <4>4. CASE r.id # j
        <5>1. i # j
          BY <4>1, <4>4 DEF LookupQuery
        <5>2. queries'[j] = queries[j]
          BY <1>10, <4>1, <5>1 DEF ReceiveResponse, TypeOK
        <5>3. found[j] \subseteq found'[j]
          BY <1>10, <4>1 DEF ReceiveResponse
        <5> QED
          BY <2>2, <2>3, <3>2, <5>2, <5>3 DEF PageFits, Follows
      <4> QED
        BY <4>3, <4>4
    <3> QED
      BY <3>1, <3>2
  <2> QED
    BY <2>2, <2>3, <2>4
<1> QED
  BY <1>0, <1>1, <1>2, <1>3, <1>4, <1>5, <1>6, <1>7, <1>8, <1>9, <1>10 DEF Next

\* The invariant holds in every reachable state.
LEMMA Invariant == Spec => []Inv
<1>1. Init => Inv
  BY InitTypes, InitFits DEF Inv
<1>2. Inv /\ [Next]_vars => Inv'
  BY StepTypes, StepFits DEF Inv, PagesFit
<1> QED
  BY <1>1, <1>2, PTL DEF Spec

\* A served page that is still open follows its query; a closed one shows nothing.
LEMMA ServedFollows ==
    ASSUME Inv, Numbered, NEW p \in Served
    PROVE  /\ queries[query[p]] \in Seq(Result)
           /\ page[p].shown \in Seq(Result) /\ page[p].shown \o page[p].reply \in Seq(Result)
           /\ Follows(p) \/ (page[p].shown = <<>> /\ page[p].reply = <<>>)
<1>1. p \in Page /\ query[p] # NoQuery /\ PageFits(p)
  BY DEF Served, Inv, PagesFit
<1>2. query[p] \in DOMAIN queries /\ queries \in Seq(Seq(Result))
  BY <1>1 DEF Inv, TypeOK
<1>3. page[p].shown \in Seq(Result) /\ page[p].reply \in Seq(Result)
  BY <1>1 DEF Inv, TypeOK, PageState
<1>4. page[p].state \in {"new", "opening", "waiting", "polling", "loading", "closed"}
  BY <1>1 DEF Inv, TypeOK, PageState
<1>5. Follows(p) \/ (page[p].shown = <<>> /\ page[p].reply = <<>>)
  BY <1>1, <1>4 DEF PageFits
<1> QED
  BY <1>2, <1>3, <1>5, ConcatProperties

\* However results, polls and other pages interleave, a page whose results can all be
\* encoded shows what its query has from the first one on
\* (gnunet_search_web_render_results, result_loader.js).
THEOREM InOrder == Spec => []ShownInOrder
<1>1. Inv => ShownInOrder
  <2> SUFFICES ASSUME Inv, Numbered, NEW p \in Served,
                      ToSet(queries[query[p]]) \subseteq Utf8
               PROVE  IsPrefix(page[p].shown \o page[p].reply, queries[query[p]])
    BY DEF ShownInOrder
  <2>1. Leads(page[p].shown \o page[p].reply, queries[query[p]])
    <3>1. CASE Follows(p)
      <4>1. AllUtf8(queries[query[p]])
        BY DEF AllUtf8, ToSet
      <4> QED
        BY <3>1, <4>1 DEF Follows
    <3>2. CASE page[p].shown = <<>> /\ page[p].reply = <<>>
      <4>1. page[p].shown \o page[p].reply = <<>>
        BY <3>2
      <4>2. Len(queries[query[p]]) \in Nat
        BY ServedFollows, LenProperties
      <4> QED
        BY <4>1, <4>2 DEF Leads
    <3> QED
      BY <3>1, <3>2, ServedFollows
  <2> QED
    BY <2>1, ServedFollows, PrefixLeads
<1> QED
  BY <1>1, Invariant, PTL

\* A page shows nothing that the service did not answer under the id of its search,
\* also when it answers searches it has forgotten or URLs that cannot be encoded.
THEOREM Own == Spec => []OwnResults
<1>1. Inv => OwnResults
  <2> SUFFICES ASSUME Inv, Numbered, NEW p \in Served,
                      NEW i \in DOMAIN page[p].shown
               PROVE  page[p].shown[i] \in found[query[p]]
    BY DEF OwnResults, ToSet
  <2>1. Follows(p)
    BY ServedFollows
  <2> QED
    BY <2>1 DEF Follows
<1> QED
  BY <1>1, Invariant, PTL
===============================================================================
