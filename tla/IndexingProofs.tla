---------------------------- MODULE IndexingProofs ----------------------------
(***************************************************************************)
(* Crawling stays near what was added and lists no page twice, and what a  *)
(* peer replies to a search is right, for any peers, pages, links, words   *)
(* and sizes, however the DHT shows the puts.                              *)
(***************************************************************************)
EXTENDS Indexing, SequenceTheorems, TLAPS

LOCAL INSTANCE SequencesExt
LOCAL INSTANCE WellFoundedInduction

\* The URLs that are put with a parameter.
Reach(parameter) ==
    CASE parameter = 2 -> added
      [] parameter = 1 -> Linked(added)
      [] parameter = 0 -> Nearby(added)

\* A put is as many links away from what was added as its parameter was lowered.
PutsNear == \A p \in puts : p.url \in Reach(p.parameter)

\* Pages are stored under their keywords and no other.
StoredUnderKeywords ==
    \A n \in Node, k \in Keyword : \A u \in ToSet(storage[n][k]) : k \in Keywords(u)

Inv == TypeOK /\ PutsNear /\ IndexedNearby /\ NoUrlTwice /\ StoredUnderKeywords

-------------------------------------------------------------------------------
(***************************************************************************)
(* Links and puts                                                          *)
(***************************************************************************)

\* What is put is a URL of the list, with its parameter.
LEMMA ShownPuts ==
    ASSUME NEW urls, urls \subseteq Url, NEW parameter \in 0 .. Depth,
           NEW new \in Shown(urls, parameter), NEW p \in new
    PROVE  p \in Put /\ p.url \in urls /\ p.parameter = parameter
BY DEF Shown, Put

\* Following links lowers the parameter, and the parameter stays one.
LEMMA FollowedPuts ==
    ASSUME NEW p \in Put, NEW new \in Followed(p), NEW q \in new
    PROVE  q \in Put /\ q.url \in Links[p.url] /\ p.parameter > 0
           /\ q.parameter = p.parameter - 1
<1>1. p.parameter \in 0 .. Depth /\ p.url \in Url
  BY DEF Put
<1>2. p.parameter > 0 /\ new \in Shown(Links[p.url], p.parameter - 1)
  BY <1>1 DEF Followed
<1>3. p.parameter - 1 \in 0 .. Depth /\ Links[p.url] \subseteq Url
  BY <1>1, <1>2, IndexingAssumption DEF Depth
<1> QED
  BY <1>2, <1>3, ShownPuts

\* The links of a put that is followed are in reach of the lowered parameter.
LEMMA LinksInReach ==
    ASSUME NEW parameter \in 1 .. Depth, NEW u \in Reach(parameter), NEW v \in Links[u]
    PROVE  v \in Reach(parameter - 1)
<1>1. CASE parameter = 1
  BY <1>1 DEF Reach, Nearby, Linked
<1>2. CASE parameter = 2
  BY <1>2 DEF Reach, Linked
<1> QED
  BY <1>1, <1>2 DEF Depth

\* Whatever is in reach is nearby.
LEMMA ReachNearby ==
    ASSUME NEW parameter \in 0 .. Depth
    PROVE  Reach(parameter) \subseteq Nearby(added)
BY DEF Depth, Reach, Nearby, Linked

\* Adding URLs takes none out of reach.
LEMMA ReachGrows ==
    ASSUME added \subseteq added', NEW parameter \in 0 .. Depth
    PROVE  Reach(parameter) \subseteq Reach(parameter)' /\ Nearby(added) \subseteq Nearby(added')
<1>1. Linked(added) \subseteq Linked(added')
  BY DEF Linked
<1>2. Nearby(added) \subseteq Nearby(added')
  BY <1>1 DEF Linked, Nearby
<1> QED
  BY <1>1, <1>2 DEF Depth, Reach

-------------------------------------------------------------------------------
(***************************************************************************)
(* Storage                                                                 *)
(***************************************************************************)

\* gnunet_search_storage_key_value_add adds a value, and a known one not again.
LEMMA KeyValueAdded ==
    ASSUME NEW values \in Seq(Url), NEW value \in Url,
           \A i, j \in DOMAIN values : values[i] = values[j] => i = j
    PROVE  LET new == KeyValueAdd(values, value)
           IN  /\ new \in Seq(Url)
               /\ ToSet(new) \subseteq ToSet(values) \cup {value}
               /\ \A i, j \in DOMAIN new : new[i] = new[j] => i = j
<1>1. CASE value \in ToSet(values)
  BY <1>1 DEF KeyValueAdd
<1>2. CASE value \notin ToSet(values)
  <2> DEFINE new == Append(values, value)
  <2>1. new \in Seq(Url) /\ DOMAIN new = DOMAIN values \cup {Len(values) + 1}
    OBVIOUS
  <2>2. \A i \in DOMAIN values : new[i] = values[i] /\ new[i] # value
    BY <1>2 DEF ToSet
  <2>3. new[Len(values) + 1] = value
    OBVIOUS
  <2>4. ToSet(new) \subseteq ToSet(values) \cup {value}
    BY <2>1, <2>2, <2>3 DEF ToSet
  <2>5. KeyValueAdd(values, value) = new
    BY <1>2 DEF KeyValueAdd
  <2> QED
    BY <2>1, <2>2, <2>3, <2>4, <2>5
<1> QED
  BY <1>1, <1>2

-------------------------------------------------------------------------------
(***************************************************************************)
(* Serialisation                                                           *)
(***************************************************************************)

\* The naturals are well-founded.
LEMMA NaturalsWellFounded ==
    IsWellFoundedOn({r \in Nat \X Nat : r[1] < r[2]}, Nat)
  BY NatLessThanWellFounded DEF OpToRel

\* A set of naturals that is not empty has a smallest element.
LEMMA Smallest ==
    ASSUME NEW T \in SUBSET Nat, T # {}
    PROVE  \E n \in T : \A m \in T : n <= m
<1> DEFINE R == {r \in Nat \X Nat : r[1] < r[2]}
<1>1. IsWellFoundedOn(R, Nat)
  BY NaturalsWellFounded
<1> HIDE DEF R
<1>2. PICK n \in T : \A m \in T : ~(<<m, n>> \in R)
  BY <1>1, WFMin
<1>3. \A m \in T : m \in Nat /\ ~(m < n)
  BY <1>2 DEF R
<1> QED
  BY <1>3

\* A set of naturals up to n that is not empty has a largest element.
LEMMA Largest ==
    ASSUME NEW n \in Nat, NEW T \in SUBSET (0 .. n), T # {}
    PROVE  \E i \in T : \A j \in T : j <= i
<1> DEFINE R == {m \in 0 .. n : n - m \in T}
<1>1. R \in SUBSET Nat /\ R # {}
  <2>1. PICK i \in T : TRUE
    OBVIOUS
  <2>2. n - i \in 0 .. n /\ n - (n - i) = i
    OBVIOUS
  <2> QED
    BY <2>1, <2>2
<1>2. PICK m \in R : \A l \in R : m <= l
  BY <1>1, Smallest
<1>3. ASSUME NEW j \in T
      PROVE  j <= n - m
  <2>1. n - j \in 0 .. n /\ n - (n - j) = j
    OBVIOUS
  <2>2. m <= n - j
    BY <1>2, <2>1
  <2> QED
    BY <2>1, <2>2
<1> QED
  BY <1>2, <1>3

\* The equation of the function that sums up the sizes.
Sizes(f, s) == f = [i \in 0 .. Len(s) |-> IF i = 0 THEN 0 ELSE f[i - 1] + (Length[s[i]] + 1)]

\* There is such a function: the shortest beginning of s without one would have one.
LEMMA SizesExist ==
    ASSUME NEW s \in Seq(Url)
    PROVE  \E f : Sizes(f, s)
<1> DEFINE Upto(n, f) == f = [i \in 0 .. n |-> IF i = 0 THEN 0 ELSE f[i - 1] + (Length[s[i]] + 1)]
           Bad == {n \in Nat : n <= Len(s) /\ ~(\E f : Upto(n, f))}
<1>1. SUFFICES ASSUME Bad # {} PROVE FALSE
  <2>1. Len(s) \in Nat /\ Len(s) <= Len(s)
    OBVIOUS
  <2>2. (\E f : Upto(Len(s), f)) => \E f : Sizes(f, s)
    BY Zenon DEF Sizes
  <2> QED
    BY <2>1, <2>2
<1>2. PICK n \in Bad : \A m \in Bad : n <= m
  BY <1>1, Smallest
<1>3. n # 0
  <2> DEFINE zero == [i \in 0 .. 0 |-> 0]
  <2>1. \A i \in 0 .. 0 : 0 = IF i = 0 THEN 0 ELSE zero[i - 1] + (Length[s[i]] + 1)
    OBVIOUS
  <2> HIDE DEF zero
  <2>2. zero = [i \in 0 .. 0 |-> 0]
    BY DEF zero
  <2>3. Upto(0, zero)
    BY <2>1, <2>2
  <2> QED
    BY <2>3
<1>4. PICK f : Upto(n - 1, f)
  <2>1. n - 1 \in Nat /\ n - 1 <= Len(s) /\ ~(n <= n - 1) /\ Len(s) \in Nat
    BY <1>2, <1>3
  <2>2. n - 1 \notin Bad
    BY <1>2, <2>1
  <2> QED
    BY <2>1, <2>2, Zenon
<1> DEFINE g == [i \in 0 .. n |-> IF i = n THEN f[i - 1] + (Length[s[i]] + 1) ELSE f[i]]
<1>5. n \in Nat /\ n >= 1
  BY <1>3
<1>6. \A i \in 0 .. n : g[i] = IF i = 0 THEN 0 ELSE g[i - 1] + (Length[s[i]] + 1)
  <2> TAKE i \in 0 .. n
  <2>1. CASE i = n
    <3>1. i # 0 /\ i - 1 \in 0 .. n /\ i - 1 # n
      BY <1>5, <2>1
    <3> QED
      BY <2>1, <3>1
  <2>2. CASE i # n
    <3>0. i \in 0 .. n - 1
      BY <1>5, <2>2
    <3>1. f[i] = IF i = 0 THEN 0 ELSE f[i - 1] + (Length[s[i]] + 1)
      BY <1>4, <3>0, Zenon
    <3>2. i # 0 => i - 1 \in 0 .. n /\ i - 1 # n
      BY <1>5, <3>0
    <3> QED
      BY <2>2, <3>1, <3>2
  <2> QED
    BY <2>1, <2>2
<1>7. Upto(n, g)
  BY <1>6, Zenon
<1> QED
  BY <1>2, <1>7

\* The functions of two sequences agree as far as the sequences do, and count bytes.
LEMMA SizesAgree ==
    ASSUME NEW s \in Seq(Url), NEW t \in Seq(Url), Len(s) <= Len(t),
           \A i \in 1 .. Len(s) : s[i] = t[i],
           NEW f, Sizes(f, s), NEW g, Sizes(g, t)
    PROVE  \A i \in 0 .. Len(s) : f[i] = g[i] /\ f[i] \in Nat
<1> DEFINE Bad == {i \in 0 .. Len(s) : ~(f[i] = g[i] /\ f[i] \in Nat)}
<1>0. Len(s) \in Nat /\ Len(t) \in Nat
  OBVIOUS
<1>1. SUFFICES ASSUME Bad # {} PROVE FALSE
  OBVIOUS
<1>2. PICK n \in Bad : \A m \in Bad : n <= m
  BY <1>1, Smallest, Bad \in SUBSET Nat
<1>3. f[n] = IF n = 0 THEN 0 ELSE f[n - 1] + (Length[s[n]] + 1)
  BY <1>0, Zenon DEF Sizes
<1>4. g[n] = IF n = 0 THEN 0 ELSE g[n - 1] + (Length[t[n]] + 1)
  <2>1. n \in 0 .. Len(t)
    BY <1>0
  <2> QED
    BY <2>1, Zenon DEF Sizes
<1>5. n # 0 => f[n - 1] = g[n - 1] /\ f[n - 1] \in Nat
  <2> SUFFICES ASSUME n # 0 PROVE f[n - 1] = g[n - 1] /\ f[n - 1] \in Nat
    OBVIOUS
  <2>1. n - 1 \in 0 .. Len(s) /\ ~(n <= n - 1)
    BY <1>0
  <2>2. n - 1 \notin Bad
    BY <1>2, <2>1
  <2> QED
    BY <2>1, <2>2
<1>6. n # 0 => s[n] = t[n] /\ s[n] \in Url /\ Length[s[n]] \in Nat
  BY <1>0, IndexingAssumption
<1> QED
  BY <1>3, <1>4, <1>5, <1>6

\* As many URLs are written as there is room for, from the first on.
LEMMA SerializedIs ==
    ASSUME NEW s \in Seq(Url), NEW f, Sizes(f, s)
    PROVE  \E m \in 0 .. Len(s) :
              /\ Serialized(s) = SubSeq(s, 1, m)
              /\ f[m] <= MaximalSize
              /\ m < Len(s) => f[m + 1] > MaximalSize
<1>0. Len(s) \in Nat
  OBVIOUS
<1> DEFINE size == CHOOSE g : Sizes(g, s)
           fits == {i \in 0 .. Len(s) : size[i] <= MaximalSize}
           m == CHOOSE i \in fits : \A j \in fits : j <= i
<1>1. Serialized(s) = SubSeq(s, 1, m)
  BY Zenon DEF Serialized, SizeOf, Sizes
<1>2. Sizes(size, s)
  BY SizesExist, Zenon
<1> HIDE DEF size
<1>3. \A i \in 0 .. Len(s) : size[i] = f[i] /\ f[i] \in Nat
  BY <1>0, <1>2, SizesAgree
<1>4. size[0] = 0
  <2>1. size[0] = IF 0 = 0 THEN 0 ELSE size[0 - 1] + (Length[s[0]] + 1)
    <3>1. 0 \in 0 .. Len(s)
      BY <1>0
    <3> QED
      BY <1>2, <3>1, Zenon DEF Sizes
  <2> QED
    BY <2>1
<1>5. fits \in SUBSET (0 .. Len(s)) /\ fits # {}
  <2>1. 0 \in fits
    BY <1>0, <1>4, IndexingAssumption
  <2> QED
    BY <2>1
<1>6. m \in fits /\ \A j \in fits : j <= m
  <2>1. \E i \in fits : \A j \in fits : j <= i
    BY <1>0, <1>5, Largest
  <2> QED
    BY <2>1, Zenon
<1> HIDE DEF m
<1>7. m < Len(s) => f[m + 1] > MaximalSize
  <2> SUFFICES ASSUME m < Len(s) PROVE f[m + 1] > MaximalSize
    OBVIOUS
  <2>1. m + 1 \in 0 .. Len(s) /\ ~(m + 1 <= m)
    BY <1>0, <1>6
  <2>2. ~(size[m + 1] <= MaximalSize)
    BY <1>6, <2>1
  <2> QED
    BY <1>3, <2>1, <2>2, IndexingAssumption
<1> QED
  BY <1>1, <1>3, <1>6, <1>7

\* The size of a beginning of a sequence.
LEMMA TotalIs ==
    ASSUME NEW s \in Seq(Url), NEW f, Sizes(f, s), NEW n \in 0 .. Len(s)
    PROVE  Total(SubSeq(s, 1, n)) = f[n]
<1> DEFINE t == SubSeq(s, 1, n)
           total == CHOOSE g : Sizes(g, t)
<1>1. /\ t \in Seq(Url) /\ Len(t) = n /\ Len(t) \in Nat /\ Len(s) \in Nat
      /\ \A i \in 1 .. Len(t) : t[i] = s[i]
  <2>1. \A i \in 1 .. n : s[i] \in Url
    OBVIOUS
  <2> QED
    BY <2>1, SubSeqProperties
<1>2. Total(t) = total[Len(t)]
  BY Zenon DEF Total, Sizes
<1> HIDE DEF t
<1>3. Sizes(total, t)
  BY <1>1, SizesExist, Zenon
<1> HIDE DEF total
<1>4. total[n] = f[n]
  BY <1>1, <1>3, SizesAgree
<1> QED
  BY <1>1, <1>2, <1>4 DEF t

\* What is written is a beginning of the list that has room, and the next URL would not.
LEMMA SerializedFits ==
    ASSUME NEW s \in Seq(Url)
    PROVE  LET reply == Serialized(s)
           IN  /\ ToSet(reply) \subseteq ToSet(s)
               /\ IsPrefix(reply, s)
               /\ Total(reply) <= MaximalSize
               /\ reply # s => Total(SubSeq(s, 1, Len(reply) + 1)) > MaximalSize
<1>1. PICK f : Sizes(f, s)
  BY SizesExist
<1>2. PICK m \in 0 .. Len(s) :
          /\ Serialized(s) = SubSeq(s, 1, m)
          /\ f[m] <= MaximalSize
          /\ m < Len(s) => f[m + 1] > MaximalSize
  BY <1>1, SerializedIs
<1> DEFINE reply == SubSeq(s, 1, m)
<1>3. /\ reply \in Seq(Url) /\ Len(reply) = m /\ Len(s) \in Nat
      /\ \A i \in 1 .. m : reply[i] = s[i]
  <2>1. \A i \in 1 .. m : s[i] \in Url
    OBVIOUS
  <2> QED
    BY <2>1, SubSeqProperties
<1>4. Total(reply) <= MaximalSize
  BY <1>1, <1>2, TotalIs
<1>5. reply # s => Total(SubSeq(s, 1, Len(reply) + 1)) > MaximalSize
  <2> SUFFICES ASSUME reply # s PROVE Total(SubSeq(s, 1, Len(reply) + 1)) > MaximalSize
    OBVIOUS
  <2>1. m # Len(s)
    BY SubSeqFull
  <2>2. m < Len(s) /\ m + 1 \in 0 .. Len(s)
    BY <1>3, <2>1
  <2>3. Total(SubSeq(s, 1, m + 1)) = f[m + 1]
    BY <1>1, <2>2, TotalIs
  <2> QED
    BY <1>2, <1>3, <2>2, <2>3
<1>6. IsPrefix(reply, s)
  <2>1. SubSeq(reply, 1, Len(reply)) = reply
    BY <1>3, SubSeqFull
  <2> QED
    BY <1>3, <2>1 DEF IsPrefix
<1>7. ToSet(reply) \subseteq ToSet(s)
  <2> HIDE DEF reply
  <2>1. DOMAIN reply = 1 .. m /\ 1 .. m \subseteq DOMAIN s
    BY <1>3
  <2> QED
    BY <1>3, <2>1 DEF ToSet
<1> QED
  BY <1>2, <1>4, <1>5, <1>6, <1>7

\* Two bytes become the same only if they are, but for the case of a letter.
LEMMA SameLetter ==
    ASSUME NEW a \in Byte, NEW b \in Byte,
           (IF a \in 65 .. 90 THEN a + 32 ELSE a) = (IF b \in 65 .. 90 THEN b + 32 ELSE b)
    PROVE  \/ a = b
           \/ a \in 65 .. 90 /\ b = a + 32
           \/ b \in 65 .. 90 /\ a = b + 32
BY DEF Byte

\* gnunet_search_normalization_keyword_normalize tells apart what differs by more than
\* the case of its letters.
LEMMA SameNormalized ==
    ASSUME NEW v \in Seq(Byte), NEW w \in Seq(Byte), Normalized(v) = Normalized(w)
    PROVE  SameWord(v, w)
<1>1. DOMAIN v = DOMAIN w
  <2>1. DOMAIN Normalized(v) = DOMAIN v /\ DOMAIN Normalized(w) = DOMAIN w
    BY DEF Normalized
  <2> QED
    BY <2>1
<1>2. ASSUME NEW i \in DOMAIN v
      PROVE  \/ v[i] = w[i]
             \/ v[i] \in 65 .. 90 /\ w[i] = v[i] + 32
             \/ w[i] \in 65 .. 90 /\ v[i] = w[i] + 32
  <2>1. v[i] \in Byte /\ w[i] \in Byte
    BY <1>1
  <2>2. /\ Normalized(v)[i] = IF v[i] \in 65 .. 90 THEN v[i] + 32 ELSE v[i]
        /\ Normalized(w)[i] = IF w[i] \in 65 .. 90 THEN w[i] + 32 ELSE w[i]
    BY <1>1 DEF Normalized
  <2>3. (IF v[i] \in 65 .. 90 THEN v[i] + 32 ELSE v[i])
            = (IF w[i] \in 65 .. 90 THEN w[i] + 32 ELSE w[i])
    BY <2>2, Zenon
  <2> QED
    BY <2>1, <2>3, SameLetter
<1> QED
  BY <1>1, <1>2 DEF SameWord

-------------------------------------------------------------------------------
(***************************************************************************)
(* The invariant                                                           *)
(***************************************************************************)

\* At first there are no puts and no keys.
LEMMA InitInv == Init => Inv
BY DEF Init, Inv, TypeOK, PutsNear, IndexedNearby, NoUrlTwice, StoredUnderKeywords, ToSet

\* Every put of an add or of a crawled page is in reach, and so is what is stored.
LEMMA StepInv ==
    ASSUME Inv, [Next]_vars
    PROVE  Inv'
<1> USE DEF Inv
<1>0. CASE UNCHANGED vars
  BY <1>0, ReachGrows
  DEF vars, TypeOK, PutsNear, IndexedNearby, NoUrlTwice, StoredUnderKeywords, Reach, Nearby, Linked
<1>1. ASSUME NEW urls \in SUBSET Url, UrlListPut(urls)
      PROVE  Inv'
  <2>1. PICK new \in Shown(urls, Depth) : puts' = puts \cup new
    BY <1>1 DEF UrlListPut
  <2>2. /\ added \subseteq added' /\ urls \subseteq added' /\ added' \subseteq Addable
        /\ since' \subseteq added' /\ UNCHANGED <<storage, restarted>>
    BY <1>1 DEF UrlListPut, TypeOK
  <2>3. \A p \in new : p \in Put /\ p.url \in urls /\ p.parameter = Depth
    BY ShownPuts DEF Depth
  <2>4. TypeOK'
    BY <2>1, <2>2, <2>3 DEF TypeOK
  <2>5. PutsNear'
    <3> SUFFICES ASSUME NEW p \in puts' PROVE p.url \in Reach(p.parameter)'
      BY DEF PutsNear
    <3>1. CASE p \in new
      BY <2>2, <2>3, <3>1 DEF Reach, Depth
    <3>2. CASE p \in puts
      <4>1. p.parameter \in 0 .. Depth
        BY <3>2 DEF TypeOK, Put
      <4> QED
        BY <2>2, <3>2, <4>1, ReachGrows DEF PutsNear
    <3> QED
      BY <2>1, <3>1, <3>2
  <2>6. IndexedNearby'
    <3>1. Nearby(added) \subseteq Nearby(added')
      BY <2>2, ReachGrows DEF Depth
    <3> QED
      BY <2>2, <3>1 DEF IndexedNearby
  <2> QED
    BY <2>2, <2>4, <2>5, <2>6 DEF NoUrlTwice, StoredUnderKeywords
<1>2. ASSUME NEW p \in puts, IncomingUrlProcess(p)
      PROVE  Inv'
  <2>1. PICK new \in Followed(p) : puts' = (puts \ {p}) \cup new
    BY <1>2 DEF IncomingUrlProcess
  <2>2. /\ p \in Put /\ p.parameter \in 0 .. Depth /\ p.at \in Node /\ p.url \in Url
        /\ UNCHANGED <<added, since, restarted>>
    BY <1>2 DEF TypeOK, Put, IncomingUrlProcess
  <2>3. \A q \in new : /\ q \in Put /\ q.url \in Links[p.url] /\ p.parameter > 0
                       /\ q.parameter = p.parameter - 1
    BY <2>2, FollowedPuts
  <2>4. PutsNear'
    <3> SUFFICES ASSUME NEW q \in puts' PROVE q.url \in Reach(q.parameter)
      BY <2>2 DEF PutsNear, Reach
    <3>1. CASE q \in new
      <4>1. p.parameter \in 1 .. Depth /\ p.url \in Reach(p.parameter)
        BY <2>2, <2>3, <3>1 DEF PutsNear, Depth
      <4> QED
        BY <2>3, <3>1, <4>1, LinksInReach
    <3>2. CASE q \in puts
      BY <3>2 DEF PutsNear
    <3> QED
      BY <2>1, <3>1, <3>2
  <2>5. ASSUME NEW n \in Node, NEW k \in Keyword
        PROVE  /\ storage'[n][k] \in Seq(Url)
               /\ ToSet(storage'[n][k]) \subseteq Nearby(added')
               /\ \A i, j \in DOMAIN storage'[n][k] :
                     storage'[n][k][i] = storage'[n][k][j] => i = j
               /\ \A u \in ToSet(storage'[n][k]) : k \in Keywords(u)
    <3>1. \/ storage'[n][k] = storage[n][k]
          \/ storage'[n][k] = KeyValueAdd(storage[n][k], p.url) /\ k \in Keywords(p.url)
      BY <1>2, <2>2 DEF IncomingUrlProcess, TypeOK
    <3>2. /\ storage[n][k] \in Seq(Url)
          /\ ToSet(storage[n][k]) \subseteq Nearby(added)
          /\ \A i, j \in DOMAIN storage[n][k] : storage[n][k][i] = storage[n][k][j] => i = j
          /\ \A u \in ToSet(storage[n][k]) : k \in Keywords(u)
      BY DEF TypeOK, IndexedNearby, NoUrlTwice, StoredUnderKeywords
    <3>3. p.url \in Nearby(added)
      BY <2>2, ReachNearby DEF PutsNear
    <3> QED
      BY <2>2, <3>1, <3>2, <3>3, KeyValueAdded
  <2>6. storage' \in [Node -> [Keyword -> Seq(Url)]]
    <3>1. /\ storage' = [storage EXCEPT ![p.at] = storage'[p.at]]
          /\ storage'[p.at] = [k \in Keyword |-> storage'[p.at][k]]
      BY <1>2, <2>2 DEF IncomingUrlProcess, TypeOK
    <3>2. storage'[p.at] \in [Keyword -> Seq(Url)]
      BY <2>2, <2>5, <3>1
    <3> QED
      BY <2>2, <3>1, <3>2 DEF TypeOK
  <2>7. TypeOK'
    BY <2>1, <2>2, <2>3, <2>6 DEF TypeOK
  <2> QED
    BY <2>4, <2>5, <2>7 DEF IndexedNearby, NoUrlTwice, StoredUnderKeywords
<1>3. ASSUME NEW n \in Node, Restart(n)
      PROVE  Inv'
  <2>1. /\ puts' \subseteq puts /\ UNCHANGED added
        /\ since' = {} /\ restarted' \subseteq Restartable
        /\ storage' = [storage EXCEPT ![n] = [k \in Keyword |-> <<>>]]
    BY <1>3 DEF Restart, TypeOK
  <2>2. \A o \in Node, k \in Keyword :
            storage'[o][k] = storage[o][k] \/ storage'[o][k] = <<>>
    BY <2>1 DEF TypeOK
  <2>3. TypeOK'
    BY <2>1 DEF TypeOK
  <2>4. PutsNear'
    BY <2>1 DEF PutsNear, Reach, Nearby, Linked
  <2>5. IndexedNearby'
    BY <2>1, <2>2 DEF IndexedNearby, ToSet
  <2>6. NoUrlTwice'
    BY <2>2 DEF NoUrlTwice
  <2>7. StoredUnderKeywords'
    BY <2>2 DEF StoredUnderKeywords, ToSet
  <2> QED
    BY <2>3, <2>4, <2>5, <2>6, <2>7
<1> QED
  BY <1>0, <1>1, <1>2, <1>3 DEF Next

\* The invariant holds in every reachable state.
LEMMA Invariant == Spec => []Inv
  BY InitInv, StepInv, PTL DEF Spec

\* Puts, storages and added URLs are well typed; in particular no parameter is lowered
\* below zero (url-processor.c:111).
THEOREM IndexingTypes == Spec => []TypeOK
<1>1. Inv => TypeOK
  BY DEF Inv
<1> QED
  BY <1>1, Invariant, PTL

\* A page is crawled only within two links of one that was added, for every graph of
\* links and any order in which the DHT shows the puts.
THEOREM CrawlStaysNear == Spec => []IndexedNearby
<1>1. Inv => IndexedNearby
  BY DEF Inv
<1> QED
  BY <1>1, Invariant, PTL

\* No keyword lists a page twice, however often a page is crawled.
THEOREM ListedOnce == Spec => []NoUrlTwice
<1>1. Inv => NoUrlTwice
  BY DEF Inv
<1> QED
  BY <1>1, Invariant, PTL

\* What a peer replies to a search is right: every page it names has the word, in
\* whatever case, and it names as many, the oldest first, as the message has room for.
THEOREM RepliesAreRight == Spec => []RepliesRight
<1>1. Inv => RepliesRight
  <2> SUFFICES ASSUME Inv, NEW n \in Node, NEW w \in AllWords
               PROVE  LET reply == Reply(n, w)
                          all   == storage[n][Normalized(w)]
                      IN  /\ \A u \in ToSet(reply) : \E v \in Words[u] : SameWord(v, w)
                          /\ IsPrefix(reply, all)
                          /\ Total(reply) <= MaximalSize
                          /\ reply # all =>
                                Total(SubSeq(all, 1, Len(reply) + 1)) > MaximalSize
    BY DEF RepliesRight
  <2> DEFINE k == Normalized(w)
             all == storage[n][k]
             reply == Serialized(all)
  <2>1. k \in Keyword /\ w \in Seq(Byte)
    BY IndexingAssumption DEF AllWords, Keyword, Keywords
  <2>2. Reply(n, w) = reply
    BY <2>1 DEF Reply
  <2>3. all \in Seq(Url) /\ \A u \in ToSet(all) : k \in Keywords(u)
    BY <2>1 DEF Inv, TypeOK, StoredUnderKeywords
  <2>4. ASSUME NEW u \in ToSet(all)
        PROVE  \E v \in Words[u] : SameWord(v, w)
    <3>1. u \in Url /\ k \in Keywords(u)
      BY <2>3 DEF ToSet
    <3>2. PICK v \in Words[u] : Normalized(v) = k
      BY <3>1 DEF Keywords
    <3>3. v \in Seq(Byte)
      BY <3>1, IndexingAssumption
    <3> QED
      BY <2>1, <3>2, <3>3, SameNormalized
  <2> HIDE DEF all
  <2>5. /\ ToSet(reply) \subseteq ToSet(all)
        /\ IsPrefix(reply, all)
        /\ Total(reply) <= MaximalSize
        /\ reply # all => Total(SubSeq(all, 1, Len(reply) + 1)) > MaximalSize
    BY <2>3, SerializedFits
  <2> QED
    BY <2>2, <2>4, <2>5 DEF all
<1> QED
  BY <1>1, Invariant, PTL

-------------------------------------------------------------------------------
(***************************************************************************)
(* Why the crawl ends                                                      *)
(***************************************************************************)

\* A put gets out for a URL that a client adds now, or for a link of a put that is used
\* up, with one parameter less.
CrawlUsedUp ==
    [][\A q \in puts' \ puts :
          \/ q.parameter = Depth /\ q.url \in since' \ since
          \/ \E p \in puts \ puts' : q.parameter + 1 = p.parameter /\ q.url \in Links[p.url]]_vars

\* However pages link to each other and however often the DHT shows a put, crawling uses
\* up what clients add (url-processor.c:111).
THEOREM CrawlsUsedUp == Spec => CrawlUsedUp
<1>1. ASSUME Inv, Next, NEW q \in puts' \ puts
      PROVE  \/ q.parameter = Depth /\ q.url \in since' \ since
             \/ \E p \in puts \ puts' : q.parameter + 1 = p.parameter /\ q.url \in Links[p.url]
  <2>1. ASSUME NEW urls \in SUBSET Url, UrlListPut(urls)
        PROVE  q.parameter = Depth /\ q.url \in since' \ since
    <3>1. PICK new \in Shown(urls, Depth) : puts' = puts \cup new
      BY <2>1 DEF UrlListPut
    <3>2. q.url \in urls /\ q.parameter = Depth
      BY <3>1, ShownPuts DEF Depth
    <3> QED
      BY <2>1, <3>2 DEF UrlListPut
  <2>2. ASSUME NEW p \in puts, IncomingUrlProcess(p)
        PROVE  p \notin puts' /\ q.parameter + 1 = p.parameter /\ q.url \in Links[p.url]
    <3>1. PICK new \in Followed(p) : puts' = (puts \ {p}) \cup new
      BY <2>2 DEF IncomingUrlProcess
    <3>2. p \in Put /\ p.parameter \in 0 .. Depth
      BY <1>1, <2>2 DEF Inv, TypeOK, Put
    <3>3. \A r \in new : r.url \in Links[p.url] /\ r.parameter = p.parameter - 1
      BY <3>2, FollowedPuts
    <3>4. p.parameter - 1 # p.parameter /\ p.parameter - 1 + 1 = p.parameter
      BY <3>2
    <3> QED
      BY <3>1, <3>3, <3>4
  <2>3. ASSUME NEW n \in Node, Restart(n)
        PROVE  FALSE
    BY <2>3 DEF Restart
  <2>4. CASE \E urls \in SUBSET Url : UrlListPut(urls)
    BY <2>1, <2>4
  <2>5. CASE \E p \in puts : IncomingUrlProcess(p)
    BY <2>2, <2>5
  <2> QED
    BY <2>3, <2>4, <2>5, <1>1 DEF Next
<1>2. Inv /\ [Next]_vars =>
          [\A q \in puts' \ puts :
              \/ q.parameter = Depth /\ q.url \in since' \ since
              \/ \E p \in puts \ puts' :
                    q.parameter + 1 = p.parameter /\ q.url \in Links[p.url]]_vars
  BY <1>1
<1> QED
  BY <1>2, Invariant, PTL DEF Spec, CrawlUsedUp
===============================================================================
