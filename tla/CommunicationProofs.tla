-------------------------- MODULE CommunicationProofs --------------------------
(***************************************************************************)
(* What holds of the fragments of Communication for any messages, sizes    *)
(* and delays.  Whether or not GNUnet refuses requests or gives up on      *)
(* them, and with disconnects at any time, the memory of a fragment is     *)
(* freed once and not while it is in use, and no byte arrives twice or out *)
(* of order.  With one message at a time, and requests that are served,    *)
(* the component is a reliable channel.                                    *)
(***************************************************************************)
EXTENDS Communication, SequenceTheorems, TLAPS

LOCAL INSTANCE SequencesExt
LOCAL INSTANCE WellFoundedInduction

-------------------------------------------------------------------------------
(***************************************************************************)
(* Fragments                                                               *)
(***************************************************************************)

\* Multiples of d keep their distance.
LEMMA Multiples ==
    ASSUME NEW d \in Nat \ {0}, NEW i \in Int, NEW j \in Int, i < j
    PROVE  i * d + d <= j * d
<1>1. PICK e \in Nat : j = i + 1 + e
  <2>1. j - i - 1 \in Nat /\ j = i + 1 + (j - i - 1)
    OBVIOUS
  <2> QED
    BY <2>1
<1>2. (i + 1 + e) * d = i * d + d + e * d
  OBVIOUS
<1>3. e * d >= 0
  OBVIOUS
<1>4. i * d \in Int /\ e * d \in Int /\ j * d \in Int
  OBVIOUS
<1> QED
  BY <1>1, <1>2, <1>3, <1>4

\* The parts before the last do not hold the whole message.
LEMMA PartsCover ==
    ASSUME NEW m \in Message
    PROVE  /\ Parts(m) \in Nat \ {0}
           /\ (Parts(m) - 1) * MaxPayload < Size[m]
           /\ Size[m] <= Parts(m) * MaxPayload
<1> DEFINE n == Size[m] + MaxPayload - 1
<1>1. MaxPayload \in Nat \ {0} /\ Size[m] \in Nat \ {0} /\ n \in Nat /\ n >= MaxPayload
  BY CommunicationAssumption
<1>2. Parts(m) = n \div MaxPayload
  BY DEF Parts
<1> HIDE DEF n
<1>3. /\ n \div MaxPayload \in Nat
      /\ (n \div MaxPayload) * MaxPayload <= n
      /\ n < (n \div MaxPayload) * MaxPayload + MaxPayload
  BY <1>1
<1>4. n \div MaxPayload >= 1
  BY <1>1
<1>5. (Parts(m) - 1) * MaxPayload = Parts(m) * MaxPayload - MaxPayload
  BY <1>1, <1>2, <1>3
<1>6. /\ Parts(m) * MaxPayload <= Size[m] + MaxPayload - 1
      /\ Size[m] + MaxPayload - 1 < Parts(m) * MaxPayload + MaxPayload
  BY <1>2, <1>3 DEF n
<1>7. Parts(m) * MaxPayload \in Int
  BY <1>1, <1>2, <1>3
<1> QED
  BY <1>1, <1>2, <1>3, <1>4, <1>5, <1>6, <1>7

\* The part i of a message holds its bytes from (i - 1) * MaxPayload + 1 on: as many as
\* fit, and in the last part the rest.
LEMMA FragmentBytes ==
    ASSUME NEW m \in Message, NEW i \in 1 .. Parts(m)
    PROVE  LET payload == Fragment(m, i).payload
               from    == (i - 1) * MaxPayload
           IN  /\ from \in Nat /\ from + Len(payload) <= Size[m]
               /\ payload \in Seq(Message \X Nat) /\ Len(payload) \in 1 .. MaxPayload
               /\ payload = SubSeq(Bytes(m), from + 1, from + Len(payload))
               /\ \A k \in DOMAIN payload : k \in 1 .. MaxPayload /\ payload[k] = <<m, from + k>>
               /\ i < Parts(m) => Len(payload) = MaxPayload
               /\ i = Parts(m) => from + Len(payload) = Size[m]
<1> DEFINE from == (i - 1) * MaxPayload
           to == IF i < Parts(m) THEN i * MaxPayload ELSE Size[m]
           payload == Fragment(m, i).payload
<1>1. MaxPayload \in Nat \ {0} /\ Size[m] \in Nat \ {0} /\ Parts(m) \in Nat /\ i \in Nat
  BY CommunicationAssumption, PartsCover
<1>2. from \in Nat /\ i * MaxPayload = from + MaxPayload
  BY <1>1
<1>3. from < Size[m] /\ (i < Parts(m) => from + MaxPayload < Size[m])
  <2>1. CASE i = Parts(m)
    BY <2>1, PartsCover
  <2>2. CASE i < Parts(m)
    <3>1. from + MaxPayload <= (Parts(m) - 1) * MaxPayload
      BY <1>1, <2>2, Multiples
    <3>2. (Parts(m) - 1) * MaxPayload \in Int
      BY <1>1
    <3> QED
      BY <1>1, <1>2, <3>1, <3>2, PartsCover
  <2> QED
    BY <1>1, <2>1, <2>2
<1>4. i = Parts(m) => Size[m] <= from + MaxPayload
  BY <1>2, PartsCover
<1>5. payload = SubSeq(Bytes(m), from + 1, to)
  BY DEF Fragment
<1> HIDE DEF from
<1>6. to \in Nat /\ from < to /\ to <= Size[m] /\ to <= from + MaxPayload
  BY <1>1, <1>2, <1>3, <1>4
<1>7. (i < Parts(m) => to = from + MaxPayload) /\ (i = Parts(m) => to = Size[m])
  BY <1>1, <1>2
<1> HIDE DEF to, payload
<1>8. \A k \in from + 1 .. to : Bytes(m)[k] = <<m, k>> /\ Bytes(m)[k] \in Message \X Nat
  BY <1>1, <1>2, <1>6 DEF Bytes
<1>9. /\ payload \in Seq(Message \X Nat)
      /\ Len(payload) = to - from
      /\ \A k \in 1 .. to - from : payload[k] = Bytes(m)[from + k]
  BY <1>2, <1>5, <1>6, <1>8, SubSeqProperties
<1>10. \A k \in DOMAIN payload : k \in 1 .. MaxPayload /\ payload[k] = <<m, from + k>>
  <2> TAKE k \in DOMAIN payload
  <2>1. k \in 1 .. to - from /\ k \in 1 .. MaxPayload /\ from + k \in from + 1 .. to
    BY <1>1, <1>2, <1>6, <1>9
  <2> QED
    BY <1>8, <1>9, <2>1
<1>11. to = from + Len(payload)
  BY <1>2, <1>6, <1>9
<1> QED
  BY <1>1, <1>2, <1>5, <1>6, <1>7, <1>9, <1>10, <1>11 DEF payload, from

\* Every fragment starts with a byte of its own.
LEMMA FirstByte ==
    ASSUME NEW m \in Message, NEW i \in 1 .. Parts(m)
    PROVE  Fragment(m, i).payload[1] = <<m, (i - 1) * MaxPayload + 1>>
  BY FragmentBytes

\* No two parts are the same fragment.
LEMMA FragmentsDiffer ==
    ASSUME NEW m \in Message, NEW i \in 1 .. Parts(m),
           NEW n \in Message, NEW j \in 1 .. Parts(n),
           Fragment(m, i) = Fragment(n, j)
    PROVE  m = n /\ i = j
<1>1. <<m, (i - 1) * MaxPayload + 1>> = <<n, (j - 1) * MaxPayload + 1>>
  BY FirstByte
<1>2. MaxPayload \in Nat \ {0} /\ i \in Int /\ j \in Int
  BY CommunicationAssumption, PartsCover
<1>3. m = n /\ (i - 1) * MaxPayload + 1 = (j - 1) * MaxPayload + 1
  BY <1>1
<1>4. (i - 1) * MaxPayload \in Int /\ (j - 1) * MaxPayload \in Int
  BY <1>2
<1>5. ~(i < j) /\ ~(j < i)
  <2>1. ASSUME i < j PROVE FALSE
    <3>1. (i - 1) * MaxPayload + MaxPayload <= (j - 1) * MaxPayload
      BY <1>2, <2>1, Multiples
    <3> QED
      BY <1>2, <1>3, <1>4, <3>1
  <2>2. ASSUME j < i PROVE FALSE
    <3>1. (j - 1) * MaxPayload + MaxPayload <= (i - 1) * MaxPayload
      BY <1>2, <2>2, Multiples
    <3> QED
      BY <1>2, <1>3, <1>4, <3>1
  <2> QED
    BY <2>1, <2>2
<1> QED
  BY <1>2, <1>3, <1>5

-------------------------------------------------------------------------------
(***************************************************************************)
(* The invariant                                                           *)
(***************************************************************************)

MemoryTypes ==
    /\ queue \in Seq(Fragments) /\ tasks \in Nat
    /\ request \in Fragments \cup {NoRequest}
    /\ timer \in [Fragments -> Off .. FreeDelay]
    /\ freed \subseteq Fragments

\* The free task of the fragment GNUnet holds is still to come when GNUnet gives up.
AskedInTime == request # NoRequest => timer[request] \in 0 .. MaxDelay

\* The fragments of a message that was not transmitted are nowhere.
Untouched ==
    \A m \in Message \ used : \A i \in 1 .. Parts(m) :
        /\ Fragment(m, i) \notin Queued \cup freed
        /\ timer[Fragment(m, i)] = Off

MemoryInv == MemoryTypes /\ MemorySafe /\ AskedInTime /\ Untouched

\* The fragments of a message are fragments, each of them once.
LEMMA SplitParts ==
    ASSUME NEW m \in Message
    PROVE  /\ Split(m) \in Seq(Fragments)
           /\ \A i \in DOMAIN Split(m) : i \in 1 .. Parts(m) /\ Split(m)[i] = Fragment(m, i)
           /\ \A i, j \in DOMAIN Split(m) : Split(m)[i] = Split(m)[j] => i = j
<1>1. Parts(m) \in Nat /\ \A i \in 1 .. Parts(m) : Fragment(m, i) \in Fragments
  BY PartsCover DEF Fragments
<1>2. Split(m) \in Seq(Fragments) /\ DOMAIN Split(m) = 1 .. Parts(m)
  BY <1>1 DEF Split
<1>3. \A i \in 1 .. Parts(m) : Split(m)[i] = Fragment(m, i)
  BY DEF Split
<1> QED
  BY <1>2, <1>3, FragmentsDiffer

\* What follows the head of a queue without repetitions is in the queue, once, and is
\* not the head.
LEMMA TailDistinct ==
    ASSUME NEW S, NEW s \in Seq(S), s # <<>>, \A i, j \in DOMAIN s : s[i] = s[j] => i = j
    PROVE  /\ Tail(s) \in Seq(S) /\ Head(s) \in S /\ Head(s) = s[1] /\ 1 \in DOMAIN s
           /\ \A i \in DOMAIN Tail(s) : i + 1 \in DOMAIN s /\ Tail(s)[i] = s[i + 1]
           /\ \A i \in DOMAIN Tail(s) : Tail(s)[i] # Head(s)
           /\ \A i, j \in DOMAIN Tail(s) : Tail(s)[i] = Tail(s)[j] => i = j
<1>1. /\ Tail(s) \in Seq(S) /\ Head(s) \in S /\ Head(s) = s[1] /\ 1 \in DOMAIN s
      /\ DOMAIN Tail(s) = 1 .. Len(s) - 1 /\ Len(s) \in Nat /\ DOMAIN s = 1 .. Len(s)
  BY HeadTailProperties
<1>2. \A i \in DOMAIN Tail(s) : i \in Nat /\ i + 1 \in DOMAIN s /\ i + 1 # 1 /\ Tail(s)[i] = s[i + 1]
  BY <1>1
<1>3. \A i, j \in DOMAIN Tail(s) : i + 1 = j + 1 => i = j
  BY <1>2
<1> QED
  BY <1>1, <1>2, <1>3

\* An element of a concatenation is one of either part.
LEMMA ConcatParts ==
    ASSUME NEW S, NEW s \in Seq(S), NEW t \in Seq(S), NEW i \in DOMAIN (s \o t)
    PROVE  \/ i \in DOMAIN s /\ (s \o t)[i] = s[i]
           \/ i - Len(s) \in DOMAIN t /\ (s \o t)[i] = t[i - Len(s)] /\ i \notin DOMAIN s
<1>1. Len(s) \in Nat /\ Len(t) \in Nat /\ i \in 1 .. Len(s) + Len(t)
  OBVIOUS
<1>2. CASE i <= Len(s)
  BY <1>1, <1>2
<1>3. CASE i > Len(s)
  BY <1>1, <1>3
<1> QED
  BY <1>1, <1>2, <1>3

\* At first nothing is queued, requested or freed.
LEMMA InitMemory == Init => MemoryInv
<1> SUFFICES ASSUME Init PROVE MemoryInv
  OBVIOUS
<1>1. Off \in Off .. FreeDelay
  BY CommunicationAssumption DEF Off, FreeDelay
<1>2. \A m \in Message : \A i \in 1 .. Parts(m) : Fragment(m, i) \in Fragments
  BY DEF Fragments
<1> QED
  BY <1>1, <1>2 DEF Init, MemoryInv, MemoryTypes, MemorySafe, AskedInTime, Untouched, Queued

\* No step frees what is in use, or uses what is freed.
LEMMA StepMemory ==
    ASSUME MemoryInv, [Next]_vars
    PROVE  MemoryInv'
<1> USE DEF MemoryInv
<1>d. MaxDelay \in Nat \ {0} /\ Off = -1 /\ FreeDelay = MaxDelay + 1
  BY CommunicationAssumption DEF Off, FreeDelay
<1>f. \A m \in Message : \A i \in 1 .. Parts(m) : Fragment(m, i) \in Fragments
  BY DEF Fragments
<1>0. CASE UNCHANGED vars
  BY <1>0 DEF vars, MemoryTypes, MemorySafe, AskedInTime, Untouched, Queued
<1>1. ASSUME NEW m \in Message, Transmit(m)
      PROVE  MemoryInv'
  <2>1. /\ m \notin used /\ used' = used \cup {m}
        /\ queue' = queue \o Split(m) /\ tasks' = tasks + 1
        /\ UNCHANGED <<request, timer, freed>>
    BY <1>1 DEF Transmit
  <2>2. MemoryTypes'
    BY <2>1, SplitParts, ConcatProperties DEF MemoryTypes
  <2>3. \A p \in Queued' : p \in Queued \/ \E i \in 1 .. Parts(m) : p = Fragment(m, i)
    BY <2>1, SplitParts, ConcatParts DEF Queued, MemoryTypes
  <2>4. \A i \in 1 .. Parts(m) :
            /\ Fragment(m, i) \notin Queued \cup freed /\ timer[Fragment(m, i)] = Off
            /\ Fragment(m, i) # request
    BY <1>d, <1>f, <2>1, NoRequestAssumption DEF Untouched, AskedInTime
  <2>5. \A i, j \in DOMAIN queue' : queue'[i] = queue'[j] => i = j
    <3> SUFFICES ASSUME NEW i \in DOMAIN (queue \o Split(m)), NEW j \in DOMAIN (queue \o Split(m)),
                        (queue \o Split(m))[i] = (queue \o Split(m))[j]
                 PROVE  i = j
      BY <2>1
    <3> DEFINE n == Len(queue)
               all == queue \o Split(m)
    <3>1. queue \in Seq(Fragments) /\ Split(m) \in Seq(Fragments) /\ n \in Nat /\ i \in Int /\ j \in Int
      BY SplitParts DEF MemoryTypes
    <3>2. /\ \/ i \in DOMAIN queue /\ all[i] = queue[i]
             \/ i - n \in DOMAIN Split(m) /\ all[i] = Split(m)[i - n]
          /\ \/ j \in DOMAIN queue /\ all[j] = queue[j]
             \/ j - n \in DOMAIN Split(m) /\ all[j] = Split(m)[j - n]
      BY <3>1, ConcatParts
    <3> HIDE DEF n, all
    <3>3. \A k \in DOMAIN queue, l \in DOMAIN Split(m) : queue[k] # Split(m)[l]
      BY <2>4, SplitParts DEF Queued
    <3>4. CASE i \in DOMAIN queue /\ all[i] = queue[i] /\ j \in DOMAIN queue /\ all[j] = queue[j]
      BY <3>4 DEF MemorySafe, all
    <3>5. CASE /\ i - n \in DOMAIN Split(m) /\ all[i] = Split(m)[i - n]
               /\ j - n \in DOMAIN Split(m) /\ all[j] = Split(m)[j - n]
      <4>1. i - n = j - n
        BY <3>5, SplitParts DEF all
      <4> QED
        BY <3>1, <4>1
    <3> QED
      BY <3>2, <3>3, <3>4, <3>5 DEF all
  <2>6. MemorySafe'
    BY <2>1, <2>3, <2>4, <2>5 DEF MemorySafe
  <2>7. AskedInTime'
    BY <2>1 DEF AskedInTime
  <2>8. Untouched'
    <3> SUFFICES ASSUME NEW n \in Message \ used', NEW i \in 1 .. Parts(n)
                 PROVE  /\ Fragment(n, i) \notin Queued' \cup freed
                        /\ timer[Fragment(n, i)] = Off
      BY <2>1 DEF Untouched
    <3>1. n \in Message \ used /\ n # m
      BY <2>1
    <3>2. \A j \in 1 .. Parts(m) : Fragment(n, i) # Fragment(m, j)
      BY <3>1, FragmentsDiffer
    <3> QED
      BY <2>3, <3>1, <3>2 DEF Untouched
  <2> QED
    BY <2>2, <2>6, <2>7, <2>8
<1>2. CASE TransmitNext
  <2>1. CASE queue = <<>>
    <3>1. tasks' \in Nat
      BY <1>2 DEF TransmitNext, MemoryTypes
    <3> QED
      BY <1>2, <2>1, <3>1 DEF TransmitNext, MemoryTypes, MemorySafe, AskedInTime, Untouched, Queued
  <2>2. CASE queue # <<>>
    <3> DEFINE h == Head(queue)
    <3>1. /\ queue' = Tail(queue) /\ timer' = [timer EXCEPT ![h] = 0]
          /\ request' = IF request = NoRequest THEN h ELSE request
          /\ tasks' = tasks - 1 /\ tasks > 0
          /\ UNCHANGED <<freed, used>>
      BY <1>2, <2>2 DEF TransmitNext
    <3>2. /\ Tail(queue) \in Seq(Fragments) /\ h \in Fragments /\ h \in Queued
          /\ \A p \in Queued' : p \in Queued /\ p # h
          /\ \A i, j \in DOMAIN queue' : queue'[i] = queue'[j] => i = j
      BY <2>2, <3>1, TailDistinct DEF MemoryTypes, MemorySafe, Queued
    <3> HIDE DEF h
    <3>3. h \notin freed /\ h # NoRequest
      BY <3>2, NoRequestAssumption DEF MemorySafe
    <3>4. MemoryTypes'
      BY <1>d, <3>1, <3>2 DEF MemoryTypes
    <3>5. timer'[h] = 0 /\ \A p \in Fragments : p # h => timer'[p] = timer[p]
      BY <3>1, <3>2 DEF MemoryTypes
    <3>6. MemorySafe'
      BY <3>1, <3>2, <3>3, <3>5 DEF MemorySafe, MemoryTypes
    <3>7. AskedInTime'
      BY <1>d, <3>1, <3>3, <3>5 DEF AskedInTime, MemoryTypes
    <3>8. Untouched'
      BY <1>f, <3>1, <3>2, <3>5 DEF Untouched
    <3> QED
      BY <3>4, <3>6, <3>7, <3>8
  <2> QED
    BY <2>1, <2>2
<1>3. CASE TransmitReady
  <2>1. tasks' \in Nat
    BY <1>3 DEF TransmitReady, MemoryTypes
  <2> QED
    BY <1>3, <2>1, NoRequestAssumption
    DEF TransmitReady, MemoryTypes, MemorySafe, AskedInTime, Untouched, Queued
<1>4. CASE RequestTimeout
  BY <1>4, NoRequestAssumption
  DEF RequestTimeout, MemoryTypes, MemorySafe, AskedInTime, Untouched, Queued
<1>5. ASSUME NEW p \in Fragments, QueuedMessageFreeTask(p)
      PROVE  MemoryInv'
  <2>1. /\ timer[p] = FreeDelay /\ timer' = [timer EXCEPT ![p] = Off]
        /\ freed' = freed \cup {p} /\ UNCHANGED <<queue, tasks, request, used>>
    BY <1>5 DEF QueuedMessageFreeTask
  <2>2. p \notin Queued /\ p # request
    BY <1>d, <2>1, NoRequestAssumption DEF MemorySafe, AskedInTime
  <2>3. timer'[p] = Off /\ \A q \in Fragments : q # p => timer'[q] = timer[q]
    BY <2>1 DEF MemoryTypes
  <2>4. \A m \in Message \ used : \A i \in 1 .. Parts(m) : Fragment(m, i) # p
    BY <1>d, <2>1 DEF Untouched
  <2>5. MemoryTypes'
    BY <1>d, <2>1 DEF MemoryTypes
  <2>6. MemorySafe'
    <3>1. Queued' = Queued /\ Queued \subseteq Fragments
      BY <2>1 DEF Queued, MemoryTypes
    <3> QED
      BY <2>1, <2>2, <2>3, <3>1 DEF MemorySafe
  <2>7. AskedInTime'
    BY <2>1, <2>2, <2>3 DEF AskedInTime, MemoryTypes
  <2>8. Untouched'
    BY <1>f, <2>1, <2>3, <2>4 DEF Untouched, Queued
  <2> QED
    BY <2>5, <2>6, <2>7, <2>8
<1>6. CASE Tick
  <2>1. /\ \A p \in Fragments : timer[p] < FreeDelay
        /\ request # NoRequest => timer[request] < MaxDelay
        /\ timer' = [p \in Fragments |-> IF timer[p] = Off THEN Off ELSE timer[p] + 1]
        /\ UNCHANGED <<queue, tasks, request, freed, used>>
    BY <1>6 DEF Tick
  <2>2. \A p \in Fragments : /\ timer[p] \in Off .. FreeDelay
                             /\ timer'[p] = IF timer[p] = Off THEN Off ELSE timer[p] + 1
    BY <2>1 DEF MemoryTypes
  <2>3. \A p \in Fragments : timer'[p] \in Off .. FreeDelay /\ (timer'[p] = Off <=> timer[p] = Off)
    BY <1>d, <2>1, <2>2
  <2>4. MemoryTypes'
    BY <2>1, <2>3 DEF MemoryTypes
  <2>5. MemorySafe'
    <3>1. Queued' = Queued /\ Queued \subseteq Fragments
      BY <2>1 DEF Queued, MemoryTypes
    <3> QED
      BY <2>1, <2>3, <3>1 DEF MemorySafe
  <2>6. AskedInTime'
    <3> SUFFICES ASSUME request # NoRequest PROVE timer'[request] \in 0 .. MaxDelay
      BY <2>1 DEF AskedInTime
    <3>1. request \in Fragments /\ timer[request] \in 0 .. MaxDelay /\ timer[request] < MaxDelay
      BY <2>1 DEF MemoryTypes, AskedInTime
    <3>2. timer'[request] = timer[request] + 1
      BY <1>d, <2>2, <3>1
    <3> QED
      BY <1>d, <3>1, <3>2
  <2>7. Untouched'
    BY <1>f, <2>1, <2>3 DEF Untouched, Queued
  <2> QED
    BY <2>4, <2>5, <2>6, <2>7
<1>7. CASE Receive
  BY <1>7 DEF Receive, MemoryTypes, MemorySafe, AskedInTime, Untouched, Queued
<1>8. CASE Disconnect
  <2>1. /\ queue' = <<>> /\ freed' = freed \cup Queued /\ request' = NoRequest
        /\ UNCHANGED <<tasks, timer, used>>
    BY <1>8 DEF Disconnect
  <2>2. Queued' = {} /\ Queued \subseteq Fragments
    BY <2>1 DEF Queued, MemoryTypes
  <2> QED
    BY <2>1, <2>2 DEF MemoryTypes, MemorySafe, AskedInTime, Untouched
<1>9. CASE OtherDisconnect
  <2>1. /\ \/ queue' = <<>> /\ freed' = freed \cup Queued
           \/ UNCHANGED <<queue, freed>>
        /\ UNCHANGED <<tasks, request, timer, used>>
    BY <1>9 DEF OtherDisconnect
  <2>2. CASE queue' = <<>> /\ freed' = freed \cup Queued
    <3>1. Queued' = {} /\ Queued \subseteq Fragments
      BY <2>2 DEF Queued, MemoryTypes
    <3> QED
      BY <2>1, <2>2, <3>1 DEF MemoryTypes, MemorySafe, AskedInTime, Untouched
  <2>3. CASE UNCHANGED <<queue, freed>>
    BY <2>1, <2>3 DEF MemoryTypes, MemorySafe, AskedInTime, Untouched, Queued
  <2> QED
    BY <2>1, <2>2, <2>3
<1> QED
  BY <1>0, <1>1, <1>2, <1>3, <1>4, <1>5, <1>6, <1>7, <1>8, <1>9 DEF Next

\* A fragment is freed once, and not while the queue or GNUnet refers to it, whatever
\* is refused, given up or flushed (communication.c:162, 199, 239).
THEOREM MemoryIsSafe == Spec => []MemorySafe
<1>1. MemoryInv => MemorySafe
  BY DEF MemoryInv
<1>2. Spec => []MemoryInv
  BY InitMemory, StepMemory, PTL DEF Spec
<1> QED
  BY <1>1, <1>2, PTL

-------------------------------------------------------------------------------
(***************************************************************************)
(* FlattenSeq, which puts fragments together                               *)
(***************************************************************************)

\* The naturals are well-founded.
LEMMA NaturalsWellFounded ==
    IsWellFoundedOn({r \in Nat \X Nat : r[1] < r[2]}, Nat)
  BY NatLessThanWellFounded DEF OpToRel

\* A set of naturals that is not empty has a smallest element.
LEMMA Smallest ==
    ASSUME NEW T \in SUBSET Nat, T # {}
    PROVE  \E n \in T : \A m \in T : n <= m
<1> DEFINE R == {r \in Nat \X Nat : r[1] < r[2]}
<1>1. IsWellFoundedOn(R, Nat)
  BY NaturalsWellFounded
<1> HIDE DEF R
<1>2. PICK n \in T : \A m \in T : ~(<<m, n>> \in R)
  BY <1>1, WFMin
<1>3. \A m \in T : m \in Nat /\ ~(m < n)
  BY <1>2 DEF R
<1> QED
  BY <1>3

\* The equation of the function that FlattenSeq defines recursively.
Flattens(f, s) == f = [i \in 1 .. Len(s) |-> IF i = 1 THEN s[i] ELSE f[i - 1] \o s[i]]

\* There is such a function: the shortest beginning of s without one would have one.
LEMMA FlattenExists ==
    ASSUME NEW S, NEW s \in Seq(S)
    PROVE  \E f : Flattens(f, s)
<1> DEFINE Upto(n, f) == f = [i \in 1 .. n |-> IF i = 1 THEN s[i] ELSE f[i - 1] \o s[i]]
           Bad == {n \in Nat : n <= Len(s) /\ ~(\E f : Upto(n, f))}
<1>1. SUFFICES ASSUME Bad # {} PROVE FALSE
  <2>1. Len(s) \in Nat /\ Len(s) <= Len(s)
    OBVIOUS
  <2>2. (\E f : Upto(Len(s), f)) => \E f : Flattens(f, s)
    BY Zenon DEF Flattens
  <2> QED
    BY <2>1, <2>2
<1>2. PICK n \in Bad : \A m \in Bad : n <= m
  BY <1>1, Smallest
<1>3. n # 0
  <2>1. Upto(0, <<>>)
    OBVIOUS
  <2> QED
    BY <2>1
<1>4. PICK f : Upto(n - 1, f)
  <2>1. n - 1 \in Nat /\ n - 1 <= Len(s) /\ ~(n <= n - 1) /\ Len(s) \in Nat
    BY <1>2, <1>3
  <2>2. n - 1 \notin Bad
    BY <1>2, <2>1
  <2> QED
    BY <2>1, <2>2, Zenon
<1> DEFINE g == [i \in 1 .. n |-> IF i = n THEN (IF i = 1 THEN s[i] ELSE f[i - 1] \o s[i]) ELSE f[i]]
<1>5. n \in Nat /\ n >= 1
  BY <1>3
<1>6. \A i \in 1 .. n : g[i] = IF i = 1 THEN s[i] ELSE g[i - 1] \o s[i]
  <2> TAKE i \in 1 .. n
  <2>1. CASE i = n
    <3>1. CASE i = 1
      BY <2>1, <3>1
    <3>2. CASE i # 1
      <4>1. i - 1 \in 1 .. n /\ i - 1 # n
        BY <1>5, <3>2
      <4> QED
        BY <2>1, <3>2, <4>1
    <3> QED
      BY <3>1, <3>2
  <2>2. CASE i # n
    <3>0. i \in 1 .. n - 1
      BY <1>5, <2>2
    <3>1. f[i] = IF i = 1 THEN s[i] ELSE f[i - 1] \o s[i]
      BY <1>4, <3>0, Zenon
    <3>2. i # 1 => i - 1 \in 1 .. n /\ i - 1 # n
      BY <1>5, <3>0
    <3> QED
      BY <2>2, <3>1, <3>2
  <2> QED
    BY <2>1, <2>2
<1>7. Upto(n, g)
  BY <1>6, Zenon
<1> QED
  BY <1>2, <1>7

\* The functions of two sequences agree as far as the sequences do.
LEMMA FlattenUnique ==
    ASSUME NEW S, NEW s \in Seq(S), NEW t \in Seq(S), Len(s) <= Len(t),
           \A i \in 1 .. Len(s) : s[i] = t[i],
           NEW f, Flattens(f, s), NEW g, Flattens(g, t)
    PROVE  \A i \in 1 .. Len(s) : f[i] = g[i]
<1> DEFINE Bad == {i \in 1 .. Len(s) : f[i] # g[i]}
<1>0. Len(s) \in Nat /\ Len(t) \in Nat
  OBVIOUS
<1>1. SUFFICES ASSUME Bad # {} PROVE FALSE
  OBVIOUS
<1>2. PICK n \in Bad : \A m \in Bad : n <= m
  BY <1>1, Smallest, Bad \in SUBSET Nat
<1>3. f[n] = IF n = 1 THEN s[n] ELSE f[n - 1] \o s[n]
  BY <1>0, Zenon DEF Flattens
<1>4. n \in 1 .. Len(t) /\ g[n] = IF n = 1 THEN t[n] ELSE g[n - 1] \o t[n]
  <2>1. n \in 1 .. Len(t)
    BY <1>0
  <2> QED
    BY <2>1, Zenon DEF Flattens
<1>5. n # 1 => f[n - 1] = g[n - 1]
  BY <1>0, <1>2
<1> QED
  BY <1>3, <1>4, <1>5

\* FlattenSeq is the last value of that function.
LEMMA FlattenIs ==
    ASSUME NEW S, NEW s \in Seq(S), s # <<>>
    PROVE  \E f : Flattens(f, s) /\ FlattenSeq(s) = f[Len(s)]
<1>1. Len(s) # 0
  OBVIOUS
<1>2. FlattenSeq(s) = (CHOOSE f : Flattens(f, s))[Len(s)]
  BY <1>1 DEF FlattenSeq, Flattens
<1>3. Flattens(CHOOSE f : Flattens(f, s), s)
  BY FlattenExists, Zenon
<1> QED
  BY <1>2, <1>3

\* FlattenSeq goes through a sequence from its front.
LEMMA FlattenAppend ==
    ASSUME NEW T, NEW s \in Seq(T), NEW e \in T, <<>> \o e = e
    PROVE  /\ FlattenSeq(<<>>) = <<>>
           /\ FlattenSeq(Append(s, e)) = FlattenSeq(s) \o e
<1>0. FlattenSeq(<<>>) = <<>>
  BY DEF FlattenSeq
<1> DEFINE t == Append(s, e)
<1>1. /\ t \in Seq(T) /\ t # <<>> /\ Len(t) = Len(s) + 1 /\ t[Len(t)] = e /\ Len(s) \in Nat
      /\ \A i \in 1 .. Len(s) : t[i] = s[i]
  OBVIOUS
<1> HIDE DEF t
<1>2. PICK g : Flattens(g, t) /\ FlattenSeq(t) = g[Len(t)]
  BY <1>1, FlattenIs
<1>3. g[Len(t)] = IF Len(t) = 1 THEN e ELSE g[Len(s)] \o e
  <2>1. Len(t) \in 1 .. Len(t) /\ Len(t) - 1 = Len(s)
    BY <1>1
  <2>2. g[Len(t)] = IF Len(t) = 1 THEN t[Len(t)] ELSE g[Len(t) - 1] \o t[Len(t)]
    BY <1>2, <2>1, Zenon DEF Flattens
  <2> QED
    BY <1>1, <2>1, <2>2
<1>4. FlattenSeq(t) = FlattenSeq(s) \o e
  <2>1. CASE s = <<>>
    <3>1. Len(t) = 1
      BY <1>1, <2>1
    <3>2. FlattenSeq(s) = <<>>
      BY <1>0, <2>1
    <3> QED
      BY <1>2, <1>3, <3>1, <3>2
  <2>2. CASE s # <<>>
    <3>1. PICK f : Flattens(f, s) /\ FlattenSeq(s) = f[Len(s)]
      BY <2>2, FlattenIs
    <3>2. Len(s) \in 1 .. Len(s) /\ Len(t) # 1 /\ Len(s) <= Len(t)
      BY <1>1, <2>2
    <3>3. f[Len(s)] = g[Len(s)]
      BY <1>1, <1>2, <3>1, <3>2, FlattenUnique
    <3> QED
      BY <1>2, <1>3, <3>1, <3>2, <3>3
  <2> QED
    BY <2>1, <2>2
<1> QED
  BY <1>0, <1>4 DEF t

\* The bytes of the received fragments are a sequence of bytes; the next fragment's are
\* added at its end.
LEMMA AssembledAppend ==
    ASSUME NEW s \in Seq(Fragments), NEW p \in Fragments
    PROVE  /\ Assembled(<<>>) = <<>>
           /\ Assembled(Append(s, p)) = Assembled(s) \o p.payload
<1> DEFINE payloads == [i \in DOMAIN s |-> s[i].payload]
           all == [i \in DOMAIN Append(s, p) |-> Append(s, p)[i].payload]
           B == Seq(Message \X Nat)
<1>1. \A q \in Fragments : q.payload \in B
  BY FragmentBytes DEF Fragments
<1>2. payloads \in Seq(B) /\ p.payload \in B /\ <<>> \o p.payload = p.payload
  BY <1>1
<1>3. all = Append(payloads, p.payload)
  OBVIOUS
<1>4. /\ FlattenSeq(<<>>) = <<>>
      /\ FlattenSeq(Append(payloads, p.payload)) = FlattenSeq(payloads) \o p.payload
  <2> HIDE DEF payloads, B
  <2> QED
    BY <1>2, FlattenAppend
<1>5. Assembled(<<>>) = <<>>
  BY <1>4 DEF Assembled
<1> QED
  BY <1>3, <1>4, <1>5 DEF Assembled

-------------------------------------------------------------------------------
(***************************************************************************)
(* The fragments that are under way, in the order they were cut: those on  *)
(* the connection, the one GNUnet is asked to transmit, those queued.      *)
(***************************************************************************)

Asked == IF request = NoRequest THEN <<>> ELSE <<request>>

UnderWay == wire \o Asked \o queue

\* s is what remains of t when some elements are taken out.
Within(s, t) ==
    \E at \in [DOMAIN s -> DOMAIN t] :
        /\ \A i \in DOMAIN s : s[i] = t[at[i]]
        /\ \A i, j \in DOMAIN s : i < j => at[i] < at[j]

PipeTypes ==
    /\ queue \in Seq(Fragments) /\ wire \in Seq(Fragments) /\ fragments \in Seq(Fragments)
    /\ request \in Fragments \cup {NoRequest}

\* A sequence is within itself.
LEMMA WithinSelf ==
    ASSUME NEW s
    PROVE  Within(s, s)
<1> DEFINE at == [i \in DOMAIN s |-> i]
<1>1. at \in [DOMAIN s -> DOMAIN s] /\ \A i \in DOMAIN s : at[i] = i
  OBVIOUS
<1> HIDE DEF at
<1> QED
  BY <1>1 DEF Within

\* A beginning of a sequence is within it.
LEMMA WithinStart ==
    ASSUME NEW S, NEW a \in Seq(S), NEW b \in Seq(S)
    PROVE  Within(a, a \o b)
<1> DEFINE t == a \o b
           at == [i \in DOMAIN a |-> i]
<1>1. /\ DOMAIN a = 1 .. Len(a) /\ Len(a) \in Nat /\ Len(b) \in Nat
      /\ DOMAIN t = 1 .. Len(a) + Len(b)
      /\ \A i \in 1 .. Len(a) : t[i] = a[i]
  BY ConcatProperties
<1> HIDE DEF t
<1>2. at \in [DOMAIN a -> DOMAIN t] /\ \A i \in DOMAIN a : at[i] = i
  BY <1>1
<1> HIDE DEF at
<1>3. Within(a, t)
  BY <1>1, <1>2 DEF Within
<1> QED
  BY <1>3 DEF t

\* What is left when an element is dropped is within the sequence.
LEMMA WithinDropped ==
    ASSUME NEW S, NEW a \in Seq(S), NEW x \in S, NEW b \in Seq(S)
    PROVE  Within(a \o b, a \o <<x>> \o b)
<1> DEFINE s == a \o b
           t == a \o <<x>> \o b
           at == [i \in DOMAIN s |-> IF i <= Len(a) THEN i ELSE i + 1]
<1>1. Len(a) \in Nat /\ Len(b) \in Nat /\ <<x>> \in Seq(S) /\ a \o <<x>> \in Seq(S)
      /\ Len(a \o <<x>>) = Len(a) + 1
  OBVIOUS
<1>2. /\ s \in Seq(S) /\ Len(s) = Len(a) + Len(b)
      /\ \A i \in 1 .. Len(a) + Len(b) : s[i] = IF i <= Len(a) THEN a[i] ELSE b[i - Len(a)]
  BY ConcatProperties
<1>3. /\ t \in Seq(S) /\ Len(t) = Len(a) + 1 + Len(b)
      /\ \A i \in 1 .. Len(a) + 1 + Len(b) :
            t[i] = IF i <= Len(a) + 1 THEN (a \o <<x>>)[i] ELSE b[i - (Len(a) + 1)]
  <2> DEFINE c == a \o <<x>>
  <2>1. c \in Seq(S) /\ Len(c) = Len(a) + 1
    BY <1>1
  <2> HIDE DEF c
  <2>2. /\ c \o b \in Seq(S) /\ Len(c \o b) = Len(c) + Len(b)
        /\ \A i \in 1 .. Len(c) + Len(b) : (c \o b)[i] = IF i <= Len(c) THEN c[i] ELSE b[i - Len(c)]
    BY <2>1, ConcatProperties
  <2> QED
    BY <2>1, <2>2 DEF c
<1>4. \A i \in 1 .. Len(a) : (a \o <<x>>)[i] = a[i]
  OBVIOUS
<1> HIDE DEF s, t
<1>5. DOMAIN s = 1 .. Len(a) + Len(b) /\ DOMAIN t = 1 .. Len(a) + 1 + Len(b)
  BY <1>2, <1>3
<1>6. at \in [DOMAIN s -> DOMAIN t]
  BY <1>1, <1>5
<1>7. \A i \in DOMAIN s : i \in Nat /\ at[i] = IF i <= Len(a) THEN i ELSE i + 1
  BY <1>5
<1> HIDE DEF at
<1>8. \A i \in DOMAIN s : s[i] = t[at[i]]
  <2> TAKE i \in DOMAIN s
  <2>1. CASE i <= Len(a)
    <3>1. i \in 1 .. Len(a) /\ i \in 1 .. Len(a) + 1 + Len(b) /\ i <= Len(a) + 1
      BY <1>1, <1>5, <2>1
    <3> QED
      BY <1>2, <1>3, <1>4, <1>5, <1>7, <2>1, <3>1
  <2>2. CASE i > Len(a)
    <3>1. i + 1 \in 1 .. Len(a) + 1 + Len(b) /\ ~(i + 1 <= Len(a) + 1) /\ ~(i <= Len(a))
          /\ i + 1 - (Len(a) + 1) = i - Len(a)
      BY <1>1, <1>5, <2>2
    <3>2. at[i] = i + 1
      BY <1>7, <3>1
    <3>3. t[i + 1] = b[i + 1 - (Len(a) + 1)]
      <4> DEFINE k == i + 1
      <4>1. k \in 1 .. Len(a) + 1 + Len(b) /\ ~(k <= Len(a) + 1)
        BY <3>1
      <4> HIDE DEF k
      <4>2. t[k] = b[k - (Len(a) + 1)]
        BY <1>3, <4>1, Zenon
      <4> QED
        BY <4>2 DEF k
    <3>4. s[i] = b[i - Len(a)]
      BY <1>2, <1>5, <3>1
    <3> QED
      BY <3>1, <3>2, <3>3, <3>4
  <2> QED
    BY <1>1, <1>7, <2>1, <2>2
<1>9. \A i, j \in DOMAIN s : i < j => at[i] < at[j]
  BY <1>1, <1>7
<1>10. Within(s, t)
  BY <1>6, <1>8, <1>9 DEF Within
<1> QED
  BY <1>10 DEF s, t

\* The tail of a sequence is within it.
LEMMA WithinTail ==
    ASSUME NEW S, NEW s \in Seq(S), s # <<>>
    PROVE  Within(Tail(s), s)
<1> DEFINE at == [i \in DOMAIN Tail(s) |-> i + 1]
<1>1. /\ Len(s) \in Nat \ {0} /\ Tail(s) \in Seq(S) /\ Len(Tail(s)) = Len(s) - 1
      /\ \A i \in 1 .. Len(Tail(s)) : Tail(s)[i] = s[i + 1]
  BY HeadTailProperties
<1>2. DOMAIN Tail(s) = 1 .. Len(s) - 1 /\ DOMAIN s = 1 .. Len(s)
  BY <1>1
<1>3. at \in [DOMAIN Tail(s) -> DOMAIN s] /\ \A i \in DOMAIN Tail(s) : at[i] = i + 1 /\ i \in Nat
  BY <1>1, <1>2
<1> HIDE DEF at
<1> QED
  BY <1>1, <1>2, <1>3 DEF Within

\* The first of several parts, and what follows it.
LEMMA ConcatTail ==
    ASSUME NEW S, NEW s \in Seq(S), NEW t \in Seq(S), s # <<>>
    PROVE  s \o t # <<>> /\ Head(s \o t) = Head(s) /\ Tail(s \o t) = Tail(s) \o t
<1>1. /\ Len(s) \in Nat \ {0} /\ Tail(s) \in Seq(S) /\ Len(Tail(s)) = Len(s) - 1
      /\ \A i \in 1 .. Len(Tail(s)) : Tail(s)[i] = s[i + 1]
  BY HeadTailProperties
<1> DEFINE u == s \o t
<1>2. /\ u \in Seq(S) /\ Len(u) = Len(s) + Len(t) /\ Len(t) \in Nat
      /\ \A i \in 1 .. Len(s) + Len(t) : u[i] = IF i <= Len(s) THEN s[i] ELSE t[i - Len(s)]
  BY ConcatProperties
<1> HIDE DEF u
<1>3. u # <<>> /\ Head(u) = u[1] /\ Head(s) = s[1] /\ u[1] = s[1]
  BY <1>1, <1>2
<1>4. /\ Tail(u) \in Seq(S) /\ Len(Tail(u)) = Len(u) - 1
      /\ \A i \in 1 .. Len(Tail(u)) : Tail(u)[i] = u[i + 1]
  BY <1>2, <1>3, HeadTailProperties
<1>5. /\ Tail(s) \o t \in Seq(S) /\ Len(Tail(s) \o t) = Len(s) - 1 + Len(t)
      /\ \A i \in 1 .. Len(s) - 1 + Len(t) :
            (Tail(s) \o t)[i] = IF i <= Len(s) - 1 THEN Tail(s)[i] ELSE t[i - (Len(s) - 1)]
  BY <1>1, ConcatProperties
<1>6. \A i \in 1 .. Len(s) - 1 + Len(t) : Tail(u)[i] = (Tail(s) \o t)[i]
  <2> TAKE i \in 1 .. Len(s) - 1 + Len(t)
  <2>1. Tail(u)[i] = u[i + 1] /\ i + 1 \in 1 .. Len(s) + Len(t)
    BY <1>1, <1>2, <1>4
  <2>2. CASE i <= Len(s) - 1
    <3>1. i + 1 <= Len(s) /\ i \in 1 .. Len(Tail(s))
      BY <1>1, <2>2
    <3>2. u[i + 1] = s[i + 1]
      BY <1>2, <2>1, <3>1, Zenon
    <3> QED
      BY <1>1, <1>5, <2>1, <2>2, <3>1, <3>2
  <2>3. CASE i > Len(s) - 1
    <3>1. i + 1 - Len(s) = i - (Len(s) - 1) /\ ~(i + 1 <= Len(s)) /\ ~(i <= Len(s) - 1)
      BY <1>1, <2>3
    <3>2. u[i + 1] = t[i + 1 - Len(s)]
      <4> DEFINE k == i + 1
      <4>1. k \in 1 .. Len(s) + Len(t) /\ ~(k <= Len(s))
        BY <2>1, <3>1
      <4> HIDE DEF k
      <4>2. u[k] = t[k - Len(s)]
        BY <1>2, <4>1, Zenon
      <4> QED
        BY <4>2 DEF k
    <3>3. (Tail(s) \o t)[i] = t[i - (Len(s) - 1)]
      BY <1>5, <3>1
    <3> QED
      BY <2>1, <3>1, <3>2, <3>3
  <2>4. i <= Len(s) - 1 \/ i > Len(s) - 1
    BY <1>1
  <2> QED
    BY <2>2, <2>3, <2>4, Zenon
<1>7. Tail(u) = Tail(s) \o t
  BY <1>1, <1>2, <1>4, <1>5, <1>6, SeqEqual
<1> QED
  BY <1>3, <1>7 DEF u

\* What is queued, asked for, on the connection or kept is a fragment.
LEMMA StepTypes ==
    ASSUME PipeTypes, [Next]_vars
    PROVE  PipeTypes'
<1> USE DEF PipeTypes
<1>1. ASSUME NEW m \in Message, Transmit(m)
      PROVE  PipeTypes'
  BY <1>1, SplitParts, ConcatProperties DEF Transmit
<1>2. CASE TransmitNext
  <2>1. queue # <<>> => Head(queue) \in Fragments /\ Tail(queue) \in Seq(Fragments)
    BY HeadTailProperties
  <2> QED
    BY <1>2, <2>1 DEF TransmitNext
<1>3. CASE TransmitReady
  BY <1>3 DEF TransmitReady
<1>4. CASE Receive
  <2>1. Tail(wire) \in Seq(Fragments) /\ Head(wire) \in Fragments
    BY <1>4, HeadTailProperties DEF Receive
  <2>2. fragments' \in {fragments, <<>>, Append(fragments, Head(wire))}
    BY <1>4, <2>1 DEF Receive, Fragments, Fragment
  <2>3. wire' = Tail(wire) /\ UNCHANGED <<queue, request>>
    BY <1>4 DEF Receive
  <2>4. fragments' \in Seq(Fragments)
    <3>1. Append(fragments, Head(wire)) \in Seq(Fragments) /\ <<>> \in Seq(Fragments)
      BY <2>1
    <3> QED
      BY <2>2, <3>1
  <2>5. queue' \in Seq(Fragments) /\ request' \in Fragments \cup {NoRequest}
    BY <2>3
  <2> QED
    BY <2>1, <2>3, <2>4, <2>5
<1>5. CASE RequestTimeout
  BY <1>5 DEF RequestTimeout
<1>6. CASE Disconnect
  BY <1>6 DEF Disconnect
<1>7. CASE UNCHANGED <<queue, wire, fragments, request>>
  BY <1>7
<1>8. CASE OtherDisconnect
  <2>1. UNCHANGED <<wire, request>> /\ queue' \in {queue, <<>>} /\ fragments' \in {fragments, <<>>}
    BY <1>8 DEF OtherDisconnect
  <2>2. <<>> \in Seq(Fragments)
    OBVIOUS
  <2> QED
    BY <2>1, <2>2
<1> QED
  BY <1>1, <1>2, <1>3, <1>4, <1>5, <1>6, <1>7, <1>8 DEF Next, QueuedMessageFreeTask, Tick, vars

\* A message adds its fragments at the end, a receipt takes the first one, the end of a
\* session all of them; nothing else but a refusal, a timeout or the flush for another
\* client changes what is under way.
LEMMA StepUnderWay ==
    ASSUME PipeTypes, [Next]_vars
    PROVE  /\ UnderWay \in Seq(Fragments)
           /\ \/ \E m \in Message : Transmit(m) /\ UnderWay' = UnderWay \o Split(m)
              \/ /\ Receive /\ UnderWay # <<>>
                 /\ Head(UnderWay) = Head(wire) /\ UnderWay' = Tail(UnderWay)
              \/ Disconnect /\ UnderWay' = <<>>
              \/ OtherDisconnect /\ Within(UnderWay', UnderWay)
              \/ /\ Within(UnderWay', UnderWay)
                 /\ UNCHANGED <<sent, used, fragments, delivered>>
                 /\ UnderWay' = UnderWay \/ Stalls \/ (tasks > 0 /\ request # NoRequest)
<1> DEFINE Rest == Asked \o queue
           Same == /\ Within(UnderWay', UnderWay)
                   /\ UNCHANGED <<sent, used, fragments, delivered>>
                   /\ UnderWay' = UnderWay \/ Stalls \/ (tasks > 0 /\ request # NoRequest)
<1> USE DEF PipeTypes
<1>1. Asked \in Seq(Fragments) /\ wire \in Seq(Fragments) /\ queue \in Seq(Fragments)
  BY DEF Asked
<1>2. UnderWay = wire \o Rest /\ Rest \in Seq(Fragments) /\ UnderWay \in Seq(Fragments)
  BY <1>1, ConcatAssociative, ConcatProperties DEF UnderWay
<1>3. ASSUME NEW m \in Message, Transmit(m)
      PROVE  UnderWay' = UnderWay \o Split(m)
  <2>1. UnderWay' = wire \o Asked \o (queue \o Split(m))
    BY <1>3 DEF Transmit, UnderWay, Asked
  <2> DEFINE a == wire \o Asked
  <2>2. a \in Seq(Fragments) /\ Split(m) \in Seq(Fragments)
    BY <1>1, SplitParts, ConcatProperties
  <2>3. UnderWay = a \o queue /\ UnderWay' = a \o (queue \o Split(m))
    BY <2>1 DEF UnderWay
  <2> HIDE DEF a
  <2>4. (a \o queue) \o Split(m) = a \o (queue \o Split(m))
    BY <1>1, <2>2, ConcatAssociative
  <2> QED
    BY <2>3, <2>4
<1>4. ASSUME TransmitNext
      PROVE  Same
  <2>1. CASE queue = <<>>
    <3>1. UNCHANGED <<sent, used, fragments, delivered, wire, queue, request>>
      BY <1>4, <2>1 DEF TransmitNext
    <3>2. UnderWay' = UnderWay
      BY <3>1 DEF UnderWay, Asked
    <3> QED
      BY <3>1, <3>2, WithinSelf
  <2>2. CASE queue # <<>>
    <3> DEFINE h == Head(queue)
               rest == Tail(queue)
    <3>1. h \in Fragments /\ rest \in Seq(Fragments) /\ queue = <<h>> \o rest
      <4>1. h \in Fragments /\ rest \in Seq(Fragments) /\ Len(rest) = Len(queue) - 1
            /\ \A i \in 1 .. Len(rest) : rest[i] = queue[i + 1]
        BY <2>2, HeadTailProperties
      <4>2. h = queue[1] /\ Len(queue) \in Nat \ {0}
        BY <2>2
      <4> HIDE DEF h, rest
      <4>3. /\ <<h>> \o rest \in Seq(Fragments) /\ Len(<<h>> \o rest) = Len(queue)
            /\ \A i \in 1 .. Len(queue) : (<<h>> \o rest)[i] = IF i <= 1 THEN <<h>>[i] ELSE rest[i - 1]
        BY <4>1, <4>2
      <4>4. \A i \in 1 .. Len(queue) : (<<h>> \o rest)[i] = queue[i]
        <5> TAKE i \in 1 .. Len(queue)
        <5>1. CASE i = 1
          BY <4>2, <4>3, <5>1
        <5>2. CASE i # 1
          <6>1. i - 1 \in 1 .. Len(rest) /\ i - 1 + 1 = i /\ ~(i <= 1)
            BY <4>1, <4>2, <5>2
          <6>2. rest[i - 1] = queue[i - 1 + 1]
            BY <4>1, <6>1, Zenon
          <6> QED
            BY <4>3, <6>1, <6>2
        <5> QED
          BY <5>1, <5>2
      <4> QED
        BY <4>1, <4>3, <4>4, SeqEqual
    <3>2. /\ queue' = rest /\ UNCHANGED <<sent, used, fragments, delivered, wire>>
          /\ request' = IF request = NoRequest THEN h ELSE request
          /\ tasks > 0
      BY <1>4, <2>2 DEF TransmitNext
    <3> HIDE DEF h, rest
    <3>3. h # NoRequest
      BY <3>1, NoRequestAssumption
    <3>4. CASE request = NoRequest
      <4>1. UnderWay = wire \o queue
        BY <1>1, <3>4, ConcatEmptySeq DEF UnderWay, Asked
      <4>2. UnderWay' = wire \o <<h>> \o rest
        BY <3>2, <3>3, <3>4 DEF UnderWay, Asked
      <4>3. wire \o <<h>> \o rest = wire \o (<<h>> \o rest)
        BY <1>1, <3>1, ConcatAssociative, <<h>> \in Seq(Fragments)
      <4>4. UnderWay' = UnderWay
        BY <3>1, <4>1, <4>2, <4>3
      <4> QED
        BY <3>2, <4>4, WithinSelf
    <3>5. CASE request # NoRequest
      <4> DEFINE a == wire \o Asked
      <4>1. a \in Seq(Fragments)
        BY <1>1, ConcatProperties
      <4>2. UnderWay' = a \o rest
        BY <3>2, <3>5 DEF UnderWay, Asked
      <4>3. UnderWay = a \o (<<h>> \o rest)
        BY <3>1 DEF UnderWay
      <4> HIDE DEF a
      <4>4. a \o (<<h>> \o rest) = a \o <<h>> \o rest
        BY <3>1, <4>1, ConcatAssociative, <<h>> \in Seq(Fragments)
      <4>5. Within(UnderWay', UnderWay)
        BY <3>1, <4>1, <4>2, <4>3, <4>4, WithinDropped
      <4> QED
        BY <3>2, <3>5, <4>5
    <3> QED
      BY <3>4, <3>5
  <2> QED
    BY <2>1, <2>2
<1>5. ASSUME TransmitReady
      PROVE  Same
  <2>1. /\ UNCHANGED <<sent, used, fragments, delivered, queue>>
        /\ request # NoRequest /\ request' = NoRequest /\ wire' = Append(wire, request)
    BY <1>5 DEF TransmitReady
  <2>2. wire' = wire \o <<request>> /\ wire' \in Seq(Fragments)
    BY <2>1
  <2>3. UnderWay' = UnderWay
    BY <2>1, <2>2, ConcatEmptySeq DEF UnderWay, Asked
  <2> QED
    BY <2>1, <2>3, WithinSelf
<1>6. ASSUME RequestTimeout
      PROVE  Same
  <2>1. /\ UNCHANGED <<sent, used, fragments, delivered, queue, wire>>
        /\ Stalls /\ request # NoRequest /\ request' = NoRequest
    BY <1>6 DEF RequestTimeout
  <2>2. UnderWay' = wire \o queue
    BY <2>1, ConcatEmptySeq DEF UnderWay, Asked
  <2>3. UnderWay = wire \o <<request>> \o queue
    BY <2>1 DEF UnderWay, Asked
  <2>4. Within(UnderWay', UnderWay)
    BY <1>1, <2>1, <2>2, <2>3, WithinDropped
  <2> QED
    BY <2>1, <2>4
<1>7. ASSUME UNCHANGED <<sent, used, fragments, delivered, queue, wire, request>>
      PROVE  Same
  <2>1. UnderWay' = UnderWay
    BY <1>7 DEF UnderWay, Asked
  <2> QED
    BY <1>7, <2>1, WithinSelf
<1>8. ASSUME Receive
      PROVE  UnderWay # <<>> /\ Head(UnderWay) = Head(wire) /\ UnderWay' = Tail(UnderWay)
  <2>1. wire # <<>> /\ wire' = Tail(wire) /\ UNCHANGED <<queue, request>>
    BY <1>8 DEF Receive
  <2>2. UnderWay' = Tail(wire) \o Rest
    <3>1. UnderWay' = Tail(wire) \o Asked \o queue
      BY <2>1 DEF UnderWay, Asked
    <3>2. Tail(wire) \in Seq(Fragments)
      BY <2>1, HeadTailProperties
    <3> QED
      BY <1>1, <3>1, <3>2, ConcatAssociative
  <2> HIDE DEF Rest
  <2> QED
    BY <1>2, <2>1, <2>2, ConcatTail
<1>9. ASSUME Disconnect
      PROVE  UnderWay' = <<>>
  <2>1. wire' = <<>> /\ queue' = <<>> /\ request' = NoRequest
    BY <1>9 DEF Disconnect
  <2>2. UnderWay' = <<>>
    BY <2>1 DEF UnderWay, Asked
  <2> QED
    BY <2>2
<1>10. \/ UNCHANGED <<sent, used, fragments, delivered, queue, wire, request>>
       \/ (\E m \in Message : Transmit(m)) \/ TransmitNext \/ TransmitReady
       \/ RequestTimeout \/ Receive \/ Disconnect \/ OtherDisconnect
  BY DEF Next, QueuedMessageFreeTask, Tick, vars
<1>11. ASSUME OtherDisconnect
       PROVE  Within(UnderWay', UnderWay)
  <2>1. UNCHANGED <<wire, request>> /\ queue' \in {queue, <<>>}
    BY <1>11 DEF OtherDisconnect
  <2>2. CASE queue' = queue
    <3>1. UnderWay' = UnderWay
      BY <2>1, <2>2 DEF UnderWay, Asked
    <3> QED
      BY <3>1, WithinSelf
  <2>3. CASE queue' = <<>>
    <3> DEFINE a == wire \o Asked
    <3>1. a \in Seq(Fragments)
      BY <1>1, ConcatProperties
    <3>2. UnderWay = a \o queue /\ UnderWay' = a \o <<>>
      BY <2>1, <2>3 DEF UnderWay, Asked
    <3> HIDE DEF a
    <3>3. UnderWay' = a
      BY <3>1, <3>2, ConcatEmptySeq
    <3> QED
      BY <1>1, <3>1, <3>2, <3>3, WithinStart
  <2> QED
    BY <2>1, <2>2, <2>3
<1> QED
  BY <1>2, <1>3, <1>4, <1>5, <1>6, <1>7, <1>8, <1>9, <1>10, <1>11

-------------------------------------------------------------------------------
(***************************************************************************)
(* The order of the bytes                                                  *)
(***************************************************************************)

Buffer == Seq(Message \X Nat)

\* Before, when s was sent.
Earlier(s, x, y) ==
    \/ \E i, j \in DOMAIN s : i < j /\ s[i] = x[1] /\ s[j] = y[1]
    \/ x[1] = y[1] /\ x[2] < y[2]

Once(s) == \A i, j \in DOMAIN s : s[i] = s[j] => i = j

\* A buffer holds bytes of messages that were sent; its bytes are in order; a buffer
\* is ahead of another; two buffers share no byte.
Known(s, a) == \A k \in DOMAIN a : \E n \in DOMAIN s : s[n] = a[k][1]

Ordered(s, a) == \A k, l \in DOMAIN a : k < l => Earlier(s, a[k], a[l])

Ahead(s, a, b) == \A k \in DOMAIN a, l \in DOMAIN b : Earlier(s, a[k], b[l])

Apart(a, b) == \A k \in DOMAIN a, l \in DOMAIN b : a[k] # b[l]

\* What the receiver has of the messages s, while the fragments of pipe are under way.
Settled(s, pipe, a) ==
    /\ a \in Buffer /\ Known(s, a) /\ Ordered(s, a)
    /\ \A j \in DOMAIN pipe : Ahead(s, a, pipe[j].payload)

InOrder(s, pipe, buffers, kept) ==
    /\ Settled(s, pipe, kept)
    /\ \A i \in DOMAIN buffers : Settled(s, pipe, buffers[i]) /\ Apart(buffers[i], kept)
    /\ \A i, j \in DOMAIN buffers : i # j => Apart(buffers[i], buffers[j])
    /\ \A j \in DOMAIN pipe : Known(s, pipe[j].payload)
    /\ \A i, j \in DOMAIN pipe : i < j => Ahead(s, pipe[i].payload, pipe[j].payload)

\* The bytes of a fragment are in order.
LEMMA FragmentOrdered ==
    ASSUME NEW s, NEW p \in Fragments
    PROVE  p.payload \in Buffer /\ Ordered(s, p.payload)
<1>0. PICK m \in Message : \E i \in 1 .. Parts(m) : p = Fragment(m, i)
  BY DEF Fragments
<1>1. PICK i \in 1 .. Parts(m) : p = Fragment(m, i)
  BY <1>0
<1> DEFINE from == (i - 1) * MaxPayload
<1>2. /\ from \in Nat /\ p.payload \in Buffer
      /\ \A k \in DOMAIN p.payload : p.payload[k] = <<m, from + k>>
  BY <1>1, FragmentBytes DEF Buffer
<1> HIDE DEF from
<1>3. \A k \in DOMAIN p.payload : k \in Nat
  BY <1>2 DEF Buffer
<1>4. \A k, l \in DOMAIN p.payload : k < l => Earlier(s, p.payload[k], p.payload[l])
  <2> SUFFICES ASSUME NEW k \in DOMAIN p.payload, NEW l \in DOMAIN p.payload, k < l
               PROVE  Earlier(s, p.payload[k], p.payload[l])
    OBVIOUS
  <2>1. p.payload[k] = <<m, from + k>> /\ p.payload[l] = <<m, from + l>> /\ from + k < from + l
    BY <1>2, <1>3
  <2> QED
    BY <2>1 DEF Earlier
<1> QED
  BY <1>2, <1>4 DEF Ordered

\* The parts of a message are in order.
LEMMA PartsOrdered ==
    ASSUME NEW s, NEW m \in Message, NEW i \in 1 .. Parts(m), NEW j \in 1 .. Parts(m), i < j
    PROVE  Ahead(s, Fragment(m, i).payload, Fragment(m, j).payload)
<1> SUFFICES ASSUME NEW k \in DOMAIN Fragment(m, i).payload,
                    NEW l \in DOMAIN Fragment(m, j).payload
             PROVE  Earlier(s, Fragment(m, i).payload[k], Fragment(m, j).payload[l])
  BY DEF Ahead
<1>1. MaxPayload \in Nat \ {0} /\ i - 1 \in Int /\ j - 1 \in Int /\ i - 1 < j - 1
  BY CommunicationAssumption, PartsCover
<1>2. (i - 1) * MaxPayload + MaxPayload <= (j - 1) * MaxPayload
  BY <1>1, Multiples
<1>3. /\ (i - 1) * MaxPayload \in Nat /\ k \in 1 .. MaxPayload
      /\ Fragment(m, i).payload[k] = <<m, (i - 1) * MaxPayload + k>>
  BY <1>1, FragmentBytes
<1>4. /\ (j - 1) * MaxPayload \in Nat /\ l \in 1 .. MaxPayload
      /\ Fragment(m, j).payload[l] = <<m, (j - 1) * MaxPayload + l>>
  BY <1>1, FragmentBytes
<1>5. (i - 1) * MaxPayload + k < (j - 1) * MaxPayload + l
  BY <1>1, <1>2, <1>3, <1>4
<1> QED
  BY <1>3, <1>4, <1>5 DEF Earlier

\* No byte is ahead of itself.
LEMMA AheadApart ==
    ASSUME NEW s \in Seq(Message), Once(s), NEW a \in Buffer, NEW b \in Buffer, Ahead(s, a, b)
    PROVE  Apart(a, b)
<1> SUFFICES ASSUME NEW k \in DOMAIN a, NEW l \in DOMAIN b, a[k] = b[l]
             PROVE  FALSE
  BY DEF Apart
<1>1. a[k] \in Message \X Nat
  BY DEF Buffer
<1>2. Earlier(s, a[k], a[k])
  BY DEF Ahead
<1>3. a[k][2] \in Nat
  BY <1>1
<1>4. ~(a[k][2] < a[k][2])
  BY <1>3
<1>5. PICK i \in DOMAIN s, j \in DOMAIN s : i < j /\ s[i] = s[j]
  BY <1>2, <1>4 DEF Earlier
<1>6. i \in Nat
  OBVIOUS
<1> QED
  BY <1>5, <1>6 DEF Once

\* A buffer and a later one, put together.
LEMMA Joined ==
    ASSUME NEW s, NEW pipe, NEW a, NEW b,
           Settled(s, pipe, a), Settled(s, pipe, b), Ahead(s, a, b)
    PROVE  Settled(s, pipe, a \o b)
<1> DEFINE c == a \o b
<1>1. a \in Buffer /\ b \in Buffer /\ Len(a) \in Nat /\ Len(b) \in Nat
  BY DEF Settled, Buffer
<1>2. c \in Buffer
  BY <1>1, ConcatProperties DEF Buffer
<1>3. \A k \in DOMAIN c : \/ k \in DOMAIN a /\ c[k] = a[k]
                          \/ k - Len(a) \in DOMAIN b /\ c[k] = b[k - Len(a)] /\ k \notin DOMAIN a
  BY <1>1, ConcatParts DEF Buffer
<1>4. \A k \in DOMAIN c : k \in Nat
  BY <1>2 DEF Buffer
<1>5. DOMAIN a = 1 .. Len(a)
  BY <1>1 DEF Buffer
<1> HIDE DEF c
<1>6. Known(s, c)
  BY <1>3 DEF Settled, Known
<1>7. Ordered(s, c)
  <2> SUFFICES ASSUME NEW k \in DOMAIN c, NEW l \in DOMAIN c, k < l
               PROVE  Earlier(s, c[k], c[l])
    BY DEF Ordered
  <2>1. CASE k \in DOMAIN a /\ c[k] = a[k]
    <3>1. CASE l \in DOMAIN a /\ c[l] = a[l]
      BY <2>1, <3>1 DEF Settled, Ordered
    <3>2. CASE l - Len(a) \in DOMAIN b /\ c[l] = b[l - Len(a)]
      BY <2>1, <3>2 DEF Ahead
    <3> QED
      BY <1>3, <3>1, <3>2
  <2>2. CASE k - Len(a) \in DOMAIN b /\ c[k] = b[k - Len(a)] /\ k \notin DOMAIN a
    <3>1. l \notin DOMAIN a /\ k - Len(a) < l - Len(a)
      BY <1>1, <1>4, <1>5, <2>2
    <3>2. l - Len(a) \in DOMAIN b /\ c[l] = b[l - Len(a)]
      BY <1>3, <3>1
    <3> QED
      BY <2>2, <3>1, <3>2 DEF Settled, Ordered
  <2> QED
    BY <1>3, <2>1, <2>2
<1>8. \A j \in DOMAIN pipe : Ahead(s, c, pipe[j].payload)
  <2> SUFFICES ASSUME NEW j \in DOMAIN pipe, NEW k \in DOMAIN c, NEW l \in DOMAIN pipe[j].payload
               PROVE  Earlier(s, c[k], pipe[j].payload[l])
    BY DEF Ahead
  <2> QED
    BY <1>3 DEF Settled, Ahead
<1> QED
  BY <1>2, <1>6, <1>7, <1>8 DEF Settled, c

\* A fragment that gets lost leaves the others in order.
LEMMA ThinnedInOrder ==
    ASSUME NEW s, NEW pipe, NEW rest, NEW buffers, NEW kept,
           InOrder(s, pipe, buffers, kept), Within(rest, pipe)
    PROVE  InOrder(s, rest, buffers, kept)
<1>1. PICK at \in [DOMAIN rest -> DOMAIN pipe] :
          /\ \A i \in DOMAIN rest : rest[i] = pipe[at[i]]
          /\ \A i, j \in DOMAIN rest : i < j => at[i] < at[j]
  BY DEF Within
<1>2. \A a : Settled(s, pipe, a) => Settled(s, rest, a)
  BY <1>1 DEF Settled
<1>3. \A j \in DOMAIN rest : Known(s, rest[j].payload)
  BY <1>1 DEF InOrder
<1>4. \A i, j \in DOMAIN rest : i < j => Ahead(s, rest[i].payload, rest[j].payload)
  BY <1>1 DEF InOrder
<1> QED
  BY <1>2, <1>3, <1>4 DEF InOrder

\* A complete buffer is delivered and another one kept.
LEMMA DeliveredInOrder ==
    ASSUME NEW s, NEW pipe, NEW buffers \in Seq(Buffer), NEW kept, NEW a, NEW b,
           InOrder(s, pipe, buffers, kept), Settled(s, pipe, a), Settled(s, pipe, b), Apart(a, b),
           \A i \in DOMAIN buffers : Apart(buffers[i], a) /\ Apart(buffers[i], b)
    PROVE  InOrder(s, pipe, Append(buffers, a), b)
<1> DEFINE all == Append(buffers, a)
<1>1. \A i \in DOMAIN all : \/ i \in DOMAIN buffers /\ all[i] = buffers[i]
                            \/ i = Len(buffers) + 1 /\ all[i] = a /\ i \notin DOMAIN buffers
  OBVIOUS
<1> HIDE DEF all
<1>2. \A i \in DOMAIN all : Settled(s, pipe, all[i]) /\ Apart(all[i], b)
  BY <1>1 DEF InOrder
<1>3. \A i, j \in DOMAIN all : i # j => Apart(all[i], all[j])
  <2>1. \A i \in DOMAIN buffers : Apart(a, buffers[i])
    BY DEF Apart
  <2> QED
    BY <1>1, <2>1 DEF InOrder
<1> QED
  BY <1>2, <1>3 DEF InOrder, all

\* The first fragment that is under way arrives: it is settled, and what was kept can be
\* put together with it.
LEMMA ArrivedInOrder ==
    ASSUME NEW s \in Seq(Message), Once(s), NEW pipe \in Seq(Fragments), pipe # <<>>,
           NEW buffers \in Seq(Buffer), NEW kept, InOrder(s, pipe, buffers, kept)
    PROVE  LET a    == Head(pipe).payload
               rest == Tail(pipe)
           IN  /\ Settled(s, rest, a) /\ Settled(s, rest, kept \o a) /\ Apart(a, kept)
               /\ \A i \in DOMAIN buffers : Apart(buffers[i], a) /\ Apart(buffers[i], kept \o a)
               /\ InOrder(s, rest, buffers, kept)
<1> DEFINE p == Head(pipe)
           rest == Tail(pipe)
<1>1. /\ p \in Fragments /\ p = pipe[1] /\ 1 \in DOMAIN pipe
      /\ rest \in Seq(Fragments)
      /\ \A i \in DOMAIN rest : i + 1 \in DOMAIN pipe /\ 1 < i + 1 /\ rest[i] = pipe[i + 1]
  <2>1. /\ Head(pipe) \in Fragments /\ Tail(pipe) \in Seq(Fragments)
        /\ Len(Tail(pipe)) = Len(pipe) - 1 /\ Len(pipe) \in Nat \ {0}
        /\ \A i \in 1 .. Len(Tail(pipe)) : Tail(pipe)[i] = pipe[i + 1]
    BY HeadTailProperties
  <2> QED
    BY <2>1
<1>2. InOrder(s, rest, buffers, kept)
  BY WithinTail, ThinnedInOrder
<1> HIDE DEF p, rest
<1>3. p.payload \in Buffer /\ Ordered(s, p.payload)
  BY <1>1, FragmentOrdered
<1>4. Settled(s, rest, p.payload)
  BY <1>1, <1>3 DEF Settled, InOrder
<1>5. Settled(s, pipe, kept) /\ Settled(s, rest, kept) /\ Ahead(s, kept, p.payload)
  BY <1>1, <1>2 DEF Settled, InOrder
<1>6. Settled(s, rest, kept \o p.payload)
  BY <1>4, <1>5, Joined
<1>7. Apart(kept, p.payload) /\ Apart(p.payload, kept)
  <2>1. Apart(kept, p.payload)
    BY <1>3, <1>5, AheadApart DEF Settled
  <2> QED
    BY <2>1 DEF Apart
<1>8. ASSUME NEW i \in DOMAIN buffers
      PROVE  Apart(buffers[i], p.payload) /\ Apart(buffers[i], kept \o p.payload)
  <2>1. buffers[i] \in Buffer /\ Ahead(s, buffers[i], p.payload) /\ Apart(buffers[i], kept)
    BY <1>1 DEF InOrder, Settled
  <2>2. Apart(buffers[i], p.payload)
    BY <1>3, <2>1, AheadApart
  <2>3. \A k \in DOMAIN (kept \o p.payload) :
            (\E l \in DOMAIN kept : (kept \o p.payload)[k] = kept[l])
            \/ \E l \in DOMAIN p.payload : (kept \o p.payload)[k] = p.payload[l]
    <3>1. kept \in Seq(Message \X Nat) /\ p.payload \in Seq(Message \X Nat)
      BY <1>3, <1>5 DEF Settled, Buffer
    <3> TAKE k \in DOMAIN (kept \o p.payload)
    <3>2. \/ k \in DOMAIN kept /\ (kept \o p.payload)[k] = kept[k]
          \/ /\ k - Len(kept) \in DOMAIN p.payload
             /\ (kept \o p.payload)[k] = p.payload[k - Len(kept)]
      BY <3>1, ConcatParts
    <3> QED
      BY <3>2
  <2> QED
    BY <2>1, <2>2, <2>3 DEF Apart
<1> QED
  BY <1>2, <1>4, <1>6, <1>7, <1>8 DEF p, rest

\* The fragments of another message come after everything that was sent.
LEMMA SentInOrder ==
    ASSUME NEW s \in Seq(Message), NEW pipe \in Seq(Fragments), NEW buffers, NEW kept,
           NEW m \in Message, InOrder(s, pipe, buffers, kept)
    PROVE  InOrder(Append(s, m), pipe \o Split(m), buffers, kept)
<1> DEFINE t == Append(s, m)
           all == pipe \o Split(m)
           n == Len(s) + 1
<1>1. /\ n \in DOMAIN t /\ t[n] = m
      /\ \A i \in DOMAIN s : i \in DOMAIN t /\ t[i] = s[i] /\ i < n
  OBVIOUS
<1>2. \A i \in DOMAIN all : \/ i \in DOMAIN pipe /\ all[i] = pipe[i]
                            \/ /\ i - Len(pipe) \in DOMAIN Split(m) /\ all[i] = Split(m)[i - Len(pipe)]
                               /\ i \notin DOMAIN pipe
  BY SplitParts, ConcatParts
<1>3. /\ DOMAIN pipe = 1 .. Len(pipe) /\ Len(pipe) \in Nat
      /\ \A i \in DOMAIN all : i \in Nat /\ i >= 1
  BY SplitParts, ConcatProperties
<1> HIDE DEF t, all, n
<1>4. \A x, y : Earlier(s, x, y) => Earlier(t, x, y)
  <2> SUFFICES ASSUME NEW x, NEW y, NEW i \in DOMAIN s, NEW j \in DOMAIN s,
                      i < j, s[i] = x[1], s[j] = y[1]
               PROVE  Earlier(t, x, y)
    BY DEF Earlier
  <2> QED
    BY <1>1 DEF Earlier
<1>5. \A a : Known(s, a) => Known(t, a)
  BY <1>1 DEF Known
<1>6. \A a, b : Ahead(s, a, b) => Ahead(t, a, b)
  BY <1>4 DEF Ahead
<1>7. ASSUME NEW a, Known(s, a), NEW i \in DOMAIN Split(m)
      PROVE  Ahead(t, a, Split(m)[i].payload)
  <2> SUFFICES ASSUME NEW k \in DOMAIN a, NEW l \in DOMAIN Split(m)[i].payload
               PROVE  Earlier(t, a[k], Split(m)[i].payload[l])
    BY DEF Ahead
  <2>1. i \in 1 .. Parts(m) /\ Split(m)[i] = Fragment(m, i)
    BY SplitParts
  <2>2. Split(m)[i].payload[l][1] = m
    BY <2>1, FragmentBytes
  <2>3. PICK h \in DOMAIN s : s[h] = a[k][1]
    BY <1>7 DEF Known
  <2> QED
    BY <1>1, <2>2, <2>3 DEF Earlier
<1>8. ASSUME NEW a, Settled(s, pipe, a)
      PROVE  Settled(t, all, a)
  <2>1. a \in Buffer /\ Known(t, a) /\ Ordered(t, a)
    BY <1>4, <1>5, <1>8 DEF Settled, Ordered
  <2>2. \A j \in DOMAIN all : Ahead(t, a, all[j].payload)
    BY <1>2, <1>6, <1>7, <1>8 DEF Settled
  <2> QED
    BY <2>1, <2>2 DEF Settled
<1>9. \A j \in DOMAIN all : Known(t, all[j].payload)
  <2> SUFFICES ASSUME NEW j \in DOMAIN all PROVE Known(t, all[j].payload)
    OBVIOUS
  <2>1. CASE j \in DOMAIN pipe /\ all[j] = pipe[j]
    BY <1>5, <2>1 DEF InOrder
  <2>2. ASSUME NEW i \in DOMAIN Split(m)
        PROVE  Known(t, Split(m)[i].payload)
    <3>1. i \in 1 .. Parts(m) /\ Split(m)[i] = Fragment(m, i)
      BY SplitParts
    <3>2. \A l \in DOMAIN Fragment(m, i).payload : Fragment(m, i).payload[l][1] = m
      BY <3>1, FragmentBytes
    <3> QED
      BY <1>1, <3>1, <3>2 DEF Known
  <2> QED
    BY <1>2, <2>1, <2>2
<1>10. \A i, j \in DOMAIN all : i < j => Ahead(t, all[i].payload, all[j].payload)
  <2> SUFFICES ASSUME NEW i \in DOMAIN all, NEW j \in DOMAIN all, i < j
               PROVE  Ahead(t, all[i].payload, all[j].payload)
    OBVIOUS
  <2>1. CASE i \in DOMAIN pipe /\ all[i] = pipe[i]
    <3>1. CASE j \in DOMAIN pipe /\ all[j] = pipe[j]
      BY <1>6, <2>1, <3>1 DEF InOrder
    <3>2. CASE j - Len(pipe) \in DOMAIN Split(m) /\ all[j] = Split(m)[j - Len(pipe)]
      BY <1>7, <2>1, <3>2 DEF InOrder
    <3> QED
      BY <1>2, <3>1, <3>2
  <2>2. CASE /\ i - Len(pipe) \in DOMAIN Split(m) /\ all[i] = Split(m)[i - Len(pipe)]
             /\ i \notin DOMAIN pipe
    <3>1. j \notin DOMAIN pipe /\ i - Len(pipe) < j - Len(pipe)
      BY <1>3, <2>2
    <3>2. j - Len(pipe) \in DOMAIN Split(m) /\ all[j] = Split(m)[j - Len(pipe)]
      BY <1>2, <3>1
    <3>3. /\ i - Len(pipe) \in 1 .. Parts(m) /\ all[i] = Fragment(m, i - Len(pipe))
          /\ j - Len(pipe) \in 1 .. Parts(m) /\ all[j] = Fragment(m, j - Len(pipe))
      BY <2>2, <3>2, SplitParts
    <3> QED
      BY <3>1, <3>3, PartsOrdered
  <2> QED
    BY <1>2, <2>1, <2>2
<1>11. InOrder(t, all, buffers, kept)
  BY <1>8, <1>9, <1>10 DEF InOrder
<1> QED
  BY <1>11 DEF t, all

\* Every message is sent once, and all that is left of what was sent is in order.
OrderInv ==
    /\ PipeTypes
    /\ sent \in Seq(Message) /\ Once(sent) /\ \A i \in DOMAIN sent : sent[i] \in used
    /\ delivered \in Seq(Buffer)
    /\ InOrder(sent, UnderWay, delivered, Assembled(fragments))

LEMMA NothingInOrder == InOrder(<<>>, <<>>, <<>>, <<>>)
  BY DEF InOrder, Settled, Known, Ordered, Buffer

LEMMA InitOrder == Init => OrderInv
<1> SUFFICES ASSUME Init PROVE OrderInv
  OBVIOUS
<1>1. /\ queue = <<>> /\ request = NoRequest /\ wire = <<>> /\ fragments = <<>>
      /\ sent = <<>> /\ delivered = <<>>
  BY DEF Init
<1>2. UnderWay = <<>>
  BY <1>1 DEF UnderWay, Asked
<1>3. Assembled(fragments) = <<>>
  BY <1>1 DEF Assembled, FlattenSeq
<1>4. PipeTypes
  BY <1>1 DEF PipeTypes
<1> QED
  BY <1>1, <1>2, <1>3, <1>4, NothingInOrder DEF OrderInv, Once, Buffer

LEMMA StepOrder ==
    ASSUME OrderInv, [Next]_vars
    PROVE  OrderInv'
<1> DEFINE Kept == Assembled(fragments)
<1>1. PipeTypes /\ PipeTypes'
  BY StepTypes DEF OrderInv
<1>2. /\ sent \in Seq(Message) /\ Once(sent) /\ \A i \in DOMAIN sent : sent[i] \in used
      /\ delivered \in Seq(Buffer) /\ InOrder(sent, UnderWay, delivered, Kept)
      /\ UnderWay \in Seq(Fragments) /\ fragments \in Seq(Fragments)
  BY <1>1, StepUnderWay DEF OrderInv, PipeTypes
<1>3. ASSUME NEW m \in Message, Transmit(m), UnderWay' = UnderWay \o Split(m)
      PROVE  OrderInv'
  <2>1. /\ m \notin used /\ sent' = Append(sent, m) /\ used' = used \cup {m}
        /\ UNCHANGED <<fragments, delivered>>
    BY <1>3 DEF Transmit
  <2>2. \A i \in DOMAIN sent' : \/ i \in DOMAIN sent /\ sent'[i] = sent[i]
                                \/ i = Len(sent) + 1 /\ sent'[i] = m
    BY <1>2, <2>1
  <2>3. Once(sent') /\ (\A i \in DOMAIN sent' : sent'[i] \in used') /\ sent' \in Seq(Message)
    BY <1>2, <2>1, <2>2 DEF Once
  <2>4. Kept' = Kept
    BY <2>1 DEF Assembled
  <2>5. InOrder(sent', UnderWay', delivered', Kept')
    BY <1>2, <1>3, <2>1, <2>4, SentInOrder
  <2> QED
    BY <1>1, <1>2, <2>1, <2>3, <2>5 DEF OrderInv
<1>4. ASSUME Receive, UnderWay # <<>>, Head(UnderWay) = Head(wire), UnderWay' = Tail(UnderWay)
      PROVE  OrderInv'
  <2> DEFINE p == Head(wire)
             rest == Tail(UnderWay)
  <2>1. /\ Settled(sent, rest, p.payload) /\ Settled(sent, rest, Kept \o p.payload)
        /\ Apart(p.payload, Kept)
        /\ \A i \in DOMAIN delivered :
              Apart(delivered[i], p.payload) /\ Apart(delivered[i], Kept \o p.payload)
        /\ InOrder(sent, rest, delivered, Kept)
    BY <1>2, <1>4, ArrivedInOrder
  <2>2. p \in Fragments /\ p.fragmented \in BOOLEAN /\ p.last \in BOOLEAN
    <3>1. p \in Fragments
      BY <1>1, <1>4, HeadTailProperties DEF Receive, PipeTypes
    <3>2. PICK m \in Message : \E i \in 1 .. Parts(m) : p = Fragment(m, i)
      BY <3>1 DEF Fragments
    <3>3. PICK i \in 1 .. Parts(m) : p = Fragment(m, i)
      BY <3>2
    <3>4. /\ p.fragmented = (Parts(m) > 1)
          /\ p.last = (Parts(m) > 1 /\ i = Parts(m))
      BY <3>3 DEF Fragment
    <3>5. (Parts(m) > 1) \in BOOLEAN /\ (Parts(m) > 1 /\ i = Parts(m)) \in BOOLEAN
      BY PartsCover
    <3> QED
      BY <3>1, <3>4, <3>5, Zenon
  <2>3. UNCHANGED <<sent, used>>
    BY <1>4 DEF Receive
  <2>4. Settled(sent, rest, Kept) /\ \A i \in DOMAIN delivered : Apart(delivered[i], Kept)
    BY <2>1 DEF InOrder
  <2>5. Assembled(<<>>) = <<>> /\ Assembled(Append(fragments, p)) = Kept \o p.payload
    BY <1>2, <2>2, AssembledAppend
  <2>6. Settled(sent, rest, <<>>) /\ \A a : Apart(a, <<>>)
    BY <2>1 DEF InOrder, Settled, Known, Ordered, Apart, Ahead, Buffer
  <2>7. CASE p.fragmented /\ p.last
    <3>1. delivered' = Append(delivered, Kept \o p.payload) /\ fragments' = <<>>
      BY <1>4, <2>7 DEF Receive
    <3>2. Kept' = <<>>
      BY <2>5, <3>1
    <3>3. InOrder(sent, rest, delivered', Kept')
      <4> HIDE DEF rest, p, Kept
      <4>1. InOrder(sent, rest, Append(delivered, Kept \o p.payload), <<>>)
        BY <1>2, <2>1, <2>6, DeliveredInOrder
      <4> QED
        BY <3>1, <3>2, <4>1
    <3>4. delivered' \in Seq(Buffer)
      BY <1>2, <2>1, <3>1 DEF Settled
    <3> QED
      BY <1>1, <1>2, <1>4, <2>3, <3>3, <3>4 DEF OrderInv
  <2>8. CASE p.fragmented /\ ~p.last
    <3>1. delivered' = delivered /\ fragments' = Append(fragments, p)
      BY <1>4, <2>2, <2>8 DEF Receive
    <3>2. Kept' = Kept \o p.payload
      BY <2>5, <3>1
    <3>3. InOrder(sent, rest, delivered', Kept')
      <4> HIDE DEF rest, p, Kept
      <4> QED
        BY <2>1, <3>1, <3>2 DEF InOrder
    <3> QED
      BY <1>1, <1>2, <1>4, <2>3, <3>1, <3>3 DEF OrderInv
  <2>9. CASE ~p.fragmented
    <3>1. delivered' = Append(delivered, p.payload) /\ fragments' = fragments
      BY <1>4, <2>2, <2>9 DEF Receive
    <3>2. Kept' = Kept
      BY <3>1 DEF Assembled
    <3>3. InOrder(sent, rest, delivered', Kept')
      <4> HIDE DEF rest, p, Kept
      <4>1. InOrder(sent, rest, Append(delivered, p.payload), Kept)
        BY <1>2, <2>1, <2>4, DeliveredInOrder
      <4> QED
        BY <3>1, <3>2, <4>1
    <3>4. delivered' \in Seq(Buffer)
      BY <1>2, <2>1, <3>1 DEF Settled
    <3> QED
      BY <1>1, <1>2, <1>4, <2>3, <3>3, <3>4 DEF OrderInv
  <2> QED
    BY <2>2, <2>7, <2>8, <2>9
<1>5. ASSUME Disconnect, UnderWay' = <<>>
      PROVE  OrderInv'
  <2>1. sent' = <<>> /\ delivered' = <<>> /\ fragments' = <<>>
    BY <1>5 DEF Disconnect
  <2>2. Kept' = <<>>
    BY <2>1 DEF Assembled, FlattenSeq
  <2> QED
    BY <1>1, <1>5, <2>1, <2>2, NothingInOrder DEF OrderInv, Once, Buffer
<1>6. ASSUME Within(UnderWay', UnderWay), UNCHANGED <<sent, used, fragments, delivered>>
      PROVE  OrderInv'
  <2>1. Kept' = Kept
    BY <1>6 DEF Assembled
  <2>2. InOrder(sent, UnderWay', delivered, Kept)
    BY <1>2, <1>6, ThinnedInOrder
  <2> QED
    BY <1>1, <1>2, <1>6, <2>1, <2>2 DEF OrderInv
<1>7. ASSUME OtherDisconnect, Within(UnderWay', UnderWay)
      PROVE  OrderInv'
  <2>1. UNCHANGED <<sent, used, delivered>> /\ fragments' \in {fragments, <<>>}
    BY <1>7 DEF OtherDisconnect
  <2>2. InOrder(sent, UnderWay', delivered, Kept)
    BY <1>2, <1>7, ThinnedInOrder
  <2>3. CASE fragments' = fragments
    <3>1. Kept' = Kept
      BY <2>3 DEF Assembled
    <3> QED
      BY <1>1, <1>2, <2>1, <2>2, <3>1 DEF OrderInv
  <2>4. CASE fragments' = <<>>
    <3>1. Kept' = <<>>
      BY <2>4 DEF Assembled, FlattenSeq
    <3>2. InOrder(sent, UnderWay', delivered, <<>>)
      BY <2>2 DEF InOrder, Settled, Known, Ordered, Ahead, Apart, Buffer
    <3> QED
      BY <1>1, <1>2, <2>1, <3>1, <3>2 DEF OrderInv
  <2> QED
    BY <2>1, <2>3, <2>4
<1> QED
  BY <1>1, <1>3, <1>4, <1>5, <1>6, <1>7, StepUnderWay

\* Whatever is refused, given up or flushed, no byte is delivered twice, and the bytes of
\* a buffer are in the order in which they were transmitted (communication.c:60, 162,
\* 239).  With two messages under way, or after a fragment got lost, bytes may be missing
\* and a buffer may hold bytes of several messages.
THEOREM BytesStayInOrder == Spec => []BytesInOrder
<1>1. OrderInv => BytesInOrder
  <2> SUFFICES ASSUME OrderInv,
                      NEW i \in DOMAIN delivered, NEW j \in DOMAIN delivered,
                      NEW k \in DOMAIN delivered[i], NEW l \in DOMAIN delivered[j]
               PROVE  /\ i = j /\ k < l => Before(delivered[i][k], delivered[j][l])
                      /\ delivered[i][k] = delivered[j][l] => i = j /\ k = l
    BY DEF BytesInOrder
  <2>1. Ordered(sent, delivered[i]) /\ delivered[i] \in Buffer /\ delivered[i] \in Seq(Message \X Nat)
    BY DEF OrderInv, InOrder, Settled, Buffer
  <2>2. i # j => delivered[i][k] # delivered[j][l]
    BY DEF OrderInv, InOrder, Apart
  <2>3. CASE i = j
    <3>1. k \in Nat /\ l \in Nat /\ l \in DOMAIN delivered[i]
      BY <2>1, <2>3
    <3>2. \A g, h \in DOMAIN delivered[i] : g < h =>
              /\ Earlier(sent, delivered[i][g], delivered[i][h])
              /\ delivered[i][g] # delivered[i][h]
      <4> SUFFICES ASSUME NEW g \in DOMAIN delivered[i], NEW h \in DOMAIN delivered[i], g < h
                   PROVE  delivered[i][g] # delivered[i][h]
        BY <2>1 DEF Ordered
      <4>1. Earlier(sent, delivered[i][g], delivered[i][h])
        BY <2>1 DEF Ordered
      <4>2. delivered[i][g] \in Message \X Nat
        BY <2>1
      <4>3. \A a, b \in DOMAIN sent : a < b => sent[a] # sent[b]
        BY DEF OrderInv, Once
      <4> QED
        BY <4>1, <4>2, <4>3 DEF Earlier
    <3>3. k < l \/ l < k \/ k = l
      BY <3>1
    <3> QED
      BY <2>3, <3>1, <3>2, <3>3 DEF Earlier, Before
  <2> QED
    BY <2>2, <2>3
<1>2. Spec => []OrderInv
  BY InitOrder, StepOrder, PTL DEF Spec
<1> QED
  BY <1>1, <1>2, PTL

-------------------------------------------------------------------------------
(***************************************************************************)
(* One message at a time and no request that GNUnet cannot serve: then the *)
(* fragments under way are all parts that did not arrive, one by one.      *)
(***************************************************************************)

\* q is the part to be sent after p when s is sent.
Follows(s, p, q) ==
    \E j \in DOMAIN s : \E k \in 1 .. Parts(s[j]) :
        /\ p = Fragment(s[j], k)
        /\ IF k < Parts(s[j]) THEN q = Fragment(s[j], k + 1)
                              ELSE j + 1 \in DOMAIN s /\ q = Fragment(s[j + 1], 1)

\* Of the messages s, n arrived whole and of the next one count parts; pipe is the rest.
Remaining(s, pipe, n, count) ==
    /\ n \in 0 .. Len(s) /\ count \in Nat
    /\ pipe = <<>> => n = Len(s) /\ count = 0
    /\ pipe # <<>> =>
          /\ n < Len(s) /\ count < Parts(s[n + 1])
          /\ pipe[1] = Fragment(s[n + 1], count + 1)
          /\ pipe[Len(pipe)] = Fragment(s[Len(s)], Parts(s[Len(s)]))
    /\ \A i \in 1 .. Len(pipe) - 1 : Follows(s, pipe[i], pipe[i + 1])

\* The parts that arrived, and the next one, are the beginning of the message.
LEMMA PartsJoined ==
    ASSUME NEW m \in Message, NEW c \in Nat, c + 1 \in 1 .. Parts(m)
    PROVE  LET all == SubSeq(Bytes(m), 1, c * MaxPayload) \o Fragment(m, c + 1).payload
           IN  /\ c + 1 < Parts(m) => all = SubSeq(Bytes(m), 1, (c + 1) * MaxPayload)
               /\ c + 1 = Parts(m) => all = Bytes(m)
<1> DEFINE from == c * MaxPayload
           payload == Fragment(m, c + 1).payload
           to == from + Len(payload)
<1>1. MaxPayload \in Nat \ {0} /\ Size[m] \in Nat \ {0} /\ Parts(m) \in Nat
  BY CommunicationAssumption, PartsCover
<1>2. PICK i \in 1 .. Parts(m) : i = c + 1 /\ (i - 1) * MaxPayload = from
  <2>1. c + 1 - 1 = c
    OBVIOUS
  <2>2. (c + 1 - 1) * MaxPayload = from
    BY <2>1
  <2> QED
    BY <2>2
<1>3. /\ from \in Nat /\ to <= Size[m] /\ Len(payload) \in Nat
      /\ payload = SubSeq(Bytes(m), from + 1, to)
      /\ c + 1 < Parts(m) => Len(payload) = MaxPayload
      /\ c + 1 = Parts(m) => to = Size[m]
  <2> DEFINE part == Fragment(m, i).payload
  <2>1. /\ (i - 1) * MaxPayload \in Nat /\ (i - 1) * MaxPayload + Len(part) <= Size[m]
        /\ Len(part) \in 1 .. MaxPayload
        /\ part = SubSeq(Bytes(m), (i - 1) * MaxPayload + 1, (i - 1) * MaxPayload + Len(part))
        /\ i < Parts(m) => Len(part) = MaxPayload
        /\ i = Parts(m) => (i - 1) * MaxPayload + Len(part) = Size[m]
    BY FragmentBytes
  <2>2. part = payload
    BY <1>2
  <2> HIDE DEF part, from, payload
  <2> QED
    BY <1>2, <2>1, <2>2
<1>4. (c + 1) * MaxPayload = from + MaxPayload
  BY <1>1
<1>5. Bytes(m) \in Seq(Message \X Nat) /\ Len(Bytes(m)) = Size[m]
  BY <1>1 DEF Bytes
<1> HIDE DEF from, payload
<1>6. SubSeq(Bytes(m), 1, from) \o SubSeq(Bytes(m), from + 1, to) = SubSeq(Bytes(m), 1, to)
  <2>1. 1 \in 1 .. Size[m] + 1 /\ from \in 0 .. Size[m] /\ to \in from .. Size[m] /\ 1 - 1 = 0
    BY <1>1, <1>3
  <2> HIDE DEF to
  <2> QED
    BY <1>5, <2>1, ConcatAdjacentSubSeq
<1>7. SubSeq(Bytes(m), 1, Size[m]) = Bytes(m)
  BY <1>5, SubSeqFull
<1>8. SubSeq(Bytes(m), 1, from) \o payload = SubSeq(Bytes(m), 1, to)
  BY <1>3, <1>6
<1>9. c + 1 < Parts(m) => to = (c + 1) * MaxPayload
  BY <1>3, <1>4
<1> QED
  BY <1>3, <1>7, <1>8, <1>9 DEF from, payload

\* A message is sent after the others.
LEMMA SentRemaining ==
    ASSUME NEW s \in Seq(Message), NEW pipe \in Seq(Fragments), NEW n, NEW count,
           NEW m \in Message, Remaining(s, pipe, n, count)
    PROVE  Remaining(Append(s, m), pipe \o Split(m), n, count)
<1> DEFINE t == Append(s, m)
           all == pipe \o Split(m)
           l == Len(pipe)
           parts == Parts(m)
<1>1. /\ t \in Seq(Message) /\ Len(t) = Len(s) + 1 /\ t[Len(s) + 1] = m /\ Len(s) \in Nat
      /\ DOMAIN t = 1 .. Len(s) + 1 /\ DOMAIN s = 1 .. Len(s)
      /\ \A i \in DOMAIN s : i \in DOMAIN t /\ t[i] = s[i]
  OBVIOUS
<1>2. /\ parts \in Nat \ {0} /\ Split(m) \in Seq(Fragments) /\ Len(Split(m)) = parts
      /\ \A i \in 1 .. parts : Split(m)[i] = Fragment(m, i)
  BY PartsCover, SplitParts DEF Split
<1>3. /\ all \in Seq(Fragments) /\ Len(all) = l + parts /\ l \in Nat
      /\ \A i \in 1 .. l + parts : all[i] = IF i <= l THEN pipe[i] ELSE Split(m)[i - l]
  <2> DEFINE new == Split(m)
  <2>1. new \in Seq(Fragments) /\ Len(new) = parts
    BY <1>2
  <2> HIDE DEF new, parts
  <2>2. /\ pipe \o new \in Seq(Fragments) /\ Len(pipe \o new) = Len(pipe) + Len(new)
        /\ \A i \in 1 .. Len(pipe) + Len(new) :
              (pipe \o new)[i] = IF i <= Len(pipe) THEN pipe[i] ELSE new[i - Len(pipe)]
    BY <2>1, ConcatProperties
  <2> QED
    BY <2>1, <2>2 DEF new
<1> HIDE DEF t, all, l, parts
<1>4. \A i \in 1 .. l : all[i] = pipe[i]
  BY <1>2, <1>3
<1>5. ASSUME NEW k \in 1 .. parts
      PROVE  all[l + k] = Fragment(m, k)
  <2> DEFINE i == l + k
  <2>1. i \in 1 .. l + parts /\ ~(i <= l) /\ i - l = k
    BY <1>2, <1>3
  <2> HIDE DEF i
  <2>2. all[i] = Split(m)[i - l]
    BY <1>3, <2>1, Zenon
  <2> QED
    BY <1>2, <2>1, <2>2 DEF i
<1>6. \A p, q : Follows(s, p, q) => Follows(t, p, q)
  <2> SUFFICES ASSUME NEW p, NEW q, Follows(s, p, q)
               PROVE  Follows(t, p, q)
    OBVIOUS
  <2>1. PICK j \in DOMAIN s : \E k \in 1 .. Parts(s[j]) :
            /\ p = Fragment(s[j], k)
            /\ IF k < Parts(s[j]) THEN q = Fragment(s[j], k + 1)
                                  ELSE j + 1 \in DOMAIN s /\ q = Fragment(s[j + 1], 1)
    BY Zenon DEF Follows
  <2>2. j \in DOMAIN t /\ t[j] = s[j] /\ (j + 1 \in DOMAIN s => j + 1 \in DOMAIN t /\ t[j + 1] = s[j + 1])
    BY <1>1
  <2> QED
    BY <2>1, <2>2, Zenon DEF Follows
<1>7. \A i \in 1 .. Len(all) - 1 : Follows(t, all[i], all[i + 1])
  <2> SUFFICES ASSUME NEW i \in 1 .. Len(all) - 1 PROVE Follows(t, all[i], all[i + 1])
    OBVIOUS
  <2>1. CASE i < l
    <3>1. i \in 1 .. l /\ i + 1 \in 1 .. l /\ i \in 1 .. Len(pipe) - 1
      BY <1>3, <2>1 DEF l
    <3>2. Follows(s, pipe[i], pipe[i + 1])
      BY <3>1 DEF Remaining
    <3> QED
      BY <1>4, <1>6, <3>1, <3>2
  <2>2. CASE i = l
    <3>1. pipe # <<>> /\ l \in 1 .. l /\ 1 \in 1 .. parts
      BY <1>2, <1>3, <2>2 DEF l
    <3>2. Len(s) \in DOMAIN s /\ all[l] = Fragment(s[Len(s)], Parts(s[Len(s)])) /\ all[l + 1] = Fragment(m, 1)
      <4>1. n \in 0 .. Len(s) /\ n < Len(s) /\ pipe[l] = Fragment(s[Len(s)], Parts(s[Len(s)]))
        BY <3>1 DEF Remaining, l
      <4>2. Len(s) \in DOMAIN s
        BY <1>1, <4>1
      <4> QED
        BY <1>4, <1>5, <3>1, <4>1, <4>2
    <3>3. /\ Len(s) \in DOMAIN t /\ t[Len(s)] = s[Len(s)] /\ Len(s) + 1 \in DOMAIN t
          /\ Parts(s[Len(s)]) \in 1 .. Parts(s[Len(s)])
          /\ ~(Parts(s[Len(s)]) < Parts(s[Len(s)]))
      <4>1. s[Len(s)] \in Message /\ Len(s) \in DOMAIN s
        BY <3>2
      <4>2. Parts(s[Len(s)]) \in Nat \ {0}
        BY <4>1, PartsCover
      <4>3. Len(s) \in DOMAIN t /\ t[Len(s)] = s[Len(s)] /\ Len(s) + 1 \in DOMAIN t
        BY <1>1, <4>1
      <4> QED
        BY <4>2, <4>3
    <3> QED
      BY <1>1, <2>2, <3>2, <3>3 DEF Follows
  <2>3. CASE i > l
    <3> DEFINE k == i - l
    <3>1. k \in 1 .. parts /\ k + 1 \in 1 .. parts /\ k < parts /\ i = l + k /\ i + 1 = l + (k + 1)
      BY <1>2, <1>3, <2>3
    <3> HIDE DEF k
    <3>2. all[i] = Fragment(m, k) /\ all[i + 1] = Fragment(m, k + 1)
      BY <1>5, <3>1
    <3> QED
      BY <1>1, <3>1, <3>2 DEF Follows, parts
  <2> QED
    BY <1>2, <1>3, <2>1, <2>2, <2>3
<1>8. all # <<>> /\ all[Len(all)] = Fragment(t[Len(t)], Parts(t[Len(t)]))
  <2>1. parts \in 1 .. parts /\ Len(all) # 0
    BY <1>2, <1>3
  <2> QED
    BY <1>1, <1>3, <1>5, <2>1 DEF parts
<1>9. /\ n \in 0 .. Len(t) /\ count \in Nat /\ n < Len(t) /\ count < Parts(t[n + 1])
      /\ all[1] = Fragment(t[n + 1], count + 1)
  <2>1. CASE pipe = <<>>
    <3>1. n = Len(s) /\ count = 0 /\ l = 0 /\ 1 \in 1 .. parts
      BY <1>2, <2>1 DEF Remaining, l
    <3>2. all[1] = Fragment(m, 1) /\ t[n + 1] = m
      BY <1>1, <1>5, <3>1
    <3> QED
      BY <1>1, <1>2, <3>1, <3>2 DEF parts
  <2>2. CASE pipe # <<>>
    <3>0. /\ n \in 0 .. Len(s) /\ n < Len(s) /\ count \in Nat /\ count < Parts(s[n + 1])
          /\ pipe[1] = Fragment(s[n + 1], count + 1)
      BY <2>2 DEF Remaining
    <3>1. 1 \in 1 .. l /\ n + 1 \in DOMAIN s /\ n \in 0 .. Len(t) /\ n < Len(t)
      BY <1>1, <1>3, <2>2, <3>0 DEF l
    <3>2. all[1] = pipe[1] /\ t[n + 1] = s[n + 1]
      BY <1>1, <1>4, <3>1
    <3> QED
      BY <3>0, <3>1, <3>2
  <2> QED
    BY <2>1, <2>2
<1>10. Remaining(t, all, n, count)
  BY <1>7, <1>8, <1>9 DEF Remaining
<1> QED
  BY <1>10 DEF t, all

\* The next part arrives.
LEMMA ArrivedRemaining ==
    ASSUME NEW s \in Seq(Message), Once(s), NEW pipe \in Seq(Fragments), pipe # <<>>,
           NEW n, NEW count, Remaining(s, pipe, n, count)
    PROVE  IF count + 1 < Parts(s[n + 1]) THEN Remaining(s, Tail(pipe), n, count + 1)
                                          ELSE Remaining(s, Tail(pipe), n + 1, 0)
<1> DEFINE rest == Tail(pipe)
           m == s[n + 1]
           last == s[Len(s)]
<1>1. /\ rest \in Seq(Fragments) /\ Len(rest) = Len(pipe) - 1 /\ Len(pipe) \in Nat \ {0}
      /\ \A i \in 1 .. Len(rest) : rest[i] = pipe[i + 1]
  BY HeadTailProperties
<1>2. /\ n \in Nat /\ n < Len(s) /\ count \in Nat /\ count < Parts(m) /\ Len(s) \in Nat
      /\ pipe[1] = Fragment(m, count + 1) /\ pipe[Len(pipe)] = Fragment(last, Parts(last))
  BY DEF Remaining
<1>3. n + 1 \in DOMAIN s /\ Len(s) \in DOMAIN s /\ m \in Message /\ last \in Message
  BY <1>2
<1> HIDE DEF rest, m, last
<1>4. Parts(m) \in Nat \ {0} /\ Parts(last) \in Nat \ {0} /\ count + 1 \in 1 .. Parts(m)
  BY <1>2, <1>3, PartsCover
<1>5. \A i \in 1 .. Len(rest) - 1 : Follows(s, rest[i], rest[i + 1])
  <2> SUFFICES ASSUME NEW i \in 1 .. Len(rest) - 1 PROVE Follows(s, rest[i], rest[i + 1])
    OBVIOUS
  <2>1. i \in 1 .. Len(rest) /\ i + 1 \in 1 .. Len(rest) /\ i + 1 \in 1 .. Len(pipe) - 1
    BY <1>1
  <2>2. Follows(s, pipe[i + 1], pipe[i + 1 + 1])
    BY <2>1 DEF Remaining
  <2> QED
    BY <1>1, <2>1, <2>2
<1>6. CASE rest = <<>>
  <2>1. Len(pipe) = 1
    BY <1>1, <1>6
  <2>2. m = last /\ count + 1 = Parts(last)
    BY <1>2, <1>3, <1>4, <2>1, FragmentsDiffer, Parts(last) \in 1 .. Parts(last)
  <2>3. n + 1 = Len(s)
    BY <1>3, <2>2 DEF m, last, Once
  <2>4. ~(count + 1 < Parts(m)) /\ n + 1 \in 0 .. Len(s) /\ 0 \in Nat
    BY <1>2, <1>4, <2>2, <2>3
  <2>5. Remaining(s, rest, n + 1, 0)
    BY <1>5, <1>6, <2>3, <2>4 DEF Remaining
  <2> QED
    BY <2>4, <2>5 DEF rest, m
<1>7. CASE rest # <<>>
  <2>1. /\ 1 \in 1 .. Len(rest) /\ 1 \in 1 .. Len(pipe) - 1 /\ rest[1] = pipe[2]
        /\ rest[Len(rest)] = Fragment(last, Parts(last))
    <3>1. Len(rest) \in 1 .. Len(rest) /\ 1 \in 1 .. Len(rest) /\ Len(rest) + 1 = Len(pipe)
      BY <1>1, <1>7
    <3>2. rest[1] = pipe[1 + 1] /\ rest[Len(rest)] = pipe[Len(rest) + 1]
      BY <1>1, <3>1
    <3>3. 1 \in 1 .. Len(pipe) - 1 /\ 1 + 1 = 2
      BY <1>1, <3>1
    <3> QED
      BY <1>2, <3>1, <3>2, <3>3
  <2>2. Follows(s, pipe[1], pipe[2])
    <3>1. Follows(s, pipe[1], pipe[1 + 1])
      BY <2>1 DEF Remaining
    <3> QED
      BY <3>1
  <2>3. PICK j \in DOMAIN s : \E k \in 1 .. Parts(s[j]) :
            /\ pipe[1] = Fragment(s[j], k)
            /\ IF k < Parts(s[j]) THEN pipe[2] = Fragment(s[j], k + 1)
                                  ELSE j + 1 \in DOMAIN s /\ pipe[2] = Fragment(s[j + 1], 1)
    BY <2>2 DEF Follows
  <2>4. PICK k \in 1 .. Parts(s[j]) :
            /\ pipe[1] = Fragment(s[j], k)
            /\ IF k < Parts(s[j]) THEN pipe[2] = Fragment(s[j], k + 1)
                                  ELSE j + 1 \in DOMAIN s /\ pipe[2] = Fragment(s[j + 1], 1)
    BY <2>3
  <2>5. s[j] = m /\ k = count + 1
    BY <1>2, <1>3, <1>4, <2>4, FragmentsDiffer, s[j] \in Message
  <2>6. j = n + 1
    BY <1>3, <2>5 DEF m, Once
  <2>7. CASE count + 1 < Parts(m)
    <3>1. rest[1] = Fragment(m, count + 1 + 1)
      BY <2>1, <2>4, <2>5, <2>7
    <3>2. Remaining(s, rest, n, count + 1)
      BY <1>2, <1>5, <1>7, <2>1, <2>7, <3>1 DEF Remaining, m, last
    <3> QED
      BY <2>7, <3>2 DEF rest, m
  <2>8. CASE ~(count + 1 < Parts(m))
    <3>1. n + 1 + 1 \in DOMAIN s /\ rest[1] = Fragment(s[n + 1 + 1], 1)
      BY <2>1, <2>4, <2>5, <2>6, <2>8
    <3>2. s[n + 1 + 1] \in Message /\ n + 1 < Len(s) /\ n + 1 \in 0 .. Len(s)
      BY <1>2, <3>1
    <3>3. 0 < Parts(s[n + 1 + 1]) /\ 0 + 1 = 1 /\ 0 \in Nat
      BY <3>2, PartsCover
    <3>4. Remaining(s, rest, n + 1, 0)
      BY <1>5, <1>7, <2>1, <3>1, <3>2, <3>3 DEF Remaining, last
    <3> QED
      BY <2>8, <3>4 DEF rest, m
  <2> QED
    BY <2>7, <2>8
<1> QED
  BY <1>6, <1>7

\* No second request is made while GNUnet has one.
OneRequest == tasks \in {0, 1} /\ (tasks = 1 => request = NoRequest)

\* What was delivered is what was sent first; what is kept is the beginning of the next
\* message, and all the rest is under way.
ChannelInv ==
    /\ OrderInv /\ OneRequest
    /\ Remaining(sent, UnderWay, Len(delivered), Len(fragments))
    /\ \A i \in DOMAIN delivered : delivered[i] = Bytes(sent[i])
    /\ UnderWay # <<>> =>
          Assembled(fragments) =
              SubSeq(Bytes(sent[Len(delivered) + 1]), 1, Len(fragments) * MaxPayload)

\* One message at a time needs one request at a time.
LEMMA StepOneRequest ==
    ASSUME ~Overlap, OneRequest, [Next]_vars
    PROVE  OneRequest'
<1> USE DEF OneRequest
<1>1. ASSUME NEW m \in Message, Transmit(m)
      PROVE  OneRequest'
  BY <1>1 DEF Transmit, Idle
<1>2. CASE TransmitNext
  BY <1>2 DEF TransmitNext
<1>3. CASE TransmitReady
  BY <1>3 DEF TransmitReady
<1>4. CASE RequestTimeout
  BY <1>4 DEF RequestTimeout
<1>5. CASE Disconnect
  BY <1>5 DEF Disconnect
<1>6. CASE UNCHANGED <<tasks, request>>
  BY <1>6
<1> QED
  BY <1>1, <1>2, <1>3, <1>4, <1>5, <1>6
  DEF Next, QueuedMessageFreeTask, Tick, Receive, OtherDisconnect, vars

\* A receipt keeps a part or delivers the next message.
LEMMA ArrivedWhole ==
    ASSUME ChannelInv, Receive, UnderWay # <<>>, Head(UnderWay) = Head(wire),
           UnderWay' = Tail(UnderWay), OrderInv', OneRequest'
    PROVE  /\ ChannelInv' /\ UNCHANGED sent
           /\ \/ UNCHANGED delivered
              \/ /\ Len(delivered) < Len(sent)
                 /\ delivered' = Append(delivered, Bytes(sent[Len(delivered) + 1]))
<1> DEFINE n == Len(delivered)
           count == Len(fragments)
           m == sent[n + 1]
           p == Head(wire)
           Kept == Assembled(fragments)
<1>1. /\ UNCHANGED sent
      /\ sent \in Seq(Message) /\ Once(sent) /\ delivered \in Seq(Buffer)
      /\ UnderWay \in Seq(Fragments) /\ fragments \in Seq(Fragments)
  <2>1. PipeTypes /\ [Next]_vars
    BY DEF ChannelInv, OrderInv, Next
  <2> QED
    BY <2>1, StepUnderWay DEF ChannelInv, OrderInv, PipeTypes, Receive
<1>2. /\ n \in Nat /\ n < Len(sent) /\ count \in Nat /\ count < Parts(m)
      /\ p = Fragment(m, count + 1)
      /\ Kept = SubSeq(Bytes(m), 1, count * MaxPayload)
  <2>1. UnderWay[1] = p
    BY <1>1
  <2> QED
    BY <1>1, <2>1 DEF ChannelInv, Remaining
<1>3. m \in Message /\ Parts(m) \in Nat \ {0} /\ count + 1 \in 1 .. Parts(m)
  <2>1. m \in Message
    BY <1>1, <1>2
  <2> QED
    BY <1>2, <2>1, PartsCover
<1>4. IF count + 1 < Parts(m) THEN Remaining(sent, Tail(UnderWay), n, count + 1)
                              ELSE Remaining(sent, Tail(UnderWay), n + 1, 0)
  BY <1>1, ArrivedRemaining DEF ChannelInv
<1>5. /\ count + 1 < Parts(m) => Kept \o p.payload = SubSeq(Bytes(m), 1, (count + 1) * MaxPayload)
      /\ count + 1 = Parts(m) => Kept \o p.payload = Bytes(m)
  BY <1>2, <1>3, PartsJoined
<1>6. /\ p.fragmented <=> (Parts(m) > 1)
      /\ p.last <=> (Parts(m) > 1 /\ count + 1 = Parts(m))
  <2> HIDE DEF m, p, Kept
  <2>1. /\ p.fragmented = (Parts(m) > 1)
        /\ p.last = (Parts(m) > 1 /\ count + 1 = Parts(m))
    BY <1>2 DEF Fragment
  <2>2. (Parts(m) > 1) \in BOOLEAN /\ (Parts(m) > 1 /\ count + 1 = Parts(m)) \in BOOLEAN
    BY <1>3
  <2> QED
    BY <2>1, <2>2, Zenon
<1>7. CASE count + 1 < Parts(m)
  <2>1. p.fragmented /\ ~p.last
    BY <1>2, <1>3, <1>6, <1>7
  <2>2. fragments' = Append(fragments, p) /\ delivered' = delivered
    BY <2>1 DEF Receive
  <2>3. p \in Fragments
    BY <1>2, <1>3 DEF Fragments
  <2>4. Kept' = SubSeq(Bytes(m), 1, (count + 1) * MaxPayload)
    BY <1>1, <1>5, <1>7, <2>2, <2>3, AssembledAppend
  <2>5. Len(fragments') = count + 1
    BY <1>1, <2>2
  <2>6. \A i \in DOMAIN delivered' : delivered'[i] = Bytes(sent'[i])
    BY <1>1, <2>2 DEF ChannelInv
  <2>7. Remaining(sent', UnderWay', Len(delivered'), Len(fragments'))
    BY <1>1, <1>4, <1>7, <2>2, <2>5
  <2> QED
    BY <1>1, <2>2, <2>4, <2>5, <2>6, <2>7 DEF ChannelInv
<1>8. CASE count + 1 = Parts(m)
  <2>1. fragments' = <<>> /\ delivered' = Append(delivered, Bytes(m))
    <3>1. CASE Parts(m) > 1
      <4>1. p.fragmented /\ p.last
        BY <1>6, <1>8, <3>1
      <4>2. fragments' = <<>> /\ delivered' = Append(delivered, Kept \o p.payload)
        BY <4>1 DEF Receive
      <4> QED
        BY <1>5, <1>8, <4>2
    <3>2. CASE ~(Parts(m) > 1)
      <4>1. ~p.fragmented /\ count = 0
        BY <1>2, <1>3, <1>6, <1>8, <3>2
      <4>2. fragments' = fragments /\ delivered' = Append(delivered, p.payload)
        BY <4>1 DEF Receive
      <4>3. fragments = <<>>
        BY <1>1, <4>1
      <4>4. Kept = <<>> /\ p.payload \in Seq(Message \X Nat)
        BY <1>2, <1>3, <4>3, FragmentBytes DEF Assembled, FlattenSeq
      <4>5. Kept \o p.payload = p.payload
        BY <4>4
      <4> QED
        BY <1>5, <1>8, <4>2, <4>3, <4>5
    <3> QED
      BY <3>1, <3>2
  <2>2. Len(fragments') = 0 /\ Len(delivered') = n + 1
    BY <1>1, <2>1
  <2>3. \A i \in DOMAIN delivered' : delivered'[i] = Bytes(sent'[i])
    <3> TAKE i \in DOMAIN delivered'
    <3>1. \/ i \in DOMAIN delivered /\ delivered'[i] = delivered[i]
          \/ i = n + 1 /\ delivered'[i] = Bytes(m)
      BY <1>1, <2>1
    <3> QED
      BY <1>1, <3>1 DEF ChannelInv
  <2>4. Remaining(sent', UnderWay', Len(delivered'), Len(fragments'))
    <3>1. ~(count + 1 < Parts(m))
      BY <1>3, <1>8
    <3> QED
      BY <1>1, <1>4, <2>2, <3>1
  <2>5. Kept' = SubSeq(Bytes(sent'[Len(delivered') + 1]), 1, Len(fragments') * MaxPayload)
    <3>1. Kept' = <<>>
      BY <2>1 DEF Assembled, FlattenSeq
    <3>2. Len(fragments') * MaxPayload = 0
      BY <2>2, CommunicationAssumption
    <3>3. SubSeq(Bytes(sent'[Len(delivered') + 1]), 1, 0) = <<>>
      BY SubSeqEmpty
    <3> QED
      BY <3>1, <3>2, <3>3
  <2> QED
    BY <1>1, <1>2, <2>1, <2>3, <2>4, <2>5 DEF ChannelInv
<1> QED
  BY <1>2, <1>3, <1>7, <1>8

\* The channel of the abstract specification.
LEMMA StepChannel ==
    ASSUME ~Overlap, ~Stalls, ~Others, ChannelInv, [Next]_vars
    PROVE  ChannelInv' /\ [Channel!Next]_Channel!vars
<1>1. OrderInv /\ OrderInv' /\ OneRequest /\ OneRequest' /\ PipeTypes
  BY StepOrder, StepOneRequest DEF ChannelInv, OrderInv
<1>2. /\ sent \in Seq(Message) /\ UnderWay \in Seq(Fragments) /\ delivered \in Seq(Buffer)
      /\ Remaining(sent, UnderWay, Len(delivered), Len(fragments))
      /\ \A i \in DOMAIN delivered : delivered[i] = Bytes(sent[i])
  BY <1>1, StepUnderWay DEF ChannelInv, OrderInv
<1>3. ASSUME NEW m \in Message, Transmit(m), UnderWay' = UnderWay \o Split(m)
      PROVE  ChannelInv' /\ Channel!Next
  <2>1. sent' = Append(sent, m) /\ UNCHANGED <<delivered, fragments>>
    BY <1>3 DEF Transmit
  <2>2. Remaining(sent', UnderWay', Len(delivered'), Len(fragments'))
    BY <1>2, <1>3, <2>1, SentRemaining
  <2>3. Len(delivered) \in 0 .. Len(sent) /\ Len(sent) \in Nat
    BY <1>2 DEF Remaining
  <2>4. \A i \in DOMAIN delivered' : delivered'[i] = Bytes(sent'[i])
    BY <1>2, <2>1, <2>3
  <2>5. Assembled(fragments)' =
            SubSeq(Bytes(sent'[Len(delivered') + 1]), 1, Len(fragments') * MaxPayload)
    <3>1. CASE UnderWay = <<>>
      <4>1. fragments \in Seq(Fragments) /\ Len(fragments) = 0
        BY <1>1, <1>2, <3>1 DEF Remaining, PipeTypes
      <4>2. Assembled(fragments)' = <<>> /\ Len(fragments') * MaxPayload = 0
        BY <2>1, <4>1, CommunicationAssumption DEF Assembled, FlattenSeq
      <4>3. SubSeq(Bytes(sent'[Len(delivered') + 1]), 1, 0) = <<>>
        BY SubSeqEmpty
      <4> QED
        BY <4>2, <4>3
    <3>2. CASE UnderWay # <<>>
      <4>1. Len(delivered) < Len(sent)
        BY <3>2, <1>2 DEF Remaining
      <4>2. sent'[Len(delivered) + 1] = sent[Len(delivered) + 1]
        BY <1>2, <2>1, <2>3, <4>1
      <4>3. Assembled(fragments)' = Assembled(fragments)
        BY <2>1 DEF Assembled
      <4> QED
        BY <2>1, <3>2, <4>2, <4>3 DEF ChannelInv
    <3> QED
      BY <3>1, <3>2
  <2>6. Channel!Send(m)
    BY <2>1 DEF Channel!Send
  <2> QED
    BY <1>1, <2>2, <2>4, <2>5, <2>6 DEF ChannelInv, Channel!Next
<1>4. ASSUME Receive, UnderWay # <<>>, Head(UnderWay) = Head(wire), UnderWay' = Tail(UnderWay)
      PROVE  ChannelInv' /\ [Channel!Next]_Channel!vars
  <2>1. /\ ChannelInv' /\ UNCHANGED sent
        /\ \/ UNCHANGED delivered
           \/ /\ Len(delivered) < Len(sent)
              /\ delivered' = Append(delivered, Bytes(sent[Len(delivered) + 1]))
    BY <1>1, <1>4, ArrivedWhole
  <2>2. CASE UNCHANGED delivered
    BY <2>1, <2>2 DEF Channel!vars
  <2>3. CASE /\ Len(delivered) < Len(sent)
             /\ delivered' = Append(delivered, Bytes(sent[Len(delivered) + 1]))
    <3>1. sent[Len(delivered) + 1] \in Message
      BY <1>2, <2>3
    <3>2. Channel!Deliver
      BY <2>1, <2>3, <3>1 DEF Channel!Deliver
    <3> QED
      BY <2>1, <3>2 DEF Channel!Next
  <2> QED
    BY <2>1, <2>2, <2>3
<1>5. ASSUME Disconnect, UnderWay' = <<>>
      PROVE  ChannelInv' /\ Channel!Next
  <2>1. sent' = <<>> /\ delivered' = <<>> /\ fragments' = <<>>
    BY <1>5 DEF Disconnect
  <2>2. Remaining(<<>>, <<>>, 0, 0)
    BY DEF Remaining
  <2>3. Len(delivered') = 0 /\ Len(fragments') = 0 /\ DOMAIN delivered' = {}
    BY <2>1
  <2>4. Channel!Reset
    BY <2>1 DEF Channel!Reset
  <2> QED
    BY <1>1, <1>5, <2>1, <2>2, <2>3, <2>4 DEF ChannelInv, Channel!Next
<1>6. ASSUME UnderWay' = UnderWay, UNCHANGED <<sent, used, fragments, delivered>>
      PROVE  ChannelInv' /\ UNCHANGED Channel!vars
  <2>1. Assembled(fragments)' = Assembled(fragments)
    BY <1>6 DEF Assembled
  <2> QED
    BY <1>1, <1>6, <2>1 DEF ChannelInv, Channel!vars
<1>7. ~(tasks > 0 /\ request # NoRequest) /\ ~OtherDisconnect
  BY <1>1 DEF OneRequest, OtherDisconnect
<1> QED
  BY <1>1, <1>3, <1>4, <1>5, <1>6, <1>7, StepUnderWay

\* At first nothing is under way.
LEMMA InitChannel == Init => ChannelInv /\ Channel!Init
<1> SUFFICES ASSUME Init PROVE ChannelInv /\ Channel!Init
  OBVIOUS
<1>1. /\ queue = <<>> /\ request = NoRequest /\ wire = <<>> /\ fragments = <<>> /\ tasks = 0
      /\ sent = <<>> /\ delivered = <<>>
  BY DEF Init
<1>2. UnderWay = <<>>
  BY <1>1 DEF UnderWay, Asked
<1>3. OrderInv
  BY InitOrder
<1>4. Remaining(sent, UnderWay, Len(delivered), Len(fragments))
  BY <1>1, <1>2 DEF Remaining
<1> QED
  BY <1>1, <1>2, <1>3, <1>4 DEF ChannelInv, OneRequest, Channel!Init

\* When a message is transmitted only while no other is under way (~Overlap), GNUnet
\* serves every request (~Stalls) and no other client disconnects (~Others), which is what
\* the component relies on (communication.c:130, 199, client-communication.c:209),
\* listeners get whole messages in order, and after a reconnect nothing of the session
\* before.
THEOREM ImplementsTheChannel == ~Overlap /\ ~Stalls /\ ~Others /\ Spec => ImplementsChannel
<1>1. CASE ~Overlap /\ ~Stalls /\ ~Others
  <2>1. ChannelInv /\ [Next]_vars => ChannelInv' /\ [Channel!Next]_Channel!vars
    BY <1>1, StepChannel
  <2> QED
    BY <2>1, InitChannel, PTL DEF Spec, ImplementsChannel, Channel!Spec
<1> QED
  BY <1>1

\* Under the same conditions every buffer has the size in the header of its message, as
\* both receivers assert (client-communication.c:141, gnunet-search.c:81): SizeMatches
\* fails only when messages overlap, GNUnet gives up or another client disconnects.
THEOREM SizesRight == ~Overlap /\ ~Stalls /\ ~Others /\ Spec => []SizeMatches
<1>1. CASE ~Overlap /\ ~Stalls /\ ~Others
  <2>1. ChannelInv /\ [Next]_vars => ChannelInv'
    BY <1>1, StepChannel
  <2>2. ChannelInv => SizeMatches
    <3> SUFFICES ASSUME ChannelInv, NEW i \in DOMAIN delivered
                 PROVE  \E m \in Message : delivered[i] = Bytes(m)
      BY DEF SizeMatches
    <3>1. sent \in Seq(Message) /\ delivered \in Seq(Buffer) /\ Len(delivered) \in 0 .. Len(sent)
      BY DEF ChannelInv, OrderInv, Remaining
    <3>2. sent[i] \in Message /\ delivered[i] = Bytes(sent[i])
      BY <3>1 DEF ChannelInv
    <3> QED
      BY <3>2
  <2> QED
    BY <2>1, <2>2, InitChannel, PTL DEF Spec
<1> QED
  BY <1>1
===============================================================================
