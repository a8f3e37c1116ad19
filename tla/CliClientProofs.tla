---------------------------- MODULE CliClientProofs ----------------------------
(***************************************************************************)
(* What holds of the command line client for files, lines and URLs of any  *)
(* length and any number of results: the URLs of a file get into the       *)
(* service, reading stays within its buffers while the array need not      *)
(* grow, and GNUnet is asked to receive exactly once.                      *)
(***************************************************************************)
EXTENDS CliClient, SequenceTheorems, TLAPS

LOCAL INSTANCE SequencesExt
LOCAL INSTANCE FiniteSetTheorems

-------------------------------------------------------------------------------
(***************************************************************************)
(* FlattenSeq, which puts strings together (as in CommunicationProofs)     *)
(***************************************************************************)

\* The naturals are well-founded.
LEMMA NaturalsWellFounded ==
    IsWellFoundedOn({r \in Nat \X Nat : r[1] < r[2]}, Nat)
  BY NatLessThanWellFounded DEF OpToRel

\* A set of naturals that is not empty has a smallest element.
LEMMA Smallest ==
    ASSUME NEW T \in SUBSET Nat, T # {}
    PROVE  \E n \in T : \A m \in T : n <= m
<1> DEFINE R == {r \in Nat \X Nat : r[1] < r[2]}
<1>1. IsWellFoundedOn(R, Nat)
  BY NaturalsWellFounded
<1> HIDE DEF R
<1>2. PICK n \in T : \A m \in T : ~(<<m, n>> \in R)
  BY <1>1, WFMin
<1>3. \A m \in T : m \in Nat /\ ~(m < n)
  BY <1>2 DEF R
<1> QED
  BY <1>3

\* The equation of the function that FlattenSeq defines recursively.
Flattens(f, s) == f = [i \in 1 .. Len(s) |-> IF i = 1 THEN s[i] ELSE f[i - 1] \o s[i]]

\* There is such a function: the shortest beginning of s without one would have one.
LEMMA FlattenExists ==
    ASSUME NEW S, NEW s \in Seq(S)
    PROVE  \E f : Flattens(f, s)
<1> DEFINE Upto(n, f) == f = [i \in 1 .. n |-> IF i = 1 THEN s[i] ELSE f[i - 1] \o s[i]]
           Bad == {n \in Nat : n <= Len(s) /\ ~(\E f : Upto(n, f))}
<1>1. SUFFICES ASSUME Bad # {} PROVE FALSE
  <2>1. Len(s) \in Nat /\ Len(s) <= Len(s)
    OBVIOUS
  <2>2. (\E f : Upto(Len(s), f)) => \E f : Flattens(f, s)
    BY Zenon DEF Flattens
  <2> QED
    BY <2>1, <2>2
<1>2. PICK n \in Bad : \A m \in Bad : n <= m
  BY <1>1, Smallest
<1>3. n # 0
  <2>1. Upto(0, <<>>)
    OBVIOUS
  <2> QED
    BY <2>1
<1>4. PICK f : Upto(n - 1, f)
  <2>1. n - 1 \in Nat /\ n - 1 <= Len(s) /\ ~(n <= n - 1) /\ Len(s) \in Nat
    BY <1>2, <1>3
  <2>2. n - 1 \notin Bad
    BY <1>2, <2>1
  <2> QED
    BY <2>1, <2>2, Zenon
<1> DEFINE g == [i \in 1 .. n |-> IF i = n THEN (IF i = 1 THEN s[i] ELSE f[i - 1] \o s[i]) ELSE f[i]]
<1>5. n \in Nat /\ n >= 1
  BY <1>3
<1>6. \A i \in 1 .. n : g[i] = IF i = 1 THEN s[i] ELSE g[i - 1] \o s[i]
  <2> TAKE i \in 1 .. n
  <2>1. CASE i = n
    <3>1. CASE i = 1
      BY <2>1, <3>1
    <3>2. CASE i # 1
      <4>1. i - 1 \in 1 .. n /\ i - 1 # n
        BY <1>5, <3>2
      <4> QED
        BY <2>1, <3>2, <4>1
    <3> QED
      BY <3>1, <3>2
  <2>2. CASE i # n
    <3>0. i \in 1 .. n - 1
      BY <1>5, <2>2
    <3>1. f[i] = IF i = 1 THEN s[i] ELSE f[i - 1] \o s[i]
      BY <1>4, <3>0, Zenon
    <3>2. i # 1 => i - 1 \in 1 .. n /\ i - 1 # n
      BY <1>5, <3>0
    <3> QED
      BY <2>2, <3>1, <3>2
  <2> QED
    BY <2>1, <2>2
<1>7. Upto(n, g)
  BY <1>6, Zenon
<1> QED
  BY <1>2, <1>7

\* The functions of two sequences agree as far as the sequences do.
LEMMA FlattenUnique ==
    ASSUME NEW S, NEW s \in Seq(S), NEW t \in Seq(S), Len(s) <= Len(t),
           \A i \in 1 .. Len(s) : s[i] = t[i],
           NEW f, Flattens(f, s), NEW g, Flattens(g, t)
    PROVE  \A i \in 1 .. Len(s) : f[i] = g[i]
<1> DEFINE Bad == {i \in 1 .. Len(s) : f[i] # g[i]}
<1>0. Len(s) \in Nat /\ Len(t) \in Nat
  OBVIOUS
<1>1. SUFFICES ASSUME Bad # {} PROVE FALSE
  OBVIOUS
<1>2. PICK n \in Bad : \A m \in Bad : n <= m
  BY <1>1, Smallest, Bad \in SUBSET Nat
<1>3. f[n] = IF n = 1 THEN s[n] ELSE f[n - 1] \o s[n]
  BY <1>0, Zenon DEF Flattens
<1>4. n \in 1 .. Len(t) /\ g[n] = IF n = 1 THEN t[n] ELSE g[n - 1] \o t[n]
  <2>1. n \in 1 .. Len(t)
    BY <1>0
  <2> QED
    BY <2>1, Zenon DEF Flattens
<1>5. n # 1 => f[n - 1] = g[n - 1]
  BY <1>0, <1>2
<1> QED
  BY <1>3, <1>4, <1>5

\* FlattenSeq is the last value of that function.
LEMMA FlattenIs ==
    ASSUME NEW S, NEW s \in Seq(S), s # <<>>
    PROVE  \E f : Flattens(f, s) /\ FlattenSeq(s) = f[Len(s)]
<1>1. Len(s) # 0
  OBVIOUS
<1>2. FlattenSeq(s) = (CHOOSE f : Flattens(f, s))[Len(s)]
  BY <1>1 DEF FlattenSeq, Flattens
<1>3. Flattens(CHOOSE f : Flattens(f, s), s)
  BY FlattenExists, Zenon
<1> QED
  BY <1>2, <1>3

\* FlattenSeq goes through a sequence from its front.
LEMMA FlattenAppend ==
    ASSUME NEW T, NEW s \in Seq(T), NEW e \in T, <<>> \o e = e
    PROVE  /\ FlattenSeq(<<>>) = <<>>
           /\ FlattenSeq(Append(s, e)) = FlattenSeq(s) \o e
<1>0. FlattenSeq(<<>>) = <<>>
  BY DEF FlattenSeq
<1> DEFINE t == Append(s, e)
<1>1. /\ t \in Seq(T) /\ t # <<>> /\ Len(t) = Len(s) + 1 /\ t[Len(t)] = e /\ Len(s) \in Nat
      /\ \A i \in 1 .. Len(s) : t[i] = s[i]
  OBVIOUS
<1> HIDE DEF t
<1>2. PICK g : Flattens(g, t) /\ FlattenSeq(t) = g[Len(t)]
  BY <1>1, FlattenIs
<1>3. g[Len(t)] = IF Len(t) = 1 THEN e ELSE g[Len(s)] \o e
  <2>1. Len(t) \in 1 .. Len(t) /\ Len(t) - 1 = Len(s)
    BY <1>1
  <2>2. g[Len(t)] = IF Len(t) = 1 THEN t[Len(t)] ELSE g[Len(t) - 1] \o t[Len(t)]
    BY <1>2, <2>1, Zenon DEF Flattens
  <2> QED
    BY <1>1, <2>1, <2>2
<1>4. FlattenSeq(t) = FlattenSeq(s) \o e
  <2>1. CASE s = <<>>
    <3>1. Len(t) = 1
      BY <1>1, <2>1
    <3>2. FlattenSeq(s) = <<>>
      BY <1>0, <2>1
    <3> QED
      BY <1>2, <1>3, <3>1, <3>2
  <2>2. CASE s # <<>>
    <3>1. PICK f : Flattens(f, s) /\ FlattenSeq(s) = f[Len(s)]
      BY <2>2, FlattenIs
    <3>2. Len(s) \in 1 .. Len(s) /\ Len(t) # 1 /\ Len(s) <= Len(t)
      BY <1>1, <2>2
    <3>3. f[Len(s)] = g[Len(s)]
      BY <1>1, <1>2, <3>1, <3>2, FlattenUnique
    <3> QED
      BY <1>2, <1>3, <3>1, <3>2, <3>3
  <2> QED
    BY <2>1, <2>2
<1> QED
  BY <1>0, <1>4 DEF t

-------------------------------------------------------------------------------
(***************************************************************************)
(* Strings joined by a terminator                                          *)
(***************************************************************************)

\* The strings with their terminators.
Ended(strings, e) == [i \in DOMAIN strings |-> Append(strings[i], e)]

\* There is one for each string.
LEMMA EndedType ==
    ASSUME NEW A, NEW e, NEW s \in Seq(Seq(A))
    PROVE  Ended(s, e) \in Seq(Seq(A \cup {e})) /\ Len(Ended(s, e)) = Len(s)
<1>1. \A i \in DOMAIN s : Append(s[i], e) \in Seq(A \cup {e})
  <2> TAKE i \in DOMAIN s
  <2>1. s[i] \in Seq(A)
    OBVIOUS
  <2>2. s[i] \in Seq(A \cup {e}) /\ e \in A \cup {e}
    BY <2>1
  <2> QED
    BY <2>2, AppendProperties
<1>2. Len(s) \in Nat /\ DOMAIN s = 1 .. Len(s)
  OBVIOUS
<1> QED
  BY <1>1, <1>2 DEF Ended

\* Strings are joined from their front.
LEMMA JoinedAppend ==
    ASSUME NEW A, NEW e, NEW s \in Seq(Seq(A)), NEW u \in Seq(A)
    PROVE  /\ Joined(<<>>, e) = <<>>
           /\ Joined(Append(s, u), e) = Joined(s, e) \o Append(u, e)
<1> DEFINE T == Seq(A \cup {e})
<1>1. Ended(s, e) \in Seq(T)
  BY EndedType
<1>2. Append(u, e) \in T /\ <<>> \o Append(u, e) = Append(u, e)
  OBVIOUS
<1>3. Ended(Append(s, u), e) = Append(Ended(s, e), Append(u, e))
  <2> DEFINE t == Append(s, u)
             w == Append(Ended(s, e), Append(u, e))
  <2>1. /\ Len(s) \in Nat /\ DOMAIN s = 1 .. Len(s) /\ DOMAIN t = 1 .. Len(s) + 1
        /\ t[Len(s) + 1] = u /\ \A i \in 1 .. Len(s) : t[i] = s[i]
    OBVIOUS
  <2>2. /\ DOMAIN w = 1 .. Len(s) + 1 /\ w[Len(s) + 1] = Append(u, e)
        /\ \A i \in 1 .. Len(s) : w[i] = Ended(s, e)[i]
    BY <1>1, <1>2, EndedType
  <2>3. w = [i \in 1 .. Len(s) + 1 |-> w[i]]
    <3>1. w \in Seq(T)
      BY <1>1, <1>2, AppendProperties
    <3> HIDE DEF w
    <3> QED
      BY <2>2, <3>1
  <2> HIDE DEF t, w
  <2>4. \A i \in 1 .. Len(s) + 1 : Append(t[i], e) = w[i]
    <3> TAKE i \in 1 .. Len(s) + 1
    <3>1. CASE i = Len(s) + 1
      BY <2>1, <2>2, <3>1
    <3>2. CASE i # Len(s) + 1
      <4>1. i \in 1 .. Len(s)
        BY <2>1, <3>2
      <4>2. Ended(s, e)[i] = Append(s[i], e)
        BY <2>1, <4>1 DEF Ended
      <4> QED
        BY <2>1, <2>2, <4>1, <4>2
    <3> QED
      BY <3>1, <3>2
  <2>5. Ended(t, e) = [i \in 1 .. Len(s) + 1 |-> w[i]]
    BY <2>1, <2>4 DEF Ended
  <2> QED
    BY <2>3, <2>5 DEF t, w
<1>4. Ended(<<>>, e) = <<>>
  BY DEF Ended
<1> HIDE DEF T
<1>5. /\ FlattenSeq(<<>>) = <<>>
      /\ FlattenSeq(Append(Ended(s, e), Append(u, e))) = FlattenSeq(Ended(s, e)) \o Append(u, e)
  BY <1>1, <1>2, FlattenAppend
<1> QED
  BY <1>3, <1>4, <1>5 DEF Joined, Ended

\* Strings that are joined are bytes and terminators.
LEMMA JoinedType ==
    ASSUME NEW A, NEW e, NEW s \in Seq(Seq(A))
    PROVE  Joined(s, e) \in Seq(A \cup {e})
<1> DEFINE Bad == {n \in Nat : \E t \in Seq(Seq(A)) : Len(t) = n /\ Joined(t, e) \notin Seq(A \cup {e})}
<1>1. SUFFICES ASSUME Bad # {} PROVE FALSE
  OBVIOUS
<1>2. PICK n \in Bad : \A m \in Bad : n <= m
  BY <1>1, Smallest, Bad \in SUBSET Nat
<1>3. PICK t \in Seq(Seq(A)) : Len(t) = n /\ Joined(t, e) \notin Seq(A \cup {e})
  BY <1>2
<1>4. CASE t = <<>>
  BY <1>3, <1>4, JoinedAppend
<1>5. CASE t # <<>>
  <2>1. PICK r \in Seq(Seq(A)), u \in Seq(A) : t = Append(r, u)
    BY <1>5, SequenceEmptyOrAppend
  <2>2. Len(r) \in Nat /\ ~(n <= Len(r))
    BY <1>3, <2>1
  <2>3. Joined(r, e) \in Seq(A \cup {e})
    BY <1>2, <2>2
  <2>4. Append(u, e) \in Seq(A \cup {e})
    <3>1. u \in Seq(A \cup {e}) /\ e \in A \cup {e}
      OBVIOUS
    <3> QED
      BY <3>1, AppendProperties
  <2>5. Joined(t, e) = Joined(r, e) \o Append(u, e)
    BY <2>1, JoinedAppend
  <2> QED
    BY <1>3, <2>3, <2>4, <2>5, ConcatProperties
<1> QED
  BY <1>4, <1>5

\* Joined strings start with the first of them and its terminator.
LEMMA JoinedFirst ==
    ASSUME NEW A, NEW e, NEW u \in Seq(A), NEW s \in Seq(Seq(A))
    PROVE  Joined(<<u>> \o s, e) = Append(u, e) \o Joined(s, e)
<1> DEFINE Starts(t) == Joined(<<u>> \o t, e) = Append(u, e) \o Joined(t, e)
           Bad == {n \in Nat : \E t \in Seq(Seq(A)) : Len(t) = n /\ ~Starts(t)}
<1>1. SUFFICES ASSUME Bad # {} PROVE FALSE
  OBVIOUS
<1>2. PICK n \in Bad : \A m \in Bad : n <= m
  BY <1>1, Smallest, Bad \in SUBSET Nat
<1>3. PICK t \in Seq(Seq(A)) : Len(t) = n /\ ~Starts(t)
  BY <1>2
<1>4. Append(u, e) \in Seq(A \cup {e})
  <2>1. u \in Seq(A \cup {e}) /\ e \in A \cup {e}
    OBVIOUS
  <2> QED
    BY <2>1, AppendProperties
<1>5. <<u>> \in Seq(Seq(A)) /\ <<>> \in Seq(Seq(A))
  OBVIOUS
<1>6. CASE t = <<>>
  <2>1. <<u>> \o t = Append(<<>>, u)
    BY <1>6
  <2>2. Joined(<<u>> \o t, e) = <<>> \o Append(u, e)
    BY <1>5, <2>1, JoinedAppend
  <2>3. Joined(t, e) = <<>>
    BY <1>5, <1>6, JoinedAppend
  <2> QED
    BY <1>3, <1>4, <2>2, <2>3, ConcatEmptySeq
<1>7. CASE t # <<>>
  <2>1. PICK r \in Seq(Seq(A)), v \in Seq(A) : t = Append(r, v)
    BY <1>7, SequenceEmptyOrAppend
  <2>2. Len(r) \in Nat /\ ~(n <= Len(r))
    BY <1>3, <2>1
  <2>3. Joined(<<u>> \o r, e) = Append(u, e) \o Joined(r, e)
    BY <1>2, <2>2
  <2>4. <<u>> \o t = Append(<<u>> \o r, v) /\ <<u>> \o r \in Seq(Seq(A))
    BY <1>5, <2>1
  <2>5. Append(v, e) \in Seq(A \cup {e}) /\ Joined(r, e) \in Seq(A \cup {e})
    <3>1. v \in Seq(A \cup {e}) /\ e \in A \cup {e}
      OBVIOUS
    <3> QED
      BY <3>1, AppendProperties, JoinedType
  <2>6. Joined(<<u>> \o t, e) = (Append(u, e) \o Joined(r, e)) \o Append(v, e)
    BY <2>3, <2>4, JoinedAppend
  <2>7. Joined(t, e) = Joined(r, e) \o Append(v, e)
    BY <2>1, JoinedAppend
  <2>8. (Append(u, e) \o Joined(r, e)) \o Append(v, e) = Append(u, e) \o (Joined(r, e) \o Append(v, e))
    <3> DEFINE B == A \cup {e}
               x == Append(u, e)
               y == Joined(r, e)
               z == Append(v, e)
    <3>1. x \in Seq(B) /\ y \in Seq(B) /\ z \in Seq(B)
      BY <1>4, <2>5
    <3> HIDE DEF B, x, y, z, Starts, Bad
    <3>2. (x \o y) \o z = x \o (y \o z)
      BY <3>1, ConcatAssociative
    <3> QED
      BY <3>2 DEF x, y, z
  <2> QED
    BY <1>3, <2>6, <2>7, <2>8
<1> QED
  BY <1>6, <1>7

\* FirstLength finds the end of the first string, or of the bytes.
LEMMA FirstLengthFinds ==
    ASSUME NEW bytes \in Seq(Byte \cup {Nul})
    PROVE  /\ FirstLength(bytes) \in 0 .. Len(bytes)
           /\ FirstLength(bytes) < Len(bytes) => bytes[FirstLength(bytes) + 1] = Nul
           /\ \A i \in 1 .. FirstLength(bytes) : bytes[i] # Nul
<1> DEFINE Ends(n) == /\ n < Len(bytes) => bytes[n + 1] = Nul
                      /\ \A i \in 1 .. n : bytes[i] # Nul
           Stops == {n \in 0 .. Len(bytes) : n < Len(bytes) => bytes[n + 1] = Nul}
<1>0. Len(bytes) \in Nat
  OBVIOUS
<1>1. \E n \in 0 .. Len(bytes) : Ends(n)
  <2>1. Stops \in SUBSET Nat /\ Stops # {}
    <3>1. Len(bytes) \in Stops
      BY <1>0
    <3> QED
      BY <1>0, <3>1
  <2>2. PICK n \in Stops : \A m \in Stops : n <= m
    BY <2>1, Smallest
  <2>3. ASSUME NEW i \in 1 .. n, bytes[i] = Nul
        PROVE  FALSE
    <3>1. i - 1 \in 0 .. Len(bytes) /\ (i - 1) + 1 = i /\ ~(n <= i - 1)
      BY <1>0, <2>2
    <3>2. i - 1 \in Stops
      BY <2>3, <3>1
    <3> QED
      BY <2>2, <3>1, <3>2
  <2>4. n \in 0 .. Len(bytes) /\ (n < Len(bytes) => bytes[n + 1] = Nul)
    BY <2>2
  <2> QED
    BY <2>3, <2>4
<1>2. FirstLength(bytes) = CHOOSE n \in 0 .. Len(bytes) : Ends(n)
  BY DEF FirstLength
<1> QED
  BY <1>1, <1>2, Zenon

\* A string is parsed as it was serialised, with its terminator.
LEMMA FirstString ==
    ASSUME NEW u \in String, NEW rest \in Seq(Byte \cup {Nul})
    PROVE  LET bytes == Append(u, Nul) \o rest
           IN  /\ bytes \in Seq(Byte \cup {Nul}) /\ bytes # <<>>
               /\ SubSeq(bytes, 1, FirstLength(bytes)) = u
               /\ SubSeq(bytes, FirstLength(bytes) + 2, Len(bytes)) = rest
<1> DEFINE bytes == Append(u, Nul) \o rest
           n == FirstLength(bytes)
<1>1. /\ u \in Seq(Byte) /\ u \in Seq(Byte \cup {Nul}) /\ Len(u) \in Nat /\ Len(rest) \in Nat
      /\ \A i \in 1 .. Len(u) : u[i] \in Byte /\ u[i] # Nul
  BY UrlFileAssumption DEF String
<1>2. /\ Append(u, Nul) \in Seq(Byte \cup {Nul}) /\ Len(Append(u, Nul)) = Len(u) + 1
      /\ \A i \in 1 .. Len(u) : Append(u, Nul)[i] = u[i]
      /\ Append(u, Nul)[Len(u) + 1] = Nul
  BY <1>1, AppendProperties
<1>3. /\ bytes \in Seq(Byte \cup {Nul}) /\ Len(bytes) = Len(u) + 1 + Len(rest)
      /\ \A i \in 1 .. Len(u) : bytes[i] = u[i]
      /\ bytes[Len(u) + 1] = Nul
      /\ \A i \in 1 .. Len(rest) : bytes[Len(u) + 1 + i] = rest[i]
  BY <1>1, <1>2, ConcatProperties
<1> HIDE DEF bytes
<1>4. n \in 0 .. Len(bytes) /\ (n < Len(bytes) => bytes[n + 1] = Nul) /\ \A i \in 1 .. n : bytes[i] # Nul
  BY <1>3, FirstLengthFinds
<1> HIDE DEF n
<1>5. n = Len(u)
  <2>1. ~(n > Len(u))
    <3>1. ASSUME n > Len(u) PROVE FALSE
      <4>1. Len(u) + 1 \in 1 .. n
        BY <1>1, <1>4, <3>1
      <4> QED
        BY <1>3, <1>4, <4>1
    <3> QED
      BY <3>1
  <2>2. ~(n < Len(u))
    <3>1. ASSUME n < Len(u) PROVE FALSE
      <4>1. n + 1 \in 1 .. Len(u) /\ n < Len(bytes)
        BY <1>1, <1>3, <1>4, <3>1
      <4> QED
        BY <1>1, <1>3, <1>4, <4>1
    <3> QED
      BY <3>1
  <2> QED
    BY <1>1, <1>4, <2>1, <2>2
<1>6. SubSeq(bytes, 1, n) = u
  <2>1. \A i \in 1 .. n : bytes[i] \in Byte \cup {Nul}
    BY <1>1, <1>3, <1>5
  <2>2. /\ SubSeq(bytes, 1, n) \in Seq(Byte \cup {Nul}) /\ Len(SubSeq(bytes, 1, n)) = n
        /\ \A i \in 1 .. n : SubSeq(bytes, 1, n)[i] = bytes[i]
    BY <1>1, <1>5, <2>1, SubSeqProperties
  <2> QED
    BY <1>1, <1>3, <1>5, <2>2, SeqEqual
<1>7. SubSeq(bytes, n + 2, Len(bytes)) = rest
  <2> DEFINE t == SubSeq(bytes, n + 2, Len(bytes))
  <2>1. \A i \in n + 2 .. Len(bytes) : bytes[i] \in Byte \cup {Nul}
    BY <1>1, <1>3, <1>5
  <2>2. /\ t \in Seq(Byte \cup {Nul}) /\ Len(t) = Len(rest)
        /\ \A i \in 1 .. Len(rest) : t[i] = bytes[n + 2 + i - 1]
    BY <1>1, <1>3, <1>5, <2>1, SubSeqProperties
  <2>3. \A i \in 1 .. Len(rest) : t[i] = rest[i]
    <3> TAKE i \in 1 .. Len(rest)
    <3>1. n + 2 + i - 1 = Len(u) + 1 + i
      BY <1>1, <1>5
    <3> QED
      BY <1>3, <2>2, <3>1
  <2> HIDE DEF t
  <2>4. t = rest
    BY <2>2, <2>3, SeqEqual
  <2> QED
    BY <2>4 DEF t
<1>8. bytes # <<>>
  BY <1>1, <1>3
<1> QED
  BY <1>3, <1>6, <1>7, <1>8 DEF bytes, n

-------------------------------------------------------------------------------
(***************************************************************************)
(* Reading the file and parsing the command                                *)
(***************************************************************************)

Symbol == Byte \cup {Newline}

\* The array holds the lines of the file; of a last line without a newline its last byte
\* may be missing.
Complete(strings) ==
    IF Terminated
    THEN text = Joined(strings, Newline)
    ELSE LET lines == Joined(Front(strings), Newline)
             rest  == SubSeq(text, Len(lines) + 1, Len(text))
         IN  strings # <<>> /\ text = lines \o rest /\ Last(strings) \in {rest, Front(rest)}

\* While the file is read, the lines in the array, the line as far as it was read and
\* what is left of the file are the file.
ReadSoFar ==
    phase = "read" =>
        /\ text = (Joined(urls, Newline) \o line) \o file
        /\ command = <<>> /\ parsed = <<>>

\* Once it was read, the array is complete, and what was parsed and what the command
\* still holds are the array.
ToParse ==
    phase # "read" =>
        /\ Complete(urls)
        /\ \E rest \in Seq(String) :
              /\ urls = parsed \o rest /\ command = Serialized(rest)
              /\ phase = "parse" <=> rest # <<>>

UrlInv == TypeOK /\ ReadSoFar /\ ToParse

\* A file is a sequence.
LEMMA FilesAreSequences == \A f \in Files : f \in Seq(Symbol)
  BY UrlFileAssumption DEF Files, Symbol

\* At first all of the file is left.
LEMMA InitUrl == Init => UrlInv
<1> SUFFICES ASSUME Init PROVE UrlInv
  OBVIOUS
<1>1. text \in Files /\ text \in Seq(Symbol) /\ file = text
  BY FilesAreSequences DEF Init
<1>2. TypeOK
  <2>1. LineSize \in Nat /\ ArraySize \in Nat
    BY UrlFileAssumption
  <2>2. \A S : <<>> \in Seq(S)
    OBVIOUS
  <2> QED
    BY <1>1, <2>1, <2>2 DEF Init, TypeOK, Symbol, String
<1>3. (Joined(urls, Newline) \o line) \o file = file
  <2>1. urls = <<>> /\ line = <<>> /\ <<>> \in Seq(Seq(Byte)) /\ <<>> \in Seq(Byte)
    BY DEF Init
  <2>2. Joined(urls, Newline) = <<>>
    BY <2>1, JoinedAppend
  <2> QED
    BY <1>1, <2>1, <2>2
<1> QED
  BY <1>1, <1>2, <1>3 DEF Init, UrlInv, ReadSoFar, ToParse

\* Reading a byte moves it from the file to the line, or completes the line with it.
LEMMA ReadByteUrl ==
    ASSUME UrlInv, ReadByte
    PROVE  UrlInv'
<1> DEFINE J == Joined(urls, Newline)
           h == Head(file)
<1>1. /\ phase = "read" /\ file # <<>> /\ phase' = "read"
      /\ file \in Seq(Symbol) /\ h \in Symbol /\ Tail(file) \in Seq(Symbol)
      /\ line \in Seq(Byte) /\ line \in Seq(Symbol) /\ urls \in Seq(Seq(Byte))
      /\ J \in Seq(Symbol)
      /\ file = <<h>> \o Tail(file)
  <2>1. file \in Seq(Symbol) /\ file # <<>> /\ phase = "read"
    BY DEF UrlInv, TypeOK, ReadByte, Symbol
  <2>2. line \in Seq(Byte) /\ line \in Seq(Symbol) /\ urls \in Seq(Seq(Byte))
    BY DEF UrlInv, TypeOK, String, Symbol
  <2>3. J \in Seq(Symbol)
    BY <2>2, JoinedType DEF Symbol
  <2> QED
    BY <2>1, <2>2, <2>3 DEF ReadByte
<1>2. text = (J \o line) \o file /\ command = <<>> /\ parsed = <<>>
  BY <1>1 DEF UrlInv, ReadSoFar
<1>3. UNCHANGED <<phase, command, parsed, text>> /\ file' = Tail(file)
  BY DEF ReadByte
<1>4. line_size' \in Nat /\ overrun' \in BOOLEAN
  <2>1. line_size \in Nat
    BY DEF UrlInv, TypeOK
  <2> QED
    BY <2>1 DEF ReadByte, LineRoom
<1> HIDE DEF J, h
<1>5. /\ line' \in Seq(Byte) /\ urls' \in Seq(Seq(Byte))
      /\ Joined(urls', Newline) \o line' = (J \o line) \o <<h>>
  <2>1. CASE h = Newline
    <3>1. line' = <<>> /\ urls' = Append(urls, line)
      BY <2>1 DEF ReadByte, AppendUrl, h
    <3>2. Joined(urls', Newline) = J \o Append(line, Newline)
      BY <1>1, <3>1, JoinedAppend DEF J
    <3>3. Append(line, Newline) = line \o <<Newline>> /\ <<Newline>> \in Seq(Symbol)
      BY <1>1, <2>1, AppendIsConcat
    <3>4. J \o (line \o <<Newline>>) = (J \o line) \o <<Newline>>
      BY <1>1, <3>3, ConcatAssociative
    <3>5. ((J \o line) \o <<Newline>>) \o <<>> = (J \o line) \o <<Newline>>
      BY <1>1, <3>3, ConcatProperties, ConcatEmptySeq
    <3> QED
      BY <1>1, <2>1, <3>1, <3>2, <3>3, <3>4, <3>5
  <2>2. CASE h # Newline
    <3>1. line' = Append(line, h) /\ urls' = urls /\ h \in Byte
      BY <1>1, <2>2 DEF ReadByte, h, Symbol
    <3>2. Append(line, h) = line \o <<h>> /\ <<h>> \in Seq(Symbol)
      BY <1>1, AppendIsConcat
    <3>3. J \o (line \o <<h>>) = (J \o line) \o <<h>>
      BY <1>1, <3>2, ConcatAssociative
    <3> QED
      BY <1>1, <3>1, <3>2, <3>3 DEF J
  <2> QED
    BY <2>1, <2>2
<1>6. urls_size' \in Nat /\ room' \in Nat
  <2>1. urls_size \in Nat /\ room \in Nat /\ PointerSize \in Nat \ {0}
    BY UrlFileAssumption DEF UrlInv, TypeOK
  <2>2. 2 * urls_size \in Nat /\ (2 * urls_size) \div PointerSize \in Nat
    BY <2>1
  <2>3. CASE h = Newline
    BY <2>1, <2>2, <2>3 DEF ReadByte, AppendUrl, h
  <2>4. CASE h # Newline
    BY <2>1, <2>4 DEF ReadByte, h
  <2> QED
    BY <2>3, <2>4
<1>7. text = (Joined(urls', Newline) \o line') \o Tail(file)
  <2>1. <<h>> \in Seq(Symbol) /\ J \o line \in Seq(Symbol)
    BY <1>1, ConcatProperties
  <2>2. (J \o line) \o (<<h>> \o Tail(file)) = ((J \o line) \o <<h>>) \o Tail(file)
    BY <1>1, <2>1, ConcatAssociative
  <2> QED
    BY <1>1, <1>2, <1>5, <2>2
<1>8. TypeOK'
  BY <1>1, <1>3, <1>4, <1>5, <1>6 DEF UrlInv, TypeOK, Symbol, String
<1>9. ReadSoFar' /\ ToParse'
  BY <1>1, <1>2, <1>3, <1>7 DEF ReadSoFar, ToParse
<1> QED
  BY <1>8, <1>9 DEF UrlInv

\* Lines that end with newlines are complete.
LEMMA CompleteLines ==
    ASSUME NEW s \in Seq(Seq(Byte)), text = Joined(s, Newline)
    PROVE  Complete(s)
<1>1. CASE s = <<>>
  <2>1. text = <<>>
    <3>1. <<>> \in Seq(Byte)
      OBVIOUS
    <3> QED
      BY <1>1, <3>1, JoinedAppend
  <2> QED
    BY <2>1 DEF Complete, Terminated
<1>2. CASE s # <<>>
  <2>1. PICK r \in Seq(Seq(Byte)), u \in Seq(Byte) : s = Append(r, u)
    BY <1>2, SequenceEmptyOrAppend
  <2> DEFINE x == Joined(r, Newline)
             y == Append(u, Newline)
  <2>2. text = x \o y /\ x \in Seq(Symbol)
    BY <2>1, JoinedAppend, JoinedType DEF Symbol
  <2>3. y \in Seq(Symbol) /\ Len(y) \in Nat /\ Len(y) >= 1 /\ y[Len(y)] = Newline
    <3>1. u \in Seq(Symbol) /\ Newline \in Symbol /\ Len(u) \in Nat
      BY DEF Symbol
    <3> QED
      BY <3>1, AppendProperties
  <2> HIDE DEF x, y
  <2>4. text[Len(text)] = Newline
    BY <2>2, <2>3, ConcatProperties
  <2> QED
    BY <2>4 DEF Complete, Terminated, Last
<1> QED
  BY <1>1, <1>2

\* So are lines and a rest without a newline, if only the last byte of that is missing.
LEMMA CompleteRest ==
    ASSUME NEW s \in Seq(Seq(Byte)), NEW l \in Seq(Byte), l # <<>>,
           text = Joined(s, Newline) \o l,
           NEW url \in Seq(Byte), url \in {l, Front(l)}
    PROVE  Complete(Append(s, url))
<1> DEFINE x == Joined(s, Newline)
           rest == SubSeq(text, Len(x) + 1, Len(text))
<1>1. /\ x \in Seq(Symbol) /\ l \in Seq(Symbol) /\ text = x \o l
      /\ Len(x) \in Nat /\ Len(l) \in Nat \ {0} /\ l[Len(l)] \in Byte
  BY JoinedType DEF Symbol
<1> HIDE DEF x
<1>2. /\ Len(text) = Len(x) + Len(l) /\ text # <<>>
      /\ \A i \in 1 .. Len(l) : text[Len(x) + i] = l[i]
  <2>1. /\ Len(text) = Len(x) + Len(l)
        /\ \A i \in 1 .. Len(x) + Len(l) : text[i] = IF i <= Len(x) THEN x[i] ELSE l[i - Len(x)]
    BY <1>1, ConcatProperties
  <2>2. ASSUME NEW i \in 1 .. Len(l)
        PROVE  text[Len(x) + i] = l[i]
    <3>1. Len(x) + i \in 1 .. Len(x) + Len(l) /\ ~(Len(x) + i <= Len(x)) /\ Len(x) + i - Len(x) = i
      BY <1>1
    <3> QED
      BY <2>1, <3>1
  <2> QED
    BY <1>1, <2>1, <2>2
<1>3. ~Terminated
  <2>1. text[Len(text)] = l[Len(l)]
    BY <1>1, <1>2
  <2> QED
    BY <1>1, <1>2, <2>1, UrlFileAssumption DEF Terminated, Last
<1>4. rest = l
  <2>1. \A i \in Len(x) + 1 .. Len(text) : text[i] \in Symbol
    <3> TAKE i \in Len(x) + 1 .. Len(text)
    <3>1. i - Len(x) \in 1 .. Len(l) /\ Len(x) + (i - Len(x)) = i
      BY <1>1, <1>2
    <3>2. text[i] = l[i - Len(x)]
      BY <1>2, <3>1
    <3> QED
      BY <1>1, <3>1, <3>2
  <2>2. /\ rest \in Seq(Symbol) /\ Len(rest) = Len(l)
        /\ \A i \in 1 .. Len(l) : rest[i] = text[Len(x) + 1 + i - 1]
    BY <1>1, <1>2, <2>1, SubSeqProperties
  <2> HIDE DEF rest
  <2>3. \A i \in 1 .. Len(l) : rest[i] = l[i]
    <3> TAKE i \in 1 .. Len(l)
    <3>1. Len(x) + 1 + i - 1 = Len(x) + i
      BY <1>1
    <3> QED
      BY <1>2, <2>2, <3>1
  <2> QED
    BY <1>1, <2>2, <2>3, SeqEqual
<1>5. Append(s, url) # <<>> /\ Front(Append(s, url)) = s /\ Last(Append(s, url)) = url
  <2> DEFINE t == Append(s, url)
  <2>1. /\ t \in Seq(Seq(Byte)) /\ t # <<>> /\ Len(t) = Len(s) + 1 /\ Len(s) \in Nat
        /\ \A i \in 1 .. Len(s) : t[i] = s[i]
        /\ t[Len(s) + 1] = url
    BY AppendProperties
  <2> HIDE DEF t
  <2>2. SubSeq(t, 1, Len(t) - 1) = s
    <3>1. Len(t) - 1 = Len(s) /\ \A i \in 1 .. Len(s) : t[i] \in Seq(Byte)
      BY <2>1
    <3>2. /\ SubSeq(t, 1, Len(s)) \in Seq(Seq(Byte)) /\ Len(SubSeq(t, 1, Len(s))) = Len(s)
          /\ \A i \in 1 .. Len(s) : SubSeq(t, 1, Len(s))[i] = t[i]
      BY <2>1, <3>1, SubSeqProperties
    <3> QED
      BY <2>1, <3>1, <3>2, SeqEqual
  <2> QED
    BY <2>1, <2>2 DEF Front, Last, t
<1>6. text = x \o rest /\ url \in {rest, Front(rest)}
  BY <1>1, <1>4
<1> QED
  BY <1>3, <1>5, <1>6 DEF Complete, x, rest

\* At the end of the file the array is completed and serialised.
LEMMA ReadEndUrl ==
    ASSUME UrlInv, ReadEnd
    PROVE  UrlInv'
<1>1. /\ phase = "read" /\ file = <<>> /\ line' = <<>>
      /\ UNCHANGED <<file, parsed, text>>
      /\ command' = Serialized(urls') /\ parsed = <<>>
      /\ phase' = IF urls' = <<>> THEN "nothing" ELSE "parse"
  BY DEF ReadEnd, UrlInv, ReadSoFar
<1>2. urls \in Seq(Seq(Byte)) /\ line \in Seq(Byte)
  BY DEF UrlInv, TypeOK, String
<1>3. text = Joined(urls, Newline) \o line
  <2>1. Joined(urls, Newline) \in Seq(Symbol) /\ line \in Seq(Symbol)
    BY <1>2, JoinedType DEF Symbol
  <2>2. Joined(urls, Newline) \o line \in Seq(Symbol)
    BY <2>1, ConcatProperties
  <2>3. text = (Joined(urls, Newline) \o line) \o <<>>
    BY <1>1 DEF UrlInv, ReadSoFar
  <2> QED
    BY <2>2, <2>3, ConcatEmptySeq
<1>4. PICK next \in Byte \cup {Newline} :
          IF line = <<>>
          THEN UNCHANGED <<urls, urls_size, room>>
          ELSE AppendUrl(IF next = Newline THEN Front(line) ELSE line)
  BY DEF ReadEnd
<1>5. urls' \in Seq(Seq(Byte)) /\ Complete(urls')
  <2>1. CASE line = <<>>
    <3>1. urls' = urls
      BY <1>4, <2>1
    <3>2. text = Joined(urls, Newline)
      BY <1>2, <1>3, <2>1, JoinedType, ConcatEmptySeq
    <3> QED
      BY <1>2, <3>1, <3>2, CompleteLines
  <2>2. CASE line # <<>>
    <3> DEFINE url == IF next = Newline THEN Front(line) ELSE line
    <3>1. urls' = Append(urls, url)
      BY <1>4, <2>2 DEF AppendUrl
    <3>2. url \in {line, Front(line)} /\ url \in Seq(Byte)
      BY <1>2 DEF Front
    <3> HIDE DEF url
    <3>3. Complete(Append(urls, url))
      BY <1>2, <1>3, <2>2, <3>2, CompleteRest
    <3> QED
      BY <1>2, <3>1, <3>2, <3>3
  <2> QED
    BY <2>1, <2>2
<1>6. Complete(urls)'
  BY <1>1, <1>5 DEF Complete, Terminated
<1>7. urls_size' \in Nat /\ room' \in Nat
  <2>1. urls_size \in Nat /\ room \in Nat /\ PointerSize \in Nat \ {0}
    BY UrlFileAssumption DEF UrlInv, TypeOK
  <2>2. 2 * urls_size \in Nat /\ (2 * urls_size) \div PointerSize \in Nat
    BY <2>1
  <2> QED
    BY <1>4, <2>1, <2>2 DEF AppendUrl
<1>8. line_size' \in Nat /\ overrun' \in BOOLEAN
  <2>1. line_size \in Nat
    BY DEF UrlInv, TypeOK
  <2> QED
    BY <2>1 DEF ReadEnd, LineRoom
<1>9. TypeOK'
  <2>1. command' \in Seq(Byte \cup {Nul})
    BY <1>1, <1>5, JoinedType DEF Serialized
  <2>2. line' \in Seq(Byte)
    BY <1>1
  <2>3. phase' \in {"read", "parse", "done", "nothing"}
    BY <1>1
  <2> QED
    BY <1>1, <1>5, <1>7, <1>8, <2>1, <2>2, <2>3 DEF UrlInv, TypeOK, String
<1>10. ToParse'
  <2>1. urls' = parsed' \o urls'
    BY <1>1, <1>5
  <2>2. phase' = "parse" <=> urls' # <<>>
    BY <1>1
  <2>3. \E rest \in Seq(String) :
            /\ urls' = parsed' \o rest /\ command' = Serialized(rest)
            /\ phase' = "parse" <=> rest # <<>>
    BY <1>1, <1>5, <2>1, <2>2 DEF String
  <2> QED
    BY <1>6, <2>3 DEF ToParse
<1>11. ReadSoFar'
  BY <1>1 DEF ReadSoFar
<1> QED
  BY <1>9, <1>10, <1>11 DEF UrlInv

\* The service takes the next string from the command.
LEMMA CmdUrlsGetUrl ==
    ASSUME UrlInv, CmdUrlsGet
    PROVE  UrlInv'
<1> DEFINE n == FirstLength(command)
<1>1. /\ phase = "parse" /\ command # <<>>
      /\ parsed' = Append(parsed, SubSeq(command, 1, n))
      /\ command' = SubSeq(command, n + 2, Len(command))
      /\ phase' = IF command' = <<>> THEN "done" ELSE "parse"
      /\ UNCHANGED <<file, line, line_size, urls, urls_size, room, overrun, text>>
  BY DEF CmdUrlsGet
<1> HIDE DEF n
<1>2. Complete(urls) /\ parsed \in Seq(String)
  BY <1>1 DEF UrlInv, ToParse, TypeOK
<1>3. PICK rest \in Seq(String) :
          /\ urls = parsed \o rest /\ command = Serialized(rest)
          /\ phase = "parse" <=> rest # <<>>
  BY <1>1 DEF UrlInv, ToParse
<1> DEFINE u == Head(rest)
           r == Tail(rest)
<1>4. rest = <<u>> \o r /\ u \in String /\ r \in Seq(String)
  BY <1>1, <1>3
<1> HIDE DEF u, r
<1>5. command = Append(u, Nul) \o Serialized(r) /\ Serialized(r) \in Seq(Byte \cup {Nul})
  BY <1>3, <1>4, JoinedFirst, JoinedType DEF Serialized, String
<1>6. parsed' = Append(parsed, u) /\ command' = Serialized(r)
  BY <1>1, <1>4, <1>5, FirstString DEF n
<1>7. Serialized(r) = <<>> <=> r = <<>>
  <2>1. CASE r = <<>>
    BY <2>1, <1>4, JoinedAppend DEF Serialized, String
  <2>2. CASE r # <<>>
    <3> DEFINE v == Head(r)
               q == Tail(r)
    <3>1. r = <<v>> \o q /\ v \in String /\ q \in Seq(String)
      BY <1>4, <2>2
    <3> HIDE DEF v, q
    <3>2. Serialized(r) = Append(v, Nul) \o Serialized(q) /\ Serialized(q) \in Seq(Byte \cup {Nul})
      BY <3>1, JoinedFirst, JoinedType DEF Serialized, String
    <3>3. Serialized(r) # <<>>
      BY <3>1, <3>2, FirstString
    <3> QED
      BY <2>2, <3>3
  <2> QED
    BY <2>1, <2>2
<1>8. urls' = parsed' \o r
  <2>1. <<u>> \in Seq(String)
    BY <1>4
  <2>2. parsed' = parsed \o <<u>>
    BY <1>2, <1>4, <1>6, AppendIsConcat
  <2>3. (parsed \o <<u>>) \o r = parsed \o (<<u>> \o r)
    BY <1>2, <1>4, <2>1, ConcatAssociative
  <2> QED
    BY <1>1, <1>3, <1>4, <2>2, <2>3
<1>9. TypeOK'
  <2>1. parsed' \in Seq(String) /\ command' \in Seq(Byte \cup {Nul})
    BY <1>2, <1>4, <1>5, <1>6
  <2>2. phase' \in {"read", "parse", "done", "nothing"}
    BY <1>1
  <2> QED
    BY <1>1, <2>1, <2>2 DEF UrlInv, TypeOK
<1>10. ToParse'
  <2>1. Complete(urls)'
    BY <1>1, <1>2 DEF Complete, Terminated
  <2>2. phase' = "parse" <=> r # <<>>
    BY <1>1, <1>6, <1>7
  <2> QED
    BY <1>4, <1>6, <1>8, <2>1, <2>2 DEF ToParse
<1>11. ReadSoFar'
  BY <1>1 DEF ReadSoFar
<1> QED
  BY <1>9, <1>10, <1>11 DEF UrlInv

LEMMA StepUrl ==
    ASSUME UrlInv, [Next]_vars
    PROVE  UrlInv'
<1>1. CASE UNCHANGED vars
  BY <1>1 DEF vars, UrlInv, TypeOK, ReadSoFar, ToParse, Complete, Terminated
<1> QED
  BY <1>1, ReadByteUrl, ReadEndUrl, CmdUrlsGetUrl DEF Next

-------------------------------------------------------------------------------
(***************************************************************************)
(* The client makes UrlFile's steps and no other with UrlFile's variables  *)
(***************************************************************************)

LEMMA UrlFileSteps ==
    ASSUME [CliNext]_cliVars
    PROVE  [Next]_vars
<1>1. CASE UNCHANGED cliVars
  BY <1>1 DEF cliVars
<1>2. CASE ReadUrls
  BY <1>2 DEF ReadUrls, Next
<1>3. CASE ServeAdd
  BY <1>3 DEF ServeAdd, Next
<1>4. CASE Run \/ ServeSearch \/ ServiceGoes \/ ReceiveFragment \/ ReceiveResponse
           \/ ReceiveNull \/ Interrupt
  BY <1>4 DEF Run, ServeSearch, ServiceGoes, ReceiveFragment, ReceiveResponse, ReceiveNull, Interrupt
<1> QED
  BY <1>1, <1>2, <1>3, <1>4 DEF CliNext

LEMMA UrlInvariant == CliSpec => []UrlInv
<1>1. CliInit => UrlInv
  BY InitUrl DEF CliInit
<1>2. UrlInv /\ [CliNext]_cliVars => UrlInv'
  BY UrlFileSteps, StepUrl
<1> QED
  BY <1>1, <1>2, PTL DEF CliSpec

\* Unless reading the file overran its arrays, the service gets the lines as its URLs, in
\* order and unchanged, except that of a last line without a newline it may miss the last
\* byte (client-util.c:60, 112, url-processor.c:142).
THEOREM UrlsGetThere == CliSpec => []UrlsArrive
<1>1. UrlInv => UrlsArrive
  <2> SUFFICES ASSUME UrlInv, phase \in {"done", "nothing"} PROVE UrlsArrive
    BY DEF UrlsArrive
  <2>1. parsed \in Seq(String) /\ Complete(urls)
    BY DEF UrlInv, TypeOK, ToParse
  <2>2. PICK rest \in Seq(String) : urls = parsed \o rest /\ (phase = "parse" <=> rest # <<>>)
    BY DEF UrlInv, ToParse
  <2>3. urls = parsed
    BY <2>1, <2>2
  <2>4. \A i \in DOMAIN parsed : parsed[i] \in String
    BY <2>1
  <2>5. Complete(parsed)
    BY <2>1, <2>3
  <2> QED
    BY <2>4, <2>5 DEF UrlsArrive, Complete
<1> QED
  BY <1>1, UrlInvariant, PTL

-------------------------------------------------------------------------------
(***************************************************************************)
(* The room of the buffers                                                 *)
(***************************************************************************)

\* The newlines that were read.
Seen == {i \in Newlines : i <= Len(text) - Len(file)}

\* There is room for the line; the array holds a URL for every newline that was read,
\* and has not grown if there are few newlines.
RoomInv ==
    /\ line_size \in Nat \ {0} /\ Len(line) <= line_size
    /\ Small =>
          /\ ~overrun
          /\ phase = "read" =>
                urls_size = ArraySize /\ room = ArraySize /\ Len(urls) = Cardinality(Seen)

\* There are finitely many newlines.
LEMMA NewlinesFinite ==
    ASSUME UrlInv
    PROVE  /\ text \in Seq(Symbol) /\ Newlines \subseteq 1 .. Len(text)
           /\ IsFiniteSet(Newlines) /\ Cardinality(Newlines) \in Nat
           /\ IsFiniteSet(Seen) /\ Cardinality(Seen) \in Nat
           /\ Cardinality(Seen) <= Cardinality(Newlines)
<1>1. text \in Seq(Symbol)
  BY FilesAreSequences DEF UrlInv, TypeOK
<1>2. Newlines \subseteq 1 .. Len(text) /\ Len(text) \in Nat
  BY <1>1 DEF Newlines
<1>3. IsFiniteSet(Newlines)
  <2>1. IsFiniteSet(1 .. Len(text))
    BY <1>2, FS_Interval
  <2> QED
    BY <1>2, <2>1, FS_Subset
<1>4. Seen \in SUBSET Newlines
  BY DEF Seen
<1> QED
  BY <1>1, <1>2, <1>3, <1>4, FS_Subset, FS_CardinalityType

\* At first no newline was read.
LEMMA InitRoom == Init => RoomInv
<1> SUFFICES ASSUME Init PROVE RoomInv
  OBVIOUS
<1>1. UrlInv
  BY InitUrl
<1>2. Seen = {}
  <2>1. Newlines \subseteq 1 .. Len(text) /\ Len(text) \in Nat
    BY <1>1, NewlinesFinite
  <2>2. \A i \in Newlines : ~(i <= Len(text) - Len(text))
    BY <2>1
  <2> QED
    BY <2>2 DEF Init, Seen
<1>3. Cardinality(Seen) = 0
  BY <1>2, FS_EmptySet
<1>4. LineSize \in Nat \ {0}
  BY UrlFileAssumption
<1> QED
  BY <1>3, <1>4 DEF Init, RoomInv

\* The line has room for a byte more after an iteration.
LEMMA LineFits ==
    ASSUME line_size \in Nat \ {0}, Len(line) \in Nat, Len(line) <= line_size, NEW eof \in BOOLEAN
    PROVE  /\ LineRoom(eof) \in Nat \ {0}
           /\ Len(line) + 1 <= LineRoom(eof)
  BY DEF LineRoom

\* A byte more fits, and so does a URL for each newline.
LEMMA ReadByteRoom ==
    ASSUME UrlInv, RoomInv, ReadByte
    PROVE  RoomInv'
<1> DEFINE k == Len(text) - Len(file) + 1
<1>1. /\ phase = "read" /\ file # <<>> /\ phase' = "read"
      /\ file' = Tail(file) /\ text' = text /\ line_size' = LineRoom(FALSE)
      /\ overrun' = (Len(line) + 1 > line_size' \/ Len(urls') > room')
  BY DEF ReadByte
<1>2. line \in Seq(Byte) /\ Len(line) \in Nat /\ line_size' \in Nat \ {0} /\ Len(line) + 1 <= line_size'
  <2>1. line \in Seq(Byte) /\ Len(line) \in Nat
    BY DEF UrlInv, TypeOK, String
  <2> QED
    BY <1>1, <2>1, LineFits DEF RoomInv
<1>3. /\ text \in Seq(Symbol) /\ file \in Seq(Symbol) /\ urls \in Seq(Seq(Byte))
      /\ k \in DOMAIN text /\ text[k] = Head(file)
      /\ Len(text) - Len(Tail(file)) = k
  <2> DEFINE x == Joined(urls, Newline) \o line
  <2>1. /\ file \in Seq(Symbol) /\ urls \in Seq(Seq(Byte)) /\ line \in Seq(Symbol)
        /\ text \in Seq(Symbol)
    BY <1>2, NewlinesFinite DEF UrlInv, TypeOK, Symbol, String
  <2>2. x \in Seq(Symbol)
    <3>1. Joined(urls, Newline) \in Seq(Symbol)
      BY <2>1, JoinedType DEF Symbol
    <3> QED
      BY <2>1, <3>1, ConcatProperties
  <2>3. text = x \o file
    BY <1>1 DEF UrlInv, ReadSoFar
  <2> HIDE DEF x
  <2>4. Len(text) = Len(x) + Len(file) /\ Len(x) \in Nat /\ Len(file) \in Nat \ {0}
    BY <1>1, <2>1, <2>2, <2>3, ConcatProperties, EmptySeq
  <2>5. k = Len(x) + 1 /\ k \in 1 .. Len(text)
    BY <2>4
  <2>6. text[Len(x) + 1] = file[1]
    <3>1. Len(x) + 1 \in 1 .. Len(x) + Len(file) /\ ~(Len(x) + 1 <= Len(x)) /\ Len(x) + 1 - Len(x) = 1
      BY <2>4
    <3> QED
      BY <2>1, <2>2, <2>3, <3>1, ConcatProperties
  <2>7. Head(file) = file[1] /\ Len(Tail(file)) = Len(file) - 1
    BY <1>1, <2>1
  <2> QED
    BY <2>1, <2>4, <2>5, <2>6, <2>7
<1>4. \/ /\ Head(file) = Newline /\ Seen' = Seen \cup {k} /\ k \notin Seen
      \/ /\ Head(file) # Newline /\ Seen' = Seen
  <2>1. Newlines' = Newlines /\ Newlines \subseteq 1 .. Len(text) /\ Len(text) \in Nat /\ Len(file) \in Nat
    BY <1>1, <1>3, NewlinesFinite DEF Newlines
  <2>2. Seen' = {i \in Newlines : i <= k}
    BY <1>1, <1>3, <2>1 DEF Seen
  <2>3. Seen = {i \in Newlines : i <= k - 1}
    <3>1. k - 1 = Len(text) - Len(file)
      BY <2>1
    <3> QED
      BY <3>1, Zenon DEF Seen
  <2>4. k \in Int /\ \A i \in Newlines : i \in Int
    BY <2>1
  <2> HIDE DEF k
  <2>5. \A i \in Newlines : i <= k <=> (i <= k - 1 \/ i = k)
    BY <2>4
  <2>6. k \in Newlines <=> Head(file) = Newline
    BY <1>3 DEF Newlines
  <2>7. k \notin Seen
    BY <2>3, <2>4
  <2> QED
    BY <2>2, <2>3, <2>5, <2>6, <2>7
<1>5. /\ line' \in Seq(Byte) /\ Len(line') <= Len(line) + 1
      /\ Head(file) = Newline => AppendUrl(line)
      /\ Head(file) # Newline => UNCHANGED <<urls, urls_size, room>>
  <2>1. Head(file) \in Symbol
    BY <1>1, <1>3
  <2>2. CASE Head(file) = Newline
    BY <1>2, <2>2 DEF ReadByte
  <2>3. CASE Head(file) # Newline
    <3>1. Head(file) \in Byte /\ line' = Append(line, Head(file))
      BY <2>1, <2>3 DEF ReadByte, Symbol
    <3> QED
      BY <1>2, <2>3, <3>1 DEF ReadByte
  <2> QED
    BY <2>2, <2>3
<1>6. Len(line') \in Nat /\ Len(line') <= line_size'
  BY <1>2, <1>5
<1>7. ASSUME Small'
      PROVE  /\ ~overrun' /\ urls_size' = ArraySize /\ room' = ArraySize
             /\ Len(urls') = Cardinality(Seen')
  <2>1. Small /\ Cardinality(Newlines) < ArraySize /\ Newlines' = Newlines
    BY <1>1, <1>7 DEF Small, Newlines
  <2>2. /\ urls_size = ArraySize /\ room = ArraySize /\ Len(urls) = Cardinality(Seen)
        /\ ArraySize \in Nat
    BY <1>1, <2>1, UrlFileAssumption DEF RoomInv
  <2>3. /\ IsFiniteSet(Seen) /\ Cardinality(Seen) \in Nat /\ Cardinality(Seen) <= Cardinality(Newlines)
        /\ IsFiniteSet(Newlines) /\ Cardinality(Newlines) \in Nat
    BY NewlinesFinite
  <2>4. Cardinality(Seen') <= Cardinality(Newlines) /\ Cardinality(Seen') \in Nat
    <3>1. Seen' \in SUBSET Newlines
      BY <2>1 DEF Seen
    <3> QED
      BY <2>3, <3>1, FS_Subset, FS_CardinalityType
  <2>5. Len(urls') = Cardinality(Seen') /\ urls_size' = ArraySize /\ room' = ArraySize
    <3>1. CASE Head(file) = Newline
      <4>1. Seen' = Seen \cup {k} /\ k \notin Seen
        BY <1>4, <3>1
      <4>2. Cardinality(Seen') = Cardinality(Seen) + 1
        BY <2>3, <4>1, FS_AddElement
      <4>3. urls' = Append(urls, line) /\ Len(urls') = Len(urls) + 1
        BY <1>2, <1>3, <1>5, <3>1 DEF AppendUrl
      <4>4. ~(Len(urls) + 1 > urls_size)
        BY <2>1, <2>2, <2>3, <2>4, <4>2
      <4> QED
        BY <1>5, <2>2, <3>1, <4>2, <4>3, <4>4 DEF AppendUrl
    <3>2. CASE Head(file) # Newline
      BY <1>4, <1>5, <2>2, <3>2
    <3> QED
      BY <3>1, <3>2
  <2>6. ~overrun'
    <3>1. ~(Len(line) + 1 > line_size') /\ ~(Len(urls') > room')
      BY <1>2, <2>1, <2>2, <2>3, <2>4, <2>5
    <3> QED
      BY <1>1, <3>1, Zenon
  <2> QED
    BY <2>5, <2>6
<1> QED
  BY <1>2, <1>6, <1>7 DEF RoomInv

\* A last line without a newline fits as well.
LEMMA ReadEndRoom ==
    ASSUME UrlInv, RoomInv, ReadEnd
    PROVE  RoomInv'
<1>1. /\ phase = "read" /\ phase' # "read" /\ line' = <<>> /\ line_size' = LineRoom(TRUE)
      /\ overrun' = (line # <<>> /\ (Len(line) + 1 > line_size' \/ Len(urls') > room'))
      /\ text' = text
  BY DEF ReadEnd
<1>2. Len(line) \in Nat /\ line_size' \in Nat \ {0} /\ Len(line) + 1 <= line_size'
  <2>1. Len(line) \in Nat
    BY DEF UrlInv, TypeOK, String
  <2> QED
    BY <1>1, <2>1, LineFits DEF RoomInv
<1>3. PICK next \in Byte \cup {Newline} :
          line # <<>> => AppendUrl(IF next = Newline THEN Front(line) ELSE line)
  BY DEF ReadEnd
<1>4. ASSUME Small', line # <<>>
      PROVE  ~(Len(urls') > room')
  <2>1. Small /\ Cardinality(Newlines) < ArraySize
    BY <1>1, <1>4 DEF Small, Newlines
  <2>2. urls_size = ArraySize /\ room = ArraySize /\ Len(urls) = Cardinality(Seen)
    BY <1>1, <2>1 DEF RoomInv
  <2>3. /\ Cardinality(Seen) \in Nat /\ Cardinality(Seen) <= Cardinality(Newlines)
        /\ Cardinality(Newlines) \in Nat /\ ArraySize \in Nat
    BY NewlinesFinite, UrlFileAssumption
  <2>4. ~(Len(urls) + 1 > urls_size) /\ Len(urls) + 1 <= room
    BY <2>1, <2>2, <2>3
  <2>5. /\ room' = room
        /\ urls' = Append(urls, IF next = Newline THEN Front(line) ELSE line)
    BY <1>3, <1>4, <2>4 DEF AppendUrl
  <2>6. urls \in Seq(String) /\ Len(urls') = Len(urls) + 1
    BY <2>5 DEF UrlInv, TypeOK
  <2> QED
    BY <2>2, <2>3, <2>4, <2>5, <2>6
<1>5. Small' => ~overrun'
  <2>1. ~(Len(line) + 1 > line_size')
    BY <1>2
  <2> QED
    BY <1>1, <1>4, <2>1, Zenon
<1>6. Len(line') <= line_size'
  <2>1. Len(line') = 0
    BY DEF ReadEnd
  <2> QED
    BY <1>2, <2>1
<1> QED
  BY <1>1, <1>2, <1>5, <1>6 DEF RoomInv

LEMMA StepRoom ==
    ASSUME UrlInv, RoomInv, [Next]_vars
    PROVE  RoomInv'
<1>1. CASE UNCHANGED vars
  BY <1>1 DEF vars, RoomInv, Small, Seen, Newlines
<1>2. CASE CmdUrlsGet
  BY <1>2 DEF CmdUrlsGet, RoomInv, Small, Newlines
<1> QED
  BY <1>1, <1>2, ReadByteRoom, ReadEndRoom DEF Next

\* Of every file for which the array of lines need not grow (Small) reading stays within
\* the line and the array, however long the lines are (client-util.c:65, 79).  Nothing is
\* said of larger files, which do overrun the array.
THEOREM UrlsInBounds == CliSpec => []InBounds
<1>1. CliInit => UrlInv /\ RoomInv
  BY InitUrl, InitRoom DEF CliInit
<1>2. UrlInv /\ RoomInv /\ [CliNext]_cliVars => UrlInv' /\ RoomInv'
  BY UrlFileSteps, StepUrl, StepRoom
<1>3. RoomInv => InBounds
  BY DEF RoomInv, InBounds
<1> QED
  BY <1>1, <1>2, <1>3, PTL DEF CliSpec

-------------------------------------------------------------------------------
(***************************************************************************)
(* The conversation                                                        *)
(***************************************************************************)

\* A piece that completes a result, and where these are among the pieces.
Completes(piece) == piece.type = "result" /\ piece.part # "first"

Completing(pieces) == {i \in DOMAIN pieces : Completes(pieces[i])}

\* No more is shown than was sent, what is on its way included.
ShownInv ==
    /\ action \in {"add", "search"}
    /\ client \in {"starting", "running", "done", "stopped"}
    /\ link \in {"none", "open", "closed"}
    /\ armed \in Nat
    /\ wire \in Seq(Piece) /\ received \in Seq(Piece)
    /\ sent \in 0 .. MaxResults /\ shown \in Nat
    /\ shown + Cardinality(Completing(wire)) <= sent

\* GNUnet is asked once at most, and not before there is a connection.
ListenInv == ListensOnce /\ (client = "starting" => armed = 0)

\* There are finitely many of them.
LEMMA CompletingFinite ==
    ASSUME NEW w \in Seq(Piece)
    PROVE  IsFiniteSet(Completing(w)) /\ Cardinality(Completing(w)) \in Nat
<1>1. Completing(w) \in SUBSET (1 .. Len(w)) /\ Len(w) \in Nat
  BY DEF Completing
<1>2. IsFiniteSet(1 .. Len(w))
  BY <1>1, FS_Interval
<1> QED
  BY <1>1, <1>2, FS_Subset, FS_CardinalityType

\* Of the pieces that are sent at once only the last may complete a result.
LEMMA CompletingSent ==
    ASSUME NEW w \in Seq(Piece), NEW v \in Seq(Piece),
           \A i \in DOMAIN v : Completes(v[i]) => i = Len(v)
    PROVE  /\ Cardinality(Completing(w \o v)) <= Cardinality(Completing(w)) + 1
           /\ (\A i \in DOMAIN v : ~Completes(v[i])) => Completing(w \o v) = Completing(w)
<1>1. /\ w \o v \in Seq(Piece) /\ Len(w) \in Nat /\ Len(v) \in Nat
      /\ DOMAIN (w \o v) = 1 .. Len(w) + Len(v) /\ DOMAIN w = 1 .. Len(w) /\ DOMAIN v = 1 .. Len(v)
      /\ \A i \in 1 .. Len(w) + Len(v) : (w \o v)[i] = IF i <= Len(w) THEN w[i] ELSE v[i - Len(w)]
  BY ConcatProperties
<1> DEFINE c == w \o v
<1> HIDE DEF c
<1>2. \A i \in DOMAIN c : Completes(c[i]) =>
          \/ i \in DOMAIN w /\ Completes(w[i])
          \/ i - Len(w) \in DOMAIN v /\ Completes(v[i - Len(w)])
  <2> TAKE i \in DOMAIN c
  <2>1. CASE i <= Len(w)
    <3>1. i \in 1 .. Len(w) /\ c[i] = w[i]
      BY <1>1, <2>1 DEF c
    <3> QED
      BY <1>1, <3>1
  <2>2. CASE ~(i <= Len(w))
    <3>1. i - Len(w) \in 1 .. Len(v) /\ c[i] = v[i - Len(w)]
      BY <1>1, <2>2 DEF c
    <3> QED
      BY <1>1, <3>1
  <2> QED
    BY <2>1, <2>2
<1>3. \A i \in DOMAIN w : i \in DOMAIN c /\ c[i] = w[i]
  BY <1>1 DEF c
<1>4. Completing(c) \subseteq Completing(w) \cup {Len(w) + Len(v)}
  <2> SUFFICES ASSUME NEW i \in Completing(c), i \notin Completing(w)
               PROVE  i = Len(w) + Len(v)
    OBVIOUS
  <2>1. i \in DOMAIN c /\ i - Len(w) \in DOMAIN v /\ Completes(v[i - Len(w)])
    BY <1>2 DEF Completing
  <2>2. i - Len(w) = Len(v) /\ i \in Int
    BY <1>1, <2>1 DEF c
  <2> QED
    BY <1>1, <2>2
<1>5. Cardinality(Completing(c)) <= Cardinality(Completing(w)) + 1
  <2>1. IsFiniteSet(Completing(w)) /\ Cardinality(Completing(w)) \in Nat
    BY CompletingFinite
  <2> DEFINE T == Completing(w) \cup {Len(w) + Len(v)}
  <2>2. IsFiniteSet(T) /\ Cardinality(T) <= Cardinality(Completing(w)) + 1 /\ Cardinality(T) \in Nat
    <3>1. /\ IsFiniteSet(T)
          /\ Cardinality(T) = IF Len(w) + Len(v) \in Completing(w)
                              THEN Cardinality(Completing(w)) ELSE Cardinality(Completing(w)) + 1
      BY <2>1, FS_AddElement
    <3> HIDE DEF T
    <3> QED
      BY <2>1, <3>1
  <2> HIDE DEF T
  <2>3. Completing(c) \in SUBSET T
    BY <1>4 DEF T
  <2>4. Cardinality(Completing(c)) <= Cardinality(T) /\ Cardinality(Completing(c)) \in Nat
    BY <2>2, <2>3, FS_Subset, FS_CardinalityType
  <2> QED
    BY <2>1, <2>2, <2>4
<1>6. (\A i \in DOMAIN v : ~Completes(v[i])) => Completing(c) = Completing(w)
  BY <1>2, <1>3 DEF Completing
<1> QED
  BY <1>5, <1>6 DEF c

\* What is left after some pieces were lost.
LEMMA CompletingLost ==
    ASSUME NEW w \in Seq(Piece), NEW n \in 0 .. Len(w)
    PROVE  /\ SubSeq(w, 1, n) \in Seq(Piece)
           /\ Cardinality(Completing(SubSeq(w, 1, n))) <= Cardinality(Completing(w))
<1> DEFINE v == SubSeq(w, 1, n)
<1>1. Len(w) \in Nat /\ n \in Nat /\ DOMAIN w = 1 .. Len(w) /\ \A i \in 1 .. n : w[i] \in Piece
  OBVIOUS
<1>2. v \in Seq(Piece) /\ Len(v) = n /\ \A i \in 1 .. n : v[i] = w[i]
  BY <1>1, SubSeqProperties
<1> HIDE DEF v
<1>3. Completing(v) \in SUBSET Completing(w)
  <2>1. DOMAIN v = 1 .. n
    BY <1>1, <1>2
  <2>2. \A i \in DOMAIN v : i \in DOMAIN w /\ v[i] = w[i]
    BY <1>1, <1>2, <2>1
  <2> QED
    BY <2>2 DEF Completing
<1>4. Cardinality(Completing(v)) <= Cardinality(Completing(w))
  BY <1>3, CompletingFinite, FS_Subset
<1> QED
  BY <1>2, <1>4 DEF v

\* What is left after the first piece arrived.
LEMMA CompletingRest ==
    ASSUME NEW w \in Seq(Piece), w # <<>>
    PROVE  /\ Tail(w) \in Seq(Piece) /\ Head(w) \in Piece
           /\ Cardinality(Completing(Tail(w))) <= Cardinality(Completing(w))
           /\ Completes(Head(w)) =>
                 Cardinality(Completing(Tail(w))) + 1 <= Cardinality(Completing(w))
<1> DEFINE v == Tail(w)
           rest == Completing(w) \ {1}
           f == [i \in Completing(v) |-> i + 1]
<1>1. /\ v \in Seq(Piece) /\ Head(w) \in Piece /\ Head(w) = w[1] /\ 1 \in DOMAIN w
      /\ Len(v) = Len(w) - 1 /\ Len(w) \in Nat /\ DOMAIN v = 1 .. Len(w) - 1 /\ DOMAIN w = 1 .. Len(w)
      /\ \A i \in 1 .. Len(w) - 1 : v[i] = w[i + 1]
  BY HeadTailProperties
<1> HIDE DEF v
<1>2. \A i \in Completing(v) : i \in Nat /\ i + 1 \in Completing(w) /\ i + 1 # 1
  <2> SUFFICES ASSUME NEW i \in Completing(v)
               PROVE  i \in Nat /\ i + 1 \in Completing(w) /\ i + 1 # 1
    OBVIOUS
  <2>1. i \in 1 .. Len(w) - 1 /\ Completes(v[i])
    BY <1>1 DEF Completing
  <2>2. i + 1 \in DOMAIN w /\ v[i] = w[i + 1]
    BY <1>1, <2>1
  <2> QED
    BY <2>1, <2>2 DEF Completing
<1>3. f \in [Completing(v) -> rest] /\ \A i, j \in Completing(v) : f[i] = f[j] => i = j
  BY <1>2
<1>4. /\ IsFiniteSet(Completing(w)) /\ Cardinality(Completing(w)) \in Nat
      /\ IsFiniteSet(Completing(v)) /\ Cardinality(Completing(v)) \in Nat
  BY <1>1, CompletingFinite
<1>5. /\ IsFiniteSet(rest)
      /\ Cardinality(rest) = IF 1 \in Completing(w) THEN Cardinality(Completing(w)) - 1
                                                    ELSE Cardinality(Completing(w))
  BY <1>4, FS_RemoveElement
<1> HIDE DEF rest, f
<1>6. Cardinality(Completing(v)) <= Cardinality(rest)
  <2>1. IsFiniteSet(rest) /\ Cardinality(rest) \in Nat
    BY <1>5, FS_CardinalityType
  <2>2. ~(Cardinality(rest) < Cardinality(Completing(v)))
    BY <1>3, <1>4, <2>1, FS_PigeonHole
  <2> QED
    BY <1>4, <2>1, <2>2
<1>7. Completes(Head(w)) => 1 \in Completing(w)
  BY <1>1 DEF Completing
<1> QED
  BY <1>1, <1>4, <1>5, <1>6, <1>7 DEF v

LEMMA InitShown == CliInit => ShownInv /\ ListenInv
<1> SUFFICES ASSUME CliInit PROVE ShownInv /\ ListenInv
  OBVIOUS
<1>1. Completing(wire) = {} /\ wire \in Seq(Piece) /\ received \in Seq(Piece)
  BY DEF CliInit, Completing
<1>2. Cardinality(Completing(wire)) = 0
  BY <1>1, FS_EmptySet
<1>3. MaxResults \in Nat
  BY CliClientAssumption
<1> QED
  BY <1>1, <1>2, <1>3 DEF CliInit, ShownInv, ListenInv, ListensOnce

\* The pieces of a response.
LEMMA ResponsePieces ==
    /\ Done \in Seq(Piece) /\ \A i \in DOMAIN Done : ~Completes(Done[i])
    /\ \A pieces \in ResultPieces :
          /\ pieces \in Seq(Piece)
          /\ \A i \in DOMAIN pieces : Completes(pieces[i]) => i = Len(pieces)
<1> DEFINE whole == [type |-> "result", part |-> "whole"]
           first == [type |-> "result", part |-> "first"]
           last == [type |-> "result", part |-> "last"]
           done == [type |-> "done", part |-> "whole"]
<1>1. whole \in Piece /\ first \in Piece /\ last \in Piece /\ done \in Piece
  BY DEF Piece
<1>2. ~Completes(done) /\ ~Completes(first)
  BY DEF Completes
<1>3. Done = <<done>> /\ \A pieces \in ResultPieces : pieces = <<whole>> \/ pieces = <<first, last>>
  BY DEF Done, ResultPieces
<1> HIDE DEF whole, first, last, done
<1>4. Done \in Seq(Piece) /\ \A i \in DOMAIN Done : ~Completes(Done[i])
  BY <1>1, <1>2, <1>3
<1>5. ASSUME NEW pieces \in ResultPieces
      PROVE  /\ pieces \in Seq(Piece)
             /\ \A i \in DOMAIN pieces : Completes(pieces[i]) => i = Len(pieces)
  <2>1. CASE pieces = <<whole>>
    BY <1>1, <2>1
  <2>2. CASE pieces = <<first, last>>
    <3>1. /\ pieces \in Seq(Piece) /\ Len(pieces) = 2 /\ DOMAIN pieces = 1 .. 2
          /\ pieces[1] = first /\ pieces[2] = last
      BY <1>1, <2>2
    <3> QED
      BY <1>2, <3>1
  <2> QED
    BY <1>3, <2>1, <2>2
<1> QED
  BY <1>4, <1>5

LEMMA StepShown ==
    ASSUME ShownInv, ListenInv, [CliNext]_cliVars
    PROVE  ShownInv' /\ ListenInv'
<1> USE DEF ShownInv, ListenInv, ListensOnce
<1>0. Cardinality(Completing(wire)) \in Nat /\ MaxResults \in Nat
  BY CompletingFinite, CliClientAssumption
<1>1. CASE UNCHANGED cliVars
  BY <1>1 DEF cliVars, clientVars
<1>2. CASE Run
  BY <1>2 DEF Run
<1>3. CASE ReadUrls
  BY <1>3 DEF ReadUrls, clientVars
<1>4. CASE ServeAdd
  <2>1. wire' \in Seq(Piece) /\ Completing(wire') = Completing(wire)
    <3>1. CASE phase' = "done"
      <4>1. wire' = wire \o Done
        BY <1>4, <3>1 DEF ServeAdd
      <4>2. \A i \in DOMAIN Done : Completes(Done[i]) => i = Len(Done)
        BY ResponsePieces
      <4>3. Completing(wire \o Done) = Completing(wire)
        BY <4>2, ResponsePieces, CompletingSent
      <4> QED
        BY <4>1, <4>3, ResponsePieces, ConcatProperties
    <3>2. CASE phase' # "done"
      BY <1>4, <3>2 DEF ServeAdd
    <3> QED
      BY <3>1, <3>2
  <2>2. link = "open" /\ UNCHANGED <<action, client, link, armed, received, sent, shown>>
    BY <1>4 DEF ServeAdd
  <2> QED
    BY <2>1, <2>2
<1>5. CASE ServeSearch
  <2>1. PICK pieces \in ResultPieces : wire' = wire \o pieces
    BY <1>5 DEF ServeSearch
  <2>2. /\ link = "open" /\ sent < MaxResults /\ sent' = sent + 1
        /\ UNCHANGED <<action, client, link, armed, received, shown>>
    BY <1>5 DEF ServeSearch
  <2>3. pieces \in Seq(Piece) /\ \A i \in DOMAIN pieces : Completes(pieces[i]) => i = Len(pieces)
    BY ResponsePieces
  <2>4. /\ wire' \in Seq(Piece)
        /\ Cardinality(Completing(wire')) <= Cardinality(Completing(wire)) + 1
    BY <2>1, <2>3, CompletingSent, ConcatProperties
  <2>5. Cardinality(Completing(wire')) \in Nat
    BY <2>4, CompletingFinite
  <2> QED
    BY <1>0, <2>2, <2>4, <2>5
<1>6. CASE ServiceGoes
  <2>1. PICK n \in 0 .. Len(wire) : wire' = SubSeq(wire, 1, n)
    BY <1>6 DEF ServiceGoes
  <2>2. link = "open" /\ link' = "closed" /\ UNCHANGED <<action, client, armed, received, sent, shown>>
    BY <1>6 DEF ServiceGoes
  <2>3. wire' \in Seq(Piece) /\ Cardinality(Completing(wire')) <= Cardinality(Completing(wire))
    BY <2>1, CompletingLost
  <2>4. Cardinality(Completing(wire')) \in Nat
    BY <2>3, CompletingFinite
  <2> QED
    BY <1>0, <2>2, <2>3, <2>4
<1>7. CASE ReceiveFragment
  <2>1. /\ armed > 0 /\ wire # <<>> /\ wire' = Tail(wire) /\ received' = Append(received, Head(wire))
        /\ UNCHANGED <<action, client, link, armed, sent, shown>>
    BY <1>7 DEF ReceiveFragment
  <2>2. /\ wire' \in Seq(Piece) /\ Head(wire) \in Piece
        /\ Cardinality(Completing(wire')) <= Cardinality(Completing(wire))
    BY <2>1, CompletingRest
  <2>3. Cardinality(Completing(wire')) \in Nat
    BY <2>2, CompletingFinite
  <2>4. received' \in Seq(Piece)
    BY <2>1, <2>2, AppendProperties
  <2> QED
    BY <1>0, <2>1, <2>2, <2>3, <2>4
<1>8. CASE ReceiveResponse
  <2> DEFINE h == Head(wire)
  <2>1. /\ client = "running" /\ armed > 0 /\ wire # <<>> /\ h.part # "first"
        /\ wire' = Tail(wire) /\ received' = <<>>
        /\ armed' = IF ReceivesAgain(h) THEN armed ELSE armed - 1
        /\ IF h.type = "done" THEN client' = "done" /\ UNCHANGED shown
                              ELSE shown' = shown + 1 /\ UNCHANGED client
        /\ UNCHANGED <<action, link, sent>>
    BY <1>8 DEF ReceiveResponse, Waiting
  <2>2. /\ wire' \in Seq(Piece) /\ h \in Piece
        /\ Cardinality(Completing(wire')) <= Cardinality(Completing(wire))
        /\ Completes(h) => Cardinality(Completing(wire')) + 1 <= Cardinality(Completing(wire))
    BY <2>1, CompletingRest
  <2> HIDE DEF h
  <2>3. Cardinality(Completing(wire')) \in Nat /\ received' \in Seq(Piece)
    <3>1. Cardinality(Completing(wire')) \in Nat
      BY <2>2, CompletingFinite
    <3> QED
      BY <2>1, <3>1, EmptySeq
  <2>4. CASE h.type = "done"
    <3>1. client' = "done" /\ shown' = shown /\ armed' = armed - 1
      BY <2>1, <2>4 DEF ReceivesAgain
    <3> QED
      BY <1>0, <2>1, <2>2, <2>3, <3>1
  <2>5. CASE h.type # "done"
    <3>1. h.type = "result" /\ Completes(h)
      BY <2>1, <2>2, <2>5 DEF Piece, Completes
    <3>2. client' = client /\ shown' = shown + 1 /\ armed' = armed
      BY <2>1, <2>5, <3>1 DEF ReceivesAgain
    <3> QED
      BY <1>0, <2>1, <2>2, <2>3, <3>1, <3>2
  <2> QED
    BY <2>4, <2>5
<1>9. CASE ReceiveNull
  BY <1>9 DEF ReceiveNull, Waiting
<1>10. CASE Interrupt
  BY <1>10 DEF Interrupt
<1> QED
  BY <1>1, <1>2, <1>3, <1>4, <1>5, <1>6, <1>7, <1>8, <1>9, <1>10 DEF CliNext

LEMMA ConversationInvariant == CliSpec => [](ShownInv /\ ListenInv)
<1>1. ShownInv /\ ListenInv /\ [CliNext]_cliVars => (ShownInv /\ ListenInv)'
  BY StepShown
<1> QED
  BY <1>1, InitShown, PTL DEF CliSpec

\* The variables are well typed; no more results are shown than were sent.
THEOREM CliTypes == CliSpec => []CliTypeOK
<1>1. UrlInv /\ ShownInv /\ ListenInv => CliTypeOK
  <2> SUFFICES ASSUME UrlInv, ShownInv PROVE CliTypeOK
    OBVIOUS
  <2>1. Cardinality(Completing(wire)) \in Nat /\ MaxResults \in Nat
    BY CompletingFinite, CliClientAssumption DEF ShownInv
  <2>2. shown \in 0 .. MaxResults
    BY <2>1 DEF ShownInv
  <2> QED
    BY <2>2 DEF UrlInv, ShownInv, CliTypeOK
<1> QED
  BY <1>1, UrlInvariant, ConversationInvariant, PTL

\* While the client runs GNUnet is asked to receive exactly once, until nothing more can
\* come (server-communication.c:49, gnunet-search.c:74).
THEOREM ListensToOne == CliSpec => []ListensOnce
<1>1. ListenInv => ListensOnce
  BY DEF ListenInv
<1> QED
  BY <1>1, ConversationInvariant, PTL
===============================================================================
