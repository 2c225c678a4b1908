----------------------------- MODULE ListLemmas -----------------------------
(* What the operators on lists do to the positions of their elements, and   *)
(* what is made of a sequence of sequences, one at a time.                  *)
EXTENDS Integers, Sequences, SequencesExt, SequenceTheorems, WellFoundedInduction, TLAPS

\* What linking a node into the list does to its positions (list_insert).
LEMMA InsertAtFacts ==
  ASSUME NEW S, NEW s \in Seq(S), NEW p \in 1 .. Len(s) + 1, NEW e \in S
  PROVE  /\ InsertAt(s, p, e) \in Seq(S)
         /\ Len(InsertAt(s, p, e)) = Len(s) + 1
         /\ \A i \in 1 .. Len(s) + 1 :
              InsertAt(s, p, e)[i] = IF i < p THEN s[i]
                                     ELSE IF i = p THEN e ELSE s[i - 1]
<1> DEFINE a == SubSeq(s, 1, p - 1)
           b == SubSeq(s, p, Len(s))
<1>0. Len(s) \in Nat /\ p \in Int /\ \A i \in 1 .. Len(s) : s[i] \in S
  BY LenProperties, ElementOfSeq
<1>1. /\ a \in Seq(S) /\ Len(a) = p - 1
      /\ \A i \in 1 .. p - 1 : a[i] = s[i]
  <2>1. \A i \in 1 .. p - 1 : s[i] \in S
    BY <1>0
  <2>2. QED BY <1>0, <2>1, SubSeqProperties
<1>2. /\ b \in Seq(S) /\ Len(b) = Len(s) - p + 1
      /\ \A i \in 1 .. Len(s) - p + 1 : b[i] = s[p + i - 1]
  <2>1. \A i \in p .. Len(s) : s[i] \in S
    BY <1>0
  <2>2. QED BY <1>0, <2>1, SubSeqProperties
<1>3. <<e>> \in Seq(S) /\ Len(<<e>>) = 1 /\ <<e>>[1] = e
  OBVIOUS
<1> DEFINE ae == a \o <<e>>
<1> HIDE DEF a, b
<1>4. /\ ae \in Seq(S) /\ Len(ae) = p
      /\ \A i \in 1 .. p : ae[i] = IF i <= p - 1 THEN s[i] ELSE e
  BY <1>0, <1>1, <1>3, ConcatProperties
<1> HIDE DEF ae
<1>5. /\ ae \o b \in Seq(S) /\ Len(ae \o b) = Len(s) + 1
      /\ \A i \in 1 .. Len(s) + 1 :
           (ae \o b)[i] = IF i <= p THEN ae[i] ELSE b[i - p]
  BY <1>0, <1>2, <1>4, ConcatProperties
<1>6. InsertAt(s, p, e) = ae \o b
  BY DEF InsertAt, a, b, ae
<1>7. ASSUME NEW i \in 1 .. Len(s) + 1
      PROVE  (ae \o b)[i] = IF i < p THEN s[i] ELSE IF i = p THEN e ELSE s[i - 1]
  <2>1. CASE i <= p
    BY <1>0, <1>4, <1>5, <2>1
  <2>2. CASE i > p
    BY <1>0, <1>2, <1>5, <2>2
  <2>3. i <= p \/ i > p
    BY <1>0
  <2>4. QED BY <2>1, <2>2, <2>3, Zenon
<1>8. QED BY <1>5, <1>6, <1>7

\* What unlinking a node does to the positions of the others (list_delete).
LEMMA RemoveAtFacts ==
  ASSUME NEW S, NEW s \in Seq(S), NEW p \in 1 .. Len(s)
  PROVE  /\ RemoveAt(s, p) \in Seq(S)
         /\ Len(RemoveAt(s, p)) = Len(s) - 1
         /\ \A i \in 1 .. Len(s) - 1 :
              RemoveAt(s, p)[i] = IF i < p THEN s[i] ELSE s[i + 1]
<1> DEFINE a == SubSeq(s, 1, p - 1)
           b == SubSeq(s, p + 1, Len(s))
<1>0. Len(s) \in Nat /\ p \in Int /\ \A i \in 1 .. Len(s) : s[i] \in S
  BY LenProperties, ElementOfSeq
<1>1. /\ a \in Seq(S) /\ Len(a) = p - 1
      /\ \A i \in 1 .. p - 1 : a[i] = s[i]
  <2>1. \A i \in 1 .. p - 1 : s[i] \in S
    BY <1>0
  <2>2. QED BY <1>0, <2>1, SubSeqProperties
<1>2. /\ b \in Seq(S) /\ Len(b) = Len(s) - p
      /\ \A i \in 1 .. Len(s) - p : b[i] = s[p + i]
  <2>1. \A i \in p + 1 .. Len(s) : s[i] \in S
    BY <1>0
  <2>2. QED BY <1>0, <2>1, SubSeqProperties
<1> HIDE DEF a, b
<1>3. /\ a \o b \in Seq(S) /\ Len(a \o b) = Len(s) - 1
      /\ \A i \in 1 .. Len(s) - 1 :
           (a \o b)[i] = IF i <= p - 1 THEN a[i] ELSE b[i - (p - 1)]
  BY <1>0, <1>1, <1>2, ConcatProperties
<1>4. RemoveAt(s, p) = a \o b
  BY DEF RemoveAt, a, b
<1>5. ASSUME NEW i \in 1 .. Len(s) - 1
      PROVE  (a \o b)[i] = IF i < p THEN s[i] ELSE s[i + 1]
  <2>1. CASE i < p
    BY <1>0, <1>1, <1>3, <2>1
  <2>2. CASE i >= p
    BY <1>0, <1>2, <1>3, <2>2
  <2>3. i < p \/ i >= p
    BY <1>0
  <2>4. QED BY <2>1, <2>2, <2>3, Zenon
<1>6. QED BY <1>3, <1>4, <1>5
---------------------------------------------------------------------------
(* Sequences of sequences.                                                  *)

\* A set of naturals has a least element, if it has one.
LEMMA HasLeast ==
  ASSUME NEW S \in SUBSET Nat, S # {}
  PROVE  \E k \in S : \A j \in S : k <= j
<1> DEFINE R == OpToRel(<, Nat)
<1>1. IsWellFoundedOn(R, Nat)
  BY NatLessThanWellFounded
<1>2. \A x, y \in Nat : <<x, y>> \in R <=> x < y
  BY DEF OpToRel
<1> HIDE DEF R
<1>3. PICK k \in S : \A j \in S : ~(<<j, k>> \in R)
  BY <1>1, WFMin
<1>4. \A j \in S : k <= j
  <2>1. ASSUME NEW j \in S PROVE k \in Nat /\ j \in Nat /\ ~(j < k)
    BY <1>2, <1>3
  <2>2. QED BY <2>1
<1>5. QED BY <1>4

\* What is in T, and one further each time, is all in T.
LEMMA UpTo ==
  ASSUME NEW n \in Nat, NEW m \in Nat, NEW T, m \in T, \A k \in m .. n - 1 : k \in T => k + 1 \in T
  PROVE  \A k \in m .. n : k \in T
<1> DEFINE out == {k \in m .. n : k \notin T}
<1>1. out \in SUBSET Nat
  OBVIOUS
<1>2. ASSUME out # {} PROVE FALSE
  <2> HIDE DEF out
  <2>1. PICK k \in out : \A j \in out : k <= j
    BY <1>1, <1>2, HasLeast
  <2>2. k \in m .. n /\ k \notin T
    BY <2>1 DEF out
  <2>3. k - 1 \in m .. n - 1 /\ k - 1 \in m .. n /\ ~(k <= k - 1) /\ (k - 1) + 1 = k
    BY <2>2
  <2>4. k - 1 \notin out
    BY <2>1, <2>3
  <2>5. k - 1 \in T
    BY <2>3, <2>4 DEF out
  <2>6. QED BY <2>2, <2>3, <2>5
<1>3. QED BY <1>2

\* The first k of the sequences in F, one behind the other.
Flat(F, k) == FlattenSeq([i \in 1 .. k |-> F[i]])

ListsOf(S, n) == [1 .. n -> Seq(S)]

\* What FlattenSeq adds up to, step by step.
Sums(S, n, F) == {P \in [0 .. n -> Seq(S)] :
  P[0] = <<>> /\ \A i \in 1 .. n : P[i] = P[i - 1] \o F[i]}

LEMMA SumsExist ==
  ASSUME NEW S, NEW n \in Nat, NEW F \in [1 .. n -> Seq(S)]
  PROVE  Sums(S, n, F) # {}
<1> DEFINE T == {k \in 0 .. n : Sums(S, k, F) # {}}
<1>1. 0 \in T
  <2>1. [i \in 0 .. 0 |-> <<>>] \in Sums(S, 0, F)
    BY EmptySeq DEF Sums
  <2>2. QED BY <2>1
<1>2. ASSUME NEW k \in 0 .. n - 1, k \in T PROVE k + 1 \in T
  <2>1. PICK P \in Sums(S, k, F) : TRUE
    BY <1>2
  <2>2. /\ P \in [0 .. k -> Seq(S)] /\ P[0] = <<>>
        /\ \A i \in 1 .. k : P[i] = P[i - 1] \o F[i]
    BY <2>1 DEF Sums
  <2> DEFINE e == P[k] \o F[k + 1]
             h == [i \in 0 .. k + 1 |-> IF i = k + 1 THEN e ELSE P[i]]
  <2>0. e = P[k] \o F[k + 1]
    OBVIOUS
  <2>3. e \in Seq(S)
    <3>1. P[k] \in Seq(S) /\ F[k + 1] \in Seq(S)
      BY <2>2
    <3>2. QED BY <3>1, ConcatProperties
  <2>4. /\ h \in [0 .. k + 1 -> Seq(S)] /\ h[0] = <<>> /\ h[k + 1] = e
        /\ \A i \in 0 .. k : h[i] = P[i]
    <3> HIDE DEF e
    <3>1. QED BY <2>2, <2>3
  <2> HIDE DEF h, e
  <2>5. e = h[k] \o F[k + 1]
    <3>1. h[k] = P[k]
      BY <2>4
    <3>2. QED BY <2>0, <3>1
  <2>6. ASSUME NEW i \in 1 .. k + 1 PROVE h[i] = h[i - 1] \o F[i]
    <3>1. CASE i = k + 1
      <4>1. i - 1 = k
        BY <3>1
      <4>2. QED BY <2>4, <2>5, <3>1, <4>1
    <3>2. CASE i # k + 1
      <4>1. i \in 1 .. k /\ i - 1 \in 0 .. k /\ i \in 0 .. k
        BY <3>2
      <4>2. P[i] = P[i - 1] \o F[i] /\ h[i] = P[i] /\ h[i - 1] = P[i - 1]
        BY <2>2, <2>4, <4>1
      <4>3. QED BY <4>2
    <3>3. QED BY <3>1, <3>2
  <2>7. h \in Sums(S, k + 1, F)
    BY <2>4, <2>6 DEF Sums
  <2>8. QED BY <2>7
<1> HIDE DEF T
<1>3. \A k \in 0 .. n : k \in T
  BY <1>1, <1>2, UpTo
<1>4. QED BY <1>3 DEF T

Adds(P, F, n) == \A k \in 0 .. n : Flat(F, k) = P[k]

LEMMA FlatIsSum ==
  ASSUME NEW S, NEW n \in Nat, NEW F, F \in ListsOf(S, n), NEW P, P \in Sums(S, n, F)
  PROVE  Adds(P, F, n)
<1>0. F \in [1 .. n -> Seq(S)]
  BY DEF ListsOf
<1> SUFFICES ASSUME NEW k \in 0 .. n PROVE  Flat(F, k) = P[k]
  BY DEF Adds
<1> DEFINE s == [i \in 1 .. k |-> F[i]]
<1>1. /\ P \in [0 .. n -> Seq(S)] /\ P[0] = <<>>
      /\ \A i \in 1 .. n : P[i] = P[i - 1] \o F[i]
  BY DEF Sums
<1>2. /\ s \in [1 .. k -> Seq(S)] /\ k \in Nat /\ \A i \in 1 .. k : s[i] = F[i]
  BY <1>0
<1>3. Flat(F, k) = FlattenSeq(s)
  BY DEF Flat
<1> HIDE DEF s
<1>4. s \in Seq(Seq(S))
  BY <1>2, SeqDef
<1>5. DOMAIN s = 1 .. k
  BY <1>2
<1>6. Len(s) = k
  <2>1. Len(s) \in Nat /\ DOMAIN s = 1 .. Len(s)
    BY <1>4, LenProperties
  <2>2. QED BY <1>2, <1>5, <2>1
<1>7. CASE k = 0
  <2>1. FlattenSeq(s) = s
    BY <1>6, <1>7 DEF FlattenSeq
  <2>2. s = <<>>
    BY <1>4, <1>6, <1>7, EmptySeq
  <2>3. QED BY <1>1, <1>3, <1>7, <2>1, <2>2
<1>8. CASE k # 0
  <2> DEFINE Is(f) == f = [i \in 1 .. k |-> IF i = 1 THEN s[i] ELSE f[i - 1] \o s[i]]
             G == CHOOSE f : Is(f)
  <2>1. FlattenSeq(s) = G[k]
    BY <1>6, <1>8 DEF FlattenSeq
  <2> DEFINE p == [i \in 1 .. k |-> P[i]]
  <2>2. ASSUME NEW i \in 1 .. k
        PROVE  p[i] = IF i = 1 THEN s[i] ELSE p[i - 1] \o s[i]
    <3>1. p[i] = P[i - 1] \o s[i] /\ s[i] \in Seq(S)
      <4>1. i \in 1 .. n /\ p[i] = P[i] /\ F[i] = s[i] /\ s[i] \in Seq(S)
        BY <1>2
      <4>2. P[i] = P[i - 1] \o F[i]
        BY <1>1, <4>1
      <4>3. QED BY <4>1, <4>2
    <3>2. CASE i = 1
      <4>1. P[i - 1] = <<>>
        BY <1>1, <3>2
      <4>2. <<>> \o s[i] = s[i]
        BY <3>1, ConcatEmptySeq
      <4>3. QED BY <3>1, <3>2, <4>1, <4>2
    <3>3. CASE i # 1
      <4>1. i - 1 \in 1 .. k
        BY <3>3
      <4>2. p[i - 1] = P[i - 1]
        BY <4>1
      <4>3. QED BY <3>1, <3>3, <4>2
    <3>4. QED BY <3>2, <3>3
  <2>3. Is(p)
    <3>1. p = [i \in 1 .. k |-> p[i]]
      OBVIOUS
    <3> HIDE DEF p
    <3>2. QED BY <2>2, <3>1
  <2>4. Is(G)
    BY <2>3
  <2> HIDE DEF G
  <2>5. \A i \in 1 .. k : G[i] = IF i = 1 THEN s[i] ELSE G[i - 1] \o s[i]
    BY <2>4
  <2> DEFINE T == {i \in 1 .. k : G[i] = p[i]}
  <2>6. 1 \in T
    BY <1>8, <2>2, <2>5
  <2>7. ASSUME NEW i \in 1 .. k - 1, i \in T PROVE i + 1 \in T
    <3>1. i + 1 \in 1 .. k /\ i + 1 # 1 /\ (i + 1) - 1 = i /\ G[i] = p[i]
      BY <2>7
    <3> HIDE DEF p
    <3>2. G[i + 1] = G[i] \o s[i + 1] /\ p[i + 1] = p[i] \o s[i + 1]
      BY <2>2, <2>5, <3>1
    <3>3. QED BY <3>1, <3>2
  <2> HIDE DEF T
  <2>8. \A i \in 1 .. k : i \in T
    BY <1>2, <2>6, <2>7, UpTo
  <2>9. G[k] = P[k]
    BY <1>2, <1>8, <2>8 DEF T
  <2>10. QED BY <1>3, <2>1, <2>9
<1>9. QED BY <1>7, <1>8

\* One sequence more.
LEMMA FlatFacts ==
  ASSUME NEW S, NEW n \in Nat, NEW F \in [1 .. n -> Seq(S)]
  PROVE  /\ Flat(F, 0) = <<>>
         /\ \A k \in 0 .. n : Flat(F, k) \in Seq(S)
         /\ \A k \in 1 .. n : Flat(F, k) = Flat(F, k - 1) \o F[k]
         /\ Flat(F, n) = FlattenSeq(F)
<1>1. PICK P \in Sums(S, n, F) : TRUE
  BY SumsExist
<1>2. ASSUME NEW k \in 0 .. n PROVE Flat(F, k) = P[k]
  <2>1. F \in ListsOf(S, n)
    BY DEF ListsOf
  <2>2. Adds(P, F, n)
    BY <2>1, FlatIsSum
  <2>3. QED BY <2>2 DEF Adds
<1>3. /\ P \in [0 .. n -> Seq(S)] /\ P[0] = <<>>
      /\ \A i \in 1 .. n : P[i] = P[i - 1] \o F[i]
  BY DEF Sums
<1>4. [i \in 1 .. n |-> F[i]] = F
  OBVIOUS
<1>5. \A k \in 1 .. n : k - 1 \in 0 .. n /\ k \in 0 .. n
  OBVIOUS
<1>6. 0 \in 0 .. n
  OBVIOUS
<1>7. QED BY <1>2, <1>3, <1>4, <1>5, <1>6 DEF Flat

LEMMA FlatIsSeq ==
  ASSUME NEW S, NEW n \in Nat, NEW F \in [1 .. n -> Seq(S)]
  PROVE  FlattenSeq(F) \in Seq(S)
<1>1. n \in 0 .. n
  OBVIOUS
<1>2. Flat(F, n) \in Seq(S) /\ Flat(F, n) = FlattenSeq(F)
  BY <1>1, FlatFacts
<1>3. QED BY <1>2

\* Empty sequences add nothing.
Blank(F, p, m) == \A i \in p + 1 .. m : F[i] = <<>>

LEMMA FlatSkips ==
  ASSUME NEW S, NEW n \in Nat, NEW F \in [1 .. n -> Seq(S)],
         NEW p \in 0 .. n, NEW m \in p .. n, Blank(F, p, m)
  PROVE  Flat(F, m) = Flat(F, p)
<1> DEFINE T == {k \in p .. m : Flat(F, k) = Flat(F, p)}
<1>1. ASSUME NEW k \in p .. m - 1, k \in T PROVE k + 1 \in T
  <2>1. k + 1 \in 1 .. n /\ k + 1 \in p + 1 .. m /\ (k + 1) - 1 = k /\ k \in 0 .. n
    OBVIOUS
  <2>2. Flat(F, k + 1) = Flat(F, k) \o <<>> /\ Flat(F, k) \in Seq(S)
    BY <2>1, FlatFacts DEF Blank
  <2>3. Flat(F, k) \o <<>> = Flat(F, k)
    BY <2>2, ConcatEmptySeq
  <2>4. Flat(F, k) = Flat(F, p)
    BY <1>1
  <2>5. QED BY <2>1, <2>2, <2>3, <2>4
<1>2. p \in T /\ p \in Nat /\ m \in Nat
  OBVIOUS
<1> HIDE DEF T
<1>3. \A k \in p .. m : k \in T
  BY <1>1, <1>2, UpTo
<1>4. QED BY <1>3 DEF T

\* Nothing is lost.
Occurs(x, s) == \E j \in 1 .. Len(s) : s[j] = x

LEMMA FlatHasAll ==
  ASSUME NEW S, NEW n \in Nat, NEW F, F \in ListsOf(S, n), NEW k \in 1 .. n, NEW x, Occurs(x, F[k])
  PROVE  Occurs(x, FlattenSeq(F))
<1>0. F \in [1 .. n -> Seq(S)] /\ \E i \in 1 .. Len(F[k]) : F[k][i] = x
  BY DEF ListsOf, Occurs
<1> DEFINE Has(s) == \E j \in 1 .. Len(s) : s[j] = x
           T == {m \in k .. n : Has(Flat(F, m))}
<1>1. ASSUME NEW m \in 1 .. n
      PROVE  /\ Has(F[m]) => Has(Flat(F, m))
             /\ Has(Flat(F, m - 1)) => Has(Flat(F, m))
  <2> DEFINE a == Flat(F, m - 1)
             b == F[m]
  <2>1. a \in Seq(S) /\ b \in Seq(S) /\ Flat(F, m) = a \o b
    <3>1. m - 1 \in 0 .. n /\ F[m] \in Seq(S)
      BY <1>0
    <3>2. Flat(F, m - 1) \in Seq(S) /\ Flat(F, m) = Flat(F, m - 1) \o F[m]
      BY <1>0, <3>1, FlatFacts
    <3>3. QED BY <3>1, <3>2
  <2> HIDE DEF a, b
  <2>2. /\ Len(a) \in Nat /\ Len(b) \in Nat /\ Len(a \o b) = Len(a) + Len(b)
        /\ \A j \in 1 .. Len(a) + Len(b) : (a \o b)[j] = IF j <= Len(a) THEN a[j] ELSE b[j - Len(a)]
    BY <2>1, LenProperties, ConcatProperties
  <2>3. ASSUME NEW j \in 1 .. Len(b), b[j] = x PROVE Has(a \o b)
    <3>1. Len(a) + j \in 1 .. Len(a) + Len(b) /\ ~(Len(a) + j <= Len(a)) /\ (Len(a) + j) - Len(a) = j
      BY <2>2
    <3>2. (a \o b)[Len(a) + j] = x
      BY <2>2, <2>3, <3>1
    <3>3. QED BY <2>2, <3>1, <3>2
  <2>4. ASSUME NEW j \in 1 .. Len(a), a[j] = x PROVE Has(a \o b)
    <3>1. j \in 1 .. Len(a) + Len(b) /\ j <= Len(a)
      BY <2>2
    <3>2. (a \o b)[j] = x
      BY <2>2, <2>4, <3>1
    <3>3. QED BY <2>2, <3>1, <3>2
  <2>5. QED BY <2>1, <2>3, <2>4 DEF a, b
<1>2. k \in T
  <2>1. Has(F[k]) /\ k \in k .. n
    BY <1>0
  <2> HIDE DEF Has
  <2>2. Has(Flat(F, k))
    BY <1>1, <2>1
  <2>3. QED BY <2>1, <2>2
<1>3. ASSUME NEW m \in k .. n - 1, m \in T PROVE m + 1 \in T
  <2>1. m + 1 \in 1 .. n /\ m + 1 \in k .. n /\ (m + 1) - 1 = m
    OBVIOUS
  <2>2. Has(Flat(F, m))
    BY <1>3
  <2> HIDE DEF Has, T
  <2>3. Has(Flat(F, m + 1))
    BY <1>1, <2>1, <2>2
  <2>4. QED BY <2>1, <2>3 DEF T
<1> HIDE DEF T
<1>4. \A m \in k .. n : m \in T
  <2>1. k \in Nat /\ n \in Nat
    OBVIOUS
  <2> HIDE DEF Has
  <2>2. \A m \in k .. n - 1 : m \in T => m + 1 \in T
    BY <1>3
  <2>3. QED BY <1>2, <2>1, <2>2, UpTo
<1>5. Has(Flat(F, n))
  BY <1>4 DEF T
<1>6. Flat(F, n) = FlattenSeq(F)
  BY <1>0, FlatFacts
<1>7. QED BY <1>5, <1>6 DEF Occurs
=============================================================================
