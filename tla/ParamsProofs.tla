---------------------------- MODULE ParamsProofs ----------------------------
(***************************************************************************)
(* Theorems about KeyParser, for every table and every order of its names, *)
(* and about Params, for every section whose lines are written as the      *)
(* comments of evf_param.c want them, whatever the texts are made of.      *)
(***************************************************************************)
EXTENDS Params, WellFoundedInduction, SequenceTheorems, TLAPS

(* The search for a key.                                                   *)

\* A place where the name that is looked up stands, and stands rightly.
Proper(p) == RankAt(p) = Rank[key] /\ ~OutOfOrder(p)

\* The halves stay in the table, and a name at its right place between them:
\* left <= p < right.
SearchInv ==
  /\ SearchTypeOK
  /\ left <= right /\ left < KeyCount
  /\ search = "found" => RankAt(Middle) = Rank[key]
  /\ search = "running" => \A p \in Position : Proper(p) => left <= p /\ p < right
  /\ search = "missing" => \A p \in Position : ~Proper(p)

\* The middle is an entry of the table, between the halves.
LEMMA MiddleFacts ==
  ASSUME SearchInv
  PROVE  /\ Middle \in Position
         /\ left <= Middle /\ Middle <= right
         /\ left < right => Middle < right
         /\ RankAt(Middle) \in Int /\ Rank[key] \in Int
<1>1. left \in Nat /\ right \in Nat /\ KeyCount \in Nat
      /\ left <= right /\ right <= KeyCount /\ left < KeyCount
  BY TableAssumption DEF SearchInv, SearchTypeOK
<1>2. Middle \in Nat /\ left <= Middle /\ Middle <= right
      /\ (left < right => Middle < right) /\ Middle < KeyCount
  BY <1>1 DEF Middle
<1>3. Middle \in Position
  BY <1>1, <1>2 DEF Position
<1>4. KeyNames[Middle] \in Word /\ key \in Word
  BY <1>3, TableAssumption DEF SearchInv, SearchTypeOK
<1>5. QED BY <1>2, <1>3, <1>4, RankAssumption DEF RankAt

\* A call: the whole table lies between the halves.
LEMMA GetKeyStep ==
  ASSUME SearchInv, NEW k \in Word, GetKey(k)
  PROVE  SearchInv'
<1>1. /\ key' = k /\ left' = 0 /\ right' = KeyCount /\ search' = "running"
      /\ KeyCount \in Nat \ {0}
  BY TableAssumption DEF GetKey, End
<1>2. \A p \in Position : left' <= p /\ p < right'
  BY <1>1 DEF Position
<1>3. QED BY <1>1, <1>2 DEF SearchInv, SearchTypeOK, Position

\* A comparison: a name at its right place is on the side the search goes to,
\* and not at the middle, since the middle is another name.
LEMMA ProbeStep ==
  ASSUME SearchInv, Probe
  PROVE  SearchInv'
<1> DEFINE M == Middle
<1>0. /\ left \in Nat /\ right \in Nat /\ left <= right /\ left < KeyCount
      /\ right <= KeyCount /\ KeyCount \in Nat \ {0}
      /\ key \in Word /\ key' = key /\ search = "running"
      /\ \A p \in Position : Proper(p) => left <= p /\ p < right
  BY TableAssumption DEF SearchInv, SearchTypeOK, Probe
<1>1. /\ M \in Position /\ M \in Nat /\ left <= M /\ M <= right /\ M < KeyCount
      /\ left < right => M < right
      /\ RankAt(M) \in Int /\ Rank[key] \in Int
  BY <1>0, MiddleFacts DEF Position
<1>2. \A p \in Position : RankAt(p) = Rank[key]' /\ ~OutOfOrder(p)' <=> Proper(p)
  BY <1>0 DEF Proper, RankAt, OutOfOrder
<1>3. CASE Rank[key] = RankAt(M)
  <2>1. search' = "found" /\ UNCHANGED <<left, right>>
    BY <1>3, <1>1 DEF Probe
  <2>2. RankAt(Middle)' = Rank[key]'
    BY <1>0, <1>3, <2>1 DEF RankAt, Middle
  <2>3. QED BY <1>0, <2>1, <2>2 DEF SearchInv, SearchTypeOK
<1>4. CASE Rank[key] > RankAt(M)
  <2>1. /\ left' = M /\ right' = right
        /\ search' = IF M = left THEN "missing" ELSE "running"
    BY <1>1, <1>4 DEF Probe, Unchanged
  <2>2. \A p \in Position : Proper(p) => M < p
    <3> SUFFICES ASSUME NEW p \in Position, Proper(p), p <= M PROVE FALSE
      BY <1>1 DEF Position
    <3>1. p # M /\ p < M
      BY <1>1, <1>4 DEF Proper, Position
    <3>2. RankAt(M) > RankAt(p)
      BY <1>1, <3>1 DEF Proper, OutOfOrder, RankAt, Position
    <3>3. QED BY <1>1, <1>4, <3>2 DEF Proper
  <2>3. M = left => \A p \in Position : ~Proper(p)
    <3> SUFFICES ASSUME M = left, NEW p \in Position, Proper(p) PROVE FALSE
      OBVIOUS
    <3>1. left < p /\ p < right
      BY <1>0, <2>2
    <3>2. right <= left + 1
      BY <1>0 DEF Middle
    <3>3. QED BY <1>0, <3>1, <3>2 DEF Position
  <2>4. \A p \in Position : Proper(p) => left' <= p /\ p < right'
    BY <1>0, <1>1, <2>1, <2>2 DEF Position
  <2>5. QED BY <1>0, <1>1, <1>2, <2>1, <2>3, <2>4 DEF SearchInv, SearchTypeOK, Proper
<1>5. CASE Rank[key] < RankAt(M)
  <2>1. /\ left' = left /\ right' = M
        /\ search' = IF M = right THEN "missing" ELSE "running"
    BY <1>1, <1>5 DEF Probe, Unchanged, LowerHalf
  <2>2. \A p \in Position : Proper(p) => p < M
    <3> SUFFICES ASSUME NEW p \in Position, Proper(p), M <= p PROVE FALSE
      BY <1>1 DEF Position
    <3>1. M # p /\ M < p
      BY <1>1, <1>5 DEF Proper, Position
    <3>2. RankAt(M) < RankAt(p)
      BY <1>1, <3>1 DEF Proper, OutOfOrder, RankAt, Position
    <3>3. QED BY <1>1, <1>5, <3>2 DEF Proper
  <2>3. M = right => \A p \in Position : ~Proper(p)
    BY <1>0, <1>1 DEF Position
  <2>4. \A p \in Position : Proper(p) => left' <= p /\ p < right'
    BY <1>0, <2>1, <2>2
  <2>5. QED BY <1>0, <1>1, <1>2, <2>1, <2>3, <2>4 DEF SearchInv, SearchTypeOK, Proper
<1>6. QED BY <1>1, <1>3, <1>4, <1>5

\* Every state of a search satisfies the invariant.
THEOREM SearchInvariant == SearchSpec => []SearchInv
<1>1. SearchInit => SearchInv
  BY TableAssumption DEF SearchInit, SearchInv, SearchTypeOK
<1>2. SearchInv /\ [SearchNext]_searchVars => SearchInv'
  <2> SUFFICES ASSUME SearchInv, [SearchNext]_searchVars PROVE SearchInv'
    OBVIOUS
  <2>1. CASE UNCHANGED searchVars
    BY <2>1 DEF searchVars, SearchInv, SearchTypeOK, Middle, RankAt, Proper, OutOfOrder
  <2>2. QED BY <2>1, GetKeyStep, ProbeStep DEF SearchNext
<1>3. QED BY <1>1, <1>2, PTL DEF SearchSpec

\* keyparser_getkey never reads outside of key_names, however long the table is
\* and however badly it is sorted.
THEOREM SearchStaysInTable == SearchSpec => []ProbesInTable
<1>1. SearchInv => ProbesInTable
  BY MiddleFacts DEF ProbesInTable
<1>2. QED BY <1>1, SearchInvariant, PTL

\* keyparser_getkey finds what it was asked for, and misses no name that stands
\* at its right place, whatever stands at the wrong ones around it.
THEOREM SearchFindsProper == SearchSpec => []MissesOnlyMisplaced
<1>1. SearchInv => MissesOnlyMisplaced
  BY DEF SearchInv, MissesOnlyMisplaced, Proper
<1>2. QED BY <1>1, SearchInvariant, PTL

---------------------------------------------------------------------------
(* Least numbers, and texts that begin with blanks.                        *)

\* Any set of natural numbers has a least one.
LEMMA LeastFacts ==
  ASSUME NEW S \in SUBSET Nat, S # {}
  PROVE  Least(S) \in S /\ \A j \in S : Least(S) <= j
<1> DEFINE R == OpToRel(<, Nat)
<1>1. IsWellFoundedOn(R, Nat)
  BY NatLessThanWellFounded
<1>2. \A x, y \in Nat : <<x, y>> \in R <=> x < y
  BY DEF OpToRel
<1> HIDE DEF R
<1>3. PICK x \in S : \A y \in S : ~(<<y, x>> \in R)
  BY <1>1, WFMin
<1>4. \A y \in S : x <= y
  <2>1. ASSUME NEW y \in S PROVE x \in Nat /\ y \in Nat /\ ~(y < x)
    BY <1>2, <1>3
  <2>2. QED BY <2>1
<1>5. QED BY <1>3, <1>4 DEF Least

\* How a least one is recognised.
LEMMA LeastIs ==
  ASSUME NEW S \in SUBSET Nat, NEW i \in S, \A j \in S : i <= j
  PROVE  Least(S) = i
<1>1. Least(S) \in S /\ \A j \in S : Least(S) <= j
  BY LeastFacts
<1>2. Least(S) \in Nat /\ i \in Nat /\ Least(S) <= i /\ i <= Least(S)
  BY <1>1
<1>3. QED BY <1>2

---------------------------------------------------------------------------
(* The text.                                                               *)

\* What is behind the beginning of a text.
LEMMA RestOfConcat ==
  ASSUME NEW a \in Text, NEW t \in Text
  PROVE  /\ SubSeq(a \o t, 1, Len(a)) = a
         /\ SubSeq(a \o t, Len(a) + 1, Len(a \o t)) = t
<1> DEFINE c == a \o t
<1>1. /\ c \in Text /\ Len(c) = Len(a) + Len(t) /\ Len(a) \in Nat /\ Len(t) \in Nat
      /\ \A i \in 1 .. Len(a) + Len(t) : c[i] = IF i <= Len(a) THEN a[i] ELSE t[i - Len(a)]
  BY ConcatProperties, LenProperties DEF Text
<1>2. \A i \in 1 .. Len(c) : c[i] \in Piece
  BY <1>1, ElementOfSeq DEF Text
<1> HIDE DEF c
<1>3. SubSeq(c, 1, Len(a)) = a
  <2> DEFINE s == SubSeq(c, 1, Len(a))
  <2>1. s \in Text /\ Len(s) = Len(a) /\ \A i \in 1 .. Len(a) : s[i] = c[i]
    BY <1>1, <1>2, SubSeqProperties DEF Text
  <2> HIDE DEF s
  <2>2. \A i \in 1 .. Len(s) : s[i] = a[i]
    BY <1>1, <2>1
  <2>3. s = a BY <2>1, <2>2, SeqEqual DEF Text
  <2>4. QED BY <2>3 DEF s
<1>4. SubSeq(c, Len(a) + 1, Len(c)) = t
  <2> DEFINE s == SubSeq(c, Len(a) + 1, Len(c))
  <2>0. \A i \in Len(a) + 1 .. Len(c) : c[i] \in Piece
    BY <1>1, <1>2
  <2>1. s \in Text /\ Len(s) = Len(t) /\ \A i \in 1 .. Len(t) : s[i] = c[Len(a) + i]
    BY <1>1, <2>0, SubSeqProperties DEF Text
  <2> HIDE DEF s
  <2>2. ASSUME NEW i \in 1 .. Len(s) PROVE s[i] = t[i]
    <3>1. /\ i \in 1 .. Len(t) /\ Len(a) + i \in 1 .. Len(a) + Len(t)
          /\ ~(Len(a) + i <= Len(a)) /\ (Len(a) + i) - Len(a) = i
      BY <1>1, <2>1
    <3>2. QED BY <1>1, <2>1, <3>1
  <2>3. s = t BY <2>1, <2>2, SeqEqual DEF Text
  <2>4. QED BY <2>3 DEF s
<1>5. QED BY <1>3, <1>4 DEF c

Blanks == {b \in Text : \A i \in 1 .. Len(b) : b[i] = Blank}

\* evf_eat_spaces stops at the first piece that is no blank.
LEMMA EatBlanks ==
  ASSUME NEW b \in Blanks, NEW t \in Text, t # <<>> => t[1] # Blank
  PROVE  EatSpaces[b \o t] = t
<1> DEFINE c == b \o t
           S == {i \in 1 .. Len(c) + 1 : i > Len(c) \/ c[i] # Blank}
<1>1. /\ c \in Text /\ Len(c) = Len(b) + Len(t) /\ Len(b) \in Nat /\ Len(t) \in Nat
      /\ \A i \in 1 .. Len(b) + Len(t) : c[i] = IF i <= Len(b) THEN b[i] ELSE t[i - Len(b)]
      /\ \A i \in 1 .. Len(b) : b[i] = Blank
      /\ t # <<>> => Len(t) > 0
  BY ConcatProperties, LenProperties, EmptySeq DEF Text, Blanks
<1>2. SubSeq(c, Len(b) + 1, Len(c)) = t
  BY RestOfConcat DEF Blanks
<1>3. EatSpaces[c] = SubSeq(c, Least(S), Len(c))
  BY <1>1 DEF EatSpaces
<1> HIDE DEF c
<1>4. Len(b) + 1 \in S
  <2>1. CASE t = <<>>
    BY <1>1, <2>1, EmptySeq
  <2>2. CASE t # <<>>
    <3>1. c[Len(b) + 1] = t[1]
      BY <1>1, <2>2
    <3>2. QED BY <1>1, <2>2, <3>1
  <2>3. QED BY <2>1, <2>2
<1>5. \A j \in S : Len(b) + 1 <= j
  BY <1>1
<1>6. S \in SUBSET Nat
  OBVIOUS
<1> HIDE DEF S
<1>7. Least(S) = Len(b) + 1
  BY <1>4, <1>5, <1>6, LeastIs
<1>8. QED BY <1>2, <1>3, <1>7 DEF c

\* Without blanks, evf_eat_spaces does nothing.
LEMMA NoBlanks ==
  ASSUME NEW t \in Text, t # <<>> => t[1] # Blank
  PROVE  EatSpaces[t] = t
<1>1. <<>> \in Blanks
  BY EmptySeq DEF Blanks, Text
<1>2. QED BY <1>1, EatBlanks, ConcatEmptySeq DEF Text

\* A text of one piece.
LEMMA SinglePiece ==
  ASSUME NEW S, NEW e \in S
  PROVE  <<e>> \in Seq(S) /\ Len(<<e>>) = 1 /\ <<e>>[1] = e
OBVIOUS

\* A word goes up to the first piece that ends it.
LEMMA CutWord ==
  ASSUME NEW w \in Text, NEW e \in Piece, NEW r \in Text, NEW ends, e \in ends,
         \A i \in 1 .. Len(w) : w[i] \notin ends
  PROVE  Cut(ends)[w \o <<e>> \o r] = [word |-> Spell(w), rest |-> r]
<1> DEFINE we == w \o <<e>>
           c == we \o r
           S == {i \in 1 .. Len(c) + 1 : i > Len(c) \/ c[i] \in ends}
           n == Least(S)
<1>0. <<e>> \in Text /\ Len(<<e>>) = 1 /\ <<e>>[1] = e
  BY SinglePiece DEF Text
<1>1. /\ we \in Text /\ Len(we) = Len(w) + 1 /\ Len(w) \in Nat
      /\ \A i \in 1 .. Len(w) : we[i] = w[i]
      /\ we[Len(w) + 1] = e
  <2> HIDE DEF we
  <2>1. /\ we \in Text /\ Len(we) = Len(w) + Len(<<e>>) /\ Len(w) \in Nat
        /\ \A i \in 1 .. Len(w) + Len(<<e>>) :
             we[i] = IF i <= Len(w) THEN w[i] ELSE <<e>>[i - Len(w)]
    BY <1>0, ConcatProperties, LenProperties DEF Text, we
  <2>2. \A i \in 1 .. Len(w) : we[i] = w[i]
    BY <1>0, <2>1
  <2>3. /\ Len(w) + 1 \in 1 .. Len(w) + Len(<<e>>) /\ ~(Len(w) + 1 <= Len(w))
        /\ (Len(w) + 1) - Len(w) = 1
    BY <1>0, <2>1
  <2>4. we[Len(w) + 1] = <<e>>[1]
    BY <2>1, <2>3
  <2>5. QED BY <1>0, <2>1, <2>2, <2>4
<1> HIDE DEF we
<1>2. /\ c \in Text /\ Len(c) = Len(we) + Len(r) /\ Len(r) \in Nat
      /\ \A i \in 1 .. Len(we) + Len(r) : c[i] = IF i <= Len(we) THEN we[i] ELSE r[i - Len(we)]
  BY <1>1, ConcatProperties, LenProperties DEF Text
<1>3. SubSeq(c, 1, Len(we)) = we /\ SubSeq(c, Len(we) + 1, Len(c)) = r
  BY <1>1, RestOfConcat
<1>4. Cut(ends)[c] = [word |-> Spell(SubSeq(c, 1, n - 1)), rest |-> SubSeq(c, n + 1, Len(c))]
  BY <1>2 DEF Cut
<1> HIDE DEF c
<1>5. (\A i \in 1 .. Len(w) : c[i] = w[i]) /\ c[Len(w) + 1] = e
  <2>1. \A i \in 1 .. Len(w) + 1 : i \in 1 .. Len(we) + Len(r) /\ i <= Len(we)
    BY <1>1, <1>2
  <2>2. \A i \in 1 .. Len(w) + 1 : c[i] = we[i]
    BY <1>1, <1>2, <2>1
  <2>3. Len(w) + 1 \in 1 .. Len(w) + 1 /\ \A i \in 1 .. Len(w) : i \in 1 .. Len(w) + 1
    BY <1>1
  <2>4. QED BY <1>1, <2>2, <2>3
<1>6. Len(w) + 1 \in S /\ \A j \in S : Len(w) + 1 <= j
  <2>1. Len(w) + 1 \in 1 .. Len(c) + 1 /\ c[Len(w) + 1] = e
    BY <1>1, <1>2, <1>5
  <2>2. ASSUME NEW j \in S, j < Len(w) + 1 PROVE FALSE
    <3>1. j \in 1 .. Len(w) /\ j <= Len(c)
      BY <1>1, <1>2, <2>2
    <3>2. c[j] = w[j]
      BY <1>1, <1>5, <3>1
    <3>3. QED BY <1>1, <1>2, <2>2, <3>1, <3>2
  <2>3. Len(w) + 1 \in S
    BY <2>1
  <2>4. \A j \in S : j \in Nat /\ Len(w) + 1 \in Nat
    BY <1>1
  <2> HIDE DEF S
  <2>5. QED BY <2>2, <2>3, <2>4
<1>7. S \in SUBSET Nat
  OBVIOUS
<1> HIDE DEF S
<1>8. n = Len(w) + 1
  BY <1>6, <1>7, LeastIs
<1>9. SubSeq(c, 1, Len(w)) = w
  <2> DEFINE s == SubSeq(c, 1, Len(w))
  <2>0. \A i \in 1 .. Len(w) : c[i] = w[i] /\ c[i] \in Piece
    <3>1. \A i \in 1 .. Len(w) : w[i] \in Piece
      BY ElementOfSeq DEF Text
    <3>2. QED BY <1>5, <3>1
  <2>1. s \in Text /\ Len(s) = Len(w) /\ \A i \in 1 .. Len(w) : s[i] = c[i]
    BY <1>1, <2>0, SubSeqProperties DEF Text
  <2> HIDE DEF s
  <2>2. \A i \in 1 .. Len(s) : s[i] = w[i]
    BY <2>0, <2>1
  <2>3. s = w BY <2>1, <2>2, SeqEqual DEF Text
  <2>4. QED BY <2>3 DEF s
<1> HIDE DEF n
<1>10. SubSeq(c, 1, n - 1) = w /\ SubSeq(c, n + 1, Len(c)) = r
  BY <1>1, <1>3, <1>8, <1>9
<1>11. QED BY <1>4, <1>10 DEF c, we

\* The special pieces, as texts.
LEMMA PieceTexts ==
  /\ <<Blank>> \in Blanks /\ <<Blank>> # <<>> /\ <<>> \in Blanks
  /\ \A q \in Quotes \cup {Blank, Equals} : q \in Piece /\ <<q>> \in Text /\ Len(<<q>>) = 1 /\ <<q>>[1] = q
<1>1. ASSUME NEW q \in Quotes \cup {Blank, Equals}
      PROVE  q \in Piece /\ <<q>> \in Text /\ Len(<<q>>) = 1 /\ <<q>>[1] = q
  <2>1. q \in Piece
    BY PieceAssumption
  <2>2. QED BY <2>1, SinglePiece DEF Text
<1>2. <<Blank>> \in Text /\ Len(<<Blank>>) = 1 /\ <<Blank>>[1] = Blank
  BY <1>1
<1>3. \A i \in 1 .. Len(<<Blank>>) : i = 1
  BY <1>2
<1>4. <<Blank>> \in Blanks
  BY <1>2, <1>3 DEF Blanks
<1>5. <<>> \in Blanks
  BY EmptySeq DEF Blanks, Text
<1>6. QED BY <1>1, <1>4, <1>5

\* Concatenation, for texts.
LEMMA Texts ==
  ASSUME NEW a \in Text, NEW b \in Text
  PROVE  /\ a \o b \in Text
         /\ a # <<>> => a \o b # <<>> /\ (a \o b)[1] = a[1] /\ Head(a) = a[1]
         /\ a \o <<>> = a /\ <<>> \o a = a
<1>1. a \o b \in Text
  BY ConcatProperties DEF Text
<1>2. a \o <<>> = a /\ <<>> \o a = a
  BY ConcatEmptySeq DEF Text
<1>3. ASSUME a # <<>> PROVE a \o b # <<>> /\ (a \o b)[1] = a[1] /\ Head(a) = a[1]
  <2>1. Len(a) \in Nat /\ Len(b) \in Nat /\ Len(a) > 0
    BY <1>3, EmptySeq, LenProperties DEF Text
  <2>2. (a \o b)[1] = a[1]
    <3>1. 1 \in 1 .. Len(a) + Len(b) /\ 1 <= Len(a)
      BY <2>1
    <3>2. QED BY <3>1, ConcatProperties DEF Text
  <2>3. a \o b # <<>>
    BY <1>3, ConcatEqualIffEmpty DEF Text
  <2>4. QED BY <2>2, <2>3
<1>4. QED BY <1>1, <1>2, <1>3

\* It does not matter how texts are put together.
LEMMA TextsAssociate == \A x, y, z \in Text : (x \o y) \o z = x \o (y \o z)
<1>1. ASSUME NEW x \in Text, NEW y \in Text, NEW z \in Text PROVE (x \o y) \o z = x \o (y \o z)
  <2>1. x \in Seq(Piece) /\ y \in Seq(Piece) /\ z \in Seq(Piece)
    BY DEF Text
  <2>2. QED BY <2>1, ConcatAssociative
<1>2. QED BY <1>1

\* A text that begins with a given piece.
LEMMA FirstOf ==
  ASSUME NEW e \in Piece, NEW t \in Text
  PROVE  /\ <<e>> \o t \in Text /\ <<e>> \o t # <<>>
         /\ Head(<<e>> \o t) = e /\ (<<e>> \o t)[1] = e
         /\ Tail(<<e>> \o t) = t
<1> DEFINE c == <<e>> \o t
<1>1. <<e>> \in Text /\ Len(<<e>>) = 1 /\ <<e>>[1] = e
  BY SinglePiece DEF Text
<1>2. c \in Text /\ Len(c) = 1 + Len(t) /\ Len(t) \in Nat /\ SubSeq(c, 2, Len(c)) = t
      /\ c[1] = e
  <2>1. c \in Text /\ Len(c) = Len(<<e>>) + Len(t) /\ Len(t) \in Nat
    BY <1>1, ConcatProperties, LenProperties DEF Text
  <2>2. SubSeq(c, Len(<<e>>) + 1, Len(c)) = t
    BY <1>1, RestOfConcat
  <2>3. c[1] = e
    <3>1. <<e>> # <<>>
      OBVIOUS
    <3>2. QED BY <1>1, <3>1, Texts
  <2>4. Len(<<e>>) + 1 = 2
    BY <1>1
  <2> HIDE DEF c
  <2>5. QED BY <1>1, <2>1, <2>2, <2>3, <2>4
<1> HIDE DEF c
<1>3. c # <<>>
  BY <1>2, EmptySeq DEF Text
<1>4. Tail(c) = t
  BY <1>2, <1>3, TailIsSubSeq DEF Text
<1>5. QED BY <1>2, <1>3, <1>4 DEF c

\* CutWord, with the text as evfilter_get_name meets it.
LEMMA CutText ==
  ASSUME NEW w \in Text, NEW e \in Piece, NEW r \in Text, NEW ends, e \in ends,
         Range(w) \cap ends = {}
  PROVE  Cut(ends)[w \o (<<e>> \o r)] = [word |-> Spell(w), rest |-> r]
<1>1. (w \o <<e>>) \o r = w \o (<<e>> \o r)
  <2>1. <<e>> \in Seq(Piece) /\ w \in Seq(Piece) /\ r \in Seq(Piece)
    BY SinglePiece DEF Text
  <2>2. QED BY <2>1, ConcatAssociative
<1>2. \A i \in 1 .. Len(w) : w[i] \notin ends
  BY RangeEquality DEF Text
<1>3. Cut(ends)[(w \o <<e>>) \o r] = [word |-> Spell(w), rest |-> r]
  BY <1>2, CutWord
<1>4. QED BY <1>1, <1>3

\* Blanks are alike.
LEMMA BlanksAlike ==
  ASSUME NEW b \in Blanks, NEW c \in Blanks
  PROVE  b \o c = c \o b /\ b \o c \in Blanks
<1>1. /\ b \in Text /\ c \in Text /\ Len(b) \in Nat /\ Len(c) \in Nat
      /\ \A i \in 1 .. Len(b) : b[i] = Blank
      /\ \A i \in 1 .. Len(c) : c[i] = Blank
  BY LenProperties DEF Blanks, Text
<1>2. ASSUME NEW x \in Text, NEW y \in Text, Len(x) \in Nat, Len(y) \in Nat,
             \A i \in 1 .. Len(x) : x[i] = Blank,
             \A i \in 1 .. Len(y) : y[i] = Blank
      PROVE  /\ x \o y \in Text /\ Len(x \o y) = Len(x) + Len(y)
             /\ \A i \in 1 .. Len(x) + Len(y) : (x \o y)[i] = Blank
  <2>1. /\ x \o y \in Text /\ Len(x \o y) = Len(x) + Len(y)
        /\ \A i \in 1 .. Len(x) + Len(y) :
             (x \o y)[i] = IF i <= Len(x) THEN x[i] ELSE y[i - Len(x)]
    BY ConcatProperties DEF Text
  <2>2. ASSUME NEW i \in 1 .. Len(x) + Len(y)
        PROVE  \/ i <= Len(x) /\ i \in 1 .. Len(x)
               \/ ~(i <= Len(x)) /\ i - Len(x) \in 1 .. Len(y)
    BY <1>2
  <2>3. QED BY <1>2, <2>1, <2>2
<1>3. /\ b \o c \in Text /\ Len(b \o c) = Len(b) + Len(c)
      /\ \A i \in 1 .. Len(b) + Len(c) : (b \o c)[i] = Blank
  BY <1>1, <1>2
<1>4. /\ c \o b \in Text /\ Len(c \o b) = Len(c) + Len(b)
      /\ \A i \in 1 .. Len(c) + Len(b) : (c \o b)[i] = Blank
  BY <1>1, <1>2
<1>5. Len(b) + Len(c) = Len(c) + Len(b)
  BY <1>1
<1>6. b \o c = c \o b
  <2> DEFINE x == b \o c
             y == c \o b
  <2>1. x \in Text /\ y \in Text /\ Len(x) = Len(y) /\ \A i \in 1 .. Len(x) : x[i] = y[i]
    BY <1>3, <1>4, <1>5
  <2> HIDE DEF x, y
  <2>2. x = y
    BY <2>1, SeqEqual DEF Text
  <2>3. QED BY <2>2 DEF x, y
<1>7. QED BY <1>3, <1>6 DEF Blanks

---------------------------------------------------------------------------
(* A line as the comments want it, piece by piece.                         *)

\* What evfilter_get_value finds: behind the separator the value, and behind
\* the value the blanks at the end of the line.
ValueText(l, g) == l.quote \o (l.value \o (l.quote \o (l.tail \o (<<Blank>> \o g))))

\* The parts of a line are texts.
LEMMA LineFacts ==
  ASSUME NEW l \in Line, WellWritten(l)
  PROVE  /\ l.name \in Text /\ l.separator \in Text /\ l.quote \in Text
         /\ l.value \in Text /\ l.tail \in Blanks
         /\ \A g \in Text : ValueText(l, g) \in Text
<1>1. /\ l.name \in Text /\ l.separator \in Text /\ l.quote \in Text
      /\ l.value \in Text /\ l.tail \in Text
  BY DEF Line
<1>2. l.tail \in Blanks
  <2>1. Range(l.tail) = {l.tail[i] : i \in 1 .. Len(l.tail)}
    BY <1>1, RangeEquality DEF Text
  <2>2. QED BY <1>1, <2>1 DEF WellWritten, Blanks
<1>3. ASSUME NEW g \in Text PROVE ValueText(l, g) \in Text
  <2>1. <<Blank>> \in Text
    BY PieceTexts
  <2>2. <<Blank>> \o g \in Text
    BY <2>1, Texts
  <2>3. l.tail \o (<<Blank>> \o g) \in Text
    BY <1>1, <2>2, Texts
  <2>4. l.quote \o (l.tail \o (<<Blank>> \o g)) \in Text
    BY <1>1, <2>3, Texts
  <2>5. l.value \o (l.quote \o (l.tail \o (<<Blank>> \o g))) \in Text
    BY <1>1, <2>4, Texts
  <2>6. QED BY <1>1, <2>5, Texts DEF ValueText
<1>4. QED BY <1>1, <1>2, <1>3

Cat(x, y) == x \o y

\* Texts, once more, for a sum that the provers do not look into.
LEMMA CatFacts ==
  /\ \A x, y \in Text : Cat(x, y) \in Text
  /\ \A x, y, z \in Text : Cat(Cat(x, y), z) = Cat(x, Cat(y, z))
<1>1. \A x, y \in Text : Cat(x, y) \in Text
  BY Texts DEF Cat
<1>2. \A x, y, z \in Text : Cat(Cat(x, y), z) = Cat(x, Cat(y, z))
  BY TextsAssociate DEF Cat
<1>3. QED BY <1>1, <1>2

\* From the order in which Pieces puts a line together to that in which it is read.
LEMMA Regroup ==
  ASSUME NEW a \in Text, NEW b \in Text, NEW c \in Text, NEW d \in Text, NEW e \in Text,
         NEW f \in Text, NEW g \in Text
  PROVE  /\ Cat(Cat(Cat(Cat(Cat(a, b), c), d), c), e) \in Text
         /\ Cat(Cat(Cat(Cat(Cat(Cat(Cat(a, b), c), d), c), e), f), g)
              = Cat(a, Cat(b, Cat(c, Cat(d, Cat(c, Cat(e, Cat(f, g)))))))
<1> DEFINE p1 == Cat(a, b)
           p2 == Cat(p1, c)
           p3 == Cat(p2, d)
           p4 == Cat(p3, c)
           p5 == Cat(p4, e)
           r1 == Cat(f, g)
           r2 == Cat(e, r1)
           r3 == Cat(c, r2)
           r4 == Cat(d, r3)
           r5 == Cat(c, r4)
<1>1. p1 \in Text /\ p2 \in Text /\ p3 \in Text /\ p4 \in Text /\ p5 \in Text
  BY CatFacts
<1>2. r1 \in Text /\ r2 \in Text /\ r3 \in Text /\ r4 \in Text /\ r5 \in Text
  BY CatFacts
<1>3. Cat(Cat(p5, f), g) = Cat(p5, r1)
  BY <1>1, CatFacts
<1>4. /\ Cat(p5, r1) = Cat(p4, r2) /\ Cat(p4, r2) = Cat(p3, r3) /\ Cat(p3, r3) = Cat(p2, r4)
      /\ Cat(p2, r4) = Cat(p1, r5) /\ Cat(p1, r5) = Cat(a, Cat(b, r5))
  BY <1>1, <1>2, CatFacts
<1>5. Cat(Cat(p5, f), g) = Cat(a, Cat(b, r5))
  BY <1>3, <1>4
<1>6. QED BY <1>1, <1>5

\* The text of a line, and what comes behind it.
LEMMA LineSplit ==
  ASSUME NEW l \in Line, WellWritten(l), NEW g \in Text
  PROVE  /\ Append(Pieces(l), Blank) \in Text
         /\ Append(Pieces(l), Blank) \o g = l.name \o (l.separator \o ValueText(l, g))
<1>1. /\ l.name \in Text /\ l.separator \in Text /\ l.quote \in Text
      /\ l.value \in Text /\ l.tail \in Text /\ <<Blank>> \in Text
  BY LineFacts, PieceTexts DEF Blanks
<1>2. /\ Pieces(l) \in Text
      /\ (Pieces(l) \o <<Blank>>) \o g = l.name \o (l.separator \o ValueText(l, g))
  <2> DEFINE P == Cat(Cat(Cat(Cat(Cat(l.name, l.separator), l.quote), l.value), l.quote), l.tail)
  <2>1. P \in Text
    BY <1>1, Regroup
  <2>2. Cat(Cat(P, <<Blank>>), g)
          = Cat(l.name, Cat(l.separator,
              Cat(l.quote, Cat(l.value, Cat(l.quote, Cat(l.tail, Cat(<<Blank>>, g)))))))
    BY <1>1, Regroup
  <2>3. QED BY <2>1, <2>2 DEF Pieces, ValueText, Cat
<1>3. Append(Pieces(l), Blank) = Pieces(l) \o <<Blank>>
  <2>1. Blank \in Piece /\ Pieces(l) \in Seq(Piece)
    BY <1>2, PieceAssumption DEF Text
  <2>2. QED BY <2>1, AppendIsConcat
<1>4. Pieces(l) \o <<Blank>> \in Text
  BY <1>1, <1>2, Texts
<1>5. QED BY <1>2, <1>3, <1>4

\* Where the value begins there is no blank and no equals sign.
LEMMA ValueBegins ==
  ASSUME NEW l \in Line, WellWritten(l), NEW g \in Text
  PROVE  /\ ValueText(l, g) # <<>>
         /\ ValueText(l, g)[1] \notin {Blank, Equals}
         /\ Head(ValueText(l, g)) = ValueText(l, g)[1]
<1> DEFINE T3 == l.tail \o (<<Blank>> \o g)
           T2 == l.quote \o T3
           T1 == l.value \o T2
<1>0. T3 \in Text /\ T2 \in Text /\ T1 \in Text /\ l.value \in Text /\ l.quote \in Text
  <2>1. <<Blank>> \o g \in Text
    BY PieceTexts, Texts
  <2>2. l.tail \in Text /\ l.quote \in Text /\ l.value \in Text
    BY LineFacts DEF Blanks
  <2>3. QED BY <2>1, <2>2, Texts
<1>1. ValueText(l, g) = l.quote \o T1
  BY DEF ValueText
<1> HIDE DEF T1
<1>2. CASE l.quote = <<>>
  <2>1. ValueText(l, g) = T1
    BY <1>0, <1>1, <1>2, Texts
  <2>2. Quotes \cap {Blank, Equals} = {} /\ \A q : <<q>> # <<>>
    BY DEF Quotes, Blank, Equals
  <2>3. /\ l.value # <<>> /\ Head(l.value) \notin Quotes \cup {Equals}
        /\ Blank \notin Range(l.value)
    BY <1>2, <2>2 DEF WellWritten
  <2>4. T1 # <<>> /\ T1[1] = l.value[1] /\ Head(l.value) = l.value[1] /\ Head(T1) = T1[1]
    BY <1>0, <2>3, Texts DEF T1
  <2>5. l.value[1] # Blank
    <3>1. Len(l.value) \in Nat \ {0}
      BY <1>0, <2>3, EmptySeq DEF Text
    <3>2. Range(l.value) = {l.value[i] : i \in 1 .. Len(l.value)}
      BY <1>0, RangeEquality DEF Text
    <3>3. QED BY <2>3, <3>1, <3>2
  <2>6. QED BY <2>1, <2>3, <2>4, <2>5
<1>3. CASE l.quote # <<>>
  <2>1. PICK q \in Quotes : l.quote = <<q>>
    BY <1>3 DEF WellWritten
  <2>2. q \in Piece /\ q \notin {Blank, Equals}
    BY PieceAssumption DEF Quotes, Blank, Equals
  <2>3. QED BY <1>0, <1>1, <2>1, <2>2, FirstOf
<1>4. QED BY <1>2, <1>3

OneEquals(s) == \A i, j \in DOMAIN s : s[i] = Equals /\ s[j] = Equals => i = j

\* A part of a text that is all blank.
LEMMA SubBlanks ==
  ASSUME NEW s \in Text, NEW m \in Nat \ {0}, NEW n \in 0 .. Len(s),
         \A i \in m .. n : s[i] = Blank
  PROVE  SubSeq(s, m, n) \in Blanks
<1> DEFINE b == SubSeq(s, m, n)
<1>1. Len(s) \in Nat /\ \A i \in m .. n : s[i] \in Piece
  BY LenProperties, PieceAssumption DEF Text
<1>2. /\ b \in Text /\ Len(b) = IF m <= n THEN n - m + 1 ELSE 0
      /\ \A i \in 1 .. n - m + 1 : b[i] = s[m + i - 1]
  BY <1>1, SubSeqProperties DEF Text
<1> HIDE DEF b
<1>3. ASSUME NEW i \in 1 .. Len(b) PROVE b[i] = Blank
  <2>1. i \in 1 .. n - m + 1 /\ m + i - 1 \in m .. n
    BY <1>1, <1>2
  <2>2. QED BY <1>2, <2>1
<1>4. b \in Blanks
  BY <1>2, <1>3 DEF Blanks
<1>5. QED BY <1>4 DEF b

\* What is between a name and its value goes away, in whatever style.
LEMMA SeparatorEaten ==
  ASSUME NEW s \in Text, Range(s) \subseteq {Blank, Equals}, OneEquals(s),
         NEW W \in Text, W # <<>>, W[1] \notin {Blank, Equals}, Head(W) = W[1]
  PROVE  EatSpaces[EatEquals(EatSpaces[s \o W])] = W
<1>0. Len(s) \in Nat /\ DOMAIN s = 1 .. Len(s) /\ \A i \in 1 .. Len(s) : s[i] \in {Blank, Equals}
  <2>1. Len(s) \in Nat /\ DOMAIN s = 1 .. Len(s)
    BY LenProperties DEF Text
  <2>2. Range(s) = {s[i] : i \in 1 .. Len(s)}
    BY RangeEquality DEF Text
  <2>3. QED BY <2>1, <2>2
<1>1. CASE \A i \in 1 .. Len(s) : s[i] # Equals
  <2>1. s \in Blanks
    BY <1>0, <1>1 DEF Blanks
  <2>2. EatSpaces[s \o W] = W
    BY <2>1, EatBlanks
  <2>3. EatEquals(W) = W
    BY DEF EatEquals
  <2>4. QED BY <2>2, <2>3, NoBlanks
<1>2. ASSUME NEW k \in 1 .. Len(s), s[k] = Equals
      PROVE  EatSpaces[EatEquals(EatSpaces[s \o W])] = W
  <2> DEFINE pre == SubSeq(s, 1, k - 1)
             post == SubSeq(s, k + 1, Len(s))
             rest == <<Equals>> \o (post \o W)
  <2>1. \A i \in 1 .. Len(s) : i # k => s[i] = Blank
    BY <1>0, <1>2 DEF OneEquals
  <2>2. pre \in Blanks
    BY <1>0, <2>1, SubBlanks
  <2>3. post \in Blanks
    BY <1>0, <2>1, SubBlanks
  <2>4. pre \in Text /\ post \in Text /\ <<Equals>> \in Text /\ Equals \in Piece
    BY <2>2, <2>3, PieceTexts DEF Blanks
  <2>5. s = Cat(pre, Cat(<<Equals>>, post))
    <3>1. SubSeq(s, k, Len(s)) = <<s[k]>> \o post
      BY <1>0, SubSeqRecursiveFirst DEF Text
    <3>2. s \in Seq(Piece) /\ 1 \in 1 .. Len(s) + 1 /\ k - 1 \in 0 .. Len(s) /\ Len(s) \in k - 1 .. Len(s)
          /\ (k - 1) + 1 = k /\ 1 - 1 = 0
      BY <1>0 DEF Text
    <3>3. pre \o SubSeq(s, (k - 1) + 1, Len(s)) = SubSeq(s, 1, Len(s))
      BY <3>2, ConcatAdjacentSubSeq
    <3>4. SubSeq(s, 1, Len(s)) = s
      BY SubSeqFull DEF Text
    <3>5. QED BY <1>2, <3>1, <3>2, <3>3, <3>4 DEF Cat
  <2> HIDE DEF pre, post
  <2>6. Cat(s, W) = Cat(pre, Cat(<<Equals>>, Cat(post, W)))
    <3>1. Cat(<<Equals>>, post) \in Text
      BY <2>4, CatFacts
    <3>2. Cat(s, W) = Cat(pre, Cat(Cat(<<Equals>>, post), W))
      BY <2>4, <2>5, <3>1, CatFacts
    <3>3. Cat(Cat(<<Equals>>, post), W) = Cat(<<Equals>>, Cat(post, W))
      BY <2>4, CatFacts
    <3>4. QED BY <3>2, <3>3
  <2>7. s \o W = pre \o rest
    BY <2>6 DEF Cat
  <2>8. post \o W \in Text
    BY <2>4, Texts
  <2>9. /\ rest \in Text /\ rest # <<>> /\ Head(rest) = Equals /\ rest[1] = Equals
        /\ Tail(rest) = post \o W
    BY <2>4, <2>8, FirstOf
  <2> HIDE DEF rest
  <2>10. EatSpaces[pre \o rest] = rest
    <3>1. Equals # Blank
      BY DEF Equals, Blank
    <3>2. QED BY <2>2, <2>9, <3>1, EatBlanks
  <2>11. EatEquals(rest) = post \o W
    BY <2>9 DEF EatEquals
  <2>12. EatSpaces[post \o W] = W
    BY <2>3, EatBlanks
  <2>13. QED BY <2>7, <2>10, <2>11, <2>12
<1>3. QED BY <1>1, <1>2

\* Nothing but pieces is left over.
LEMMA EatText ==
  ASSUME NEW t \in Text
  PROVE  EatSpaces[t] \in Text
<1> DEFINE S == {i \in 1 .. Len(t) + 1 : i > Len(t) \/ t[i] # Blank}
<1>1. Len(t) \in Nat /\ \A i \in 1 .. Len(t) : t[i] \in Piece
  BY LenProperties, ElementOfSeq DEF Text
<1>2. Len(t) + 1 \in S /\ S \in SUBSET Nat
  BY <1>1
<1>3. Least(S) \in S
  BY <1>2, LeastFacts
<1>4. Least(S) \in Nat \ {0}
  BY <1>3
<1>5. EatSpaces[t] = SubSeq(t, Least(S), Len(t))
  BY DEF EatSpaces
<1> HIDE DEF S
<1>6. \A i \in Least(S) .. Len(t) : t[i] \in Piece
  BY <1>1, <1>4
<1>7. QED BY <1>1, <1>4, <1>5, <1>6, SubSeqProperties DEF Text

\* evfilter_get_value takes the value, and leaves the blanks behind it.
LEMMA ValueTaken ==
  ASSUME NEW l \in Line, WellWritten(l), NEW g \in Text
  PROVE  \E c \in Blanks :
           /\ Unquoted[ValueText(l, g)] = [word |-> Spell(l.value), rest |-> c \o g]
           /\ c # <<>> <=> Says(l).blank
<1> DEFINE W == ValueText(l, g)
           B == <<Blank>>
           v == l.value
           z == l.tail
           q == l.quote
<1>1. /\ q \in Text /\ v \in Text /\ z \in Blanks /\ z \in Text /\ W \in Text
      /\ W # <<>> /\ Head(W) = W[1] /\ B \in Text /\ B \in Blanks /\ B # <<>> /\ Blank \in Piece
  BY LineFacts, ValueBegins, PieceTexts DEF Blanks
<1>2. W = q \o (v \o (q \o (z \o (B \o g))))
  BY DEF ValueText
<1>3. Says(l).blank <=> q # <<>> \/ z # <<>>
  BY DEF Says
<1>4. \A x : <<x>> # <<>>
  OBVIOUS
<1>5. (q = <<>> /\ Blank \notin Range(v) /\ v # <<>> /\ Head(v) \notin Quotes \cup {Equals})
      \/ (\E k \in Quotes : q = <<k>> /\ k \notin Range(v))
  BY DEF WellWritten
<1>6. W \in Text => Unquoted[W] = IF W # <<>> /\ Head(W) \in Quotes
                                 THEN Cut({Head(W)})[Tail(W)] ELSE Cut({Blank})[W]
  BY DEF Unquoted
<1>7. z \o (B \o g) = (z \o B) \o g /\ z \o B = B \o z /\ z \o B \in Blanks /\ z \o B # <<>>
  <2>1. z \o B = B \o z /\ z \o B \in Blanks
    BY <1>1, BlanksAlike
  <2>2. Cat(z, Cat(B, g)) = Cat(Cat(z, B), g)
    <3>1. z \in Text /\ B \in Text /\ g \in Text
      BY <1>1
    <3> HIDE DEF z, B
    <3>2. QED BY <3>1, CatFacts
  <2>3. z \o B # <<>>
    BY <1>1, ConcatEqualIffEmpty DEF Text
  <2>4. QED BY <2>1, <2>2, <2>3 DEF Cat
<1>8. (B \o z) \o g = B \o (z \o g) /\ z \o g \in Text /\ (z \o B) \o g \in Text
  <2>1. Cat(Cat(B, z), g) = Cat(B, Cat(z, g)) /\ Cat(z, g) \in Text /\ Cat(Cat(z, B), g) \in Text
    <3>1. z \in Text /\ B \in Text /\ g \in Text
      BY <1>1
    <3> HIDE DEF z, B
    <3>2. QED BY <3>1, CatFacts
  <2>2. QED BY <2>1 DEF Cat
<1> HIDE DEF W, B, v, z, q
<1>9. CASE q = <<>> /\ Blank \notin Range(v) /\ v # <<>> /\ Head(v) \notin Quotes \cup {Equals}
  <2>1. W = v \o (z \o (B \o g))
    <3>1. z \o (B \o g) \in Text
      BY <1>7, <1>8
    <3>2. q \o (z \o (B \o g)) = z \o (B \o g)
      BY <1>1, <1>9, <3>1, Texts
    <3>3. v \o (z \o (B \o g)) \in Text
      BY <1>1, <3>1, Texts
    <3>4. q \o (v \o (z \o (B \o g))) = v \o (z \o (B \o g))
      BY <1>1, <1>9, <3>3, Texts
    <3>5. QED BY <1>2, <3>2, <3>4
  <2>2. W = v \o (B \o (z \o g))
    BY <1>7, <1>8, <2>1
  <2>3. Head(W) \notin Quotes
    <3>1. B \o (z \o g) \in Text
      BY <1>1, <1>8, Texts
    <3>2. W[1] = v[1] /\ Head(v) = v[1]
      BY <1>1, <1>9, <2>2, <3>1, Texts
    <3>3. QED BY <1>1, <1>9, <3>2
  <2>4. Cut({Blank})[v \o (<<Blank>> \o (z \o g))] = [word |-> Spell(v), rest |-> z \o g]
    <3>1. Range(v) \cap {Blank} = {} /\ Blank \in {Blank}
      BY <1>9
    <3>2. v \in Text /\ z \o g \in Text /\ Blank \in Piece
      BY <1>1, <1>8
    <3> DEFINE zg == z \o g
    <3> HIDE DEF zg
    <3>3. Cut({Blank})[v \o (<<Blank>> \o zg)] = [word |-> Spell(v), rest |-> zg]
      <4>1. zg \in Text
        BY <3>2 DEF zg
      <4>2. QED BY <3>1, <3>2, <4>1, CutText
    <3>4. QED BY <3>3 DEF zg
  <2>5. Unquoted[W] = [word |-> Spell(v), rest |-> z \o g]
    BY <1>1, <1>6, <2>2, <2>3, <2>4 DEF B
  <2>6. z # <<>> <=> Says(l).blank
    BY <1>3, <1>9
  <2>7. QED BY <1>1, <2>5, <2>6 DEF W, v
<1>10. ASSUME NEW k \in Quotes, q = <<k>>, k \notin Range(v)
       PROVE  \E c \in Blanks : /\ Unquoted[W] = [word |-> Spell(v), rest |-> c \o g]
                                /\ c # <<>> <=> Says(l).blank
  <2> DEFINE u == v \o (<<k>> \o ((z \o B) \o g))
  <2>0. k \in Piece /\ <<k>> \in Text
    BY PieceTexts
  <2>1. u \in Text
    <3>1. Cat(v, Cat(<<k>>, Cat(Cat(z, B), g))) \in Text
      BY <1>1, <2>0, CatFacts
    <3>2. QED BY <3>1 DEF Cat
  <2>2. W = <<k>> \o u
    BY <1>2, <1>7, <1>10
  <2>3. Head(W) = k /\ Tail(W) = u
    BY <2>0, <2>1, <2>2, FirstOf
  <2>4. Cut({k})[u] = [word |-> Spell(v), rest |-> (z \o B) \o g]
    <3>1. Range(v) \cap {k} = {} /\ k \in {k}
      BY <1>10
    <3> DEFINE zg == (z \o B) \o g
    <3>2. v \in Text /\ zg \in Text
      BY <1>1, <1>8
    <3> HIDE DEF zg
    <3>3. Cut({k})[v \o (<<k>> \o zg)] = [word |-> Spell(v), rest |-> zg]
      BY <2>0, <3>1, <3>2, CutText
    <3>4. QED BY <3>3 DEF zg
  <2>5. Unquoted[W] = [word |-> Spell(v), rest |-> (z \o B) \o g]
    BY <1>1, <1>6, <2>3, <2>4
  <2>6. Says(l).blank
    BY <1>3, <1>4, <1>10
  <2>7. QED BY <1>7, <2>5, <2>6
<1>11. QED BY <1>5, <1>9, <1>10 DEF W, v

\* One turn of the first loop takes a line off the text, as far as its value
\* goes; it finds the name and the value of the line.
LEMMA LineTaken ==
  ASSUME NEW l \in Line, WellWritten(l), NEW b \in Blanks, NEW g \in Text,
         NEW t, t = b \o (Append(Pieces(l), Blank) \o g)
  PROVE  /\ GetName[t].word = Spell(l.name)
         /\ \E c \in Blanks :
              /\ GetValue[GetName[t].rest] = [word |-> Spell(l.value), rest |-> c \o g]
              /\ c # <<>> <=> Says(l).blank
<1> DEFINE W == ValueText(l, g)
           n == l.name
           s == l.separator
           h == Head(s)
           r == Tail(s)
<1>1. /\ n \in Text /\ s \in Text /\ l.quote \in Text /\ l.value \in Text /\ l.tail \in Blanks
      /\ l.tail \in Text /\ W \in Text /\ W # <<>> /\ W[1] \notin {Blank, Equals} /\ Head(W) = W[1]
      /\ b \in Text
  BY LineFacts, ValueBegins DEF Blanks
<1>2. t = b \o (n \o (s \o W))
  BY LineSplit
<1>3. /\ n # <<>> /\ Range(n) \cap {Blank, Equals} = {}
      /\ s # <<>> /\ Range(s) \subseteq {Blank, Equals} /\ OneEquals(s)
  BY DEF WellWritten, OneEquals
<1>4. /\ h \in Piece /\ r \in Text /\ Len(r) = Len(s) - 1 /\ Len(s) \in Nat /\ Len(r) \in Nat
      /\ \A i \in 1 .. Len(r) : r[i] = s[i + 1]
      /\ Range(s) = {s[i] : i \in 1 .. Len(s)} /\ Range(r) = {r[i] : i \in 1 .. Len(r)}
      /\ DOMAIN s = 1 .. Len(s) /\ DOMAIN r = 1 .. Len(r)
  <2>1. h \in Piece /\ r \in Text /\ Len(r) = Len(s) - 1 /\ \A i \in 1 .. Len(r) : r[i] = s[i + 1]
    BY <1>1, <1>3, HeadTailProperties DEF Text
  <2>2. Len(s) \in Nat /\ Len(r) \in Nat /\ DOMAIN s = 1 .. Len(s) /\ DOMAIN r = 1 .. Len(r)
    BY <1>1, <2>1, LenProperties DEF Text
  <2>3. Range(s) = {s[i] : i \in 1 .. Len(s)} /\ Range(r) = {r[i] : i \in 1 .. Len(r)}
    <3>1. s \in Seq(Piece) /\ r \in Seq(Piece)
      BY <1>1, <2>1 DEF Text
    <3> HIDE DEF s, r
    <3>2. QED BY <3>1, RangeEquality
  <2>4. QED BY <2>1, <2>2, <2>3
<1>5. s = <<h>> \o r
  <2>1. 1 \in 1 .. Len(s) /\ Len(s) \in 1 .. Len(s) /\ s \in Seq(Piece) /\ h = s[1]
    <3>1. Len(s) # 0
      BY <1>1, <1>3, EmptySeq DEF Text
    <3>2. h = s[1]
      BY <1>1, <1>3, Texts
    <3>3. QED BY <1>1, <1>4, <3>1, <3>2 DEF Text
  <2>2. SubSeq(s, 1, Len(s)) = <<s[1]>> \o SubSeq(s, 1 + 1, Len(s))
    BY <2>1, SubSeqRecursiveFirst
  <2>3. SubSeq(s, 1, Len(s)) = s /\ r = SubSeq(s, 2, Len(s))
    BY <1>1, <1>3, SubSeqFull, TailIsSubSeq DEF Text
  <2>4. QED BY <2>1, <2>2, <2>3
<1>6. Range(r) \subseteq {Blank, Equals} /\ OneEquals(r) /\ h \in {Blank, Equals}
  <2>1. \A i \in 1 .. Len(r) : i + 1 \in 1 .. Len(s)
    BY <1>4
  <2>2. Range(r) \subseteq {Blank, Equals}
    BY <1>3, <1>4, <2>1
  <2>3. \A i, j \in 1 .. Len(r) : i + 1 = j + 1 => i = j
    BY <1>4
  <2>4. OneEquals(r)
    <3>1. \A i, j \in 1 .. Len(s) : s[i] = Equals /\ s[j] = Equals => i = j
      BY <1>3, <1>4 DEF OneEquals
    <3>2. ASSUME NEW i \in 1 .. Len(r), NEW j \in 1 .. Len(r), r[i] = Equals, r[j] = Equals
          PROVE  i = j
      <4>1. i + 1 \in 1 .. Len(s) /\ j + 1 \in 1 .. Len(s) /\ s[i + 1] = Equals /\ s[j + 1] = Equals
        BY <1>4, <2>1, <3>2
      <4>2. i + 1 = j + 1
        BY <3>1, <4>1
      <4>3. QED BY <2>3, <4>2
    <3>3. QED BY <1>4, <3>2 DEF OneEquals
  <2>5. h = s[1] /\ 1 \in 1 .. Len(s)
    <3>1. Len(s) # 0
      BY <1>1, <1>3, EmptySeq DEF Text
    <3>2. h = s[1]
      BY <1>1, <1>3, Texts
    <3>3. QED BY <1>4, <3>1, <3>2
  <2>6. h \in {Blank, Equals}
    BY <1>3, <1>4, <2>5
  <2>7. QED BY <2>2, <2>4, <2>6
<1> HIDE DEF W, n, s, h, r
<1>7. s \o W = <<h>> \o (r \o W) /\ r \o W \in Text /\ s \o W \in Text
  <2>1. <<h>> \in Text
    BY <1>6, PieceTexts
  <2>2. Cat(Cat(<<h>>, r), W) = Cat(<<h>>, Cat(r, W))
    BY <1>1, <1>4, <2>1, CatFacts
  <2>3. QED BY <1>1, <1>4, <1>5, <2>2, Texts DEF Cat
<1>8. EatSpaces[t] = n \o (s \o W)
  <2> DEFINE u == n \o (s \o W)
  <2>1. u \in Text /\ u # <<>> /\ u[1] = n[1]
    BY <1>1, <1>3, <1>7, Texts
  <2>2. n[1] # Blank
    <3>0. n \in Seq(Piece) /\ n # <<>> /\ Range(n) \cap {Blank, Equals} = {}
      BY <1>1, <1>3 DEF Text
    <3>1. Range(n) = {n[i] : i \in 1 .. Len(n)} /\ Len(n) \in Nat \ {0}
      BY <3>0, RangeEquality, EmptySeq
    <3>2. n[1] \in Range(n)
      BY <3>1
    <3>3. QED BY <3>0, <3>2
  <2> HIDE DEF u
  <2>3. EatSpaces[b \o u] = u
    BY <2>1, <2>2, EatBlanks
  <2>4. QED BY <1>2, <2>3 DEF u
<1>9. Cut({Blank, Equals})[EatSpaces[t]] = [word |-> Spell(n), rest |-> r \o W]
  <2>1. Cut({Blank, Equals})[n \o (<<h>> \o (r \o W))] = [word |-> Spell(n), rest |-> r \o W]
    <3> DEFINE rW == r \o W
    <3>1. n \in Text /\ h \in Piece /\ rW \in Text
      BY <1>1, <1>4, <1>7
    <3>2. h \in {Blank, Equals} /\ Range(n) \cap {Blank, Equals} = {}
      BY <1>3, <1>6
    <3> HIDE DEF rW
    <3>3. Cut({Blank, Equals})[n \o (<<h>> \o rW)] = [word |-> Spell(n), rest |-> rW]
      BY <3>1, <3>2, CutText
    <3>4. QED BY <3>3 DEF rW
  <2>2. QED BY <1>7, <1>8, <2>1
<1>10. t \in Text
  BY <1>1, <1>2, <1>7, Texts
<1>11. GetName[t] = [word |-> Spell(n), rest |-> EatEquals(EatSpaces[r \o W])]
  <2> DEFINE cut == Cut({Blank, Equals})[EatSpaces[t]]
  <2>1. GetName[t] = [word |-> cut.word, rest |-> EatEquals(EatSpaces[cut.rest])]
    BY <1>10 DEF GetName
  <2> DEFINE rW == r \o W
  <2>2. cut = [word |-> Spell(n), rest |-> rW]
    BY <1>9
  <2> HIDE DEF cut, rW
  <2>3. cut.word = Spell(n) /\ cut.rest = rW
    BY <2>2
  <2>4. QED BY <2>1, <2>3 DEF rW
<1>12. EatEquals(EatSpaces[r \o W]) \in Text /\ EatSpaces[EatEquals(EatSpaces[r \o W])] = W
  <2>1. EatSpaces[EatEquals(EatSpaces[r \o W])] = W
    BY <1>1, <1>4, <1>6, SeparatorEaten
  <2>2. EatSpaces[r \o W] \in Text
    <3>1. \A x \in Text : EatSpaces[x] \in Text
      BY EatText
    <3>2. QED BY <1>7, <3>1
  <2>3. EatEquals(EatSpaces[r \o W]) \in Text
    BY <2>2, HeadTailProperties DEF EatEquals, Text
  <2>4. QED BY <2>1, <2>3
<1>13. GetValue[GetName[t].rest] = Unquoted[W]
  BY <1>11, <1>12 DEF GetValue
<1>14. \E c \in Blanks : /\ Unquoted[W] = [word |-> Spell(l.value), rest |-> c \o g]
                         /\ c # <<>> <=> Says(l).blank
  BY ValueTaken DEF W
<1>15. /\ GetName[t].word = Spell(l.name)
       /\ \E c \in Blanks : /\ GetValue[GetName[t].rest] = [word |-> Spell(l.value), rest |-> c \o g]
                            /\ c # <<>> <=> Says(l).blank
  <2>1. GetName[t].word = Spell(l.name)
    <3>1. GetName[t].word = Spell(n)
      BY <1>11
    <3>2. QED BY <3>1 DEF n
  <2>2. QED BY <1>13, <1>14, <2>1
<1>16. QED BY <1>15

---------------------------------------------------------------------------
(* The text of a section.                                                  *)

\* What is in S, and one further each time, is all in S.
LEMMA UpTo ==
  ASSUME NEW n \in Nat, NEW m \in Nat, NEW S, m \in S, \A k \in m .. n - 1 : k \in S => k + 1 \in S
  PROVE  \A k \in m .. n : k \in S
<1> DEFINE out == {k \in m .. n : k \notin S}
<1>1. ASSUME out # {} PROVE FALSE
  <2>1. out \in SUBSET Nat
    OBVIOUS
  <2>2. Least(out) \in out /\ \A j \in out : Least(out) <= j
    BY <1>1, <2>1, LeastFacts
  <2> DEFINE k == Least(out)
  <2>3. k \in m .. n /\ k \notin S
    BY <2>2
  <2> HIDE DEF k
  <2>4. k # m /\ k - 1 \in m .. n - 1
    BY <2>3
  <2>5. k - 1 \notin out
    BY <2>2, <2>3, <2>4 DEF k
  <2>6. k - 1 \in S /\ (k - 1) + 1 = k
    BY <2>3, <2>4, <2>5
  <2>7. QED BY <2>3, <2>4, <2>6
<1>2. QED BY <1>1

Parts(s, k) == {f \in [1 .. k -> Text] :
  f = [i \in 1 .. k |-> IF i = 1 THEN s[i] ELSE Cat(f[i - 1], s[i])]}

\* The recursive function that FlattenSeq is made of exists.
LEMMA PartsExist ==
  ASSUME NEW s \in Seq(Text)
  PROVE  \A k \in 1 .. Len(s) : Parts(s, k) # {}
<1> DEFINE S == {k \in Nat : Parts(s, k) # {}}
           n == Len(s)
<1>1. n \in Nat /\ \A i \in 1 .. n : s[i] \in Text
  BY LenProperties, ElementOfSeq
<1>2. CASE n = 0
  BY <1>2
<1>3. CASE n # 0
  <2>1. 1 \in S
    <3>1. [i \in 1 .. 1 |-> s[i]] \in Parts(s, 1)
      BY <1>1, <1>3 DEF Parts
    <3>2. QED BY <3>1
  <2>2. ASSUME NEW k \in 1 .. n - 1, k \in S PROVE k + 1 \in S
    <3>1. PICK f \in Parts(s, k) : TRUE
      BY <2>2
    <3>2. /\ f \in [1 .. k -> Text]
          /\ \A i \in 1 .. k : f[i] = IF i = 1 THEN s[i] ELSE Cat(f[i - 1], s[i])
      BY <3>1 DEF Parts
    <3> DEFINE h == [i \in 1 .. k + 1 |-> IF i = k + 1 THEN Cat(f[k], s[k + 1]) ELSE f[i]]
    <3>3. Cat(f[k], s[k + 1]) \in Text
      <4>1. f[k] \in Text /\ s[k + 1] \in Text
        BY <1>1, <3>2
      <4>2. QED BY <4>1, CatFacts
    <3>4. h \in [1 .. k + 1 -> Text]
      BY <3>2, <3>3
    <3>5. ASSUME NEW i \in 1 .. k + 1
          PROVE  h[i] = IF i = 1 THEN s[i] ELSE Cat(h[i - 1], s[i])
      <4>1. CASE i = k + 1
        <5>1. i # 1 /\ k # k + 1 /\ k \in 1 .. k + 1 /\ i - 1 = k
          BY <4>1
        <5>2. h[k] = f[k] /\ h[i] = Cat(f[k], s[k + 1])
          BY <4>1, <5>1
        <5>3. QED BY <4>1, <5>1, <5>2
      <4>2. CASE i # k + 1
        <5>1. i \in 1 .. k /\ (i # 1 => i - 1 \in 1 .. k /\ i - 1 # k + 1 /\ i - 1 \in 1 .. k + 1)
          BY <4>2
        <5>2. h[i] = f[i] /\ (i # 1 => h[i - 1] = f[i - 1])
          BY <4>2, <5>1
        <5>3. QED BY <3>2, <5>1, <5>2
      <4>3. QED BY <4>1, <4>2
    <3> HIDE DEF h
    <3>6. h = [i \in 1 .. k + 1 |-> IF i = 1 THEN s[i] ELSE Cat(h[i - 1], s[i])]
      BY <3>4, <3>5
    <3>7. h \in Parts(s, k + 1)
      BY <3>4, <3>6 DEF Parts
    <3>8. QED BY <3>7
  <2> HIDE DEF S
  <2>3. \A k \in 1 .. n : k \in S
    BY <1>1, <2>1, <2>2, UpTo
  <2>4. QED BY <2>3 DEF S
<1>4. QED BY <1>2, <1>3

\* What is left of the texts in s behind the first i of them.
Rests(s) == {g \in [0 .. Len(s) -> Text] :
  g[Len(s)] = <<>> /\ \A i \in 1 .. Len(s) : g[i - 1] = Cat(s[i], g[i])}

\* So does what is left behind each line.
LEMMA RestsExist ==
  ASSUME NEW s \in Seq(Text)
  PROVE  Rests(s) # {}
<1> DEFINE n == Len(s)
           Good(m) == {g \in [m .. n -> Text] :
             g[n] = <<>> /\ \A i \in m + 1 .. n : g[i - 1] = Cat(s[i], g[i])}
           S == {k \in Nat : Good(n - k) # {}}
<1>1. n \in Nat /\ \A i \in 1 .. n : s[i] \in Text
  BY LenProperties, ElementOfSeq
<1> HIDE DEF n
<1>2. Good(n) # {}
  <2>1. <<>> \in Text
    BY PieceTexts DEF Blanks
  <2>2. [i \in n .. n |-> <<>>] \in Good(n)
    BY <1>1, <2>1
  <2>3. QED BY <2>2
<1>3. ASSUME NEW m \in 1 .. n, Good(m) # {} PROVE Good(m - 1) # {}
  <2>1. PICK g \in Good(m) : TRUE
    BY <1>3
  <2>2. /\ g \in [m .. n -> Text] /\ g[n] = <<>>
        /\ \A i \in m + 1 .. n : g[i - 1] = Cat(s[i], g[i])
    BY <2>1
  <2> DEFINE h == [i \in m - 1 .. n |-> IF i = m - 1 THEN Cat(s[m], g[m]) ELSE g[i]]
  <2>3. Cat(s[m], g[m]) \in Text
    <3>1. s[m] \in Text /\ g[m] \in Text
      BY <1>1, <2>2
    <3>2. QED BY <3>1, CatFacts
  <2>4. h \in [m - 1 .. n -> Text] /\ h[n] = <<>>
    BY <1>1, <2>2, <2>3
  <2>5. ASSUME NEW i \in (m - 1) + 1 .. n PROVE h[i - 1] = Cat(s[i], h[i])
    <3>1. CASE i = m
      <4>1. h[m - 1] = Cat(s[m], g[m]) /\ h[m] = g[m]
        BY <1>1
      <4>2. QED BY <3>1, <4>1
    <3>2. CASE i # m
      <4>1. i \in m + 1 .. n /\ i \in m - 1 .. n /\ i - 1 \in m - 1 .. n /\ i - 1 # m - 1 /\ i # m - 1
        BY <1>1, <3>2
      <4>2. h[i - 1] = g[i - 1] /\ h[i] = g[i]
        BY <4>1
      <4>3. QED BY <2>2, <4>1, <4>2
    <3>3. QED BY <3>1, <3>2
  <2> HIDE DEF h
  <2>6. h \in Good(m - 1)
    BY <2>4, <2>5
  <2>7. QED BY <2>6
<1> HIDE DEF Good
<1>4. 0 \in S
  BY <1>1, <1>2
<1>5. ASSUME NEW k \in 0 .. n - 1, k \in S PROVE k + 1 \in S
  <2>1. n - k \in 1 .. n /\ (n - k) - 1 = n - (k + 1) /\ k + 1 \in Nat
    BY <1>1
  <2>2. Good(n - k) # {}
    BY <1>5
  <2>3. Good((n - k) - 1) # {}
    BY <1>3, <2>1, <2>2
  <2>4. QED BY <2>1, <2>3
<1> HIDE DEF S
<1>6. \A k \in 0 .. n : k \in S
  BY <1>1, <1>4, <1>5, UpTo
<1>7. n \in S
  BY <1>1, <1>6
<1>8. Good(n - n) # {} /\ n - n = 0
  BY <1>1, <1>7 DEF S
<1>9. PICK g \in Good(0) : TRUE
  BY <1>8
<1>10. g \in Rests(s)
  BY <1>9 DEF Rests, Good, n
<1>11. QED BY <1>10

\* The text of a section is that of its lines, one after the other.
LEMMA FlattenRests ==
  ASSUME NEW s \in Seq(Text), NEW g \in Rests(s)
  PROVE  FlattenSeq(s) = g[0]
<1> DEFINE n == Len(s)
<1>1. n \in Nat /\ \A i \in 1 .. n : s[i] \in Text
  BY LenProperties, ElementOfSeq
<1>2. /\ g \in [0 .. n -> Text] /\ g[n] = <<>>
      /\ \A i \in 1 .. n : g[i - 1] = Cat(s[i], g[i])
  BY DEF Rests
<1>3. CASE n = 0
  <2>1. s = <<>>
    BY <1>3, EmptySeq
  <2>2. FlattenSeq(s) = s
    BY <1>3 DEF FlattenSeq
  <2>3. QED BY <1>2, <1>3, <2>1, <2>2
<1>4. CASE n # 0
  <2> DEFINE Is(f) == f = [i \in 1 .. n |-> IF i = 1 THEN s[i] ELSE f[i - 1] \o s[i]]
             F == CHOOSE f : Is(f)
  <2>1. FlattenSeq(s) = F[n]
    BY <1>4 DEF FlattenSeq
  <2>2. \E f : Is(f)
    <3>1. PICK f \in Parts(s, n) : TRUE
      BY <1>1, <1>4, PartsExist
    <3>2. Is(f)
      BY <3>1 DEF Parts, Cat
    <3>3. QED BY <3>2
  <2>3. Is(F)
    BY <2>2
  <2> HIDE DEF F
  <2>4. \A i \in 1 .. n : F[i] = IF i = 1 THEN s[i] ELSE Cat(F[i - 1], s[i])
    BY <2>3 DEF Cat
  <2> DEFINE S == {i \in 1 .. n : F[i] \in Text /\ Cat(F[i], g[i]) = g[0]}
  <2>5. 1 \in S
    <3>1. F[1] = s[1] /\ s[1] \in Text /\ g[1 - 1] = Cat(s[1], g[1]) /\ 1 - 1 = 0 /\ 1 \in 1 .. n
      BY <1>1, <1>2, <1>4, <2>4
    <3>2. QED BY <3>1
  <2>6. ASSUME NEW k \in 1 .. n - 1, k \in S PROVE k + 1 \in S
    <3>1. /\ k + 1 \in 1 .. n /\ k + 1 # 1 /\ (k + 1) - 1 = k
          /\ F[k] \in Text /\ Cat(F[k], g[k]) = g[0] /\ s[k + 1] \in Text /\ g[k + 1] \in Text
      BY <1>1, <1>2, <2>6
    <3>2. F[k + 1] = Cat(F[k], s[k + 1]) /\ g[k] = Cat(s[k + 1], g[k + 1])
      BY <1>2, <2>4, <3>1
    <3>3. F[k + 1] \in Text /\ Cat(F[k + 1], g[k + 1]) = Cat(F[k], Cat(s[k + 1], g[k + 1]))
      <4> DEFINE x == F[k]
                 y == s[k + 1]
                 z == g[k + 1]
      <4>1. x \in Text /\ y \in Text /\ z \in Text /\ F[k + 1] = Cat(x, y)
        BY <3>1, <3>2
      <4> HIDE DEF x, y, z
      <4>2. Cat(x, y) \in Text /\ Cat(Cat(x, y), z) = Cat(x, Cat(y, z))
        BY <4>1, CatFacts
      <4>3. QED BY <4>1, <4>2 DEF x, y, z
    <3>4. QED BY <3>1, <3>2, <3>3
  <2> HIDE DEF S
  <2>7. \A k \in 1 .. n : k \in S
    BY <1>1, <2>5, <2>6, UpTo
  <2>8. F[n] \in Text /\ Cat(F[n], g[n]) = g[0]
    BY <1>1, <1>4, <2>7 DEF S
  <2>9. F[n] \o <<>> = F[n]
    <3>1. <<>> \in Text
      BY PieceTexts DEF Blanks
    <3>2. QED BY <2>8, <3>1, Texts
  <2>10. QED BY <1>2, <2>1, <2>8, <2>9 DEF Cat
<1>5. QED BY <1>3, <1>4

---------------------------------------------------------------------------
(* The tables.                                                             *)

ParamType == {"float", "bool", "evtype", "str", "file", "int", "key"}

\* A parameter with a type, limits an int can be in and a default that
\* is none or is all right.
Fine(p) ==
  /\ p.type \in ParamType
  /\ p.type = "int" => p.lim \subseteq Int32
  /\ p.dflt = Null \/ ValueError(p, p.dflt) = "ok"
  /\ p.type = "key" /\ p.dflt # Null => p.dflt \in Word

WellFormed(table) ==
  /\ Len(table) \in Nat /\ DOMAIN table = 1 .. Len(table)
  /\ \A j \in DOMAIN table : Fine(table[j])
  /\ \A i, j \in DOMAIN table : table[i].name = table[j].name => i = j

\* Numbers, with limits of their own.
LEMMA FineNumber ==
  ASSUME NEW name, NEW lim \in SUBSET Int32, NEW dflt,
         dflt = Null \/ (dflt \in DOMAIN Means["int"] /\ Means["int"][dflt] \in lim)
  PROVE  Fine(Number(name, lim, dflt)) /\ Number(name, lim, dflt).name = name
<1> DEFINE p == Number(name, lim, dflt)
<1>1. p.name = name /\ p.type = "int" /\ p.lim = lim /\ p.dflt = dflt
  BY DEF Number, Param
<1> HIDE DEF p
<1>2. p.dflt # Null => ValueError(p, p.dflt) = "ok"
  BY <1>1 DEF ValueError
<1>3. Fine(p)
  BY <1>1, <1>2 DEF Fine, ParamType
<1>4. QED BY <1>1, <1>3 DEF p

\* The other types have no limits.
LEMMA FineOther ==
  ASSUME NEW name, NEW type \in ParamType \ {"int"}, NEW dflt,
         dflt = Null \/ dflt \in DOMAIN Means[type], type = "key" /\ dflt # Null => dflt \in Word
  PROVE  Fine(Param(name, type, {}, dflt)) /\ Param(name, type, {}, dflt).name = name
<1> DEFINE p == Param(name, type, {}, dflt)
<1>1. p.name = name /\ p.type = type /\ p.dflt = dflt /\ type # "int"
  BY DEF Param
<1> HIDE DEF p
<1>2. p.dflt # Null => ValueError(p, p.dflt) = "ok"
  BY <1>1 DEF ValueError
<1>3. Fine(p)
  BY <1>1, <1>2 DEF Fine
<1>4. QED BY <1>1, <1>3 DEF p

\* The defaults mean something of the right type and range.
LEMMA Defaults ==
  /\ \A x \in {"0", "1", "50", "32767"} : x \in DOMAIN Means["int"] /\ Means["int"][x] \in Int32
  /\ Means["int"]["50"] \in 0 .. 100
  /\ "true" \in DOMAIN Means["bool"] /\ "false" \in DOMAIN Means["bool"]
  /\ NoText \in DOMAIN Means["str"] /\ "stdout" \in DOMAIN Means["file"]
  /\ "NO_KEY" \in DOMAIN Means["key"]
  /\ 0 .. 10 \subseteq Int32 /\ 0 .. 100 \subseteq Int32
<1>1. IntMax \in Nat /\ IntMax >= 32767
  BY IntMaxAssumption, DefaultsAssumption
<1>2. "NO_KEY" \in DOMAIN Means["key"]
  <2>1. PICK p \in Position : KeyNames[p] = "NO_KEY"
    BY DefaultsAssumption
  <2>2. "NO_KEY" \in Word /\ RankAt(p) = Rank["NO_KEY"]
    BY <2>1, DefaultsAssumption DEF RankAt
  <2>3. QED BY <2>2, MeansAssumption
<1>3. \A i \in 0 .. 32767 : i \in Int32
  BY <1>1 DEF Int32
<1>5. Means["int"]["50"] \in 0 .. 100
  BY DefaultsAssumption
<1>6. \A x \in {"0", "1", "50", "32767"} : x \in DOMAIN Means["int"] /\ Means["int"][x] \in Int32
  <2>1. \A x \in {"0", "1", "50", "32767"} : x \in DOMAIN Means["int"]
    BY DefaultsAssumption
  <2>2. /\ Means["int"]["0"] = 0 /\ Means["int"]["1"] = 1
        /\ Means["int"]["50"] = 50 /\ Means["int"]["32767"] = 32767
    BY DefaultsAssumption
  <2>3. /\ Means["int"]["0"] \in Int32 /\ Means["int"]["1"] \in Int32
        /\ Means["int"]["50"] \in Int32 /\ Means["int"]["32767"] \in Int32
    BY <1>3, <2>2
  <2>4. \A x \in {"0", "1", "50", "32767"} : Means["int"][x] \in Int32
    BY <2>3
  <2>5. QED BY <2>1, <2>4
<1>7. 0 .. 10 \subseteq Int32 /\ 0 .. 100 \subseteq Int32
  BY <1>3
<1>8. /\ "true" \in DOMAIN Means["bool"] /\ "false" \in DOMAIN Means["bool"]
      /\ NoText \in DOMAIN Means["str"] /\ "stdout" \in DOMAIN Means["file"]
  BY DefaultsAssumption
<1>9. QED BY <1>2, <1>5, <1>6, <1>7, <1>8

\* Strings.
LEMMA FineStr ==
  ASSUME NEW name, NEW dflt, dflt = Null \/ dflt = NoText
  PROVE  Fine(Str(name, dflt)) /\ Str(name, dflt).name = name
<1>1. "str" \in ParamType \ {"int"} /\ (dflt = Null \/ dflt \in DOMAIN Means["str"])
  BY Defaults DEF ParamType
<1>2. QED BY <1>1, FineOther DEF Str

\* Keys.
LEMMA FineKey ==
  ASSUME NEW name, NEW dflt, dflt = Null \/ dflt = "NO_KEY"
  PROVE  Fine(Key(name, dflt)) /\ Key(name, dflt).name = name
<1>1. "key" \in ParamType \ {"int"} /\ (dflt = Null \/ dflt \in DOMAIN Means["key"])
      /\ (dflt # Null => dflt \in Word)
  BY Defaults, DefaultsAssumption DEF ParamType
<1>2. QED BY <1>1, FineOther DEF Key

\* Switches.
LEMMA FineFlag ==
  ASSUME NEW name, NEW dflt, dflt \in {"true", "false"}
  PROVE  Fine(Flag(name, dflt)) /\ Flag(name, dflt).name = name
<1>1. "bool" \in ParamType \ {"int"} /\ (dflt = Null \/ dflt \in DOMAIN Means["bool"])
  BY Defaults DEF ParamType
<1>2. QED BY <1>1, FineOther DEF Flag

\* Numbers without limits.
LEMMA FineInt ==
  ASSUME NEW name, NEW dflt, dflt = Null \/ dflt \in {"0", "1", "32767"}
  PROVE  Fine(Number(name, Int32, dflt)) /\ Number(name, Int32, dflt).name = name
<1>1. dflt = Null \/ (dflt \in DOMAIN Means["int"] /\ Means["int"][dflt] \in Int32)
  BY Defaults
<1>2. QED BY <1>1, FineNumber

\* Each of the tables of parameters, as the filters of evf_filter.c have them.
LEMMA TableWellFormed ==
  ASSUME NEW f \in DOMAIN Table
  PROVE  WellFormed(Table[f])
<1>1. CASE f = "Dump"
  <2>1. Fine(Str("prefix", NoText)) /\ Str("prefix", NoText).name = "prefix"
    BY FineStr
  <2>2. Fine(Param("file", "file", {}, "stdout")) /\ Param("file", "file", {}, "stdout").name = "file"
    BY FineOther, Defaults DEF ParamType
  <2>3. Table[f] = DumpParams
    BY <1>1 DEF Table
  <2>4. QED BY <2>1, <2>2, <2>3 DEF WellFormed, DumpParams
<1>2. CASE f = "NoRepeat"
  BY <1>2 DEF Table, WellFormed
<1>3. CASE f = "PressureToKey"
  <2>1. Fine(Number("treshold", Int32, Null)) /\ Number("treshold", Int32, Null).name = "treshold"
    BY FineInt
  <2>2. Fine(Key("key", Null)) /\ Key("key", Null).name = "key"
    BY FineKey
  <2>3. Table[f] = PressureToKeyParams
    BY <1>3 DEF Table
  <2>4. QED BY <2>1, <2>2, <2>3 DEF WellFormed, PressureToKeyParams
<1>4. CASE f = "SpeedMod"
  <2>1. Fine(Number("xmod", Int32, "1")) /\ Number("xmod", Int32, "1").name = "xmod"
    BY FineInt
  <2>2. Fine(Number("ymod", Int32, "1")) /\ Number("ymod", Int32, "1").name = "ymod"
    BY FineInt
  <2>3. Table[f] = SpeedModParams
    BY <1>4 DEF Table
  <2>4. QED BY <2>1, <2>2, <2>3 DEF WellFormed, SpeedModParams
<1>5. CASE f = "Barrier"
  <2>1. Fine(Number("history", 0 .. 100, "50")) /\ Number("history", 0 .. 100, "50").name = "history"
    BY FineNumber, Defaults
  <2>2. Table[f] = BarrierParams
    BY <1>5 DEF Table
  <2>3. QED BY <2>1, <2>2 DEF WellFormed, BarrierParams
<1>6. CASE f = "WeightedAverageAbs"
  <2>1. Fine(Number("samples", 0 .. 10, Null)) /\ Number("samples", 0 .. 10, Null).name = "samples"
    BY FineNumber, Defaults
  <2>2. Table[f] = WeightedAverageAbsParams
    BY <1>6 DEF Table
  <2>3. QED BY <2>1, <2>2 DEF WellFormed, WeightedAverageAbsParams
<1>7. CASE f = "ScaleAbs"
  <2>1. Fine(Number("maxx", Int32, Null)) /\ Number("maxx", Int32, Null).name = "maxx"
    BY FineInt
  <2>2. Fine(Number("maxy", Int32, Null)) /\ Number("maxy", Int32, Null).name = "maxy"
    BY FineInt
  <2>3. Fine(Number("maxp", Int32, "32767")) /\ Number("maxp", Int32, "32767").name = "maxp"
    BY FineInt
  <2>4. Fine(Number("minx", Int32, "0")) /\ Number("minx", Int32, "0").name = "minx"
    BY FineInt
  <2>5. Fine(Number("miny", Int32, "0")) /\ Number("miny", Int32, "0").name = "miny"
    BY FineInt
  <2>6. Fine(Number("minp", Int32, "32767")) /\ Number("minp", Int32, "32767").name = "minp"
    BY FineInt
  <2>7. Table[f] = ScaleAbsParams
    BY <1>7 DEF Table
  <2>8. QED BY <2>1, <2>2, <2>3, <2>4, <2>5, <2>6, <2>7 DEF WellFormed, ScaleAbsParams
<1>8. CASE f = "Mirror"
  <2>1. Fine(Flag("MirrorRelX", "false")) /\ Flag("MirrorRelX", "false").name = "MirrorRelX"
    BY FineFlag
  <2>2. Fine(Flag("MirrorRelY", "false")) /\ Flag("MirrorRelY", "false").name = "MirrorRelY"
    BY FineFlag
  <2>3. Fine(Flag("MirrorAbsX", "false")) /\ Flag("MirrorAbsX", "false").name = "MirrorAbsX"
    BY FineFlag
  <2>4. Fine(Flag("MirrorAbsY", "false")) /\ Flag("MirrorAbsY", "false").name = "MirrorAbsY"
    BY FineFlag
  <2>5. Table[f] = MirrorParams
    BY <1>8 DEF Table
  <2>6. QED BY <2>1, <2>2, <2>3, <2>4, <2>5 DEF WellFormed, MirrorParams
<1>9. CASE f = "Rotate"
  <2>1. Fine(Flag("RotateAbs", "true")) /\ Flag("RotateAbs", "true").name = "RotateAbs"
    BY FineFlag
  <2>2. Fine(Flag("RotateRel", "true")) /\ Flag("RotateRel", "true").name = "RotateRel"
    BY FineFlag
  <2>3. Table[f] = RotateParams
    BY <1>9 DEF Table
  <2>4. QED BY <2>1, <2>2, <2>3 DEF WellFormed, RotateParams
<1>10. CASE f = "Abs2Rel"
  BY <1>10 DEF Table, WellFormed
<1>11. CASE f = "Btn2Rel"
  <2>1. Fine(Key("keyup", "NO_KEY")) /\ Key("keyup", "NO_KEY").name = "keyup"
    BY FineKey
  <2>2. Fine(Key("keydown", "NO_KEY")) /\ Key("keydown", "NO_KEY").name = "keydown"
    BY FineKey
  <2>3. Fine(Key("keyleft", "NO_KEY")) /\ Key("keyleft", "NO_KEY").name = "keyleft"
    BY FineKey
  <2>4. Fine(Key("keyright", "NO_KEY")) /\ Key("keyright", "NO_KEY").name = "keyright"
    BY FineKey
  <2>5. Fine(Key("leftbtn", "NO_KEY")) /\ Key("leftbtn", "NO_KEY").name = "leftbtn"
    BY FineKey
  <2>6. Fine(Key("middlebtn", "NO_KEY")) /\ Key("middlebtn", "NO_KEY").name = "middlebtn"
    BY FineKey
  <2>7. Fine(Key("rightbtn", "NO_KEY")) /\ Key("rightbtn", "NO_KEY").name = "rightbtn"
    BY FineKey
  <2>8. Table[f] = Btn2RelParams
    BY <1>11 DEF Table
  <2>9. QED BY <2>1, <2>2, <2>3, <2>4, <2>5, <2>6, <2>7, <2>8 DEF WellFormed, Btn2RelParams
<1>12. CASE f = "Kalman"
  <2>1. Fine(Param("kx", "float", {}, Null)) /\ Param("kx", "float", {}, Null).name = "kx"
    BY FineOther, Defaults DEF ParamType
  <2>2. Fine(Param("ky", "float", {}, Null)) /\ Param("ky", "float", {}, Null).name = "ky"
    BY FineOther, Defaults DEF ParamType
  <2>3. Table[f] = KalmanParams
    BY <1>12 DEF Table
  <2>4. QED BY <2>1, <2>2, <2>3 DEF WellFormed, KalmanParams
<1>13. CASE f = "Rel2Scroll"
  <2>1. Fine(Key("TriggerButton", Null)) /\ Key("TriggerButton", Null).name = "TriggerButton"
    BY FineKey
  <2>2. Fine(Number("Xmod", Int32, "1")) /\ Number("Xmod", Int32, "1").name = "Xmod"
    BY FineInt
  <2>3. Fine(Number("Ymod", Int32, "1")) /\ Number("Ymod", Int32, "1").name = "Ymod"
    BY FineInt
  <2>4. Table[f] = Rel2ScrollParams
    BY <1>13 DEF Table
  <2>5. QED BY <2>1, <2>2, <2>3, <2>4 DEF WellFormed, Rel2ScrollParams
<1>14. CASE f = "CopyToHandle"
  <2>1. Fine(Str("HandleName", Null)) /\ Str("HandleName", Null).name = "HandleName"
    BY FineStr
  <2>2. Table[f] = HandleParams
    BY <1>14 DEF Table
  <2>3. QED BY <2>1, <2>2 DEF WellFormed, HandleParams
<1>15. CASE f = "GetFromHandle"
  <2>1. Fine(Str("HandleName", Null)) /\ Str("HandleName", Null).name = "HandleName"
    BY FineStr
  <2>2. Table[f] = HandleParams
    BY <1>15 DEF Table
  <2>3. QED BY <2>1, <2>2 DEF WellFormed, HandleParams
<1>16. CASE f = "KeyLock"
  <2>1. Fine(Key("Key", Null)) /\ Key("Key", Null).name = "Key"
    BY FineKey
  <2>2. Table[f] = KeyLockParams
    BY <1>16 DEF Table
  <2>3. QED BY <2>1, <2>2 DEF WellFormed, KeyLockParams
<1>17. CASE f = "FilterToHandle"
  <2>1. Fine(Str("HandleName", Null)) /\ Str("HandleName", Null).name = "HandleName"
    BY FineStr
  <2>2. Fine(Param("EventType", "evtype", {}, Null)) /\ Param("EventType", "evtype", {}, Null).name = "EventType"
    BY FineOther, Defaults DEF ParamType
  <2>3. Fine(Number("EventCode", Int32, Null)) /\ Number("EventCode", Int32, Null).name = "EventCode"
    BY FineInt
  <2>4. Table[f] = FilterToHandleParams
    BY <1>17 DEF Table
  <2>5. QED BY <2>1, <2>2, <2>3, <2>4 DEF WellFormed, FilterToHandleParams
<1>18. CASE f = "KeySubstitute"
  <2>1. Fine(Key("KeyFrom", Null)) /\ Key("KeyFrom", Null).name = "KeyFrom"
    BY FineKey
  <2>2. Fine(Key("KeyTo", Null)) /\ Key("KeyTo", Null).name = "KeyTo"
    BY FineKey
  <2>3. Table[f] = KeySubstituteParams
    BY <1>18 DEF Table
  <2>4. QED BY <2>1, <2>2, <2>3 DEF WellFormed, KeySubstituteParams
<1>19. QED BY <1>1, <1>2, <1>3, <1>4, <1>5, <1>6, <1>7, <1>8, <1>9, <1>10, <1>11, <1>12, <1>13, <1>14, <1>15, <1>16, <1>17, <1>18 DEF Table

---------------------------------------------------------------------------
(* What is wrong with a text, if anything.                                 *)

\* The first line that is wrong decides.
LEMMA ErrorAt ==
  ASSUME NEW table, NEW text, NEW n \in Nat, DOMAIN text = 1 .. n, NEW i \in 1 .. n,
         \A k \in 1 .. i - 1 : Known(table, text[k].name) /\ ~Repeated(text, k),
         ~Known(table, text[i].name) \/ Repeated(text, i)
  PROVE  ParseError(table, text) = IF Known(table, text[i].name) THEN "eredef" ELSE "epname"
<1> DEFINE bad == {k \in DOMAIN text : ~Known(table, text[k].name) \/ Repeated(text, k)}
<1>1. bad \in SUBSET Nat /\ i \in bad
  OBVIOUS
<1>2. \A j \in bad : i <= j
  OBVIOUS
<1>3. Least(bad) = i
  BY <1>1, <1>2, LeastIs
<1>4. bad # {}
  BY <1>1
<1> HIDE DEF bad
<1>5. ParseError(table, text) = IF bad # {}
        THEN IF Known(table, text[Least(bad)].name) THEN "eredef" ELSE "epname"
        ELSE IF text # <<>> /\ Last(text).blank THEN "epname" ELSE "ok"
  BY DEF ParseError, bad
<1>6. QED BY <1>3, <1>4, <1>5

\* No line is wrong.
LEMMA ErrorEnd ==
  ASSUME NEW table, NEW text, NEW n \in Nat, DOMAIN text = 1 .. n,
         \A k \in 1 .. n : Known(table, text[k].name) /\ ~Repeated(text, k)
  PROVE  ParseError(table, text) = IF text # <<>> /\ Last(text).blank THEN "epname" ELSE "ok"
<1> DEFINE bad == {k \in DOMAIN text : ~Known(table, text[k].name) \/ Repeated(text, k)}
<1>1. bad = {}
  OBVIOUS
<1> HIDE DEF bad
<1>5. ParseError(table, text) = IF bad # {}
        THEN IF Known(table, text[Least(bad)].name) THEN "eredef" ELSE "epname"
        ELSE IF text # <<>> /\ Last(text).blank THEN "epname" ELSE "ok"
  BY DEF ParseError, bad
<1>6. QED BY <1>1, <1>5

\* Which line gives the value of a parameter.
LEMMA GivenIs ==
  ASSUME NEW text, NEW n \in Nat, DOMAIN text = 1 .. n, NEW p,
         \A k \in 1 .. n : ~Repeated(text, k)
  PROVE  /\ \A k \in 1 .. n : text[k].name = p.name => Given(text, p) = text[k].value
         /\ (\A k \in 1 .. n : text[k].name # p.name) => Given(text, p) = p.dflt
<1> DEFINE set == {k \in DOMAIN text : text[k].name = p.name}
<1>0. Given(text, p) = IF set = {} THEN p.dflt ELSE text[Least(set)].value
  BY DEF Given
<1>1. ASSUME NEW k \in 1 .. n, text[k].name = p.name PROVE Given(text, p) = text[k].value
  <2>1. set \in SUBSET Nat /\ k \in set
    BY <1>1
  <2>2. ASSUME NEW j \in set PROVE k <= j
    <3>1. j \in 1 .. n /\ text[j].name = p.name
      OBVIOUS
    <3>2. ~Repeated(text, k)
      OBVIOUS
    <3>3. ASSUME j < k PROVE FALSE
      <4>1. j \in 1 .. k - 1
        BY <3>1, <3>3
      <4>2. Repeated(text, k)
        BY <1>1, <3>1, <4>1 DEF Repeated
      <4>3. QED BY <3>2, <4>2
    <3>4. QED BY <3>1, <3>3
  <2>3. Least(set) = k
    BY <2>1, <2>2, LeastIs
  <2>4. set # {}
    BY <2>1
  <2> HIDE DEF set
  <2>5. QED BY <1>0, <2>3, <2>4
<1>2. ASSUME \A k \in 1 .. n : text[k].name # p.name PROVE Given(text, p) = p.dflt
  <2>1. set = {}
    BY <1>2
  <2> HIDE DEF set
  <2>2. QED BY <1>0, <2>1
<1>3. QED BY <1>1, <1>2

\* The first value that is wrong.
LEMMA FirstWrong ==
  ASSUME NEW table, NEW text, NEW m \in Nat, DOMAIN table = 1 .. m, NEW j \in 1 .. m + 1,
         ParseError(table, text) = "ok",
         \A k \in 1 .. j - 1 : ValueError(table[k], Given(text, table[k])) = "ok",
         j <= m => ValueError(table[j], Given(text, table[j])) # "ok"
  PROVE  ParamError(table, text) = IF j <= m THEN ValueError(table[j], Given(text, table[j])) ELSE "ok"
<1> DEFINE V(k) == ValueError(table[k], Given(text, table[k]))
           wrong == {k \in DOMAIN table : V(k) # "ok"}
<1>1. ParamError(table, text) = IF ParseError(table, text) # "ok" THEN ParseError(table, text)
                               ELSE IF wrong = {} THEN "ok" ELSE V(Least(wrong))
  BY DEF ParamError
<1>2. \A k \in 1 .. j - 1 : V(k) = "ok"
  OBVIOUS
<1>3. j <= m => V(j) # "ok"
  OBVIOUS
<1> HIDE DEF V
<1>4. CASE j <= m
  <2>1. wrong \in SUBSET Nat /\ j \in wrong
    BY <1>3, <1>4
  <2>2. \A k \in wrong : j <= k
    BY <1>2
  <2>3. Least(wrong) = j /\ wrong # {}
    BY <2>1, <2>2, LeastIs
  <2> HIDE DEF wrong
  <2>4. ParamError(table, text) = V(j)
    BY <1>1, <2>3
  <2>5. QED BY <1>4, <2>4 DEF V
<1>5. CASE ~(j <= m)
  <2>1. wrong = {}
    BY <1>2, <1>5
  <2> HIDE DEF wrong
  <2>2. QED BY <1>1, <1>5, <2>1
<1>6. QED BY <1>4, <1>5

---------------------------------------------------------------------------

\* The lines of a section, and what they say.
LEMMA LinesFacts ==
  ASSUME NEW r \in Requests
  PROVE  /\ Len(r.lines) \in Nat /\ DOMAIN r.lines = 1 .. Len(r.lines)
         /\ DOMAIN Said(r.lines) = 1 .. Len(r.lines) /\ Len(Said(r.lines)) = Len(r.lines)
         /\ Said(r.lines) = <<>> <=> Len(r.lines) = 0
         /\ \A i \in 1 .. Len(r.lines) :
              /\ r.lines[i] \in Line /\ WellWritten(r.lines[i])
              /\ Said(r.lines)[i] = Says(r.lines[i])
              /\ Said(r.lines)[i].name = Spell(r.lines[i].name)
              /\ Said(r.lines)[i].value = Spell(r.lines[i].value)
              /\ Said(r.lines)[i].value # Null
         /\ WellFormed(Table[r.filter])
<1> DEFINE ls == r.lines
           n == Len(ls)
<1>1. r.filter \in DOMAIN Table /\ ls \in Seq(Line)
      /\ \A i \in DOMAIN ls : WellWritten(ls[i]) /\ Spell(ls[i].value) # Null
  BY RequestsAssumption
<1> HIDE DEF ls
<1>2. n \in Nat /\ DOMAIN ls = 1 .. n /\ \A i \in 1 .. n : ls[i] \in Line
  BY <1>1, LenProperties, ElementOfSeq
<1>3. Said(ls) = [i \in 1 .. n |-> Says(ls[i])]
  BY <1>2 DEF Said
<1> HIDE DEF n
<1> DEFINE S == {Says(ls[i]) : i \in 1 .. n}
           t == Said(ls)
<1>3a. t \in [1 .. n -> S]
  BY <1>3
<1> HIDE DEF S
<1>3b. t \in Seq(S)
  <2> HIDE DEF t
  <2>1. QED BY <1>2, <1>3a
<1>4. Len(t) = n
  <2>1. DOMAIN t = 1 .. n
    BY <1>3a
  <2> HIDE DEF t
  <2>2. QED BY <1>2, <1>3b, <2>1, LenProperties
<1>5. t = <<>> <=> n = 0
  <2> HIDE DEF t
  <2>1. QED BY <1>4, <1>3b, EmptySeq
<1>6. \A i \in 1 .. n : Says(ls[i]).name = Spell(ls[i].name) /\ Says(ls[i]).value = Spell(ls[i].value)
  BY DEF Says
<1>7. WellFormed(Table[r.filter])
  BY <1>1, TableWellFormed
<1>8. QED BY <1>1, <1>2, <1>3, <1>4, <1>5, <1>6, <1>7 DEF n, ls

LineTexts(ls) == [i \in DOMAIN ls |-> Append(Pieces(ls[i]), Blank)]

\* The texts of the lines, as get_filter_params hands them on.
LEMMA LineTextFacts ==
  ASSUME NEW r \in Requests
  PROVE  /\ LineTexts(r.lines) \in Seq(Text) /\ Len(LineTexts(r.lines)) = Len(r.lines)
         /\ \A i \in 1 .. Len(r.lines) : LineTexts(r.lines)[i] = Append(Pieces(r.lines[i]), Blank)
<1> DEFINE ls == r.lines
           n == Len(ls)
<1>1. /\ n \in Nat /\ DOMAIN ls = 1 .. n
      /\ \A i \in 1 .. n : ls[i] \in Line /\ WellWritten(ls[i])
  BY LinesFacts
<1> HIDE DEF ls, n
<1>2. ASSUME NEW i \in 1 .. n PROVE Append(Pieces(ls[i]), Blank) \in Text
  <2>1. <<>> \in Text
    BY PieceTexts DEF Blanks
  <2>2. QED BY <1>1, <2>1, LineSplit
<1>3. LineTexts(ls) = [i \in 1 .. n |-> Append(Pieces(ls[i]), Blank)]
  BY <1>1 DEF LineTexts
<1>4. LineTexts(ls) \in [1 .. n -> Text]
  BY <1>2, <1>3
<1>5. LineTexts(ls) \in Seq(Text)
  BY <1>1, <1>4
<1>6. Len(LineTexts(ls)) = n
  BY <1>1, <1>3, <1>5, LenProperties
<1>7. QED BY <1>3, <1>5, <1>6 DEF ls, n

---------------------------------------------------------------------------
(* The first loop.                                                         *)

\* The first i lines have been read: all their names are known and new, and
\* their values are there, no others.
ReadTo(table, text, vals, i) ==
  /\ \A k \in 1 .. i : Known(table, text[k].name) /\ ~Repeated(text, k)
  /\ \A j \in DOMAIN table, k \in 1 .. i :
       text[k].name = table[j].name => vals[j] = text[k].value
  /\ \A j \in DOMAIN table :
       (\A k \in 1 .. i : text[k].name # table[j].name) => vals[j] = Null

\* What is left then: the blanks behind the last value, and the other lines.
LeftAt(r, c, i) ==
  \E g \in Rests(LineTexts(r.lines)), b \in Blanks :
    /\ c = b \o g[i]
    /\ IF i = 0 THEN b = <<>> ELSE (b # <<>> <=> Said(r.lines)[i].blank)

\* Before the first turn, the whole text is left.
LEMMA LeftAtStart ==
  ASSUME NEW r \in Requests
  PROVE  LeftAt(r, CfgOf(r.lines), 0) /\ CfgOf(r.lines) \in Text
<1>1. LineTexts(r.lines) \in Seq(Text)
  BY LineTextFacts
<1>2. PICK g \in Rests(LineTexts(r.lines)) : TRUE
  BY <1>1, RestsExist
<1>3. FlattenSeq(LineTexts(r.lines)) = g[0]
  BY <1>1, FlattenRests
<1>4. CfgOf(r.lines) = g[0]
  BY <1>3 DEF CfgOf, LineTexts
<1>5. g[0] \in Text
  <2>1. Len(LineTexts(r.lines)) \in Nat
    BY <1>1, LenProperties
  <2>2. QED BY <2>1 DEF Rests
<1>6. <<>> \in Blanks /\ <<>> \in Text /\ <<>> \o g[0] = g[0]
  BY <1>5, PieceTexts, Texts DEF Blanks
<1>7. LeftAt(r, CfgOf(r.lines), 0)
  BY <1>2, <1>4, <1>6 DEF LeftAt
<1>8. QED BY <1>4, <1>5, <1>7

\* White space alone has no name.
LEMMA BlankName ==
  ASSUME NEW b \in Blanks
  PROVE  GetName[b].word = Spell(<<>>)
<1>1. b \in Text /\ <<>> \in Text /\ b \o <<>> = b
  BY PieceTexts, Texts DEF Blanks
<1>2. EatSpaces[b] = <<>>
  <2>1. EatSpaces[b \o <<>>] = <<>>
    BY <1>1, EatBlanks
  <2>2. QED BY <1>1, <2>1
<1> DEFINE ends == {Blank, Equals}
           e == <<>>
           S == {i \in 1 .. Len(e) + 1 : i > Len(e) \/ e[i] \in ends}
<1>3. Len(e) = 0 /\ S = {1}
  BY EmptySeq
<1>4. Least(S) = 1
  BY <1>3, LeastIs
<1> HIDE DEF S
<1>5. Cut(ends)[e].word = Spell(SubSeq(e, 1, Least(S) - 1))
  BY <1>1 DEF Cut, S
<1>6. SubSeq(e, 1, 1 - 1) = <<>>
  BY SubSeqEmpty, <1>1 DEF Text
<1>7. Cut(ends)[e].word = Spell(<<>>)
  BY <1>4, <1>5, <1>6
<1> DEFINE cut == Cut(ends)[EatSpaces[b]]
<1>8. GetName[b] = [word |-> cut.word, rest |-> EatEquals(EatSpaces[cut.rest])]
  BY <1>1 DEF GetName
<1> HIDE DEF e
<1>9. cut.word = Spell(<<>>)
  BY <1>2, <1>7 DEF e
<1>10. QED BY <1>8, <1>9

\* One turn of the first loop takes one line, if there is one left.
LEMMA LeftTurn ==
  ASSUME NEW r \in Requests, NEW n, n = Len(r.lines), NEW i \in 0 .. n, NEW c, LeftAt(r, c, i)
  PROVE  /\ i < n => /\ c # <<>>
                     /\ GetName[c].word = Said(r.lines)[i + 1].name
                     /\ GetValue[GetName[c].rest].word = Said(r.lines)[i + 1].value
                     /\ GetValue[GetName[c].rest].rest \in Text
                     /\ LeftAt(r, GetValue[GetName[c].rest].rest, i + 1)
         /\ i = n => /\ c = <<>> <=> ~(Said(r.lines) # <<>> /\ Last(Said(r.lines)).blank)
                     /\ GetName[c].word = Spell(<<>>)
<1> DEFINE ls == r.lines
           s == LineTexts(ls)
           text == Said(ls)
<1>1. /\ n \in Nat /\ s \in Seq(Text) /\ Len(s) = n
      /\ \A k \in 1 .. n : s[k] = Append(Pieces(ls[k]), Blank)
  BY LinesFacts, LineTextFacts
<1>2. /\ Len(text) = n /\ DOMAIN text = 1 .. n /\ (text = <<>> <=> n = 0)
      /\ \A k \in 1 .. n : /\ ls[k] \in Line /\ WellWritten(ls[k]) /\ text[k] = Says(ls[k])
                           /\ text[k].name = Spell(ls[k].name) /\ text[k].value = Spell(ls[k].value)
  BY LinesFacts
<1>3. PICK g \in Rests(s), b \in Blanks :
        /\ c = b \o g[i]
        /\ IF i = 0 THEN b = <<>> ELSE (b # <<>> <=> text[i].blank)
  BY DEF LeftAt
<1>4. /\ g[n] = <<>> /\ \A k \in 0 .. n : g[k] \in Text
      /\ \A k \in 1 .. n : g[k - 1] = Cat(s[k], g[k])
  BY <1>1 DEF Rests
<1> HIDE DEF s
<1>5. ASSUME i < n
      PROVE  /\ c # <<>> /\ GetName[c].word = text[i + 1].name
             /\ GetValue[GetName[c].rest].word = text[i + 1].value
             /\ GetValue[GetName[c].rest].rest \in Text
             /\ LeftAt(r, GetValue[GetName[c].rest].rest, i + 1)
  <2> DEFINE l == ls[i + 1]
             w == g[i + 1]
             a == Append(Pieces(l), Blank)
  <2>1. i + 1 \in 1 .. n /\ (i + 1) - 1 = i /\ i + 1 # 0
    BY <1>1, <1>5
  <2>2. l \in Line /\ WellWritten(l) /\ text[i + 1] = Says(l)
        /\ text[i + 1].name = Spell(l.name) /\ text[i + 1].value = Spell(l.value)
    BY <1>2, <2>1
  <2>3. w \in Text
    BY <1>4, <2>1
  <2>4. g[i] = a \o w
    <3>1. g[i] = Cat(s[i + 1], g[i + 1]) /\ s[i + 1] = a
      BY <1>1, <1>4, <2>1
    <3>2. QED BY <3>1 DEF Cat
  <2> HIDE DEF l, w, a
  <2>5. /\ GetName[c].word = Spell(l.name)
        /\ \E d \in Blanks :
             /\ GetValue[GetName[c].rest] = [word |-> Spell(l.value), rest |-> d \o w]
             /\ d # <<>> <=> Says(l).blank
    <3>1. l \in Line /\ WellWritten(l) /\ b \in Blanks /\ w \in Text /\ c = b \o (Append(Pieces(l), Blank) \o w)
      BY <1>3, <2>2, <2>3, <2>4 DEF a
    <3>2. /\ GetName[b \o (Append(Pieces(l), Blank) \o w)].word = Spell(l.name)
          /\ \E d \in Blanks :
               /\ GetValue[GetName[b \o (Append(Pieces(l), Blank) \o w)].rest]
                    = [word |-> Spell(l.value), rest |-> d \o w]
               /\ d # <<>> <=> Says(l).blank
      <4>1. l \in Line /\ WellWritten(l) /\ b \in Blanks /\ w \in Text
        BY <3>1
      <4>2. QED BY <4>1, LineTaken, Zenon
    <3> DEFINE t == b \o (Append(Pieces(l), Blank) \o w)
    <3>3. c = t
      BY <3>1
    <3>4. /\ GetName[t].word = Spell(l.name)
          /\ \E d \in Blanks :
               /\ GetValue[GetName[t].rest] = [word |-> Spell(l.value), rest |-> d \o w]
               /\ d # <<>> <=> Says(l).blank
      BY <3>2
    <3> HIDE DEF t
    <3>5. QED BY <3>3, <3>4
  <2>6. PICK d \in Blanks :
             /\ GetValue[GetName[c].rest] = [word |-> Spell(l.value), rest |-> d \o w]
             /\ d # <<>> <=> Says(l).blank
    BY <2>5
  <2>7. d \in Text /\ b \in Text
    BY DEF Blanks
  <2>8. GetValue[GetName[c].rest].rest = d \o w /\ GetValue[GetName[c].rest].word = Spell(l.value)
    BY <2>6
  <2>9. d \o w \in Text
    BY <2>3, <2>7, Texts
  <2>10. LeftAt(r, d \o w, i + 1)
    <3>1. b \in Blanks /\ d # <<>> <=> text[i + 1].blank
      BY <2>2, <2>6
    <3>2. /\ d \o w = d \o g[i + 1]
          /\ IF i + 1 = 0 THEN d = <<>> ELSE (d # <<>> <=> text[i + 1].blank)
      BY <2>1, <3>1 DEF w
    <3>3. QED BY <3>2 DEF LeftAt, s
  <2>11. c # <<>>
    <3>1. l.name \in Text /\ l.name # <<>> /\ l.separator \o ValueText(l, w) \in Text
      <4>1. l.name \in Text /\ l.separator \in Text /\ ValueText(l, w) \in Text
        BY <2>2, <2>3, LineFacts
      <4>2. QED BY <2>2, <4>1, Texts DEF WellWritten
    <3>2. a \o w = l.name \o (l.separator \o ValueText(l, w))
      BY <2>2, <2>3, LineSplit DEF a
    <3> DEFINE x == a \o w
    <3>3. x \in Text /\ x # <<>>
      BY <3>1, <3>2, Texts
    <3>4. c = b \o x
      BY <1>3, <2>4
    <3> HIDE DEF x
    <3>5. QED BY <2>7, <3>3, <3>4, ConcatEqualIffEmpty DEF Text
  <2>12. QED BY <2>2, <2>5, <2>8, <2>9, <2>10, <2>11
<1>6. ASSUME i = n
      PROVE  /\ c = <<>> <=> ~(text # <<>> /\ Last(text).blank)
             /\ GetName[c].word = Spell(<<>>)
  <2>1. b \in Text /\ c = b
    <3>1. b \in Text
      BY DEF Blanks
    <3>2. QED BY <1>3, <1>4, <1>6, <3>1, Texts
  <2>2. GetName[c].word = Spell(<<>>)
    BY <2>1, BlankName
  <2>3. n # 0 => Last(text) = text[n]
    BY <1>2 DEF Last
  <2>4. c = <<>> <=> ~(text # <<>> /\ Last(text).blank)
    BY <1>2, <1>3, <1>6, <2>1, <2>3
  <2>5. QED BY <2>2, <2>4
<1>7. QED BY <1>5, <1>6

\* What the first loop does with the line it has taken.
LEMMA ReadTurn ==
  ASSUME NEW r \in Requests, NEW table, table = Table[r.filter], NEW text, text = Said(r.lines),
         NEW n, n = Len(r.lines), NEW i \in 0 .. n - 1,
         NEW vals, DOMAIN vals = DOMAIN table, ReadTo(table, text, vals, i)
  PROVE  /\ ~Known(table, text[i + 1].name) => ParseError(table, text) = "epname"
         /\ \A j \in DOMAIN table : table[j].name = text[i + 1].name =>
              /\ vals[j] # Null => ParseError(table, text) = "eredef"
              /\ vals[j] = Null => ReadTo(table, text, [vals EXCEPT ![j] = text[i + 1].value], i + 1)
<1>1. /\ n \in Nat /\ DOMAIN text = 1 .. n /\ \A k \in 1 .. n : text[k].value # Null
      /\ WellFormed(table)
  BY LinesFacts
<1>2. /\ \A j, k \in DOMAIN table : table[j].name = table[k].name => j = k
  BY <1>1 DEF WellFormed
<1>3. /\ \A k \in 1 .. i : Known(table, text[k].name) /\ ~Repeated(text, k)
      /\ \A j \in DOMAIN table, k \in 1 .. i :
           text[k].name = table[j].name => vals[j] = text[k].value
      /\ \A j \in DOMAIN table :
           (\A k \in 1 .. i : text[k].name # table[j].name) => vals[j] = Null
  BY DEF ReadTo
<1>4. i + 1 \in 1 .. n /\ (i + 1) - 1 = i /\ i \in Nat
  BY <1>1
<1>5. ASSUME ~Known(table, text[i + 1].name) PROVE ParseError(table, text) = "epname"
  BY <1>1, <1>3, <1>4, <1>5, ErrorAt
<1>6. ASSUME NEW j \in DOMAIN table, table[j].name = text[i + 1].name, vals[j] # Null
      PROVE  ParseError(table, text) = "eredef"
  <2>1. PICK k \in 1 .. i : text[k].name = table[j].name
    BY <1>3, <1>6
  <2>2. Repeated(text, i + 1) /\ Known(table, text[i + 1].name)
    BY <1>4, <1>6, <2>1 DEF Repeated, Known
  <2>3. QED BY <1>1, <1>3, <1>4, <2>2, ErrorAt
<1>7. ASSUME NEW j \in DOMAIN table, table[j].name = text[i + 1].name, vals[j] = Null
      PROVE  ReadTo(table, text, [vals EXCEPT ![j] = text[i + 1].value], i + 1)
  <2> DEFINE new == [vals EXCEPT ![j] = text[i + 1].value]
  <2>0. \A m \in DOMAIN table : new[m] = IF m = j THEN text[i + 1].value ELSE vals[m]
    OBVIOUS
  <2> HIDE DEF new
  <2>1. \A k \in 1 .. i : text[k].name # text[i + 1].name
    <3>1. ASSUME NEW k \in 1 .. i, text[k].name = text[i + 1].name PROVE FALSE
      <4>1. k \in 1 .. n /\ vals[j] = text[k].value
        BY <1>1, <1>3, <1>7, <3>1
      <4>2. QED BY <1>1, <1>7, <4>1
    <3>2. QED BY <3>1
  <2>2. ~Repeated(text, i + 1) /\ Known(table, text[i + 1].name)
    BY <1>4, <1>7, <2>1 DEF Repeated, Known
  <2>3. \A k \in 1 .. i + 1 : Known(table, text[k].name) /\ ~Repeated(text, k)
    <3>1. \A k \in 1 .. i + 1 : k \in 1 .. i \/ k = i + 1
      BY <1>4
    <3>2. QED BY <1>3, <2>2, <3>1
  <2>4. ASSUME NEW m \in DOMAIN table, NEW k \in 1 .. i + 1, text[k].name = table[m].name
        PROVE  new[m] = text[k].value
    <3>1. CASE k = i + 1
      <4>1. m = j
        BY <1>2, <1>7, <2>4, <3>1
      <4>2. QED BY <2>0, <3>1, <4>1
    <3>2. CASE k # i + 1
      <4>1. k \in 1 .. i
        BY <1>4, <3>2
      <4>2. m # j
        BY <1>7, <2>1, <2>4, <4>1
      <4>3. QED BY <1>3, <2>0, <2>4, <4>1, <4>2
    <3>3. QED BY <3>1, <3>2
  <2>5. ASSUME NEW m \in DOMAIN table, \A k \in 1 .. i + 1 : text[k].name # table[m].name
        PROVE  new[m] = Null
    <3>1. m # j
      <4>1. i + 1 \in 1 .. i + 1
        BY <1>4
      <4>2. QED BY <1>7, <2>5, <4>1
    <3>2. \A k \in 1 .. i : text[k].name # table[m].name
      <4>1. \A k \in 1 .. i : k \in 1 .. i + 1
        BY <1>4
      <4>2. QED BY <2>5, <4>1
    <3>3. QED BY <1>3, <2>0, <3>1, <3>2
  <2>6. ReadTo(table, text, new, i + 1)
    BY <2>3, <2>4, <2>5 DEF ReadTo
  <2>7. QED BY <2>6 DEF new
<1>8. QED BY <1>5, <1>6, <1>7

\* The whole text has been read.
LEMMA ReadAll ==
  ASSUME NEW r \in Requests, NEW table, table = Table[r.filter], NEW text, text = Said(r.lines),
         NEW n, n = Len(r.lines), NEW vals, ReadTo(table, text, vals, n)
  PROVE  /\ ParseError(table, text) = IF text # <<>> /\ Last(text).blank THEN "epname" ELSE "ok"
         /\ \A j \in DOMAIN table :
              Given(text, table[j]) = IF vals[j] = Null THEN table[j].dflt ELSE vals[j]
<1>1. n \in Nat /\ DOMAIN text = 1 .. n /\ \A k \in 1 .. n : text[k].value # Null
  BY LinesFacts
<1>2. /\ \A k \in 1 .. n : Known(table, text[k].name) /\ ~Repeated(text, k)
      /\ \A j \in DOMAIN table, k \in 1 .. n :
           text[k].name = table[j].name => vals[j] = text[k].value
      /\ \A j \in DOMAIN table :
           (\A k \in 1 .. n : text[k].name # table[j].name) => vals[j] = Null
  BY DEF ReadTo
<1>3. ParseError(table, text) = IF text # <<>> /\ Last(text).blank THEN "epname" ELSE "ok"
  BY <1>1, <1>2, ErrorEnd
<1>4. ASSUME NEW j \in DOMAIN table
      PROVE  Given(text, table[j]) = IF vals[j] = Null THEN table[j].dflt ELSE vals[j]
  <2> DEFINE p == table[j]
  <2>1. /\ \A k \in 1 .. n : text[k].name = p.name => Given(text, p) = text[k].value
        /\ (\A k \in 1 .. n : text[k].name # p.name) => Given(text, p) = p.dflt
    BY <1>1, <1>2, GivenIs
  <2>2. CASE \A k \in 1 .. n : text[k].name # p.name
    BY <1>2, <2>1, <2>2
  <2>3. CASE ~(\A k \in 1 .. n : text[k].name # p.name)
    <3>1. PICK k \in 1 .. n : text[k].name = p.name
      BY <2>3
    <3>2. vals[j] = text[k].value /\ text[k].value # Null /\ Given(text, p) = text[k].value
      BY <1>1, <1>2, <2>1, <3>1
    <3>3. QED BY <3>2
  <2>4. QED BY <2>2, <2>3
<1>5. QED BY <1>3, <1>4

\* A sequence that is one element longer.
LEMMA Longer ==
  ASSUME NEW m \in Nat, NEW F, NEW s, s = [j \in 1 .. m |-> F[j]]
  PROVE  Len(s) = m /\ Append(s, F[m + 1]) = [j \in 1 .. m + 1 |-> F[j]]
<1> DEFINE S == {F[j] : j \in 1 .. m + 1}
<1>1. s \in [1 .. m -> S] /\ F[m + 1] \in S /\ DOMAIN s = 1 .. m
  OBVIOUS
<1> HIDE DEF S
<1>2. s \in Seq(S)
  BY <1>1
<1>3. Len(s) = m
  BY <1>1, <1>2, LenProperties
<1> DEFINE a == Append(s, F[m + 1])
<1>4. /\ a \in Seq(S) /\ Len(a) = m + 1
      /\ \A i \in 1 .. m : a[i] = s[i]
      /\ a[m + 1] = F[m + 1]
  BY <1>1, <1>2, <1>3, AppendProperties
<1> HIDE DEF a
<1>5. a = [j \in 1 .. m + 1 |-> a[j]]
  BY <1>4
<1>6. ASSUME NEW j \in 1 .. m + 1 PROVE a[j] = F[j]
  <2>1. CASE j = m + 1
    BY <1>4, <2>1
  <2>2. CASE j # m + 1
    <3>1. j \in 1 .. m
      BY <2>2
    <3>2. QED BY <1>4, <3>1
  <2>3. QED BY <2>1, <2>2
<1>7. a = [j \in 1 .. m + 1 |-> F[j]]
  BY <1>5, <1>6
<1>8. QED BY <1>3, <1>7 DEF a

---------------------------------------------------------------------------
(* The invariant.                                                          *)

Parsed ==
  phase = "parse" =>
    /\ stored = <<>> /\ search = "idle"
    /\ \E i \in 0 .. Len(request.lines) :
         LeftAt(request, cfg, i) /\ ReadTo(Params, Said(request.lines), values, i)

\* Of the values that the text gives the first m have been stored.
StoredTo(m) ==
  /\ stored = [j \in 1 .. m |-> Values(Params, Said(request.lines))[j]]
  /\ \A j \in 1 .. m : ValueError(Params[j], Given(Said(request.lines), Params[j])) = "ok"

Loaded ==
  phase = "load" =>
    /\ ParseError(Params, Said(request.lines)) = "ok"
    /\ \A j \in DOMAIN Params : Given(Said(request.lines), Params[j]) = ValueAt(j)
    /\ \E m \in 0 .. Len(Params) : StoredTo(m)

Searching ==
  search # "idle" =>
    /\ phase = "load" /\ At <= Len(Params)
    /\ Params[At].type = "key" /\ ValueAt(At) # Null /\ key = ValueAt(At)

IInv == TypeOK /\ SearchInv /\ LoadsAsSpecified /\ Parsed /\ Loaded /\ Searching

\* What is looked up in the table of keys is a word.
LEMMA KeyGiven ==
  ASSUME NEW r \in Requests, NEW table, table = Table[r.filter], NEW text, text = Said(r.lines),
         NEW j \in DOMAIN table, table[j].type = "key", Given(text, table[j]) # Null
  PROVE  Given(text, table[j]) \in Word
<1> DEFINE p == table[j]
           n == Len(r.lines)
           set == {i \in DOMAIN text : text[i].name = p.name}
<1>1. Given(text, p) = IF set = {} THEN p.dflt ELSE text[Least(set)].value
  BY DEF Given
<1>2. /\ n \in Nat /\ DOMAIN text = 1 .. n /\ DOMAIN r.lines = 1 .. n
      /\ \A i \in 1 .. n : text[i].name = Spell(r.lines[i].name) /\ text[i].value = Spell(r.lines[i].value)
      /\ WellFormed(table)
  BY LinesFacts
<1>3. CASE set = {}
  <2>1. Given(text, p) = p.dflt
    BY <1>1, <1>3
  <2>2. Fine(p)
    BY <1>2 DEF WellFormed
  <2>3. QED BY <2>1, <2>2 DEF Fine
<1>4. CASE set # {}
  <2>1. set \in SUBSET Nat
    BY <1>2
  <2>2. Least(set) \in set
    BY <1>4, <2>1, LeastFacts
  <2>3. PICK i \in DOMAIN text : text[i].name = p.name /\ i = Least(set)
    BY <2>2
  <2> HIDE DEF set
  <2>4. Given(text, p) = text[i].value
    BY <1>1, <1>4, <2>3
  <2>5. /\ i \in DOMAIN r.lines /\ p.name = Spell(r.lines[i].name)
        /\ text[i].value = Spell(r.lines[i].value)
    BY <1>2, <2>3
  <2>6. Spell(r.lines[i].value) \in Word
    BY <2>5, RequestsAssumption
  <2>7. QED BY <2>4, <2>5, <2>6
<1>5. QED BY <1>3, <1>4

\* What holds of the state whatever the phase is.
LEMMA Facts ==
  ASSUME IInv
  PROVE  /\ request \in Requests /\ Params = Table[request.filter]
         /\ Len(Params) \in Nat /\ DOMAIN Params = 1 .. Len(Params)
         /\ \A j \in DOMAIN Params : Fine(Params[j])
         /\ \A i, j \in DOMAIN Params : Params[i].name = Params[j].name => i = j
         /\ At \in 1 .. Len(Params) + 1 /\ cfg \in Text /\ DOMAIN values = DOMAIN Params
         /\ SearchTypeOK /\ SearchInv
         /\ \A i \in DOMAIN stored : stored[i] \in Range(Means[Params[i].type])
<1>1. TypeOK /\ SearchInv
  BY DEF IInv
<1>2. WellFormed(Params)
  BY <1>1, LinesFacts DEF TypeOK, Params
<1>3. QED BY <1>1, <1>2 DEF TypeOK, WellFormed, Params

\* A load that has failed, with the error that the text has.
LEMMA FailStep ==
  ASSUME IInv, NEW e \in ParameterError \cup {"errno"}, Fail(e), SearchInv', search' = "idle",
         Findable(Said(request.lines)) =>
           /\ e \in ParameterError => ParamError(Params, Said(request.lines)) = e
           /\ e = "errno" => ParamError(Params, Said(request.lines)) \in {"ok", "errno"},
         e \in {"einval", "erange"} /\ Findable(Said(request.lines)) => values[At] # Null
  PROVE  IInv'
<1>1. /\ err' = e /\ data' = Null /\ phase' = "idle"
      /\ request' = request /\ cfg' = cfg /\ values' = values /\ stored' = stored
  BY DEF Fail
<1>2. Params' = Params /\ At' = At
  BY <1>1 DEF Params, At
<1>3. TypeOK'
  BY <1>1, <1>2, Facts DEF TypeOK, SearchInv
<1>4. Findable(Said(request.lines))' <=> Findable(Said(request.lines))
  BY <1>1, <1>2 DEF Findable, Misplaced, RankAt, OutOfOrder
<1>5. ParamError(Params, Said(request.lines))' = ParamError(Params, Said(request.lines))
  BY <1>1, <1>2
<1>6. "errno" \notin ParameterError
  BY DEF ParameterError
<1>7. LoadsAsSpecified'
  BY <1>1, <1>2, <1>4, <1>5, <1>6 DEF LoadsAsSpecified
<1>8. Parsed' /\ Loaded' /\ Searching'
  BY <1>1 DEF Parsed, Loaded, Searching
<1>9. QED BY <1>3, <1>7, <1>8 DEF IInv

---------------------------------------------------------------------------
(* The steps of the first loop.                                            *)

\* Nothing has been loaded yet.
LEMMA InitIInv == Init => IInv
<1> SUFFICES ASSUME Init PROVE IInv
  OBVIOUS
<1>1. /\ request \in Requests /\ phase = "idle" /\ cfg = <<>> /\ stored = <<>>
      /\ values = [i \in DOMAIN Params |-> Null] /\ err = "ok" /\ data = Null
      /\ key \in Word /\ left = 0 /\ right = KeyCount /\ search = "idle"
  BY DEF Init, SearchInit
<1>2. SearchInv
  BY <1>1, TableAssumption DEF SearchInv, SearchTypeOK
<1>3. WellFormed(Params)
  BY <1>1, LinesFacts DEF Params
<1>4. cfg \in Text /\ Len(stored) = 0 /\ DOMAIN stored = {}
  BY <1>1, PieceTexts, EmptySeq DEF Blanks
<1>5. TypeOK
  BY <1>1, <1>2, <1>3, <1>4 DEF TypeOK, SearchInv, WellFormed, At
<1>6. LoadsAsSpecified
  <2>1. "ok" \notin ParameterError
    BY DEF ParameterError
  <2>2. QED BY <1>1, <2>1 DEF LoadsAsSpecified
<1>7. Parsed /\ Loaded /\ Searching
  BY <1>1 DEF Parsed, Loaded, Searching
<1>8. QED BY <1>2, <1>5, <1>6, <1>7 DEF IInv

\* Steps that leave the search alone.
LEMMA SearchStays ==
  ASSUME SearchInv, UNCHANGED searchVars
  PROVE  SearchInv'
BY DEF searchVars, SearchInv, SearchTypeOK, Middle, RankAt, Proper, OutOfOrder

\* A creat function begins.
LEMMA CreatStep ==
  ASSUME IInv, Creat
  PROVE  IInv'
<1>1. /\ phase = "idle" /\ phase' = "parse" /\ cfg' = CfgOf(request.lines) /\ stored' = <<>>
      /\ values' = [i \in DOMAIN Params |-> Null] /\ err' = "ok" /\ data' = Null
      /\ request' = request /\ UNCHANGED searchVars
  BY DEF Creat
<1>2. /\ request \in Requests /\ Params' = Params /\ SearchInv' /\ search' = search /\ Len(Params) \in Nat
  BY <1>1, Facts, SearchStays DEF Params, searchVars
<1>3. search = "idle"
  BY <1>1 DEF IInv, Searching
<1>4. cfg' \in Text /\ Len(stored') = 0 /\ DOMAIN stored' = {}
  BY <1>1, <1>2, LeftAtStart, EmptySeq
<1>5. TypeOK'
  BY <1>1, <1>2, <1>4 DEF TypeOK, SearchInv, At
<1>6. LoadsAsSpecified' /\ Loaded'
  BY <1>1 DEF LoadsAsSpecified, Loaded
<1>7. Searching'
  BY <1>2, <1>3 DEF Searching
<1>8. Parsed'
  <2>1. LeftAt(request, cfg', 0)
    BY <1>1, <1>2, LeftAtStart
  <2>2. ReadTo(Params, Said(request.lines), values', 0)
    <3>1. \A k \in 1 .. 0 : FALSE
      OBVIOUS
    <3>2. \A j \in DOMAIN Params : values'[j] = Null
      BY <1>1
    <3>3. QED BY <3>1, <3>2 DEF ReadTo
  <2>3. 0 \in 0 .. Len(request.lines)
    BY <1>2, LinesFacts
  <2>4. QED BY <1>1, <1>2, <1>3, <2>1, <2>2, <2>3 DEF Parsed
<1>9. QED BY <1>2, <1>5, <1>6, <1>7, <1>8 DEF IInv

\* A turn of the first loop: the next line is taken, or the blanks at the end.
LEMMA ParseStep ==
  ASSUME IInv, ParseParameter
  PROVE  IInv'
<1> DEFINE text == Said(request.lines)
           n == Len(request.lines)
           name == GetName[cfg].word
           value == GetValue[GetName[cfg].rest]
<1>1. /\ phase = "parse" /\ cfg # <<>> /\ UNCHANGED searchVars
      /\ \/ Named(name) = {} /\ Fail("epname")
         \/ \E i \in Named(name) :
              \/ values[i] # Null /\ Fail("eredef")
              \/ /\ values[i] = Null
                 /\ values' = [values EXCEPT ![i] = value.word]
                 /\ cfg' = value.rest
                 /\ UNCHANGED <<request, phase, stored, err, data>>
  BY DEF ParseParameter
<1>2. PICK i \in 0 .. n : LeftAt(request, cfg, i) /\ ReadTo(Params, text, values, i)
  BY <1>1 DEF IInv, Parsed
<1>3. /\ request \in Requests /\ Params = Table[request.filter] /\ DOMAIN values = DOMAIN Params
      /\ Len(Params) \in Nat /\ SearchInv
      /\ n \in Nat /\ (text = <<>> <=> n = 0)
  BY Facts, LinesFacts
<1>4. stored = <<>> /\ search = "idle" /\ search' = "idle" /\ SearchInv'
  BY <1>1, <1>3, SearchStays DEF IInv, Parsed, searchVars
<1>5. \A j : j \in Named(name) <=> j \in DOMAIN Params /\ Params[j].name = name
  BY DEF Named
<1>6. Known(Params, name) <=> Named(name) # {}
  BY <1>5 DEF Known
<1>7. "epname" \in ParameterError /\ "eredef" \in ParameterError
  BY DEF ParameterError
<1>8. ParseError(Params, text) # "ok" => ParamError(Params, text) = ParseError(Params, text)
  BY DEF ParamError
<1> HIDE DEF text, n, name, value
<1>9. CASE i < n
  <2>1. i \in 0 .. n - 1
    BY <1>3, <1>9
  <2>2. name = text[i + 1].name /\ value.word = text[i + 1].value
        /\ value.rest \in Text /\ LeftAt(request, value.rest, i + 1)
    BY <1>2, <1>3, <1>9, LeftTurn DEF text, n, name, value
  <2>3. /\ ~Known(Params, text[i + 1].name) => ParseError(Params, text) = "epname"
        /\ \A j \in DOMAIN Params : Params[j].name = text[i + 1].name =>
             /\ values[j] # Null => ParseError(Params, text) = "eredef"
             /\ values[j] = Null => ReadTo(Params, text, [values EXCEPT ![j] = text[i + 1].value], i + 1)
    BY <1>2, <1>3, <2>1, ReadTurn DEF text, n
  <2>4. CASE Named(name) = {} /\ Fail("epname")
    <3>1. ParamError(Params, text) = "epname"
      BY <1>6, <1>8, <2>2, <2>3, <2>4
    <3>2. QED BY <1>4, <1>7, <2>4, <3>1, FailStep DEF text
  <2>5. ASSUME NEW j \in Named(name), values[j] # Null, Fail("eredef") PROVE IInv'
    <3>1. ParamError(Params, text) = "eredef"
      BY <1>5, <1>8, <2>2, <2>3, <2>5
    <3>2. QED BY <1>4, <1>7, <2>5, <3>1, FailStep DEF text
  <2>6. ASSUME NEW j \in Named(name), values[j] = Null, values' = [values EXCEPT ![j] = value.word],
               cfg' = value.rest, UNCHANGED <<request, phase, stored, err, data>>
        PROVE  IInv'
    <3>1. ReadTo(Params, text, values', i + 1)
      BY <1>5, <2>2, <2>3, <2>6
    <3>2. i + 1 \in 0 .. n /\ LeftAt(request, cfg', i + 1)
      BY <1>3, <2>1, <2>2, <2>6
    <3>3. request' = request /\ Params' = Params /\ phase' = "parse" /\ stored' = <<>>
      BY <1>1, <1>4, <2>6 DEF Params
    <3>4. Parsed'
      BY <1>4, <3>1, <3>2, <3>3 DEF Parsed, text, n
    <3>5. LoadsAsSpecified' /\ Loaded' /\ Searching'
      BY <1>4, <3>3 DEF LoadsAsSpecified, Loaded, Searching
    <3>6. TypeOK'
      <4>1. DOMAIN values' = DOMAIN Params /\ err' = err /\ cfg' \in Text /\ At' = At
        BY <1>3, <2>2, <2>6 DEF At
      <4>2. TypeOK
        BY DEF IInv
      <4>3. stored' = stored
        BY <2>6
      <4>4. QED BY <1>4, <3>3, <4>1, <4>2, <4>3 DEF TypeOK, SearchInv
    <3>7. QED BY <1>4, <3>4, <3>5, <3>6 DEF IInv
  <2>7. QED BY <1>1, <2>4, <2>5, <2>6
<1>10. CASE i = n
  <2>1. name = Spell(<<>>) /\ text # <<>> /\ Last(text).blank
    BY <1>1, <1>2, <1>3, <1>10, LeftTurn DEF text, n, name
  <2>2. ParseError(Params, text) = "epname"
    BY <1>2, <1>3, <1>10, <2>1, ReadAll DEF text, n
  <2>3. Named(name) = {}
    <3>1. request.filter \in DOMAIN Table
      BY <1>3, RequestsAssumption
    <3>2. ~Known(Params, name)
      BY <1>3, <2>1, <3>1, SpellAssumption
    <3>3. QED BY <1>6, <3>2
  <2>4. Fail("epname")
    BY <1>1, <2>3
  <2>5. ParamError(Params, text) = "epname"
    BY <1>8, <2>2
  <2>6. QED BY <1>4, <1>7, <2>4, <2>5, FailStep DEF text
<1>11. QED BY <1>3, <1>9, <1>10

\* The text has been read to its end: all values are known.
LEMMA ParseEndsStep ==
  ASSUME IInv, ParseEnds
  PROVE  IInv'
<1> DEFINE text == Said(request.lines)
           n == Len(request.lines)
<1>1. /\ phase = "parse" /\ cfg = <<>> /\ phase' = "load"
      /\ UNCHANGED <<request, cfg, values, stored, err, data, searchVars>>
  BY DEF ParseEnds
<1>2. PICK i \in 0 .. n : LeftAt(request, cfg, i) /\ ReadTo(Params, text, values, i)
  BY <1>1 DEF IInv, Parsed
<1>3. /\ request \in Requests /\ Params = Table[request.filter]
      /\ Len(Params) \in Nat /\ SearchInv /\ n \in Nat
  BY Facts, LinesFacts
<1>4. stored = <<>> /\ search = "idle" /\ search' = "idle" /\ SearchInv'
  BY <1>1, <1>3, SearchStays DEF IInv, Parsed, searchVars
<1> HIDE DEF text, n
<1>5. i = n /\ ~(text # <<>> /\ Last(text).blank)
  <2>1. ~(i < n)
    BY <1>1, <1>2, <1>3, LeftTurn DEF text, n
  <2>2. i = n
    BY <1>3, <2>1
  <2>3. QED BY <1>1, <1>2, <1>3, <2>2, LeftTurn DEF text, n
<1>6. /\ ParseError(Params, text) = "ok"
      /\ \A j \in DOMAIN Params :
           Given(text, Params[j]) = IF values[j] = Null THEN Params[j].dflt ELSE values[j]
  <2>1. ReadTo(Params, text, values, n)
    BY <1>2, <1>5
  <2>2. /\ ParseError(Params, text) = IF text # <<>> /\ Last(text).blank THEN "epname" ELSE "ok"
        /\ \A j \in DOMAIN Params :
             Given(text, Params[j]) = IF values[j] = Null THEN Params[j].dflt ELSE values[j]
    <3>1. ParseError(Params, text) = IF text # <<>> /\ Last(text).blank THEN "epname" ELSE "ok"
      BY <1>3, <2>1, ReadAll DEF text, n
    <3>2. ASSUME NEW j \in DOMAIN Params
          PROVE  Given(text, Params[j]) = IF values[j] = Null THEN Params[j].dflt ELSE values[j]
      BY <1>3, <2>1, ReadAll DEF text, n
    <3>3. QED BY <3>1, <3>2
  <2>3. QED BY <1>5, <2>2
<1>7. \A j \in DOMAIN Params : Given(text, Params[j]) = ValueAt(j)
  BY <1>6 DEF ValueAt
<1>8. StoredTo(0)
  <2>1. \A j \in 1 .. 0 : FALSE
    OBVIOUS
  <2>2. stored = [j \in 1 .. 0 |-> Values(Params, text)[j]]
    BY <1>4
  <2>3. QED BY <2>1, <2>2 DEF StoredTo, text
<1>9. Loaded'
  <2>1. 0 \in 0 .. Len(Params)
    BY <1>3
  <2>2. StoredTo(0)' /\ Params' = Params /\ \A j : ValueAt(j)' = ValueAt(j)
    BY <1>1, <1>8 DEF StoredTo, Params, ValueAt
  <2>3. QED BY <1>1, <1>6, <1>7, <2>1, <2>2 DEF Loaded, text
<1>10. Parsed' /\ LoadsAsSpecified' /\ Searching'
  BY <1>1, <1>4 DEF Parsed, LoadsAsSpecified, Searching
<1>11. TypeOK'
  <2>1. TypeOK
    BY DEF IInv
  <2>2. Params' = Params /\ At' = At
    BY <1>1 DEF Params, At
  <2>3. QED BY <1>1, <1>4, <2>1, <2>2 DEF TypeOK, SearchInv
<1>12. QED BY <1>4, <1>9, <1>10, <1>11 DEF IInv

---------------------------------------------------------------------------
(* The steps of the second loop.                                           *)

\* How far the second loop has come.
LEMMA LoadFacts ==
  ASSUME IInv, phase = "load"
  PROVE  LET text == Said(request.lines)
         IN  /\ At - 1 \in 0 .. Len(Params) /\ StoredTo(At - 1) /\ Len(stored) = At - 1
             /\ ParseError(Params, text) = "ok"
             /\ \A j \in DOMAIN Params : Given(text, Params[j]) = ValueAt(j)
             /\ At <= Len(Params) =>
                  /\ At \in DOMAIN Params
                  /\ ValueError(Params[At], ValueAt(At)) # "ok" =>
                       ParamError(Params, text) = ValueError(Params[At], ValueAt(At))
             /\ At = Len(Params) + 1 =>
                  ParamError(Params, text) = "ok" /\ stored = Values(Params, text)
<1> DEFINE text == Said(request.lines)
           L == Len(Params)
           V == Values(Params, text)
<1>1. /\ L \in Nat /\ DOMAIN Params = 1 .. L /\ At \in 1 .. L + 1
  BY Facts
<1>2. /\ ParseError(Params, text) = "ok"
      /\ \A j \in DOMAIN Params : Given(text, Params[j]) = ValueAt(j)
  BY DEF IInv, Loaded
<1>3. PICK m \in 0 .. L : StoredTo(m)
  BY DEF IInv, Loaded
<1>4. stored = [j \in 1 .. m |-> V[j]]
  BY <1>3 DEF StoredTo
<1>5. m \in Nat
  BY <1>1
<1> HIDE DEF V
<1>6. Len(stored) = m
  BY <1>4, <1>5, Longer
<1>7. m = At - 1 /\ m + 1 = At
  BY <1>5, <1>6 DEF At
<1>8. StoredTo(At - 1) /\ At - 1 \in 0 .. L /\ Len(stored) = At - 1
  BY <1>3, <1>6, <1>7
<1>9. \A k \in 1 .. At - 1 : ValueError(Params[k], Given(text, Params[k])) = "ok"
  BY <1>8 DEF StoredTo
<1> HIDE DEF text, L
<1>10. ASSUME At <= L
       PROVE  /\ At \in DOMAIN Params
              /\ ValueError(Params[At], ValueAt(At)) # "ok" =>
                   ParamError(Params, text) = ValueError(Params[At], ValueAt(At))
  <2>1. At \in DOMAIN Params
    BY <1>1, <1>10
  <2>2. ASSUME ValueError(Params[At], ValueAt(At)) # "ok"
        PROVE  ParamError(Params, text) = ValueError(Params[At], ValueAt(At))
    <3>1. Given(text, Params[At]) = ValueAt(At)
      BY <1>2, <2>1
    <3> DEFINE a == At
    <3>2. a \in 1 .. L + 1 /\ ValueError(Params[a], Given(text, Params[a])) # "ok" /\ a <= L
          /\ \A k \in 1 .. a - 1 : ValueError(Params[k], Given(text, Params[k])) = "ok"
      BY <1>1, <1>9, <1>10, <2>2, <3>1
    <3> HIDE DEF a
    <3>3. ParamError(Params, text) = ValueError(Params[a], Given(text, Params[a]))
      BY <1>1, <1>2, <3>2, FirstWrong
    <3>4. QED BY <3>1, <3>3 DEF a
  <2>3. QED BY <2>1, <2>2
<1>11. ASSUME At = L + 1 PROVE ParamError(Params, text) = "ok" /\ stored = Values(Params, text)
  <2> DEFINE a == At
  <2>1. /\ a \in 1 .. L + 1 /\ ~(a <= L)
        /\ \A k \in 1 .. a - 1 : ValueError(Params[k], Given(text, Params[k])) = "ok"
    BY <1>1, <1>9, <1>11
  <2> HIDE DEF a
  <2>2. ParamError(Params, text) = "ok"
    BY <1>1, <1>2, <2>1, FirstWrong
  <2>3. stored = [j \in DOMAIN Params |-> V[j]]
    <3>1. m = L
      BY <1>1, <1>5, <1>7, <1>11
    <3>2. QED BY <1>1, <1>4, <3>1
  <2>4. V = [j \in DOMAIN Params |-> V[j]]
    BY DEF V, Values
  <2>5. QED BY <2>2, <2>3, <2>4 DEF V, text
<1>12. QED BY <1>2, <1>8, <1>10, <1>11 DEF text, L

\* The defaults are all right.
LEMMA DefaultsRight ==
  ASSUME IInv, NEW j \in DOMAIN Params, values[j] = Null, ValueAt(j) # Null
  PROVE  ValueError(Params[j], ValueAt(j)) = "ok"
<1>1. Fine(Params[j]) /\ ValueAt(j) = Params[j].dflt
  BY Facts DEF ValueAt
<1>2. QED BY <1>1 DEF Fine

\* The verdicts of ValueError, one after the other.
LEMMA Verdicts ==
  ASSUME NEW p, NEW v, v # Null
  PROVE  /\ v \notin DOMAIN Means[p.type] =>
              ValueError(p, v) = IF p.type = "file" THEN "errno" ELSE "einval"
         /\ v \in DOMAIN Means[p.type] /\ p.type = "int" /\ Means["int"][v] \notin p.lim =>
              ValueError(p, v) = "erange"
         /\ v \in DOMAIN Means[p.type] /\ (p.type = "int" => Means["int"][v] \in p.lim) =>
              ValueError(p, v) = "ok"
BY DEF ValueError

\* One more value has been stored.
LEMMA StoreStep ==
  ASSUME IInv, phase = "load", At <= Len(Params), ValueAt(At) # Null,
         ValueError(Params[At], ValueAt(At)) = "ok",
         NEW x, x = Means[Params[At].type][ValueAt(At)], Store(x), SearchInv', search' = "idle"
  PROVE  IInv'
<1> DEFINE text == Said(request.lines)
           V == Values(Params, text)
           m == At - 1
<1>1. /\ stored' = Append(stored, x)
      /\ UNCHANGED <<request, phase, cfg, values, err, data>>
  BY DEF Store
<1>2. /\ At - 1 \in 0 .. Len(Params) /\ StoredTo(At - 1) /\ Len(stored) = At - 1
      /\ ParseError(Params, text) = "ok"
      /\ \A j \in DOMAIN Params : Given(text, Params[j]) = ValueAt(j)
      /\ At \in DOMAIN Params
  BY LoadFacts
<1>3. /\ Len(Params) \in Nat /\ DOMAIN Params = 1 .. Len(Params) /\ At \in 1 .. Len(Params) + 1
      /\ \A i \in DOMAIN stored : stored[i] \in Range(Means[Params[i].type])
  BY Facts
<1>4. m \in Nat /\ m + 1 = At /\ m + 1 \in 0 .. Len(Params)
  BY <1>3
<1>5. stored = [j \in 1 .. m |-> V[j]]
  BY <1>2 DEF StoredTo
<1>6. x = V[m + 1]
  <2>1. V[At] = Means[Params[At].type][Given(text, Params[At])]
    BY <1>2 DEF Values
  <2>2. QED BY <1>2, <1>4, <2>1
<1> HIDE DEF V, m, text
<1>7. Len(stored) = m /\ stored' = [j \in 1 .. m + 1 |-> V[j]]
  BY <1>1, <1>4, <1>5, <1>6, Longer
<1>8. Len(stored') = m + 1
  <2>1. m + 1 \in Nat
    BY <1>4
  <2>2. QED BY <1>7, <2>1, Longer
<1>9. Params' = Params /\ At' = At + 1 /\ \A j : ValueAt(j)' = ValueAt(j)
  <2>1. At' = (m + 1) + 1
    BY <1>8 DEF At
  <2>2. QED BY <1>1, <1>4, <2>1 DEF Params, ValueAt
<1>10. PICK k \in 0 .. Len(Params) : k = m + 1
  BY <1>4
<1>11. Loaded'
  <2>1. \A j \in 1 .. m : ValueError(Params[j], Given(text, Params[j])) = "ok"
    BY <1>2 DEF StoredTo, text, m
  <2>2. ValueError(Params[m + 1], Given(text, Params[m + 1])) = "ok"
    BY <1>2, <1>4
  <2>3. ASSUME NEW j \in 1 .. k
        PROVE  ValueError(Params[j], Given(text, Params[j])) = "ok"
    <3>1. j \in 1 .. m \/ j = m + 1
      BY <1>4, <1>10
    <3>2. QED BY <2>1, <2>2, <3>1
  <2>4. stored' = [j \in 1 .. k |-> Values(Params, text)[j]]
    BY <1>7, <1>10 DEF V
  <2>5. request' = request /\ Said(request.lines)' = text
    BY <1>1 DEF text
  <2>6. StoredTo(k)'
    BY <1>9, <2>3, <2>4, <2>5 DEF StoredTo
  <2>7. QED BY <1>1, <1>2, <1>9, <2>5, <2>6 DEF Loaded
<1>12. x \in Range(Means[Params[At].type])
  <2>1. ValueAt(At) \in DOMAIN Means[Params[At].type]
    BY DEF ValueError
  <2>2. QED BY <2>1 DEF Range
<1>13. TypeOK'
  <2>1. ASSUME NEW i \in DOMAIN stored' PROVE stored'[i] \in Range(Means[Params[i].type])
    <3>1. i \in 1 .. m + 1 /\ stored'[i] = V[i]
      BY <1>7
    <3>2. CASE i = m + 1
      BY <1>4, <1>6, <1>12, <3>1, <3>2
    <3>3. CASE i # m + 1
      <4>1. i \in 1 .. m
        BY <1>4, <3>1, <3>3
      <4>2. i \in DOMAIN stored /\ stored[i] = V[i]
        BY <1>5, <4>1
      <4>3. QED BY <1>3, <3>1, <4>2
    <3>4. QED BY <3>2, <3>3
  <2>2. At' \in 1 .. Len(Params) + 1
    BY <1>3, <1>9
  <2>3. TypeOK
    BY DEF IInv
  <2>4. QED BY <1>1, <1>9, <2>1, <2>2, <2>3 DEF TypeOK, SearchInv
<1>14. LoadsAsSpecified' /\ Parsed' /\ Searching'
  BY <1>1 DEF LoadsAsSpecified, Parsed, Searching
<1>15. QED BY <1>11, <1>13, <1>14 DEF IInv

\* While a parameter of another type is loaded, no key is searched.
LEMMA NoSearch ==
  ASSUME IInv, UNCHANGED searchVars,
         ~(phase = "load" /\ At <= Len(Params) /\ Params[At].type = "key" /\ ValueAt(At) # Null)
  PROVE  search = "idle" /\ search' = "idle" /\ SearchInv'
<1>1. SearchInv /\ Searching
  BY DEF IInv
<1>2. SearchInv'
  BY <1>1, SearchStays
<1>3. search = "idle"
  BY <1>1 DEF Searching
<1>4. QED BY <1>2, <1>3 DEF searchVars

\* A mandatory parameter that was not set.
LEMMA MissingStep ==
  ASSUME IInv, Missing
  PROVE  IInv'
<1>1. /\ phase = "load" /\ At <= Len(Params) /\ ValueAt(At) = Null
      /\ Fail("emissing") /\ UNCHANGED searchVars
  BY DEF Missing
<1>2. search' = "idle" /\ SearchInv'
  BY <1>1, NoSearch
<1>3. ParamError(Params, Said(request.lines)) = "emissing"
  <2>1. ValueError(Params[At], ValueAt(At)) = "emissing"
    BY <1>1 DEF ValueError
  <2>2. QED BY <1>1, <2>1, LoadFacts
<1>4. "emissing" \in ParameterError
  BY DEF ParameterError
<1>5. QED BY <1>1, <1>2, <1>3, <1>4, FailStep

\* A value that is converted at once.
LEMMA LoadValueStep ==
  ASSUME IInv, NEW t \in {"float", "bool", "evtype", "str", "file"}, LoadValue(t)
  PROVE  IInv'
<1> DEFINE v == ValueAt(At)
           p == Params[At]
<1>1. /\ phase = "load" /\ At <= Len(Params) /\ p.type = t /\ v # Null /\ UNCHANGED searchVars
      /\ \/ v \in DOMAIN Means[t] /\ Store(Means[t][v])
         \/ v \notin DOMAIN Means[t] /\ Fail(IF t = "file" THEN "errno" ELSE "einval")
  BY DEF LoadValue, Loading
<1>2. t # "int" /\ t # "key"
  OBVIOUS
<1>3. search' = "idle" /\ SearchInv'
  BY <1>1, <1>2, NoSearch
<1>4. At \in DOMAIN Params
  BY <1>1, LoadFacts
<1>5. CASE v \in DOMAIN Means[t] /\ Store(Means[t][v])
  <2>1. ValueError(p, v) = "ok"
    BY <1>1, <1>2, <1>5, Verdicts
  <2>2. QED BY <1>1, <1>3, <1>5, <2>1, StoreStep
<1>6. CASE v \notin DOMAIN Means[t] /\ Fail(IF t = "file" THEN "errno" ELSE "einval")
  <2> DEFINE e == IF t = "file" THEN "errno" ELSE "einval"
  <2>1. ValueError(p, v) = e
    BY <1>1, <1>6, Verdicts
  <2>2. e # "ok" /\ e \in ParameterError \cup {"errno"}
    BY DEF ParameterError
  <2>3. ParamError(Params, Said(request.lines)) = e
    BY <1>1, <2>1, <2>2, LoadFacts
  <2>4. values[At] # Null
    BY <1>1, <1>4, <2>1, <2>2, DefaultsRight
  <2>5. Fail(e)
    BY <1>6
  <2> HIDE DEF e
  <2>6. QED BY <1>3, <2>2, <2>3, <2>4, <2>5, FailStep
<1>7. QED BY <1>1, <1>5, <1>6

\* A number: the range of an int is no limit of its own, since the limits are in it.
LEMMA LoadIntStep ==
  ASSUME IInv, LoadInt
  PROVE  IInv'
<1> DEFINE v == ValueAt(At)
           p == Params[At]
           i == Means["int"][v]
<1>1. /\ phase = "load" /\ At <= Len(Params) /\ p.type = "int" /\ v # Null /\ UNCHANGED searchVars
      /\ \/ v \notin DOMAIN Means["int"] /\ Fail("einval")
         \/ /\ v \in DOMAIN Means["int"]
            /\ \/ i \notin Int32 /\ Fail("erange")
               \/ i \in Int32 /\ i \notin p.lim /\ Fail("erange")
               \/ i \in Int32 /\ i \in p.lim /\ Store(i)
  BY DEF LoadInt, Loading, InLimits
<1>2. search' = "idle" /\ SearchInv'
  BY <1>1, NoSearch
<1>3. At \in DOMAIN Params
  BY <1>1, LoadFacts
<1>4. p.lim \subseteq Int32
  BY <1>1, <1>3, Facts DEF Fine
<1>5. ASSUME NEW e \in {"einval", "erange"}, ValueError(p, v) = e, Fail(e) PROVE IInv'
  <2>1. e # "ok" /\ e \in ParameterError
    BY DEF ParameterError
  <2>2. ParamError(Params, Said(request.lines)) = e
    BY <1>1, <1>5, <2>1, LoadFacts
  <2>3. values[At] # Null
    BY <1>1, <1>3, <1>5, <2>1, DefaultsRight
  <2>4. QED BY <1>2, <1>5, <2>1, <2>2, <2>3, FailStep DEF ParameterError
<1> HIDE DEF v, p, i
<1>6. CASE v \notin DOMAIN Means["int"] /\ Fail("einval")
  <2>1. ValueError(p, v) = "einval"
    BY <1>1, <1>6, Verdicts
  <2>2. QED BY <1>5, <1>6, <2>1
<1>7. CASE v \in DOMAIN Means["int"] /\ i \notin p.lim /\ Fail("erange")
  <2>1. ValueError(p, v) = "erange"
    BY <1>1, <1>7, Verdicts DEF i
  <2>2. QED BY <1>5, <1>7, <2>1
<1>8. CASE v \in DOMAIN Means["int"] /\ i \in p.lim /\ Store(i)
  <2>1. ValueError(p, v) = "ok"
    BY <1>1, <1>8, Verdicts DEF i
  <2>2. i = Means[p.type][v]
    BY <1>1 DEF i
  <2>3. QED BY <1>1, <1>2, <1>8, <2>1, <2>2, StoreStep DEF v, p
<1>9. QED BY <1>1, <1>4, <1>6, <1>7, <1>8

\* keyparser_getkey is called for a word.
LEMMA AskKeyStep ==
  ASSUME IInv, AskKey
  PROVE  IInv'
<1>1. /\ phase = "load" /\ At <= Len(Params) /\ Params[At].type = "key" /\ ValueAt(At) # Null
      /\ GetKey(ValueAt(At)) /\ UNCHANGED parseVars
  BY DEF AskKey, Loading
<1>2. /\ request \in Requests /\ Params = Table[request.filter] /\ SearchInv
  BY Facts
<1>3. ValueAt(At) \in Word
  <2>1. At \in DOMAIN Params /\ Given(Said(request.lines), Params[At]) = ValueAt(At)
    BY <1>1, LoadFacts
  <2> DEFINE a == At
  <2> HIDE DEF a
  <2>2. a \in DOMAIN Params /\ Params[a].type = "key" /\ Given(Said(request.lines), Params[a]) # Null
    BY <1>1, <2>1 DEF a
  <2>3. Given(Said(request.lines), Params[a]) \in Word
    BY <1>2, <2>2, KeyGiven
  <2>4. QED BY <2>1, <2>3 DEF a
<1>4. SearchInv'
  BY <1>1, <1>2, <1>3, GetKeyStep
<1>5. /\ request' = request /\ phase' = phase /\ cfg' = cfg /\ values' = values
      /\ stored' = stored /\ err' = err /\ data' = data /\ key' = ValueAt(At)
  BY <1>1 DEF parseVars, GetKey
<1>6. Params' = Params /\ At' = At /\ \A j : ValueAt(j)' = ValueAt(j)
  BY <1>5 DEF Params, At, ValueAt
<1>7. ValueAt(At)' = ValueAt(At)
  BY <1>5, <1>6 DEF Params, At, ValueAt
<1>8. Searching'
  BY <1>1, <1>5, <1>6, <1>7 DEF Searching
<1>9. QED
  <2>1. TypeOK /\ LoadsAsSpecified /\ Loaded
    BY DEF IInv
  <2>2. TypeOK'
    BY <1>4, <1>5, <1>6, <2>1 DEF TypeOK, SearchInv
  <2>3. LoadsAsSpecified' /\ Parsed'
    BY <1>1, <1>5 DEF LoadsAsSpecified, Parsed
  <2>4. Loaded'
    BY <1>5, <1>6, <2>1 DEF Loaded, StoredTo
  <2>5. QED BY <1>4, <1>8, <2>2, <2>3, <2>4 DEF IInv

\* A comparison.
LEMMA ProbingStep ==
  ASSUME IInv, Probe, UNCHANGED parseVars
  PROVE  IInv'
<1>1. SearchInv' /\ key' = key /\ search = "running"
  BY ProbeStep DEF IInv, Probe
<1>2. /\ request' = request /\ phase' = phase /\ cfg' = cfg /\ values' = values
      /\ stored' = stored /\ err' = err /\ data' = data
  BY DEF parseVars
<1>3. /\ phase = "load" /\ At <= Len(Params)
      /\ Params[At].type = "key" /\ ValueAt(At) # Null /\ key = ValueAt(At)
  BY <1>1 DEF IInv, Searching
<1>4. Params' = Params /\ At' = At /\ \A j : ValueAt(j)' = ValueAt(j)
  BY <1>2 DEF Params, At, ValueAt
<1>5. ValueAt(At)' = ValueAt(At)
  BY <1>2, <1>4 DEF Params, At, ValueAt
<1>6. Searching'
  BY <1>1, <1>2, <1>3, <1>4, <1>5 DEF Searching
<1>7. TypeOK /\ LoadsAsSpecified /\ Loaded
  BY DEF IInv
<1>8. TypeOK'
  BY <1>1, <1>2, <1>4, <1>7 DEF TypeOK, SearchInv
<1>9. LoadsAsSpecified' /\ Parsed'
  BY <1>2, <1>3 DEF LoadsAsSpecified, Parsed
<1>10. Loaded'
  BY <1>2, <1>4, <1>7 DEF Loaded, StoredTo
<1>11. QED BY <1>1, <1>6, <1>8, <1>9, <1>10 DEF IInv

\* What the search has found is the key that is meant; what it has missed was none.
LEMMA AnswerKeyStep ==
  ASSUME IInv, AnswerKey
  PROVE  IInv'
<1> DEFINE v == ValueAt(At)
           p == Params[At]
           text == Said(request.lines)
<1>1. /\ phase = "load" /\ At <= Len(Params) /\ p.type = "key" /\ v # Null
      /\ search \in {"found", "missing"}
      /\ \/ search = "found" /\ Store(KeyNames[Middle])
         \/ search = "missing" /\ Fail("einval")
      /\ search' = "idle" /\ key' = KeyNames[0] /\ left' = 0 /\ right' = KeyCount
  BY DEF AnswerKey, Loading
<1>2. key = v /\ SearchInv /\ key \in Word
  BY <1>1 DEF IInv, Searching, SearchInv, SearchTypeOK
<1>3. SearchInv'
  BY <1>1, TableAssumption DEF SearchInv, SearchTypeOK, Position
<1>4. At \in DOMAIN Params /\ Given(text, Params[At]) = ValueAt(At)
  BY <1>1, LoadFacts
<1>5. CASE search = "found" /\ Store(KeyNames[Middle])
  <2>1. Middle \in Position /\ RankAt(Middle) = Rank[v]
    BY <1>2, <1>5, MiddleFacts DEF SearchInv
  <2>2. v \in DOMAIN Means["key"] /\ Means["key"][v] = KeyNames[Middle]
    BY <1>2, <2>1, MeansAssumption
  <2>3. ValueError(p, v) = "ok"
    BY <1>1, <2>2, Verdicts
  <2>4. KeyNames[Middle] = Means[p.type][v]
    BY <1>1, <2>2
  <2>5. QED BY <1>1, <1>3, <1>5, <2>3, <2>4, StoreStep
<1>6. CASE search = "missing" /\ Fail("einval")
  <2>1. \A q \in Position : RankAt(q) = Rank[v] => OutOfOrder(q)
    BY <1>2, <1>6 DEF SearchInv, Proper
  <2>2. ASSUME Findable(text) PROVE ParamError(Params, text) = "einval" /\ values[At] # Null
    <3>1. ~Misplaced(v)
      BY <1>1, <1>4, <2>2 DEF Findable
    <3>2. \A q \in Position : RankAt(q) # Rank[v]
      BY <2>1, <3>1 DEF Misplaced
    <3>3. v \notin DOMAIN Means["key"]
      BY <1>2, <3>2, MeansAssumption
    <3>4. ValueError(p, v) = "einval"
      BY <1>1, <3>3, Verdicts
    <3>5. ParamError(Params, text) = "einval"
      BY <1>1, <3>4, LoadFacts
    <3>6. values[At] # Null
      BY <1>1, <1>4, <3>4, DefaultsRight
    <3>7. QED BY <3>5, <3>6
  <2>3. "einval" \in ParameterError
    BY DEF ParameterError
  <2>4. QED BY <1>1, <1>3, <1>6, <2>2, <2>3, FailStep
<1>7. QED BY <1>1, <1>5, <1>6

\* All values are stored: the filter is made, or malloc() fails.
LEMMA MadeStep ==
  ASSUME IInv, Made
  PROVE  IInv'
<1> DEFINE text == Said(request.lines)
<1>1. /\ phase = "load" /\ At = Len(Params) + 1 /\ UNCHANGED searchVars
      /\ \/ /\ data' = Alloc(request.filter, stored) /\ err' = "ok" /\ phase' = "idle"
            /\ UNCHANGED <<request, cfg, values, stored>>
         \/ Fail("errno")
  BY DEF Made
<1>2. ParamError(Params, text) = "ok" /\ stored = Values(Params, text)
  BY <1>1, LoadFacts
<1>3. Len(Params) \in Nat
  BY Facts
<1>4. search' = "idle" /\ SearchInv'
  BY <1>1, <1>3, NoSearch
<1> HIDE DEF text
<1>5. "errno" \notin ParameterError /\ "ok" \notin ParameterError
  BY DEF ParameterError
<1>6. CASE Fail("errno")
  BY <1>2, <1>4, <1>5, <1>6, FailStep DEF text
<1>7. CASE /\ data' = Alloc(request.filter, stored) /\ err' = "ok" /\ phase' = "idle"
           /\ UNCHANGED <<request, cfg, values, stored>>
  <2>1. request' = request /\ Params' = Params /\ At' = At /\ Said(request.lines)' = text
    BY <1>7 DEF Params, At, text
  <2>2. LoadsAsSpecified'
    <3>1. data' = Alloc(request.filter, Values(Params, text))
      BY <1>2, <1>7
    <3>2. QED BY <1>2, <1>5, <1>7, <2>1, <3>1 DEF LoadsAsSpecified
  <2>3. Parsed' /\ Loaded' /\ Searching'
    BY <1>4, <1>7 DEF Parsed, Loaded, Searching
  <2>4. TypeOK'
    <3>1. TypeOK
      BY DEF IInv
    <3>2. QED BY <1>4, <1>7, <2>1, <3>1 DEF TypeOK, SearchInv
  <2>5. QED BY <1>4, <2>2, <2>3, <2>4 DEF IInv
<1>8. QED BY <1>1, <1>6, <1>7

\* Nothing happens.
LEMMA Stutter ==
  ASSUME IInv, UNCHANGED vars
  PROVE  IInv'
<1>1. /\ request' = request /\ phase' = phase /\ cfg' = cfg /\ values' = values
      /\ stored' = stored /\ err' = err /\ data' = data /\ UNCHANGED searchVars
  BY DEF vars, parseVars
<1>2. key' = key /\ search' = search /\ SearchInv'
  BY <1>1, SearchStays DEF IInv, searchVars
<1>3. Params' = Params /\ At' = At /\ (\A j : ValueAt(j)' = ValueAt(j)) /\ ValueAt(At)' = ValueAt(At)
  BY <1>1 DEF Params, At, ValueAt
<1>4. TypeOK /\ LoadsAsSpecified /\ Parsed /\ Loaded /\ Searching
  BY DEF IInv
<1>5. TypeOK'
  BY <1>1, <1>2, <1>3, <1>4 DEF TypeOK, SearchInv
<1>6. LoadsAsSpecified'
  BY <1>1, <1>3, <1>4 DEF LoadsAsSpecified, Findable, Misplaced, RankAt, OutOfOrder
<1>7. Parsed'
  BY <1>1, <1>2, <1>3, <1>4 DEF Parsed
<1>8. Loaded'
  BY <1>1, <1>3, <1>4 DEF Loaded, StoredTo
<1>9. Searching'
  BY <1>1, <1>2, <1>3, <1>4 DEF Searching
<1>10. QED BY <1>2, <1>5, <1>6, <1>7, <1>8, <1>9 DEF IInv

\* Every state of a load satisfies the invariant.
THEOREM LoadInvariant == Spec => []IInv
<1>1. IInv /\ [Next]_vars => IInv'
  <2> SUFFICES ASSUME IInv, [Next]_vars PROVE IInv'
    OBVIOUS
  <2>1. CASE UNCHANGED vars
    BY <2>1, Stutter
  <2>2. CASE Next
    BY <2>2, CreatStep, ParseStep, ParseEndsStep, MissingStep, LoadValueStep, LoadIntStep,
       AskKeyStep, ProbingStep, AnswerKeyStep, MadeStep DEF Next, Load
  <2>3. QED BY <2>1, <2>2
<1>2. QED BY <1>1, InitIInv, PTL DEF Spec

\* The values that evf_load_params stores are of the types of their parameters.
THEOREM ParamsTyped == Spec => []TypeOK
<1>1. IInv => TypeOK
  BY DEF IInv
<1>2. QED BY <1>1, LoadInvariant, PTL

\* evf_load_params and the creat functions load any section with well written lines
\* to what it says, or refuse it for the first thing that is wrong with it, whatever
\* its style, order and length, for every filter and every table of keys.
THEOREM TextLoadedAsSpecified == Spec => []LoadsAsSpecified
<1>1. IInv => LoadsAsSpecified
  BY DEF IInv
<1>2. QED BY <1>1, LoadInvariant, PTL

\* While sections are loaded, key_names is never read outside its bounds.
THEOREM LoadStaysInTable == Spec => []ProbesInTable
<1>1. IInv => ProbesInTable
  BY MiddleFacts DEF IInv, ProbesInTable
<1>2. QED BY <1>1, LoadInvariant, PTL

\* A load misses no key that stands at its right place in key_names.
THEOREM LoadFindsProper == Spec => []MissesOnlyMisplaced
<1>1. IInv => MissesOnlyMisplaced
  BY DEF IInv, SearchInv, MissesOnlyMisplaced, Proper
<1>2. QED BY <1>1, LoadInvariant, PTL
=============================================================================
