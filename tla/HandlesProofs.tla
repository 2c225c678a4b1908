---------------------------- MODULE HandlesProofs ----------------------------
(* Theorems about Handles, for any number of names, filters and handles.    *)
EXTENDS Handles, ListLemmas, FiniteSetTheorems, TLAPS

Listed == ToSet(handles)

NoTwice(s) == \A p, q \in DOMAIN s : s[p] = s[q] => p = q

\* ListSound, without positions.
NamesApart == \A l, m \in Listed : heap[l].name = heap[m].name => l = m
Sound == Listed \subseteq Allocated /\ NoTwice(handles) /\ NamesApart

\* A count exceeds the number of senders by 1 at most.
Surplus == \A m \in Allocated : heap[m].refcount <= Cardinality(SendersOf(m)) + 1

\* As long as the list is complete, a receiver is attached to the handle of its
\* name.  A handle that is lost stays lost: only handles in the list are freed.
Attached ==
  Allocated \subseteq Listed =>
    \A r \in Receiver : source[r] # Null =>
      \E m \in Listed : heap[m].name = source[r] /\ heap[m].filter = r

HandleInv == TypeOK /\ SendersCounted /\ Sound /\ Surplus /\ Attached

---------------------------------------------------------------------------

\* The list as a set: what is at a position is in it, and the other way round.
LEMMA ListedFacts ==
  ASSUME TypeOK
  PROVE  /\ Len(handles) \in Nat
         /\ DOMAIN handles = 1 .. Len(handles)
         /\ \A p \in 1 .. Len(handles) : handles[p] \in Memory /\ handles[p] \in Listed
         /\ \A m \in Listed : m \in Memory /\ \E p \in 1 .. Len(handles) : handles[p] = m
<1>1. handles \in Seq(Memory)
  BY DEF TypeOK
<1>2. Len(handles) \in Nat /\ DOMAIN handles = 1 .. Len(handles)
  BY <1>1, LenProperties
<1>3. \A p \in 1 .. Len(handles) : handles[p] \in Memory
  BY <1>1, ElementOfSeq
<1>4. QED BY <1>2, <1>3 DEF Listed, ToSet

\* Sound says of the handles what ListSound says of the positions.
LEMMA SoundIsListSound ==
  ASSUME TypeOK
  PROVE  Sound <=> ListSound
BY ListedFacts DEF Sound, NamesApart, NoTwice, ListSound, Listed, ToSet

\* What an allocated handle holds.
LEMMA HeapFacts ==
  ASSUME TypeOK, NEW m \in Allocated
  PROVE  /\ m \in Memory /\ heap[m] \in Handle
         /\ heap[m].name \in Name
         /\ heap[m].refcount \in 0 .. Cardinality(Sender) + 1
         /\ heap[m].filter \in Receiver \cup {Null}
BY DEF TypeOK, Allocated, Handle

\* The senders of a handle can be counted.
LEMMA SendersFinite ==
  \A m \in Memory : IsFiniteSet(SendersOf(m)) /\ Cardinality(SendersOf(m)) \in Nat
                    /\ Cardinality(SendersOf(m)) <= Cardinality(Sender)
                    /\ Cardinality(Sender) \in Nat
BY SenderAssumption, FS_Subset, FS_CardinalityType DEF SendersOf

\* With names apart, Lookup finds the handle of a name if there is one.
LEMMA LookupFacts ==
  ASSUME TypeOK, Sound, NEW n \in Name
  PROVE  Lookup(n) = {m \in Listed : heap[m].name = n}
<1>1. ASSUME NEW m \in Lookup(n)
      PROVE  m \in Listed /\ heap[m].name = n
  BY ListedFacts DEF Lookup
<1>2. ASSUME NEW m \in Listed, heap[m].name = n
      PROVE  m \in Lookup(n)
  <2>1. PICK p \in 1 .. Len(handles) : handles[p] = m
    BY ListedFacts
  <2>2. \A q \in 1 .. p - 1 : heap[handles[q]].name # n
    <3> SUFFICES ASSUME NEW q \in 1 .. p - 1, heap[handles[q]].name = n
                 PROVE  FALSE
      OBVIOUS
    <3>1. q \in 1 .. Len(handles) /\ q # p
      BY ListedFacts
    <3>2. handles[q] = handles[p]
      BY <1>2, <2>1, <3>1, ListedFacts DEF Sound, NamesApart
    <3>3. QED BY <3>1, <3>2, ListedFacts DEF Sound, NoTwice
  <2>3. QED BY <1>2, <2>1, <2>2, ListedFacts DEF Lookup
<1>3. QED BY <1>1, <1>2

---------------------------------------------------------------------------
(* What the two operators that change the list do to it.                   *)

\* A new handle is in front of the list, and nowhere else in it.
LEMMA AllocateFacts ==
  ASSUME TypeOK, Sound, NEW m \in Memory, NEW n \in Name,
         NEW k \in 0 .. Cardinality(Sender) + 1, NEW f \in Receiver \cup {Null},
         Allocate(m, n, k, f), Lookup(n) = {}
  PROVE  /\ heap' = [heap EXCEPT ![m] = [name |-> n, refcount |-> k, filter |-> f]]
         /\ heap' \in [Memory -> Handle \cup {Null}]
         /\ handles' \in Seq(Memory)
         /\ m \notin Allocated /\ m \notin Listed
         /\ Allocated' = Allocated \cup {m}
         /\ Listed' = Listed \cup {m}
         /\ Sound'
<1> DEFINE h == [name |-> n, refcount |-> k, filter |-> f]
<1>0. h \in Handle /\ h # Null
  BY NullAssumption DEF Handle
<1>1. /\ heap' = [heap EXCEPT ![m] = h]
      /\ m \notin Allocated
      /\ handles' = <<m>> \o handles
  BY DEF Allocate
<1>2. /\ heap' \in [Memory -> Handle \cup {Null}]
      /\ heap'[m] = h
      /\ \A l \in Memory : l # m => heap'[l] = heap[l]
  BY <1>0, <1>1 DEF TypeOK
<1>3. /\ handles' \in Seq(Memory)
      /\ Len(handles') = Len(handles) + 1
      /\ DOMAIN handles' = 1 .. Len(handles) + 1
      /\ handles'[1] = m
      /\ \A p \in 2 .. Len(handles) + 1 : handles'[p] = handles[p - 1]
  <2>1. <<m>> \in Seq(Memory) /\ Len(<<m>>) = 1 /\ <<m>>[1] = m
    OBVIOUS
  <2>2. /\ handles' \in Seq(Memory)
        /\ Len(handles') = 1 + Len(handles)
        /\ \A p \in 1 .. 1 + Len(handles) :
             handles'[p] = IF p <= 1 THEN <<m>>[p] ELSE handles[p - 1]
    <3>1. handles \in Seq(Memory)
      BY DEF TypeOK
    <3>2. QED BY <1>1, <2>1, <3>1, ConcatProperties
  <2>3. QED BY <2>1, <2>2, ListedFacts, LenProperties
<1>4. m \notin Listed
  BY <1>1 DEF Sound
<1>5. Allocated' = Allocated \cup {m}
  BY <1>0, <1>2 DEF Allocated
<1>6. Listed' = Listed \cup {m}
  <2>1. \A p \in 1 .. Len(handles) + 1 : handles'[p] \in Listed \cup {m}
    BY <1>3, ListedFacts
  <2>2. ASSUME NEW l \in Listed
        PROVE  \E p \in 1 .. Len(handles) + 1 : handles'[p] = l
    <3>1. PICK p \in 1 .. Len(handles) : handles[p] = l
      BY ListedFacts
    <3>2. p + 1 \in 2 .. Len(handles) + 1 /\ (p + 1) - 1 = p
      BY ListedFacts
    <3>3. p + 1 \in 1 .. Len(handles) + 1
      BY ListedFacts
    <3>4. handles'[p + 1] = l
      <4>1. handles'[p + 1] = handles[(p + 1) - 1]
        BY <1>3, <3>2
      <4>2. QED BY <3>1, <3>2, <4>1
    <3>5. QED BY <3>3, <3>4
  <2>3. \E p \in 1 .. Len(handles) + 1 : handles'[p] = m
    BY <1>3, ListedFacts
  <2>4. Listed' = {handles'[p] : p \in 1 .. Len(handles) + 1}
    BY <1>3 DEF Listed, ToSet
  <2>5. QED BY <2>1, <2>2, <2>3, <2>4
<1>7. NoTwice(handles')
  <2> SUFFICES ASSUME NEW p \in 1 .. Len(handles) + 1, NEW q \in 1 .. Len(handles) + 1,
                      handles'[p] = handles'[q]
               PROVE  p = q
    BY <1>3 DEF NoTwice
  <2>1. CASE p = 1 \/ q = 1
    BY <1>3, <1>4, <2>1, ListedFacts
  <2>2. CASE p # 1 /\ q # 1
    <3>1. p - 1 \in 1 .. Len(handles) /\ q - 1 \in 1 .. Len(handles)
      BY <2>2, ListedFacts
    <3>2. handles[p - 1] = handles[q - 1]
      BY <1>3, <2>2, ListedFacts
    <3>3. p - 1 = q - 1
      BY <3>1, <3>2, ListedFacts DEF Sound, NoTwice
    <3>4. QED BY <3>1, <3>3
  <2>3. QED BY <2>1, <2>2
<1>8. NamesApart'
  <2> SUFFICES ASSUME NEW l \in Listed', NEW j \in Listed', heap'[l].name = heap'[j].name
               PROVE  l = j
    BY DEF NamesApart
  <2>1. \A i \in Listed : heap'[i].name = heap[i].name /\ heap[i].name # n
    <3>1. \A i \in Listed : i \in Memory /\ i # m
      BY <1>4, ListedFacts
    <3>2. \A i \in Listed : heap[i].name # n
      BY LookupFacts
    <3>3. QED BY <1>2, <3>1, <3>2
  <2>2. heap'[m].name = n
    BY <1>2
  <2>3. QED BY <1>6, <2>1, <2>2 DEF Sound, NamesApart
<1>9. Sound'
  BY <1>5, <1>6, <1>7, <1>8 DEF Sound
<1>10. QED BY <1>1, <1>2, <1>3, <1>4, <1>5, <1>6, <1>9

\* handle_free does nothing, or it frees the handle and drops it, and perhaps
\* the first one with it, from the list.
Freed(m) ==
  /\ m \in Listed
  /\ heap' = [heap EXCEPT ![m] = Null]
  /\ handles' \in Seq(Memory)
  /\ NoTwice(handles')
  /\ Listed' \subseteq Listed \ {m}
  /\ \/ Listed' = Listed \ {m}
     \/ \E l \in Listed \ {m} : l \notin Listed'

\* handle_free (Free) does one of the two.
LEMMA FreeFacts ==
  ASSUME TypeOK, Sound, NEW m \in Memory, Free(m)
  PROVE  UNCHANGED <<handles, heap>> \/ Freed(m)
<1> SUFFICES ASSUME ~ UNCHANGED <<handles, heap>>
             PROVE  Freed(m)
  OBVIOUS
<1>1. PICK p \in 1 .. Len(handles) :
        /\ p > 1 /\ handles[p] = m
        /\ handles' = IF p = 2 THEN SubSeq(handles, 3, Len(handles))
                               ELSE RemoveAt(handles, p)
        /\ heap' = [heap EXCEPT ![m] = Null]
  BY ListedFacts DEF Free
<1>2. /\ Len(handles) \in Nat /\ p \in Nat /\ 1 < p /\ p <= Len(handles)
      /\ handles[p] = m
      /\ m \in Listed
  <2>1. Len(handles) \in Nat /\ handles[p] \in Listed
    BY ListedFacts
  <2>2. p > 1 /\ handles[p] = m
    BY <1>1
  <2>3. QED BY <2>1, <2>2
<1>6. \A i, j \in 1 .. Len(handles) : handles[i] = handles[j] => i = j
  BY ListedFacts DEF Sound, NoTwice
<1>7. \A i \in 1 .. Len(handles) : handles[i] \in Memory /\ handles[i] \in Listed
  BY ListedFacts
<1>3. CASE p = 2
  <2>1. /\ handles' \in Seq(Memory)
        /\ Len(handles') = Len(handles) - 2
        /\ DOMAIN handles' = 1 .. Len(handles) - 2
        /\ \A i \in 1 .. Len(handles) - 2 : handles'[i] = handles[i + 2]
    <3>1. \A i \in 3 .. Len(handles) : handles[i] \in Memory
      BY <1>2, <1>7
    <3>2. handles' = SubSeq(handles, 3, Len(handles)) /\ Len(handles) \in Int /\ 3 \in Int
      <4>1. handles' = SubSeq(handles, 3, Len(handles))
        BY <1>1, <1>3, Zenon
      <4>2. QED BY <1>2, <4>1
    <3>3. /\ handles' \in Seq(Memory)
          /\ Len(handles') = IF 3 <= Len(handles) THEN Len(handles) - 3 + 1 ELSE 0
          /\ \A i \in 1 .. Len(handles) - 3 + 1 : handles'[i] = handles[3 + i - 1]
      BY <3>1, <3>2, SubSeqProperties
    <3>4. Len(handles) - 3 + 1 = Len(handles) - 2 /\ Len(handles) >= 2
      BY <1>2, <1>3
    <3>5. Len(handles') = Len(handles) - 2
      <4>1. Len(handles') = IF 3 <= Len(handles) THEN Len(handles) - 3 + 1 ELSE 0
        BY <3>3
      <4>2. CASE 3 <= Len(handles)
        BY <1>2, <4>1, <4>2
      <4>3. CASE ~ (3 <= Len(handles))
        <5>1. Len(handles) = 2
          BY <1>2, <3>4, <4>3
        <5>2. QED BY <4>1, <4>3, <5>1
      <4>4. QED BY <4>2, <4>3
    <3>6. \A i \in 1 .. Len(handles) - 2 : 3 + i - 1 = i + 2
      OBVIOUS
    <3>7. DOMAIN handles' = 1 .. Len(handles) - 2
      BY <3>3, <3>5, LenProperties
    <3>8. QED BY <3>3, <3>4, <3>5, <3>6, <3>7
  <2>2. \A i \in 1 .. Len(handles) - 2 : i + 2 \in 1 .. Len(handles)
    BY <1>2
  <2>3. NoTwice(handles')
    <3> SUFFICES ASSUME NEW i \in 1 .. Len(handles) - 2, NEW j \in 1 .. Len(handles) - 2,
                        handles'[i] = handles'[j]
                 PROVE  i = j
      BY <2>1 DEF NoTwice
    <3>1. handles[i + 2] = handles[j + 2]
      BY <2>1
    <3>2. i + 2 = j + 2
      BY <1>6, <2>2, <3>1
    <3>3. QED BY <3>2
  <2>4. \A i \in 1 .. Len(handles) - 2 : handles'[i] # handles[1] /\ handles'[i] # m
    <3> TAKE i \in 1 .. Len(handles) - 2
    <3>1. i + 2 # 1 /\ i + 2 # 2 /\ 1 \in 1 .. Len(handles) /\ 2 \in 1 .. Len(handles)
      BY <1>2, <1>3
    <3>2. handles[i + 2] # handles[1] /\ handles[i + 2] # handles[2]
      BY <1>6, <2>2, <3>1
    <3>3. QED BY <1>2, <1>3, <2>1, <3>2
  <2>5. handles[1] \in Listed /\ handles[1] # m
    <3>1. 1 \in 1 .. Len(handles)
      BY <1>2
    <3>2. QED BY <1>2, <1>3, <1>6, <1>7, <3>1
  <2>6. Listed' \subseteq Listed \ {m} /\ handles[1] \notin Listed'
    BY <1>7, <2>1, <2>2, <2>4 DEF Listed, ToSet
  <2>7. QED BY <1>1, <1>2, <2>1, <2>3, <2>5, <2>6 DEF Freed
<1>4. CASE p # 2
  <2>1. /\ handles' \in Seq(Memory)
        /\ DOMAIN handles' = 1 .. Len(handles) - 1
        /\ \A i \in 1 .. Len(handles) - 1 :
             handles'[i] = IF i < p THEN handles[i] ELSE handles[i + 1]
    <3>1. handles' = RemoveAt(handles, p) /\ handles \in Seq(Memory)
      BY <1>1, <1>4 DEF TypeOK
    <3>2. QED BY <3>1, RemoveAtFacts, LenProperties
  <2> DEFINE from(i) == IF i < p THEN i ELSE i + 1
  <2>2. \A i \in 1 .. Len(handles) - 1 :
          handles'[i] = handles[from(i)] /\ from(i) \in 1 .. Len(handles) /\ from(i) # p
    BY <1>2, <2>1
  <2>3. NoTwice(handles')
    <3> SUFFICES ASSUME NEW i \in 1 .. Len(handles) - 1, NEW j \in 1 .. Len(handles) - 1,
                        handles'[i] = handles'[j]
                 PROVE  i = j
      BY <2>1 DEF NoTwice
    <3>1. from(i) = from(j)
      <4> HIDE DEF from
      <4>1. QED BY <1>6, <2>2
    <3>2. QED BY <1>2, <3>1
  <2>4. Listed' \subseteq Listed \ {m}
    <3> SUFFICES ASSUME NEW i \in 1 .. Len(handles) - 1
                 PROVE  handles'[i] \in Listed /\ handles'[i] # m
      BY <2>1 DEF Listed, ToSet
    <3>1. handles'[i] = handles[from(i)] /\ from(i) \in 1 .. Len(handles) /\ from(i) # p
      BY <2>2
    <3>2. handles[from(i)] # handles[p]
      <4> HIDE DEF from
      <4>1. QED BY <1>2, <1>6, <3>1
    <3>3. QED
      <4> HIDE DEF from
      <4>1. QED BY <1>2, <1>7, <3>1, <3>2
  <2>5. Listed \ {m} \subseteq Listed'
    <3> SUFFICES ASSUME NEW l \in Listed, l # m
                 PROVE  l \in Listed'
      OBVIOUS
    <3>1. PICK q \in 1 .. Len(handles) : handles[q] = l
      BY ListedFacts
    <3>2. q # p
      BY <1>2, <3>1
    <3> DEFINE i == IF q < p THEN q ELSE q - 1
    <3>3. i \in 1 .. Len(handles) - 1 /\ from(i) = q
      BY <1>2, <3>2
    <3>4. handles'[i] = l
      BY <2>2, <3>1, <3>3
    <3>5. QED BY <2>1, <3>3, <3>4 DEF Listed, ToSet
  <2>6. QED BY <1>1, <1>2, <2>1, <2>3, <2>4, <2>5 DEF Freed
<1>5. QED BY <1>3, <1>4

\* A handle that is freed is not in the list; if nothing is lost from the list
\* afterwards, nothing but the handle has left it.
LEMMA FreedFacts ==
  ASSUME TypeOK, Sound, NEW m \in Memory, Freed(m)
  PROVE  /\ heap' \in [Memory -> Handle \cup {Null}]
         /\ \A l \in Memory : l # m => heap'[l] = heap[l]
         /\ Allocated' = Allocated \ {m}
         /\ m \notin Listed' /\ Listed' \subseteq Listed
         /\ Sound'
         /\ Allocated' \subseteq Listed' => Allocated \subseteq Listed /\ Listed' = Listed \ {m}
<1>1. /\ heap' \in [Memory -> Handle \cup {Null}]
      /\ heap'[m] = Null
      /\ \A l \in Memory : l # m => heap'[l] = heap[l]
  BY DEF Freed, TypeOK
<1>2. Allocated' = Allocated \ {m}
  BY <1>1 DEF Allocated
<1>3. m \notin Listed' /\ Listed' \subseteq Listed /\ m \in Listed
  BY DEF Freed
<1>4. \A l \in Listed' : l \in Listed /\ heap'[l] = heap[l]
  BY <1>1, <1>3, ListedFacts
<1>5. Sound'
  <2>1. NamesApart'
    BY <1>4 DEF Sound, NamesApart
  <2>2. NoTwice(handles')
    BY DEF Freed
  <2>3. Listed' \subseteq Allocated'
    BY <1>2, <1>3 DEF Sound
  <2>4. QED BY <2>1, <2>2, <2>3 DEF Sound
<1>6. ASSUME Allocated' \subseteq Listed'
      PROVE  Allocated \subseteq Listed /\ Listed' = Listed \ {m}
  <2>1. \A l \in Listed \ {m} : l \in Listed'
    BY <1>2, <1>6 DEF Sound
  <2>2. Listed' = Listed \ {m}
    BY <2>1 DEF Freed
  <2>3. QED BY <1>2, <1>3, <1>6, <2>2
<1>7. QED BY <1>1, <1>2, <1>3, <1>5, <1>6

\* A call that changes nothing keeps the invariant.
LEMMA Stutter == HandleInv /\ UNCHANGED vars => HandleInv'
<1> SUFFICES ASSUME HandleInv, UNCHANGED vars
             PROVE  HandleInv'
  OBVIOUS
<1>1. UNCHANGED <<handles, heap, dest, source>>
  BY DEF vars
<1>2. TypeOK'
  BY <1>1 DEF HandleInv, TypeOK
<1>3. Allocated' = Allocated /\ Listed' = Listed
  BY <1>1 DEF Allocated, Listed
<1>4. \A m \in Memory : SendersOf(m)' = SendersOf(m)
  BY <1>1 DEF SendersOf
<1>5. \A m \in Allocated : m \in Memory
  BY DEF Allocated
<1>6. SendersCounted'
  BY <1>1, <1>3, <1>4 DEF HandleInv, SendersCounted
<1>7. Sound'
  BY <1>1, <1>3 DEF HandleInv, Sound, NamesApart, NoTwice
<1>8. Surplus'
  BY <1>1, <1>3, <1>4, <1>5 DEF HandleInv, Surplus
<1>9. Attached'
  BY <1>1, <1>3 DEF HandleInv, Attached
<1>10. QED BY <1>2, <1>6, <1>7, <1>8, <1>9 DEF HandleInv

\* A step that leaves the list alone, and the names in it.
LEMMA SameList ==
  ASSUME TypeOK, Sound, UNCHANGED handles, Allocated' = Allocated,
         \A l \in Allocated : heap'[l].name = heap[l].name
  PROVE  Listed' = Listed /\ Sound'
BY DEF Sound, NamesApart, Listed, NoTwice

---------------------------------------------------------------------------
(* The senders of a handle, counted.                                       *)

\* A new sender of m adds one to the senders of m, and only of m.
LEMMA SenderJoins ==
  ASSUME TypeOK, NEW s \in Sender, NEW m \in Memory, dest[s] = Null,
         dest' = [dest EXCEPT ![s] = m]
  PROVE  /\ dest' \in [Sender -> Memory \cup {Null}]
         /\ Cardinality(SendersOf(m)') = Cardinality(SendersOf(m)) + 1
         /\ Cardinality(SendersOf(m)) + 1 <= Cardinality(Sender)
         /\ \A l \in Memory : l # m => SendersOf(l)' = SendersOf(l)
<1>1. /\ dest' \in [Sender -> Memory \cup {Null}]
      /\ \A t \in Sender : dest'[t] = IF t = s THEN m ELSE dest[t]
  BY DEF TypeOK
<1>2. SendersOf(m)' = SendersOf(m) \cup {s} /\ s \notin SendersOf(m)
  BY <1>1, NullAssumption DEF SendersOf
<1>3. Cardinality(SendersOf(m) \cup {s}) = Cardinality(SendersOf(m)) + 1
  BY <1>2, SendersFinite, FS_AddElement
<1>4. Cardinality(SendersOf(m) \cup {s}) <= Cardinality(Sender)
  BY SenderAssumption, FS_Subset DEF SendersOf
<1>5. \A l \in Memory : l # m => SendersOf(l)' = SendersOf(l)
  BY <1>1, NullAssumption DEF SendersOf
<1>6. QED BY <1>1, <1>2, <1>3, <1>4, <1>5

\* A sender of m that leaves takes one from the senders of m, and only of m.
LEMMA SenderLeaves ==
  ASSUME TypeOK, NEW s \in Sender, NEW m \in Memory, dest[s] = m,
         dest' = [dest EXCEPT ![s] = Null]
  PROVE  /\ dest' \in [Sender -> Memory \cup {Null}]
         /\ Cardinality(SendersOf(m)') = Cardinality(SendersOf(m)) - 1
         /\ Cardinality(SendersOf(m)) >= 1
         /\ SendersOf(m) # {}
         /\ \A l \in Memory : l # m => SendersOf(l)' = SendersOf(l)
<1>1. /\ dest' \in [Sender -> Memory \cup {Null}]
      /\ \A t \in Sender : dest'[t] = IF t = s THEN Null ELSE dest[t]
  BY DEF TypeOK
<1>2. SendersOf(m)' = SendersOf(m) \ {s} /\ s \in SendersOf(m)
  BY <1>1, NullAssumption DEF SendersOf
<1>3. Cardinality(SendersOf(m) \ {s}) = Cardinality(SendersOf(m)) - 1
  BY <1>2, SendersFinite, FS_RemoveElement
<1>4. Cardinality(SendersOf(m)) >= 1
  <2>1. Cardinality(SendersOf(m)) # 0
    BY <1>2, SendersFinite, FS_EmptySet
  <2>2. QED BY <2>1, SendersFinite
<1>5. \A l \in Memory : l # m => SendersOf(l)' = SendersOf(l)
  BY <1>1, NullAssumption DEF SendersOf
<1>6. QED BY <1>1, <1>2, <1>3, <1>4, <1>5

\* Memory that holds no handle has no senders.
LEMMA NoSenders ==
  ASSUME TypeOK, SendersCounted, NEW m \in Memory, m \notin Allocated
  PROVE  SendersOf(m) = {} /\ Cardinality(SendersOf(m)) = 0
BY FS_EmptySet DEF SendersCounted

---------------------------------------------------------------------------
(* The invariant, action by action.                                        *)

\* evf_handle_create: the handle found is counted up, a new one is in front.
LEMMA CreateSenderStep ==
  ASSUME HandleInv, NEW s \in Sender, NEW n \in Name, CreateSender(s, n)
  PROVE  HandleInv'
<1>0. TypeOK /\ SendersCounted /\ Sound /\ Surplus /\ Attached /\ dest[s] = Null
  BY DEF HandleInv, CreateSender
<1>1. ASSUME NEW m \in Lookup(n),
             heap' = [heap EXCEPT ![m].refcount = @ + 1],
             dest' = [dest EXCEPT ![s] = m],
             UNCHANGED <<handles, source>>
      PROVE  HandleInv'
  <2>1. m \in Listed /\ m \in Memory /\ m \in Allocated
    BY <1>0, LookupFacts DEF Sound, Allocated
  <2>2. /\ dest' \in [Sender -> Memory \cup {Null}]
        /\ Cardinality(SendersOf(m)') = Cardinality(SendersOf(m)) + 1
        /\ Cardinality(SendersOf(m)) + 1 <= Cardinality(Sender)
        /\ \A l \in Memory : l # m => SendersOf(l)' = SendersOf(l)
    BY <1>0, <1>1, <2>1, SenderJoins
  <2>3. heap[m].refcount \in Nat /\ heap[m].refcount <= Cardinality(SendersOf(m)) + 1
    BY <1>0, <2>1, HeapFacts DEF Surplus
  <2>4. heap[m].refcount + 1 \in 0 .. Cardinality(Sender) + 1
    BY <2>1, <2>2, <2>3, SendersFinite
  <2>5. /\ heap' \in [Memory -> Handle \cup {Null}]
        /\ heap'[m] \in Handle
        /\ heap'[m].refcount = heap[m].refcount + 1
        /\ heap'[m].name = heap[m].name /\ heap'[m].filter = heap[m].filter
        /\ \A l \in Memory : l # m => heap'[l] = heap[l]
    <3>1. heap[m] \in Handle
      BY <1>0, <2>1, HeapFacts
    <3>2. QED BY <1>0, <1>1, <2>1, <2>4, <3>1 DEF TypeOK, Handle
  <2>6. Allocated' = Allocated
    BY <2>1, <2>5, NullAssumption DEF Allocated
  <2>7. Listed' = Listed /\ Sound'
    BY <1>0, <1>1, <2>5, <2>6, SameList DEF Allocated
  <2>8. TypeOK'
    BY <1>0, <1>1, <2>2, <2>5 DEF TypeOK
  <2>9. SendersCounted'
    <3> SUFFICES ASSUME NEW l \in Memory, SendersOf(l)' # {}
                 PROVE  l \in Allocated' /\ heap'[l].refcount >= Cardinality(SendersOf(l)')
      BY DEF SendersCounted
    <3>1. CASE l = m
      <4>1. heap[m].refcount >= Cardinality(SendersOf(m))
        <5>1. CASE SendersOf(m) = {}
          BY <2>3, <5>1, FS_EmptySet
        <5>2. CASE SendersOf(m) # {}
          BY <1>0, <2>1, <5>2 DEF SendersCounted
        <5>3. QED BY <5>1, <5>2
      <4>2. QED BY <2>1, <2>2, <2>3, <2>5, <2>6, <3>1, <4>1, SendersFinite
    <3>2. CASE l # m
      BY <1>0, <2>2, <2>5, <2>6, <3>2 DEF SendersCounted
    <3>3. QED BY <3>1, <3>2
  <2>10. Surplus'
    <3> SUFFICES ASSUME NEW l \in Allocated
                 PROVE  heap'[l].refcount <= Cardinality(SendersOf(l)') + 1
      BY <2>6 DEF Surplus
    <3>1. l \in Memory
      BY DEF Allocated
    <3>2. CASE l = m
      BY <2>1, <2>2, <2>3, <2>5, <3>2, SendersFinite
    <3>3. CASE l # m
      BY <1>0, <2>2, <2>5, <3>1, <3>3 DEF Surplus
    <3>4. QED BY <3>2, <3>3
  <2>11. Attached'
    <3>1. \A l \in Listed : heap'[l].name = heap[l].name /\ heap'[l].filter = heap[l].filter
      BY <1>0, <2>5, ListedFacts
    <3>2. QED BY <1>0, <1>1, <2>6, <2>7, <3>1 DEF Attached
  <2>12. QED BY <2>7, <2>8, <2>9, <2>10, <2>11 DEF HandleInv
<1>2. ASSUME NEW m \in Memory, Lookup(n) = {},
             Allocate(m, n, 1, Null),
             dest' = [dest EXCEPT ![s] = m],
             UNCHANGED source
      PROVE  HandleInv'
  <2>1. 1 \in 0 .. Cardinality(Sender) + 1
    BY SenderAssumption, FS_CardinalityType
  <2>2. /\ heap' = [heap EXCEPT ![m] = [name |-> n, refcount |-> 1, filter |-> Null]]
        /\ heap' \in [Memory -> Handle \cup {Null}]
        /\ handles' \in Seq(Memory)
        /\ m \notin Allocated /\ m \notin Listed
        /\ Allocated' = Allocated \cup {m}
        /\ Listed' = Listed \cup {m}
        /\ Sound'
    BY <1>0, <1>2, <2>1, AllocateFacts
  <2>3. SendersOf(m) = {} /\ Cardinality(SendersOf(m)) = 0
    BY <1>0, <2>2, NoSenders
  <2>4. /\ dest' \in [Sender -> Memory \cup {Null}]
        /\ Cardinality(SendersOf(m)') = 1
        /\ \A l \in Memory : l # m => SendersOf(l)' = SendersOf(l)
    <3>1. /\ dest' \in [Sender -> Memory \cup {Null}]
          /\ Cardinality(SendersOf(m)') = Cardinality(SendersOf(m)) + 1
          /\ \A l \in Memory : l # m => SendersOf(l)' = SendersOf(l)
      BY <1>0, <1>2, SenderJoins
    <3>2. QED BY <2>3, <3>1
  <2>5. heap'[m].refcount = 1 /\ \A l \in Memory : l # m => heap'[l] = heap[l]
    BY <1>0, <2>2 DEF TypeOK
  <2>6. TypeOK'
    BY <1>0, <1>2, <2>2, <2>4 DEF TypeOK
  <2>7. SendersCounted'
    <3> SUFFICES ASSUME NEW l \in Memory, SendersOf(l)' # {}
                 PROVE  l \in Allocated' /\ heap'[l].refcount >= Cardinality(SendersOf(l)')
      BY DEF SendersCounted
    <3>1. CASE l = m
      BY <2>2, <2>4, <2>5, <3>1
    <3>2. CASE l # m
      BY <1>0, <2>2, <2>4, <2>5, <3>2 DEF SendersCounted
    <3>3. QED BY <3>1, <3>2
  <2>8. Surplus'
    <3> SUFFICES ASSUME NEW l \in Allocated \cup {m}
                 PROVE  heap'[l].refcount <= Cardinality(SendersOf(l)') + 1
      BY <2>2 DEF Surplus
    <3>1. CASE l = m
      BY <2>4, <2>5, <3>1
    <3>2. CASE l # m
      <4>1. l \in Memory /\ l \in Allocated
        BY <3>2 DEF Allocated
      <4>2. QED BY <1>0, <2>4, <2>5, <3>2, <4>1 DEF Surplus
    <3>3. QED BY <3>1, <3>2
  <2>9. Attached'
    <3> SUFFICES ASSUME Allocated' \subseteq Listed', NEW r \in Receiver, source[r] # Null
                 PROVE  \E l \in Listed' : heap'[l].name = source[r] /\ heap'[l].filter = r
      BY <1>2 DEF Attached
    <3>1. Allocated \subseteq Listed
      BY <2>2
    <3>2. PICK l \in Listed : heap[l].name = source[r] /\ heap[l].filter = r
      BY <1>0, <3>1 DEF Attached
    <3>3. l \in Memory /\ l # m
      BY <1>0, <2>2, ListedFacts
    <3>4. QED BY <2>2, <2>5, <3>2, <3>3
  <2>10. QED BY <2>2, <2>6, <2>7, <2>8, <2>9 DEF HandleInv
<1>3. ASSUME UNCHANGED vars
      PROVE  HandleInv'
  BY <1>3, Stutter
<1>4. QED BY <1>1, <1>2, <1>3 DEF CreateSender, OutOfMemory

\* The free helper of a sender whose handle is kept in memory.
LEMMA SenderLeavesHandle ==
  ASSUME HandleInv, NEW s \in Sender, NEW m \in Memory, dest[s] = m,
         dest' = [dest EXCEPT ![s] = Null],
         UNCHANGED <<handles, source>>,
         \/ heap[m].refcount > 1 /\ heap' = Leave(m)
         \/ heap[m].refcount <= 1 /\ UNCHANGED heap
  PROVE  HandleInv'
<1>0. TypeOK /\ SendersCounted /\ Sound /\ Surplus /\ Attached
  BY DEF HandleInv
<1>1. /\ dest' \in [Sender -> Memory \cup {Null}]
      /\ Cardinality(SendersOf(m)') = Cardinality(SendersOf(m)) - 1
      /\ Cardinality(SendersOf(m)) >= 1
      /\ SendersOf(m) # {}
      /\ \A l \in Memory : l # m => SendersOf(l)' = SendersOf(l)
  BY <1>0, SenderLeaves
<1>2. /\ m \in Allocated
      /\ heap[m].refcount \in 0 .. Cardinality(Sender) + 1
      /\ heap[m].refcount >= Cardinality(SendersOf(m))
      /\ heap[m].refcount <= Cardinality(SendersOf(m)) + 1
  BY <1>0, <1>1, HeapFacts DEF SendersCounted, Surplus
<1>3. Cardinality(SendersOf(m)) \in Nat /\ Cardinality(Sender) \in Nat
      /\ IsFiniteSet(SendersOf(m)')
  <2>1. IsFiniteSet(SendersOf(m)')
    BY SenderAssumption, FS_Subset DEF SendersOf
  <2>2. QED BY <2>1, SendersFinite
<1>4. /\ heap' \in [Memory -> Handle \cup {Null}]
      /\ heap'[m] \in Handle
      /\ heap'[m].refcount \in Nat
      /\ \/ heap'[m].refcount >= Cardinality(SendersOf(m)')
         \/ SendersOf(m)' = {}
      /\ heap'[m].refcount <= Cardinality(SendersOf(m)') + 1
      /\ heap'[m].name = heap[m].name /\ heap'[m].filter = heap[m].filter
      /\ \A l \in Memory : l # m => heap'[l] = heap[l]
  <2>1. heap[m] \in Handle
    BY <1>0, <1>2, HeapFacts
  <2>2. CASE heap[m].refcount > 1 /\ heap' = Leave(m)
    <3>1. heap[m].refcount - 1 \in 0 .. Cardinality(Sender) + 1
      BY <1>2, <1>3, <2>2
    <3>2. /\ heap' \in [Memory -> Handle \cup {Null}]
          /\ heap'[m] \in Handle
          /\ heap'[m].refcount = heap[m].refcount - 1
          /\ heap'[m].name = heap[m].name /\ heap'[m].filter = heap[m].filter
          /\ \A l \in Memory : l # m => heap'[l] = heap[l]
      BY <1>0, <2>1, <2>2, <3>1 DEF TypeOK, Handle, Leave
    <3>3. QED BY <1>1, <1>2, <1>3, <3>1, <3>2
  <2>3. CASE heap[m].refcount <= 1 /\ UNCHANGED heap
    <3>1. Cardinality(SendersOf(m)') = 0
      BY <1>1, <1>2, <1>3, <2>3
    <3>2. SendersOf(m)' = {}
      BY <1>3, <3>1, FS_EmptySet
    <3>3. QED BY <1>0, <1>2, <1>3, <2>1, <2>3, <3>1, <3>2 DEF TypeOK
  <2>4. QED BY <2>2, <2>3
<1>5. Allocated' = Allocated
  BY <1>2, <1>4, NullAssumption DEF Allocated
<1>6. Listed' = Listed /\ Sound'
  BY <1>0, <1>4, <1>5, SameList DEF Allocated
<1>7. TypeOK'
  BY <1>0, <1>1, <1>4 DEF TypeOK
<1>8. SendersCounted'
  <2> SUFFICES ASSUME NEW l \in Memory, SendersOf(l)' # {}
               PROVE  l \in Allocated' /\ heap'[l].refcount >= Cardinality(SendersOf(l)')
    BY DEF SendersCounted
  <2>1. CASE l = m
    BY <1>2, <1>4, <1>5, <2>1
  <2>2. CASE l # m
    BY <1>0, <1>1, <1>4, <1>5, <2>2 DEF SendersCounted
  <2>3. QED BY <2>1, <2>2
<1>9. Surplus'
  <2> SUFFICES ASSUME NEW l \in Allocated
               PROVE  heap'[l].refcount <= Cardinality(SendersOf(l)') + 1
    BY <1>5 DEF Surplus
  <2>1. l \in Memory
    BY DEF Allocated
  <2>2. QED BY <1>0, <1>1, <1>4, <2>1 DEF Surplus
<1>10. Attached'
  <2>1. \A l \in Listed : heap'[l].name = heap[l].name /\ heap'[l].filter = heap[l].filter
    BY <1>0, <1>4, ListedFacts
  <2>2. QED BY <1>0, <1>5, <1>6, <2>1 DEF Attached
<1>11. QED BY <1>6, <1>7, <1>8, <1>9, <1>10 DEF HandleInv

\* The same when the handle is freed.
LEMMA SenderFreesHandle ==
  ASSUME HandleInv, NEW s \in Sender, NEW m \in Memory, dest[s] = m,
         dest' = [dest EXCEPT ![s] = Null], UNCHANGED source,
         heap[m].refcount <= 1, heap[m].filter = Null, Freed(m)
  PROVE  HandleInv'
<1>0. TypeOK /\ SendersCounted /\ Sound /\ Surplus /\ Attached
  BY DEF HandleInv
<1>1. /\ dest' \in [Sender -> Memory \cup {Null}]
      /\ Cardinality(SendersOf(m)') = Cardinality(SendersOf(m)) - 1
      /\ Cardinality(SendersOf(m)) >= 1
      /\ SendersOf(m) # {}
      /\ \A l \in Memory : l # m => SendersOf(l)' = SendersOf(l)
  BY <1>0, SenderLeaves
<1>2. SendersOf(m)' = {}
  <2>1. IsFiniteSet(SendersOf(m)') /\ Cardinality(SendersOf(m)) \in Nat
    BY SenderAssumption, FS_Subset, SendersFinite DEF SendersOf
  <2>2. heap[m].refcount \in 0 .. Cardinality(Sender) + 1
        /\ heap[m].refcount >= Cardinality(SendersOf(m))
    BY <1>0, <1>1, HeapFacts DEF SendersCounted
  <2>3. Cardinality(Sender) \in Nat
    BY SendersFinite
  <2>4. Cardinality(SendersOf(m)') = 0
    BY <1>1, <2>1, <2>2, <2>3
  <2>5. QED BY <2>1, <2>4, FS_EmptySet
<1>3. /\ heap' \in [Memory -> Handle \cup {Null}]
      /\ \A l \in Memory : l # m => heap'[l] = heap[l]
      /\ Allocated' = Allocated \ {m}
      /\ m \notin Listed' /\ Listed' \subseteq Listed
      /\ Sound'
      /\ Allocated' \subseteq Listed' => Allocated \subseteq Listed /\ Listed' = Listed \ {m}
  BY <1>0, FreedFacts
<1>4. TypeOK'
  BY <1>0, <1>1, <1>3 DEF TypeOK, Freed
<1>5. SendersCounted'
  BY <1>0, <1>1, <1>2, <1>3 DEF SendersCounted
<1>6. Surplus'
  <2> SUFFICES ASSUME NEW l \in Allocated, l # m
               PROVE  heap'[l].refcount <= Cardinality(SendersOf(l)') + 1
    BY <1>3 DEF Surplus
  <2>1. l \in Memory
    BY DEF Allocated
  <2>2. QED BY <1>0, <1>1, <1>3, <2>1 DEF Surplus
<1>7. Attached'
  <2> SUFFICES ASSUME Allocated' \subseteq Listed', NEW r \in Receiver, source[r] # Null
               PROVE  \E l \in Listed' : heap'[l].name = source[r] /\ heap'[l].filter = r
    BY DEF Attached
  <2>1. PICK l \in Listed : heap[l].name = source[r] /\ heap[l].filter = r
    BY <1>0, <1>3 DEF Attached
  <2>2. l \in Memory /\ l # m
    BY <1>0, <2>1, NullAssumption, ListedFacts
  <2>3. QED BY <1>3, <2>1, <2>2
<1>8. QED BY <1>3, <1>4, <1>5, <1>6, <1>7 DEF HandleInv

\* The free helper of a sender, which frees the handle, leaves it or keeps it.
LEMMA FreeSenderStep ==
  ASSUME HandleInv, NEW s \in Sender, FreeSender(s)
  PROVE  HandleInv'
<1> DEFINE m == dest[s]
<1>0. TypeOK /\ SendersCounted /\ Sound
  BY DEF HandleInv
<1>1. /\ m \in Memory
      /\ dest' = [dest EXCEPT ![s] = Null] /\ UNCHANGED source
      /\ \/ ~LastSender(heap[m]) /\ heap' = Leave(m) /\ UNCHANGED handles
         \/ LastSender(heap[m]) /\ heap[m].filter = Null /\ Free(m)
         \/ LastSender(heap[m]) /\ heap[m].filter # Null /\ UNCHANGED <<handles, heap>>
  BY <1>0 DEF FreeSender, TypeOK
<1>2. heap[m].refcount \in 0 .. Cardinality(Sender) + 1
  <2>1. m \in Allocated
    BY <1>0, <1>1 DEF SendersCounted, SendersOf
  <2>2. QED BY <1>0, <2>1, HeapFacts
<1> HIDE DEF m
<1>3. m = dest[s]
  BY DEF m
<1>4. CASE ~LastSender(heap[m]) /\ heap' = Leave(m) /\ UNCHANGED handles
  <2>1. heap[m].refcount > 1
    BY <1>2, <1>4, SendersFinite DEF LastSender
  <2>2. QED BY <1>1, <1>3, <1>4, <2>1, SenderLeavesHandle
<1>5. CASE LastSender(heap[m]) /\ heap[m].filter = Null /\ Free(m)
  <2>1. heap[m].refcount <= 1
    BY <1>5 DEF LastSender
  <2>2. UNCHANGED <<handles, heap>> \/ Freed(m)
    BY <1>0, <1>1, <1>5, FreeFacts
  <2>3. CASE UNCHANGED <<handles, heap>>
    BY <1>1, <1>3, <2>1, <2>3, SenderLeavesHandle
  <2>4. CASE Freed(m)
    BY <1>1, <1>3, <1>5, <2>1, <2>4, SenderFreesHandle
  <2>5. QED BY <2>2, <2>3, <2>4
<1>6. CASE LastSender(heap[m]) /\ heap[m].filter # Null /\ UNCHANGED <<handles, heap>>
  <2>1. heap[m].refcount <= 1
    BY <1>6 DEF LastSender
  <2>2. QED BY <1>1, <1>3, <1>6, <2>1, SenderLeavesHandle
<1>7. QED BY <1>1, <1>4, <1>5, <1>6

\* Changes of the filter alone leave what is about senders.
LEMMA FilterChanges ==
  ASSUME TypeOK, SendersCounted, Sound, Surplus, NEW m \in Allocated,
         NEW f \in Receiver \cup {Null},
         heap' = [heap EXCEPT ![m].filter = f], UNCHANGED <<handles, dest>>
  PROVE  /\ heap' \in [Memory -> Handle \cup {Null}]
         /\ heap'[m].name = heap[m].name /\ heap'[m].filter = f
         /\ \A l \in Memory : l # m => heap'[l] = heap[l]
         /\ Allocated' = Allocated /\ Listed' = Listed
         /\ Sound' /\ SendersCounted' /\ Surplus'
<1>1. m \in Memory /\ heap[m] \in Handle
  BY HeapFacts
<1>2. /\ heap' \in [Memory -> Handle \cup {Null}]
      /\ heap'[m] \in Handle
      /\ heap'[m].refcount = heap[m].refcount
      /\ heap'[m].name = heap[m].name /\ heap'[m].filter = f
      /\ \A l \in Memory : l # m => heap'[l] = heap[l]
  BY <1>1 DEF TypeOK, Handle
<1>3. Allocated' = Allocated
  BY <1>1, <1>2, NullAssumption DEF Allocated
<1>4. Listed' = Listed /\ Sound'
  BY <1>2, <1>3, SameList DEF Allocated
<1>5. \A l \in Memory : SendersOf(l)' = SendersOf(l) /\ heap'[l].refcount = heap[l].refcount
  BY <1>2 DEF SendersOf
<1>6. SendersCounted'
  BY <1>3, <1>5 DEF SendersCounted
<1>7. Surplus'
  BY <1>3, <1>5 DEF Surplus, Allocated
<1>8. QED BY <1>2, <1>3, <1>4, <1>6, <1>7

\* evf_handle_attach: to the handle found, to a new one, or not at all.
LEMMA CreateReceiverStep ==
  ASSUME HandleInv, NEW r \in Receiver, NEW n \in Name, CreateReceiver(r, n)
  PROVE  HandleInv'
<1>0. TypeOK /\ SendersCounted /\ Sound /\ Surplus /\ Attached /\ source[r] = Null
  BY DEF HandleInv, CreateReceiver
<1>1. ASSUME NEW m \in Lookup(n), ~Taken(m),
             heap' = [heap EXCEPT ![m].filter = r],
             source' = [source EXCEPT ![r] = n],
             UNCHANGED <<handles, dest>>
      PROVE  HandleInv'
  <2>1. m \in Listed /\ m \in Allocated /\ heap[m].name = n /\ heap[m].filter = Null
    BY <1>0, <1>1, LookupFacts DEF Sound, Taken
  <2>2. /\ heap' \in [Memory -> Handle \cup {Null}]
        /\ heap'[m].name = heap[m].name /\ heap'[m].filter = r
        /\ \A l \in Memory : l # m => heap'[l] = heap[l]
        /\ Allocated' = Allocated /\ Listed' = Listed
        /\ Sound' /\ SendersCounted' /\ Surplus'
    BY <1>0, <1>1, <2>1, FilterChanges
  <2>3. /\ source' \in [Receiver -> Name \cup {Null}]
        /\ \A q \in Receiver : source'[q] = IF q = r THEN n ELSE source[q]
    BY <1>0, <1>1 DEF TypeOK
  <2>4. TypeOK'
    BY <1>0, <1>1, <2>2, <2>3 DEF TypeOK
  <2>5. Attached'
    <3> SUFFICES ASSUME Allocated \subseteq Listed, NEW q \in Receiver, source'[q] # Null
                 PROVE  \E l \in Listed : heap'[l].name = source'[q] /\ heap'[l].filter = q
      BY <2>2 DEF Attached
    <3>1. CASE q = r
      BY <2>1, <2>2, <2>3, <3>1
    <3>2. CASE q # r
      <4>1. PICK l \in Listed : heap[l].name = source[q] /\ heap[l].filter = q
        BY <1>0, <2>3, <3>2 DEF Attached
      <4>2. l \in Memory /\ l # m
        BY <1>0, <2>1, <4>1, NullAssumption, ListedFacts
      <4>3. QED BY <2>2, <2>3, <3>2, <4>1, <4>2
    <3>3. QED BY <3>1, <3>2
  <2>6. QED BY <2>2, <2>4, <2>5 DEF HandleInv
<1>2. ASSUME NEW m \in Memory, Lookup(n) = {},
             Allocate(m, n, 0, r),
             source' = [source EXCEPT ![r] = n],
             UNCHANGED dest
      PROVE  HandleInv'
  <2>1. 0 \in 0 .. Cardinality(Sender) + 1
    BY SenderAssumption, FS_CardinalityType
  <2>2. /\ heap' = [heap EXCEPT ![m] = [name |-> n, refcount |-> 0, filter |-> r]]
        /\ heap' \in [Memory -> Handle \cup {Null}]
        /\ handles' \in Seq(Memory)
        /\ m \notin Allocated /\ m \notin Listed
        /\ Allocated' = Allocated \cup {m}
        /\ Listed' = Listed \cup {m}
        /\ Sound'
    BY <1>0, <1>2, <2>1, AllocateFacts
  <2>3. SendersOf(m) = {} /\ Cardinality(SendersOf(m)) = 0
    BY <1>0, <2>2, NoSenders
  <2>4. /\ heap'[m].name = n /\ heap'[m].refcount = 0 /\ heap'[m].filter = r
        /\ \A l \in Memory : l # m => heap'[l] = heap[l]
    BY <1>0, <2>2 DEF TypeOK
  <2>5. \A l \in Memory : SendersOf(l)' = SendersOf(l)
    BY <1>2 DEF SendersOf
  <2>6. /\ source' \in [Receiver -> Name \cup {Null}]
        /\ \A q \in Receiver : source'[q] = IF q = r THEN n ELSE source[q]
    BY <1>0, <1>2 DEF TypeOK
  <2>7. TypeOK'
    BY <1>0, <1>2, <2>2, <2>6 DEF TypeOK
  <2>8. SendersCounted'
    BY <1>0, <2>2, <2>3, <2>4, <2>5 DEF SendersCounted
  <2>9. Surplus'
    <3> SUFFICES ASSUME NEW l \in Allocated \cup {m}
                 PROVE  heap'[l].refcount <= Cardinality(SendersOf(l)') + 1
      BY <2>2 DEF Surplus
    <3>1. CASE l = m
      BY <2>3, <2>4, <2>5, <3>1
    <3>2. CASE l # m
      <4>1. l \in Memory /\ l \in Allocated
        BY <3>2 DEF Allocated
      <4>2. QED BY <1>0, <2>4, <2>5, <3>2, <4>1 DEF Surplus
    <3>3. QED BY <3>1, <3>2
  <2>10. Attached'
    <3> SUFFICES ASSUME Allocated' \subseteq Listed', NEW q \in Receiver, source'[q] # Null
                 PROVE  \E l \in Listed' : heap'[l].name = source'[q] /\ heap'[l].filter = q
      BY DEF Attached
    <3>1. CASE q = r
      BY <2>2, <2>4, <2>6, <3>1
    <3>2. CASE q # r
      <4>1. Allocated \subseteq Listed
        BY <2>2
      <4>2. PICK l \in Listed : heap[l].name = source[q] /\ heap[l].filter = q
        BY <1>0, <2>6, <3>2, <4>1 DEF Attached
      <4>3. l \in Memory /\ l # m
        BY <1>0, <2>2, ListedFacts
      <4>4. QED BY <2>2, <2>4, <2>6, <3>2, <4>2, <4>3
    <3>3. QED BY <3>1, <3>2
  <2>11. QED BY <2>2, <2>7, <2>8, <2>9, <2>10 DEF HandleInv
<1>3. ASSUME UNCHANGED vars
      PROVE  HandleInv'
  BY <1>3, Stutter
<1>4. QED BY <1>1, <1>2, <1>3 DEF CreateReceiver, OutOfMemory

\* evf_handle_detach, which forgets the filter or frees the handle.
LEMMA FreeReceiverStep ==
  ASSUME HandleInv, NEW r \in Receiver, FreeReceiver(r)
  PROVE  HandleInv'
<1> DEFINE n == source[r]
<1>0. TypeOK /\ SendersCounted /\ Sound /\ Surplus /\ Attached
  BY DEF HandleInv
<1>1. /\ n \in Name
      /\ source' = [source EXCEPT ![r] = Null] /\ UNCHANGED dest
      /\ \/ UNCHANGED <<handles, heap>>
         \/ \E m \in Lookup(n) :
              \/ ~Unused(heap[m]) /\ heap' = Forget(m) /\ UNCHANGED handles
              \/ Unused(heap[m]) /\ Free(m)
  BY <1>0 DEF FreeReceiver, TypeOK
<1>2. /\ source' \in [Receiver -> Name \cup {Null}]
      /\ source'[r] = Null
      /\ \A q \in Receiver : q # r => source'[q] = source[q]
  BY <1>0, <1>1 DEF TypeOK
<1>3. CASE UNCHANGED <<handles, heap>>
  <2>1. Allocated' = Allocated /\ Listed' = Listed /\ \A l \in Memory : SendersOf(l)' = SendersOf(l)
    BY <1>1, <1>3 DEF Allocated, Listed, SendersOf
  <2>2. TypeOK' /\ Sound'
    BY <1>0, <1>1, <1>2, <1>3, <2>1 DEF TypeOK, Sound, NamesApart, NoTwice
  <2>3. SendersCounted' /\ Surplus'
    BY <1>0, <1>3, <2>1 DEF SendersCounted, Surplus, Allocated
  <2>4. Attached'
    BY <1>0, <1>2, <1>3, <2>1 DEF Attached
  <2>5. QED BY <2>2, <2>3, <2>4 DEF HandleInv
<1>4. ASSUME NEW m \in Lookup(n),
             \/ ~Unused(heap[m]) /\ heap' = Forget(m) /\ UNCHANGED handles
             \/ Unused(heap[m]) /\ Freed(m)
      PROVE  HandleInv'
  <2>1. m \in Listed /\ m \in Memory /\ m \in Allocated /\ heap[m].name = n
    BY <1>0, <1>1, LookupFacts, ListedFacts DEF Sound
  <2>2. ASSUME Allocated \subseteq Listed, NEW q \in Receiver, source'[q] # Null
        PROVE  \E l \in Listed \ {m} : heap[l].name = source'[q] /\ heap[l].filter = q
    <3>1. q # r /\ source'[q] = source[q]
      BY <1>2, <2>2
    <3>2. PICK l \in Listed : heap[l].name = source[q] /\ heap[l].filter = q
      BY <1>0, <2>2, <3>1 DEF Attached
    <3>3. PICK i \in Listed : heap[i].name = n /\ heap[i].filter = r
      <4>1. source[r] # Null
        BY <1>1, NullAssumption
      <4>2. QED BY <1>0, <2>2, <4>1 DEF Attached
    <3>4. i = m
      BY <1>0, <2>1, <3>3 DEF Sound, NamesApart
    <3>5. QED BY <3>1, <3>2, <3>3, <3>4
  <2>3. CASE ~Unused(heap[m]) /\ heap' = Forget(m) /\ UNCHANGED handles
    <3>1. /\ heap' \in [Memory -> Handle \cup {Null}]
          /\ \A l \in Memory : l # m => heap'[l] = heap[l]
          /\ Allocated' = Allocated /\ Listed' = Listed
          /\ Sound' /\ SendersCounted' /\ Surplus'
      BY <1>0, <1>1, <2>1, <2>3, FilterChanges DEF Forget
    <3>2. TypeOK'
      BY <1>0, <1>1, <1>2, <2>3, <3>1 DEF TypeOK
    <3>3. Attached'
      BY <1>0, <2>2, <3>1, ListedFacts DEF Attached
    <3>4. QED BY <3>1, <3>2, <3>3 DEF HandleInv
  <2>4. CASE Unused(heap[m]) /\ Freed(m)
    <3>1. /\ heap' \in [Memory -> Handle \cup {Null}]
          /\ \A l \in Memory : l # m => heap'[l] = heap[l]
          /\ Allocated' = Allocated \ {m}
          /\ m \notin Listed' /\ Listed' \subseteq Listed
          /\ Sound'
          /\ Allocated' \subseteq Listed' => Allocated \subseteq Listed /\ Listed' = Listed \ {m}
      BY <1>0, <2>1, <2>4, FreedFacts
    <3>2. TypeOK'
      BY <1>0, <1>1, <1>2, <2>4, <3>1 DEF TypeOK, Freed
    <3>3. SendersOf(m) = {}
      <4>1. Cardinality(SendersOf(m)) = 0 \/ SendersOf(m) = {}
        <5>1. heap[m].refcount = 0
          BY <2>4 DEF Unused
        <5>2. QED BY <1>0, <2>1, <5>1, SendersFinite DEF SendersCounted
      <4>2. QED BY <2>1, <4>1, SendersFinite, FS_EmptySet
    <3>4. \A l \in Memory : SendersOf(l)' = SendersOf(l)
      BY <1>1 DEF SendersOf
    <3>5. SendersCounted'
      BY <1>0, <2>1, <3>1, <3>3, <3>4 DEF SendersCounted
    <3>6. Surplus'
      BY <1>0, <3>1, <3>4 DEF Surplus, Allocated
    <3>7. Attached'
      BY <1>0, <2>2, <3>1, ListedFacts DEF Attached
    <3>8. QED BY <3>1, <3>2, <3>5, <3>6, <3>7 DEF HandleInv
  <2>5. QED BY <1>4, <2>3, <2>4
<1>5. ASSUME NEW m \in Lookup(n), Unused(heap[m]), Free(m)
      PROVE  HandleInv'
  <2>1. m \in Memory
    BY <1>0, <1>1, LookupFacts, ListedFacts
  <2>2. UNCHANGED <<handles, heap>> \/ Freed(m)
    BY <1>0, <1>5, <2>1, FreeFacts
  <2>3. QED BY <1>3, <1>4, <1>5, <2>2
<1>6. CASE \E m \in Lookup(n) :
             \/ ~Unused(heap[m]) /\ heap' = Forget(m) /\ UNCHANGED handles
             \/ Unused(heap[m]) /\ Free(m)
  <2>1. PICK m \in Lookup(n) :
             \/ ~Unused(heap[m]) /\ heap' = Forget(m) /\ UNCHANGED handles
             \/ Unused(heap[m]) /\ Free(m)
    BY <1>6
  <2>2. CASE ~Unused(heap[m]) /\ heap' = Forget(m) /\ UNCHANGED handles
    BY <1>4, <2>2
  <2>3. CASE Unused(heap[m]) /\ Free(m)
    BY <1>5, <2>3
  <2>4. QED BY <2>1, <2>2, <2>3
<1>7. QED BY <1>1, <1>3, <1>6

---------------------------------------------------------------------------

\* Every step keeps the inductive invariant.
LEMMA HandleStep == HandleInv /\ [Next]_vars => HandleInv'
<1> SUFFICES ASSUME HandleInv, [Next]_vars
             PROVE  HandleInv'
  OBVIOUS
<1>1. CASE UNCHANGED vars
  BY <1>1, Stutter
<1>2. ASSUME NEW s \in Sender, FreeSender(s) \/ \E n \in Name : CreateSender(s, n)
      PROVE  HandleInv'
  <2>1. CASE FreeSender(s)
    BY <2>1, FreeSenderStep
  <2>2. CASE \E n \in Name : CreateSender(s, n)
    BY <2>2, CreateSenderStep
  <2>3. QED BY <1>2, <2>1, <2>2
<1>3. ASSUME NEW r \in Receiver, FreeReceiver(r) \/ \E n \in Name : CreateReceiver(r, n)
      PROVE  HandleInv'
  <2>1. CASE FreeReceiver(r)
    BY <2>1, FreeReceiverStep
  <2>2. CASE \E n \in Name : CreateReceiver(r, n)
    BY <2>2, CreateReceiverStep
  <2>3. QED BY <1>3, <2>1, <2>2
<1>4. QED BY <1>1, <1>2, <1>3 DEF Next

\* The inductive invariant holds of the empty list.
LEMMA HandleInit == Init => HandleInv
<1> SUFFICES ASSUME Init
             PROVE  HandleInv
  OBVIOUS
<1>1. /\ handles = <<>>
      /\ heap = [m \in Memory |-> Null]
      /\ dest = [s \in Sender |-> Null]
      /\ source = [r \in Receiver |-> Null]
  BY DEF Init
<1>2. TypeOK
  BY <1>1 DEF TypeOK
<1>3. Allocated = {} /\ Listed = {} /\ DOMAIN handles = {}
  BY <1>1 DEF Allocated, Listed, ToSet
<1>4. \A m \in Memory : SendersOf(m) = {}
  BY <1>1, NullAssumption DEF SendersOf
<1>5. QED BY <1>1, <1>2, <1>3, <1>4
         DEF HandleInv, SendersCounted, Sound, NamesApart, NoTwice, Surplus, Attached

\* Every state of the handles satisfies the inductive invariant.
THEOREM HandleInvariant == Spec => []HandleInv
<1>1. HandleInv /\ [Next]_vars => HandleInv'
  BY HandleStep
<1>2. QED BY <1>1, HandleInit, PTL DEF Spec

\* All values stay in their sets; above all, a count never exceeds the number of
\* senders there can be by more than 1 (evf_handle.c).
THEOREM TypeCorrect == Spec => []TypeOK
<1>1. HandleInv => TypeOK
  BY DEF HandleInv
<1>2. QED BY <1>1, HandleInvariant, PTL

\* No sender is left with a handle that has been freed, and the list is sound,
\* for all that handle_free does to it.
THEOREM HandlesSafe == Spec => [](SendersCounted /\ ListSound)
<1>1. HandleInv => SendersCounted /\ ListSound
  BY SoundIsListSound DEF HandleInv
<1>2. QED BY <1>1, HandleInvariant, PTL

\* The list of handles holds only live memory, no node and no name twice.
THEOREM ListStaysSound == Spec => []ListSound
<1>1. QED BY HandlesSafe, PTL

\* Both ends of a name meet, whichever comes first, while the list is complete
\* (evf_handle.h: "we do not depend on order of handle create/attach calls").
THEOREM EndsMeet == Spec => []Connected
<1>1. HandleInv => Connected
  <2> SUFFICES ASSUME HandleInv, Allocated \subseteq ToSet(handles),
                      NEW s \in Sender, NEW r \in Receiver,
                      dest[s] # Null, source[r] = heap[dest[s]].name
               PROVE  heap[dest[s]].filter = r
    BY DEF Connected
  <2>1. TypeOK /\ SendersCounted /\ Sound /\ Attached
    BY DEF HandleInv
  <2>2. dest[s] \in Memory /\ s \in SendersOf(dest[s])
    BY <2>1 DEF TypeOK, SendersOf
  <2>3. dest[s] \in Allocated /\ dest[s] \in Listed
    BY <2>1, <2>2 DEF SendersCounted, Listed
  <2>4. source[r] # Null
    <3>1. heap[dest[s]].name \in Name
      BY <2>1, <2>3, HeapFacts
    <3>2. QED BY <3>1, NullAssumption
  <2>5. PICK m \in Listed : heap[m].name = source[r] /\ heap[m].filter = r
    BY <2>1, <2>4 DEF Attached, Listed
  <2>6. m = dest[s]
    BY <2>1, <2>3, <2>5 DEF Sound, NamesApart
  <2>7. QED BY <2>5, <2>6
<1>2. QED BY <1>1, HandleInvariant, PTL
=============================================================================
