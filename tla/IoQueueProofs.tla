--------------------------- MODULE IoQueueProofs ---------------------------
(* Theorems about IoQueue, for every set of descriptors.                   *)
EXTENDS IoQueue, ListLemmas, SequenceTheorems, TLAPS

---------------------------------------------------------------------------
(* Strictly descending lists.                                              *)

Descending(s) == \A i, j \in 1 .. Len(s) : i < j => s[i] > s[j]

\* list_insert keeps a descending list descending when fd is not in it, and
\* adds exactly fd.
LEMMA InsertDescending ==
  ASSUME NEW S \in SUBSET Nat, NEW s \in Seq(S), NEW e \in S,
         NEW p \in InsertPos(s, e), Descending(s), e \notin ToSet(s)
  PROVE  /\ Descending(InsertAt(s, p, e))
         /\ ToSet(InsertAt(s, p, e)) = ToSet(s) \cup {e}
<1> DEFINE t == InsertAt(s, p, e)
<1>0. /\ Len(s) \in Nat
      /\ DOMAIN s = 1 .. Len(s)
      /\ \A i \in 1 .. Len(s) : s[i] \in Nat /\ s[i] # e
  BY LenProperties, ElementOfSeq DEF ToSet
<1>1. /\ p \in 1 .. Len(s) + 1
      /\ \A i \in 1 .. p - 1 : s[i] > e
      /\ p <= Len(s) => s[p] <= e
  BY DEF InsertPos
<1>2. /\ t \in Seq(S) /\ Len(t) = Len(s) + 1
      /\ \A i \in 1 .. Len(s) + 1 :
           t[i] = IF i < p THEN s[i] ELSE IF i = p THEN e ELSE s[i - 1]
  BY <1>1, InsertAtFacts
<1>3. DOMAIN t = 1 .. Len(s) + 1
  BY <1>2, LenProperties
<1> HIDE DEF t
<1>4. \A i \in 1 .. Len(s) : i >= p => s[i] < e
  <2> SUFFICES ASSUME NEW i \in 1 .. Len(s), i >= p
               PROVE  s[i] < e
    OBVIOUS
  <2>1. p \in 1 .. Len(s) /\ s[p] < e
    BY <1>0, <1>1
  <2>2. i = p \/ s[p] > s[i]
    BY <1>0, <2>1 DEF Descending
  <2>3. QED BY <1>0, <2>1, <2>2
<1>5. Descending(t)
  <2> SUFFICES ASSUME NEW i \in 1 .. Len(s) + 1, NEW j \in 1 .. Len(s) + 1, i < j
               PROVE  t[i] > t[j]
    BY <1>2 DEF Descending
  <2>1. CASE j < p
    BY <1>0, <1>1, <1>2, <2>1 DEF Descending
  <2>2. CASE j = p
    BY <1>0, <1>1, <1>2, <2>2
  <2>3. CASE i < p /\ p < j
    <3>1. t[i] = s[i] /\ t[j] = s[j - 1] /\ j - 1 \in 1 .. Len(s) /\ (i < j - 1 \/ i = j - 1)
      BY <1>0, <1>1, <1>2, <2>3
    <3>2. s[i] > e /\ j - 1 \in 1 .. Len(s) /\ e > s[j - 1] /\ i \in 1 .. Len(s)
      BY <1>0, <1>1, <1>4, <2>3
    <3>3. t[i] = s[i] /\ t[j] = s[j - 1]
      BY <1>0, <1>1, <1>2, <2>3
    <3>4. QED BY <1>0, <3>2, <3>3
  <2>4. CASE i = p
    <3>1. j - 1 \in 1 .. Len(s) /\ j - 1 >= p
      BY <1>0, <1>1, <2>4
    <3>2. t[i] = e /\ t[j] = s[j - 1]
      BY <1>0, <1>1, <1>2, <2>4
    <3>3. QED BY <1>0, <1>4, <3>1, <3>2
  <2>5. CASE p < i
    <3>1. i - 1 \in 1 .. Len(s) /\ j - 1 \in 1 .. Len(s) /\ i - 1 < j - 1
      BY <1>0, <1>1, <2>5
    <3>2. t[i] = s[i - 1] /\ t[j] = s[j - 1]
      BY <1>0, <1>1, <1>2, <2>5
    <3>3. QED BY <3>1, <3>2 DEF Descending
  <2>6. QED BY <1>0, <1>1, <2>1, <2>2, <2>3, <2>4, <2>5
<1>6. ToSet(t) = ToSet(s) \cup {e}
  <2>1. ASSUME NEW x \in ToSet(t) PROVE x \in ToSet(s) \cup {e}
    <3>1. PICK i \in 1 .. Len(s) + 1 : x = t[i]
      BY <1>3 DEF ToSet
    <3>2. i < p => x = s[i] /\ i \in DOMAIN s
      BY <1>0, <1>1, <1>2, <3>1
    <3>3. i = p => x = e
      BY <1>0, <1>1, <1>2, <3>1
    <3>4. i > p => x = s[i - 1] /\ i - 1 \in DOMAIN s
      BY <1>0, <1>1, <1>2, <3>1
    <3>5. i < p \/ i = p \/ i > p
      BY <1>1
    <3>6. QED BY <3>2, <3>3, <3>4, <3>5 DEF ToSet
  <2>2. e \in ToSet(t)
    <3>1. p \in DOMAIN t /\ t[p] = e
      BY <1>0, <1>1, <1>2, <1>3
    <3>2. QED BY <3>1 DEF ToSet
  <2>3. ASSUME NEW x \in ToSet(s) PROVE x \in ToSet(t)
    <3>1. PICK i \in 1 .. Len(s) : x = s[i]
      BY <1>0 DEF ToSet
    <3>2. i < p => x = t[i] /\ i \in DOMAIN t
      BY <1>0, <1>1, <1>2, <1>3, <3>1
    <3>3. i >= p => x = t[i + 1] /\ i + 1 \in DOMAIN t
      BY <1>0, <1>1, <1>2, <1>3, <3>1
    <3>4. i < p \/ i >= p
      BY <1>1
    <3>5. QED BY <3>2, <3>3, <3>4 DEF ToSet
  <2>4. QED BY <2>1, <2>2, <2>3
<1>7. QED BY <1>5, <1>6 DEF t

\* list_delete keeps a descending list descending and takes out exactly the
\* member it found.
LEMMA RemoveDescending ==
  ASSUME NEW S \in SUBSET Nat, NEW s \in Seq(S), NEW p \in 1 .. Len(s),
         Descending(s)
  PROVE  /\ Descending(RemoveAt(s, p))
         /\ ToSet(RemoveAt(s, p)) = ToSet(s) \ {s[p]}
<1> DEFINE t == RemoveAt(s, p)
<1>0. /\ Len(s) \in Nat
      /\ DOMAIN s = 1 .. Len(s)
      /\ \A i \in 1 .. Len(s) : s[i] \in Nat
  BY LenProperties, ElementOfSeq
<1>1. /\ t \in Seq(S) /\ Len(t) = Len(s) - 1
      /\ \A i \in 1 .. Len(s) - 1 : t[i] = IF i < p THEN s[i] ELSE s[i + 1]
  BY RemoveAtFacts
<1>2. DOMAIN t = 1 .. Len(s) - 1
  BY <1>1, LenProperties
<1>3. \A i \in 1 .. Len(s) : i # p => s[i] # s[p]
  BY <1>0 DEF Descending
<1> HIDE DEF t
<1>4. Descending(t)
  BY <1>0, <1>1 DEF Descending
<1>5. ASSUME NEW x \in ToSet(t) PROVE x \in ToSet(s) \ {s[p]}
  <2>1. PICK i \in 1 .. Len(s) - 1 : x = t[i]
    BY <1>2 DEF ToSet
  <2>2. i < p => x = s[i] /\ i \in DOMAIN s /\ s[i] # s[p]
    BY <1>0, <1>1, <1>3, <2>1
  <2>3. i >= p => x = s[i + 1] /\ i + 1 \in DOMAIN s /\ s[i + 1] # s[p]
    BY <1>0, <1>1, <1>3, <2>1
  <2>4. i < p \/ i >= p
    BY <1>0
  <2>5. QED BY <2>2, <2>3, <2>4 DEF ToSet
<1>6. ASSUME NEW x \in ToSet(s) \ {s[p]} PROVE x \in ToSet(t)
  <2>1. PICK i \in 1 .. Len(s) : x = s[i] /\ i # p
    BY <1>0 DEF ToSet
  <2>2. i < p => x = t[i] /\ i \in DOMAIN t
    BY <1>0, <1>1, <1>2, <2>1
  <2>3. i > p => x = t[i - 1] /\ i - 1 \in DOMAIN t
    BY <1>0, <1>1, <1>2, <2>1
  <2>4. i < p \/ i > p
    BY <1>0, <2>1
  <2>5. QED BY <2>2, <2>3, <2>4 DEF ToSet
<1>7. QED BY <1>4, <1>5, <1>6 DEF t

---------------------------------------------------------------------------
(* Type correctness.                                                       *)

\* Every step keeps the walk's position inside the list, or one past its end,
\* whatever the callbacks add and remove, and the counter in its width.
LEMMA TypeStep == TypeOK /\ [Next]_vars => TypeOK'
<1> USE FdAssumption, CntModulusAssumption, UseAssumption, FlagsAssumption
<1> SUFFICES ASSUME TypeOK, [Next]_vars PROVE TypeOK'
  OBVIOUS
<1>0. /\ Len(members) \in Nat
      /\ DOMAIN members = 1 .. Len(members)
      /\ \A i \in 1 .. Len(members) : members[i] \in Fd
  BY LenProperties, ElementOfSeq DEF TypeOK
<1>1. ASSUME NEW fd \in Fd, Open(fd) PROVE TypeOK'
  BY <1>0, <1>1 DEF Open, TypeOK, queue
<1>2. ASSUME NEW fd \in Fd, Close(fd) PROVE TypeOK'
  BY <1>0, <1>2 DEF Close, TypeOK, queue
<1>3. ASSUME NEW fd \in Fd, Add(fd) PROVE TypeOK'
  <2>1. PICK p \in InsertPos(members, fd) :
           members' = InsertAt(members, p, fd) /\ here' = HereAfterInsert(p)
    BY <1>3 DEF Add
  <2>2. p \in 1 .. Len(members) + 1
    BY DEF InsertPos
  <2>3. members' \in Seq(Fd) /\ Len(members') = Len(members) + 1
    BY <2>1, <2>2, InsertAtFacts DEF TypeOK
  <2>4. DOMAIN members' = 1 .. Len(members) + 1
    BY <2>3, LenProperties
  <2>5. here' \in 0 .. Len(members') + 1 /\ (pc = "call" => here' \in DOMAIN members')
    BY <1>0, <2>1, <2>2, <2>3, <2>4 DEF TypeOK, HereAfterInsert
  <2>6. cnt' \in 0 .. CntModulus - 1
    BY <1>3 DEF Add, TypeOK
  <2>7. here' = 0 <=> here = 0
    BY <1>0, <2>1, <2>2 DEF TypeOK, HereAfterInsert
  <2>8. /\ rfds' = rfds \cup {fd} /\ watched' = watched \cup {fd}
        /\ fresh' = fresh \cup {fd}
        /\ UNCHANGED <<pc, open, ready>>
    BY <1>3 DEF Add, kernel
  <2>9. QED BY <2>3, <2>5, <2>6, <2>7, <2>8 DEF TypeOK
<1>4. ASSUME NEW fd \in Fd, Rem(fd) PROVE TypeOK'
  <2>0. cnt' \in 0 .. CntModulus - 1
    BY <1>4 DEF Rem, RemCnt, TypeOK
  <2>1. CASE fd \notin rfds
    BY <1>4, <2>0, <2>1 DEF Rem, TypeOK, kernel
  <2>2. CASE fd \in rfds
    <3>1. PICK p \in DeletePos(members, fd) :
             members' = RemoveAt(members, p) /\ here' = HereAfterDelete(p)
      BY <1>4, <2>2 DEF Rem
    <3>2. p \in 1 .. Len(members) /\ members[p] = fd
      BY <1>0 DEF DeletePos
    <3>3. members' \in Seq(Fd) /\ Len(members') = Len(members) - 1
      BY <3>1, <3>2, RemoveAtFacts DEF TypeOK
    <3>4. DOMAIN members' = 1 .. Len(members) - 1
      BY <3>3, LenProperties
    <3>5. pc = "call" => here # p
      BY <1>4, <3>2 DEF Rem
    <3>6. here' \in 0 .. Len(members') + 1 /\ (pc = "call" => here' \in DOMAIN members')
      BY <1>0, <3>1, <3>2, <3>3, <3>4, <3>5 DEF TypeOK, HereAfterDelete
    <3>7. here' = 0 <=> here = 0
      BY <1>0, <3>1, <3>2 DEF TypeOK, HereAfterDelete
    <3>8. /\ rfds' = rfds \ {fd} /\ watched' = watched \ {fd}
          /\ UNCHANGED <<pc, open, ready, fresh>>
      BY <1>4 DEF Rem, kernel
    <3>9. QED BY <2>0, <3>3, <3>6, <3>7, <3>8 DEF TypeOK
  <2>3. QED BY <2>1, <2>2
<1>5. ASSUME NEW close \in BOOLEAN, Destroy(close) PROVE TypeOK'
  <2>1. members' \in Seq(Fd) /\ Len(members') \in Nat
    <3>1. CASE members = <<>>
      BY <1>5, <3>1 DEF Destroy
    <3>2. CASE members # <<>>
      <4>1. Len(members) \in 1 .. Len(members)
        BY <1>0, <3>2, EmptySeq DEF TypeOK
      <4>2. members' = <<members[Len(members)]>> /\ members[Len(members)] \in Fd
        BY <1>0, <1>5, <3>2, <4>1 DEF Destroy, Last
      <4>3. QED BY <4>2
    <3>3. QED BY <3>1, <3>2
  <2>2. here' = 0 /\ pc' = "destroyed" /\ cnt' = cnt
    BY <1>5 DEF Destroy, TypeOK
  <2>3. open' \subseteq Fd /\ ready' \subseteq open' /\ watched' = {} /\ rfds' = {} /\ fresh' = {}
    BY <1>5 DEF Destroy, TypeOK
  <2>4. QED BY <2>1, <2>2, <2>3 DEF TypeOK
<1>6. CASE SelectReturn
  <2>1. rfds' \subseteq rfds
    BY <1>6 DEF SelectReturn, SelectResult, Selected
  <2>2. here' = 1 /\ pc' = "walk" /\ fresh' = {}
        /\ UNCHANGED <<members, cnt, open, ready, watched>>
    BY <1>6 DEF SelectReturn, kernel
  <2>3. QED BY <1>0, <2>1, <2>2 DEF TypeOK
<1>7. CASE VisitSkip
  <2>1. here' = here + 1 /\ here \in 1 .. Len(members) /\ rfds' = rfds \cup {members[here]}
        /\ UNCHANGED <<members, cnt, pc, open, ready, watched, fresh>>
    BY <1>0, <1>7 DEF VisitSkip, Rearm, kernel
  <2>2. rfds' \subseteq Fd
    BY <1>0, <2>1 DEF TypeOK
  <2>3. QED BY <1>0, <1>7, <2>1, <2>2 DEF TypeOK, VisitSkip
<1>8. CASE VisitCall
  BY <1>0, <1>8 DEF VisitCall, TypeOK, kernel, queue
<1>9. CASE WalkEnd
  BY <1>0, <1>9 DEF WalkEnd, TypeOK, kernel, queue
<1>10. ASSUME NEW flags \in ReturnFlags, Return(flags) PROVE TypeOK'
  <2>0. here \in 1 .. Len(members)
    BY <1>0, <1>10 DEF Return, TypeOK
  <2>1. members' \in Seq(Fd) /\ here' \in 1 .. Len(members') + 1
    <3>1. CASE "REM" \in flags
      <4>1. PICK p \in DeletePos(members, members[here]) : members' = RemoveAt(members, p)
        BY <1>10, <3>1 DEF Return
      <4>2. p \in 1 .. Len(members)
        BY <1>0 DEF DeletePos
      <4>3. members' \in Seq(Fd) /\ Len(members') = Len(members) - 1
        BY <4>1, <4>2, RemoveAtFacts DEF TypeOK
      <4>4. here' = here
        BY <1>10, <3>1 DEF Return, HereAfterReturn
      <4>5. QED BY <1>0, <2>0, <4>3, <4>4
    <3>2. CASE "REM" \notin flags
      BY <1>0, <1>10, <2>0, <3>2 DEF Return, HereAfterReturn, TypeOK
    <3>3. QED BY <3>1, <3>2
  <2>2. rfds' \subseteq Fd
    BY <1>10 DEF Return, ClearBit, TypeOK
  <2>3. open' \subseteq Fd /\ ready' \subseteq open'
    <3>1. open' = open \/ open' = open \ {members[here]}
      BY <1>10 DEF Return
    <3>2. ready' = ready \cap open' \/ ready' = ready \ {members[here]}
      BY <1>10 DEF Return
    <3>3. QED BY <3>1, <3>2 DEF TypeOK
  <2>4. watched' \subseteq Fd
    BY <1>10 DEF Return, TypeOK
  <2>5. pc' = "walk" /\ UNCHANGED <<cnt, fresh>>
    BY <1>10 DEF Return
  <2>6. QED BY <2>1, <2>2, <2>3, <2>4, <2>5, LenProperties DEF TypeOK
<1>11. ASSUME NEW fd \in Fd, Data(fd) PROVE TypeOK'
  BY <1>0, <1>11 DEF Data, TypeOK, queue
<1>12. CASE UNCHANGED vars
  BY <1>12 DEF vars, TypeOK
<1>13. QED
  BY <1>1, <1>2, <1>3, <1>4, <1>5, <1>6, <1>7, <1>8, <1>9, <1>10, <1>11, <1>12
     DEF Next, Application, Walk, Returns

\* The type invariant holds for every set of descriptors and every use of the
\* queue the constants allow.
THEOREM TypeCorrect == Spec => []TypeOK
<1>1. Init => TypeOK
  BY CntModulusAssumption DEF Init, TypeOK
<1>2. QED BY <1>1, TypeStep, PTL DEF Spec

---------------------------------------------------------------------------
(* The list, the bit set and the application agree.                        *)

\* Facts about the current list that every step below uses.
LEMMA ListFacts ==
  ASSUME TypeOK
  PROVE  /\ Len(members) \in Nat
         /\ DOMAIN members = 1 .. Len(members)
         /\ \A i \in 1 .. Len(members) : members[i] \in Fd /\ members[i] \in Nat
         /\ Members = {members[i] : i \in 1 .. Len(members)}
         /\ Sorted <=> Descending(members)
BY LenProperties, ElementOfSeq, FdAssumption
   DEF TypeOK, Members, ToSet, Sorted, Descending

\* In a descending list nothing exceeds the root, so the first argument of
\* select() covers every member.
LEMMA RootIsMax ==
  ASSUME TypeOK, Sorted, rfds \subseteq Members, members # <<>>
  PROVE  Selected = rfds
<1>1. \A fd \in rfds : fd <= members[1]
  <2> SUFFICES ASSUME NEW fd \in rfds PROVE fd <= members[1]
    OBVIOUS
  <2>1. PICK i \in 1 .. Len(members) : fd = members[i]
    BY ListFacts
  <2>2. i = 1 \/ members[1] > members[i]
    BY <2>1, ListFacts DEF Descending
  <2>3. members[1] \in Nat /\ members[i] \in Nat
    BY <2>1, ListFacts
  <2>4. QED BY <2>1, <2>2, <2>3
<1>2. QED BY <1>1 DEF Selected

\* What is left of IInv when the redundant part of WatchesAll is taken out.
CoreInv == /\ TypeOK
           /\ Sorted
           /\ VisitedArmed
           /\ pc = "idle" => Members \subseteq rfds
           /\ ListIsWatched

\* The two forms of the invariant.
LEMMA CoreIsIInv == CoreInv <=> IInv
<1>1. CoreInv => IInv
  BY RootIsMax DEF CoreInv, IInv, WatchesAll, VisitedArmed, ListIsWatched
<1>2. IInv => CoreInv
  BY DEF CoreInv, IInv, WatchesAll
<1>3. QED BY <1>1, <1>2

\* Linking one member into the list; a walk in progress stays on its node.
LEMMA LinkFacts ==
  ASSUME CoreInv, TypeOK', NEW fd \in Fd, Add(fd)
  PROVE  /\ Sorted'
         /\ Members' = Members \cup {fd}
         /\ DOMAIN members' = 1 .. Len(members) + 1
         /\ \E p \in 1 .. Len(members) + 1 :
              /\ here' = IF p <= here THEN here + 1 ELSE here
              /\ \A i \in 1 .. Len(members) + 1 :
                   members'[i] = IF i < p THEN members[i]
                                 ELSE IF i = p THEN fd ELSE members[i - 1]
<1>0. TypeOK /\ Descending(members) /\ fd \notin ToSet(members)
  BY ListFacts DEF CoreInv, ListIsWatched, Add, InApplication, Members
<1>1. PICK p \in InsertPos(members, fd) :
         members' = InsertAt(members, p, fd) /\ here' = HereAfterInsert(p)
  BY DEF Add
<1>2. p \in 1 .. Len(members) + 1
  BY DEF InsertPos
<1>3. members \in Seq(Fd) /\ Fd \in SUBSET Nat
  BY <1>0, FdAssumption DEF TypeOK
<1>4. Descending(members') /\ ToSet(members') = ToSet(members) \cup {fd}
  BY <1>0, <1>1, <1>3, InsertDescending
<1>5. /\ Len(InsertAt(members, p, fd)) = Len(members) + 1
      /\ \A i \in 1 .. Len(members) + 1 :
           InsertAt(members, p, fd)[i] = IF i < p THEN members[i]
                                         ELSE IF i = p THEN fd ELSE members[i - 1]
  BY <1>2, <1>3, InsertAtFacts
<1>6. DOMAIN members' = 1 .. Len(members')
  BY LenProperties DEF TypeOK
<1>7. Sorted' /\ Members' = Members \cup {fd}
  BY <1>4, <1>6 DEF Sorted, Descending, Members
<1>8. here' = IF p <= here THEN here + 1 ELSE here
  BY <1>1 DEF HereAfterInsert
<1>9. /\ DOMAIN members' = 1 .. Len(members) + 1
      /\ \A i \in 1 .. Len(members) + 1 :
           members'[i] = IF i < p THEN members[i]
                         ELSE IF i = p THEN fd ELSE members[i - 1]
  BY <1>1, <1>5, <1>6
<1>10. QED BY <1>2, <1>7, <1>8, <1>9

\* Adding a member, also from a callback in the middle of the walk.
LEMMA AddStep ==
  ASSUME CoreInv, TypeOK', NEW fd \in Fd, Add(fd)
  PROVE  CoreInv'
<1>0. /\ TypeOK
      /\ Members = watched /\ watched \subseteq open
      /\ pc = "idle" \/ pc = "call"
  BY DEF CoreInv, ListIsWatched, Add, InApplication
<1>1. /\ rfds' = rfds \cup {fd} /\ watched' = watched \cup {fd}
      /\ fd \in open \ watched /\ UNCHANGED <<pc, open>>
  BY DEF Add, kernel
<1>2. /\ Sorted' /\ Members' = Members \cup {fd}
      /\ DOMAIN members' = 1 .. Len(members) + 1
  BY LinkFacts
<1>3. PICK p \in 1 .. Len(members) + 1 :
         /\ here' = IF p <= here THEN here + 1 ELSE here
         /\ \A i \in 1 .. Len(members) + 1 :
              members'[i] = IF i < p THEN members[i]
                            ELSE IF i = p THEN fd ELSE members[i - 1]
  BY LinkFacts
<1>4. VisitedArmed'
  <2>1. rfds' \subseteq Members'
    BY <1>1, <1>2 DEF CoreInv, VisitedArmed
  <2>2. CASE pc = "idle"
    BY <1>1, <2>1, <2>2 DEF VisitedArmed
  <2>3. CASE pc = "call"
    <3>1. /\ here \in 1 .. Len(members)
          /\ \A i \in 1 .. Len(members) : i < here => members[i] \in rfds
          /\ members[here] \in rfds
      BY <1>0, <2>3, ListFacts DEF CoreInv, VisitedArmed, TypeOK
    <3>2. here' = IF p <= here THEN here + 1 ELSE here
      BY <1>3
    <3>3. members'[here'] = members[here]
      BY <1>0, <1>3, <3>1, <3>2, ListFacts
    <3>4. ASSUME NEW i \in 1 .. Len(members) + 1, i < here'
          PROVE  members'[i] \in rfds'
      <4>1. i < p => members'[i] = members[i] /\ i \in 1 .. Len(members) /\ i < here
        BY <1>0, <1>3, <3>1, <3>2, <3>4, ListFacts
      <4>2. i = p => members'[i] = fd
        BY <1>0, <1>3, ListFacts
      <4>3. i > p => members'[i] = members[i - 1] /\ i - 1 \in 1 .. Len(members) /\ i - 1 < here
        BY <1>0, <1>3, <3>1, <3>2, <3>4, ListFacts
      <4>4. i < p \/ i = p \/ i > p
        BY <1>3
      <4>5. QED BY <1>1, <3>1, <4>1, <4>2, <4>3, <4>4
    <3>5. QED BY <1>1, <1>2, <2>1, <3>1, <3>3, <3>4 DEF VisitedArmed
  <2>4. QED BY <1>0, <2>2, <2>3
<1>5. pc' = "idle" => Members' \subseteq rfds'
  BY <1>1, <1>2 DEF CoreInv
<1>6. ListIsWatched'
  BY <1>0, <1>1, <1>2 DEF ListIsWatched
<1>7. QED BY <1>2, <1>4, <1>5, <1>6 DEF CoreInv

\* Unlinking one member of a descending list.
LEMMA UnlinkFacts ==
  ASSUME TypeOK, TypeOK', Sorted, NEW p \in 1 .. Len(members),
         members' = RemoveAt(members, p)
  PROVE  /\ Sorted'
         /\ Members' = Members \ {members[p]}
         /\ DOMAIN members' = 1 .. Len(members) - 1
         /\ \A i \in 1 .. Len(members) - 1 :
              members'[i] = IF i < p THEN members[i] ELSE members[i + 1]
<1>1. members \in Seq(Fd) /\ Fd \in SUBSET Nat
  BY FdAssumption DEF TypeOK
<1>2. Descending(members') /\ ToSet(members') = ToSet(members) \ {members[p]}
  BY <1>1, ListFacts, RemoveDescending
<1>3. /\ Len(RemoveAt(members, p)) = Len(members) - 1
      /\ \A i \in 1 .. Len(members) - 1 :
           RemoveAt(members, p)[i] = IF i < p THEN members[i] ELSE members[i + 1]
  BY <1>1, RemoveAtFacts
<1>4. DOMAIN members' = 1 .. Len(members')
  BY LenProperties DEF TypeOK
<1>5. Sorted' /\ Members' = Members \ {members[p]}
  BY <1>2, <1>4 DEF Sorted, Descending, Members
<1>6. QED BY <1>3, <1>4, <1>5

\* Removing a member between two calls of evf_io_queue_wait: every member is
\* armed then, so the guard of evf_io_queue_rem never hides the removal.
LEMMA RemStep ==
  ASSUME CoreInv, TypeOK', RemInCallback = FALSE, NEW fd \in Fd, Rem(fd)
  PROVE  CoreInv'
<1>0. /\ TypeOK /\ Sorted /\ pc = "idle"
      /\ Members = watched /\ watched \subseteq open /\ rfds = Members
  BY DEF CoreInv, ListIsWatched, VisitedArmed, Rem, InApplication
<1>1. /\ fd \in rfds /\ rfds' = rfds \ {fd} /\ watched' = watched \ {fd}
      /\ UNCHANGED <<pc, open>>
  BY <1>0 DEF Rem, kernel
<1>2. PICK p \in DeletePos(members, fd) : members' = RemoveAt(members, p)
  BY <1>1 DEF Rem
<1>3. p \in 1 .. Len(members) /\ members[p] = fd
  BY <1>0, ListFacts DEF DeletePos
<1>4. Sorted' /\ Members' = Members \ {fd}
  BY <1>0, <1>2, <1>3, UnlinkFacts
<1>5. VisitedArmed' /\ ListIsWatched' /\ (pc' = "idle" => Members' \subseteq rfds')
  BY <1>0, <1>1, <1>4 DEF VisitedArmed, ListIsWatched
<1>6. QED BY <1>4, <1>5 DEF CoreInv

\* A callback returns: the member it removes is the one the walk stands on, and
\* whatever it closes it also removes.
LEMMA ReturnStep ==
  ASSUME CoreInv, TypeOK', NEW flags \in ReturnFlags, Return(flags)
  PROVE  CoreInv'
<1> DEFINE fd == members[here]
<1>0. /\ TypeOK /\ Sorted /\ pc = "call" /\ pc' = "walk"
      /\ here \in 1 .. Len(members)
      /\ Members = watched /\ watched \subseteq open /\ rfds \subseteq Members
      /\ \A i \in 1 .. Len(members) : i < here => members[i] \in rfds
      /\ fd \in rfds
  BY ListFacts DEF CoreInv, ListIsWatched, VisitedArmed, Return, TypeOK
<1>1. CASE "REM" \in flags
  <2>1. /\ rfds' = rfds \ {fd} /\ watched' = watched \ {fd} /\ here' = here
        /\ open' = open \/ open' = open \ {fd}
    BY <1>1 DEF Return, ClearBit, HereAfterReturn
  <2>2. PICK p \in DeletePos(members, fd) : members' = RemoveAt(members, p)
    BY <1>1 DEF Return
  <2>3. p \in 1 .. Len(members) /\ members[p] = fd
    BY <1>0, ListFacts DEF DeletePos
  <2>4. p = here
    BY <1>0, <2>3, ListFacts DEF Descending
  <2>5. /\ Sorted' /\ Members' = Members \ {fd}
        /\ DOMAIN members' = 1 .. Len(members) - 1
        /\ \A i \in 1 .. Len(members) - 1 :
             members'[i] = IF i < p THEN members[i] ELSE members[i + 1]
    BY <1>0, <2>2, <2>3, UnlinkFacts
  <2>6. ASSUME NEW i \in DOMAIN members', i < here'
        PROVE  members'[i] \in rfds'
    <3>1. i \in 1 .. Len(members) /\ members'[i] = members[i] /\ i < here
      BY <1>0, <2>1, <2>4, <2>5, <2>6, ListFacts
    <3>2. members[i] # fd
      BY <1>0, <3>1, ListFacts DEF Descending
    <3>3. QED BY <1>0, <2>1, <3>1, <3>2
  <2>7. VisitedArmed'
    BY <1>0, <2>1, <2>5, <2>6 DEF VisitedArmed
  <2>8. ListIsWatched'
    BY <1>0, <2>1, <2>5 DEF ListIsWatched
  <2>9. QED BY <1>0, <2>5, <2>7, <2>8 DEF CoreInv
<1>2. CASE "REM" \notin flags
  <2>1. flags = {}
    BY <1>2, FlagsAssumption
  <2>2. here' = here + 1 /\ UNCHANGED <<members, rfds, watched, open>>
    BY <1>2, <2>1 DEF Return, ClearBit, HereAfterReturn
  <2>3. Sorted' /\ Members' = Members /\ DOMAIN members' = 1 .. Len(members)
    BY <1>0, <2>2, ListFacts DEF Sorted, Members
  <2>4. ASSUME NEW i \in 1 .. Len(members), i < here + 1
        PROVE  members[i] \in rfds
    <3>1. i < here \/ i = here
      BY <1>0, <2>4
    <3>2. QED BY <1>0, <3>1
  <2>5. VisitedArmed'
    BY <1>0, <2>2, <2>3, <2>4 DEF VisitedArmed
  <2>6. ListIsWatched'
    BY <1>0, <2>2, <2>3 DEF ListIsWatched
  <2>7. QED BY <1>0, <2>3, <2>5, <2>6 DEF CoreInv
<1>3. QED BY <1>1, <1>2

\* The steps of the walk itself: the arming of a skipped member is what makes
\* every member armed when the walk is over.
LEMMA WalkStep ==
  ASSUME CoreInv, TypeOK', Walk
  PROVE  CoreInv'
<1>0. /\ TypeOK /\ Sorted /\ pc = "walk"
      /\ here \in 1 .. Len(members) + 1
      /\ Members = watched /\ watched \subseteq open /\ rfds \subseteq Members
      /\ \A i \in 1 .. Len(members) : i < here => members[i] \in rfds
  BY ListFacts DEF CoreInv, ListIsWatched, VisitedArmed, TypeOK,
                   Walk, VisitSkip, VisitCall, WalkEnd
<1>1. UNCHANGED <<members, watched, open>>
  BY DEF Walk, VisitSkip, VisitCall, WalkEnd, queue, kernel
<1>2. /\ Sorted' /\ Members' = Members /\ DOMAIN members' = 1 .. Len(members)
      /\ ListIsWatched'
  BY <1>0, <1>1, ListFacts DEF Sorted, Members, ListIsWatched
<1>3. CASE VisitSkip
  <2>1. /\ here \in 1 .. Len(members) /\ here' = here + 1 /\ pc' = "walk"
        /\ rfds' = rfds \cup {members[here]}
    BY <1>0, <1>3, ListFacts DEF VisitSkip, Rearm
  <2>2. ASSUME NEW i \in 1 .. Len(members), i < here + 1
        PROVE  members[i] \in rfds'
    <3>1. i < here \/ i = here
      BY <2>1, <2>2
    <3>2. QED BY <1>0, <2>1, <3>1
  <2>3. rfds' \subseteq Members'
    BY <1>0, <1>2, <2>1, ListFacts
  <2>4. VisitedArmed'
    BY <1>1, <1>2, <2>1, <2>2, <2>3 DEF VisitedArmed
  <2>5. QED BY <1>2, <2>1, <2>4 DEF CoreInv
<1>4. CASE VisitCall
  <2>1. /\ UNCHANGED <<here, rfds>> /\ pc' = "call"
        /\ members[here] \in rfds
    BY <1>4 DEF VisitCall, queue
  <2>2. VisitedArmed'
    BY <1>0, <1>1, <1>2, <2>1 DEF VisitedArmed
  <2>3. QED BY <1>2, <2>1, <2>2 DEF CoreInv
<1>5. CASE WalkEnd
  <2>1. UNCHANGED rfds /\ pc' = "idle"
    BY <1>5 DEF WalkEnd, queue
  <2>2. here = Len(members) + 1
    BY <1>0, <1>5, ListFacts DEF WalkEnd
  <2>3. \A i \in 1 .. Len(members) : members[i] \in rfds
    BY <1>0, <2>2, ListFacts
  <2>4. Members \subseteq rfds
    BY <1>0, <2>3, ListFacts
  <2>5. VisitedArmed'
    BY <1>0, <1>2, <2>1 DEF VisitedArmed
  <2>6. QED BY <1>2, <2>1, <2>4, <2>5 DEF CoreInv
<1>6. QED BY <1>3, <1>4, <1>5 DEF Walk

\* select() only takes bits away, and they are all members' bits.
LEMMA SelectStep ==
  ASSUME CoreInv, TypeOK', SelectReturn
  PROVE  CoreInv'
<1>1. /\ TypeOK /\ Sorted /\ pc = "idle" /\ rfds \subseteq Members
      /\ Members = watched /\ watched \subseteq open
  BY DEF CoreInv, ListIsWatched, VisitedArmed, SelectReturn
<1>2. rfds' \subseteq rfds
  BY DEF SelectReturn, SelectResult, Selected
<1>3. here' = 1 /\ pc' = "walk" /\ UNCHANGED <<members, watched, open>>
  BY DEF SelectReturn, kernel
<1>4. Sorted' /\ Members' = Members /\ DOMAIN members' = 1 .. Len(members)
  BY <1>1, <1>3, ListFacts DEF Sorted, Members
<1>5. VisitedArmed' /\ ListIsWatched'
  BY <1>1, <1>2, <1>3, <1>4 DEF VisitedArmed, ListIsWatched
<1>6. QED BY <1>3, <1>4, <1>5 DEF CoreInv

\* A destroyed queue is watched by nobody.
LEMMA DestroyStep ==
  ASSUME CoreInv, TypeOK', NEW close \in BOOLEAN, Destroy(close)
  PROVE  CoreInv'
<1>1. TypeOK /\ pc' = "destroyed" /\ rfds' = {} /\ Len(members') \in {0, 1}
  <2>1. members' = <<>> \/ members' = <<Last(members)>>
    BY DEF Destroy
  <2>2. QED BY <2>1 DEF Destroy, CoreInv
<1>2. DOMAIN members' = 1 .. Len(members')
  BY LenProperties DEF TypeOK
<1>3. Sorted'
  BY <1>1, <1>2 DEF Sorted
<1>4. QED BY <1>1, <1>3 DEF CoreInv, VisitedArmed, ListIsWatched

\* The remaining steps leave list, bits and walk alone.
LEMMA OutsideStep ==
  ASSUME CoreInv, TypeOK',
         \/ \E fd \in Fd : Open(fd) \/ Close(fd) \/ Data(fd)
         \/ UNCHANGED vars
  PROVE  CoreInv'
<1>1. UNCHANGED <<members, rfds, pc, here, watched>>
  BY DEF Open, Close, Data, vars, queue
<1>2. watched \subseteq open => watched \subseteq open'
  BY DEF Open, Close, Data, vars
<1>3. Sorted' /\ VisitedArmed' /\ Members' = Members
  BY <1>1 DEF CoreInv, Sorted, VisitedArmed, Members
<1>4. QED BY <1>1, <1>2, <1>3 DEF CoreInv, ListIsWatched

\* The core of the invariant is inductive.
LEMMA CoreStep ==
  ASSUME RemInCallback = FALSE, CoreInv, [Next]_vars
  PROVE  CoreInv'
<1>1. TypeOK'
  BY TypeStep DEF CoreInv
<1>2. QED
  BY <1>1, AddStep, RemStep, ReturnStep, WalkStep, SelectStep, DestroyStep, OutsideStep
     DEF Next, Application, Returns

\* The inductive invariant, for every set of descriptors and every mix of
\* additions from callbacks, removals between waits and removals by return
\* value, as long as no callback calls evf_io_queue_rem.
THEOREM QueueInvariant ==
  ASSUME RemInCallback = FALSE
  PROVE  Spec => []IInv
<1>1. Init => CoreInv
  <2> SUFFICES ASSUME Init PROVE CoreInv
    OBVIOUS
  <2>1. TypeOK
    BY CntModulusAssumption DEF Init, TypeOK
  <2>2. DOMAIN members = {} /\ Members = {}
    BY DEF Init, Members, ToSet
  <2>3. QED BY <2>1, <2>2 DEF Init, CoreInv, Sorted, VisitedArmed, ListIsWatched
<1>2. CoreInv /\ [Next]_vars => CoreInv'
  BY CoreStep
<1>3. CoreInv => IInv
  BY CoreIsIInv
<1>4. QED BY <1>1, <1>2, <1>3, PTL DEF Spec

\* What the inductive invariant is for: select() is always handed the set of
\* all members and only open ones, and the list holds what was asked for.
THEOREM QueueIsSound ==
  ASSUME RemInCallback = FALSE
  PROVE  Spec => [](Sorted /\ VisitedArmed /\ WatchesAll /\ ListIsWatched)
<1>1. Spec => []IInv
  BY QueueInvariant
<1>2. IInv => Sorted /\ VisitedArmed /\ WatchesAll /\ ListIsWatched
  BY DEF IInv
<1>3. QED BY <1>1, <1>2, PTL

---------------------------------------------------------------------------
(* The walk.                                                               *)

\* After a callback the walk stands on the old successor of its member, if
\* there is one, whether or not the member has just been freed.
LEMMA ReturnFacts ==
  ASSUME CoreInv, TypeOK', NEW flags \in ReturnFlags, Return(flags)
  PROVE  \A i \in DOMAIN members' : i >= here' =>
           /\ \E j \in 1 .. Len(members) : j > here /\ members'[i] = members[j]
           /\ members'[i] < members[here]
<1>0. /\ TypeOK /\ Sorted /\ here \in 1 .. Len(members)
  BY ListFacts DEF CoreInv, Return, TypeOK
<1>1. CASE "REM" \in flags
  <2>1. here' = here
    BY <1>1 DEF Return, HereAfterReturn
  <2>2. PICK p \in DeletePos(members, members[here]) : members' = RemoveAt(members, p)
    BY <1>1 DEF Return
  <2>3. p \in 1 .. Len(members) /\ p = here
    BY <1>0, ListFacts DEF DeletePos, Descending
  <2>4. /\ DOMAIN members' = 1 .. Len(members) - 1
        /\ \A i \in 1 .. Len(members) - 1 :
             members'[i] = IF i < p THEN members[i] ELSE members[i + 1]
    BY <1>0, <2>2, <2>3, UnlinkFacts
  <2>5. SUFFICES ASSUME NEW i \in 1 .. Len(members) - 1, i >= here
                 PROVE  /\ \E j \in 1 .. Len(members) : j > here /\ members'[i] = members[j]
                        /\ members'[i] < members[here]
    BY <2>1, <2>4
  <2>6. i + 1 \in 1 .. Len(members) /\ i + 1 > here /\ members'[i] = members[i + 1]
    BY <1>0, <2>3, <2>4, <2>5, ListFacts
  <2>7. members[here] > members[i + 1]
    BY <1>0, <2>6, ListFacts DEF Descending
  <2>8. QED BY <1>0, <2>6, <2>7, ListFacts
<1>2. CASE "REM" \notin flags
  <2>1. here' = here + 1 /\ members' = members
    BY <1>2 DEF Return, HereAfterReturn
  <2>2. SUFFICES ASSUME NEW i \in 1 .. Len(members), i >= here + 1
                 PROVE  /\ \E j \in 1 .. Len(members) : j > here /\ members[i] = members[j]
                        /\ members[i] < members[here]
    BY <1>0, <2>1, ListFacts
  <2>3. i > here
    BY <1>0, <2>2
  <2>4. members[here] > members[i]
    BY <1>0, <2>3, ListFacts DEF Descending
  <2>5. QED BY <1>0, <2>3, <2>4, ListFacts
<1>3. QED BY <1>1, <1>2

\* While a callback adds members the walk stays on the member it stands on.
LEMMA AddKeepsNode ==
  ASSUME CoreInv, TypeOK', NEW fd \in Fd, Add(fd), pc = "call"
  PROVE  /\ members'[here'] = members[here]
         /\ \A i \in DOMAIN members' : i >= here' =>
              \/ members'[i] = fd
              \/ \E j \in 1 .. Len(members) : j >= here /\ members'[i] = members[j]
<1>1. TypeOK /\ here \in 1 .. Len(members)
  BY ListFacts DEF CoreInv, TypeOK
<1>2. DOMAIN members' = 1 .. Len(members) + 1
  BY LinkFacts
<1>3. PICK p \in 1 .. Len(members) + 1 :
         /\ here' = IF p <= here THEN here + 1 ELSE here
         /\ \A i \in 1 .. Len(members) + 1 :
              members'[i] = IF i < p THEN members[i]
                            ELSE IF i = p THEN fd ELSE members[i - 1]
  BY LinkFacts
<1>4. members'[here'] = members[here]
  <2>1. CASE p <= here
    <3>1. here' = here + 1 /\ here + 1 \in 1 .. Len(members) + 1 /\ here + 1 > p
      BY <1>1, <1>3, <2>1, ListFacts
    <3>2. members'[here + 1] = members[here + 1 - 1]
      BY <1>1, <1>3, <3>1
    <3>3. QED BY <1>1, <3>1, <3>2
  <2>2. CASE p > here
    BY <1>1, <1>3, <2>2, ListFacts
  <2>3. QED BY <1>1, <2>1, <2>2
<1>5. ASSUME NEW i \in 1 .. Len(members) + 1, i >= here'
      PROVE  \/ members'[i] = fd
             \/ \E j \in 1 .. Len(members) : j >= here /\ members'[i] = members[j]
  <2>1. i < p => i \in 1 .. Len(members) /\ i >= here /\ members'[i] = members[i]
    BY <1>1, <1>3, <1>5, ListFacts
  <2>2. i = p => members'[i] = fd
    BY <1>1, <1>3, ListFacts
  <2>3. i > p => i - 1 \in 1 .. Len(members) /\ i - 1 >= here /\ members'[i] = members[i - 1]
    BY <1>1, <1>3, <1>5, ListFacts
  <2>4. i < p \/ i = p \/ i > p
    BY <1>3
  <2>5. QED BY <2>1, <2>2, <2>3, <2>4
<1>6. QED BY <1>2, <1>4, <1>5

\* Every step of the queue keeps the walk on its node or moves it down.
LEMMA NodeStepHolds ==
  ASSUME RemInCallback = FALSE, CoreInv, [Next]_vars
  PROVE  [NodeStep]_vars
<1>0. TypeOK' /\ TypeOK /\ Sorted
  BY TypeStep DEF CoreInv
<1>1. ASSUME NEW fd \in Fd, Add(fd) PROVE NodeStep
  BY <1>1, <1>0, AddKeepsNode DEF NodeStep, OnNode, Add, InApplication
<1>2. ASSUME NEW fd \in Fd, Rem(fd) PROVE NodeStep
  BY <1>2 DEF NodeStep, OnNode, Rem, InApplication
<1>3. ASSUME NEW flags \in ReturnFlags, Return(flags) PROVE NodeStep
  <2>1. pc' = "walk"
    BY <1>3 DEF Return
  <2>2. OnNode' => here' \in DOMAIN members' /\ here' >= here'
    BY <1>0 DEF OnNode, TypeOK
  <2>3. OnNode' => members'[here'] < members[here]
    BY <1>0, <1>3, <2>2, ReturnFacts
  <2>4. QED BY <2>1, <2>3 DEF NodeStep
<1>4. CASE VisitSkip
  <2>1. pc' = "walk" /\ members' = members /\ here' = here + 1 /\ here \in 1 .. Len(members)
    BY <1>0, <1>4, ListFacts DEF VisitSkip
  <2>2. OnNode' => here + 1 \in 1 .. Len(members)
    BY <1>0, <2>1, ListFacts DEF OnNode
  <2>3. OnNode' => members[here] > members[here + 1]
    BY <1>0, <2>1, <2>2, ListFacts DEF Descending
  <2>4. OnNode' => members'[here'] < members[here]
    BY <1>0, <2>1, <2>2, <2>3, ListFacts
  <2>5. QED BY <2>1, <2>4 DEF NodeStep
<1>5. CASE VisitCall
  BY <1>5 DEF VisitCall, NodeStep, queue
<1>6. CASE WalkEnd \/ SelectReturn \/ \E close \in BOOLEAN : Destroy(close)
  BY <1>6 DEF WalkEnd, SelectReturn, Destroy, NodeStep, OnNode
<1>7. ASSUME NEW fd \in Fd, Open(fd) \/ Close(fd) \/ Data(fd) PROVE NodeStep
  <2>1. UNCHANGED <<members, here, pc>>
    BY <1>7 DEF Open, Close, Data, queue
  <2>2. QED BY <2>1 DEF NodeStep, OnNode
<1>8. QED
  BY <1>1, <1>2, <1>3, <1>4, <1>5, <1>6, <1>7
     DEF Next, Application, Walk, Returns

\* Within one pass the walk calls back in strictly descending order of
\* descriptor: each member at most once, and only finitely often.
THEOREM WalkIsDescending ==
  ASSUME RemInCallback = FALSE
  PROVE  Spec => WalkDescends
<1>1. Spec => []IInv
  BY QueueInvariant
<1>2. IInv /\ [Next]_vars => [NodeStep]_vars
  BY NodeStepHolds, CoreIsIInv
<1>3. QED BY <1>1, <1>2, PTL DEF Spec, WalkDescends

---------------------------------------------------------------------------
(* Callbacks and data.                                                     *)

\* During a walk every bit still ahead is that of a descriptor with data or of
\* one added in this pass; where callbacks add nothing there are none of these.
DataInv ==
  /\ pc \in {"walk", "call"} =>
       \A i \in DOMAIN members :
         (i >= here /\ members[i] \in rfds) => members[i] \in ready \cup fresh
  /\ (pc \in {"walk", "call"} /\ ~AddInCallback) => fresh = {}

\* Data are consumed only by the callback of their descriptor, and select()
\* is the only place where the bits of the next walk are decided.
LEMMA DataStep ==
  ASSUME RemInCallback = FALSE, CoreInv, DataInv, [Next]_vars
  PROVE  DataInv'
<1>0. TypeOK' /\ TypeOK /\ Sorted /\ (pc # "destroyed" => Members = watched)
  BY TypeStep DEF CoreInv, ListIsWatched
<1>1. ASSUME NEW fd \in Fd, Add(fd) PROVE DataInv'
  <2>1. CASE pc = "idle"
    BY <1>1, <2>1 DEF Add, DataInv
  <2>2. CASE pc = "call"
    <3>1. AddInCallback /\ rfds' = rfds \cup {fd} /\ fresh' = fresh \cup {fd} /\ ready' = ready
      BY <1>1, <2>2 DEF Add, InApplication, kernel
    <3>2. ASSUME NEW i \in DOMAIN members', i >= here', members'[i] \in rfds'
          PROVE  members'[i] \in ready' \cup fresh'
      <4>1. CASE members'[i] = fd
        BY <3>1, <4>1
      <4>2. CASE members'[i] # fd
        <5>1. PICK j \in 1 .. Len(members) : j >= here /\ members'[i] = members[j]
          BY <1>0, <1>1, <2>2, <3>2, <4>2, AddKeepsNode
        <5>2. members[j] \in ready \cup fresh
          BY <1>0, <2>2, <3>1, <3>2, <4>2, <5>1, ListFacts DEF DataInv
        <5>3. QED BY <3>1, <5>1, <5>2
      <4>3. QED BY <4>1, <4>2
    <3>3. QED BY <3>1, <3>2 DEF DataInv
  <2>3. QED BY <1>1, <2>1, <2>2 DEF Add, InApplication
<1>2. ASSUME NEW flags \in ReturnFlags, Return(flags) PROVE DataInv'
  <2>1. /\ fresh' = fresh /\ rfds' \subseteq rfds /\ pc = "call"
        /\ \A fd \in ready : fd = members[here] \/ fd \in ready'
    BY <1>2, <1>0 DEF Return, ClearBit, TypeOK
  <2>2. ASSUME NEW i \in DOMAIN members', i >= here', members'[i] \in rfds'
        PROVE  members'[i] \in ready' \cup fresh'
    <3>1. PICK j \in 1 .. Len(members) : j > here /\ members'[i] = members[j]
      BY <1>0, <1>2, <2>2, ReturnFacts
    <3>2. here \in 1 .. Len(members) /\ j >= here
      BY <1>0, <2>1, <3>1, ListFacts DEF TypeOK
    <3>3. members[j] \in ready \cup fresh
      BY <1>0, <2>1, <2>2, <3>1, <3>2, ListFacts DEF DataInv
    <3>4. members[j] # members[here]
      BY <1>0, <3>1, <3>2, ListFacts DEF Descending
    <3>5. QED BY <2>1, <3>1, <3>3, <3>4
  <2>3. QED BY <2>1, <2>2 DEF DataInv
<1>3. CASE VisitSkip
  <2>1. /\ pc = "walk" /\ here \in 1 .. Len(members) /\ here' = here + 1
        /\ rfds' = rfds \cup {members[here]} /\ UNCHANGED <<members, ready, fresh>>
    BY <1>0, <1>3, ListFacts DEF VisitSkip, Rearm, kernel
  <2>2. ASSUME NEW i \in 1 .. Len(members), i >= here + 1, members[i] \in rfds'
        PROVE  members[i] \in ready \cup fresh
    <3>1. i > here /\ i >= here
      BY <2>1, <2>2
    <3>2. members[i] # members[here]
      BY <1>0, <2>1, <3>1, ListFacts DEF Descending
    <3>3. QED BY <1>0, <2>1, <2>2, <3>1, <3>2, ListFacts DEF DataInv
  <2>3. QED BY <1>0, <2>1, <2>2, ListFacts DEF DataInv
<1>4. CASE VisitCall
  BY <1>4 DEF VisitCall, DataInv, queue, kernel
<1>5. CASE SelectReturn
  <2>1. rfds' \subseteq ready' /\ fresh' = {}
    BY <1>5 DEF SelectReturn, SelectResult, kernel
  <2>2. QED BY <2>1 DEF DataInv
<1>6. CASE WalkEnd \/ \E close \in BOOLEAN : Destroy(close)
  BY <1>6 DEF WalkEnd, Destroy, DataInv
<1>7. ASSUME NEW fd \in Fd, Rem(fd) PROVE DataInv'
  BY <1>7 DEF Rem, InApplication, DataInv
<1>8. ASSUME NEW fd \in Fd, Open(fd) \/ Close(fd) \/ Data(fd) PROVE DataInv'
  <2>1. UNCHANGED <<members, rfds, here, pc, fresh>> /\ pc # "destroyed"
    BY <1>8 DEF Open, Close, Data, queue, InApplication
  <2>2. \A f \in ready : f \in watched => f \in ready'
    BY <1>8 DEF Open, Close, Data
  <2>3. \A i \in DOMAIN members : members[i] \in watched
    BY <1>0, <2>1, ListFacts
  <2>4. QED BY <2>1, <2>2, <2>3 DEF DataInv
<1>9. CASE UNCHANGED vars
  BY <1>9 DEF vars, DataInv
<1>10. QED
  BY <1>1, <1>2, <1>3, <1>4, <1>5, <1>6, <1>7, <1>8, <1>9
     DEF Next, Application, Walk, Returns

\* The data of the walk, on top of the inductive invariant.
LEMMA DataInvariant ==
  ASSUME RemInCallback = FALSE
  PROVE  Spec => [](IInv /\ DataInv)
<1>1. Spec => []IInv
  BY QueueInvariant
<1>2. Init => DataInv
  BY DEF Init, DataInv
<1>3. IInv /\ DataInv /\ [Next]_vars => DataInv'
  BY DataStep, CoreIsIInv
<1>4. QED BY <1>1, <1>2, <1>3, PTL DEF Spec

\* A callback that runs without data is that of a member added in this pass.
THEOREM SpuriousCallsAreFresh ==
  ASSUME RemInCallback = FALSE
  PROVE  Spec => []SpuriousOnlyFresh
<1>1. Spec => [](IInv /\ DataInv)
  BY DataInvariant
<1>2. IInv /\ DataInv => SpuriousOnlyFresh
  <2> SUFFICES ASSUME IInv, DataInv, pc = "call"
               PROVE  members[here] \in ready \cup fresh
    BY DEF SpuriousOnlyFresh
  <2>1. here \in DOMAIN members /\ here >= here /\ members[here] \in rfds
    BY ListFacts DEF IInv, TypeOK, VisitedArmed
  <2>2. QED BY <2>1 DEF DataInv
<1>3. QED BY <1>1, <1>2, PTL

\* Where callbacks add no members, a callback runs only on data.
THEOREM CallbacksHaveData ==
  ASSUME RemInCallback = FALSE, AddInCallback = FALSE
  PROVE  Spec => []CallsHaveData
<1>1. Spec => [](IInv /\ DataInv)
  BY DataInvariant
<1>2. IInv /\ DataInv => CallsHaveData
  <2> SUFFICES ASSUME IInv, DataInv, pc = "call"
               PROVE  members[here] \in ready
    BY DEF CallsHaveData
  <2>1. here \in DOMAIN members /\ here >= here /\ members[here] \in rfds
    BY ListFacts DEF IInv, TypeOK, VisitedArmed
  <2>2. fresh = {}
    BY DEF DataInv
  <2>3. QED BY <2>1, <2>2 DEF DataInv
<1>3. QED BY <1>1, <1>2, PTL

---------------------------------------------------------------------------
(* Refinement of WatchSet.                                                 *)

\* Every step of the queue is a step of the watched set, or changes nothing
\* the application can see.
LEMMA RefinementStep ==
  ASSUME RemInCallback = FALSE, CoreInv, CoreInv', DataInv, [Next]_vars
  PROVE  [Abstract!Next]_Abstract!vars
<1> USE DEF Abstract!vars
<1>0. TypeOK' /\ TypeOK /\ Sorted /\ (pc # "destroyed" => Members = watched)
  BY DEF CoreInv, ListIsWatched
<1>1. ASSUME NEW fd \in Fd, Add(fd) PROVE Abstract!Add(fd)
  <2>1. /\ pc # "destroyed" /\ fd \notin watched /\ watched' = watched \cup {fd}
        /\ pc' = pc /\ ready' = ready
    BY <1>1 DEF Add, InApplication, kernel
  <2>2. Current' = Current
    BY <1>0, <1>1, <2>1, AddKeepsNode DEF Current
  <2>3. QED BY <2>1, <2>2 DEF Abstract!Add
<1>2. ASSUME NEW fd \in Fd, Rem(fd) PROVE Abstract!Remove(fd)
  BY <1>2 DEF Rem, InApplication, kernel, Abstract!Remove, Current
<1>3. ASSUME NEW fd \in Fd, Open(fd) PROVE UNCHANGED Abstract!vars
  BY <1>3 DEF Open, queue, Current
<1>4. ASSUME NEW fd \in Fd, Close(fd) PROVE Abstract!Drop(fd)
  BY <1>4 DEF Close, queue, Current, Abstract!Drop
<1>5. ASSUME NEW close \in BOOLEAN, Destroy(close) PROVE Abstract!Destroy
  BY <1>5 DEF Destroy, Current, Abstract!Destroy
<1>6. CASE SelectReturn \/ VisitSkip \/ WalkEnd
  <2>1. UNCHANGED <<watched, ready>> /\ Current' = {} /\ Current = {}
        /\ pc # "destroyed" /\ pc' # "destroyed"
    BY <1>6 DEF SelectReturn, VisitSkip, WalkEnd, kernel, Current
  <2>2. QED BY <2>1
<1>7. CASE VisitCall
  <2>1. /\ pc = "walk" /\ pc' = "call" /\ UNCHANGED <<members, here, ready, watched, fresh, rfds>>
        /\ here \in DOMAIN members /\ members[here] \in rfds
    BY <1>7 DEF VisitCall, queue, kernel
  <2>2. members[here] \in watched /\ members[here] \in Fd
    BY <1>0, <2>1, ListFacts
  <2>3. AddInCallback \/ members[here] \in ready
    <3>1. here >= here
      BY <1>0 DEF TypeOK
    <3>2. QED BY <2>1, <3>1 DEF DataInv
  <2>4. Current = {} /\ Current' = {members[here]}
    BY <2>1 DEF Current
  <2>5. Abstract!Call(members[here])
    BY <2>1, <2>2, <2>3, <2>4 DEF Abstract!Call
  <2>6. QED BY <2>2, <2>5 DEF Abstract!Next
<1>8. ASSUME NEW flags \in ReturnFlags, Return(flags) PROVE Abstract!Return
  <2>1. pc = "call" /\ pc' = "walk" /\ Current = {members[here]} /\ Current' = {}
    BY <1>8 DEF Return, Current
  <2>2. watched' \in {watched, watched \ {members[here]}}
    BY <1>8 DEF Return
  <2>3. ready' \in {ready, ready \ {members[here]}}
    <3>1. open' = open \/ open' = open \ {members[here]}
      BY <1>8 DEF Return
    <3>2. ready' = ready \cap open' \/ ready' = ready \ {members[here]}
      BY <1>8 DEF Return
    <3>3. ready \subseteq open
      BY <1>0 DEF TypeOK
    <3>4. QED BY <3>1, <3>2, <3>3
  <2>4. QED BY <2>1, <2>2, <2>3 DEF Abstract!Return
<1>9. ASSUME NEW fd \in Fd, Data(fd) PROVE Abstract!Arrive(fd)
  BY <1>9 DEF Data, queue, Current, Abstract!Arrive
<1>10. CASE UNCHANGED vars
  BY <1>10 DEF vars, Current
<1>11. QED
  BY <1>1, <1>2, <1>3, <1>4, <1>5, <1>6, <1>7, <1>8, <1>9, <1>10
     DEF Next, Application, Walk, Returns, Abstract!Next

\* The select() queue implements the watched set: its list, bit set, counter
\* and walk are invisible to the application.
THEOREM QueueRefinesWatchSet ==
  ASSUME RemInCallback = FALSE
  PROVE  Spec => Abstract!Spec
<1>1. Spec => [](IInv /\ DataInv)
  BY DataInvariant
<1>2. Init => Abstract!Init
  BY DEF Init, Abstract!Init, Current
<1>3. IInv /\ IInv' /\ DataInv /\ [Next]_vars => [Abstract!Next]_Abstract!vars
  <2>1. IInv' => CoreInv'
    BY DEF IInv, CoreInv, WatchesAll
  <2>2. QED BY <2>1, RefinementStep, CoreIsIInv
<1>4. QED BY <1>1, <1>2, <1>3, PTL DEF Spec, Abstract!Spec
=============================================================================
