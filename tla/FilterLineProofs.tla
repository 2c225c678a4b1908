-------------------------- MODULE FilterLineProofs --------------------------
(***************************************************************************)
(* Theorems about FilterLine, for any scenes: any lines of loaded filters, *)
(* any devices and packets.                                                *)
(*                                                                         *)
(* Typed is the inductive invariant: TypeOK, that the data of each filter  *)
(* fits its kind, and the type of the history of movement.  Arithmetic     *)
(* comes first, then what alloc leaves in the filters, then what calls do  *)
(* to the stack, then each filter on its own, then the theorems about any  *)
(* lines.  What depends on the order of the filters follows, each theorem  *)
(* with the lines it is about (Chain, PressureLine, PenLine, ScreenLines,  *)
(* KeyLine, JoinedLines): first what a filter makes of one event, whatever *)
(* line it is in (Syncs, Passed), then the invariant of the lines.         *)
(***************************************************************************)
EXTENDS FilterLine, SequenceTheorems, TLAPS

---------------------------------------------------------------------------
(* Arithmetic.                                                             *)

LEMMA DivisionFacts ==
  ASSUME NEW n \in Nat, NEW d \in Nat \ {0}
  PROVE  /\ n \div d \in Nat
         /\ d * (n \div d) \in Int
         /\ n - d * (n \div d) \in 0 .. d - 1
  OBVIOUS

LEMMA QuotientFacts ==
  ASSUME NEW n \in Int, NEW d \in Int, d # 0
  PROVE  /\ Quotient(n, d) \in Int
         /\ Remainder(n, d) \in Int
         /\ Abs(Remainder(n, d)) < Abs(d)
         /\ (n >= 0 => Remainder(n, d) >= 0)
  <1>1. Abs(n) \in Nat /\ Abs(d) \in Nat \ {0} BY DEF Abs
  <1> DEFINE q == Abs(n) \div Abs(d)
  <1>2. q \in Nat /\ Abs(n) - Abs(d) * q \in 0 .. Abs(d) - 1 BY <1>1, DivisionFacts
  <1> QED BY <1>1, <1>2 DEF Quotient, Remainder, Abs

\* Movement that is not far enough makes no step.
LEMMA NotFarFacts ==
  ASSUME NEW n \in Int, NEW d \in Int, d # 0, F.kind \in {"SpeedMod", "Rel2Scroll"},
         ~FarEnough(n, d)
  PROVE  Quotient(n, d) = 0
  <1>1. CASE F.kind = "Rel2Scroll" BY <1>1 DEF FarEnough
  <1>2. CASE F.kind = "SpeedMod"
    <2>1. Abs(n) \in Nat /\ d \in Nat \ {0} /\ Abs(d) = d /\ Abs(n) < d
      BY <1>2 DEF FarEnough, Abs
    <2>2. \A m \in Nat : m < d => m \div d = 0 BY <2>1
    <2> QED BY <2>1, <2>2 DEF Quotient
  <1> QED BY <1>1, <1>2

LEMMA WrapFacts ==
  ASSUME NEW n \in Nat \ {0}, NEW i \in Int
  PROVE  /\ Wrap(i, n) \in Int
         /\ i >= 0 => Wrap(i, n) \in 0 .. n - 1
         /\ i \in 0 .. n - 1 => Wrap(i, n) = i
         /\ i \in n .. 2 * n - 1 => Wrap(i, n) = i - n
  <1> DEFINE q == Quotient(i, n)
             product == n * q
             r == Remainder(i, n)
  <1>1. q \in Int /\ r \in Int /\ Abs(r) < Abs(n) /\ (i >= 0 => r >= 0)
    BY QuotientFacts
  <1>2. Wrap(i, n) = r /\ r = i - product BY DEF Wrap, Remainder
  <1>3. i >= 0 => r \in 0 .. n - 1
    <2> HIDE DEF r
    <2> QED BY <1>1 DEF Abs
  <1>4. /\ product \in Int
        /\ q >= 1 => product >= n
        /\ q >= 2 => product >= 2 * n
        /\ q <= -1 => product <= -n
        /\ q = 0 => product = 0
        /\ q = 1 => product = n
    <2> HIDE DEF q
    <2> QED BY <1>1
  <1> HIDE DEF q, product, r
  <1> QED BY <1>1, <1>2, <1>3, <1>4

---------------------------------------------------------------------------
(* The data of filters.                                                    *)

\* What alloc leaves in self->data, by kind.
LEMMA DataFacts ==
  ASSUME scene \in Scenes, NEW f \in Filters
  PROVE  LET k == scene.filters[f].kind IN
         /\ k \in DOMAIN Table \cup {"Commit"}
         /\ scene.filters[f].next \in Filters \/ (scene.filters[f].next = 0 /\ k \in {"Dump", "Commit"})
         /\ scene.filters[f].handle \in Filters \cup {0}
         /\ k = "KeySubstitute" => Data(f).to \in Nat
         /\ k = "SpeedMod" => Data(f).mod \in [Axis -> Int]
         /\ k = "Rel2Scroll" => Data(f).mod \in [Axis -> Int]
         /\ k = "PressureToKey" => Data(f).key \in Nat
         /\ k = "ScaleAbs" => Data(f).max \in [Axis -> Int] /\ Data(f).min \in [Axis -> Int]
         /\ k = "WeightedAverageAbs" => Data(f).n \in Nat
         /\ k = "Barrier" => Data(f).history \in Nat
  <1> DEFINE g == scene.filters[f]
             T == Table[g.kind]
  <1>1. LoadedFilter(g, Filters) BY ScenesAssumption DEF Filters
  <1>2. g.kind \in DOMAIN Table => \A j \in DOMAIN T : Fits(T[j], g.values[j])
    BY <1>1 DEF LoadedFilter
  <1>3. Int32 \subseteq Int BY IntMaxAssumption DEF Int32
  <1>4. ASSUME g.kind = "KeySubstitute" PROVE Data(f).to \in Nat
    <2>1. T = KeySubstituteParams BY <1>4 DEF Table
    <2>2. Fits(KeySubstituteParams[2], g.values[2]) BY <2>1, <1>4, <1>2 DEF Table, KeySubstituteParams
    <2>3. g.values[2] \in Nat BY <2>2, <1>3 DEF Fits, KeySubstituteParams, Key, Param
    <2> QED BY <2>3, <1>4 DEF Data, Alloc, KeySubstituteAlloc
  <1>5. ASSUME g.kind = "SpeedMod" PROVE Data(f).mod \in [Axis -> Int]
    <2>1. T = SpeedModParams BY <1>5 DEF Table
    <2>2. Fits(SpeedModParams[1], g.values[1]) BY <2>1, <1>5, <1>2 DEF Table, SpeedModParams
    <2>3. g.values[1] \in Int BY <2>2, <1>3 DEF Fits, SpeedModParams, Number, Param
    <2>4. Fits(SpeedModParams[2], g.values[2]) BY <2>1, <1>5, <1>2 DEF Table, SpeedModParams
    <2>5. g.values[2] \in Int BY <2>4, <1>3 DEF Fits, SpeedModParams, Number, Param
    <2> QED BY <2>3, <2>5, <1>5 DEF Data, Alloc, SpeedModAlloc, Axis, REL_X, REL_Y
  <1>6. ASSUME g.kind = "Rel2Scroll" PROVE Data(f).mod \in [Axis -> Int]
    <2>1. T = Rel2ScrollParams BY <1>6 DEF Table
    <2>2. Fits(Rel2ScrollParams[2], g.values[2]) BY <2>1, <1>6, <1>2 DEF Table, Rel2ScrollParams
    <2>3. g.values[2] \in Int BY <2>2, <1>3 DEF Fits, Rel2ScrollParams, Number, Key, Param
    <2>4. Fits(Rel2ScrollParams[3], g.values[3]) BY <2>1, <1>6, <1>2 DEF Table, Rel2ScrollParams
    <2>5. g.values[3] \in Int BY <2>4, <1>3 DEF Fits, Rel2ScrollParams, Number, Key, Param
    <2> QED BY <2>3, <2>5, <1>6 DEF Data, Alloc, Rel2ScrollAlloc, Axis, REL_X, REL_Y
  <1>7. ASSUME g.kind = "PressureToKey" PROVE Data(f).key \in Nat
    <2>1. T = PressureToKeyParams BY <1>7 DEF Table
    <2>2. Fits(PressureToKeyParams[2], g.values[2]) BY <2>1, <1>7, <1>2 DEF Table, PressureToKeyParams
    <2>3. g.values[2] \in Nat BY <2>2, <1>3 DEF Fits, PressureToKeyParams, Key, Number, Param
    <2> QED BY <2>3, <1>7 DEF Data, Alloc, PressureToKeyAlloc
  <1>8. ASSUME g.kind = "ScaleAbs" PROVE Data(f).max \in [Axis -> Int] /\ Data(f).min \in [Axis -> Int]
    <2>1. T = ScaleAbsParams BY <1>8 DEF Table
    <2>2. Fits(ScaleAbsParams[1], g.values[1]) BY <2>1, <1>8, <1>2 DEF Table, ScaleAbsParams
    <2>3. g.values[1] \in Int BY <2>2, <1>3 DEF Fits, ScaleAbsParams, Number, Param
    <2>4. Fits(ScaleAbsParams[2], g.values[2]) BY <2>1, <1>8, <1>2 DEF Table, ScaleAbsParams
    <2>5. g.values[2] \in Int BY <2>4, <1>3 DEF Fits, ScaleAbsParams, Number, Param
    <2>6. Fits(ScaleAbsParams[4], g.values[4]) BY <2>1, <1>8, <1>2 DEF Table, ScaleAbsParams
    <2>7. g.values[4] \in Int BY <2>6, <1>3 DEF Fits, ScaleAbsParams, Number, Param
    <2>8. Fits(ScaleAbsParams[5], g.values[5]) BY <2>1, <1>8, <1>2 DEF Table, ScaleAbsParams
    <2>9. g.values[5] \in Int BY <2>8, <1>3 DEF Fits, ScaleAbsParams, Number, Param
    <2> QED BY <2>3, <2>5, <2>7, <2>9, <1>8 DEF Data, Alloc, ScaleAbsAlloc, Axis, REL_X, REL_Y
  <1>9. ASSUME g.kind = "WeightedAverageAbs" PROVE Data(f).n \in Nat
    <2>1. T = WeightedAverageAbsParams BY <1>9 DEF Table
    <2>2. Fits(WeightedAverageAbsParams[1], g.values[1]) BY <2>1, <1>9, <1>2 DEF Table, WeightedAverageAbsParams
    <2>3. g.values[1] \in Nat BY <2>2, <1>3 DEF Fits, WeightedAverageAbsParams, Number, Param
    <2> QED BY <2>3, <1>9 DEF Data, Alloc, WeightedAverageAbsAlloc
  <1>10. ASSUME g.kind = "Barrier" PROVE Data(f).history \in Nat
    <2>1. T = BarrierParams BY <1>10 DEF Table
    <2>2. Fits(BarrierParams[1], g.values[1]) BY <2>1, <1>10, <1>2 DEF Table, BarrierParams
    <2>3. g.values[1] \in Nat BY <2>2, <1>3 DEF Fits, BarrierParams, Number, Param
    <2> QED BY <2>3, <1>10 DEF Data, Alloc, BarrierAlloc
  <1> QED BY <1>1, <1>4, <1>5, <1>6, <1>7, <1>8, <1>9, <1>10 DEF LoadedFilter

---------------------------------------------------------------------------
(* The invariant.                                                          *)

FrameSet == [filter : Filters, at : Place, ev : Event]

\* What the private data of one filter is.
Fit(f, s) ==
  /\ s \in State
  /\ s.queue # <<>> => Len(s.queue) <= Data(f).history
  /\ scene.filters[f].kind = "WeightedAverageAbs" =>
       \A c \in 0 .. 2 : s.head[c] \in Nat /\ s.coord[c] \in [1 .. Data(f).n -> Int]

AllFit == \A f \in Filters : Fit(f, st[f])

DueTyped == due \in [Filters -> [Axis -> Int]]

Typed == TypeOK /\ AllFit /\ DueTyped

---------------------------------------------------------------------------
(* Calls.                                                                  *)

\* The data of a filter after modify() has changed one part of it.
LEMMA FitFacts ==
  ASSUME NEW f, NEW s, Fit(f, s)
  PROVE  /\ \A b \in BOOLEAN : /\ Fit(f, [s EXCEPT !.eat = b])
                               /\ Fit(f, [s EXCEPT !.on = b])
                               /\ Fit(f, [s EXCEPT !.passed = b])
         /\ \A x \in [Axis -> 0 .. 2] : Fit(f, [s EXCEPT !.seen = x])
         /\ \A x \in [Axis -> Int] : /\ Fit(f, [s EXCEPT !.acc = x])
                                     /\ Fit(f, [s EXCEPT !.last = x])
  BY DEF Fit, State

LEMMA CallFacts ==
  ASSUME Typed, stack # <<>>
  PROVE  /\ Self \in Filters /\ Top \in FrameSet /\ Top.ev \in Event
         /\ Tail(stack) \in Seq(FrameSet)
         /\ Fit(Self, S) /\ ev \in Event
  <1>1. stack \in Seq(FrameSet) BY DEF Typed, TypeOK, FrameSet
  <1>2. Top \in FrameSet /\ Tail(stack) \in Seq(FrameSet) BY <1>1, HeadTailProperties DEF Top
  <1> QED BY <1>2 DEF FrameSet, Self, S, Typed, TypeOK, AllFit

LEMMA Push ==
  ASSUME NEW T, NEW s \in Seq(T)
  PROVE  /\ \A a \in T : <<a>> \o s \in Seq(T)
         /\ \A a, b \in T : <<a, b>> \o s \in Seq(T)
         /\ \A a \in T : Head(<<a>> \o s) = a
  <1>1. \A a \in T : <<a>> \in Seq(T) OBVIOUS
  <1>2. \A a, b \in T : <<a, b>> \in Seq(T) OBVIOUS
  <1> QED BY <1>1, <1>2, ConcatProperties

Called == ev' \in Event /\ stack' \in Seq(FrameSet)

LEMMA NeverFacts ==
  ASSUME Typed, stack # <<>>, NEW at \in Place, UNCHANGED ev,
         stack' = <<[Top EXCEPT !.at = at]>> \o Tail(stack)
  PROVE  Called
  <1>1. [Top EXCEPT !.at = at] \in FrameSet BY CallFacts DEF FrameSet
  <1> QED BY <1>1, CallFacts, Push DEF Called

LEMMA DropFacts ==
  ASSUME Typed, stack # <<>>, Drop
  PROVE  Called
  BY CallFacts DEF Drop, Called, Syn, E, Event, Type

LEMMA ForwardFacts ==
  ASSUME Typed, stack # <<>>, F.next \in Filters, NEW e \in Event, Forward(e)
  PROVE  Called
  <1>1. Frame(F.next, "modify", e) \in FrameSet BY DEF Frame, FrameSet, Place
  <1> QED BY <1>1, CallFacts, Push DEF Forward, Called

LEMMA SendThenFacts ==
  ASSUME Typed, stack # <<>>, NEW to \in Filters, NEW e \in Event, NEW at \in Place,
         SendThen(to, e, at)
  PROVE  Called
  <1>1. Frame(to, "modify", e) \in FrameSet BY DEF Frame, FrameSet, Place
  <1>2. [Top EXCEPT !.at = at] \in FrameSet BY CallFacts DEF FrameSet
  <1> QED BY <1>1, <1>2, CallFacts, Push DEF SendThen, Called

\* Only a Dump or a Commit may be the last of a line.
LEMMA NextFacts ==
  ASSUME Typed, stack # <<>>
  PROVE  /\ F.kind \in DOMAIN Table \cup {"Commit"}
         /\ F.kind \notin {"Dump", "Commit"} => F.next \in Filters
         /\ F.next # 0 => F.next \in Filters
         /\ F.handle # 0 => F.handle \in Filters
  BY CallFacts, DataFacts DEF F, Typed, TypeOK

\* What a step of modify() has to leave behind.
LEMMA Assemble ==
  ASSUME Typed, stack # <<>>, UNCHANGED Environment, Called,
         out' \in [Filters -> Seq(Event)], due' \in [Filters -> [Axis -> Int]],
         UNCHANGED st \/ \E s : Fit(Self, s) /\ Keep(s)
  PROVE  Typed'
  <1>1. scene' = scene /\ unread' = unread /\ Filters' = Filters /\ Devices' = Devices
    BY DEF Environment, Filters, Devices
  <1>2. \A f \in Filters : Data(f)' = Data(f)
    BY <1>1 DEF Data
  <1>3. st' \in [Filters -> State] /\ \A f \in Filters : Fit(f, st'[f])
    BY CallFacts DEF Typed, TypeOK, AllFit, Keep, Fit
  <1>4. AllFit'
    BY <1>1, <1>2, <1>3 DEF AllFit, Fit
  <1>5. TypeOK'
    BY <1>1, <1>2, <1>3 DEF Typed, TypeOK, Fit, Called, FrameSet
  <1> QED BY <1>1, <1>4, <1>5 DEF Typed, DueTyped

---------------------------------------------------------------------------
(* What filters make of events.                                            *)

LEMMA TranslatedFacts ==
  ASSUME NEW e \in Event
  PROVE  Translated(e) \in Event
  <1> USE DEF REL_X, REL_Y, BTN_LEFT, BTN_RIGHT, BTN_MIDDLE, E, Event, Type
  <1>1. \A key : \A x \in {0, 1}, y \in Int, d \in Event : MoveFor(key, x, y, d) \in Event
    BY DEF MoveFor
  <1>2. \A key : \A x \in Nat, d \in Event : ButtonFor(key, x, d) \in Event
    BY DEF ButtonFor
  <1>3. Moves(e) \in Event
    <2> DEFINE a == MoveFor(D.up, REL_Y, 2, e)
               b == MoveFor(D.down, REL_Y, -2, a)
               c == MoveFor(D.left, REL_X, -2, b)
    <2>1. a \in Event BY <1>1
    <2>2. b \in Event BY <1>1, <2>1
    <2>3. c \in Event BY <1>1, <2>2
    <2> QED BY <1>1, <2>3 DEF Moves
  <1>4. \A d \in Event : Buttons(d) \in Event
    <2> TAKE d \in Event
    <2> DEFINE a == ButtonFor(D.lbtn, BTN_LEFT, d)
               b == ButtonFor(D.mbtn, BTN_MIDDLE, a)
    <2>1. a \in Event BY <1>2
    <2>2. b \in Event BY <1>2, <2>1
    <2> QED BY <1>2, <2>2 DEF Buttons
  <1> QED BY <1>3, <1>4 DEF Translated

LEMMA MirroredFacts ==
  ASSUME NEW e \in Event
  PROVE  Mirrored(e) \in Event
  BY IntMaxAssumption DEF Mirrored, Event

LEMMA ScaledFacts ==
  ASSUME Typed, stack # <<>>, F.kind = "ScaleAbs", NEW e \in Event, e.code \in Axis
  PROVE  Scaled(e) \in Event
  <1> DEFINE max == D.max[e.code]
             offset == e.value - D.min[e.code]
  <1>1. max \in Int /\ offset \in Int
    <2>1. D.max \in [Axis -> Int] /\ D.min \in [Axis -> Int]
      BY CallFacts, DataFacts DEF Typed, TypeOK, D, F
    <2>2. e.value \in Int BY DEF Event
    <2> QED BY <2>1, <2>2
  <1> DEFINE product == IntMax * offset
             q == Quotient(product, max)
  <1>2. product \in Int
    <2> HIDE DEF offset
    <2> QED BY <1>1, IntMaxAssumption
  <1>3. max # 0 => q \in Int
    <2> HIDE DEF max, product, offset
    <2>1. \A n, d \in Int : d # 0 => Quotient(n, d) \in Int BY QuotientFacts
    <2> QED BY <1>1, <1>2, <2>1
  <1>4. max # 0 => ToInt(q) \in Int
    <2> HIDE DEF q, max
    <2> QED BY <1>3, IntMaxAssumption DEF ToInt
  <1>5. Scaled(e) = [e EXCEPT !.value = IF max = 0 THEN -IntMax - 1 ELSE ToInt(q)]
    BY DEF Scaled
  <1> HIDE DEF max, q
  <1> QED BY <1>4, <1>5, IntMaxAssumption DEF Event

---------------------------------------------------------------------------
(* Every step of modify() keeps to the types.                              *)

LEMMA PassOnTyped == ASSUME Typed, PassOn PROVE Typed'
  <1>1. stack # <<>> BY DEF PassOn, At
  <1>2. Called
    BY <1>1, NextFacts, CallFacts, ForwardFacts, DropFacts DEF PassOn, ForwardIfAny, At
  <1> QED BY <1>1, <1>2, Assemble DEF PassOn, Typed, TypeOK, DueTyped

LEMMA WrittenFacts ==
  ASSUME Typed, NEW f \in Filters
  PROVE  Written(f) \in Seq(Event)
  <1>1. out[f] \in Seq(Event) /\ ev \in Event /\ Len(out[f]) \in Nat BY LenProperties DEF Typed, TypeOK
  <1> DEFINE n == Min({Len(out[f]), MaxOut - 1})
  <1>2. n \in {Len(out[f]), MaxOut - 1} /\ n <= Len(out[f])
    BY <1>1, MaxOutAssumption DEF Min
  <1>3. n \in Int /\ \A i \in 1 .. n : out[f][i] \in Event
    <2> HIDE DEF n
    <2> QED BY <1>1, <1>2, MaxOutAssumption, ElementOfSeq
  <1>4. Append(SubSeq(out[f], 1, n), ev) \in Seq(Event)
    <2> HIDE DEF n
    <2>1. SubSeq(out[f], 1, n) \in Seq(Event) BY <1>3, SubSeqProperties
    <2> QED BY <1>1, <2>1, AppendProperties
  <1>5. <<ev>> \in Seq(Event) BY <1>1
  <1> QED BY <1>4, <1>5 DEF Written

LEMMA CommitTyped == ASSUME Typed, Commit PROVE Typed'
  <1>1. stack # <<>> BY DEF Commit, At
  <1>2. Called
    BY <1>1, NextFacts, CallFacts, ForwardFacts, DropFacts DEF Commit, ForwardIfAny, At
  <1>3. out' \in [Filters -> Seq(Event)]
    BY <1>1, CallFacts, WrittenFacts DEF Commit, Typed, TypeOK
  <1> QED BY <1>1, <1>2, <1>3, Assemble DEF Commit, Typed, TypeOK, DueTyped

LEMMA NoRepeatTyped == ASSUME Typed, NoRepeat PROVE Typed'
  <1>1. stack # <<>> /\ F.kind = "NoRepeat" BY DEF NoRepeat, At
  <1>2. Called
    BY <1>1, NextFacts, CallFacts, ForwardFacts, DropFacts DEF NoRepeat
  <1> QED BY <1>1, <1>2, Assemble DEF NoRepeat, Typed, TypeOK, DueTyped

LEMMA KeySubstituteTyped == ASSUME Typed, KeySubstitute PROVE Typed'
  <1>1. stack # <<>> /\ F.kind = "KeySubstitute" BY DEF KeySubstitute, At
  <1>2. D.to \in Nat BY <1>1, CallFacts, DataFacts DEF Typed, TypeOK, D, F
  <1>3. (IF IsKey(ev, D.from) THEN [ev EXCEPT !.code = D.to] ELSE ev) \in Event
    BY <1>1, <1>2, CallFacts DEF Event
  <1>4. Called
    BY <1>1, <1>3, NextFacts, ForwardFacts DEF KeySubstitute
  <1> QED BY <1>1, <1>4, Assemble DEF KeySubstitute, Typed, TypeOK, DueTyped

LEMMA KeyLockTyped == ASSUME Typed, KeyLock PROVE Typed'
  <1>1. stack # <<>> /\ F.kind = "KeyLock" BY DEF KeyLock, At
  <1>2. Unlock(ev, S) \in Event BY <1>1, CallFacts DEF Unlock, Event
  <1>3. Called
    BY <1>1, <1>2, NextFacts, CallFacts, ForwardFacts, DropFacts DEF KeyLock
  <1>4. \E s : Fit(Self, s) /\ Keep(s)
    <2>1. \A b \in BOOLEAN : Fit(Self, [S EXCEPT !.eat = b])
      BY <1>1, CallFacts, FitFacts
    <2>2. Fit(Self, [S EXCEPT !.eat = FALSE, !.on = ~@])
      BY <1>1, CallFacts DEF Fit, State
    <2> QED BY <2>1, <2>2 DEF KeyLock
  <1> QED BY <1>1, <1>3, <1>4, Assemble DEF KeyLock, Typed, TypeOK, DueTyped

LEMMA Btn2RelTyped == ASSUME Typed, Btn2Rel PROVE Typed'
  <1>1. stack # <<>> /\ F.kind = "Btn2Rel" BY DEF Btn2Rel, At
  <1>2. (IF ev.type = "KEY" THEN Translated(ev) ELSE ev) \in Event
    BY <1>1, CallFacts, TranslatedFacts
  <1>3. Called
    BY <1>1, <1>2, NextFacts, CallFacts, ForwardFacts, DropFacts DEF Btn2Rel
  <1>4. UNCHANGED st \/ \E s : Fit(Self, s) /\ Keep(s)
    BY <1>1, CallFacts, FitFacts DEF Btn2Rel
  <1> QED BY <1>1, <1>3, <1>4, Assemble DEF Btn2Rel, Typed, TypeOK, DueTyped

\* SpeedMod and Rel2Scroll: the movement is held back or goes out divided.
LEMMA AccumulateFacts ==
  ASSUME Typed, stack # <<>>, F.kind \in {"SpeedMod", "Rel2Scroll"},
         NEW axis \in Axis, NEW code \in Nat, NEW s, Fit(Self, s), s.acc = S.acc,
         Accumulate(axis, code, s)
  PROVE  /\ Called
         /\ due' \in [Filters -> [Axis -> Int]]
         /\ UNCHANGED st \/ \E r : Fit(Self, r) /\ Keep(r)
         /\ Conserved /\ UNCHANGED scene => Conserved'
  <1> DEFINE total == s.acc[axis] + ev.value
             mod == D.mod[axis]
             step == Quotient(total, mod)
             left == Remainder(total, mod)
  <1>1. D.mod \in [Axis -> Int] /\ mod \in Int
    BY CallFacts, DataFacts DEF Typed, TypeOK, D, F
  <1>2. s.acc \in [Axis -> Int] /\ ev.value \in Int /\ due \in [Filters -> [Axis -> Int]]
    BY CallFacts DEF Fit, State, Event, Typed, DueTyped
  <1>3. total \in Int BY <1>2
  <1>4. ASSUME mod # 0
        PROVE  step \in Int /\ left \in Int /\ Abs(left) < Abs(mod) /\ left = total - mod * step
    <2> HIDE DEF total, mod
    <2> QED BY <1>1, <1>3, <1>4, QuotientFacts DEF Remainder
  <1>5. CASE mod = 0
    <2>1. Never("trap") /\ UNCHANGED <<st, due>>
      BY <1>5 DEF Accumulate
    <2>2. Called BY <2>1, NeverFacts DEF Never, Place
    <2>3. UNCHANGED scene => \A f \in Filters : Data(f)' = Data(f)
      BY DEF Data, Filters
    <2> QED BY <2>1, <2>2, <2>3, <1>2 DEF Conserved, Kind, Filters
  <1>6. CASE mod # 0
    <2>1. ASSUME FarEnough(total, mod)
          PROVE  /\ Forward([ev EXCEPT !.code = code, !.value = step])
                 /\ Keep([s EXCEPT !.acc[axis] = left])
                 /\ due' = [due EXCEPT ![Self][axis] = @ + ev.value - mod * step]
      BY <1>6, <2>1 DEF Accumulate
    <2>2. ASSUME ~FarEnough(total, mod)
          PROVE  /\ Drop
                 /\ Keep([s EXCEPT !.acc[axis] = total, !.eat = TRUE])
                 /\ due' = [due EXCEPT ![Self][axis] = @ + ev.value]
      BY <1>6, <2>2 DEF Accumulate
    <2>3. Called
      <3>1. [ev EXCEPT !.code = code, !.value = step] \in Event
        <4> HIDE DEF step
        <4> QED BY <1>4, <1>6, CallFacts DEF Event
      <3> HIDE DEF step, total, mod, left
      <3> QED BY <2>1, <2>2, <3>1, NextFacts, ForwardFacts, DropFacts
    <2>4. PICK x \in Int :
            /\ Abs(x) < Abs(mod)
            /\ \E r : Fit(Self, r) /\ Keep(r) /\ r.acc = [s.acc EXCEPT ![axis] = x]
            /\ due' = [due EXCEPT ![Self][axis] = @ + x - s.acc[axis]]
      <3>1. \A x \in Int : /\ Fit(Self, [s EXCEPT !.acc[axis] = x])
                           /\ Fit(Self, [s EXCEPT !.acc[axis] = x, !.eat = TRUE])
        BY <1>2 DEF Fit, State
      <3>2. due[Self][axis] \in Int /\ s.acc[axis] \in Int
        BY <1>2, CallFacts
      <3> DEFINE product == mod * step
      <3>3. product \in Int /\ left = total - product
        <4> HIDE DEF mod, step, total, left
        <4> QED BY <1>1, <1>4, <1>6
      <3>4. CASE FarEnough(total, mod)
        <4>1. due[Self][axis] + ev.value - product = due[Self][axis] + left - s.acc[axis]
          <5> HIDE DEF product, left
          <5> QED BY <1>2, <3>2, <3>3
        <4>2. due' = [due EXCEPT ![Self][axis] = @ + left - s.acc[axis]]
          <5> HIDE DEF mod, step, left, total
          <5> QED BY <2>1, <3>4, <4>1
        <4>3. Fit(Self, [s EXCEPT !.acc[axis] = left]) /\ Keep([s EXCEPT !.acc[axis] = left])
          <5> HIDE DEF left, mod, step, total
          <5> QED BY <1>4, <1>6, <2>1, <3>1, <3>4
        <4>4. [s EXCEPT !.acc[axis] = left].acc = [s.acc EXCEPT ![axis] = left]
          <5> HIDE DEF left
          <5> QED BY DEF Fit, State
        <4> HIDE DEF left, mod, step
        <4> QED BY <1>4, <1>6, <4>2, <4>3, <4>4
      <3>5. CASE ~FarEnough(total, mod)
        <4>1. left = total
          <5>1. step = 0
            <6> HIDE DEF mod, total
            <6> QED BY <1>1, <1>3, <1>6, <3>5, NotFarFacts
          <5> HIDE DEF mod, step, total, left
          <5> QED BY <1>1, <1>3, <1>4, <1>6, <5>1
        <4>2. due' = [due EXCEPT ![Self][axis] = @ + total - s.acc[axis]]
          BY <1>2, <2>2, <3>2, <3>5
        <4> DEFINE r == [s EXCEPT !.acc[axis] = total, !.eat = TRUE]
        <4>3. Fit(Self, r) /\ Keep(r) /\ r.acc = [s.acc EXCEPT ![axis] = total]
          <5> HIDE DEF total, mod, step
          <5> QED BY <1>3, <2>2, <3>1, <3>5 DEF Fit, State
        <4>4. Abs(total) < Abs(mod)
          <5> HIDE DEF total, mod, step, left
          <5> QED BY <1>4, <1>6, <4>1
        <4> HIDE DEF total, mod, step, r
        <4> QED BY <1>3, <4>2, <4>3, <4>4
      <3> QED BY <3>4, <3>5
    <2>5. due' \in [Filters -> [Axis -> Int]]
      BY <1>2, <2>4, CallFacts
    <2>6. ASSUME Conserved, UNCHANGED scene
          PROVE  Conserved'
      <3>1. Filters' = Filters /\ \A f \in Filters : Data(f)' = Data(f)
        BY <2>6 DEF Filters, Data
      <3>2. \A k \in {"SpeedMod", "Rel2Scroll"} : Kind(k)' = Kind(k) /\ Kind(k) \subseteq Filters
        BY <2>6, <3>1 DEF Kind
      <3>3. Self \in Kind("SpeedMod") \cup Kind("Rel2Scroll")
        BY CallFacts DEF Kind, F
      <3>4. PICK r : Fit(Self, r) /\ Keep(r) /\ r.acc = [s.acc EXCEPT ![axis] = x]
        BY <2>4
      <3>5. st' = [st EXCEPT ![Self] = r] /\ st \in [Filters -> State] /\ Self \in Filters
        BY <3>4, CallFacts DEF Keep, Typed, TypeOK
      <3> SUFFICES ASSUME NEW f \in Kind("SpeedMod") \cup Kind("Rel2Scroll"), NEW a \in Axis
                   PROVE  /\ due'[f][a] = st'[f].acc[a]
                          /\ Data(f).mod[a] # 0 => Abs(st'[f].acc[a]) < Abs(Data(f).mod[a])
        BY <3>1, <3>2 DEF Conserved
      <3>6. /\ due[f][a] = st[f].acc[a]
            /\ Data(f).mod[a] # 0 => Abs(st[f].acc[a]) < Abs(Data(f).mod[a])
        BY <2>6 DEF Conserved
      <3>7. f \in Filters BY <3>2
      <3>8. CASE f = Self /\ a = axis
        <4>1. st'[f].acc[a] = x BY <3>4, <3>5, <3>8, <1>2
        <4>2. due'[f][a] = x
          BY <1>2, <2>4, <3>5, <3>6, <3>8 DEF S
        <4> HIDE DEF mod
        <4>3. Data(f).mod[a] = mod BY <3>8 DEF mod, D
        <4> QED BY <2>4, <4>1, <4>2, <4>3
      <3>9. CASE ~(f = Self /\ a = axis)
        <4>1. st'[f].acc[a] = st[f].acc[a]
          BY <3>4, <3>5, <3>7, <3>9, <1>2 DEF S
        <4>2. due'[f][a] = due[f][a]
          BY <1>2, <2>4, <3>5, <3>7, <3>9
        <4> QED BY <3>6, <4>1, <4>2
      <3> QED BY <3>8, <3>9
    <2> QED BY <2>3, <2>4, <2>5, <2>6
  <1> QED BY <1>5, <1>6

\* Steps that leave movement alone.
LEMMA AccKept ==
  ASSUME Typed, stack # <<>>, Conserved, UNCHANGED <<scene, due>>,
         UNCHANGED st \/ \E s : Keep(s) /\ (F.kind \in {"SpeedMod", "Rel2Scroll"} => s.acc = S.acc)
  PROVE  Conserved'
  <1>1. Filters' = Filters /\ \A f \in Filters : Data(f)' = Data(f)
    BY DEF Filters, Data
  <1>2. \A k \in {"SpeedMod", "Rel2Scroll"} : Kind(k)' = Kind(k) /\ Kind(k) \subseteq Filters
    BY <1>1 DEF Kind
  <1>3. st \in [Filters -> State] /\ Self \in Filters
    BY CallFacts DEF Typed, TypeOK
  <1>4. \A f \in Kind("SpeedMod") \cup Kind("Rel2Scroll") : st'[f].acc = st[f].acc
    BY <1>2, <1>3 DEF Keep, Kind, F, S
  <1> QED BY <1>1, <1>2, <1>4 DEF Conserved

\* Both at once, for the two filters that hold movement back.
LEMMA SpeedModFacts ==
  ASSUME Typed, SpeedMod
  PROVE  Typed' /\ (Conserved => Conserved')
  <1>1. stack # <<>> /\ F.kind = "SpeedMod" /\ UNCHANGED Environment /\ UNCHANGED out
    BY DEF SpeedMod, At
  <1>2. CASE IsMove(ev) /\ Accumulate(ev.code, ev.code, S)
    <2>1. ev.code \in Axis /\ ev.code \in Nat /\ Fit(Self, S)
      BY <1>1, <1>2, CallFacts DEF IsMove, Event
    <2>2. /\ Called /\ due' \in [Filters -> [Axis -> Int]]
          /\ UNCHANGED st \/ \E r : Fit(Self, r) /\ Keep(r)
          /\ Conserved /\ UNCHANGED scene => Conserved'
      BY <1>1, <1>2, <2>1, AccumulateFacts
    <2> QED BY <1>1, <2>2, Assemble DEF Typed, TypeOK, Environment
  <1>3. CASE ~(IsMove(ev) /\ Accumulate(ev.code, ev.code, S))
    <2>1. /\ UNCHANGED due /\ Called
          /\ UNCHANGED st \/ Keep([S EXCEPT !.eat = FALSE])
      BY <1>1, <1>3, CallFacts, NextFacts, ForwardFacts, DropFacts DEF SpeedMod
    <2>2. Fit(Self, [S EXCEPT !.eat = FALSE]) /\ [S EXCEPT !.eat = FALSE].acc = S.acc
      BY <1>1, CallFacts, FitFacts DEF Fit, State
    <2>3. Typed' BY <1>1, <2>1, <2>2, Assemble DEF Typed, TypeOK, DueTyped
    <2> QED BY <1>1, <2>1, <2>2, <2>3, AccKept DEF Environment
  <1> QED BY <1>2, <1>3

LEMMA Rel2ScrollFacts ==
  ASSUME Typed, Rel2Scroll
  PROVE  Typed' /\ (Conserved => Conserved')
  <1>1. stack # <<>> /\ F.kind = "Rel2Scroll" /\ UNCHANGED Environment /\ UNCHANGED out
    BY DEF Rel2Scroll, At
  <1> DEFINE s == [S EXCEPT !.eat = FALSE]
             scrolls == S.on /\ IsMove(ev) /\ Accumulate(ev.code, Wheel(ev.code), s)
  <1>2. Fit(Self, s) /\ s.acc = S.acc
    BY <1>1, CallFacts, FitFacts DEF Fit, State
  <1>3. CASE scrolls
    <2>1. ev.code \in Axis /\ Wheel(ev.code) \in Nat
      BY <1>3 DEF IsMove, Wheel, REL_HWHEEL, REL_WHEEL
    <2>2. /\ Called /\ due' \in [Filters -> [Axis -> Int]]
          /\ UNCHANGED st \/ \E r : Fit(Self, r) /\ Keep(r)
          /\ Conserved /\ UNCHANGED scene => Conserved'
      BY <1>1, <1>2, <1>3, <2>1, AccumulateFacts
    <2> QED BY <1>1, <2>2, Assemble DEF Typed, TypeOK, Environment
  <1>4. CASE ~scrolls
    <2> DEFINE t == [S EXCEPT !.eat = TRUE, !.on = ev.value # 0]
    <2>1. /\ UNCHANGED due /\ Called
          /\ Keep(s) \/ Keep(t)
      BY <1>1, <1>4, CallFacts, NextFacts, ForwardFacts, DropFacts DEF Rel2Scroll
    <2>2. Fit(Self, t) /\ t.acc = S.acc
      BY <1>1, CallFacts DEF Fit, State
    <2>3. Typed' BY <1>1, <1>2, <2>1, <2>2, Assemble DEF Typed, TypeOK, DueTyped
    <2> QED BY <1>1, <1>2, <2>1, <2>2, <2>3, AccKept DEF Environment
  <1> QED BY <1>3, <1>4

LEMMA MirrorTyped == ASSUME Typed, Mirror PROVE Typed'
  <1>1. stack # <<>> /\ F.kind = "Mirror" BY DEF Mirror, At
  <1>2. Called
    BY <1>1, NextFacts, CallFacts, ForwardFacts, MirroredFacts DEF Mirror
  <1> QED BY <1>1, <1>2, Assemble DEF Mirror, Typed, TypeOK, DueTyped

LEMMA RotateTyped == ASSUME Typed, Rotate PROVE Typed'
  <1>1. stack # <<>> /\ F.kind = "Rotate" BY DEF Rotate, At
  <1>2. (IF ev.type \in D.types /\ ev.code \in Axis THEN [ev EXCEPT !.code = 1 - @] ELSE ev) \in Event
    BY <1>1, CallFacts DEF Event, Axis, REL_X, REL_Y
  <1>3. Called
    BY <1>1, <1>2, NextFacts, ForwardFacts DEF Rotate
  <1> QED BY <1>1, <1>3, Assemble DEF Rotate, Typed, TypeOK, DueTyped

LEMMA ScaleAbsTyped == ASSUME Typed, ScaleAbs PROVE Typed'
  <1>1. stack # <<>> /\ F.kind = "ScaleAbs" BY DEF ScaleAbs, At
  <1>2. (IF ev.type = "ABS" /\ ev.code \in Axis THEN Scaled(ev) ELSE ev) \in Event
    BY <1>1, CallFacts, ScaledFacts
  <1>3. Called
    BY <1>1, <1>2, NextFacts, ForwardFacts DEF ScaleAbs
  <1> QED BY <1>1, <1>3, Assemble DEF ScaleAbs, Typed, TypeOK, DueTyped

LEMMA Abs2RelSyncTyped == ASSUME Typed, Abs2RelSync PROVE Typed'
  <1>1. stack # <<>> /\ F.kind = "Abs2Rel" BY DEF Abs2RelSync, At
  <1>2. \A axis \in Axis : [ev EXCEPT !.code = axis, !.value = S.acc[axis]] \in Event
    <2>1. ev \in Event /\ S.acc \in [Axis -> Int] BY <1>1, CallFacts DEF Fit, State
    <2>2. Axis \subseteq Nat BY DEF Axis, REL_X, REL_Y
    <2> QED BY <2>1, <2>2 DEF Event
  <1>3. [ev EXCEPT !.type = "SYN", !.value = 0] \in Event
    <2>1. ev \in Event /\ "SYN" \in Type BY <1>1, CallFacts DEF Type
    <2>2. \A t \in Type, v \in Int : [ev EXCEPT !.type = t, !.value = v] \in Event
      BY <2>1 DEF Event
    <2>3. 0 \in Int OBVIOUS
    <2> QED BY <2>1, <2>2, <2>3, Zenon
  <1>4. \A axis \in Axis, at \in Place : SendAxis(axis, at) => Called
    BY <1>1, <1>2, NextFacts, SendThenFacts, NeverFacts DEF SendAxis
  <1>5. {REL_X, REL_Y} \subseteq Axis /\ {"y", "syn", "again"} \subseteq Place
    BY DEF Axis, Place
  <1>6. Called
    BY <1>1, <1>3, <1>4, <1>5, NextFacts, SendThenFacts DEF Abs2RelSync
  <1> QED BY <1>1, <1>6, Assemble DEF Abs2RelSync, Typed, TypeOK, DueTyped

LEMMA PenUpFacts ==
  ASSUME NEW f, NEW s, Fit(f, s)
  PROVE  Fit(f, PenUp(s))
  <1>1. Initial.seen \in [Axis -> 0 .. 2] BY DEF Initial
  <1> HIDE DEF Initial
  <1> QED BY <1>1, FitFacts DEF PenUp

LEMMA Abs2RelTyped == ASSUME Typed, Abs2Rel PROVE Typed'
  <1>1. stack # <<>> /\ F.kind = "Abs2Rel" BY DEF Abs2Rel, At
  <1>2. Called
    BY <1>1, NextFacts, CallFacts, ForwardFacts, DropFacts DEF Abs2Rel
  <1>3. ev.code \in Axis =>
          Fit(Self, [S EXCEPT !.acc[ev.code] = ev.value - S.last[ev.code],
                              !.last[ev.code] = ev.value,
                              !.seen[ev.code] = IF @ < 2 THEN @ + 1 ELSE @])
    <2>1. ev.value \in Int /\ Fit(Self, S) BY <1>1, CallFacts DEF Event
    <2>2. S.acc \in [Axis -> Int] /\ S.last \in [Axis -> Int] /\ S.seen \in [Axis -> 0 .. 2]
      BY <2>1 DEF Fit, State
    <2> SUFFICES ASSUME ev.code \in Axis
                 PROVE  Fit(Self, [S EXCEPT !.acc[ev.code] = ev.value - S.last[ev.code],
                                            !.last[ev.code] = ev.value,
                                            !.seen[ev.code] = IF @ < 2 THEN @ + 1 ELSE @])
      OBVIOUS
    <2> DEFINE acc == [S.acc EXCEPT ![ev.code] = ev.value - S.last[ev.code]]
               last == [S.last EXCEPT ![ev.code] = ev.value]
               seen == [S.seen EXCEPT ![ev.code] = IF @ < 2 THEN @ + 1 ELSE @]
    <2>3. acc \in [Axis -> Int] /\ last \in [Axis -> Int] /\ seen \in [Axis -> 0 .. 2]
      BY <2>1, <2>2
    <2>4. [S EXCEPT !.acc[ev.code] = ev.value - S.last[ev.code],
                    !.last[ev.code] = ev.value,
                    !.seen[ev.code] = IF @ < 2 THEN @ + 1 ELSE @]
            = [S EXCEPT !.acc = acc, !.last = last, !.seen = seen]
      BY <2>1 DEF Fit, State
    <2> HIDE DEF acc, last, seen
    <2> QED BY <2>1, <2>3, <2>4 DEF Fit, State
  <1>4. Fit(Self, PenUp(S)) /\ Fit(Self, S)
    BY <1>1, CallFacts, PenUpFacts
  <1>5. UNCHANGED st \/ \E s : Fit(Self, s) /\ Keep(s)
    BY <1>3, <1>4 DEF Abs2Rel
  <1> QED BY <1>1, <1>2, <1>5, Assemble DEF Abs2Rel, Typed, TypeOK, DueTyped

LEMMA PressureToKeyTyped == ASSUME Typed, PressureToKey PROVE Typed'
  <1>1. stack # <<>> /\ F.kind = "PressureToKey" BY DEF PressureToKey, At
  <1>2. D.key \in Nat BY <1>1, CallFacts, DataFacts DEF Typed, TypeOK, D, F
  <1>3. E("KEY", D.key, IF S.on THEN 0 ELSE 1) \in Event
    BY <1>2 DEF E, Event, Type
  <1>4. Called
    BY <1>1, <1>3, NextFacts, CallFacts, ForwardFacts, SendThenFacts, DropFacts
      DEF PressureToKey, Place
  <1>5. Fit(Self, [S EXCEPT !.on = ~@])
    BY <1>1, CallFacts DEF Fit, State
  <1>6. UNCHANGED st \/ \E s : Fit(Self, s) /\ Keep(s)
    BY <1>5 DEF PressureToKey
  <1> QED BY <1>1, <1>4, <1>6, Assemble DEF PressureToKey, Typed, TypeOK, DueTyped

LEMMA KalmanTyped == ASSUME Typed, Kalman PROVE Typed'
  <1>1. stack # <<>> /\ F.kind = "Kalman" BY DEF Kalman, At
  <1>2. scene.estimates \subseteq Int
    BY <1>1, CallFacts, ScenesAssumption DEF F, Filters, Typed, TypeOK
  <1>3. \A x \in scene.estimates : [ev EXCEPT !.value = x] \in Event
    BY <1>1, <1>2, CallFacts DEF Event
  <1>4. Called
    BY <1>1, <1>3, NextFacts, CallFacts, ForwardFacts DEF Kalman
  <1>5. ASSUME ev.code \in Axis PROVE Fit(Self, [S EXCEPT !.seen[ev.code] = 1])
    <2>1. Fit(Self, S) BY <1>1, CallFacts
    <2>2. S.seen \in [Axis -> 0 .. 2] BY <2>1 DEF Fit, State
    <2>3. [S.seen EXCEPT ![ev.code] = 1] \in [Axis -> 0 .. 2] BY <1>5, <2>2
    <2>4. [S EXCEPT !.seen[ev.code] = 1] = [S EXCEPT !.seen = [S.seen EXCEPT ![ev.code] = 1]]
      BY <2>1 DEF Fit, State
    <2> QED BY <2>1, <2>3, <2>4, FitFacts
  <1>6. UNCHANGED st \/ \E s : Fit(Self, s) /\ Keep(s)
    BY <1>1, <1>5, CallFacts, PenUpFacts DEF Kalman
  <1> QED BY <1>1, <1>4, <1>6, Assemble DEF Kalman, Typed, TypeOK, DueTyped

---------------------------------------------------------------------------
(* The rings of samples.                                                   *)

\* What one more sample does to the rings of a filter.
LEMMA AddedFacts ==
  ASSUME Typed, stack # <<>>, F.kind = "WeightedAverageAbs", D.n # 0,
         NEW c \in 0 .. 2, NEW value \in Int
  PROVE  LET s == Added(S, c, value) IN
         /\ D.n \in Nat \ {0}
         /\ Fit(Self, s)
         /\ s.head[c] \in 0 .. D.n - 1
         /\ S.tail[c] \in 0 .. D.n - 1 => s.tail[c] \in 0 .. D.n - 1
         /\ \A b \in (0 .. 2) \ {c} : s.head[b] = S.head[b] /\ s.tail[b] = S.tail[b]
  <1>1. D.n \in Nat \ {0} BY CallFacts, DataFacts DEF Typed, TypeOK, D, F
  <1>2. /\ S \in State /\ S.head \in [0 .. 2 -> Int] /\ S.tail \in [0 .. 2 -> Int]
        /\ S.coord \in [0 .. 2 -> Seq(Int)]
        /\ S.head[c] \in Nat /\ S.tail[c] \in Int
        /\ \A b \in 0 .. 2 : S.head[b] \in Nat /\ S.coord[b] \in [1 .. D.n -> Int]
    BY CallFacts DEF Fit, State, F, D
  <1> DEFINE full == Abs(S.head[c] - S.tail[c]) >= D.n - 1
             head == Wrap(S.head[c] + 1, D.n)
             tail == IF full THEN Wrap(S.tail[c] + 1, D.n) ELSE S.tail[c]
             coord == [S.coord[c] EXCEPT ![head + 1] = value]
             s == [S EXCEPT !.tail = [S.tail EXCEPT ![c] = tail],
                            !.head = [S.head EXCEPT ![c] = head],
                            !.coord = [S.coord EXCEPT ![c] = coord]]
  <1>3. Added(S, c, value) = s
    BY <1>2 DEF Added, State
  <1>4. head \in 0 .. D.n - 1 /\ tail \in Int /\ (S.tail[c] \in 0 .. D.n - 1 => tail \in 0 .. D.n - 1)
    <2>1. \A i \in Int : Wrap(i, D.n) \in Int /\ (i >= 0 => Wrap(i, D.n) \in 0 .. D.n - 1)
      BY <1>1, WrapFacts
    <2>2. S.head[c] + 1 \in Int /\ S.head[c] + 1 >= 0 BY <1>2
    <2>3. S.tail[c] + 1 \in Int BY <1>2
    <2>4. head \in 0 .. D.n - 1 BY <2>1, <2>2
    <2>5. Wrap(S.tail[c] + 1, D.n) \in Int BY <2>1, <2>3
    <2>6. S.tail[c] \in 0 .. D.n - 1 => Wrap(S.tail[c] + 1, D.n) \in 0 .. D.n - 1
      <3>1. S.tail[c] \in 0 .. D.n - 1 => S.tail[c] + 1 >= 0 BY <1>1, <1>2
      <3> QED BY <2>1, <2>3, <3>1
    <2> HIDE DEF head, full
    <2> QED BY <1>2, <2>4, <2>5, <2>6
  <1>5. coord \in [1 .. D.n -> Int] /\ coord \in Seq(Int)
    <2> HIDE DEF head
    <2>1. coord \in [1 .. D.n -> Int] BY <1>1, <1>2, <1>4
    <2> HIDE DEF coord
    <2> QED BY <1>1, <2>1, SeqDef
  <1> HIDE DEF head, tail, coord, full
  <1> DEFINE heads == [S.head EXCEPT ![c] = head]
             tails == [S.tail EXCEPT ![c] = tail]
             coords == [S.coord EXCEPT ![c] = coord]
  <1>6. heads \in [0 .. 2 -> Int] /\ tails \in [0 .. 2 -> Int] /\ coords \in [0 .. 2 -> Seq(Int)]
    <2>1. head \in Int BY <1>1, <1>4
    <2>2. coords \in [0 .. 2 -> Seq(Int)] BY <1>2, <1>5
    <2> QED BY <1>2, <1>4, <2>1, <2>2
  <1>7. /\ heads[c] = head /\ tails[c] = tail /\ coords[c] = coord
        /\ \A b \in (0 .. 2) \ {c} : heads[b] = S.head[b] /\ tails[b] = S.tail[b] /\ coords[b] = S.coord[b]
    BY <1>2
  <1> HIDE DEF heads, tails, coords
  <1>8. s \in State /\ s.queue = S.queue /\ s.coord = coords /\ s.head = heads /\ s.tail = tails
    BY <1>2, <1>6 DEF State, heads, tails, coords
  <1> HIDE DEF s
  <1>9. Fit(Self, s)
    <2>1. Fit(Self, S) BY CallFacts
    <2>2. \A b \in 0 .. 2 : s.head[b] \in Nat /\ s.coord[b] \in [1 .. D.n -> Int]
      <3> TAKE b \in 0 .. 2
      <3>1. CASE b = c BY <1>4, <1>5, <1>7, <1>8, <3>1
      <3>2. CASE b # c BY <1>2, <1>7, <1>8, <3>2
      <3> QED BY <3>1, <3>2
    <2> QED BY <1>8, <2>1, <2>2 DEF Fit, D
  <1> QED BY <1>1, <1>3, <1>4, <1>7, <1>8, <1>9

LEMMA AverageFacts ==
  ASSUME Typed, stack # <<>>, F.kind = "WeightedAverageAbs", D.n \in Nat \ {0},
         NEW c \in 0 .. 2, NEW s, Fit(Self, s), Turns(s, c) # {}
  PROVE  Average(s, c) \in Int
  <1> DEFINE k == CHOOSE k \in Turns(s, c) : TRUE
             place == Wrap(s.head[c] + k - 1, D.n)
  <1>1. k \in 0 .. D.n - 1 BY DEF Turns
  <1>2. s.head[c] \in Nat /\ s.coord[c] \in [1 .. D.n -> Int]
    BY CallFacts DEF Fit, F, D
  <1>3. Average(s, c) = IF k = 0 THEN 0 ELSE Quotient(s.coord[c][place + 1], k)
    BY DEF Average
  <1> HIDE DEF k
  <1>4. ASSUME k # 0 PROVE place \in 0 .. D.n - 1
    <2>1. s.head[c] + k - 1 \in Int /\ s.head[c] + k - 1 >= 0 BY <1>1, <1>2, <1>4
    <2>2. \A i \in Int : i >= 0 => Wrap(i, D.n) \in 0 .. D.n - 1 BY WrapFacts
    <2> QED BY <2>1, <2>2
  <1> HIDE DEF place
  <1>5. ASSUME k # 0 PROVE Quotient(s.coord[c][place + 1], k) \in Int
    <2>1. s.coord[c][place + 1] \in Int BY <1>2, <1>4, <1>5
    <2>2. k \in Int BY <1>1
    <2> QED BY <1>5, <2>1, <2>2, QuotientFacts
  <1> QED BY <1>3, <1>5

\* Going up from the head one comes to the tail, if both are in the ring.
LEMMA TurnsFacts ==
  ASSUME NEW s, NEW c, D.n \in Nat \ {0},
         s.head[c] \in 0 .. D.n - 1, s.tail[c] \in 0 .. D.n - 1
  PROVE  Turns(s, c) # {}
  <1> DEFINE h == s.head[c]
             t == s.tail[c]
             k == IF t >= h THEN t - h ELSE t - h + D.n
  <1>1. k \in 0 .. D.n - 1 OBVIOUS
  <1>2. Wrap(h + k, D.n) = t
    <2>1. CASE t >= h
      <3>1. h + k = t /\ t \in Int BY <2>1
      <3> QED BY <3>1, WrapFacts
    <2>2. CASE t < h
      <3>1. h + k = t + D.n /\ t + D.n \in D.n .. 2 * D.n - 1 BY <2>2
      <3>2. Wrap(t + D.n, D.n) = t BY <3>1, WrapFacts
      <3> QED BY <3>1, <3>2
    <2> QED BY <2>1, <2>2
  <1> QED BY <1>1, <1>2 DEF Turns

\* All that is to be known of a step of WeightedAverageAbs.
LEMMA WeightedAverageAbsFacts ==
  ASSUME Typed, WeightedAverageAbs
  PROVE  /\ Typed'
         /\ \A f \in Kind("WeightedAverageAbs"), c \in 0 .. 2 : InRing(f, c) => InRing(f, c)'
         /\ Sampled(ev) /\ InRing(Self, SampleOf(ev)) => Top'.at # "loop"
  <1>1. /\ stack # <<>> /\ F.kind = "WeightedAverageAbs"
        /\ UNCHANGED <<Environment, out, down, due, pressure>>
    BY DEF WeightedAverageAbs, At
  <1>2. /\ Self \in Filters /\ st \in [Filters -> State] /\ Fit(Self, S) /\ ev \in Event
        /\ D.n \in Nat /\ F.next \in Filters
    BY <1>1, CallFacts, NextFacts, DataFacts DEF Typed, TypeOK, D, F
  <1>3. Filters' = Filters /\ \A f \in Filters : Data(f)' = Data(f)
    BY <1>1 DEF Environment, Filters, Data
  <1> DEFINE c == SampleOf(ev)
             s == Added(S, c, ev.value)
             cleared == [S EXCEPT !.head = Initial.head, !.tail = Initial.tail]
  <1>4. Sampled(ev) => c \in 0 .. 2
    BY DEF Sampled, SampleOf, Axis, REL_X, REL_Y
  <1>5. ASSUME Sampled(ev), D.n # 0
        PROVE  /\ Fit(Self, s)
               /\ s.head[c] \in 0 .. D.n - 1
               /\ S.tail[c] \in 0 .. D.n - 1 => s.tail[c] \in 0 .. D.n - 1
               /\ \A b \in (0 .. 2) \ {c} : s.head[b] = S.head[b] /\ s.tail[b] = S.tail[b]
    <2>1. ev.value \in Int BY <1>2 DEF Event
    <2> QED BY <1>1, <1>4, <1>5, <2>1, AddedFacts
  <1>6. Fit(Self, cleared) /\ \A b \in 0 .. 2 : cleared.head[b] = 0 /\ cleared.tail[b] = 0
    <2>1. Initial.head \in [0 .. 2 -> Int] /\ Initial.tail \in [0 .. 2 -> Int]
          /\ \A b \in 0 .. 2 : Initial.head[b] = 0 /\ Initial.tail[b] = 0
      BY DEF Initial
    <2>2. /\ cleared.head = Initial.head /\ cleared.tail = Initial.tail
          /\ cleared.coord = S.coord /\ cleared.queue = S.queue /\ cleared \in State
      <3> HIDE DEF Initial
      <3>1. S \in State BY <1>2 DEF Fit
      <3> QED BY <2>1, <3>1 DEF State
    <2> HIDE DEF cleared
    <2> QED BY <1>2, <2>1, <2>2 DEF Fit
  <1>7. \/ Sampled(ev) /\ D.n = 0 /\ Never("trap") /\ UNCHANGED st
        \/ Sampled(ev) /\ D.n # 0 /\ Turns(s, c) = {} /\ Never("loop") /\ Keep(s)
        \/ /\ Sampled(ev) /\ D.n # 0 /\ Turns(s, c) # {}
           /\ Forward([ev EXCEPT !.value = Average(s, c)]) /\ Keep(s)
        \/ ~Sampled(ev) /\ Forward(ev) /\ Keep(cleared)
        \/ ~Sampled(ev) /\ Forward(ev) /\ UNCHANGED st
    BY DEF WeightedAverageAbs, Sampled, IsAbs, Axis, REL_X, REL_Y, ABS_PRESSURE
  <1> HIDE DEF c, s, cleared
  <1>8. Called
    <2>1. ASSUME Sampled(ev), D.n # 0, Turns(s, c) # {}
          PROVE  [ev EXCEPT !.value = Average(s, c)] \in Event
      <3>1. Average(s, c) \in Int
        BY <1>1, <1>2, <1>4, <1>5, <2>1, AverageFacts
      <3> QED BY <1>2, <3>1 DEF Event
    <2> QED BY <1>1, <1>2, <1>7, <2>1, ForwardFacts, NeverFacts DEF Never, Place
  <1>9. UNCHANGED st \/ \E r : Fit(Self, r) /\ Keep(r)
    BY <1>5, <1>6, <1>7
  <1>10. Typed'
    BY <1>1, <1>8, <1>9, Assemble DEF Typed, TypeOK, DueTyped
  <1>11. ASSUME NEW f \in Kind("WeightedAverageAbs"), NEW b \in 0 .. 2, InRing(f, b)
         PROVE  InRing(f, b)'
    <2>1. f \in Filters /\ Data(f)' = Data(f) BY <1>3 DEF Kind
    <2>2. \A r : Keep(r) => st' = [st EXCEPT ![Self] = r] BY DEF Keep
    <2>3. CASE f # Self \/ UNCHANGED st
      <3>1. st'[f] = st[f] BY <1>2, <1>7, <2>1, <2>2, <2>3
      <3> QED BY <1>11, <2>1, <3>1 DEF InRing
    <2>4. CASE f = Self /\ ~UNCHANGED st
      <3>1. /\ S.head[b] \in 0 .. D.n - 1 /\ S.tail[b] \in 0 .. D.n - 1
            /\ Data(f) = D
        BY <1>11, <2>4 DEF InRing, S, D
      <3>2. PICK r : /\ Keep(r) /\ r.head[b] \in 0 .. D.n - 1 /\ r.tail[b] \in 0 .. D.n - 1
        <4>1. CASE Sampled(ev) BY <1>4, <1>5, <1>7, <2>4, <3>1, <4>1
        <4>2. CASE ~Sampled(ev)
          <5>1. 0 \in 0 .. D.n - 1 BY <1>2, <3>1
          <5> QED BY <1>6, <1>7, <2>4, <4>2, <5>1
        <4> QED BY <4>1, <4>2
      <3>3. st'[f] = r BY <1>2, <2>2, <2>4, <3>2
      <3> QED BY <2>1, <3>1, <3>2, <3>3 DEF InRing
    <2> QED BY <2>3, <2>4
  <1>12. ASSUME Sampled(ev), InRing(Self, SampleOf(ev)) PROVE Top'.at # "loop"
    <2>1. S.head[c] \in 0 .. D.n - 1 /\ S.tail[c] \in 0 .. D.n - 1
      BY <1>12 DEF InRing, S, D, c
    <2>2. D.n # 0 BY <1>2, <2>1
    <2>3. Turns(s, c) # {} BY <1>2, <1>5, <1>12, <2>1, <2>2, TurnsFacts
    <2>4. Forward([ev EXCEPT !.value = Average(s, c)]) BY <1>7, <1>12, <2>2, <2>3
    <2>5. stack' = <<Frame(F.next, "modify", ev')>> \o Tail(stack) BY <2>4 DEF Forward
    <2>6. Top' = Frame(F.next, "modify", ev')
      <3>1. Tail(stack) \in Seq(FrameSet) /\ Frame(F.next, "modify", ev') \in FrameSet
        BY <1>1, <1>2, <1>8, CallFacts DEF Called, Frame, FrameSet, Place
      <3>2. Head(stack') = Frame(F.next, "modify", ev') BY <2>5, <3>1, Push
      <3> QED BY <3>2 DEF Top
    <2> QED BY <2>6 DEF Frame
  <1> QED BY <1>10, <1>11, <1>12

---------------------------------------------------------------------------
(* Joining lines.                                                          *)

\* The data of a Barrier with another queue.
LEMMA QueueFacts ==
  ASSUME NEW f, NEW s, Fit(f, s), NEW q \in Seq(Event), q # <<>> => Len(q) <= Data(f).history
  PROVE  Fit(f, [s EXCEPT !.queue = q])
  BY DEF Fit, State

LEMMA BarrierTyped == ASSUME Typed, Barrier PROVE Typed'
  <1>1. stack # <<>> /\ F.kind = "Barrier" BY DEF Barrier, At
  <1>2. /\ D.history \in Nat /\ D = Data(Self) /\ ev \in Event /\ Fit(Self, S) /\ Top.ev \in Event
        /\ F.next \in Filters
    BY <1>1, CallFacts, NextFacts, DataFacts DEF Typed, TypeOK, D, F
  <1>3. S.queue \in Seq(Event) /\ (S.queue # <<>> => Len(S.queue) <= D.history)
    BY <1>2 DEF Fit, State
  <1>4. S.queue # <<>> => /\ Head(S.queue) \in Event /\ Tail(S.queue) \in Seq(Event)
                          /\ Len(Tail(S.queue)) <= D.history
    BY <1>2, <1>3, HeadTailProperties, LenProperties
  <1>5. Inserted(S.queue) \in Seq(Event) /\ (Inserted(S.queue) # <<>> => Len(Inserted(S.queue)) <= D.history)
    BY <1>2, <1>3, AppendProperties, LenProperties DEF Inserted
  <1>6. Called
    BY <1>1, <1>2, <1>4, ForwardFacts, SendThenFacts, DropFacts DEF Barrier, Place
  <1>7. UNCHANGED st \/ \E s : Fit(Self, s) /\ Keep(s)
    <2>1. Fit(Self, [S EXCEPT !.queue = Inserted(S.queue)]) BY <1>2, <1>5, QueueFacts
    <2>2. S.queue # <<>> => Fit(Self, [S EXCEPT !.queue = Tail(S.queue)]) BY <1>2, <1>4, QueueFacts
    <2> QED BY <2>1, <2>2 DEF Barrier
  <1> QED BY <1>1, <1>6, <1>7, Assemble DEF Barrier, Typed, TypeOK, DueTyped

LEMMA SendFacts ==
  ASSUME Typed, stack # <<>>, NEW at \in Place, Send(at)
  PROVE  Called
  BY CallFacts, NextFacts, SendThenFacts, NeverFacts DEF Send

LEMMA CopyToHandleTyped == ASSUME Typed, CopyToHandle PROVE Typed'
  <1>1. stack # <<>> /\ F.kind = "CopyToHandle" BY DEF CopyToHandle, At
  <1>2. Called
    BY <1>1, CallFacts, NextFacts, SendFacts, ForwardFacts DEF CopyToHandle, Place
  <1> QED BY <1>1, <1>2, Assemble DEF CopyToHandle, Typed, TypeOK, DueTyped

LEMMA FilterToHandleTyped == ASSUME Typed, FilterToHandle PROVE Typed'
  <1>1. stack # <<>> /\ F.kind = "FilterToHandle" BY DEF FilterToHandle, At
  <1>2. Called
    BY <1>1, CallFacts, NextFacts, SendFacts, SendThenFacts, ForwardFacts, DropFacts
      DEF FilterToHandle, Place
  <1>3. Fit(Self, [S EXCEPT !.on = TRUE, !.passed = FALSE]) /\ Fit(Self, [S EXCEPT !.passed = TRUE])
    BY <1>1, CallFacts DEF Fit, State
  <1>4. UNCHANGED st \/ \E s : Fit(Self, s) /\ Keep(s)
    BY <1>3 DEF FilterToHandle
  <1> QED BY <1>1, <1>2, <1>4, Assemble DEF FilterToHandle, Typed, TypeOK, DueTyped

---------------------------------------------------------------------------
(* The whole machine.                                                      *)

\* A packet waits, or the next event of it is handed to the first filter.
LEMMA DeviceTyped ==
  ASSUME Typed, NEW d \in Devices, Packet(d) \/ Read(d)
  PROVE  Typed' /\ UNCHANGED <<scene, st, due>>
  <1>1. UNCHANGED <<scene, st, due, out>> BY DEF Packet, Read
  <1>2. /\ Filters' = Filters /\ Devices' = Devices
        /\ \A f \in Filters : Data(f)' = Data(f) /\ \A s : Fit(f, s)' = Fit(f, s)
    BY <1>1 DEF Filters, Devices, Data, Fit
  <1>3. AllFit' /\ DueTyped' BY <1>1, <1>2 DEF Typed, AllFit, DueTyped
  <1>4. unread' \in [Devices -> Seq(Event)] /\ ev' \in Event /\ stack' \in Seq(FrameSet)
    <2>1. /\ unread \in [Devices -> Seq(Event)] /\ ev \in Event /\ stack \in Seq(FrameSet)
          /\ scene \in Scenes
      BY DEF Typed, TypeOK, FrameSet
    <2>2. Syn \in Event BY DEF Syn, E, Event, Type
    <2>3. CASE Packet(d)
      <3>1. PICK p \in scene.packets[d] : unread' = [unread EXCEPT ![d] = Append(p, Syn)]
        BY <2>3 DEF Packet
      <3>2. p \in Seq(Event) BY <2>1, ScenesAssumption DEF Devices
      <3>3. Append(p, Syn) \in Seq(Event) BY <2>2, <3>2, AppendProperties
      <3> QED BY <2>1, <2>3, <3>1, <3>3 DEF Packet
    <2>4. CASE Read(d)
      <3>1. unread[d] \in Seq(Event) /\ unread[d] # <<>> BY <2>1, <2>4 DEF Read
      <3>2. Head(unread[d]) \in Event /\ Tail(unread[d]) \in Seq(Event)
        BY <3>1, HeadTailProperties
      <3>3. scene.roots[d] \in Filters BY <2>1, ScenesAssumption DEF Devices, Filters
      <3>4. Frame(scene.roots[d], "modify", ev') \in FrameSet
        BY <2>4, <3>2, <3>3 DEF Read, Frame, FrameSet, Place
      <3>5. <<Frame(scene.roots[d], "modify", ev')>> \in Seq(FrameSet) BY <3>4
      <3> QED BY <2>1, <2>4, <3>2, <3>5 DEF Read
    <2> QED BY <2>3, <2>4
  <1> QED BY <1>1, <1>2, <1>3, <1>4 DEF Typed, TypeOK, FrameSet

RingsStay == \A f \in Kind("WeightedAverageAbs"), c \in 0 .. 2 : InRing(f, c) => InRing(f, c)'

\* The steps of the other filters do not touch the rings.
LEMMA OtherRings ==
  ASSUME Typed, stack # <<>>, F.kind # "WeightedAverageAbs", UNCHANGED scene,
         UNCHANGED st \/ \E s : Keep(s)
  PROVE  RingsStay
  <1>1. \A f \in Filters : Data(f)' = Data(f) BY DEF Data, Filters
  <1>2. \A f \in Kind("WeightedAverageAbs") : f \in Filters /\ f # Self BY DEF Kind, F
  <1>3. st \in [Filters -> State] BY DEF Typed, TypeOK
  <1>4. \A f \in Kind("WeightedAverageAbs") : st'[f] = st[f] BY <1>2, <1>3 DEF Keep
  <1> QED BY <1>1, <1>2, <1>4 DEF RingsStay, InRing

\* Steps of filters that neither hold movement back nor have rings.
LEMMA PlainStep ==
  ASSUME Typed, stack # <<>>, UNCHANGED <<scene, due>>, UNCHANGED st \/ \E s : Keep(s),
         F.kind \notin {"SpeedMod", "Rel2Scroll", "WeightedAverageAbs"}
  PROVE  (Conserved => Conserved') /\ RingsStay
  BY AccKept, OtherRings

\* One step of the machine.
LEMMA StepFacts ==
  ASSUME Typed, [Next]_vars
  PROVE  Typed' /\ (Conserved => Conserved') /\ RingsStay /\ UNCHANGED scene
  <1> DEFINE Changed == UNCHANGED st \/ \E s : Keep(s)
             Plain == /\ stack # <<>> /\ UNCHANGED <<scene, due>> /\ Changed
                      /\ F.kind \notin {"SpeedMod", "Rel2Scroll", "WeightedAverageAbs"}
  <1> USE DEF At, Environment
  <1>1. CASE PassOn
    <2>1. Plain BY <1>1 DEF PassOn
    <2> QED BY <1>1, <2>1, PlainStep, PassOnTyped
  <1>2. CASE Commit
    <2>1. Plain BY <1>2 DEF Commit
    <2> QED BY <1>2, <2>1, PlainStep, CommitTyped
  <1>3. CASE NoRepeat
    <2>1. Plain BY <1>3 DEF NoRepeat
    <2> QED BY <1>3, <2>1, PlainStep, NoRepeatTyped
  <1>4. CASE KeySubstitute
    <2>1. Plain BY <1>4 DEF KeySubstitute
    <2> QED BY <1>4, <2>1, PlainStep, KeySubstituteTyped
  <1>5. CASE KeyLock
    <2>1. Plain BY <1>5 DEF KeyLock
    <2> QED BY <1>5, <2>1, PlainStep, KeyLockTyped
  <1>6. CASE Btn2Rel
    <2>1. Plain BY <1>6 DEF Btn2Rel
    <2> QED BY <1>6, <2>1, PlainStep, Btn2RelTyped
  <1>7. CASE SpeedMod
    <2>1. stack # <<>> /\ F.kind # "WeightedAverageAbs" /\ UNCHANGED scene /\ Changed
      BY <1>7 DEF SpeedMod, Accumulate
    <2> QED BY <1>7, <2>1, SpeedModFacts, OtherRings
  <1>8. CASE Rel2Scroll
    <2>1. stack # <<>> /\ F.kind # "WeightedAverageAbs" /\ UNCHANGED scene /\ Changed
      BY <1>8 DEF Rel2Scroll, Accumulate
    <2> QED BY <1>8, <2>1, Rel2ScrollFacts, OtherRings
  <1>9. CASE Mirror
    <2>1. Plain BY <1>9 DEF Mirror
    <2> QED BY <1>9, <2>1, PlainStep, MirrorTyped
  <1>10. CASE Rotate
    <2>1. Plain BY <1>10 DEF Rotate
    <2> QED BY <1>10, <2>1, PlainStep, RotateTyped
  <1>11. CASE Abs2RelSync
    <2>1. Plain BY <1>11 DEF Abs2RelSync
    <2> QED BY <1>11, <2>1, PlainStep, Abs2RelSyncTyped
  <1>12. CASE Abs2Rel
    <2>1. Plain BY <1>12 DEF Abs2Rel
    <2> QED BY <1>12, <2>1, PlainStep, Abs2RelTyped
  <1>13. CASE PressureToKey
    <2>1. Plain BY <1>13 DEF PressureToKey
    <2> QED BY <1>13, <2>1, PlainStep, PressureToKeyTyped
  <1>14. CASE ScaleAbs
    <2>1. Plain BY <1>14 DEF ScaleAbs
    <2> QED BY <1>14, <2>1, PlainStep, ScaleAbsTyped
  <1>15. CASE Kalman
    <2>1. Plain BY <1>15 DEF Kalman
    <2> QED BY <1>15, <2>1, PlainStep, KalmanTyped
  <1>16. CASE WeightedAverageAbs
    <2>1. /\ stack # <<>> /\ F.kind = "WeightedAverageAbs" /\ UNCHANGED <<scene, due>> /\ Changed
      BY <1>16 DEF WeightedAverageAbs
    <2> QED BY <1>16, <2>1, WeightedAverageAbsFacts, AccKept DEF RingsStay
  <1>17. CASE Barrier
    <2>1. Plain BY <1>17 DEF Barrier
    <2> QED BY <1>17, <2>1, PlainStep, BarrierTyped
  <1>18. CASE CopyToHandle
    <2>1. Plain BY <1>18 DEF CopyToHandle
    <2> QED BY <1>18, <2>1, PlainStep, CopyToHandleTyped
  <1>19. CASE FilterToHandle
    <2>1. Plain BY <1>19 DEF FilterToHandle
    <2> QED BY <1>19, <2>1, PlainStep, FilterToHandleTyped
  <1>20. ASSUME UNCHANGED <<scene, st, due>>
         PROVE  (Conserved => Conserved') /\ RingsStay
    <2>1. Filters' = Filters /\ \A f \in Filters : Data(f)' = Data(f)
      BY <1>20 DEF Filters, Data
    <2>2. \A k : Kind(k)' = Kind(k) /\ Kind(k) \subseteq Filters
      BY <1>20, <2>1 DEF Kind
    <2> QED BY <1>20, <2>1, <2>2 DEF Conserved, RingsStay, InRing
  <1>21. ASSUME NEW d \in Devices, Packet(d) \/ Read(d)
         PROVE  Typed' /\ (Conserved => Conserved') /\ RingsStay /\ UNCHANGED scene
    BY <1>20, <1>21, DeviceTyped
  <1>22. CASE UNCHANGED vars
    <2>1. Typed' /\ UNCHANGED <<scene, st, due>>
      <3>1. UNCHANGED <<scene, st, ev, stack, unread, out, due>>
        BY <1>22 DEF vars, history
      <3>2. UNCHANGED <<Filters, Devices>> BY <3>1 DEF Filters, Devices
      <3> QED BY <3>1, <3>2
            DEF Typed, TypeOK, AllFit, Fit, DueTyped, Data, Filters, Devices
    <2> QED BY <1>20, <2>1
  <1> QED
    BY <1>1, <1>2, <1>3, <1>4, <1>5, <1>6, <1>7, <1>8, <1>9, <1>10, <1>11, <1>12, <1>13, <1>14,
       <1>15, <1>16, <1>17, <1>18, <1>19, <1>21, <1>22 DEF Next, Modify, Halted

\* The rings of X are initialised.
RingsOfX == \A f \in Kind("WeightedAverageAbs") : Data(f).n > 0 => InRing(f, 0)

LEMMA InitFacts ==
  ASSUME Init
  PROVE  Typed /\ Conserved /\ RingsOfX
  <1>1. scene \in Scenes BY DEF Init
  <1>2. PICK junk \in Junk :
          st = [f \in Filters |-> IF scene.filters[f].kind = "WeightedAverageAbs"
                                   THEN Uninitialised(Data(f).n, junk) ELSE Initial]
    BY DEF Init
  <1>3. junk.head \in Nat /\ junk.tail \in Int /\ junk.sample \in Int BY JunkAssumption
  <1>4. /\ Initial \in State /\ Initial.queue = <<>>
        /\ \A a \in Axis : Initial.acc[a] = 0
    BY DEF Initial, State
  <1>5. ASSUME NEW n \in Nat
        PROVE  LET s == Uninitialised(n, junk) IN
               /\ s \in State /\ s.queue = <<>>
               /\ s.head[0] = 0 /\ s.tail[0] = 0
               /\ \A c \in 0 .. 2 : s.head[c] \in Nat /\ s.coord[c] \in [1 .. n -> Int]
    <2> DEFINE heads == [Initial.head EXCEPT ![2] = junk.head]
               tails == [Initial.tail EXCEPT ![1] = junk.tail]
               samples == [i \in 1 .. n |-> junk.sample]
               coords == [c \in 0 .. 2 |-> samples]
               r == [Initial EXCEPT !.head = heads, !.tail = tails, !.coord = coords]
    <2>1. heads \in [0 .. 2 -> Nat] /\ tails \in [0 .. 2 -> Int] /\ heads[0] = 0 /\ tails[0] = 0
      BY <1>3 DEF Initial
    <2>2. samples \in [1 .. n -> Int] BY <1>3
    <2>3. samples \in Seq(Int) BY <2>2, SeqDef
    <2>4. Uninitialised(n, junk) = r
      BY DEF Uninitialised, Initial
    <2> HIDE DEF heads, tails, samples
    <2>5. coords \in [0 .. 2 -> Seq(Int)] /\ \A c \in 0 .. 2 : coords[c] = samples BY <2>3
    <2> HIDE DEF coords
    <2>6. heads \in [0 .. 2 -> Int] BY <2>1
    <2>7. r \in State /\ r.queue = <<>> /\ r.head = heads /\ r.tail = tails /\ r.coord = coords
      <3> HIDE DEF Initial
      <3> QED BY <1>4, <2>1, <2>5, <2>6 DEF State
    <2>8. \A c \in 0 .. 2 : heads[c] \in Nat BY <2>1
    <2> HIDE DEF r
    <2> QED BY <2>1, <2>2, <2>4, <2>5, <2>7, <2>8
  <1>6. \A f \in Filters : scene.filters[f].kind = "WeightedAverageAbs" => Data(f).n \in Nat
    BY <1>1, DataFacts
  <1>7. \A f \in Filters : Fit(f, st[f]) /\ st[f] \in State /\ st[f].queue = <<>>
    BY <1>2, <1>4, <1>5, <1>6 DEF Fit
  <1>8. Syn \in Event BY DEF Syn, E, Event, Type
  <1>9. Typed
    BY <1>1, <1>2, <1>7, <1>8 DEF Init, Typed, TypeOK, AllFit, DueTyped
  <1>10. Conserved
    <2>1. SUFFICES ASSUME NEW f \in Kind("SpeedMod") \cup Kind("Rel2Scroll"), NEW a \in Axis
                   PROVE  /\ due[f][a] = st[f].acc[a]
                          /\ Data(f).mod[a] # 0 => Abs(st[f].acc[a]) < Abs(Data(f).mod[a])
      BY DEF Conserved
    <2>2. f \in Filters /\ scene.filters[f].kind \in {"SpeedMod", "Rel2Scroll"} BY DEF Kind
    <2>3. st[f].acc[a] = 0 BY <1>2, <1>4, <2>2
    <2>4. due[f][a] = 0 BY <2>2 DEF Init
    <2>5. Data(f).mod[a] \in Int BY <1>1, <2>2, DataFacts
    <2> QED BY <2>3, <2>4, <2>5 DEF Abs
  <1>11. RingsOfX
    BY <1>2, <1>5, <1>6 DEF RingsOfX, InRing, Kind
  <1> QED BY <1>9, <1>10, <1>11

---------------------------------------------------------------------------
(* Theorems.                                                               *)

\* Whatever lines are made of filters the loader lets through, and whatever
\* their devices send: every event is one, every call goes to a filter that is
\* there, and no barrier queues more than it has room for (TypeOK; barrier.c:64).
THEOREM TypeCorrect == Spec => []TypeOK
  <1>1. Init => Typed BY InitFacts
  <1>2. Typed /\ [Next]_vars => Typed' BY StepFacts
  <1>3. Typed => TypeOK BY DEF Typed
  <1> QED BY <1>1, <1>2, <1>3, PTL DEF Spec

\* SpeedMod and Rel2Scroll neither lose nor invent movement, for all divisors
\* and all movement (Conserved; speed_mod_rel.c:71, rel2scroll.c:82).
THEOREM MovementConserved == Spec => []Conserved
  <1>1. Init => Typed /\ Conserved BY InitFacts
  <1>2. Typed /\ Conserved /\ [Next]_vars => (Typed /\ Conserved)' BY StepFacts
  <1> QED BY <1>1, <1>2, PTL DEF Spec

\* The rings of WeightedAverageAbs, for any number of samples and any memory:
\* what is in its ring stays there, those of X always are, and no loop over a
\* ring in order is without end (RingsKept; weighted_average_abs.c:55).
THEOREM RingsSound == Spec => RingsKept
  <1>1. Init => Typed /\ RingsOfX BY InitFacts
  <1>2. Typed /\ RingsOfX /\ [Next]_vars => (Typed /\ RingsOfX)'
    <2> SUFFICES ASSUME Typed, RingsOfX, [Next]_vars PROVE (Typed /\ RingsOfX)'
      OBVIOUS
    <2>1. Typed' /\ RingsStay /\ UNCHANGED scene BY StepFacts
    <2>2. Filters' = Filters /\ \A f \in Filters : Data(f)' = Data(f)
      BY <2>1 DEF Filters, Data
    <2>3. Kind("WeightedAverageAbs")' = Kind("WeightedAverageAbs")
          /\ Kind("WeightedAverageAbs") \subseteq Filters
      BY <2>1, <2>2 DEF Kind
    <2> QED BY <2>1, <2>2, <2>3 DEF RingsOfX, RingsStay
  <1> DEFINE Ends == /\ RingsStay
                     /\ At("WeightedAverageAbs", "modify") /\ Sampled(ev) /\ InRing(Self, SampleOf(ev))
                          => Top'.at # "loop"
  <1>3. Typed /\ [Next]_vars => [Ends]_vars
    <2> SUFFICES ASSUME Typed, Next PROVE Ends \/ UNCHANGED vars
      OBVIOUS
    <2>1. RingsStay BY StepFacts
    <2>2. At("WeightedAverageAbs", "modify") => WeightedAverageAbs \/ UNCHANGED vars
      BY DEF Next, Modify, At, PassOn, Commit, NoRepeat, KeySubstitute, KeyLock, Btn2Rel, SpeedMod,
             Rel2Scroll, Mirror, Rotate, Abs2RelSync, Abs2Rel, PressureToKey, ScaleAbs, Kalman,
             Barrier, CopyToHandle, FilterToHandle, Halted, Packet, Read
    <2> QED BY <2>1, <2>2, WeightedAverageAbsFacts
  <1>4. Spec => [](Typed /\ RingsOfX) BY <1>1, <1>2, PTL DEF Spec
  <1>5. Spec => []RingsOfX /\ [][Ends]_vars BY <1>3, <1>4, PTL DEF Spec
  <1> QED BY <1>5 DEF RingsKept, RingsOfX, RingsStay

\* A key that has one meaning moves the pointer as its parameter is named, in
\* every line (KeysMoveAsNamed; btn2rel.c:91 and 185).
THEOREM KeysMove == Spec => KeysMoveAsNamed
  <1> DEFINE Moved ==
        At("Btn2Rel", "modify") /\ ev.type = "KEY" /\ ev.value # 0 =>
          \A j \in DOMAIN F.values :
            LET name == Btn2RelParams[j].name
            IN  /\ name \in DOMAIN Direction /\ F.values[j] = ev.code
                /\ \A i \in DOMAIN F.values : F.values[i] # Direction[name][1] /\ (i # j => F.values[i] # ev.code)
                => /\ ev'.type = "REL" /\ ev'.code = Direction[name][1]
                   /\ ev'.value * Direction[name][2] > 0
  <1>1. Typed /\ [Next]_vars => [Moved]_vars
    <2> SUFFICES ASSUME Typed, Next, At("Btn2Rel", "modify"), ev.type = "KEY", ev.value # 0,
                        ~UNCHANGED vars
                 PROVE  Moved
      OBVIOUS
    <2> DEFINE v == F.values
    <2>1. Btn2Rel
      BY DEF Next, Modify, At, PassOn, Commit, NoRepeat, KeySubstitute, KeyLock, SpeedMod,
             Rel2Scroll, Mirror, Rotate, Abs2RelSync, Abs2Rel, PressureToKey, ScaleAbs, Kalman,
             WeightedAverageAbs, Barrier, CopyToHandle, FilterToHandle, Halted, Packet, Read
    <2>2. stack # <<>> /\ F.kind = "Btn2Rel" BY DEF At
    <2>3. D = [up |-> v[2], down |-> v[1], left |-> v[3], right |-> v[4],
               lbtn |-> v[5], mbtn |-> v[6], rbtn |-> v[7]]
      BY <2>2 DEF D, Data, F, Alloc, Btn2RelAlloc
    <2>4. DOMAIN v = 1 .. 7
      <3>1. LoadedFilter(F, Filters)
        BY <2>2, CallFacts, ScenesAssumption DEF F, Filters, Typed, TypeOK
      <3>2. DOMAIN v = DOMAIN Btn2RelParams BY <2>2, <3>1 DEF LoadedFilter, Table
      <3> QED BY <3>2 DEF Btn2RelParams
    <2>5. ev' = Translated(ev)
      BY <2>1 DEF Btn2Rel, Forward
    <2>6. /\ Btn2RelParams[1].name = "keyup" /\ Btn2RelParams[2].name = "keydown"
          /\ Btn2RelParams[3].name = "keyleft" /\ Btn2RelParams[4].name = "keyright"
          /\ Btn2RelParams[5].name = "leftbtn" /\ Btn2RelParams[6].name = "middlebtn"
          /\ Btn2RelParams[7].name = "rightbtn"
      BY DEF Btn2RelParams, Key, Param
    <2>7. /\ DOMAIN Direction = {"keyup", "keydown", "keyleft", "keyright"}
          /\ Direction["keyup"] = <<REL_Y, -1>> /\ Direction["keydown"] = <<REL_Y, 1>>
          /\ Direction["keyleft"] = <<REL_X, -1>> /\ Direction["keyright"] = <<REL_X, 1>>
      BY DEF Direction
    <2> HIDE DEF v
    <2> DEFINE Alone(j, axis) == \A i \in 1 .. 7 : v[i] # axis /\ (i # j => v[i] # ev.code)
    <2> DEFINE Untested(e) == /\ e.code # v[1] /\ e.code # v[2] /\ e.code # v[3] /\ e.code # v[4]
                          /\ e.code # v[5] /\ e.code # v[6] /\ e.code # v[7]
    <2>8. \A key, code, value, e : MoveFor(key, code, value, e) = IF e.code = key THEN E("REL", code, value) ELSE e
      BY DEF MoveFor
    <2>9. \A key, code, e : e.code # key => ButtonFor(key, code, e) = e
      BY DEF ButtonFor
    <2>10. /\ D.up = v[2] /\ D.down = v[1] /\ D.left = v[3] /\ D.right = v[4]
           /\ D.lbtn = v[5] /\ D.mbtn = v[6] /\ D.rbtn = v[7]
      BY <2>3
    <2>11. \A e : Untested(e) => Buttons(e) = e
      BY <2>9, <2>10 DEF Buttons
    <2>12. v[1] = ev.code /\ Alone(1, REL_Y) => ev' = E("REL", REL_Y, -2)
      <3> SUFFICES ASSUME v[1] = ev.code, Alone(1, REL_Y) PROVE ev' = E("REL", REL_Y, -2)
        OBVIOUS
      <3> DEFINE e == E("REL", REL_Y, -2)
      <3>1. e.code = REL_Y BY DEF E
      <3> HIDE DEF e
      <3>2. Untested(e) BY <3>1
      <3>3. Moves(ev) = e BY <2>8, <2>10, <3>1, <3>2 DEF Moves, e
      <3> QED BY <2>5, <2>11, <3>2, <3>3 DEF Translated, e
    <2>13. v[2] = ev.code /\ Alone(2, REL_Y) => ev' = E("REL", REL_Y, 2)
      <3> SUFFICES ASSUME v[2] = ev.code, Alone(2, REL_Y) PROVE ev' = E("REL", REL_Y, 2)
        OBVIOUS
      <3> DEFINE e == E("REL", REL_Y, 2)
      <3>1. e.code = REL_Y BY DEF E
      <3> HIDE DEF e
      <3>2. Untested(e) BY <3>1
      <3>3. Moves(ev) = e BY <2>8, <2>10, <3>1, <3>2 DEF Moves, e
      <3> QED BY <2>5, <2>11, <3>2, <3>3 DEF Translated, e
    <2>14. v[3] = ev.code /\ Alone(3, REL_X) => ev' = E("REL", REL_X, -2)
      <3> SUFFICES ASSUME v[3] = ev.code, Alone(3, REL_X) PROVE ev' = E("REL", REL_X, -2)
        OBVIOUS
      <3> DEFINE e == E("REL", REL_X, -2)
      <3>1. e.code = REL_X BY DEF E
      <3> HIDE DEF e
      <3>2. Untested(e) BY <3>1
      <3>3. Moves(ev) = e BY <2>8, <2>10, <3>1, <3>2 DEF Moves, e
      <3> QED BY <2>5, <2>11, <3>2, <3>3 DEF Translated, e
    <2>15. v[4] = ev.code /\ Alone(4, REL_X) => ev' = E("REL", REL_X, 2)
      <3> SUFFICES ASSUME v[4] = ev.code, Alone(4, REL_X) PROVE ev' = E("REL", REL_X, 2)
        OBVIOUS
      <3> DEFINE e == E("REL", REL_X, 2)
      <3>1. e.code = REL_X BY DEF E
      <3> HIDE DEF e
      <3>2. Untested(e) BY <3>1
      <3>3. Moves(ev) = e BY <2>8, <2>10, <3>1, <3>2 DEF Moves, e
      <3> QED BY <2>5, <2>11, <3>2, <3>3 DEF Translated, e
    <2>16. ASSUME NEW j \in 1 .. 7, Btn2RelParams[j].name \in DOMAIN Direction, v[j] = ev.code,
                  Alone(j, Direction[Btn2RelParams[j].name][1])
           PROVE  /\ ev'.type = "REL" /\ ev'.code = Direction[Btn2RelParams[j].name][1]
                  /\ ev'.value * Direction[Btn2RelParams[j].name][2] > 0
      <3>1. j \in 1 .. 4
        BY <2>6, <2>7, <2>16
      <3> HIDE DEF Alone
      <3>2. CASE j = 1 BY <2>6, <2>7, <2>12, <2>16, <3>2 DEF E
      <3>3. CASE j = 2 BY <2>6, <2>7, <2>13, <2>16, <3>3 DEF E
      <3>4. CASE j = 3 BY <2>6, <2>7, <2>14, <2>16, <3>4 DEF E
      <3>5. CASE j = 4 BY <2>6, <2>7, <2>15, <2>16, <3>5 DEF E
      <3> QED BY <3>1, <3>2, <3>3, <3>4, <3>5
    <2> QED BY <2>4, <2>16 DEF v
  <1>2. Init => Typed BY InitFacts
  <1>3. Typed /\ [Next]_vars => Typed' BY StepFacts
  <1>4. Spec => [][Moved]_vars BY <1>1, <1>2, <1>3, PTL DEF Spec
  <1> QED BY <1>4 DEF KeysMoveAsNamed

---------------------------------------------------------------------------
(* Calls of a line in which no filter has anything left to do when its     *)
(* call returns.                                                           *)

\* Filters that pass an event on, changed or not, or drop it.
SimpleKinds == {"NoRepeat", "KeySubstitute", "KeyLock", "Btn2Rel", "SpeedMod", "Rel2Scroll",
                "Mirror", "Rotate", "ScaleAbs", "Kalman", "WeightedAverageAbs", "Dump", "GetFromHandle"}

\* One device, and the line evf_line_load makes for it of filters of these
\* kinds: each leads to the one behind it, and the last is the Commit.
Chain(s, kinds) ==
  /\ s.roots = <<1>> /\ DOMAIN s.filters \subseteq Nat \ {0}
  /\ \A f \in DOMAIN s.filters :
       /\ s.filters[f].kind \in kinds \cup {"Commit"}
       /\ s.filters[f].kind # "Commit" => s.filters[f].next = f + 1
       /\ s.filters[f].kind = "Commit" =>
            s.filters[f].next = 0 /\ \A g \in DOMAIN s.filters : g <= f

\* The filter whose call runs is the one that makes the step.
LEMMA KindActions ==
  ASSUME Modify
  PROVE  /\ stack # <<>>
         /\ \/ PassOn /\ Top.at = "modify" /\ F.kind \in {"Dump", "GetFromHandle"}
            \/ Commit /\ Top.at = "modify" /\ F.kind = "Commit"
            \/ NoRepeat /\ Top.at = "modify" /\ F.kind = "NoRepeat"
            \/ KeySubstitute /\ Top.at = "modify" /\ F.kind = "KeySubstitute"
            \/ KeyLock /\ Top.at = "modify" /\ F.kind = "KeyLock"
            \/ Btn2Rel /\ Top.at = "modify" /\ F.kind = "Btn2Rel"
            \/ SpeedMod /\ Top.at = "modify" /\ F.kind = "SpeedMod"
            \/ Rel2Scroll /\ Top.at = "modify" /\ F.kind = "Rel2Scroll"
            \/ Mirror /\ Top.at = "modify" /\ F.kind = "Mirror"
            \/ Rotate /\ Top.at = "modify" /\ F.kind = "Rotate"
            \/ (Abs2RelSync \/ Abs2Rel) /\ F.kind = "Abs2Rel"
            \/ PressureToKey /\ F.kind = "PressureToKey"
            \/ ScaleAbs /\ Top.at = "modify" /\ F.kind = "ScaleAbs"
            \/ Kalman /\ Top.at = "modify" /\ F.kind = "Kalman"
            \/ WeightedAverageAbs /\ Top.at = "modify" /\ F.kind = "WeightedAverageAbs"
            \/ Barrier /\ F.kind = "Barrier"
            \/ CopyToHandle /\ F.kind = "CopyToHandle"
            \/ FilterToHandle /\ F.kind = "FilterToHandle"
  <1> USE DEF At
  <1>1. PassOn => stack # <<>> /\ Top.at = "modify" /\ F.kind \in {"Dump", "GetFromHandle"} BY DEF PassOn
  <1>2. Commit => stack # <<>> /\ Top.at = "modify" /\ F.kind = "Commit" BY DEF Commit
  <1>3. NoRepeat => stack # <<>> /\ Top.at = "modify" /\ F.kind = "NoRepeat" BY DEF NoRepeat
  <1>4. KeySubstitute => stack # <<>> /\ Top.at = "modify" /\ F.kind = "KeySubstitute" BY DEF KeySubstitute
  <1>5. KeyLock => stack # <<>> /\ Top.at = "modify" /\ F.kind = "KeyLock" BY DEF KeyLock
  <1>6. Btn2Rel => stack # <<>> /\ Top.at = "modify" /\ F.kind = "Btn2Rel" BY DEF Btn2Rel
  <1>7. SpeedMod => stack # <<>> /\ Top.at = "modify" /\ F.kind = "SpeedMod" BY DEF SpeedMod
  <1>8. Rel2Scroll => stack # <<>> /\ Top.at = "modify" /\ F.kind = "Rel2Scroll" BY DEF Rel2Scroll
  <1>9. Mirror => stack # <<>> /\ Top.at = "modify" /\ F.kind = "Mirror" BY DEF Mirror
  <1>10. Rotate => stack # <<>> /\ Top.at = "modify" /\ F.kind = "Rotate" BY DEF Rotate
  <1>11. Abs2RelSync \/ Abs2Rel => stack # <<>> /\ F.kind = "Abs2Rel" BY DEF Abs2RelSync, Abs2Rel
  <1>12. PressureToKey => stack # <<>> /\ F.kind = "PressureToKey" BY DEF PressureToKey
  <1>13. ScaleAbs => stack # <<>> /\ Top.at = "modify" /\ F.kind = "ScaleAbs" BY DEF ScaleAbs
  <1>14. Kalman => stack # <<>> /\ Top.at = "modify" /\ F.kind = "Kalman" BY DEF Kalman
  <1>15. WeightedAverageAbs => stack # <<>> /\ Top.at = "modify" /\ F.kind = "WeightedAverageAbs"
    BY DEF WeightedAverageAbs
  <1>16. Barrier => stack # <<>> /\ F.kind = "Barrier" BY DEF Barrier
  <1>17. CopyToHandle => stack # <<>> /\ F.kind = "CopyToHandle" BY DEF CopyToHandle
  <1>18. FilterToHandle => stack # <<>> /\ F.kind = "FilterToHandle" BY DEF FilterToHandle
  <1> QED
    BY <1>1, <1>2, <1>3, <1>4, <1>5, <1>6, <1>7, <1>8, <1>9, <1>10, <1>11, <1>12, <1>13, <1>14,
       <1>15, <1>16, <1>17, <1>18 DEF Modify

LEMMA ShortFacts ==
  ASSUME NEW T, NEW s \in Seq(T), s # <<>>, Len(s) <= 1
  PROVE  Len(s) = 1 /\ Tail(s) = <<>>
  <1>1. Len(s) \in Nat BY LenProperties
  <1>2. Len(s) # 0 BY EmptySeq
  <1>3. Len(s) = 1 BY <1>1, <1>2
  <1>4. Tail(s) \in Seq(T) /\ Len(Tail(s)) = 0 BY <1>3, HeadTailProperties
  <1> QED BY <1>3, <1>4, EmptySeq

\* A call that is the only one.
LEMMA OneCall ==
  ASSUME Typed, stack # <<>>, Len(stack) <= 1
  PROVE  /\ Tail(stack) = <<>> /\ Len(stack) = 1
         /\ Drop => stack' = <<>>
         /\ \A e : Forward(e) =>
              /\ stack' # <<>> /\ Len(stack') <= 1 /\ ev' = e
              /\ Top'.at = "modify" /\ Self' = F.next /\ Top'.ev = e
         /\ \A at : Never(at) => stack' # <<>> /\ Len(stack') <= 1 /\ Top'.at = at
  <1>1. stack \in Seq(FrameSet) BY DEF Typed, TypeOK, FrameSet
  <1>2. Len(stack) = 1 /\ Tail(stack) = <<>> BY <1>1, ShortFacts
  <1>3. \A x : <<x>> \o <<>> = <<x>>
    <2> TAKE x
    <2>1. <<x>> \in Seq({x}) OBVIOUS
    <2> QED BY <2>1, ConcatEmptySeq
  <1>4. \A x : <<x>> # <<>> /\ Len(<<x>>) = 1 /\ Head(<<x>>) = x
    OBVIOUS
  <1>5. \A e : Forward(e) => stack' = <<Frame(F.next, "modify", e)>> /\ ev' = e
    BY <1>2, <1>3 DEF Forward
  <1>6. \A at : Never(at) => stack' = <<[Top EXCEPT !.at = at]>>
    BY <1>2, <1>3 DEF Never
  <1>7. \A e : Forward(e) => Top' = Frame(F.next, "modify", e)
    BY <1>4, <1>5 DEF Top
  <1>8. \A at : Never(at) => Top' = [Top EXCEPT !.at = at]
    BY <1>4, <1>6 DEF Top
  <1>9. \A at : [Top EXCEPT !.at = at].at = at
    <2>1. Top \in FrameSet BY CallFacts
    <2> QED BY <2>1 DEF FrameSet
  <1>10. \A e : Frame(F.next, "modify", e).at = "modify" /\ Frame(F.next, "modify", e).ev = e
               /\ Frame(F.next, "modify", e).filter = F.next
    BY DEF Frame
  <1>11. Self' = Top'.filter BY DEF Self
  <1>12. ASSUME NEW e, Forward(e)
         PROVE  /\ stack' # <<>> /\ Len(stack') <= 1 /\ ev' = e
                /\ Top'.at = "modify" /\ Self' = F.next /\ Top'.ev = e
    BY <1>4, <1>5, <1>7, <1>10, <1>11, <1>12
  <1>13. ASSUME NEW at, Never(at)
         PROVE  stack' # <<>> /\ Len(stack') <= 1 /\ Top'.at = at
    <2> DEFINE x == [Top EXCEPT !.at = at]
    <2>1. stack' = <<x>> /\ Top' = x /\ x.at = at BY <1>6, <1>8, <1>9, <1>13
    <2> HIDE DEF x
    <2> QED BY <2>1
  <1>14. Drop => stack' = <<>> BY <1>2 DEF Drop
  <1> QED BY <1>2, <1>12, <1>13, <1>14

---------------------------------------------------------------------------
(* Swallowed syncs.                                                        *)

EaterKinds == {"KeyLock", "Btn2Rel", "SpeedMod", "Rel2Scroll"}

\* What the step has changed of the data of the filter.
LEMMA KeepFacts ==
  ASSUME Typed, stack # <<>>
  PROVE  /\ \A s : Keep(s) => st'[Self] = s /\ \A f \in Filters : f # Self => st'[f] = st[f]
         /\ S = st[Self] /\ S \in State /\ S.eat \in BOOLEAN /\ S.on \in BOOLEAN
         /\ \A b \in BOOLEAN : [S EXCEPT !.eat = b].eat = b /\ [S EXCEPT !.eat = b].on = S.on
  <1>1. st \in [Filters -> State] /\ Self \in Filters BY CallFacts DEF Typed, TypeOK
  <1> QED BY <1>1 DEF Keep, S, State

\* What a filter does to a sync, and to the flag that a sync is to be
\* swallowed.
Syncs ==
  /\ Top.at = "modify" /\ UNCHANGED <<Environment, out, down, pressure>>
  /\ \A f \in Filters : f # Self => st'[f] = st[f]
  /\ st'[Self].eat => S.eat \/ F.kind \in EaterKinds
  /\ \/ \E e : /\ Forward(e) /\ e \in Event
               /\ st'[Self].eat => S.eat
               /\ ev = Syn => e = Syn /\ ~(S.eat /\ F.kind \in EaterKinds)
     \/ Drop /\ (ev = Syn => S.eat /\ ~st'[Self].eat)
     \/ (Never("trap") \/ Never("loop")) /\ (st'[Self].eat => S.eat)

LEMMA SynIs == Syn.type = "SYN" /\ Syn.code = 0 /\ Syn.value = 0 /\ Syn \in Event
  BY DEF Syn, E, Event, Type

\* Filters that do not change their data.
LEMMA StaySyncs ==
  ASSUME Typed, stack # <<>>, Top.at = "modify", UNCHANGED <<Environment, out, down, pressure, st>>,
         F.kind \notin EaterKinds,
         (\E e : Forward(e) /\ e \in Event /\ (ev = Syn => e = Syn)) \/ (Drop /\ ev # Syn)
  PROVE  Syncs
  <1>1. st'[Self] = S BY DEF S
  <1> QED BY <1>1 DEF Syncs

LEMMA PlainSyncs ==
  ASSUME Typed, stack # <<>>, Top.at = "modify",
         \/ PassOn /\ F.next # 0
         \/ NoRepeat /\ F.kind = "NoRepeat"
         \/ KeySubstitute /\ F.kind = "KeySubstitute"
         \/ Mirror /\ F.kind = "Mirror"
         \/ Rotate /\ F.kind = "Rotate"
         \/ ScaleAbs /\ F.kind = "ScaleAbs"
  PROVE  Syncs
  <1> USE SynIs
  <1>1. ev \in Event BY CallFacts
  <1>2. CASE PassOn /\ F.next # 0
    <2>1. Forward(ev) /\ F.kind \notin EaterKinds /\ UNCHANGED <<Environment, out, down, pressure, st>>
      BY <1>2 DEF PassOn, ForwardIfAny, At, EaterKinds
    <2> QED BY <1>1, <2>1, StaySyncs
  <1>3. CASE NoRepeat /\ F.kind = "NoRepeat"
    <2>1. /\ Forward(ev) \/ (Drop /\ ev # Syn)
          /\ F.kind \notin EaterKinds /\ UNCHANGED <<Environment, out, down, pressure, st>>
      BY <1>3 DEF NoRepeat, EaterKinds
    <2> QED BY <1>1, <2>1, StaySyncs
  <1>4. CASE KeySubstitute /\ F.kind = "KeySubstitute"
    <2> DEFINE e == IF IsKey(ev, D.from) THEN [ev EXCEPT !.code = D.to] ELSE ev
    <2>1. D.to \in Nat BY <1>4, CallFacts, DataFacts DEF Typed, TypeOK, D, F
    <2>2. e \in Event BY <1>1, <2>1 DEF Event
    <2>3. ev = Syn => e = Syn BY DEF IsKey
    <2>4. Forward(e) /\ F.kind \notin EaterKinds /\ UNCHANGED <<Environment, out, down, pressure, st>>
      BY <1>4 DEF KeySubstitute, EaterKinds
    <2> HIDE DEF e
    <2> QED BY <2>2, <2>3, <2>4, StaySyncs
  <1>5. CASE Mirror /\ F.kind = "Mirror"
    <2>1. Mirrored(ev) \in Event BY <1>1, MirroredFacts
    <2>2. ev = Syn => Mirrored(ev) = Syn BY DEF Mirrored
    <2>3. Forward(Mirrored(ev)) /\ F.kind \notin EaterKinds
          /\ UNCHANGED <<Environment, out, down, pressure, st>>
      BY <1>5 DEF Mirror, EaterKinds
    <2> QED BY <2>1, <2>2, <2>3, StaySyncs
  <1>6. CASE Rotate /\ F.kind = "Rotate"
    <2> DEFINE e == IF ev.type \in D.types /\ ev.code \in Axis THEN [ev EXCEPT !.code = 1 - @] ELSE ev
    <2>1. e \in Event BY <1>1 DEF Event, Axis, REL_X, REL_Y
    <2>2. "SYN" \notin D.types BY <1>6 DEF D, Data, Alloc, RotateAlloc, F
    <2>3. ev = Syn => e = Syn BY <2>2
    <2>4. Forward(e) /\ F.kind \notin EaterKinds /\ UNCHANGED <<Environment, out, down, pressure, st>>
      BY <1>6 DEF Rotate, EaterKinds
    <2> HIDE DEF e
    <2> QED BY <2>1, <2>3, <2>4, StaySyncs
  <1>7. CASE ScaleAbs /\ F.kind = "ScaleAbs"
    <2> DEFINE e == IF ev.type = "ABS" /\ ev.code \in Axis THEN Scaled(ev) ELSE ev
    <2>1. e \in Event BY <1>1, <1>7, ScaledFacts
    <2>2. ev = Syn => e = Syn OBVIOUS
    <2>3. Forward(e) /\ F.kind \notin EaterKinds /\ UNCHANGED <<Environment, out, down, pressure, st>>
      BY <1>7 DEF ScaleAbs, EaterKinds
    <2> HIDE DEF e
    <2> QED BY <2>1, <2>2, <2>3, StaySyncs
  <1> QED BY <1>2, <1>3, <1>4, <1>5, <1>6, <1>7

LEMMA KeyLockSyncs ==
  ASSUME Typed, stack # <<>>, Top.at = "modify", KeyLock, F.kind = "KeyLock"
  PROVE  Syncs
  <1> USE SynIs
  <1>1. ev \in Event /\ Unlock(ev, S) \in Event BY CallFacts DEF Unlock, Event
  <1>2. UNCHANGED <<Environment, out, down, pressure>> BY DEF KeyLock
  <1> DEFINE clear == [S EXCEPT !.eat = FALSE]
             toggle == [S EXCEPT !.eat = FALSE, !.on = ~@]
             eat == [S EXCEPT !.eat = TRUE]
  <1>3. clear.eat = FALSE /\ toggle.eat = FALSE /\ eat.eat = TRUE
    BY KeepFacts DEF State
  <1>4. \/ S.eat /\ ev = Syn /\ Drop /\ Keep(clear)
        \/ ev # Syn /\ Drop /\ Keep(eat)
        \/ ev # Syn /\ Forward(Unlock(ev, S)) /\ Keep(toggle)
        \/ ~(S.eat /\ ev = Syn) /\ Forward(ev) /\ Keep(clear)
    BY DEF KeyLock, IsKey
  <1> HIDE DEF clear, toggle, eat
  <1> QED BY <1>1, <1>2, <1>3, <1>4, KeepFacts DEF Syncs, EaterKinds

LEMMA Btn2RelSyncs ==
  ASSUME Typed, stack # <<>>, Top.at = "modify", Btn2Rel, F.kind = "Btn2Rel"
  PROVE  Syncs
  <1> USE SynIs
  <1> DEFINE e == IF ev.type = "KEY" THEN Translated(ev) ELSE ev
             clear == [S EXCEPT !.eat = FALSE]
             eat == [S EXCEPT !.eat = TRUE]
  <1>1. e \in Event /\ (ev = Syn => e = Syn) BY CallFacts, TranslatedFacts
  <1>2. UNCHANGED <<Environment, out, down, pressure>> BY DEF Btn2Rel
  <1>3. clear.eat = FALSE /\ eat.eat = TRUE BY KeepFacts
  <1>4. \/ S.eat /\ Drop /\ Keep(clear)
        \/ ev # Syn /\ Drop /\ Keep(eat)
        \/ ~(S.eat /\ ev = Syn) /\ Forward(e) /\ UNCHANGED st
    BY DEF Btn2Rel, IsMoveKey
  <1> HIDE DEF e, clear, eat
  <1>5. UNCHANGED st => st'[Self] = S BY DEF S
  <1> QED BY <1>1, <1>2, <1>3, <1>4, <1>5, KeepFacts DEF Syncs, EaterKinds

\* Movement that is held back or goes out divided.
LEMMA AccumulateSyncs ==
  ASSUME Typed, stack # <<>>, Top.at = "modify", F.kind \in {"SpeedMod", "Rel2Scroll"},
         UNCHANGED <<Environment, out, down, pressure>>, IsMove(ev),
         NEW code \in Nat, NEW s \in State, s.eat => S.eat,
         Accumulate(ev.code, code, s)
  PROVE  Syncs
  <1> USE SynIs
  <1>1. ev # Syn /\ ev.code \in Axis /\ ev \in Event BY CallFacts DEF IsMove
  <1> DEFINE total == s.acc[ev.code] + ev.value
             mod == D.mod[ev.code]
             step == Quotient(total, mod)
             left == Remainder(total, mod)
             e == [ev EXCEPT !.code = code, !.value = step]
             rest == [s EXCEPT !.acc[ev.code] = left]
             hold == [s EXCEPT !.acc[ev.code] = total, !.eat = TRUE]
  <1>2. \/ Never("trap") /\ UNCHANGED st
        \/ mod # 0 /\ Forward(e) /\ Keep(rest)
        \/ Drop /\ Keep(hold)
    BY DEF Accumulate
  <1>3. rest.eat = s.eat BY DEF State
  <1>4. mod # 0 => e \in Event
    <2>1. mod \in Int /\ total \in Int
      <3>1. D.mod \in [Axis -> Int] BY CallFacts, DataFacts DEF Typed, TypeOK, D, F
      <3>2. s.acc \in [Axis -> Int] BY DEF State
      <3>3. ev.value \in Int BY <1>1 DEF Event
      <3> QED BY <1>1, <3>1, <3>2, <3>3
    <2>2. mod # 0 => step \in Int
      <3> HIDE DEF total, mod
      <3> QED BY <2>1, QuotientFacts
    <2> HIDE DEF step, mod
    <2> QED BY <1>1, <2>2 DEF Event
  <1>5. UNCHANGED st => st'[Self] = S BY DEF S
  <1> HIDE DEF e, rest, hold, mod
  <1>6. CASE Never("trap") /\ UNCHANGED st BY <1>5, <1>6 DEF Syncs
  <1>7. CASE mod # 0 /\ Forward(e) /\ Keep(rest) BY <1>1, <1>3, <1>4, <1>7, KeepFacts DEF Syncs
  <1>8. CASE Drop /\ Keep(hold) BY <1>1, <1>8, KeepFacts DEF Syncs, EaterKinds
  <1> QED BY <1>2, <1>6, <1>7, <1>8

LEMMA MoveSyncs ==
  ASSUME Typed, stack # <<>>, Top.at = "modify",
         \/ SpeedMod /\ F.kind = "SpeedMod"
         \/ Rel2Scroll /\ F.kind = "Rel2Scroll"
  PROVE  Syncs
  <1> USE SynIs
  <1>1. ev \in Event /\ S \in State BY CallFacts, KeepFacts
  <1> DEFINE clear == [S EXCEPT !.eat = FALSE]
             trigger == [S EXCEPT !.eat = TRUE, !.on = ev.value # 0]
  <1>2. clear.eat = FALSE /\ clear \in State BY <1>1 DEF State
  <1>3. UNCHANGED st => st'[Self] = S BY DEF S
  <1>4. CASE SpeedMod /\ F.kind = "SpeedMod"
    <2>1. UNCHANGED <<Environment, out, down, pressure>> BY <1>4 DEF SpeedMod
    <2>2. CASE IsMove(ev) /\ Accumulate(ev.code, ev.code, S)
      <3>1. ev.code \in Nat BY <1>1 DEF Event
      <3> QED BY <1>1, <1>4, <2>1, <2>2, <3>1, AccumulateSyncs
    <2>3. CASE ~(IsMove(ev) /\ Accumulate(ev.code, ev.code, S))
      <3>1. \/ S.eat /\ Drop /\ Keep(clear)
            \/ ~(S.eat /\ ev = Syn) /\ Forward(ev) /\ UNCHANGED st
        BY <1>4, <2>3 DEF SpeedMod, Eats
      <3> HIDE DEF clear
      <3> QED BY <1>1, <1>2, <1>3, <2>1, <3>1, KeepFacts DEF Syncs, EaterKinds
    <2> QED BY <2>2, <2>3
  <1>5. CASE Rel2Scroll /\ F.kind = "Rel2Scroll"
    <2>1. UNCHANGED <<Environment, out, down, pressure>> BY <1>5 DEF Rel2Scroll
    <2>2. CASE S.on /\ IsMove(ev) /\ Accumulate(ev.code, Wheel(ev.code), clear)
      <3>1. Wheel(ev.code) \in Nat BY DEF Wheel, REL_HWHEEL, REL_WHEEL
      <3> HIDE DEF clear
      <3> QED BY <1>2, <1>5, <2>1, <2>2, <3>1, AccumulateSyncs
    <2>3. CASE ~(S.on /\ IsMove(ev) /\ Accumulate(ev.code, Wheel(ev.code), clear))
      <3>1. \/ S.eat /\ Drop /\ Keep(clear)
            \/ ev # Syn /\ Drop /\ Keep(trigger)
            \/ ~(S.eat /\ ev = Syn) /\ Forward(ev) /\ Keep(clear)
        BY <1>5, <2>3 DEF Rel2Scroll, Eats, IsKey
      <3> HIDE DEF clear, trigger
      <3> QED BY <1>1, <1>2, <2>1, <3>1, KeepFacts DEF Syncs, EaterKinds
    <2> QED BY <2>2, <2>3
  <1> QED BY <1>4, <1>5

LEMMA PressureIsNoAxis == ABS_PRESSURE \notin Axis
  BY DEF ABS_PRESSURE, Axis, REL_X, REL_Y

LEMMA SmoothSyncs ==
  ASSUME Typed, stack # <<>>, Top.at = "modify",
         \/ Kalman /\ F.kind = "Kalman"
         \/ WeightedAverageAbs /\ F.kind = "WeightedAverageAbs"
  PROVE  Syncs
  <1> USE SynIs
  <1>1. ev \in Event /\ S \in State BY CallFacts, KeepFacts
  <1>2. UNCHANGED st => st'[Self] = S BY DEF S
  <1>3. CASE Kalman /\ F.kind = "Kalman"
    <2>1. UNCHANGED <<Environment, out, down, pressure>> BY <1>3 DEF Kalman
    <2>2. UNCHANGED st \/ \E s : Keep(s) /\ s.eat = S.eat
      <3>1. \A x : [S EXCEPT !.seen = x].eat = S.eat BY <1>1 DEF State
      <3>2. PenUp(S).eat = S.eat BY <3>1 DEF PenUp
      <3>3. [S EXCEPT !.seen[ev.code] = 1].eat = S.eat BY <1>1 DEF State
      <3> QED BY <1>3, <3>2, <3>3 DEF Kalman
    <2>3. scene.estimates \subseteq Int
      BY <1>3, CallFacts, ScenesAssumption DEF F, Filters, Typed, TypeOK
    <2>4. \A x \in scene.estimates : [ev EXCEPT !.value = x] \in Event
      BY <1>1, <2>3 DEF Event
    <2>5. \E e : Forward(e) /\ e \in Event /\ (ev = Syn => e = Syn)
      BY <1>1, <1>3, <2>4 DEF Kalman
    <2> QED BY <1>2, <1>3, <2>1, <2>2, <2>5, KeepFacts DEF Syncs, EaterKinds
  <1>4. CASE WeightedAverageAbs /\ F.kind = "WeightedAverageAbs"
    <2>1. UNCHANGED <<Environment, out, down, pressure>> BY <1>4 DEF WeightedAverageAbs
    <2> DEFINE c == SampleOf(ev)
               s == Added(S, c, ev.value)
    <2>2. CASE Sampled(ev) /\ (D.n # 0 => Turns(s, c) = {})
      <3>1. (Never("trap") /\ UNCHANGED st) \/ (Never("loop") /\ Keep(s))
        BY <1>4, <2>2, PressureIsNoAxis DEF WeightedAverageAbs, IsAbs, Sampled
      <3>2. s.eat = S.eat BY <1>1 DEF Added, State
      <3> HIDE DEF s
      <3> QED BY <1>2, <1>4, <2>1, <3>1, <3>2, KeepFacts DEF Syncs, EaterKinds
    <2>3. CASE Sampled(ev) /\ D.n # 0 /\ Turns(s, c) # {}
      <3>1. Forward([ev EXCEPT !.value = Average(s, c)]) /\ Keep(s)
        BY <1>4, <2>3, PressureIsNoAxis DEF WeightedAverageAbs, IsAbs, Sampled
      <3>2. s.eat = S.eat BY <1>1 DEF Added, State
      <3>3. ev # Syn BY <2>3 DEF Sampled
      <3>4. c \in 0 .. 2 /\ ev.value \in Int
        BY <1>1, <2>3 DEF SampleOf, Sampled, Axis, REL_X, REL_Y, Event
      <3>5. D.n \in Nat \ {0} /\ Fit(Self, s)
        BY <1>4, <2>3, <3>4, AddedFacts
      <3>6. Average(s, c) \in Int
        <4> HIDE DEF s, c
        <4> QED BY <1>4, <2>3, <3>4, <3>5, AverageFacts
      <3>7. [ev EXCEPT !.value = Average(s, c)] \in Event
        <4> HIDE DEF s, c
        <4> QED BY <1>1, <3>6 DEF Event
      <3> HIDE DEF s, c
      <3> QED BY <1>4, <2>1, <3>1, <3>2, <3>3, <3>7, KeepFacts DEF Syncs, EaterKinds
    <2>4. CASE ~Sampled(ev)
      <3> DEFINE up == [S EXCEPT !.head = Initial.head, !.tail = Initial.tail]
      <3>1. up.eat = S.eat BY <1>1 DEF State
      <3>2. Forward(ev) /\ (UNCHANGED st \/ Keep(up))
        BY <1>4, <2>4 DEF WeightedAverageAbs
      <3> HIDE DEF up
      <3> QED BY <1>1, <1>2, <1>4, <2>1, <3>1, <3>2, KeepFacts DEF Syncs, EaterKinds
    <2> QED BY <2>2, <2>3, <2>4
  <1> QED BY <1>3, <1>4

\* Every step of a filter that makes no second one.
LEMMA SimpleSyncs ==
  ASSUME Typed, Modify, F.kind \in SimpleKinds, F.next # 0
  PROVE  Syncs
  BY KindActions, PlainSyncs, KeyLockSyncs, Btn2RelSyncs, MoveSyncs, SmoothSyncs DEF SimpleKinds

NoEater == \A f \in Filters : ~st[f].eat
Synced == \A c \in Kind("Commit") : out[c] = <<>> \/ Last(out[c]).type = "SYN"

\* Whether the first filter is at work on an event that must get to the end
\* of its packet.
UnderWay == stack # <<>> /\ Top.at = "modify"

\* At most one filter waits for a sync.  None does when a packet begins or its
\* event is under way; the sync itself has not passed the filter that waits
\* for it, and nothing has been written of a packet that lacks one.
Awaited ==
  /\ Len(stack) <= 1
  /\ \A f \in Filters : st[f].eat => scene.filters[f].kind \in EaterKinds
  /\ \A f, g \in Filters : st[f].eat /\ st[g].eat => f = g
  /\ unread[1] \in {<<>>, <<Syn>>} \/ \E e \in Event : unread[1] = <<e, Syn>>
  /\ NoEater \/ Synced
  /\ stack = <<>> /\ unread[1] # <<Syn>> => NoEater /\ Synced
  /\ UnderWay /\ unread[1] # <<>> => unread[1] = <<Syn>> /\ NoEater /\ Synced
  /\ UnderWay /\ unread[1] = <<>> => ev = Syn /\ \A f \in Filters : st[f].eat => Self <= f

Straight == Chain(scene, SimpleKinds) /\ Single
SinglesInv == Straight => Awaited

\* The filter at work in such a line.
LEMMA ChainFacts ==
  ASSUME Typed, stack # <<>>, NEW kinds, Chain(scene, kinds)
  PROVE  /\ Self \in Filters /\ Filters \subseteq Nat \ {0} /\ F = scene.filters[Self]
         /\ F.kind \in kinds \cup {"Commit"}
         /\ F.kind # "Commit" => F.next = Self + 1 /\ F.next # 0
         /\ F.kind = "Commit" => F.next = 0 /\ \A f \in Filters : f <= Self
         /\ F.kind = "Commit" => \A c \in Kind("Commit") : c = Self
  <1>1. Self \in Filters /\ F = scene.filters[Self] /\ Filters = DOMAIN scene.filters
    BY CallFacts DEF F, Filters
  <1>2. Filters \subseteq Nat \ {0} BY <1>1 DEF Chain
  <1>3. /\ F.kind \in kinds \cup {"Commit"}
        /\ F.kind # "Commit" => F.next = Self + 1
        /\ F.kind = "Commit" => F.next = 0 /\ \A f \in Filters : f <= Self
    BY <1>1 DEF Chain
  <1>4. \A c \in Kind("Commit") : c \in Filters /\ \A f \in Filters : f <= c
    BY <1>1 DEF Chain, Kind
  <1> QED BY <1>1, <1>2, <1>3, <1>4

LEMMA WrittenLast ==
  ASSUME Typed, NEW f \in Filters
  PROVE  Written(f) # <<>> /\ Last(Written(f)) = ev
  <1>1. \A x : <<x>> # <<>> /\ Last(<<x>>) = x BY DEF Last
  <1>2. \A s \in Seq(Event), x \in Event : Append(s, x) # <<>> /\ Last(Append(s, x)) = x
    BY AppendProperties, LenProperties DEF Last
  <1> DEFINE n == Min({Len(out[f]), MaxOut - 1})
             s == SubSeq(out[f], 1, n)
  <1>3. s \in Seq(Event)
    <2>1. out[f] \in Seq(Event) /\ Len(out[f]) \in Nat BY LenProperties DEF Typed, TypeOK
    <2>2. n \in {Len(out[f]), MaxOut - 1} /\ n <= Len(out[f])
      BY <2>1, MaxOutAssumption DEF Min
    <2>3. n \in Int /\ \A i \in 1 .. n : out[f][i] \in Event
      <3> HIDE DEF n
      <3> QED BY <2>1, <2>2, MaxOutAssumption, ElementOfSeq
    <2> HIDE DEF n
    <2> QED BY <2>3, SubSeqProperties
  <1>4. ev \in Event BY DEF Typed, TypeOK
  <1>5. Written(f) = <<ev>> \/ Written(f) = Append(s, ev) BY DEF Written
  <1> HIDE DEF s
  <1> QED BY <1>1, <1>2, <1>3, <1>4, <1>5

LEMMA SinglesModify ==
  ASSUME Typed, Straight, Awaited, Modify, UNCHANGED scene
  PROVE  Awaited'
  <1>1. stack # <<>> /\ Filters' = Filters /\ \A k : Kind(k)' = Kind(k)
    BY KindActions DEF Filters, Kind
  <1>2. /\ Self \in Filters /\ Filters \subseteq Nat \ {0} /\ F = scene.filters[Self]
        /\ F.kind \in SimpleKinds \cup {"Commit"}
        /\ F.kind # "Commit" => F.next = Self + 1 /\ F.next # 0
        /\ F.kind = "Commit" => F.next = 0 /\ \A f \in Filters : f <= Self
        /\ F.kind = "Commit" => \A c \in Kind("Commit") : c = Self
    BY <1>1, ChainFacts DEF Straight
  <1>3. Len(stack) <= 1 /\ S = st[Self] /\ S.eat \in BOOLEAN
    BY <1>1, KeepFacts DEF Awaited
  <1>4. CASE F.kind = "Commit"
    <2>1. Commit /\ UnderWay BY <1>1, <1>4, KindActions DEF SimpleKinds, UnderWay
    <2>2. Drop /\ UNCHANGED <<unread, st>> /\ out' = [out EXCEPT ![Self] = Written(Self)]
      BY <1>2, <1>4, <2>1 DEF Commit, ForwardIfAny, Environment
    <2>3. stack' = <<>> BY <1>1, <1>3, <2>2, OneCall
    <2>4. NoEater
      <3>1. CASE unread[1] # <<>> BY <2>1, <3>1 DEF Awaited
      <3>2. CASE unread[1] = <<>>
        <4>1. \A f \in Filters : st[f].eat => Self <= f BY <2>1, <3>2 DEF Awaited
        <4>2. \A f \in Filters : st[f].eat => f = Self BY <1>2, <1>4, <4>1
        <4>3. \A f \in Filters : st[f].eat => scene.filters[f].kind \in EaterKinds BY DEF Awaited
        <4> QED BY <1>2, <1>4, <4>2, <4>3 DEF NoEater, EaterKinds
      <3> QED BY <3>1, <3>2
    <2>5. NoEater' BY <1>1, <2>2, <2>4 DEF NoEater
    <2>6. unread[1] = <<>> => Synced'
      <3> SUFFICES ASSUME unread[1] = <<>>, NEW c \in Kind("Commit")
                   PROVE  Last(out'[c]).type = "SYN"
        BY <1>1 DEF Synced
      <3>1. c = Self /\ ev = Syn BY <1>2, <1>4, <2>1 DEF Awaited
      <3>2. out'[c] = Written(Self)
        BY <1>2, <2>2, <3>1 DEF Typed, TypeOK
      <3>3. Last(Written(Self)) = ev BY <1>2, WrittenLast
      <3> QED BY <3>1, <3>2, <3>3, SynIs
    <2>7. unread[1] # <<>> => unread[1] = <<Syn>> BY <2>1 DEF Awaited
    <2>8. \A f \in Filters : ~st'[f].eat BY <2>2, <2>4 DEF NoEater
    <2>9. unread' = unread /\ (unread[1] \in {<<>>, <<Syn>>} \/ \E e \in Event : unread[1] = <<e, Syn>>)
      BY <2>2 DEF Awaited
    <2>10. Len(<<>>) = 0 OBVIOUS
    <2> QED BY <1>1, <2>3, <2>5, <2>6, <2>7, <2>8, <2>9, <2>10 DEF Awaited, UnderWay
  <1>5. CASE F.kind # "Commit"
    <2>1. Syncs BY <1>1, <1>2, <1>5, SimpleSyncs
    <2>2. UnderWay /\ unread' = unread /\ out' = out /\ Synced' = Synced
          /\ \A f \in Filters : f # Self => st'[f] = st[f]
      BY <1>1, <2>1 DEF Syncs, UnderWay, Environment, Synced
    <2>3. st'[Self].eat => F.kind \in EaterKinds
      BY <1>2, <2>1 DEF Syncs, Awaited, S
    <2>4. \A f \in Filters : st'[f].eat => scene.filters[f].kind \in EaterKinds
      BY <1>2, <2>2, <2>3 DEF Awaited
    <2>5. unread[1] \in {<<>>, <<Syn>>}
      BY <2>2 DEF Awaited
    <2>6. CASE \E e : /\ Forward(e) /\ e \in Event
                      /\ st'[Self].eat => S.eat
                      /\ ev = Syn => e = Syn /\ ~(S.eat /\ F.kind \in EaterKinds)
      <3>1. PICK e : /\ Forward(e) /\ e \in Event
                     /\ st'[Self].eat => S.eat
                     /\ ev = Syn => e = Syn /\ ~(S.eat /\ F.kind \in EaterKinds)
        BY <2>6
      <3>2. stack' # <<>> /\ Len(stack') <= 1 /\ ev' = e /\ Self' = Self + 1
        BY <1>1, <1>2, <1>3, <1>5, <3>1, OneCall
      <3>3. \A f \in Filters : st'[f].eat => st[f].eat
        BY <1>3, <2>2, <3>1
      <3>4. NoEater => NoEater' BY <1>1, <3>3 DEF NoEater
      <3>5. \A f, g \in Filters : st'[f].eat /\ st'[g].eat => f = g
        BY <3>3 DEF Awaited
      <3>6. unread[1] # <<>> => NoEater /\ Synced BY <2>2 DEF Awaited
      <3>7. unread[1] = <<>> => e = Syn /\ \A f \in Filters : st'[f].eat => Self + 1 <= f
        <4> SUFFICES ASSUME unread[1] = <<>>
                     PROVE  e = Syn /\ \A f \in Filters : st'[f].eat => Self + 1 <= f
          OBVIOUS
        <4>1. ev = Syn /\ \A f \in Filters : st[f].eat => Self <= f BY <2>2 DEF Awaited
        <4>2. e = Syn /\ ~(S.eat /\ F.kind \in EaterKinds) BY <3>1, <4>1
        <4>3. ~st'[Self].eat BY <2>3, <3>1, <4>2
        <4>4. \A f \in Filters : st'[f].eat => f # Self /\ Self <= f BY <3>3, <4>1, <4>3
        <4> QED BY <1>2, <4>2, <4>4
      <3>8. NoEater \/ Synced BY DEF Awaited
      <3> QED BY <1>1, <2>2, <2>4, <2>5, <3>2, <3>4, <3>5, <3>6, <3>7, <3>8 DEF Awaited, UnderWay
    <2>7. CASE Drop /\ (ev = Syn => S.eat /\ ~st'[Self].eat)
      <3>1. stack' = <<>> BY <1>1, <1>3, <2>7, OneCall
      <3>2. CASE unread[1] # <<>>
        <4>1. unread[1] = <<Syn>> /\ NoEater /\ Synced BY <2>2, <3>2 DEF Awaited
        <4>2. \A f, g \in Filters : st'[f].eat /\ st'[g].eat => f = g
          BY <2>2, <4>1 DEF NoEater
        <4>3. Len(<<>>) = 0 OBVIOUS
        <4> QED BY <1>1, <2>2, <2>4, <3>1, <4>1, <4>2, <4>3 DEF Awaited, UnderWay
      <3>3. CASE unread[1] = <<>>
        <4>1. ev = Syn BY <2>2, <3>3 DEF Awaited
        <4>2. S.eat /\ ~st'[Self].eat BY <2>7, <4>1
        <4>3. \A f \in Filters : st[f].eat => f = Self BY <1>2, <1>3, <4>2 DEF Awaited
        <4>4. \A f \in Filters : ~st'[f].eat BY <2>2, <4>2, <4>3
        <4>5. NoEater' BY <1>1, <4>4 DEF NoEater
        <4>6. Synced BY <1>2, <1>3, <4>2 DEF Awaited, NoEater
        <4>7. Len(<<>>) = 0 OBVIOUS
        <4> QED BY <1>1, <2>2, <2>4, <2>5, <3>1, <3>3, <4>4, <4>5, <4>6, <4>7 DEF Awaited, UnderWay
      <3> QED BY <3>2, <3>3
    <2>8. CASE (Never("trap") \/ Never("loop")) /\ (st'[Self].eat => S.eat)
      <3>1. stack' # <<>> /\ Len(stack') <= 1 /\ Top'.at # "modify"
        BY <1>1, <1>3, <2>8, OneCall
      <3>2. \A f \in Filters : st'[f].eat => st[f].eat BY <1>3, <2>2, <2>8
      <3>3. NoEater => NoEater' BY <1>1, <3>2 DEF NoEater
      <3>4. \A f, g \in Filters : st'[f].eat /\ st'[g].eat => f = g BY <3>2 DEF Awaited
      <3>5. NoEater \/ Synced BY DEF Awaited
      <3> QED BY <1>1, <2>2, <2>4, <2>5, <3>1, <3>3, <3>4, <3>5 DEF Awaited, UnderWay
    <2> QED BY <2>1, <2>6, <2>7, <2>8 DEF Syncs
  <1> QED BY <1>4, <1>5

\* The first event of what a device has sent, and what is left.
LEMMA ReadFacts ==
  ASSUME Typed, NEW d \in Devices, Read(d)
  PROVE  /\ unread[d] # <<>> /\ ev' = Head(unread[d]) /\ ev' \in Event
         /\ unread' = [unread EXCEPT ![d] = Tail(@)]
         /\ stack = <<>> /\ stack' # <<>> /\ Len(stack') <= 1
         /\ Top'.at = "modify" /\ Self' = scene.roots[d] /\ Top'.ev = ev'
  <1>1. unread[d] \in Seq(Event) BY DEF Typed, TypeOK
  <1>2. unread[d] # <<>> /\ ev' = Head(unread[d]) /\ unread' = [unread EXCEPT ![d] = Tail(@)]
        /\ stack = <<>> /\ stack' = <<Frame(scene.roots[d], "modify", ev')>>
    BY DEF Read
  <1>3. ev' \in Event BY <1>1, <1>2, HeadTailProperties
  <1>4. \A x : <<x>> # <<>> /\ Len(<<x>>) = 1 /\ Head(<<x>>) = x OBVIOUS
  <1>5. Top' = Head(stack') BY DEF Top
  <1>6. Top' = Frame(scene.roots[d], "modify", ev') BY <1>2, <1>4, <1>5
  <1>7. Self' = Top'.filter BY DEF Self
  <1> QED BY <1>2, <1>3, <1>4, <1>6, <1>7 DEF Frame

\* A sequence of one element, and with another one behind it.
LEMMA LoneElement ==
  ASSUME NEW X, NEW p \in Seq(X), Len(p) = 1, NEW y \in X
  PROVE  p[1] \in X /\ Append(p, y) = <<p[1], y>>
  <1> DEFINE s == Append(p, y) t == <<p[1], y>>
  <1>1. p[1] \in X
    <2>1. 1 \in 1 .. Len(p) OBVIOUS
    <2> QED BY <2>1, ElementOfSeq
  <1>2. s \in Seq(X) /\ Len(s) = 2 /\ s[1] = p[1] /\ s[2] = y
    <2>1. s \in Seq(X) BY AppendProperties
    <2>2. Len(s) = Len(p) + 1 BY AppendProperties
    <2>3. s[1] = p[1]
      <3>1. 1 \in 1 .. Len(p) OBVIOUS
      <3> QED BY <3>1, AppendProperties
    <2>4. s[Len(p) + 1] = y BY AppendProperties
    <2> HIDE DEF s
    <2> QED BY <2>1, <2>2, <2>3, <2>4
  <1>3. t \in Seq(X) /\ Len(t) = 2 /\ t[1] = p[1] /\ t[2] = y BY <1>1
  <1> HIDE DEF s, t
  <1>4. \A i \in 1 .. Len(s) : s[i] = t[i] BY <1>2, <1>3
  <1>5. s = t BY <1>2, <1>3, <1>4, SeqEqual
  <1> QED BY <1>1, <1>5 DEF s, t

LEMMA SinglesDevice ==
  ASSUME Typed, Straight, Awaited, NEW d \in Devices, Packet(d) \/ Read(d), UNCHANGED scene
  PROVE  Awaited'
  <1>1. /\ d = 1 /\ 1 \in Devices /\ scene.roots = <<1>> /\ scene.roots[1] = 1
        /\ Filters' = Filters /\ (\A k : Kind(k)' = Kind(k))
        /\ Filters \subseteq Nat \ {0}
    BY DEF Devices, Filters, Kind, Straight, Chain
  <1>2. UNCHANGED <<st, out>> BY DEF Packet, Read
  <1>3. NoEater' = NoEater /\ Synced' = Synced BY <1>1, <1>2 DEF NoEater, Synced
  <1>4. unread \in [Devices -> Seq(Event)] /\ stack = <<>>
    BY DEF Typed, TypeOK, Packet, Read
  <1>5. CASE Packet(1)
    <2>1. PICK p \in scene.packets[1] : unread' = [unread EXCEPT ![1] = Append(p, Syn)]
      BY <1>5 DEF Packet
    <2>2. unread[1] = <<>> /\ stack' = stack BY <1>5 DEF Packet
    <2>3. p \in Seq(Event) /\ Len(p) = 1
      BY <1>1, ScenesAssumption DEF Typed, TypeOK, Devices, Straight, Single
    <2>4. p[1] \in Event BY <2>3, SynIs, LoneElement
    <2>5. Append(p, Syn) = <<p[1], Syn>> BY <2>3, SynIs, LoneElement
    <2>6. unread'[1] = <<p[1], Syn>> BY <1>1, <1>4, <2>1, <2>5
    <2>7. NoEater /\ Synced
      <3>1. unread[1] # <<Syn>> BY <2>2
      <3> QED BY <1>4, <3>1 DEF Awaited
    <2>8. UnderWay' = FALSE BY <1>4, <2>2 DEF UnderWay
    <2> QED BY <1>1, <1>2, <1>3, <1>4, <2>2, <2>4, <2>6, <2>7, <2>8 DEF Awaited
  <1>6. CASE Read(1)
    <2>1. /\ unread[1] # <<>> /\ ev' = Head(unread[1])
          /\ unread' = [unread EXCEPT ![1] = Tail(@)]
          /\ stack' # <<>> /\ Len(stack') <= 1 /\ Self' = 1
      BY <1>1, <1>6, ReadFacts
    <2>2. unread'[1] = Tail(unread[1]) BY <1>1, <1>4, <2>1
    <2>3. CASE unread[1] = <<Syn>>
      <3>1. unread'[1] = <<>> /\ ev' = Syn BY <2>1, <2>2, <2>3
      <3>2. \A f \in Filters : 1 <= f BY <1>1
      <3>3. Self' = 1 BY <2>1
      <3> QED BY <1>1, <1>2, <1>3, <2>1, <3>1, <3>2, <3>3 DEF Awaited, UnderWay
    <2>4. CASE unread[1] # <<Syn>>
      <3>1. PICK e \in Event : unread[1] = <<e, Syn>> BY <2>1, <2>4 DEF Awaited
      <3>2. unread'[1] = <<Syn>> BY <2>2, <3>1
      <3>3. NoEater /\ Synced BY <1>4, <2>4 DEF Awaited
      <3>4. <<Syn>> # <<>> OBVIOUS
      <3> QED BY <1>1, <1>2, <1>3, <2>1, <3>2, <3>3, <3>4 DEF Awaited, UnderWay
    <2> QED BY <2>3, <2>4
  <1> QED BY <1>1, <1>5, <1>6

LEMMA SinglesStep ==
  ASSUME Typed, SinglesInv, [Next]_vars
  PROVE  SinglesInv'
  <1>1. UNCHANGED scene BY StepFacts
  <1>2. Straight' = Straight BY <1>1 DEF Straight, Single, Devices
  <1> SUFFICES ASSUME Straight PROVE Awaited'
    BY <1>2 DEF SinglesInv
  <1>3. Awaited BY DEF SinglesInv
  <1>4. CASE UNCHANGED vars
    <2>1. UNCHANGED <<scene, st, ev, stack, unread, out>> BY <1>4 DEF vars
    <2>2. Filters' = Filters /\ \A k : Kind(k)' = Kind(k) BY <2>1 DEF Filters, Kind
    <2>3. NoEater' = NoEater /\ Synced' = Synced BY <2>1, <2>2 DEF NoEater, Synced
    <2>4. Top' = Top /\ Self' = Self BY <2>1 DEF Top, Self
    <2>5. UnderWay' = UnderWay BY <2>1, <2>4 DEF UnderWay
    <2> QED BY <1>3, <2>1, <2>2, <2>3, <2>4, <2>5 DEF Awaited
  <1>5. CASE Modify BY <1>1, <1>3, <1>5, SinglesModify
  <1>6. ASSUME NEW d \in Devices, Packet(d) \/ Read(d) PROVE Awaited'
    BY <1>1, <1>3, <1>6, SinglesDevice
  <1> QED BY <1>4, <1>5, <1>6 DEF Next, Halted

LEMMA SinglesInit ==
  ASSUME Init
  PROVE  SinglesInv
  <1> SUFFICES ASSUME Straight PROVE Awaited BY DEF SinglesInv
  <1>1. stack = <<>> /\ unread[1] = <<>>
    BY DEF Init, Straight, Chain, Devices
  <1>2. \A f \in Filters : ~st[f].eat
    BY DEF Init, Initial, Uninitialised
  <1>3. Synced BY DEF Init, Synced, Kind
  <1>4. <<>> # <<Syn>> /\ Len(<<>>) = 0 OBVIOUS
  <1> QED BY <1>1, <1>2, <1>3, <1>4 DEF Awaited, NoEater, UnderWay

\* Of lines of filters that make one step per event, in any number and order
\* and with any parameters, and of any device that sends one event per packet:
\* no sync that is due is swallowed (SinglesSynced; key_lock.c:48-78,
\* btn2rel.c:81-157, speed_mod_rel.c:57-93, rel2scroll.c:53-108).
THEOREM SyncsPass == Spec => [](Chain(scene, SimpleKinds) => SinglesSynced)
  <1>1. Init => Typed /\ SinglesInv BY InitFacts, SinglesInit
  <1>2. Typed /\ SinglesInv /\ [Next]_vars => (Typed /\ SinglesInv)'
    BY StepFacts, SinglesStep
  <1>3. SinglesInv => (Chain(scene, SimpleKinds) => SinglesSynced)
    <2> SUFFICES ASSUME SinglesInv, Chain(scene, SimpleKinds), Quiet, Single
                 PROVE  \A f \in Kind("Commit") : out[f] = <<>> \/ Last(out[f]).type = "SYN"
      BY DEF SinglesSynced
    <2>1. Awaited BY DEF SinglesInv, Straight
    <2>2. 1 \in Devices BY DEF Chain, Devices
    <2>3. stack = <<>> /\ unread[1] = <<>> /\ <<>> # <<Syn>> BY <2>2 DEF Quiet
    <2> QED BY <2>1, <2>3 DEF Awaited, Synced
  <1> QED BY <1>1, <1>2, <1>3, PTL DEF Spec

---------------------------------------------------------------------------
(* What becomes of an event in a filter that makes one step.               *)

\* The code that a key has behind a filter, unless it is no key there.
Gone == -1

ButtonOf(d, x) ==
  LET left == IF x = d.lbtn THEN BTN_LEFT ELSE x
      middle == IF left = d.mbtn THEN BTN_MIDDLE ELSE left
  IN  IF middle = d.rbtn THEN BTN_RIGHT ELSE middle

Renamed(f, x) ==
  LET k == scene.filters[f].kind
      d == Data(f)
  IN  IF k = "KeySubstitute" /\ x = d.from THEN d.to
      ELSE IF k = "Btn2Rel" THEN IF x \in {d.up, d.down, d.left, d.right} THEN Gone ELSE ButtonOf(d, x)
      ELSE IF k = "Rel2Scroll" /\ x = d.key THEN Gone
      ELSE x

\* A key: the value changes in a KeyLock only, and only NoRepeat, a KeyLock and
\* a filter for which it has another meaning drop it.
KeyPassed ==
  \/ F.kind = "NoRepeat" /\ ev.value = 2 /\ Drop
  \/ /\ F.kind = "KeyLock" /\ ev.code = D.key
     /\ \/ ev.value = 0 /\ Drop /\ st'[Self].on = S.on
        \/ ev.value = 1 /\ Forward(Unlock(ev, S)) /\ st'[Self].on = ~S.on
        \/ ev.value \notin {0, 1} /\ Forward(ev) /\ st'[Self].on = S.on
  \/ /\ ~(F.kind = "KeyLock" /\ ev.code = D.key) /\ ~(F.kind = "NoRepeat" /\ ev.value = 2)
     /\ F.kind = "KeyLock" => st'[Self].on = S.on
     /\ Renamed(Self, ev.code) = Gone =>
          Drop \/ (F.kind = "Btn2Rel" /\ \E e \in Event : Forward(e) /\ e.type = "REL")
     /\ Renamed(Self, ev.code) # Gone => Forward([ev EXCEPT !.code = Renamed(Self, ev.code)])

\* Anything else: it keeps its type, and the smoothing filters and those of
\* positions change the value of a position, or exchange its axis.
Shapers == {"Mirror", "Rotate", "ScaleAbs", "Kalman", "WeightedAverageAbs"}
Alike(e) ==
  /\ e.type = ev.type
  /\ ev.type = "SYN" => e = ev
  /\ ev.type = "ABS" /\ F.kind \notin Shapers => e = ev
  /\ ev.type = "ABS" /\ ev.code \notin Axis /\ F.kind # "WeightedAverageAbs" => e = ev
  /\ ev.type = "ABS" /\ ev.code \in Axis =>
       /\ e.code \in Axis
       /\ F.kind = "Mirror" => e.value \in {ev.value, IntMax - ev.value}
       /\ F.kind = "Rotate" => e.value = ev.value
       /\ F.kind = "ScaleAbs" => e.value = Scaled(ev).value

OtherPassed ==
  /\ F.kind = "KeyLock" => st'[Self].on = S.on
  /\ \/ \E e \in Event : Forward(e) /\ Alike(e)
     \/ Drop /\ ev.type \in {"SYN", "REL"}
     \/ Never("trap") /\ F.kind \in {"SpeedMod", "Rel2Scroll", "WeightedAverageAbs"}
     \/ Never("loop") /\ F.kind = "WeightedAverageAbs"

Passed == (ev.type = "KEY" => KeyPassed) /\ (ev.type # "KEY" => OtherPassed)

\* Most events are passed on as they are.
LEMMA SameKey ==
  ASSUME ev \in Event
  PROVE  [ev EXCEPT !.code = ev.code] = ev
  BY DEF Event

LEMMA SamePassed ==
  ASSUME Typed, stack # <<>>, Forward(ev), F.kind = "KeyLock" => st'[Self].on = S.on,
         ~(F.kind = "ScaleAbs" /\ ev.type = "ABS" /\ ev.code \in Axis),
         ev.type = "KEY" => /\ Renamed(Self, ev.code) = ev.code
                            /\ ~(F.kind = "KeyLock" /\ ev.code = D.key)
                            /\ ~(F.kind = "NoRepeat" /\ ev.value = 2)
  PROVE  Passed
  <1>1. ev \in Event BY CallFacts
  <1>2. ev.code # Gone BY <1>1 DEF Event, Gone
  <1>3. ev.type # "KEY" => Alike(ev) BY DEF Alike
  <1> QED BY <1>1, <1>2, <1>3, SameKey DEF Passed, KeyPassed, OtherPassed

\* Filters of which no key is affected.
LEMMA SameName ==
  ASSUME stack # <<>>, F.kind \notin {"KeySubstitute", "Btn2Rel", "Rel2Scroll"}
  PROVE  \A x : Renamed(Self, x) = x
  BY DEF Renamed, F

LEMMA PlainPassed ==
  ASSUME Typed, stack # <<>>, F.next # 0,
         \/ PassOn /\ F.kind \in {"Dump", "GetFromHandle"}
         \/ NoRepeat /\ F.kind = "NoRepeat"
         \/ Mirror /\ F.kind = "Mirror"
         \/ Rotate /\ F.kind = "Rotate"
         \/ ScaleAbs /\ F.kind = "ScaleAbs"
  PROVE  Passed
  <1>1. ev \in Event /\ \A x : Renamed(Self, x) = x BY CallFacts, SameName
  <1>2. CASE /\ Forward(ev) /\ F.kind \notin {"KeyLock", "ScaleAbs"}
             /\ ~(F.kind = "NoRepeat" /\ ev.type = "KEY" /\ ev.value = 2)
    BY <1>1, <1>2, SamePassed
  <1>3. CASE PassOn /\ F.kind \in {"Dump", "GetFromHandle"}
    <2>1. Forward(ev) BY <1>3 DEF PassOn, ForwardIfAny, At
    <2> QED BY <1>2, <1>3, <2>1
  <1>4. CASE NoRepeat /\ F.kind = "NoRepeat"
    <2>1. \/ ev.type = "KEY" /\ ev.value = 2 /\ Drop
          \/ Forward(ev) /\ ~(ev.type = "KEY" /\ ev.value = 2)
      BY <1>4 DEF NoRepeat
    <2> QED BY <1>2, <1>4, <2>1 DEF Passed, KeyPassed
  <1>5. CASE Mirror /\ F.kind = "Mirror"
    <2>1. Forward(Mirrored(ev)) /\ Mirrored(ev) \in Event BY <1>1, <1>5, MirroredFacts DEF Mirror
    <2>2. D.rel \subseteq Axis /\ D.abs \subseteq Axis
      BY <1>5 DEF D, Data, Alloc, MirrorAlloc, F, Axis, REL_X, REL_Y
    <2>3. ev.type = "KEY" => Forward(ev) BY <2>1 DEF Mirrored
    <2>4. ev.type # "KEY" => Alike(Mirrored(ev))
      <3>1. ev.type \notin {"REL", "ABS"} => Mirrored(ev) = ev BY DEF Mirrored
      <3>2. ev.type = "ABS" /\ ev.code \notin D.abs => Mirrored(ev) = ev BY DEF Mirrored
      <3>3. ev.type = "ABS" /\ ev.code \in D.abs => Mirrored(ev) = [ev EXCEPT !.value = IntMax - @]
        BY DEF Mirrored
      <3>4. Mirrored(ev).type = ev.type /\ Mirrored(ev).code = ev.code
        BY <1>1 DEF Mirrored, Event
      <3>5. ev.type = "ABS" /\ ev.code \in D.abs => Mirrored(ev).value = IntMax - ev.value
        BY <1>1, <3>3 DEF Event
      <3> HIDE DEF Mirrored
      <3> QED BY <1>5, <2>2, <3>1, <3>2, <3>4, <3>5 DEF Alike, Shapers
    <2> QED BY <1>2, <1>5, <2>1, <2>3, <2>4 DEF Passed, OtherPassed
  <1>6. CASE Rotate /\ F.kind = "Rotate"
    <2> DEFINE e == IF ev.type \in D.types /\ ev.code \in Axis THEN [ev EXCEPT !.code = 1 - @] ELSE ev
    <2>1. Forward(e) BY <1>6 DEF Rotate
    <2>2. D.types \subseteq {"ABS", "REL"} BY <1>6 DEF D, Data, Alloc, RotateAlloc, F
    <2>3. /\ e \in Event /\ e.type = ev.type /\ e.value = ev.value
          /\ (ev.code \in Axis => e.code \in Axis)
      BY <1>1 DEF Event, Axis, REL_X, REL_Y
    <2>4. ev.type \notin {"ABS", "REL"} \/ ev.code \notin Axis => e = ev BY <2>2
    <2> HIDE DEF e
    <2>5. ev.type = "KEY" => Forward(ev) BY <2>1, <2>4
    <2>6. ev.type # "KEY" => Alike(e) BY <1>6, <2>3, <2>4 DEF Alike, Shapers
    <2> QED BY <1>2, <1>6, <2>1, <2>3, <2>5, <2>6 DEF Passed, OtherPassed
  <1>7. CASE ScaleAbs /\ F.kind = "ScaleAbs"
    <2>1. CASE ev.type = "ABS" /\ ev.code \in Axis
      <3>1. Forward(Scaled(ev)) BY <1>7, <2>1 DEF ScaleAbs
      <3>2. Scaled(ev) \in Event BY <1>1, <1>7, <2>1, ScaledFacts
      <3>3. Scaled(ev).type = ev.type /\ Scaled(ev).code = ev.code BY <1>1 DEF Scaled, Event
      <3>4. Alike(Scaled(ev)) BY <1>7, <2>1, <3>3 DEF Alike, Shapers
      <3> QED BY <1>7, <2>1, <3>1, <3>2, <3>4 DEF Passed, OtherPassed
    <2>2. CASE ~(ev.type = "ABS" /\ ev.code \in Axis)
      <3>1. Forward(ev) BY <1>7, <2>2 DEF ScaleAbs
      <3> QED BY <1>1, <1>7, <2>2, <3>1, SamePassed
    <2> QED BY <2>1, <2>2
  <1> QED BY <1>3, <1>4, <1>5, <1>6, <1>7

LEMMA KeySubstitutePassed ==
  ASSUME Typed, stack # <<>>, KeySubstitute, F.kind = "KeySubstitute"
  PROVE  Passed
  <1>1. ev \in Event BY CallFacts
  <1>2. \A x : Renamed(Self, x) = IF x = D.from THEN D.to ELSE x BY DEF Renamed, F, D
  <1>3. CASE IsKey(ev, D.from)
    <2>1. Forward([ev EXCEPT !.code = D.to]) /\ ev.type = "KEY" /\ ev.code = D.from
      BY <1>3 DEF KeySubstitute, IsKey
    <2>2. D.to # Gone
      <3>1. D.to \in Nat BY CallFacts, DataFacts DEF Typed, TypeOK, D, F
      <3> QED BY <3>1 DEF Gone
    <2> QED BY <1>2, <2>1, <2>2 DEF Passed, KeyPassed
  <1>4. CASE ~IsKey(ev, D.from)
    <2>1. Forward(ev) BY <1>4 DEF KeySubstitute
    <2>2. ev.type = "KEY" => Renamed(Self, ev.code) = ev.code BY <1>2, <1>4 DEF IsKey
    <2> QED BY <2>1, <2>2, SamePassed
  <1> QED BY <1>3, <1>4

LEMMA KeyLockPassed ==
  ASSUME Typed, stack # <<>>, KeyLock, F.kind = "KeyLock"
  PROVE  Passed
  <1>1. ev \in Event /\ \A x : Renamed(Self, x) = x BY CallFacts, SameName
  <1> DEFINE clear == [S EXCEPT !.eat = FALSE]
             toggle == [S EXCEPT !.eat = FALSE, !.on = ~@]
             eat == [S EXCEPT !.eat = TRUE]
  <1>2. clear.on = S.on /\ eat.on = S.on /\ toggle.on = ~S.on BY KeepFacts DEF State
  <1>3. \/ ev = Syn /\ Drop /\ Keep(clear)
        \/ IsKey(ev, D.key) /\ ev.value = 0 /\ Drop /\ Keep(eat)
        \/ IsKey(ev, D.key) /\ ev.value = 1 /\ Forward(Unlock(ev, S)) /\ Keep(toggle)
        \/ ~(IsKey(ev, D.key) /\ ev.value \in {0, 1}) /\ Forward(ev) /\ Keep(clear)
    BY DEF KeyLock
  <1> HIDE DEF clear, toggle, eat
  <1>4. CASE ev = Syn /\ Drop /\ Keep(clear)
    BY <1>2, <1>4, KeepFacts, SynIs DEF Passed, OtherPassed
  <1>5. CASE IsKey(ev, D.key) /\ ev.value = 0 /\ Drop /\ Keep(eat)
    BY <1>2, <1>5, KeepFacts DEF Passed, KeyPassed, IsKey
  <1>6. CASE IsKey(ev, D.key) /\ ev.value = 1 /\ Forward(Unlock(ev, S)) /\ Keep(toggle)
    BY <1>2, <1>6, KeepFacts DEF Passed, KeyPassed, IsKey
  <1>7. CASE ~(IsKey(ev, D.key) /\ ev.value \in {0, 1}) /\ Forward(ev) /\ Keep(clear)
    <2>1. st'[Self].on = S.on BY <1>2, <1>7, KeepFacts
    <2>2. CASE IsKey(ev, D.key)
      BY <1>7, <2>1, <2>2 DEF Passed, KeyPassed, IsKey
    <2>3. CASE ~IsKey(ev, D.key)
      BY <1>1, <1>7, <2>1, <2>3, SamePassed DEF IsKey
    <2> QED BY <2>2, <2>3
  <1> QED BY <1>3, <1>4, <1>5, <1>6, <1>7

\* What Btn2Rel makes of a key.
LEMMA ButtonFacts ==
  ASSUME NEW e \in Event, NEW key, NEW code \in Nat
  PROVE  /\ ButtonFor(key, code, e) \in Event
         /\ ButtonFor(key, code, e).type = e.type
         /\ ButtonFor(key, code, e) = [e EXCEPT !.code = IF e.code = key THEN code ELSE @]
  <1>1. [e EXCEPT !.code = e.code] = e BY DEF Event
  <1> QED BY <1>1 DEF ButtonFor, Event

LEMMA ButtonsFacts ==
  ASSUME NEW e \in Event
  PROVE  /\ Buttons(e).type = e.type
         /\ Buttons(e) = [e EXCEPT !.code = ButtonOf(D, e.code)]
         /\ ButtonOf(D, e.code) \in Nat
  <1> DEFINE a == ButtonFor(D.lbtn, BTN_LEFT, e)
             b == ButtonFor(D.mbtn, BTN_MIDDLE, a)
             c == ButtonFor(D.rbtn, BTN_RIGHT, b)
             x == IF e.code = D.lbtn THEN BTN_LEFT ELSE e.code
             y == IF x = D.mbtn THEN BTN_MIDDLE ELSE x
             z == IF y = D.rbtn THEN BTN_RIGHT ELSE y
  <1>1. BTN_LEFT \in Nat /\ BTN_MIDDLE \in Nat /\ BTN_RIGHT \in Nat
    BY DEF BTN_LEFT, BTN_MIDDLE, BTN_RIGHT
  <1>2. /\ a \in Event /\ a.type = e.type
        /\ a = [e EXCEPT !.code = IF e.code = D.lbtn THEN BTN_LEFT ELSE @]
    BY <1>1, ButtonFacts
  <1>3. /\ b \in Event /\ b.type = a.type
        /\ b = [a EXCEPT !.code = IF a.code = D.mbtn THEN BTN_MIDDLE ELSE @]
    <2>1. a \in Event BY <1>2
    <2> HIDE DEF a
    <2> QED BY <1>1, <2>1, ButtonFacts
  <1>4. /\ c.type = b.type
        /\ c = [b EXCEPT !.code = IF b.code = D.rbtn THEN BTN_RIGHT ELSE @]
    <2>1. b \in Event BY <1>3
    <2> HIDE DEF b
    <2> QED BY <1>1, <2>1, ButtonFacts
  <1> HIDE DEF a, b, c
  <1>5. a = [e EXCEPT !.code = x] BY <1>2
  <1>6. x \in Nat /\ (y \in Nat) /\ z \in Nat BY <1>1 DEF Event
  <1>7. a.code = x BY <1>5 DEF Event
  <1>8. b = [e EXCEPT !.code = y] /\ b.code = y
    <2>1. b = [a EXCEPT !.code = y] BY <1>3, <1>7
    <2> HIDE DEF x, y
    <2> QED BY <1>5, <2>1 DEF Event
  <1>9. c = [e EXCEPT !.code = z]
    <2>1. c = [b EXCEPT !.code = z] BY <1>4, <1>8
    <2> HIDE DEF y, z
    <2> QED BY <1>8, <2>1 DEF Event
  <1>10. ButtonOf(D, e.code) = z BY DEF ButtonOf
  <1>11. Buttons(e) = c BY DEF Buttons, a, b, c
  <1> HIDE DEF z
  <1> QED BY <1>2, <1>3, <1>4, <1>6, <1>9, <1>10, <1>11

LEMMA MovesFacts ==
  ASSUME NEW e \in Event
  PROVE  /\ Moves(e) \in Event
         /\ e.code \in {D.up, D.down, D.left, D.right} => Moves(e).type = "REL"
         /\ e.code \notin {D.up, D.down, D.left, D.right} => Moves(e) = e
  <1> DEFINE a == MoveFor(D.up, REL_Y, 2, e)
             b == MoveFor(D.down, REL_Y, -2, a)
             c == MoveFor(D.left, REL_X, -2, b)
             d == MoveFor(D.right, REL_X, 2, c)
  <1>1. \A key : \A x \in {0, 1}, y \in Int, g \in Event :
          /\ MoveFor(key, x, y, g) \in Event
          /\ g.code = key \/ g.type = "REL" => MoveFor(key, x, y, g).type = "REL"
          /\ g.code # key => MoveFor(key, x, y, g) = g
    BY DEF MoveFor, E, Event, Type
  <1>2. REL_X \in {0, 1} /\ REL_Y \in {0, 1} BY DEF REL_X, REL_Y
  <1>3. /\ a \in Event /\ (e.code = D.up => a.type = "REL") /\ (e.code # D.up => a = e)
    BY <1>1, <1>2
  <1> HIDE DEF a
  <1>4. /\ b \in Event /\ (a.code = D.down \/ a.type = "REL" => b.type = "REL")
        /\ (a.code # D.down => b = a)
    BY <1>1, <1>2, <1>3
  <1> HIDE DEF b
  <1>5. /\ c \in Event /\ (b.code = D.left \/ b.type = "REL" => c.type = "REL")
        /\ (b.code # D.left => c = b)
    BY <1>1, <1>2, <1>4
  <1> HIDE DEF c
  <1>6. /\ d \in Event /\ (c.code = D.right \/ c.type = "REL" => d.type = "REL")
        /\ (c.code # D.right => d = c)
    BY <1>1, <1>2, <1>5
  <1>7. Moves(e) = d BY DEF Moves, a, b, c
  <1> HIDE DEF d
  <1> QED BY <1>3, <1>4, <1>5, <1>6, <1>7

LEMMA Btn2RelPassed ==
  ASSUME Typed, stack # <<>>, Btn2Rel, F.kind = "Btn2Rel"
  PROVE  Passed
  <1>1. ev \in Event BY CallFacts
  <1>2. \A x : Renamed(Self, x) = IF x \in {D.up, D.down, D.left, D.right} THEN Gone ELSE ButtonOf(D, x)
    BY DEF Renamed, F, D
  <1>3. CASE IsMoveKey(ev) /\ Drop
    <2>1. ev.type = "KEY" /\ Renamed(Self, ev.code) = Gone BY <1>2, <1>3 DEF IsMoveKey
    <2> QED BY <1>3, <2>1 DEF Passed, KeyPassed
  <1>4. CASE ev.type = "SYN" /\ Drop
    BY <1>4 DEF Passed, OtherPassed
  <1>5. CASE ev.type # "KEY" /\ Forward(ev)
    BY <1>5, SamePassed
  <1>6. CASE ev.type = "KEY" /\ Forward(Translated(ev))
    <2>1. CASE ev.code \in {D.up, D.down, D.left, D.right}
      <3>1. Moves(ev) \in Event /\ Moves(ev).type = "REL" BY <1>1, <2>1, MovesFacts
      <3>2. Translated(ev).type = "REL" BY <3>1, ButtonsFacts DEF Translated
      <3>3. Translated(ev) \in Event BY <1>1, TranslatedFacts
      <3> QED BY <1>2, <1>6, <2>1, <3>2, <3>3 DEF Passed, KeyPassed
    <2>2. CASE ev.code \notin {D.up, D.down, D.left, D.right}
      <3>1. Translated(ev) = Buttons(ev) BY <1>1, <2>2, MovesFacts DEF Translated
      <3>2. Translated(ev) = [ev EXCEPT !.code = Renamed(Self, ev.code)]
        BY <1>1, <1>2, <2>2, <3>1, ButtonsFacts
      <3>3. Renamed(Self, ev.code) # Gone BY <1>1, <1>2, <2>2, ButtonsFacts DEF Gone
      <3> QED BY <1>6, <3>2, <3>3 DEF Passed, KeyPassed
    <2> QED BY <2>1, <2>2
  <1> QED BY <1>3, <1>4, <1>5, <1>6 DEF Btn2Rel

LEMMA AccumulatePassed ==
  ASSUME Typed, stack # <<>>, F.kind \in {"SpeedMod", "Rel2Scroll"}, IsMove(ev),
         NEW code \in Nat, NEW s \in State, Accumulate(ev.code, code, s)
  PROVE  Passed
  <1>1. ev \in Event /\ ev.code \in Axis /\ ev.type = "REL" BY CallFacts DEF IsMove
  <1> DEFINE total == s.acc[ev.code] + ev.value
             mod == D.mod[ev.code]
             step == Quotient(total, mod)
             e == [ev EXCEPT !.code = code, !.value = step]
  <1>2. Never("trap") \/ (mod # 0 /\ Forward(e)) \/ Drop BY DEF Accumulate
  <1>3. mod # 0 => e \in Event /\ e.type = "REL"
    <2>1. mod \in Int /\ total \in Int
      <3>1. D.mod \in [Axis -> Int] BY CallFacts, DataFacts DEF Typed, TypeOK, D, F
      <3>2. s.acc \in [Axis -> Int] BY DEF State
      <3>3. ev.value \in Int BY <1>1 DEF Event
      <3> QED BY <1>1, <3>1, <3>2, <3>3
    <2>2. mod # 0 => step \in Int
      <3> HIDE DEF total, mod
      <3> QED BY <2>1, QuotientFacts
    <2> HIDE DEF step, mod
    <2> QED BY <1>1, <2>2 DEF Event
  <1> HIDE DEF e, mod
  <1> QED BY <1>1, <1>2, <1>3 DEF Passed, OtherPassed, Alike

LEMMA MovePassed ==
  ASSUME Typed, stack # <<>>,
         \/ SpeedMod /\ F.kind = "SpeedMod"
         \/ Rel2Scroll /\ F.kind = "Rel2Scroll"
  PROVE  Passed
  <1>1. ev \in Event /\ S \in State BY CallFacts, KeepFacts
  <1>2. CASE SpeedMod /\ F.kind = "SpeedMod"
    <2>1. CASE IsMove(ev) /\ Accumulate(ev.code, ev.code, S)
      <3>1. ev.code \in Nat BY <1>1 DEF Event
      <3> QED BY <1>1, <1>2, <2>1, <3>1, AccumulatePassed
    <2>2. CASE ev.type = "SYN" /\ Drop BY <1>2, <2>2 DEF Passed, OtherPassed
    <2>3. CASE Forward(ev) BY <1>2, <2>3, SameName, SamePassed
    <2> QED BY <1>2, <2>1, <2>2, <2>3 DEF SpeedMod, Eats
  <1>3. CASE Rel2Scroll /\ F.kind = "Rel2Scroll"
    <2> DEFINE clear == [S EXCEPT !.eat = FALSE]
    <2>1. clear \in State BY <1>1 DEF State
    <2>2. \A x : Renamed(Self, x) = IF x = D.key THEN Gone ELSE x BY <1>3 DEF Renamed, F, D
    <2>3. CASE IsMove(ev) /\ Accumulate(ev.code, Wheel(ev.code), clear)
      <3>1. Wheel(ev.code) \in Nat BY DEF Wheel, REL_HWHEEL, REL_WHEEL
      <3> HIDE DEF clear
      <3> QED BY <1>3, <2>1, <2>3, <3>1, AccumulatePassed
    <2>4. CASE ev.type = "SYN" /\ Drop BY <1>3, <2>4 DEF Passed, OtherPassed
    <2>5. CASE IsKey(ev, D.key) /\ Drop BY <1>3, <2>2, <2>5 DEF Passed, KeyPassed, IsKey
    <2>6. CASE Forward(ev) /\ ~IsKey(ev, D.key) BY <1>3, <2>2, <2>6, SamePassed DEF IsKey
    <2> QED BY <1>3, <2>3, <2>4, <2>5, <2>6 DEF Rel2Scroll, Eats
  <1> QED BY <1>2, <1>3

LEMMA KalmanPassed ==
  ASSUME Typed, stack # <<>>, Kalman, F.kind = "Kalman"
  PROVE  Passed
  <1>1. ev \in Event BY CallFacts
  <1>2. CASE Forward(ev) BY <1>2, SameName, SamePassed
  <1>3. CASE ev.type = "ABS" /\ ev.code \in Axis /\ \E x \in scene.estimates : Forward([ev EXCEPT !.value = x])
    <2>1. PICK x \in scene.estimates : Forward([ev EXCEPT !.value = x]) BY <1>3
    <2>2. scene.estimates \subseteq Int
      BY CallFacts, ScenesAssumption DEF F, Filters, Typed, TypeOK
    <2> DEFINE e == [ev EXCEPT !.value = x]
    <2>3. e \in Event /\ e.type = ev.type /\ e.code = ev.code BY <1>1, <2>2 DEF Event
    <2> HIDE DEF e
    <2>4. Alike(e) BY <1>3, <2>3 DEF Alike, Shapers
    <2> QED BY <1>3, <2>1, <2>3, <2>4 DEF Passed, OtherPassed, e
  <1> QED BY <1>2, <1>3 DEF Kalman

LEMMA AveragePassed ==
  ASSUME Typed, stack # <<>>, WeightedAverageAbs, F.kind = "WeightedAverageAbs"
  PROVE  Passed
  <1>1. ev \in Event BY CallFacts
  <1> DEFINE c == SampleOf(ev)
             s == Added(S, c, ev.value)
             e == [ev EXCEPT !.value = Average(s, c)]
  <1>2. CASE Forward(ev) BY <1>2, SameName, SamePassed
  <1>3. CASE Sampled(ev) /\ (Never("trap") \/ Never("loop"))
    BY <1>3 DEF Passed, OtherPassed, Sampled
  <1>4. CASE Sampled(ev) /\ D.n # 0 /\ Turns(s, c) # {} /\ Forward(e)
    <2>1. c \in 0 .. 2 /\ ev.value \in Int
      BY <1>1, <1>4 DEF SampleOf, Sampled, Axis, REL_X, REL_Y, Event
    <2>2. D.n \in Nat \ {0} /\ Fit(Self, s) BY <1>4, <2>1, AddedFacts
    <2>3. Average(s, c) \in Int
      <3> HIDE DEF s, c
      <3> QED BY <1>4, <2>1, <2>2, AverageFacts
    <2>4. e \in Event /\ e.type = ev.type /\ e.code = ev.code
      <3> HIDE DEF s, c
      <3> QED BY <1>1, <2>3 DEF Event
    <2>5. ev.type = "ABS" BY <1>4 DEF Sampled
    <2> HIDE DEF s, c, e
    <2>6. Alike(e) BY <2>4, <2>5 DEF Alike, Shapers
    <2> QED BY <1>4, <2>4, <2>5, <2>6 DEF Passed, OtherPassed
  <1> HIDE DEF s, e
  <1> QED BY <1>2, <1>3, <1>4 DEF WeightedAverageAbs, s, e

\* Every step of a filter that makes no second one.
LEMMA SimplePassed ==
  ASSUME Typed, Modify, F.kind \in SimpleKinds, F.next # 0
  PROVE  Passed
  BY KindActions, PlainPassed, KeySubstitutePassed, KeyLockPassed, Btn2RelPassed, MovePassed,
     KalmanPassed, AveragePassed DEF SimpleKinds

---------------------------------------------------------------------------
(* Short sequences.                                                        *)

LEMMA AppendFacts ==
  ASSUME NEW T, NEW r \in Seq(T), NEW x \in T
  PROVE  /\ Append(r, x) \in Seq(T) /\ Append(r, x) # <<>>
         /\ Len(Append(r, x)) = Len(r) + 1 /\ Len(r) \in Nat
         /\ Append(r, x)[Len(r) + 1] = x
         /\ Len(r) = 1 => Append(r, x)[1] = r[1]
  <1>1. Append(r, x) \in Seq(T) BY AppendProperties
  <1>2. Append(r, x) # <<>> BY AppendProperties
  <1>3. Len(Append(r, x)) = Len(r) + 1 BY AppendProperties
  <1>4. Append(r, x)[Len(r) + 1] = x BY AppendProperties
  <1>5. Len(r) \in Nat BY LenProperties
  <1>6. ASSUME Len(r) = 1 PROVE Append(r, x)[1] = r[1]
    <2>1. 1 \in 1 .. Len(r) BY <1>6
    <2> QED BY <2>1, AppendProperties
  <1> QED BY <1>1, <1>2, <1>3, <1>4, <1>5, <1>6

LEMMA TailOfTwo ==
  ASSUME NEW T, NEW s \in Seq(T), Len(s) = 2
  PROVE  /\ Tail(s) \in Seq(T) /\ Len(Tail(s)) = 1 /\ Tail(s)[1] = s[2]
         /\ s[1] \in T /\ s[2] \in T /\ Tail(s) = <<s[2]>>
  <1> DEFINE t == Tail(s) x == s[2]
  <1>1. s # <<>> OBVIOUS
  <1>2. t \in Seq(T) BY <1>1, HeadTailProperties
  <1>3. Len(t) = Len(s) - 1 BY <1>1, HeadTailProperties
  <1>4. \A i \in 1 .. Len(t) : t[i] = s[i + 1] BY <1>1, HeadTailProperties
  <1>5. 1 \in 1 .. Len(s) /\ 2 \in 1 .. Len(s) OBVIOUS
  <1>6. s[1] \in T /\ x \in T BY <1>5, ElementOfSeq
  <1> HIDE DEF t
  <1>7. Len(t) = 1 BY <1>3
  <1>8. 1 \in 1 .. Len(t) BY <1>7
  <1>9. t[1] = s[1 + 1] BY <1>4, <1>8
  <1>10. t[1] = x BY <1>9
  <1> HIDE DEF x
  <1>11. <<x>> \in Seq(T) /\ Len(<<x>>) = 1 /\ <<x>>[1] = x BY <1>6
  <1>12. \A i \in 1 .. Len(t) : t[i] = <<x>>[i] BY <1>7, <1>10, <1>11
  <1>13. t = <<x>> BY <1>2, <1>7, <1>11, <1>12, SeqEqual
  <1> QED BY <1>2, <1>6, <1>7, <1>10, <1>13 DEF t, x

LEMMA PairFacts ==
  ASSUME NEW x, NEW y
  PROVE  <<x>> \o <<y>> = <<x, y>> /\ <<x, y>> # <<>> /\ Len(<<x, y>>) = 2 /\ Head(<<x, y>>) = x
  <1> DEFINE T == {x, y} s == <<x>> \o <<y>> p == <<x, y>>
  <1>1. <<x>> \in Seq(T) /\ <<y>> \in Seq(T) /\ p \in Seq(T) OBVIOUS
  <1>2. Len(<<x>>) = 1 /\ Len(<<y>>) = 1 /\ Len(p) = 2 /\ p[1] = x /\ p[2] = y
        /\ <<x>>[1] = x /\ <<y>>[1] = y OBVIOUS
  <1>3. s \in Seq(T) BY <1>1, ConcatProperties
  <1>4. Len(s) = Len(<<x>>) + Len(<<y>>) BY <1>1, ConcatProperties
  <1>5. \A i \in 1 .. Len(<<x>>) + Len(<<y>>) :
          s[i] = IF i <= Len(<<x>>) THEN <<x>>[i] ELSE <<y>>[i - Len(<<x>>)]
    BY <1>1, ConcatProperties
  <1>6. Len(s) = 2 BY <1>2, <1>4
  <1> HIDE DEF s
  <1>7. s[1] = x /\ s[2] = y BY <1>2, <1>5
  <1> HIDE DEF p
  <1>8. \A i \in 1 .. Len(s) : s[i] = p[i] BY <1>2, <1>6, <1>7
  <1>9. s = p BY <1>1, <1>2, <1>3, <1>6, <1>8, SeqEqual
  <1> QED BY <1>9 DEF s, p
---------------------------------------------------------------------------
(* What is remembered of devices and lines.                                *)

Positions == {s \in Seq(Int) : Len(s) <= 2}

PastTyped ==
  /\ held \in [Devices -> SUBSET Nat]
  /\ down \in [Filters -> SUBSET Nat]
  /\ pressure \in [Filters -> Int]
  /\ stroke \in [Devices -> [Axis -> Positions]]

LEMMA PressedFacts ==
  ASSUME NEW keys \in SUBSET Nat, NEW e \in Event
  PROVE  Pressed(keys, e) \in SUBSET Nat
  BY DEF Pressed, Event

LEMMA PositionsLen ==
  ASSUME NEW s \in Positions
  PROVE  s \in Seq(Int) /\ Len(s) \in 0 .. 2 /\ (s = <<>> <=> Len(s) = 0)
  <1> DEFINE n == Len(s)
  <1>1. s \in Seq(Int) /\ n <= 2 BY DEF Positions
  <1>2. n \in Nat BY <1>1, LenProperties
  <1>3. s = <<>> <=> n = 0 BY <1>1, EmptySeq
  <1> HIDE DEF n
  <1>4. n \in 0 .. 2 BY <1>1, <1>2
  <1> QED BY <1>1, <1>3, <1>4 DEF n

\* A position more, of which only the last two are kept.
LEMMA PositionsFacts ==
  ASSUME NEW s \in Positions, NEW x \in Int
  PROVE  LET t == Append(IF Len(s) = 2 THEN Tail(s) ELSE s, x) IN
         /\ t \in Positions /\ t # <<>> /\ t[Len(t)] = x
         /\ Len(t) = IF Len(s) = 2 THEN 2 ELSE Len(s) + 1
         /\ Len(t) = 2 => t[1] = s[Len(s)]
  <1> DEFINE r == IF Len(s) = 2 THEN Tail(s) ELSE s
             t == Append(r, x)
             n == Len(s)
             m == Len(r)
             k == Len(t)
  <1>1. s \in Seq(Int) /\ n \in 0 .. 2 BY PositionsLen
  <1>2. r \in Seq(Int) /\ m = (IF n = 2 THEN 1 ELSE n) /\ (m = 1 => r[1] = s[n])
    <2>1. CASE n = 2
      <3>1. Tail(s) \in Seq(Int) /\ Len(Tail(s)) = 1 /\ Tail(s)[1] = s[2]
        BY <1>1, <2>1, TailOfTwo
      <3>2. r = Tail(s) BY <2>1
      <3> HIDE DEF r
      <3> QED BY <2>1, <3>1, <3>2
    <2>2. CASE n # 2
      <3>1. r = s BY <2>2
      <3> HIDE DEF r
      <3> QED BY <1>1, <2>2, <3>1
    <2> QED BY <2>1, <2>2
  <1> HIDE DEF r
  <1>3. /\ t \in Seq(Int) /\ t # <<>> /\ k = m + 1
        /\ t[m + 1] = x
        /\ m = 1 => t[1] = r[1]
    <2>1. r \in Seq(Int) BY <1>2
    <2>2. t \in Seq(Int) /\ t # <<>> /\ t[m + 1] = x BY <2>1, AppendFacts
    <2>3. k = m + 1 BY <2>1, AppendFacts
    <2>4. m = 1 => t[1] = r[1] BY <2>1, AppendFacts
    <2> QED BY <2>2, <2>3, <2>4
  <1> HIDE DEF n, m, t
  <1>4. m \in 0 .. 1 BY <1>1, <1>2
  <1> HIDE DEF k
  <1>5. k \in 1 .. 2 /\ t[k] = x /\ k = (IF n = 2 THEN 2 ELSE n + 1) /\ (k = 2 => t[1] = s[n])
    BY <1>1, <1>2, <1>3, <1>4
  <1>6. t \in Positions
    <2>1. Len(t) = k /\ k <= 2 BY <1>5 DEF k
    <2> QED BY <1>3, <2>1 DEF Positions
  <1> QED BY <1>3, <1>5, <1>6 DEF k, t, r, n

LEMMA DrawnFacts ==
  ASSUME NEW p \in [Axis -> Positions], NEW e \in Event
  PROVE  Drawn(p, e) \in [Axis -> Positions]
  <1>1. <<>> \in Positions
    <2>1. <<>> \in Seq(Int) /\ Len(<<>>) = 0 OBVIOUS
    <2> QED BY <2>1 DEF Positions
  <1>2. CASE e.type = "ABS" /\ e.code \in Axis
    <2> DEFINE s == p[e.code]
               t == Append(IF Len(s) = 2 THEN Tail(s) ELSE s, e.value)
    <2>1. t \in Positions
      <3>1. s \in Positions /\ e.value \in Int BY <1>2 DEF Event
      <3> HIDE DEF s
      <3> QED BY <3>1, PositionsFacts
    <2>2. Drawn(p, e) = [p EXCEPT ![e.code] = t] BY <1>2 DEF Drawn
    <2> HIDE DEF t
    <2> QED BY <1>2, <2>1, <2>2
  <1>3. CASE ~(e.type = "ABS" /\ e.code \in Axis)
    BY <1>1, <1>3 DEF Drawn
  <1> QED BY <1>2, <1>3

LEMMA PastStep ==
  ASSUME Typed, PastTyped, [Next]_vars
  PROVE  PastTyped'
  <1>1. UNCHANGED scene BY StepFacts
  <1>2. Filters' = Filters /\ Devices' = Devices BY <1>1 DEF Filters, Devices
  <1>3. CASE UNCHANGED <<held, down, pressure, stroke>> BY <1>2, <1>3 DEF PastTyped
  <1>4. CASE Modify
    <2>1. stack # <<>> BY <1>4, KindActions
    <2>2. Self \in Filters /\ ev \in Event BY <2>1, CallFacts
    <2>3. UNCHANGED <<held, stroke>>
          /\ (UNCHANGED down \/ down' = [down EXCEPT ![Self] = Pressed(@, ev)])
          /\ (UNCHANGED pressure \/ pressure' = [pressure EXCEPT ![Self] = ev.value])
      BY <1>4 DEF Modify, Environment, PassOn, Commit, NoRepeat, KeySubstitute, KeyLock, Btn2Rel,
           SpeedMod, Rel2Scroll, Mirror, Rotate, Abs2RelSync, Abs2Rel, PressureToKey, ScaleAbs,
           Kalman, WeightedAverageAbs, Barrier, CopyToHandle, FilterToHandle
    <2>4. down'\in [Filters -> SUBSET Nat]
      <3>1. down[Self] \in SUBSET Nat BY <2>2 DEF PastTyped
      <3>2. Pressed(down[Self], ev) \in SUBSET Nat BY <2>2, <3>1, PressedFacts
      <3> QED BY <2>3, <3>2 DEF PastTyped
    <2>5. pressure' \in [Filters -> Int] BY <2>2, <2>3 DEF PastTyped, Event
    <2> QED BY <1>2, <2>3, <2>4, <2>5 DEF PastTyped
  <1>5. ASSUME NEW d \in Devices, Packet(d) PROVE PastTyped'
    BY <1>3, <1>5 DEF Packet
  <1>6. ASSUME NEW d \in Devices, Read(d) PROVE PastTyped'
    <2>1. ev' \in Event BY <1>6, ReadFacts
    <2>2. held' = [held EXCEPT ![d] = Pressed(@, ev')] /\ stroke' = [stroke EXCEPT ![d] = Drawn(@, ev')]
          /\ UNCHANGED <<down, pressure>>
      BY <1>6 DEF Read
    <2>3. Pressed(held[d], ev') \in SUBSET Nat BY <2>1, PressedFacts DEF PastTyped
    <2>4. Drawn(stroke[d], ev') \in [Axis -> Positions] BY <2>1, DrawnFacts DEF PastTyped
    <2> QED BY <1>2, <2>2, <2>3, <2>4 DEF PastTyped
  <1>7. CASE UNCHANGED vars BY <1>3, <1>7 DEF vars, history
  <1> QED BY <1>4, <1>5, <1>6, <1>7 DEF Next, Halted

LEMMA PastInit ==
  ASSUME Init
  PROVE  PastTyped
  <1>1. <<>> \in Positions
    <2>1. <<>> \in Seq(Int) /\ Len(<<>>) = 0 OBVIOUS
    <2> QED BY <2>1 DEF Positions
  <1> QED BY <1>1 DEF Init, PastTyped

---------------------------------------------------------------------------
(* Calls of which one waits for the other.                                 *)

LEMMA TwoCalls ==
  ASSUME Typed, stack # <<>>, Len(stack) = 2
  PROVE  /\ stack[2] \in FrameSet /\ Tail(stack) = <<stack[2]>> /\ Tail(stack) # <<>>
         /\ Drop => /\ stack' = <<stack[2]>> /\ stack' # <<>> /\ Len(stack') = 1
                    /\ Top' = stack[2] /\ Self' = stack[2].filter /\ ev' = ev
         /\ \A e : Forward(e) =>
              /\ stack' # <<>> /\ Len(stack') = 2 /\ stack'[2] = stack[2] /\ ev' = e
              /\ Top'.at = "modify" /\ Self' = F.next /\ Top'.ev = e
         /\ \A at : Never(at) => stack' # <<>> /\ Top'.at = at
  <1>1. stack \in Seq(FrameSet) BY DEF Typed, TypeOK, FrameSet
  <1> DEFINE r == stack[2] t == Tail(stack)
  <1>2. r \in FrameSet BY <1>1, TailOfTwo
  <1>3. t = <<r>> BY <1>1, TailOfTwo
  <1> HIDE DEF r, t
  <1>4. \A x : <<x>> # <<>> /\ Len(<<x>>) = 1 /\ Head(<<x>>) = x OBVIOUS
  <1>5. \A x : /\ <<x>> \o <<r>> # <<>> /\ Len(<<x>> \o <<r>>) = 2 /\ Head(<<x>> \o <<r>>) = x
               /\ (<<x>> \o <<r>>)[2] = r
    BY PairFacts
  <1>6. ASSUME Drop
        PROVE  /\ stack' = <<r>> /\ stack' # <<>> /\ Len(stack') = 1
               /\ Top' = r /\ Self' = r.filter /\ ev' = ev
    <2>1. stack' = <<r>> /\ ev' = ev BY <1>3, <1>6 DEF Drop, t
    <2> QED BY <1>4, <2>1 DEF Top, Self
  <1>7. ASSUME NEW e, Forward(e)
        PROVE  /\ stack' # <<>> /\ Len(stack') = 2 /\ stack'[2] = r /\ ev' = e
               /\ Top'.at = "modify" /\ Self' = F.next /\ Top'.ev = e
    <2> DEFINE x == Frame(F.next, "modify", e)
    <2>1. stack' = <<x>> \o <<r>> /\ ev' = e BY <1>3, <1>7 DEF Forward, t
    <2>2. x.filter = F.next /\ x.at = "modify" /\ x.ev = e BY DEF Frame
    <2> HIDE DEF x
    <2>3. Top' = x BY <1>5, <2>1 DEF Top
    <2>4. Self' = Top'.filter BY DEF Self
    <2> QED BY <1>5, <2>1, <2>2, <2>3, <2>4
  <1>8. ASSUME NEW at, Never(at)
        PROVE  stack' # <<>> /\ Top'.at = at
    <2> DEFINE x == [Top EXCEPT !.at = at]
    <2>1. stack' = <<x>> \o <<r>> BY <1>3, <1>8 DEF Never, t
    <2>2. x.at = at BY CallFacts DEF FrameSet
    <2> HIDE DEF x
    <2>3. Top' = x BY <1>5, <2>1 DEF Top
    <2> QED BY <1>5, <2>1, <2>2, <2>3
  <1> QED BY <1>2, <1>3, <1>4, <1>6, <1>7, <1>8 DEF r, t

\* The first call of the second filter.
LEMMA SecondCall ==
  ASSUME Typed, stack # <<>>, Len(stack) = 1, NEW to, NEW e, NEW at, SendThen(to, e, at)
  PROVE  /\ stack' # <<>> /\ Len(stack') = 2 /\ ev' = e
         /\ stack'[2] = [Top EXCEPT !.at = at] /\ stack'[2].filter = Self /\ stack'[2].at = at
         /\ stack'[2].ev = Top.ev
         /\ Top'.at = "modify" /\ Self' = to /\ Top'.ev = e
  <1> DEFINE x == Frame(to, "modify", e)
             y == [Top EXCEPT !.at = at]
  <1>1. Tail(stack) = <<>> BY OneCall
  <1>2. \A a, b : <<a, b>> \o <<>> = <<a, b>>
    <2> TAKE a, b
    <2>1. <<a, b>> \in Seq({a, b}) OBVIOUS
    <2> QED BY <2>1, ConcatEmptySeq
  <1>3. stack' = <<x, y>> /\ ev' = e BY <1>1, <1>2 DEF SendThen
  <1>4. x.filter = to /\ x.at = "modify" /\ x.ev = e BY DEF Frame
  <1>5. y.filter = Self /\ y.at = at /\ y.ev = Top.ev BY CallFacts DEF FrameSet, Self
  <1>6. Top' = Head(stack') /\ Self' = Top'.filter BY DEF Top, Self
  <1>7. y = [Top EXCEPT !.at = at] OBVIOUS
  <1> HIDE DEF x, y
  <1>8. Top' = x BY <1>3, <1>6
  <1>9. stack' # <<>> /\ Len(stack') = 2 /\ stack'[2] = y BY <1>3
  <1> QED BY <1>3, <1>4, <1>5, <1>6, <1>7, <1>8, <1>9

LEMMA ShortStack ==
  ASSUME Typed, stack # <<>>, Len(stack) = 1, NEW e, Forward(e)
  PROVE  Len(stack') = 1
  <1>1. Tail(stack) = <<>> BY OneCall
  <1>2. \A x : <<x>> \o <<>> = <<x>>
    <2> TAKE x
    <2>1. <<x>> \in Seq({x}) OBVIOUS
    <2> QED BY <2>1, ConcatEmptySeq
  <1>3. stack' = <<Frame(F.next, "modify", e)>> BY <1>1, <1>2 DEF Forward
  <1> QED BY <1>3

\* The elements decide what a sequence is one of.
LEMMA SeqByElements ==
  ASSUME NEW X, NEW Y, NEW s \in Seq(X), \A i \in DOMAIN s : s[i] \in Y
  PROVE  s \in Seq(Y)
  <1> DEFINE n == Len(s)
  <1>1. n \in Nat BY LenProperties
  <1>2. DOMAIN s = 1 .. n BY LenProperties
  <1>3. s \in [1 .. n -> X] BY LenProperties
  <1> HIDE DEF n
  <1>4. s \in [1 .. n -> Y] BY <1>2, <1>3
  <1> QED BY <1>1, <1>4, SeqDef

---------------------------------------------------------------------------
(* The key of a PressureToKey filter.                                      *)

PressureKinds == (SimpleKinds \ {"WeightedAverageAbs"}) \cup {"PressureToKey"}

Stranger(f, e) == ~IsKey(e, Data(f).key)
Strangers(f) == {e \in Event : Stranger(f, e)}

\* No other filter renames, locks or consumes the key, or makes it of another
\* one.
ItsOwn(f) ==
  \A g \in Filters :
    /\ \A x \in Nat : Renamed(g, x) = Data(f).key <=> x = Data(f).key
    /\ scene.filters[g].kind = "KeyLock" => Data(g).key # Data(f).key

\* A line with one such filter, whose key is nobody else's.
PressureLine ==
  /\ Chain(scene, PressureKinds)
  /\ \A f, g \in Kind("PressureToKey") : f = g
  /\ \A f \in Kind("PressureToKey") :
       /\ ItsOwn(f)
       /\ \A p \in scene.packets[1] : \A i \in DOMAIN p : Stranger(f, p[i])

Obeys(f, c) == Data(f).key \in down[c] <=> st[f].on
Told(f) == st[f].on <=> Reached(pressure[f], Data(f).treshold)

\* The event is on its way to the filter; the filter waits for the rest of the
\* line to have taken it, and may find it changed; the key is on its way.
Before(f, c) ==
  Len(stack) = 1 /\ Top.at = "modify" /\ Self <= f /\ Told(f) /\ Obeys(f, c) /\ Stranger(f, ev)
Within(f, c) ==
  /\ \/ Len(stack) = 2 /\ Top.at = "modify" /\ Self > f /\ stack[2].filter = f /\ stack[2].at = "sent"
     \/ Len(stack) = 1 /\ Self = f /\ Top.at = "sent"
  /\ Obeys(f, c) /\ Stranger(f, ev)
  /\ IF IsAbs(ev, ABS_PRESSURE) THEN pressure[f] = ev.value ELSE Told(f)
Behind(f, c) ==
  /\ Len(stack) = 1 /\ Top.at = "modify" /\ Self > f
  /\ ev = E("KEY", Data(f).key, IF st[f].on THEN 1 ELSE 0)
  /\ Told(f) /\ ~Obeys(f, c)

Pressing(f, c) ==
  /\ unread[1] \in Seq(Strangers(f))
  /\ stack = <<>> => Told(f) /\ Obeys(f, c)
  /\ stack # <<>> /\ Top.at # "trap" => Before(f, c) \/ Within(f, c) \/ Behind(f, c)

PressureInv == PressureLine => \A f \in Kind("PressureToKey"), c \in Kind("Commit") : Pressing(f, c)

LEMMA KeyEvent ==
  ASSUME NEW key, NEW v
  PROVE  LET e == E("KEY", key, v) IN
         e.type = "KEY" /\ e.code = key /\ e.value = v /\ [e EXCEPT !.code = key] = e
  BY DEF E

\* What the filters around it make of its key and of other events.
LEMMA AroundPressure ==
  ASSUME Typed, Modify, PressureLine, F.kind \notin {"PressureToKey", "Commit"},
         NEW f \in Kind("PressureToKey")
  PROVE  /\ Top.at = "modify" /\ UNCHANGED <<unread, down, pressure>> /\ st'[f] = st[f]
         /\ Stranger(f, ev) =>
              \/ Drop \/ Never("trap")
              \/ \E e : /\ Forward(e) /\ Stranger(f, e)
                        /\ IsAbs(e, ABS_PRESSURE) <=> IsAbs(ev, ABS_PRESSURE)
                        /\ IsAbs(e, ABS_PRESSURE) => e.value = ev.value
         /\ \A v \in {0, 1} : ev = E("KEY", Data(f).key, v) => Forward(ev)
  <1> DEFINE key == Data(f).key
  <1>1. stack # <<>> BY KindActions
  <1>2. F.kind \in SimpleKinds \ {"WeightedAverageAbs"} /\ F.next # 0
        /\ Self \in Filters /\ F = scene.filters[Self]
    BY <1>1, ChainFacts DEF PressureLine, PressureKinds
  <1>3. Syncs /\ Passed BY <1>2, SimpleSyncs, SimplePassed
  <1>4. f \in Filters /\ f # Self BY <1>2 DEF Kind
  <1>5. key \in Nat BY <1>4, DataFacts DEF Typed, TypeOK, Kind
  <1>6. /\ \A x \in Nat : Renamed(Self, x) = key <=> x = key
        /\ F.kind = "KeyLock" => D.key # key
    BY <1>2 DEF PressureLine, ItsOwn, D
  <1>7. ev \in Event BY <1>1, CallFacts
  <1>8. Top.at = "modify" /\ UNCHANGED <<unread, down, pressure>> /\ st'[f] = st[f]
    BY <1>3, <1>4 DEF Syncs, Environment
  <1>9. ASSUME Stranger(f, ev), ev.type = "KEY"
        PROVE  \/ Drop
               \/ \E e : Forward(e) /\ Stranger(f, e) /\ ~IsAbs(e, ABS_PRESSURE)
    <2>1. ev.code # key /\ ev.code \in Nat BY <1>7, <1>9 DEF Stranger, IsKey, Event
    <2>2. KeyPassed BY <1>3, <1>9 DEF Passed
    <2>3. CASE Forward(Unlock(ev, S)) \/ Forward(ev)
      <3>1. Unlock(ev, S).type = "KEY" /\ Unlock(ev, S).code = ev.code
        BY <1>7, <1>9 DEF Unlock, Event
      <3> QED BY <1>9, <2>1, <2>3, <3>1 DEF Stranger, IsKey, IsAbs
    <2>4. CASE Forward([ev EXCEPT !.code = Renamed(Self, ev.code)])
      <3> DEFINE y == Renamed(Self, ev.code)
                 e == [ev EXCEPT !.code = y]
      <3>1. y # key BY <1>6, <2>1
      <3> HIDE DEF y
      <3>2. e.type = "KEY" /\ e.code = y BY <1>7, <1>9 DEF Event
      <3>3. Forward(e) BY <2>4 DEF y
      <3> HIDE DEF e
      <3> QED BY <3>1, <3>2, <3>3 DEF Stranger, IsKey, IsAbs
    <2>5. CASE \E e \in Event : Forward(e) /\ e.type = "REL"
      BY <2>5 DEF Stranger, IsKey, IsAbs
    <2> QED BY <2>2, <2>3, <2>4, <2>5 DEF KeyPassed
  <1>10. ASSUME Stranger(f, ev), ev.type # "KEY"
         PROVE  \/ Drop \/ Never("trap")
                \/ \E e : /\ Forward(e) /\ Stranger(f, e)
                          /\ IsAbs(e, ABS_PRESSURE) <=> IsAbs(ev, ABS_PRESSURE)
                          /\ IsAbs(e, ABS_PRESSURE) => e.value = ev.value
    <2>1. OtherPassed BY <1>3, <1>10 DEF Passed
    <2>2. CASE \E e \in Event : Forward(e) /\ Alike(e)
      <3>1. PICK e \in Event : Forward(e) /\ Alike(e) BY <2>2
      <3>2. Stranger(f, e) BY <1>10, <3>1 DEF Alike, Stranger, IsKey
      <3>3. IsAbs(ev, ABS_PRESSURE) => e = ev
        BY <1>2, <3>1, PressureIsNoAxis DEF Alike, IsAbs
      <3>4. IsAbs(e, ABS_PRESSURE) => e = ev
        BY <1>2, <3>1, PressureIsNoAxis DEF Alike, IsAbs
      <3> QED BY <3>1, <3>2, <3>3, <3>4
    <2> QED BY <1>2, <2>1, <2>2 DEF OtherPassed
  <1>11. ASSUME NEW v \in {0, 1}, ev = E("KEY", key, v)
         PROVE  Forward(ev)
    <2>1. ev.type = "KEY" /\ ev.code = key /\ ev.value = v /\ [ev EXCEPT !.code = key] = ev
      BY <1>11, KeyEvent
    <2>2. KeyPassed BY <1>3, <2>1 DEF Passed
    <2>3. Renamed(Self, ev.code) = key /\ key # Gone BY <1>5, <1>6, <2>1 DEF Gone
    <2> QED BY <1>6, <2>1, <2>2, <2>3 DEF KeyPassed
  <1>12. Stranger(f, ev) => \/ Drop \/ Never("trap")
                            \/ \E e : /\ Forward(e) /\ Stranger(f, e)
                                      /\ IsAbs(e, ABS_PRESSURE) <=> IsAbs(ev, ABS_PRESSURE)
                                      /\ IsAbs(e, ABS_PRESSURE) => e.value = ev.value
    <2>1. ev.type = "KEY" => ~IsAbs(ev, ABS_PRESSURE) BY DEF IsAbs
    <2> QED BY <1>9, <1>10, <2>1
  <1> QED BY <1>8, <1>11, <1>12

LEMMA AroundKept ==
  ASSUME Typed, Modify, PressureLine, F.kind \notin {"PressureToKey", "Commit"}, UNCHANGED scene,
         NEW f \in Kind("PressureToKey"), NEW c \in Kind("Commit"), Pressing(f, c)
  PROVE  Pressing(f, c)'
  <1>1. stack # <<>> /\ f \in Filters /\ c \in Filters BY KindActions DEF Kind
  <1>2. Self # f /\ F.next = Self + 1 /\ Self \in Nat /\ f \in Nat
    BY <1>1, ChainFacts DEF PressureLine, Kind
  <1>3. /\ Top.at = "modify" /\ UNCHANGED <<unread, down, pressure>> /\ st'[f] = st[f]
        /\ Data(f)' = Data(f)
    BY <1>1, AroundPressure DEF Data
  <1>4. Told(f)' = Told(f) /\ Obeys(f, c)' = Obeys(f, c) /\ (\A e : Stranger(f, e)' = Stranger(f, e))
        /\ Strangers(f)' = Strangers(f)
    BY <1>3 DEF Told, Obeys, Stranger, Strangers
  <1>5. unread'[1] \in Seq(Strangers(f)') BY <1>3, <1>4 DEF Pressing
  <1>6. ASSUME stack' = <<>> => Told(f) /\ Obeys(f, c),
               stack' # <<>> /\ Top'.at # "trap" => (Before(f, c) \/ Within(f, c) \/ Behind(f, c))'
        PROVE  Pressing(f, c)'
    BY <1>4, <1>5, <1>6 DEF Pressing
  <1>7. CASE Before(f, c)
    <2>1. Len(stack) = 1 /\ Len(stack) <= 1 /\ Self <= f /\ Told(f) /\ Obeys(f, c) /\ Stranger(f, ev)
      BY <1>7 DEF Before
    <2>2. CASE Drop BY <1>1, <1>6, <2>1, <2>2, OneCall
    <2>3. CASE Never("trap") BY <1>1, <1>6, <2>1, <2>3, OneCall
    <2>4. CASE \E e : Forward(e) /\ Stranger(f, e)
      <3>1. PICK e : Forward(e) /\ Stranger(f, e) BY <2>4
      <3>2. stack' # <<>> /\ Len(stack') = 1 /\ ev' = e /\ Top'.at = "modify" /\ Self' = Self + 1
        BY <1>1, <1>2, <2>1, <3>1, OneCall, ShortStack
      <3>3. Before(f, c)' BY <1>2, <1>4, <2>1, <3>1, <3>2 DEF Before
      <3> QED BY <1>6, <3>2, <3>3
    <2> QED BY <2>1, <2>2, <2>3, <2>4, AroundPressure
  <1>8. CASE Within(f, c)
    <2>1. Len(stack) = 2 /\ Self > f /\ stack[2].filter = f /\ stack[2].at = "sent"
      BY <1>2, <1>3, <1>8 DEF Within
    <2>2. Obeys(f, c) /\ Stranger(f, ev)
          /\ IF IsAbs(ev, ABS_PRESSURE) THEN pressure[f] = ev.value ELSE Told(f)
      BY <1>8 DEF Within
    <2>3. CASE Drop
      <3>1. stack' # <<>> /\ Len(stack') = 1 /\ Self' = f /\ Top'.at = "sent" /\ ev' = ev
        BY <1>1, <2>1, <2>3, TwoCalls
      <3>2. Within(f, c)' BY <1>3, <1>4, <2>2, <3>1 DEF Within
      <3> QED BY <1>6, <3>1, <3>2
    <2>4. CASE Never("trap") BY <1>1, <1>6, <2>1, <2>4, TwoCalls
    <2>5. CASE \E e : /\ Forward(e) /\ Stranger(f, e)
                      /\ IsAbs(e, ABS_PRESSURE) <=> IsAbs(ev, ABS_PRESSURE)
                      /\ IsAbs(e, ABS_PRESSURE) => e.value = ev.value
      <3>1. PICK e : /\ Forward(e) /\ Stranger(f, e)
                     /\ IsAbs(e, ABS_PRESSURE) <=> IsAbs(ev, ABS_PRESSURE)
                     /\ IsAbs(e, ABS_PRESSURE) => e.value = ev.value
        BY <2>5
      <3>2. /\ stack' # <<>> /\ Len(stack') = 2 /\ stack'[2] = stack[2] /\ ev' = e
            /\ Top'.at = "modify" /\ Self' = Self + 1
        BY <1>1, <1>2, <2>1, <3>1, TwoCalls
      <3>3. Self' > f BY <1>2, <2>1, <3>2
      <3>4. IF IsAbs(ev', ABS_PRESSURE) THEN pressure'[f] = ev'.value ELSE Told(f)'
        BY <1>3, <1>4, <2>2, <3>1, <3>2
      <3>5. Within(f, c)' BY <1>4, <2>1, <2>2, <3>1, <3>2, <3>3, <3>4 DEF Within, IsAbs
      <3> QED BY <1>6, <3>2, <3>5
    <2> QED BY <2>2, <2>3, <2>4, <2>5, AroundPressure
  <1>9. CASE Behind(f, c)
    <2>1. /\ Len(stack) = 1 /\ Len(stack) <= 1 /\ Self > f
          /\ ev = E("KEY", Data(f).key, IF st[f].on THEN 1 ELSE 0)
          /\ Told(f) /\ ~Obeys(f, c)
      BY <1>9 DEF Behind
    <2>2. Forward(ev)
      <3>1. (IF st[f].on THEN 1 ELSE 0) \in {0, 1} OBVIOUS
      <3> QED BY <2>1, <3>1, AroundPressure
    <2>3. stack' # <<>> /\ Len(stack') = 1 /\ ev' = ev /\ Top'.at = "modify" /\ Self' = Self + 1
      BY <1>1, <1>2, <2>1, <2>2, OneCall, ShortStack
    <2>4. Self' > f BY <1>2, <2>1, <2>3
    <2>5. Behind(f, c)' BY <1>3, <1>4, <2>1, <2>3, <2>4 DEF Behind
    <2> QED BY <1>6, <2>3, <2>5
  <1> QED BY <1>1, <1>3, <1>7, <1>8, <1>9 DEF Pressing

LEMMA PressureCommit ==
  ASSUME Typed, PastTyped, Commit, F.kind = "Commit", PressureLine, UNCHANGED scene,
         NEW f \in Kind("PressureToKey"), NEW c \in Kind("Commit"), Pressing(f, c)
  PROVE  Pressing(f, c)'
  <1>1. stack # <<>> /\ Top.at = "modify" BY DEF Commit, At
  <1>2. f \in Filters /\ f # Self BY <1>1 DEF Kind, F
  <1>3. F.next = 0 /\ f <= Self /\ c = Self /\ f \in Nat /\ Self \in Filters /\ Self \in Nat
    BY <1>1, <1>2, ChainFacts DEF PressureLine
  <1>4. /\ Drop /\ UNCHANGED <<unread, st, pressure>>
        /\ down' = [down EXCEPT ![Self] = Pressed(@, ev)]
    BY <1>3 DEF Commit, ForwardIfAny, Environment
  <1>5. down'[c] = Pressed(down[c], ev) BY <1>3, <1>4 DEF PastTyped
  <1>6. Data(f)' = Data(f) BY DEF Data
  <1>7. Told(f)' = Told(f) /\ Strangers(f)' = Strangers(f) /\ \A e : Stranger(f, e)' = Stranger(f, e)
    BY <1>4, <1>6 DEF Told, Strangers, Stranger
  <1>8. unread'[1] \in Seq(Strangers(f)') BY <1>4, <1>7 DEF Pressing
  <1>9. ~Before(f, c) BY <1>2, <1>3 DEF Before
  <1>10. CASE Within(f, c)
    <2>1. Len(stack) = 2 /\ stack[2].filter = f /\ stack[2].at = "sent"
      BY <1>1, <1>10 DEF Within
    <2>2. stack' # <<>> /\ Len(stack') = 1 /\ Self' = f /\ Top'.at = "sent" /\ ev' = ev
      BY <1>1, <1>4, <2>1, TwoCalls
    <2>3. Obeys(f, c)'
      <3>1. Obeys(f, c) /\ Stranger(f, ev) BY <1>10 DEF Within
      <3>2. Data(f).key \in down'[c] <=> Data(f).key \in down[c]
        BY <1>5, <3>1 DEF Pressed, Stranger, IsKey
      <3> QED BY <1>4, <1>6, <3>1, <3>2 DEF Obeys
    <2>4. Within(f, c)' BY <1>4, <1>7, <1>10, <2>2, <2>3 DEF Within
    <2> QED BY <1>8, <2>2, <2>4 DEF Pressing
  <1>11. CASE Behind(f, c)
    <2>1. /\ Len(stack) = 1 /\ Told(f) /\ ~Obeys(f, c)
          /\ ev = E("KEY", Data(f).key, IF st[f].on THEN 1 ELSE 0)
      BY <1>11 DEF Behind
    <2>2. stack' = <<>> BY <1>1, <1>4, <2>1, OneCall
    <2>3. ev.type = "KEY" /\ ev.code = Data(f).key /\ ev.value = (IF st[f].on THEN 1 ELSE 0)
      BY <2>1, KeyEvent
    <2>4. Data(f).key \in down'[c] <=> st[f].on BY <1>5, <2>3 DEF Pressed
    <2>5. Obeys(f, c)' BY <1>4, <1>6, <2>4 DEF Obeys
    <2> QED BY <1>7, <1>8, <2>1, <2>2, <2>5 DEF Pressing
  <1> QED BY <1>1, <1>9, <1>10, <1>11 DEF Pressing

LEMMA TresholdFacts ==
  ASSUME Typed, NEW f \in Kind("PressureToKey")
  PROVE  Data(f).treshold \in Int
  <1>1. f \in Filters /\ scene.filters[f].kind = "PressureToKey" BY DEF Kind
  <1>2. LoadedFilter(scene.filters[f], Filters)
    BY <1>1, ScenesAssumption DEF Typed, TypeOK, Filters
  <1>3. Table["PressureToKey"] = PressureToKeyParams /\ "PressureToKey" \in DOMAIN Table BY DEF Table
  <1>4. DOMAIN PressureToKeyParams = 1 .. 2 BY DEF PressureToKeyParams
  <1>5. Fits(PressureToKeyParams[1], scene.filters[f].values[1])
    BY <1>1, <1>2, <1>3, <1>4 DEF LoadedFilter
  <1>6. scene.filters[f].values[1] \in Int32 BY <1>5 DEF Fits, PressureToKeyParams, Number, Param
  <1> QED BY <1>1, <1>6, IntMaxAssumption DEF Data, Alloc, PressureToKeyAlloc, Int32

LEMMA ReachedFacts ==
  ASSUME NEW v \in Int, NEW t \in Int
  PROVE  Reached(v, t) \in BOOLEAN /\ ~Reached(0, t)
  <1>1. CASE t < 0
    <2>1. Reached(v, t) \in BOOLEAN BY <1>1 DEF Reached
    <2>2. ~Reached(0, t) BY <1>1 DEF Reached
    <2> QED BY <2>1, <2>2
  <1>2. CASE ~(t < 0)
    <2>1. Reached(v, t) \in BOOLEAN BY <1>2 DEF Reached
    <2>2. ~Reached(0, t) BY <1>2 DEF Reached
    <2> QED BY <2>1, <2>2
  <1> QED BY <1>1, <1>2

LEMMA PressureStep ==
  ASSUME Typed, PastTyped, PressureToKey, F.kind = "PressureToKey", PressureLine, UNCHANGED scene,
         NEW f \in Kind("PressureToKey"), NEW c \in Kind("Commit"), Pressing(f, c)
  PROVE  Pressing(f, c)'
  <1>1. stack # <<>> /\ Top.at \in {"modify", "sent"} /\ UNCHANGED <<unread, down>>
    BY DEF PressureToKey, At, Environment
  <1>2. Self \in Filters /\ F = scene.filters[Self] /\ F.next = Self + 1 /\ Filters \subseteq Nat
    BY <1>1, ChainFacts DEF PressureLine
  <1>3. Self = f /\ f \in Filters /\ f \in Nat BY <1>2 DEF PressureLine, Kind
  <1>4. Data(f)' = Data(f) /\ D = Data(f) BY <1>3 DEF Data, D
  <1>5. Strangers(f)' = Strangers(f) /\ \A e : Stranger(f, e)' = Stranger(f, e)
    BY <1>4 DEF Strangers, Stranger
  <1>6. unread'[1] \in Seq(Strangers(f)') BY <1>1, <1>5 DEF Pressing
  <1>7. ev \in Event BY <1>1, CallFacts
  <1>8. CASE Top.at = "modify"
    <2>1. /\ SendThen(F.next, ev, "sent") /\ UNCHANGED st
          /\ pressure' = IF IsAbs(ev, ABS_PRESSURE) THEN [pressure EXCEPT ![Self] = ev.value]
                                                    ELSE pressure
      BY <1>8 DEF PressureToKey, At
    <2>2. Before(f, c) BY <1>1, <1>3, <1>8 DEF Pressing, Within, Behind
    <2>3. Len(stack) = 1 /\ Told(f) /\ Obeys(f, c) /\ Stranger(f, ev) BY <2>2 DEF Before
    <2>4. /\ stack' # <<>> /\ Len(stack') = 2 /\ stack'[2].filter = f /\ stack'[2].at = "sent"
          /\ ev' = ev /\ Top'.at = "modify" /\ Self' = f + 1
      BY <1>1, <1>2, <1>3, <2>1, <2>3, SecondCall
    <2>5. Self' > f BY <1>3, <2>4
    <2>6. Obeys(f, c)' BY <1>1, <1>4, <2>1, <2>3 DEF Obeys
    <2>7. IF IsAbs(ev', ABS_PRESSURE) THEN pressure'[f] = ev'.value ELSE Told(f)'
      <3>1. IsAbs(ev, ABS_PRESSURE) => pressure'[f] = ev.value
        BY <1>3, <2>1 DEF PastTyped
      <3>2. ~IsAbs(ev, ABS_PRESSURE) => pressure' = pressure BY <2>1
      <3> QED BY <1>4, <2>1, <2>3, <2>4, <3>1, <3>2 DEF Told
    <2>8. Within(f, c)' BY <1>5, <2>3, <2>4, <2>5, <2>6, <2>7 DEF Within
    <2> QED BY <1>6, <2>4, <2>8 DEF Pressing
  <1>9. CASE Top.at = "sent"
    <2>1. UNCHANGED pressure
          /\ \/ /\ IsAbs(ev, ABS_PRESSURE) /\ Crossed(ev, S)
                /\ Forward(E("KEY", D.key, IF S.on THEN 0 ELSE 1))
                /\ Keep([S EXCEPT !.on = ~@])
             \/ ~(IsAbs(ev, ABS_PRESSURE) /\ Crossed(ev, S)) /\ Drop /\ UNCHANGED st
      BY <1>9 DEF PressureToKey, At
    <2>2. Within(f, c) /\ Len(stack) = 1 BY <1>1, <1>3, <1>9 DEF Pressing, Before, Within, Behind
    <2>3. Obeys(f, c) /\ IF IsAbs(ev, ABS_PRESSURE) THEN pressure[f] = ev.value ELSE Told(f)
      BY <2>2 DEF Within
    <2> DEFINE up == Reached(pressure[f], Data(f).treshold)
    <2>4. S = st[f] /\ S.on \in BOOLEAN BY <1>1, <1>3, KeepFacts
    <2>5. IsAbs(ev, ABS_PRESSURE) => (Crossed(ev, S) <=> up # S.on)
      BY <1>4, <2>3 DEF Crossed
    <2>6. up \in BOOLEAN
      <3>1. Data(f).treshold \in Int BY TresholdFacts
      <3>2. pressure[f] \in Int BY <1>3 DEF PastTyped
      <3> QED BY <3>1, <3>2, ReachedFacts
    <2>7. Told(f) <=> st[f].on = up BY <2>4, <2>6 DEF Told
    <2>8. CASE /\ IsAbs(ev, ABS_PRESSURE) /\ Crossed(ev, S)
               /\ Forward(E("KEY", D.key, IF S.on THEN 0 ELSE 1))
               /\ Keep([S EXCEPT !.on = ~@])
      <3>1. st'[f].on = ~S.on
        <4>1. [S EXCEPT !.on = ~@].on = ~S.on BY <1>1, KeepFacts DEF State
        <4> QED BY <1>1, <1>3, <2>8, <4>1, KeepFacts
      <3>2. /\ stack' # <<>> /\ Len(stack') = 1 /\ Top'.at = "modify" /\ Self' = f + 1
            /\ ev' = E("KEY", D.key, IF S.on THEN 0 ELSE 1)
        BY <1>1, <1>2, <1>3, <2>2, <2>8, OneCall, ShortStack
      <3>3. ev' = E("KEY", Data(f)'.key, IF st'[f].on THEN 1 ELSE 0)
        BY <1>4, <2>4, <3>1, <3>2
      <3>4. up # S.on BY <2>5, <2>8
      <3>5. Told(f)' BY <1>4, <2>1, <2>4, <2>6, <3>1, <3>4 DEF Told
      <3>6. ~Obeys(f, c)' BY <1>1, <1>4, <2>3, <2>4, <3>1 DEF Obeys
      <3>7. Self' > f BY <1>3, <3>2
      <3>8. Behind(f, c)' BY <3>2, <3>3, <3>5, <3>6, <3>7 DEF Behind
      <3> QED BY <1>6, <3>2, <3>8 DEF Pressing
    <2>9. CASE ~(IsAbs(ev, ABS_PRESSURE) /\ Crossed(ev, S)) /\ Drop /\ UNCHANGED st
      <3>1. stack' = <<>> BY <1>1, <2>2, <2>9, OneCall
      <3>2. Told(f)
        <4>1. CASE IsAbs(ev, ABS_PRESSURE)
          <5>1. ~(up # S.on) BY <2>5, <2>9, <4>1
          <5> QED BY <2>4, <2>7, <5>1
        <4>2. CASE ~IsAbs(ev, ABS_PRESSURE) BY <2>3, <4>2
        <4> QED BY <4>1, <4>2
      <3>3. Told(f)' = Told(f) BY <1>4, <2>1, <2>9 DEF Told
      <3>4. Obeys(f, c)' = Obeys(f, c) BY <1>1, <1>4, <2>9 DEF Obeys
      <3> QED BY <1>6, <2>3, <3>1, <3>2, <3>3, <3>4 DEF Pressing
    <2> QED BY <2>1, <2>8, <2>9
  <1> QED BY <1>1, <1>8, <1>9

LEMMA PressureDevice ==
  ASSUME Typed, PressureLine, NEW d \in Devices, Packet(d) \/ Read(d), UNCHANGED scene,
         NEW f \in Kind("PressureToKey"), NEW c \in Kind("Commit"), Pressing(f, c)
  PROVE  Pressing(f, c)'
  <1>1. d = 1 /\ 1 \in Devices /\ scene.roots[1] = 1 /\ f \in Nat \ {0} /\ scene \in Scenes
    BY DEF Devices, Filters, Kind, PressureLine, Chain, Typed, TypeOK
  <1>2. UNCHANGED <<st, down, pressure>> /\ stack = <<>> BY DEF Packet, Read
  <1>3. /\ Told(f)' = Told(f) /\ Obeys(f, c)' = Obeys(f, c) /\ Strangers(f)' = Strangers(f)
        /\ \A e : Stranger(f, e)' = Stranger(f, e)
    BY <1>2 DEF Told, Obeys, Strangers, Stranger, Data
  <1>4. unread \in [Devices -> Seq(Event)] BY DEF Typed, TypeOK
  <1>5. unread[1] \in Seq(Strangers(f)) /\ Told(f) /\ Obeys(f, c) BY <1>2 DEF Pressing
  <1>6. CASE Packet(1)
    <2>1. PICK p \in scene.packets[1] : unread' = [unread EXCEPT ![1] = Append(p, Syn)]
      BY <1>6 DEF Packet
    <2>2. p \in Seq(Event) BY <1>1, ScenesAssumption DEF Devices
    <2>3. \A i \in DOMAIN p : p[i] \in Strangers(f)
      <3>1. \A i \in DOMAIN p : Stranger(f, p[i]) BY DEF PressureLine
      <3>2. \A i \in DOMAIN p : p[i] \in Event BY <2>2, LenProperties
      <3> QED BY <3>1, <3>2 DEF Strangers
    <2>4. p \in Seq(Strangers(f)) BY <2>2, <2>3, SeqByElements
    <2>5. Syn \in Strangers(f) BY SynIs DEF Strangers, Stranger, IsKey
    <2>6. Append(p, Syn) \in Seq(Strangers(f)) BY <2>4, <2>5, AppendProperties
    <2>7. unread'[1] = Append(p, Syn) BY <1>1, <1>4, <2>1
    <2>8. stack' = <<>> BY <1>6 DEF Packet
    <2> QED BY <1>3, <1>5, <2>6, <2>7, <2>8 DEF Pressing
  <1>7. CASE Read(1)
    <2>1. /\ unread[1] # <<>> /\ ev' = Head(unread[1])
          /\ unread' = [unread EXCEPT ![1] = Tail(@)]
          /\ stack' # <<>> /\ Top'.at = "modify" /\ Self' = 1
      BY <1>1, <1>7, ReadFacts
    <2>2. Len(stack') = 1
      <3>1. stack' = <<Frame(scene.roots[1], "modify", ev')>> BY <1>7 DEF Read
      <3> QED BY <3>1
    <2>3. ev' \in Strangers(f) /\ Tail(unread[1]) \in Seq(Strangers(f))
      BY <1>5, <2>1, HeadTailProperties
    <2>4. unread'[1] = Tail(unread[1]) BY <1>1, <1>4, <2>1
    <2>5. 1 <= f BY <1>1
    <2>6. Stranger(f, ev') BY <2>3 DEF Strangers
    <2>7. Before(f, c)' BY <1>3, <1>5, <2>1, <2>2, <2>5, <2>6 DEF Before
    <2> QED BY <1>3, <2>1, <2>3, <2>4, <2>7 DEF Pressing
  <1> QED BY <1>1, <1>6, <1>7

LEMMA PressureNext ==
  ASSUME Typed, PastTyped, PressureInv, [Next]_vars
  PROVE  PressureInv'
  <1>1. UNCHANGED scene BY StepFacts
  <1>2. /\ Filters' = Filters /\ (\A k : Kind(k)' = Kind(k))
        /\ \A f : Data(f)' = Data(f) /\ \A x : Renamed(f, x)' = Renamed(f, x)
    BY <1>1 DEF Filters, Kind, Data, Renamed
  <1>3. PressureLine' = PressureLine BY <1>1, <1>2 DEF PressureLine, ItsOwn, Stranger
  <1> SUFFICES ASSUME PressureLine, NEW f \in Kind("PressureToKey"), NEW c \in Kind("Commit")
               PROVE  Pressing(f, c)'
    BY <1>2, <1>3 DEF PressureInv
  <1>4. Pressing(f, c) BY DEF PressureInv
  <1>5. CASE Modify
    <2>1. CASE F.kind = "Commit"
      <3>1. Commit BY <1>5, <2>1, KindActions
      <3> QED BY <1>1, <1>4, <2>1, <3>1, PressureCommit
    <2>2. CASE F.kind = "PressureToKey"
      <3>1. PressureToKey BY <1>5, <2>2, KindActions
      <3> QED BY <1>1, <1>4, <2>2, <3>1, PressureStep
    <2>3. CASE F.kind \notin {"PressureToKey", "Commit"}
      BY <1>1, <1>4, <1>5, <2>3, AroundKept
    <2> QED BY <2>1, <2>2, <2>3
  <1>6. ASSUME NEW d \in Devices, Packet(d) \/ Read(d) PROVE Pressing(f, c)'
    BY <1>1, <1>4, <1>6, PressureDevice
  <1>7. CASE UNCHANGED vars
    <2>1. UNCHANGED <<scene, st, ev, stack, unread, down, pressure>> BY <1>7 DEF vars, history
    <2>2. Top' = Top /\ Self' = Self BY <2>1 DEF Top, Self
    <2>3. /\ Told(f)' = Told(f) /\ Obeys(f, c)' = Obeys(f, c) /\ Strangers(f)' = Strangers(f)
          /\ \A e : Stranger(f, e)' = Stranger(f, e)
      BY <1>2, <2>1 DEF Told, Obeys, Strangers, Stranger
    <2>4. Before(f, c)' = Before(f, c) /\ Within(f, c)' = Within(f, c) /\ Behind(f, c)' = Behind(f, c)
      BY <1>2, <2>1, <2>2, <2>3 DEF Before, Within, Behind
    <2> QED BY <1>4, <2>1, <2>2, <2>3, <2>4 DEF Pressing
  <1> QED BY <1>5, <1>6, <1>7 DEF Next, Halted

LEMMA PressureInit ==
  ASSUME Init, Typed
  PROVE  PressureInv
  <1> SUFFICES ASSUME PressureLine, NEW f \in Kind("PressureToKey"), NEW c \in Kind("Commit")
               PROVE  Pressing(f, c)
    BY DEF PressureInv
  <1>1. 1 \in Devices /\ f \in Filters /\ c \in Filters
    BY DEF PressureLine, Chain, Devices, Kind
  <1>2. unread[1] = <<>> /\ stack = <<>> /\ down[c] = {} /\ pressure[f] = 0
    BY <1>1 DEF Init
  <1>3. ~st[f].on
    <2>1. st[f] = Initial BY <1>1 DEF Init, Kind
    <2> QED BY <2>1 DEF Initial
  <1>4. ~Reached(0, Data(f).treshold) BY TresholdFacts, ReachedFacts
  <1>5. unread[1] \in Seq(Strangers(f)) BY <1>2
  <1> QED BY <1>2, <1>3, <1>4, <1>5 DEF Pressing, Told, Obeys

\* Of a line with one PressureToKey filter, whose key is used by no other
\* filter and not sent by the device, and of any packets: when a packet has
\* gone through, the key is down exactly when the pressure is beyond the
\* threshold (KeyFollowsPressure; pressure_to_key.c:71-102), although the filters
\* behind it change the event that it looks at afterwards.
THEOREM PressureObeyed == Spec => [](PressureLine => KeyFollowsPressure)
  <1>1. Init => Typed /\ PastTyped /\ PressureInv BY InitFacts, PastInit, PressureInit
  <1>2. Typed /\ PastTyped /\ PressureInv /\ [Next]_vars => (Typed /\ PastTyped /\ PressureInv)'
    BY StepFacts, PastStep, PressureNext
  <1>3. PressureInv => (PressureLine => KeyFollowsPressure)
    BY DEF PressureInv, KeyFollowsPressure, Quiet, Pressing, Told, Obeys
  <1> QED BY <1>1, <1>2, <1>3, PTL DEF Spec

---------------------------------------------------------------------------
(* Strokes of a pen.                                                       *)

\* Filters that leave positions alone and make no movement of keys.
PenKinds == {"NoRepeat", "KeySubstitute", "KeyLock", "SpeedMod", "Rel2Scroll", "Dump",
             "GetFromHandle", "Commit"}

\* One device that sends positions and keys; the first filter follows them.
PenLine ==
  /\ scene.roots = <<1>> /\ 1 \in Filters /\ 0 \notin Filters
  /\ scene.filters[1].kind \in {"Abs2Rel", "Kalman"}
  /\ \A f \in Filters \ {1} : scene.filters[f].kind \in PenKinds
  /\ \A f \in Filters : scene.filters[f].next # 1
  /\ \A p \in scene.packets[1] : \A i \in DOMAIN p : p[i].type \in {"ABS", "KEY"}

PenSends == {e \in Event : e.type \in {"ABS", "KEY"} \/ e = Syn}

Pen == stroke[1]

\* What the first filter knows of the stroke: Abs2Rel how many positions it
\* has of it (two are enough), the last one and the distance to it; Kalman
\* whether it has one.
Followed(s, p) ==
  \A a \in Axis :
    /\ scene.filters[1].kind = "Abs2Rel" =>
         /\ s.seen[a] = Len(p[a])
         /\ p[a] # <<>> => s.last[a] = p[a][Len(p[a])]
         /\ Len(p[a]) = 2 => s.acc[a] = p[a][2] - p[a][1]
    /\ scene.filters[1].kind = "Kalman" =>
         /\ s.seen[a] = 0 <=> p[a] = <<>>
         /\ s.seen[a] \in {0, 1}

\* What it may send.
Steady(e) ==
  /\ scene.filters[1].kind = "Abs2Rel" =>
       \/ e.type = "KEY"
       \/ /\ e.type = "SYN"
          /\ e.code \in Axis /\ e.value # 0 =>
               Len(Pen[e.code]) = 2 /\ e.value = Pen[e.code][2] - Pen[e.code][1]
  /\ scene.filters[1].kind = "Kalman" =>
       \/ e.type \in {"KEY", "SYN"}
       \/ /\ e.type = "ABS"
          /\ e.code \in Axis =>
               Pen[e.code] # <<>> /\ (Len(Pen[e.code]) = 1 => e.value = Pen[e.code][1])

\* An event has been read, and the first filter not seen it yet; it sends the
\* axes and the sync one after the other; an event is on its way behind it.
Arriving ==
  /\ Len(stack) = 1 /\ Self = 1 /\ Top.at = "modify" /\ ev \in PenSends
  /\ \E p \in [Axis -> Positions] : Pen = Drawn(p, ev) /\ Followed(st[1], p)
Syncing(r) == r.filter = 1 /\ r.at \in {"y", "syn", "again"} /\ ev.type = "SYN"
              /\ scene.filters[1].kind = "Abs2Rel"
Sending == Len(stack) = 1 /\ Syncing(Top) /\ Followed(st[1], Pen) /\ Steady(ev)
Passing ==
  /\ Len(stack) = 1 \/ (Len(stack) = 2 /\ Syncing(stack[2]))
  /\ Self # 1 /\ Top.at = "modify" /\ Followed(st[1], Pen) /\ Steady(ev)

Following ==
  /\ unread[1] \in Seq(PenSends)
  /\ stack = <<>> => Followed(st[1], Pen)
  /\ stack # <<>> /\ Top.at # "trap" => Arriving \/ Sending \/ Passing

PenInv == PenLine => Following

\* Other events do not change the stroke, and a pen up ends it.
LEMMA NotDrawn ==
  ASSUME NEW p, NEW e
  PROVE  /\ e.type # "ABS" => Drawn(p, e) = p
         /\ e.type = "ABS" /\ e.code \notin Axis =>
              Drawn(p, e) = IF IsAbs(e, ABS_PRESSURE) /\ e.value = 0 THEN [a \in Axis |-> <<>>] ELSE p
  BY DEF Drawn, IsAbs

LEMMA DrawnAxis ==
  ASSUME NEW p \in [Axis -> Positions], NEW e \in Event, e.type = "ABS", e.code \in Axis
  PROVE  LET q == Drawn(p, e)
             c == e.code
         IN  /\ \A a \in Axis : a # c => q[a] = p[a]
             /\ q[c] # <<>> /\ q[c][Len(q[c])] = e.value
             /\ Len(q[c]) = IF Len(p[c]) = 2 THEN 2 ELSE Len(p[c]) + 1
             /\ Len(q[c]) = 2 => q[c][1] = p[c][Len(p[c])]
  <1> DEFINE s == p[e.code]
             t == Append(IF Len(s) = 2 THEN Tail(s) ELSE s, e.value)
  <1>1. Drawn(p, e) = [p EXCEPT ![e.code] = t] BY DEF Drawn
  <1>2. s \in Positions /\ e.value \in Int BY DEF Event
  <1>3. /\ t # <<>> /\ t[Len(t)] = e.value
        /\ Len(t) = IF Len(s) = 2 THEN 2 ELSE Len(s) + 1
        /\ Len(t) = 2 => t[1] = s[Len(s)]
    <2> HIDE DEF s
    <2> QED BY <1>2, PositionsFacts
  <1> HIDE DEF t
  <1>4. Drawn(p, e)[e.code] = t /\ \A a \in Axis : a # e.code => Drawn(p, e)[a] = p[a]
    BY <1>1
  <1> QED BY <1>3, <1>4

\* Abs2Rel takes a position.
LEMMA TakePosition ==
  ASSUME NEW s \in State, NEW p \in [Axis -> Positions], Followed(s, p),
         scene.filters[1].kind = "Abs2Rel",
         NEW e \in Event, e.type = "ABS", e.code \in Axis
  PROVE  Followed([s EXCEPT !.acc[e.code] = e.value - s.last[e.code],
                            !.last[e.code] = e.value,
                            !.seen[e.code] = IF @ < 2 THEN @ + 1 ELSE @], Drawn(p, e))
  <1> DEFINE c == e.code
             q == Drawn(p, e)
             r == [s EXCEPT !.acc[c] = e.value - s.last[c],
                            !.last[c] = e.value,
                            !.seen[c] = IF @ < 2 THEN @ + 1 ELSE @]
  <1>1. /\ r.acc = [s.acc EXCEPT ![c] = e.value - s.last[c]]
        /\ r.last = [s.last EXCEPT ![c] = e.value]
        /\ r.seen = [s.seen EXCEPT ![c] = IF @ < 2 THEN @ + 1 ELSE @]
    BY DEF State
  <1>2. s.acc \in [Axis -> Int] /\ s.last \in [Axis -> Int] /\ s.seen \in [Axis -> 0 .. 2]
    BY DEF State
  <1> HIDE DEF r
  <1>3. /\ \A a \in Axis : a # c => q[a] = p[a]
        /\ q[c] # <<>> /\ q[c][Len(q[c])] = e.value
        /\ Len(q[c]) = IF Len(p[c]) = 2 THEN 2 ELSE Len(p[c]) + 1
        /\ Len(q[c]) = 2 => q[c][1] = p[c][Len(p[c])]
    BY DrawnAxis
  <1>4. /\ \A a \in Axis : a # c => r.acc[a] = s.acc[a] /\ r.last[a] = s.last[a] /\ r.seen[a] = s.seen[a]
        /\ r.acc[c] = e.value - s.last[c] /\ r.last[c] = e.value
        /\ r.seen[c] = IF s.seen[c] < 2 THEN s.seen[c] + 1 ELSE s.seen[c]
    BY <1>1, <1>2
  <1>5. \A a \in Axis : p[a] \in Positions OBVIOUS
  <1>6. Len(p[c]) \in 0 .. 2 /\ (p[c] = <<>> <=> Len(p[c]) = 0) BY <1>5, PositionsLen
  <1>7. s.seen[c] = Len(p[c]) /\ (p[c] # <<>> => s.last[c] = p[c][Len(p[c])])
    BY DEF Followed
  <1>8. /\ r.seen[c] = Len(q[c])
        /\ q[c] # <<>> => r.last[c] = q[c][Len(q[c])]
        /\ Len(q[c]) = 2 => r.acc[c] = q[c][2] - q[c][1]
    <2> DEFINE n == Len(p[c]) m == Len(q[c])
    <2>1. n \in 0 .. 2 /\ m = (IF n = 2 THEN 2 ELSE n + 1) /\ r.seen[c] = (IF n < 2 THEN n + 1 ELSE n)
      BY <1>3, <1>4, <1>6, <1>7
    <2>2. r.seen[c] = m
      <3> HIDE DEF n, m
      <3> QED BY <2>1
    <2>3. m = 2 => n # 0
      <3> HIDE DEF n, m
      <3> QED BY <2>1
    <2>4. m = 2 => q[c][2] = e.value /\ q[c][1] = s.last[c] BY <1>3, <1>6, <1>7, <2>3
    <2> QED BY <1>3, <1>4, <2>2, <2>4
  <1>9. Followed(r, q) BY <1>3, <1>4, <1>8 DEF Followed
  <1> QED BY <1>9 DEF r

\* A pen that is up has no positions.
LEMMA LiftPen ==
  ASSUME NEW s \in State
  PROVE  Followed(PenUp(s), [a \in Axis |-> <<>>])
  <1>1. PenUp(s).seen = Initial.seen BY DEF PenUp, State
  <1>2. \A a \in Axis : PenUp(s).seen[a] = 0 BY <1>1 DEF Initial
  <1>3. Len(<<>>) = 0 OBVIOUS
  <1> QED BY <1>2, <1>3 DEF Followed

LEMMA PenFacts ==
  ASSUME Typed, PenLine, stack # <<>>
  PROVE  /\ 1 \in Devices /\ 1 \in Filters /\ st[1] \in State
         /\ Self \in Filters /\ F = scene.filters[Self] /\ F.next # 1
         /\ Self # 1 => F.kind \in PenKinds
         /\ Self = 1 => F.kind \in {"Abs2Rel", "Kalman"} /\ S = st[1] /\ F.next # 0
  <1>1. Self \in Filters /\ F = scene.filters[Self] BY CallFacts DEF F
  <1>2. 1 \in Devices /\ 1 \in Filters /\ st[1] \in State
    BY DEF PenLine, Devices, Typed, TypeOK
  <1>3. F.kind \in {"Abs2Rel", "Kalman"} => F.next # 0 BY NextFacts DEF PenLine
  <1> QED BY <1>1, <1>2, <1>3 DEF PenLine, S

\* What the filters behind the first one do.
LEMMA PenPassed ==
  ASSUME Typed, Modify, PenLine, Self # 1, Steady(ev)
  PROVE  /\ Top.at = "modify" /\ UNCHANGED <<unread, stroke>> /\ st'[1] = st[1]
         /\ \/ Drop \/ Never("trap")
            \/ \E e : Forward(e) /\ Steady(e) /\ (ev.type = "SYN" => e = ev)
  <1>1. stack # <<>> BY KindActions
  <1>2. F.kind \in PenKinds /\ Self \in Filters /\ 1 \in Filters BY <1>1, PenFacts
  <1>3. ev \in Event BY <1>1, CallFacts
  <1>4. CASE F.kind \in {"Dump", "GetFromHandle", "Commit"}
    <2>1. PassOn \/ Commit BY <1>4, KindActions
    <2>2. Top.at = "modify" /\ UNCHANGED <<unread, stroke, st>>
      BY <2>1 DEF PassOn, Commit, At, Environment
    <2>3. Forward(ev) \/ Drop BY <2>1 DEF PassOn, Commit, ForwardIfAny
    <2> QED BY <2>2, <2>3
  <1>5. CASE F.kind \in PenKinds \ {"Dump", "GetFromHandle", "Commit"}
    <2>1. F.next # 0
      <3>1. F.next \in Filters BY <1>1, <1>5, NextFacts
      <3> QED BY <3>1 DEF PenLine
    <2>2. F.kind \in SimpleKinds BY <1>5 DEF PenKinds, SimpleKinds
    <2>3. Syncs /\ Passed BY <2>1, <2>2, SimpleSyncs, SimplePassed
    <2>4. Top.at = "modify" /\ UNCHANGED <<unread, stroke>> /\ st'[1] = st[1]
      BY <1>2, <2>3 DEF Syncs, Environment
    <2>5. CASE ev.type = "KEY"
      <3>1. KeyPassed BY <2>3, <2>5 DEF Passed
      <3>2. \A e : e.type = "KEY" => Steady(e) BY DEF PenLine, Steady
      <3>3. \A x : [ev EXCEPT !.code = x].type = "KEY" BY <1>3, <2>5 DEF Event
      <3>4. Unlock(ev, S).type = "KEY" BY <1>3, <2>5 DEF Event, Unlock
      <3>5. F.kind # "Btn2Rel" BY <1>5 DEF PenKinds
      <3> QED BY <2>4, <2>5, <3>1, <3>2, <3>3, <3>4, <3>5 DEF KeyPassed
    <2>6. CASE ev.type # "KEY"
      <3>1. OtherPassed BY <2>3, <2>6 DEF Passed
      <3>2. ev.type \in {"SYN", "ABS"} BY <2>6 DEF Steady, PenLine
      <3>3. F.kind \notin Shapers /\ F.kind # "WeightedAverageAbs" BY <1>5 DEF PenKinds, Shapers
      <3>4. \A e : Alike(e) => e = ev BY <3>2, <3>3 DEF Alike
      <3> QED BY <2>4, <3>1, <3>3, <3>4 DEF OtherPassed
    <2> QED BY <2>5, <2>6
  <1> QED BY <1>2, <1>4, <1>5

\* They pass the event on with the stroke as it was.
LEMMA PenBehind ==
  ASSUME Typed, Modify, PenLine, UNCHANGED scene, Following, Self # 1
  PROVE  Following'
  <1>1. stack # <<>> BY KindActions
  <1>2. F.kind \in PenKinds /\ F.next # 1 BY <1>1, PenFacts
  <1>3. Top.at = "modify"
    BY <1>2, KindActions DEF PenKinds
  <1>4. ~Arriving /\ ~Sending BY DEF Arriving, Sending, Syncing, Self
  <1>5. Passing BY <1>1, <1>3, <1>4 DEF Following
  <1>6. /\ UNCHANGED <<unread, stroke>> /\ st'[1] = st[1]
        /\ \/ Drop \/ Never("trap")
           \/ \E e : Forward(e) /\ Steady(e) /\ (ev.type = "SYN" => e = ev)
    BY <1>5, PenPassed DEF Passing
  <1>7. /\ Pen' = Pen /\ (\A s, p : Followed(s, p)' <=> Followed(s, p)) /\ (\A e : Steady(e)' = Steady(e))
        /\ PenSends' = PenSends
    BY <1>6 DEF Pen, Followed, Steady, PenSends
  <1>8. Followed(st[1], Pen) /\ Followed(st[1], Pen)' /\ Steady(ev) BY <1>5, <1>6, <1>7 DEF Passing, Followed
  <1>9. ASSUME stack' # <<>> => Top'.at = "trap" \/ Sending' \/ Passing'
        PROVE  Following'
    BY <1>6, <1>7, <1>8, <1>9 DEF Following
  <1>10. CASE Len(stack) = 1
    <2>1. Len(stack) <= 1 BY <1>10
    <2>2. CASE Drop BY <1>1, <1>9, <2>1, <2>2, OneCall
    <2>3. CASE Never("trap") BY <1>1, <1>9, <2>1, <2>3, OneCall
    <2>4. CASE \E e : Forward(e) /\ Steady(e)
      <3>1. PICK e : Forward(e) /\ Steady(e) BY <2>4
      <3>2. Len(stack') = 1 /\ ev' = e /\ Top'.at = "modify" /\ Self' # 1
        BY <1>1, <1>2, <1>10, <2>1, <3>1, OneCall, ShortStack
      <3>3. Steady(ev)' BY <1>7, <3>1, <3>2 DEF Steady
      <3>4. Passing' BY <1>8, <3>2, <3>3 DEF Passing
      <3> QED BY <1>9, <3>4
    <2> QED BY <1>6, <2>2, <2>3, <2>4
  <1>11. CASE Len(stack) = 2 /\ Syncing(stack[2])
    <2>1. CASE Drop
      <3>1. Len(stack') = 1 /\ Top' = stack[2] /\ ev' = ev
        BY <1>1, <1>11, <2>1, TwoCalls
      <3>2. Syncing(Top)' BY <1>11, <3>1 DEF Syncing
      <3>3. Steady(ev)' BY <1>7, <1>8, <3>1 DEF Steady
      <3>4. Sending' BY <1>8, <3>1, <3>2, <3>3 DEF Sending
      <3> QED BY <1>9, <3>4
    <2>2. CASE Never("trap") BY <1>1, <1>9, <1>11, <2>2, TwoCalls
    <2>3. CASE \E e : Forward(e) /\ Steady(e) /\ (ev.type = "SYN" => e = ev)
      <3>1. Forward(ev) BY <1>11, <2>3 DEF Syncing
      <3>2. Len(stack') = 2 /\ stack'[2] = stack[2] /\ ev' = ev /\ Top'.at = "modify" /\ Self' # 1
        BY <1>1, <1>2, <1>11, <3>1, TwoCalls
      <3>3. Steady(ev)' BY <1>7, <1>8, <3>2 DEF Steady
      <3>4. Syncing(stack[2])' BY <1>11, <3>2 DEF Syncing
      <3>5. Passing' BY <1>8, <3>2, <3>3, <3>4 DEF Passing
      <3> QED BY <1>9, <3>5
    <2> QED BY <1>6, <2>1, <2>2, <2>3
  <1> QED BY <1>5, <1>10, <1>11 DEF Passing

\* A step within the only call.
LEMMA StayAt ==
  ASSUME Typed, stack # <<>>, Len(stack) = 1, NEW at, Never(at)
  PROVE  Len(stack') = 1 /\ stack' # <<>> /\ Self' = Self /\ Top'.at = at /\ ev' = ev
  <1> DEFINE x == [Top EXCEPT !.at = at]
  <1>1. Tail(stack) = <<>> BY OneCall
  <1>2. x.filter = Self /\ x.at = at BY CallFacts DEF FrameSet, Self
  <1>3. stack' = <<x>> \o <<>> /\ ev' = ev BY <1>1 DEF Never
  <1> HIDE DEF x
  <1>4. <<x>> \in Seq({x}) OBVIOUS
  <1>5. stack' = <<x>> BY <1>3, <1>4, ConcatEmptySeq
  <1>6. Head(<<x>>) = x /\ Len(<<x>>) = 1 /\ <<x>> # <<>> OBVIOUS
  <1>7. Top' = Head(stack') /\ Self' = Top'.filter BY DEF Top, Self
  <1> QED BY <1>2, <1>3, <1>5, <1>6, <1>7

\* What the first filter does to a call of its own.
LEMMA FirstFrame ==
  ASSUME Typed, PenLine, UNCHANGED <<scene, unread, stroke>>, stack # <<>>, Self = 1, Following,
         Top.at # "trap",
         NEW p, Followed(st'[1], p), p = Pen,
         \/ Drop
         \/ \E e : Forward(e) /\ Steady(e)
         \/ \E e, at : SendThen(F.next, e, at) /\ Steady(e) /\ e.type = "SYN" /\ at \in {"y", "syn", "again"}
                       /\ F.kind = "Abs2Rel"
         \/ \E at : Never(at) /\ Steady(ev) /\ ev.type = "SYN" /\ at \in {"y", "syn", "again"}
                    /\ F.kind = "Abs2Rel"
  PROVE  Following'
  <1>1. Len(stack) = 1 /\ Len(stack) <= 1
    <2>1. Arriving \/ Sending BY DEF Following, Passing
    <2>2. Len(stack) = 1 BY <2>1 DEF Arriving, Sending
    <2> QED BY <2>2
  <1>2. /\ Pen' = Pen /\ (\A s, q : Followed(s, q)' <=> Followed(s, q)) /\ (\A e : Steady(e)' = Steady(e))
        /\ PenSends' = PenSends
    BY DEF Pen, Followed, Steady, PenSends
  <1>3. F = scene.filters[1] /\ F.next # 1 BY PenFacts
  <1>4. Followed(st[1], Pen)' BY <1>2 DEF Followed
  <1>5. ASSUME stack' # <<>> => Sending' \/ Passing'
        PROVE  Following'
    BY <1>2, <1>4, <1>5 DEF Following
  <1>6. CASE Drop BY <1>1, <1>5, <1>6, OneCall
  <1>7. CASE \E e : Forward(e) /\ Steady(e)
    <2>1. PICK e : Forward(e) /\ Steady(e) BY <1>7
    <2>2. Len(stack') = 1 /\ ev' = e /\ Top'.at = "modify" /\ Self' # 1
      BY <1>1, <1>3, <2>1, OneCall, ShortStack
    <2>3. Steady(ev)' BY <1>2, <2>1, <2>2 DEF Steady
    <2>4. Passing' BY <1>4, <2>2, <2>3 DEF Passing
    <2> QED BY <1>5, <2>4
  <1>8. CASE \E e, at : SendThen(F.next, e, at) /\ Steady(e) /\ e.type = "SYN"
                        /\ at \in {"y", "syn", "again"} /\ F.kind = "Abs2Rel"
    <2>1. PICK e, at : SendThen(F.next, e, at) /\ Steady(e) /\ e.type = "SYN"
                       /\ at \in {"y", "syn", "again"} /\ F.kind = "Abs2Rel"
      BY <1>8
    <2>2. /\ Len(stack') = 2 /\ ev' = e /\ stack'[2].filter = 1 /\ stack'[2].at = at
          /\ Top'.at = "modify" /\ Self' # 1
      <3>1. SendThen(F.next, e, at) BY <2>1
      <3>2. stack'[2].filter = Self /\ stack'[2].at = at BY <1>1, <3>1, SecondCall
      <3>3. Len(stack') = 2 /\ ev' = e /\ Top'.at = "modify" /\ Self' = F.next
        BY <1>1, <3>1, SecondCall
      <3> QED BY <1>3, <3>2, <3>3
    <2>3. Steady(ev)' BY <1>2, <2>1, <2>2 DEF Steady
    <2>4. Syncing(stack[2])' BY <1>3, <2>1, <2>2 DEF Syncing
    <2>5. Passing' BY <1>4, <2>2, <2>3, <2>4 DEF Passing
    <2> QED BY <1>5, <2>5
  <1>9. CASE \E at : Never(at) /\ Steady(ev) /\ ev.type = "SYN" /\ at \in {"y", "syn", "again"}
                     /\ F.kind = "Abs2Rel"
    <2>1. PICK at : Never(at) /\ Steady(ev) /\ ev.type = "SYN" /\ at \in {"y", "syn", "again"}
                    /\ F.kind = "Abs2Rel"
      BY <1>9
    <2>2. Len(stack') = 1 /\ Self' = 1 /\ Top'.at = at /\ ev' = ev BY <1>1, <2>1, StayAt
    <2>3. Steady(ev)' BY <1>2, <2>1, <2>2 DEF Steady
    <2>4. Top'.filter = 1 BY <2>2 DEF Self
    <2>5. Syncing(Top)' BY <1>3, <2>1, <2>2, <2>4 DEF Syncing
    <2>6. Sending' BY <1>4, <2>2, <2>3, <2>5 DEF Sending
    <2> QED BY <1>5, <2>6
  <1> QED BY <1>6, <1>7, <1>8, <1>9

\* The stroke as the first filter finds it.
LEMMA PenSync ==
  ASSUME Typed, PenLine, Following, stack # <<>>, Self = 1, Top.at # "trap",
         Top.at # "modify" \/ ev.type = "SYN"
  PROVE  ev.type = "SYN" /\ Followed(st[1], Pen) /\ (F.kind = "Abs2Rel" => Steady(ev))
  <1>1. Arriving \/ Sending BY DEF Following, Passing
  <1>2. CASE Sending BY <1>2 DEF Sending, Syncing
  <1>3. CASE Arriving
    <2>1. ev = Syn BY <1>3 DEF Arriving, PenSends
    <2>2. ev.type = "SYN" /\ ev.value = 0 BY <2>1, SynIs
    <2>3. PICK p \in [Axis -> Positions] : Pen = Drawn(p, ev) /\ Followed(st[1], p)
      BY <1>3 DEF Arriving
    <2>4. Pen = p BY <2>2, <2>3, NotDrawn
    <2>5. F.kind = "Abs2Rel" => Steady(ev) BY <2>2, PenFacts DEF Steady
    <2> QED BY <2>2, <2>3, <2>4, <2>5
  <1> QED BY <1>1, <1>2, <1>3

\* The movement of an axis is the distance of its two positions.
LEMMA AxisSent ==
  ASSUME Typed, PenLine, PastTyped, stack # <<>>, Self = 1, F.kind = "Abs2Rel",
         Followed(st[1], Pen), ev.type = "SYN", Steady(ev), NEW axis \in Axis, NEW at, SendAxis(axis, at)
  PROVE  \/ \E e : SendThen(F.next, e, at) /\ Steady(e) /\ e.type = "SYN"
         \/ Never(at)
  <1>1. CASE S.seen[axis] = 2
    <2> DEFINE e == [ev EXCEPT !.code = axis, !.value = S.acc[axis]]
    <2>1. SendThen(F.next, e, at) BY <1>1 DEF SendAxis
    <2>2. e.type = "SYN" /\ e.code = axis /\ e.value = S.acc[axis] BY CallFacts DEF Event
    <2>3. S = st[1] /\ F = scene.filters[1] BY PenFacts
    <2>4. Len(Pen[axis]) = 2 /\ S.acc[axis] = Pen[axis][2] - Pen[axis][1]
      BY <1>1, <2>3 DEF Followed
    <2> HIDE DEF e
    <2>5. Steady(e) BY <2>2, <2>3, <2>4 DEF Steady
    <2> QED BY <2>1, <2>2, <2>5
  <1>2. CASE S.seen[axis] # 2 BY <1>2 DEF SendAxis, Never
  <1> QED BY <1>1, <1>2

LEMMA PenAbs2RelSync ==
  ASSUME Typed, PastTyped, PenLine, Abs2RelSync, Self = 1, F.kind = "Abs2Rel", Following, UNCHANGED scene
  PROVE  Following'
  <1>1. stack # <<>> /\ Top.at # "trap" /\ UNCHANGED <<unread, stroke, st>>
    BY DEF Abs2RelSync, At, Environment
  <1>2. ev.type = "SYN" /\ Followed(st[1], Pen) /\ Steady(ev)
    BY <1>1, PenSync DEF Abs2RelSync, At
  <1>3. {REL_X, REL_Y} \subseteq Axis BY DEF Axis
  <1>4. CASE \E axis \in Axis, at \in {"y", "syn"} : SendAxis(axis, at)
    BY <1>1, <1>2, <1>4, AxisSent, FirstFrame
  <1>5. CASE SendThen(F.next, [ev EXCEPT !.type = "SYN", !.value = 0], "again")
    <2> DEFINE e == [ev EXCEPT !.type = "SYN", !.value = 0]
    <2>1. e.type = "SYN" /\ e.value = 0 BY <1>1, CallFacts DEF Event
    <2> HIDE DEF e
    <2>2. Steady(e) BY <1>1, <2>1, PenFacts DEF Steady
    <2> QED BY <1>1, <1>2, <1>5, <2>1, <2>2, FirstFrame DEF e
  <1> QED BY <1>3, <1>4, <1>5 DEF Abs2RelSync

LEMMA PenAbs2Rel ==
  ASSUME Typed, PastTyped, PenLine, Abs2Rel, Self = 1, F.kind = "Abs2Rel", Following, UNCHANGED scene
  PROVE  Following'
  <1>1. stack # <<>> /\ Top.at # "trap" /\ UNCHANGED <<unread, stroke>>
        /\ (Top.at = "modify" => ev.type # "SYN") /\ Top.at \in {"modify", "again"}
    BY DEF Abs2Rel, At, Environment
  <1>2. ev \in Event /\ F = scene.filters[1] /\ S = st[1] /\ st[1] \in State /\ 1 \in Filters
    BY <1>1, CallFacts, PenFacts
  <1>3. CASE ev.type = "SYN"
    <2>1. Followed(st[1], Pen) /\ Steady(ev) BY <1>1, <1>3, PenSync
    <2>2. Forward(ev) /\ UNCHANGED st BY <1>3 DEF Abs2Rel
    <2> QED BY <1>1, <2>1, <2>2, FirstFrame
  <1>4. CASE ev.type # "SYN"
    <2>1. Arriving BY <1>1, <1>4 DEF Following, Sending, Syncing, Passing
    <2>2. PICK p \in [Axis -> Positions] : Pen = Drawn(p, ev) /\ Followed(st[1], p)
      BY <2>1 DEF Arriving
    <2>3. CASE ev.type # "ABS"
      <3>1. Pen = p BY <2>2, <2>3, NotDrawn
      <3>2. ev.type = "KEY" BY <1>4, <2>1, <2>3, SynIs DEF Arriving, PenSends
      <3>3. Steady(ev) BY <1>2, <3>2 DEF Steady
      <3>4. Forward(ev) /\ UNCHANGED st BY <2>3 DEF Abs2Rel
      <3> QED BY <1>1, <2>2, <3>1, <3>3, <3>4, FirstFrame
    <2>4. CASE ev.type = "ABS" /\ ev.code \in Axis
      <3> DEFINE s == [S EXCEPT !.acc[ev.code] = ev.value - S.last[ev.code],
                                !.last[ev.code] = ev.value,
                                !.seen[ev.code] = IF @ < 2 THEN @ + 1 ELSE @]
      <3>1. Drop /\ Keep(s) BY <2>4 DEF Abs2Rel
      <3>2. Followed(s, Drawn(p, ev)) BY <1>2, <2>2, <2>4, TakePosition
      <3> HIDE DEF s
      <3>3. st'[1] = s BY <1>1, <3>1, KeepFacts
      <3> QED BY <1>1, <2>2, <3>1, <3>2, <3>3, FirstFrame
    <2>5. CASE ev.type = "ABS" /\ ev.code \notin Axis
      <3>1. Drop /\ Keep(IF IsAbs(ev, ABS_PRESSURE) /\ ev.value = 0 THEN PenUp(S) ELSE S)
        BY <2>5 DEF Abs2Rel
      <3>2. st'[1] = IF IsAbs(ev, ABS_PRESSURE) /\ ev.value = 0 THEN PenUp(S) ELSE S
        BY <1>1, <3>1, KeepFacts
      <3>3. Pen = IF IsAbs(ev, ABS_PRESSURE) /\ ev.value = 0 THEN [a \in Axis |-> <<>>] ELSE p
        BY <2>2, <2>5, NotDrawn
      <3>4. Followed(st'[1], Pen)
        BY <1>2, <2>2, <3>2, <3>3, LiftPen
      <3> QED BY <1>1, <3>1, <3>4, FirstFrame
    <2> QED BY <2>3, <2>4, <2>5
  <1> QED BY <1>3, <1>4

LEMMA PenKalman ==
  ASSUME Typed, PastTyped, PenLine, Kalman, Self = 1, F.kind = "Kalman", Following, UNCHANGED scene
  PROVE  Following'
  <1>1. stack # <<>> /\ Top.at = "modify" /\ Top.at # "trap" /\ UNCHANGED <<unread, stroke>>
    BY DEF Kalman, At, Environment
  <1>2. ev \in Event /\ F = scene.filters[1] /\ S = st[1] /\ st[1] \in State /\ 1 \in Filters
    BY <1>1, CallFacts, PenFacts
  <1>3. Arriving BY <1>1, <1>2 DEF Following, Sending, Syncing, Passing
  <1>4. PICK p \in [Axis -> Positions] : Pen = Drawn(p, ev) /\ Followed(st[1], p)
    BY <1>3 DEF Arriving
  <1>5. ev.type \in {"ABS", "KEY", "SYN"} BY <1>3, SynIs DEF Arriving, PenSends
  <1>6. CASE ev.type = "ABS" /\ ev.code \in Axis
    <2> DEFINE c == ev.code
               s == [S EXCEPT !.seen[c] = 1]
               q == Drawn(p, ev)
    <2>1. /\ \A a \in Axis : a # c => q[a] = p[a]
          /\ q[c] # <<>> /\ q[c][Len(q[c])] = ev.value
          /\ Len(q[c]) = IF Len(p[c]) = 2 THEN 2 ELSE Len(p[c]) + 1
      BY <1>2, <1>6, DrawnAxis
    <2>2. p[c] \in Positions BY <1>6
    <2>3. Len(p[c]) \in 0 .. 2 /\ (p[c] = <<>> <=> Len(p[c]) = 0) BY <2>2, PositionsLen
    <2>4. Len(q[c]) = 1 => S.seen[c] = 0 /\ q[c][1] = ev.value
      <3>1. Len(q[c]) = 1 => Len(p[c]) = 0
        <4> DEFINE n == Len(p[c]) m == Len(q[c])
        <4>1. n \in 0 .. 2 /\ m = (IF n = 2 THEN 2 ELSE n + 1) BY <2>1, <2>3
        <4> HIDE DEF n, m
        <4>2. m = 1 => n = 0 BY <4>1
        <4> QED BY <4>2 DEF n, m
      <3>2. S.seen[c] = 0 <=> p[c] = <<>> BY <1>2, <1>4, <1>6 DEF Followed
      <3> QED BY <2>1, <2>3, <3>1, <3>2
    <2>5. /\ s.seen[c] = 1 /\ \A a \in Axis : a # c => s.seen[a] = S.seen[a]
      BY <1>2, <1>6 DEF State
    <2>6. Pen = q BY <1>4
    <2>7. Keep(s) /\ (\/ S.seen[c] = 0 /\ Forward(ev)
                      \/ S.seen[c] = 1 /\ \E x \in scene.estimates : Forward([ev EXCEPT !.value = x]))
      BY <1>6, PressureIsNoAxis DEF Kalman, IsAbs
    <2> HIDE DEF s, q
    <2>8. Followed(s, q) BY <1>2, <1>4, <1>6, <2>1, <2>5 DEF Followed
    <2>9. st'[1] = s BY <1>1, <2>7, KeepFacts
    <2>10. \E e : Forward(e) /\ Steady(e)
      <3>1. ASSUME NEW e, e.type = "ABS", e.code = c, Len(q[c]) = 1 => e.value = ev.value
            PROVE  Steady(e)
        BY <1>2, <1>6, <2>1, <2>4, <2>6, <3>1 DEF Steady
      <3>2. \A x : [ev EXCEPT !.value = x].type = "ABS" /\ [ev EXCEPT !.value = x].code = c
        BY <1>2, <1>6 DEF Event
      <3>3. CASE S.seen[c] = 0 /\ Forward(ev) BY <1>6, <3>1, <3>3
      <3>4. CASE S.seen[c] = 1 /\ \E x \in scene.estimates : Forward([ev EXCEPT !.value = x])
        <4>1. PICK x \in scene.estimates : Forward([ev EXCEPT !.value = x]) BY <3>4
        <4>2. Len(q[c]) # 1 BY <2>4, <3>4
        <4> QED BY <3>1, <3>2, <4>1, <4>2
      <3> QED BY <2>7, <3>3, <3>4
    <2> QED BY <1>1, <2>6, <2>8, <2>9, <2>10, FirstFrame
  <1>7. CASE ~(ev.type = "ABS" /\ ev.code \in Axis)
    <2>1. Steady(ev) BY <1>2, <1>5, <1>7 DEF Steady
    <2>2. Forward(ev) BY <1>7 DEF Kalman
    <2>3. CASE IsAbs(ev, ABS_PRESSURE) /\ ev.value = 0
      <3>1. Keep(PenUp(S)) BY <1>7, <2>3 DEF Kalman
      <3>2. st'[1] = PenUp(S) BY <1>1, <3>1, KeepFacts
      <3>3. Pen = [a \in Axis |-> <<>>]
        BY <1>4, <1>7, <2>3, NotDrawn DEF IsAbs
      <3>4. Followed(st'[1], Pen) BY <1>2, <3>2, <3>3, LiftPen
      <3> QED BY <1>1, <2>1, <2>2, <3>4, FirstFrame
    <2>4. CASE ~(IsAbs(ev, ABS_PRESSURE) /\ ev.value = 0)
      <3>1. UNCHANGED st BY <1>7, <2>4 DEF Kalman
      <3>2. Pen = p BY <1>4, <1>7, <2>4, NotDrawn
      <3>3. Followed(st'[1], Pen) BY <1>4, <3>1, <3>2
      <3> QED BY <1>1, <2>1, <2>2, <3>3, FirstFrame
    <2> QED BY <2>3, <2>4
  <1> QED BY <1>6, <1>7

LEMMA PenDevice ==
  ASSUME Typed, PastTyped, PenLine, Following, NEW d \in Devices, Packet(d) \/ Read(d), UNCHANGED scene
  PROVE  Following'
  <1>1. d = 1 /\ 1 \in Devices /\ scene.roots[1] = 1 BY DEF Devices, PenLine
  <1>2. UNCHANGED st /\ stack = <<>> BY DEF Packet, Read
  <1>3. unread \in [Devices -> Seq(Event)] /\ unread[1] \in Seq(PenSends)
    BY DEF Typed, TypeOK, Following
  <1>4. Followed(st[1], Pen) BY <1>2 DEF Following
  <1>5. \A s, q : Followed(s, q)' <=> Followed(s, q) BY DEF Followed
  <1>6. CASE Packet(1)
    <2>1. PICK p \in scene.packets[1] : unread' = [unread EXCEPT ![1] = Append(p, Syn)]
      BY <1>6 DEF Packet
    <2>2. p \in Seq(Event) BY <1>1, ScenesAssumption DEF Devices, Typed, TypeOK
    <2>3. \A i \in DOMAIN p : p[i] \in PenSends
      <3>1. \A i \in DOMAIN p : p[i].type \in {"ABS", "KEY"} BY DEF PenLine
      <3>2. \A i \in DOMAIN p : p[i] \in Event BY <2>2, LenProperties
      <3> QED BY <3>1, <3>2 DEF PenSends
    <2>4. p \in Seq(PenSends) BY <2>2, <2>3, SeqByElements
    <2>5. Syn \in PenSends BY SynIs DEF PenSends
    <2>6. Append(p, Syn) \in Seq(PenSends) BY <2>4, <2>5, AppendProperties
    <2>7. unread'[1] = Append(p, Syn) BY <1>1, <1>3, <2>1
    <2>8. stack' = <<>> /\ UNCHANGED stroke BY <1>2, <1>6 DEF Packet
    <2>9. PenSends' = PenSends BY DEF PenSends
    <2>10. Followed(st[1], Pen)' BY <1>2, <1>4, <2>8 DEF Followed, Pen
    <2> QED BY <2>6, <2>7, <2>8, <2>9, <2>10 DEF Following
  <1>7. CASE Read(1)
    <2>1. /\ unread[1] # <<>> /\ ev' = Head(unread[1])
          /\ unread' = [unread EXCEPT ![1] = Tail(@)]
          /\ stack' # <<>> /\ Top'.at = "modify" /\ Self' = 1
      BY <1>1, <1>7, ReadFacts
    <2>2. Len(stack') = 1
      <3>1. stack' = <<Frame(scene.roots[1], "modify", ev')>> BY <1>7 DEF Read
      <3> QED BY <3>1
    <2>3. ev' \in PenSends /\ Tail(unread[1]) \in Seq(PenSends)
      BY <1>3, <2>1, HeadTailProperties
    <2>4. unread'[1] = Tail(unread[1]) BY <1>1, <1>3, <2>1
    <2>5. stroke \in [Devices -> [Axis -> Positions]] BY DEF PastTyped
    <2>6. Pen' = Drawn(Pen, ev') /\ Pen \in [Axis -> Positions]
      BY <1>1, <1>7, <2>5 DEF Read, Pen
    <2>7. Followed(st[1], Pen)' <=> Followed(st[1], Pen') BY <1>2 DEF Followed
    <2>8. Arriving'
      <3>1. Followed(st'[1], Pen)
        BY <1>2, <1>4
      <3>2. \A q : Followed(st[1], q)' <=> Followed(st'[1], q') BY DEF Followed
      <3>3. PenSends' = PenSends /\ Axis' = Axis /\ Positions' = Positions BY DEF PenSends
      <3>4. \E p \in [Axis -> Positions] : Pen' = Drawn(p, ev') /\ Followed(st'[1], p)
        BY <2>6, <3>1
      <3>5. (\E p \in [Axis -> Positions] : Pen = Drawn(p, ev) /\ Followed(st[1], p))'
        BY <3>4 DEF Followed, Drawn
      <3> QED BY <2>1, <2>2, <2>3, <3>3, <3>5 DEF Arriving
    <2>9. PenSends' = PenSends BY DEF PenSends
    <2> QED BY <2>1, <2>3, <2>4, <2>8, <2>9 DEF Following
  <1> QED BY <1>1, <1>6, <1>7

LEMMA PenNext ==
  ASSUME Typed, PastTyped, PenInv, [Next]_vars
  PROVE  PenInv'
  <1>1. UNCHANGED scene BY StepFacts
  <1>2. PenLine' = PenLine BY <1>1 DEF PenLine, Filters
  <1> SUFFICES ASSUME PenLine PROVE Following' BY <1>2 DEF PenInv
  <1>3. Following BY DEF PenInv
  <1>4. CASE Modify
    <2>1. stack # <<>> BY <1>4, KindActions
    <2>2. CASE Self # 1 BY <1>1, <1>3, <1>4, <2>2, PenBehind
    <2>3. CASE Self = 1
      <3>1. F.kind \in {"Abs2Rel", "Kalman"} BY <2>1, <2>3, PenFacts
      <3>2. \/ (Abs2RelSync \/ Abs2Rel) /\ F.kind = "Abs2Rel"
            \/ Kalman /\ F.kind = "Kalman"
        BY <1>4, <3>1, KindActions
      <3> QED BY <1>1, <1>3, <2>3, <3>2, PenAbs2RelSync, PenAbs2Rel, PenKalman
    <2> QED BY <2>2, <2>3
  <1>5. ASSUME NEW d \in Devices, Packet(d) \/ Read(d) PROVE Following'
    BY <1>1, <1>3, <1>5, PenDevice
  <1>6. CASE UNCHANGED vars
    <2>1. UNCHANGED <<scene, st, ev, stack, unread, stroke>> BY <1>6 DEF vars, history
    <2>2. Top' = Top /\ Self' = Self /\ Pen' = Pen BY <2>1 DEF Top, Self, Pen
    <2>3. /\ (\A s, p : Followed(s, p)' <=> Followed(s, p)) /\ (\A e : Steady(e)' = Steady(e))
          /\ PenSends' = PenSends /\ (\A r : Syncing(r)' = Syncing(r))
      BY <2>1, <2>2 DEF Followed, Steady, PenSends, Syncing
    <2>4. Arriving' = Arriving BY <2>1, <2>2, <2>3 DEF Arriving, Followed
    <2>5. Sending' = Sending BY <2>1, <2>2 DEF Sending, Followed, Steady, Syncing
    <2>6. Passing' = Passing BY <2>1, <2>2 DEF Passing, Followed, Steady, Syncing
    <2> QED BY <1>3, <2>1, <2>2, <2>3, <2>4, <2>5, <2>6 DEF Following, Followed
  <1> QED BY <1>4, <1>5, <1>6 DEF Next, Halted

LEMMA PenInit ==
  ASSUME Init
  PROVE  PenInv
  <1> SUFFICES ASSUME PenLine PROVE Following BY DEF PenInv
  <1>1. 1 \in Devices /\ 1 \in Filters BY DEF PenLine, Devices
  <1>2. unread[1] = <<>> /\ stack = <<>> /\ Pen = [a \in Axis |-> <<>>]
    BY <1>1 DEF Init, Pen
  <1>3. st[1] = Initial BY <1>1 DEF Init, PenLine
  <1>4. \A a \in Axis : st[1].seen[a] = 0 BY <1>3 DEF Initial
  <1>5. \A a \in Axis : Pen[a] = <<>> BY <1>2
  <1>6. Len(<<>>) = 0 OBVIOUS
  <1>7. Followed(st[1], Pen) BY <1>4, <1>5, <1>6 DEF Followed
  <1>8. unread[1] \in Seq(PenSends) BY <1>2
  <1> QED BY <1>2, <1>7, <1>8 DEF Following

\* Of a line that begins with an Abs2Rel or a Kalman filter and of any device
\* that sends positions and keys: what the line moves the pointer by is the
\* distance of two positions of one stroke, and a stroke begins where the pen
\* does (NoJump; abs2rel.c:54-99, kalman.c:52-95).
THEOREM StrokesFollowed == Spec => [](PenLine => NoJump)
  <1>1. Init => Typed /\ PastTyped /\ PenInv BY InitFacts, PastInit, PenInit
  <1>2. Typed /\ PastTyped /\ PenInv /\ [Next]_vars => (Typed /\ PastTyped /\ PenInv)'
    BY StepFacts, PastStep, PenNext
  <1>3. Typed /\ PenInv => (PenLine => NoJump)
    <2> SUFFICES ASSUME Typed, PenInv, PenLine, At("Commit", "modify"), ev.code \in Axis
                 PROVE  LET drawn == stroke[1][ev.code]
                        IN  /\ ev.type \in {"REL", "SYN"} /\ ev.value # 0 /\ Kind("Abs2Rel") # {} =>
                                 Len(drawn) = 2 /\ ev.value = drawn[2] - drawn[1]
                            /\ ev.type = "ABS" /\ Kind("Kalman") # {} =>
                                 drawn # <<>> /\ (Len(drawn) = 1 => ev.value = drawn[1])
      BY DEF NoJump
    <2>1. stack # <<>> /\ F.kind = "Commit" /\ Top.at = "modify" BY DEF At
    <2>2. Self # 1 BY <2>1, PenFacts
    <2>3. Passing BY <2>1, <2>2 DEF PenInv, Following, Arriving, Sending, Syncing, Self
    <2>4. Steady(ev) BY <2>3 DEF Passing
    <2>5. Kind("Abs2Rel") # {} => scene.filters[1].kind = "Abs2Rel"
      BY DEF Kind, PenLine, PenKinds
    <2>6. Kind("Kalman") # {} => scene.filters[1].kind = "Kalman"
      BY DEF Kind, PenLine, PenKinds
    <2> QED BY <2>4, <2>5, <2>6 DEF Steady, Pen
  <1> QED BY <1>1, <1>2, <1>3, PTL DEF Spec

---------------------------------------------------------------------------
(* Positions on the screen.                                                *)

Position(e) == e.type = "ABS" /\ e.code \in Axis

\* Filters that leave a position as it is, before it is scaled, and those that
\* leave it on the screen behind.
UnscaledKinds == {"NoRepeat", "KeySubstitute", "KeyLock", "Btn2Rel", "SpeedMod", "Rel2Scroll",
                  "PressureToKey", "Barrier", "Dump", "GetFromHandle"}
ScaledKinds == {"NoRepeat", "KeySubstitute", "KeyLock", "Btn2Rel", "SpeedMod", "Rel2Scroll", "Mirror",
                "Rotate", "PressureToKey", "Barrier", "Dump", "GetFromHandle", "CopyToHandle",
                "FilterToHandle", "Commit"}

\* The filters of all lines are divided by ScaleAbs filters in those before
\* and those behind, wherever handles lead.
Splits(b) ==
  /\ \A d \in Devices : scene.roots[d] \notin b
  /\ \A f \in b : /\ scene.filters[f].kind \in ScaledKinds
                  /\ {scene.filters[f].next, scene.filters[f].handle} \subseteq b \cup {0}
  /\ \A f \in Filters \ b :
       \/ scene.filters[f].kind = "ScaleAbs" /\ scene.filters[f].next \in b
       \/ scene.filters[f].kind \in UnscaledKinds /\ scene.filters[f].next \notin b

\* A position that a ScaleAbs filter has been calibrated for.
Calibrated(f, e) ==
  Position(e) => /\ Data(f).max[e.code] > 0
                 /\ e.value - Data(f).min[e.code] \in 0 .. Data(f).max[e.code]

ScreenLines ==
  /\ 0 \notin Filters /\ \E b \in SUBSET Filters : Splits(b)
  /\ \A d \in Devices, f \in Kind("ScaleAbs") :
       \A p \in scene.packets[d] : \A i \in DOMAIN p : Calibrated(f, p[i])

Screen == CHOOSE b \in SUBSET Filters : Splits(b)

Shown(e) == Position(e) => e.value \in 0 .. IntMax
Touched(e) == \A f \in Kind("ScaleAbs") : Calibrated(f, e)
Fine(f, e) == IF f \in Screen THEN Shown(e) ELSE Touched(e)

\* Calls that wait for others: those of filters behind never for one before.
Waiting(t) == \A i \in DOMAIN t : t[i].at # "modify" /\ Fine(t[i].filter, t[i].ev)
Layered(t) == \A i, j \in DOMAIN t : i < j /\ t[j].filter \in Screen => t[i].filter \in Screen

Calls ==
  stack # <<>> =>
    /\ Waiting(Tail(stack)) /\ Layered(stack) /\ Fine(Self, Top.ev)
    /\ Self \in Screen => Shown(ev)
    /\ Top.at = "modify" => Fine(Self, ev)

OnScreen ==
  /\ Calls
  /\ \A f \in Kind("Barrier") : st[f].queue \in Seq({e \in Event : Fine(f, e)})
  /\ \A d \in Devices : unread[d] \in Seq({e \in Event : Touched(e)})

ScreenInv == ScreenLines => OnScreen

LEMMA PushFacts ==
  ASSUME NEW T, NEW x \in T, NEW t \in Seq(T)
  PROVE  LET s == <<x>> \o t IN
         /\ s \in Seq(T) /\ s # <<>> /\ Head(s) = x /\ Tail(s) = t /\ s[1] = x
         /\ DOMAIN s = 1 .. Len(t) + 1 /\ Len(t) \in Nat /\ DOMAIN t = 1 .. Len(t)
         /\ \A i \in 1 .. Len(t) : s[i + 1] = t[i]
  <1> DEFINE s == <<x>> \o t n == Len(t)
  <1>1. <<x>> \in Seq(T) /\ Len(<<x>>) = 1 /\ <<x>>[1] = x OBVIOUS
  <1>2. s \in Seq(T) BY <1>1, ConcatProperties
  <1>3. Len(s) = Len(<<x>>) + n BY <1>1, ConcatProperties
  <1>4. \A i \in 1 .. Len(<<x>>) + n : s[i] = IF i <= Len(<<x>>) THEN <<x>>[i] ELSE t[i - Len(<<x>>)]
    BY <1>1, ConcatProperties
  <1>5. n \in Nat /\ DOMAIN t = 1 .. n BY LenProperties
  <1> HIDE DEF s, n
  <1>6. Len(s) = n + 1 BY <1>1, <1>3, <1>5
  <1>7. s[1] = x BY <1>1, <1>4, <1>5
  <1>8. \A i \in 1 .. n : s[i + 1] = t[i]
    <2> TAKE i \in 1 .. n
    <2>1. i + 1 \in 1 .. Len(<<x>>) + n /\ ~(i + 1 <= Len(<<x>>)) /\ i + 1 - Len(<<x>>) = i
      BY <1>1, <1>5
    <2> QED BY <1>4, <2>1
  <1>9. s # <<>> /\ DOMAIN s = 1 .. n + 1
    <2>1. DOMAIN s = 1 .. Len(s) BY <1>2, LenProperties
    <2>2. Len(s) # 0 BY <1>5, <1>6
    <2> QED BY <1>2, <1>6, <2>1, <2>2, EmptySeq
  <1>10. Head(s) = s[1] /\ Tail(s) \in Seq(T) /\ Len(Tail(s)) = Len(s) - 1
    BY <1>2, <1>9, HeadTailProperties
  <1>11. \A i \in 1 .. Len(Tail(s)) : Tail(s)[i] = s[i + 1]
    BY <1>2, <1>9, HeadTailProperties
  <1>12. Tail(s) = t
    <2> DEFINE r == Tail(s)
    <2> HIDE DEF r
    <2>1. r \in Seq(T) /\ Len(r) = n BY <1>5, <1>6, <1>10 DEF r
    <2>2. \A i \in 1 .. n : r[i] = t[i] BY <1>8, <1>11, <2>1 DEF r
    <2>3. r = t BY <2>1, <2>2, SeqEqual DEF n
    <2> QED BY <2>3 DEF r
  <1> QED BY <1>2, <1>5, <1>7, <1>8, <1>9, <1>10, <1>12 DEF s, n

\* A call is added, and taken away.
LEMMA PushCall ==
  ASSUME NEW x \in FrameSet, NEW t \in Seq(FrameSet), Layered(t), t # <<>> => (Head(t).filter \in Screen => x.filter \in Screen)
  PROVE  Layered(<<x>> \o t)
  <1> DEFINE s == <<x>> \o t n == Len(t)
  <1>1. /\ s[1] = x /\ DOMAIN s = 1 .. n + 1 /\ n \in Nat /\ DOMAIN t = 1 .. n
        /\ \A i \in 1 .. n : s[i + 1] = t[i]
    BY PushFacts
  <1>2. t # <<>> => Head(t) = t[1] BY HeadTailProperties
  <1>3. t = <<>> => n = 0 BY EmptySeq
  <1> HIDE DEF s, n
  <1>4. ASSUME NEW j \in 1 .. n, t[j].filter \in Screen PROVE x.filter \in Screen
    <2>1. t # <<>> /\ 1 \in 1 .. n BY <1>1, <1>3
    <2>2. t[1].filter \in Screen
      <3>1. CASE j = 1 BY <1>4, <3>1
      <3>2. CASE j # 1
        <4>1. 1 < j BY <3>2
        <4> QED BY <1>1, <1>4, <2>1, <4>1 DEF Layered
      <3> QED BY <3>1, <3>2
    <2> QED BY <1>2, <2>1, <2>2
  <1>5. ASSUME NEW i \in 1 .. n + 1, NEW j \in 1 .. n + 1, i < j, s[j].filter \in Screen
        PROVE  s[i].filter \in Screen
    <2>1. j - 1 \in 1 .. n /\ s[(j - 1) + 1] = t[j - 1] /\ (j - 1) + 1 = j BY <1>1, <1>5
    <2>2. t[j - 1].filter \in Screen BY <1>5, <2>1
    <2>3. CASE i = 1 BY <1>1, <1>4, <2>1, <2>2, <2>3
    <2>4. CASE i # 1
      <3>1. i - 1 \in 1 .. n /\ s[(i - 1) + 1] = t[i - 1] /\ (i - 1) + 1 = i /\ i - 1 < j - 1
        BY <1>1, <1>5, <2>4
      <3>2. t[i - 1].filter \in Screen BY <1>1, <2>1, <2>2, <3>1 DEF Layered
      <3> QED BY <3>1, <3>2
    <2> QED BY <2>3, <2>4
  <1> QED BY <1>1, <1>5 DEF Layered, s

LEMMA PopCall ==
  ASSUME NEW s \in Seq(FrameSet), s # <<>>, Layered(s)
  PROVE  /\ Layered(Tail(s))
         /\ Tail(s) # <<>> => (Head(Tail(s)).filter \in Screen => Head(s).filter \in Screen)
  <1> DEFINE t == Tail(s) n == Len(s) m == Len(t)
  <1>1. t \in Seq(FrameSet) BY HeadTailProperties
  <1>2. m = n - 1 /\ Head(s) = s[1] BY HeadTailProperties
  <1>3. \A i \in 1 .. m : t[i] = s[i + 1] BY HeadTailProperties
  <1>4. n \in Nat /\ DOMAIN s = 1 .. n BY LenProperties
  <1>5. m \in Nat /\ DOMAIN t = 1 .. m BY <1>1, LenProperties
  <1>6. (t # <<>> => m # 0) /\ (t # <<>> => Head(t) = t[1])
    <2>1. t # <<>> => m # 0 BY <1>1, EmptySeq
    <2>2. t # <<>> => Head(t) = t[1] BY <1>1, HeadTailProperties
    <2> QED BY <2>1, <2>2
  <1> HIDE DEF t, n, m
  <1>7. \A i \in 1 .. m : i + 1 \in 1 .. n BY <1>2, <1>4, <1>5
  <1>8. \A i, j \in 1 .. m : i < j => i + 1 < j + 1 BY <1>5
  <1>9. Layered(t) BY <1>3, <1>4, <1>5, <1>7, <1>8 DEF Layered
  <1>10. ASSUME t # <<>>, Head(t).filter \in Screen PROVE Head(s).filter \in Screen
    <2>1. 1 \in 1 .. m BY <1>5, <1>6, <1>10
    <2>2. t[1] = s[2] /\ 1 \in 1 .. n /\ 2 \in 1 .. n BY <1>2, <1>3, <1>4, <1>5, <2>1
    <2> QED BY <1>2, <1>4, <1>6, <1>10, <2>2 DEF Layered
  <1> QED BY <1>9, <1>10 DEF t

LEMMA WaitingFacts ==
  ASSUME NEW t \in Seq(FrameSet), Waiting(t)
  PROVE  /\ t # <<>> => /\ Head(t).at # "modify" /\ Fine(Head(t).filter, Head(t).ev)
                        /\ Waiting(Tail(t))
         /\ \A x \in FrameSet : x.at # "modify" /\ Fine(x.filter, x.ev) => Waiting(<<x>> \o t)
  <1>1. ASSUME t # <<>>
        PROVE  Head(t).at # "modify" /\ Fine(Head(t).filter, Head(t).ev) /\ Waiting(Tail(t))
    <2> DEFINE r == Tail(t) n == Len(t) m == Len(r)
    <2>1. r \in Seq(FrameSet) BY <1>1, HeadTailProperties
    <2>2. m = n - 1 /\ Head(t) = t[1] BY <1>1, HeadTailProperties
    <2>3. \A i \in 1 .. m : r[i] = t[i + 1] BY <1>1, HeadTailProperties
    <2>4. n \in Nat /\ DOMAIN t = 1 .. n BY LenProperties
    <2>5. m \in Nat /\ DOMAIN r = 1 .. m BY <2>1, LenProperties
    <2>6. n # 0 BY <1>1, EmptySeq
    <2> HIDE DEF r, n, m
    <2>7. 1 \in 1 .. n /\ \A i \in 1 .. m : i + 1 \in 1 .. n BY <2>2, <2>4, <2>5, <2>6
    <2>8. Waiting(r) BY <2>3, <2>4, <2>5, <2>7 DEF Waiting
    <2> QED BY <2>2, <2>4, <2>7, <2>8 DEF Waiting, r
  <1>2. ASSUME NEW x \in FrameSet, x.at # "modify", Fine(x.filter, x.ev)
        PROVE  Waiting(<<x>> \o t)
    <2> DEFINE s == <<x>> \o t n == Len(t)
    <2>1. /\ s[1] = x /\ DOMAIN s = 1 .. n + 1 /\ n \in Nat /\ DOMAIN t = 1 .. n
          /\ \A i \in 1 .. n : s[i + 1] = t[i]
      BY PushFacts
    <2> HIDE DEF s, n
    <2>2. ASSUME NEW i \in 1 .. n + 1 PROVE s[i].at # "modify" /\ Fine(s[i].filter, s[i].ev)
      <3>1. CASE i = 1 BY <1>2, <2>1, <3>1
      <3>2. CASE i # 1
        <4>1. i - 1 \in 1 .. n /\ s[(i - 1) + 1] = t[i - 1] /\ (i - 1) + 1 = i BY <2>1, <3>2
        <4> QED BY <2>1, <4>1 DEF Waiting
      <3> QED BY <3>1, <3>2
    <2> QED BY <2>1, <2>2 DEF Waiting, s
  <1> QED BY <1>1, <1>2

LEMMA SameScreen ==
  ASSUME UNCHANGED scene
  PROVE  /\ Filters' = Filters /\ Devices' = Devices /\ Screen' = Screen /\ FrameSet' = FrameSet
         /\ \A k : Kind(k)' = Kind(k)
         /\ ScreenLines' = ScreenLines
         /\ \A f, e : Fine(f, e)' <=> Fine(f, e)
         /\ \A e : (Shown(e)' <=> Shown(e)) /\ (Touched(e)' <=> Touched(e))
         /\ \A t : (Waiting(t)' <=> Waiting(t)) /\ (Layered(t)' <=> Layered(t))
  <1>1. Filters' = Filters /\ Devices' = Devices BY DEF Filters, Devices
  <1>2. (\A b : Splits(b)' <=> Splits(b)) BY <1>1 DEF Splits
  <1>3. Screen' = Screen BY <1>1 DEF Screen, Splits
  <1>4. \A k : Kind(k)' = Kind(k) BY <1>1 DEF Kind
  <1>5. \A f, e : Calibrated(f, e)' <=> Calibrated(f, e) BY DEF Calibrated, Data, Position
  <1>6. \A e : (Shown(e)' <=> Shown(e)) /\ (Touched(e)' <=> Touched(e))
    BY <1>4, <1>5 DEF Shown, Touched, Position
  <1>7. \A f, e : Fine(f, e)' <=> Fine(f, e) BY <1>3, <1>6 DEF Fine
  <1>8. \A t : (Waiting(t)' <=> Waiting(t)) /\ (Layered(t)' <=> Layered(t))
    BY <1>3, <1>7 DEF Waiting, Layered
  <1>9. ScreenLines' = ScreenLines BY <1>1, <1>2, <1>4, <1>5 DEF ScreenLines
  <1>10. FrameSet' = FrameSet BY <1>1 DEF FrameSet
  <1> QED BY <1>1, <1>3, <1>4, <1>6, <1>7, <1>8, <1>9, <1>10

LEMMA CallsFacts ==
  ASSUME Typed, stack # <<>>, Calls
  PROVE  LET t == Tail(stack) IN
         /\ t \in Seq(FrameSet) /\ Waiting(t) /\ Layered(t)
         /\ t # <<>> => (Head(t).filter \in Screen => Self \in Screen)
  <1>1. stack \in Seq(FrameSet) BY DEF Typed, TypeOK, FrameSet
  <1>2. Tail(stack) \in Seq(FrameSet) BY <1>1, HeadTailProperties
  <1>3. Waiting(Tail(stack)) /\ Layered(stack) BY DEF Calls
  <1> QED BY <1>1, <1>2, <1>3, PopCall DEF Self, Top

\* What a step leaves on the stack.
LEMMA LeftOnStack ==
  ASSUME UNCHANGED scene, NEW x \in FrameSet, NEW t \in Seq(FrameSet), stack' = <<x>> \o t,
         Waiting(t), Layered(t), t # <<>> => (Head(t).filter \in Screen => x.filter \in Screen),
         Fine(x.filter, x.ev), x.filter \in Screen => Shown(ev'), x.at = "modify" => Fine(x.filter, ev')
  PROVE  Calls'
  <1>1. stack' # <<>> /\ Head(stack') = x /\ Tail(stack') = t BY PushFacts
  <1>2. Layered(stack') BY PushCall
  <1>3. Top' = x /\ Self' = x.filter BY <1>1 DEF Top, Self
  <1>4. Waiting(Tail(stack))' /\ Layered(stack)'
    BY <1>1, <1>2, SameScreen DEF Waiting, Layered, Fine, Touched, Calibrated, Shown
  <1>5. Fine(Self, Top.ev)' /\ ((Self \in Screen) => Shown(ev))' /\ ((Top.at = "modify") => Fine(Self, ev))'
    BY <1>3, SameScreen DEF Fine, Shown, Touched, Calibrated
  <1> QED BY <1>4, <1>5 DEF Calls

LEMMA HeadAndTail ==
  ASSUME NEW T, NEW s \in Seq(T), s # <<>>
  PROVE  s = <<Head(s)>> \o Tail(s)
  <1> DEFINE x == Head(s) t == Tail(s) r == <<x>> \o t n == Len(s) m == Len(t)
  <1>1. x \in T BY HeadTailProperties
  <1>2. t \in Seq(T) BY HeadTailProperties
  <1>3. m = n - 1 BY HeadTailProperties
  <1>4. \A i \in 1 .. m : t[i] = s[i + 1] BY HeadTailProperties
  <1>5. x = s[1] OBVIOUS
  <1>6. n \in Nat BY LenProperties
  <1> HIDE DEF x, t
  <1>7. r \in Seq(T) BY <1>1, <1>2, PushFacts
  <1>8. r[1] = x /\ DOMAIN r = 1 .. m + 1 /\ \A i \in 1 .. m : r[i + 1] = t[i]
    BY <1>1, <1>2, PushFacts
  <1>9. DOMAIN r = 1 .. Len(r) /\ Len(r) \in Nat BY <1>7, LenProperties
  <1> HIDE DEF r, n, m
  <1>10. Len(r) = n
    <2> DEFINE k == Len(r)
    <2>1. k \in Nat /\ 1 .. k = 1 .. m + 1 /\ m + 1 = n /\ n \in Nat BY <1>3, <1>6, <1>8, <1>9
    <2> HIDE DEF k
    <2>2. k = n BY <2>1
    <2> QED BY <2>2 DEF k
  <1>11. ASSUME NEW i \in 1 .. n PROVE r[i] = s[i]
    <2>1. CASE i = 1 BY <1>5, <1>8, <2>1
    <2>2. CASE i # 1
      <3>1. i - 1 \in 1 .. m /\ (i - 1) + 1 = i BY <1>3, <1>6, <2>2
      <3> QED BY <1>4, <1>8, <3>1
    <2> QED BY <2>1, <2>2
  <1>12. r = s BY <1>7, <1>10, <1>11, SeqEqual DEF n
  <1> QED BY <1>12 DEF r, x, t

LEMMA ForwardFine ==
  ASSUME Typed, stack # <<>>, Calls, UNCHANGED scene, NEW e \in Event, Forward(e), F.next \in Filters,
         Fine(F.next, e), Self \in Screen => F.next \in Screen
  PROVE  Calls'
  <1> DEFINE x == Frame(F.next, "modify", e) t == Tail(stack)
  <1>1. x \in FrameSet /\ x.filter = F.next /\ x.at = "modify" /\ x.ev = e
    BY DEF Frame, FrameSet, Place
  <1>2. /\ t \in Seq(FrameSet) /\ Waiting(t) /\ Layered(t)
        /\ t # <<>> => (Head(t).filter \in Screen => Self \in Screen)
    BY CallsFacts
  <1>3. stack' = <<x>> \o t /\ ev' = e BY DEF Forward
  <1>4. F.next \in Screen => Shown(e) BY DEF Fine
  <1> HIDE DEF x, t
  <1> QED BY <1>1, <1>2, <1>3, <1>4, LeftOnStack

LEMMA NeverFine ==
  ASSUME Typed, stack # <<>>, Calls, UNCHANGED scene, NEW at \in Place \ {"modify"}, Never(at)
  PROVE  Calls'
  <1> DEFINE x == [Top EXCEPT !.at = at] t == Tail(stack)
  <1>1. x \in FrameSet /\ x.filter = Self /\ x.at = at /\ x.ev = Top.ev
    BY CallFacts DEF FrameSet, Self
  <1>2. /\ t \in Seq(FrameSet) /\ Waiting(t) /\ Layered(t)
        /\ t # <<>> => (Head(t).filter \in Screen => Self \in Screen)
    BY CallsFacts
  <1>3. stack' = <<x>> \o t /\ ev' = ev BY DEF Never
  <1>4. Fine(Self, Top.ev) /\ (Self \in Screen => Shown(ev)) BY DEF Calls
  <1> HIDE DEF x, t
  <1> QED BY <1>1, <1>2, <1>3, <1>4, LeftOnStack

LEMMA SendFine ==
  ASSUME Typed, stack # <<>>, Calls, UNCHANGED scene, NEW e \in Event, NEW at \in Place \ {"modify"},
         NEW to \in Filters, SendThen(to, e, at), Fine(to, e), Self \in Screen => to \in Screen
  PROVE  Calls'
  <1> DEFINE x == Frame(to, "modify", e) y == [Top EXCEPT !.at = at] t == Tail(stack) r == <<y>> \o t
  <1>1. x \in FrameSet /\ x.filter = to /\ x.at = "modify" /\ x.ev = e
    BY DEF Frame, FrameSet, Place
  <1>2. y \in FrameSet /\ y.filter = Self /\ y.at = at /\ y.ev = Top.ev
    BY CallFacts DEF FrameSet, Self
  <1>3. /\ t \in Seq(FrameSet) /\ Waiting(t) /\ Layered(t)
        /\ t # <<>> => (Head(t).filter \in Screen => Self \in Screen)
    BY CallsFacts
  <1>4. stack' = <<x, y>> \o t /\ ev' = e BY DEF SendThen
  <1>5. Fine(Self, Top.ev) BY DEF Calls
  <1>6. to \in Screen => Shown(e) BY DEF Fine
  <1> HIDE DEF x, y, t
  <1>7. r \in Seq(FrameSet) /\ Head(r) = y /\ r # <<>> BY <1>2, <1>3, PushFacts
  <1>8. Waiting(r) BY <1>2, <1>3, <1>5, WaitingFacts
  <1>9. Layered(r) BY <1>2, <1>3, PushCall
  <1>10. stack' = <<x>> \o r
    <2>1. <<x, y>> = <<x>> \o <<y>> BY PairFacts
    <2>2. <<x>> \in Seq(FrameSet) /\ <<y>> \in Seq(FrameSet) BY <1>1, <1>2
    <2>3. (<<x>> \o <<y>>) \o t = <<x>> \o (<<y>> \o t) BY <1>3, <2>2, ConcatAssociative
    <2> QED BY <1>4, <2>1, <2>3
  <1> HIDE DEF r
  <1> QED BY <1>1, <1>2, <1>4, <1>6, <1>7, <1>8, <1>9, <1>10, LeftOnStack

LEMMA DropFine ==
  ASSUME Typed, stack # <<>>, Calls, UNCHANGED scene, Drop
  PROVE  Calls'
  <1> DEFINE t == Tail(stack)
  <1>1. /\ t \in Seq(FrameSet) /\ Waiting(t) /\ Layered(t)
        /\ t # <<>> => (Head(t).filter \in Screen => Self \in Screen)
    BY CallsFacts
  <1>2. stack' = t /\ ev' \in {Syn, ev} BY DEF Drop
  <1>3. Self \in Screen => Shown(ev') BY <1>2, SynIs DEF Calls, Shown, Position
  <1> HIDE DEF t
  <1>4. CASE t # <<>>
    <2> DEFINE x == Head(t) r == Tail(t)
    <2>1. x \in FrameSet /\ r \in Seq(FrameSet) BY <1>1, <1>4, HeadTailProperties
    <2>2. t = <<x>> \o r BY <1>1, <1>4, HeadAndTail
    <2>3. x.at # "modify" /\ Fine(x.filter, x.ev) /\ Waiting(r) BY <1>1, <1>4, WaitingFacts
    <2>4. Layered(r) /\ (r # <<>> => (Head(r).filter \in Screen => x.filter \in Screen))
      BY <1>1, <1>4, PopCall
    <2>5. x.filter \in Screen => Shown(ev') BY <1>1, <1>3, <1>4
    <2> HIDE DEF x, r
    <2> QED BY <1>2, <2>1, <2>2, <2>3, <2>4, <2>5, LeftOnStack
  <1>5. CASE t = <<>> BY <1>2, <1>5 DEF Calls
  <1> QED BY <1>4, <1>5

LEMMA ScreenFacts ==
  ASSUME Typed, ScreenLines, stack # <<>>
  PROVE  /\ Self \in Filters /\ F = scene.filters[Self]
         /\ \/ Self \in Screen /\ F.kind \in ScaledKinds
            \/ Self \notin Screen /\ F.kind = "ScaleAbs" /\ F.next \in Screen
            \/ Self \notin Screen /\ F.kind \in UnscaledKinds
         /\ F.next # 0 /\ F.kind # "ScaleAbs" =>
              /\ Self \in Screen <=> F.next \in Screen
              /\ \A e : Fine(Self, e) => Fine(F.next, e)
         /\ F.handle # 0 /\ Self \in Screen => F.handle \in Screen /\ F.handle \in Filters
         /\ F.kind \notin {"Dump", "Commit"} => F.next # 0
         /\ F.next # 0 => F.next \in Filters
  <1>1. Self \in Filters /\ F = scene.filters[Self] BY CallFacts DEF F
  <1>2. Splits(Screen) /\ Screen \subseteq Filters BY DEF ScreenLines, Screen
  <1>3. 0 \notin Filters BY DEF ScreenLines
  <1>4. F.kind \notin {"Dump", "Commit"} => F.next # 0 BY <1>3, NextFacts
  <1>5. F.next # 0 => F.next \in Filters BY NextFacts
  <1>6. F.handle # 0 /\ Self \in Screen => F.handle \in Screen BY <1>1, <1>2 DEF Splits
  <1>7. \/ Self \in Screen /\ F.kind \in ScaledKinds
        \/ Self \notin Screen /\ F.kind = "ScaleAbs" /\ F.next \in Screen
        \/ Self \notin Screen /\ F.kind \in UnscaledKinds
    BY <1>1, <1>2 DEF Splits
  <1>8. F.next # 0 /\ F.kind # "ScaleAbs" => (Self \in Screen <=> F.next \in Screen)
    BY <1>1, <1>2 DEF Splits
  <1>9. F.next # 0 /\ F.kind # "ScaleAbs" => \A e : Fine(Self, e) => Fine(F.next, e)
    BY <1>8 DEF Fine
  <1> QED BY <1>1, <1>2, <1>4, <1>5, <1>6, <1>7, <1>8, <1>9

LEMMA NoPosition ==
  ASSUME NEW e, ~Position(e)
  PROVE  \A f : Fine(f, e)
  BY DEF Fine, Shown, Touched, Calibrated

\* Scaling takes the range of the device to that of the screen.
LEMMA ScaleFacts ==
  ASSUME NEW m \in Nat, NEW n \in Nat, n > 0, NEW o \in 0 .. n
  PROVE  Quotient(m * o, n) \in 0 .. m
  <1> DEFINE x == m * o q == x \div n
  <1>1. x \in Nat /\ x <= m * n /\ m * n \in Nat
    OBVIOUS
  <1>2. q \in Nat /\ n * q <= x
    <2> HIDE DEF x
    <2> QED BY <1>1
  <1>3. q <= m
    <2> HIDE DEF q, x
    <2>1. SUFFICES ASSUME q >= m + 1 PROVE FALSE BY <1>2
    <2>2. n * q >= n * (m + 1) BY <1>2, <2>1
    <2>3. n * (m + 1) = m * n + n OBVIOUS
    <2>4. n * q \in Nat BY <1>2
    <2> QED BY <1>1, <1>2, <2>2, <2>3, <2>4
  <1>4. Quotient(x, n) = q
    <2> HIDE DEF x
    <2> QED BY <1>1 DEF Quotient, Abs
  <1> QED BY <1>2, <1>3, <1>4

LEMMA ScaledShown ==
  ASSUME Typed, stack # <<>>, F.kind = "ScaleAbs", NEW e \in Event, Position(e), Calibrated(Self, e)
  PROVE  Scaled(e).value \in 0 .. IntMax
  <1> DEFINE max == D.max[e.code]
             offset == e.value - D.min[e.code]
             q == Quotient(IntMax * offset, max)
  <1>1. D = Data(Self) BY DEF D
  <1>2. D.max \in [Axis -> Int] /\ e.code \in Axis
    BY CallFacts, DataFacts DEF Typed, TypeOK, D, F, Position
  <1>3. max > 0 /\ offset \in 0 .. max /\ max \in Int BY <1>1, <1>2 DEF Calibrated
  <1>4. Scaled(e).value = IF max = 0 THEN -IntMax - 1 ELSE ToInt(q) BY DEF Scaled, Event
  <1> HIDE DEF max, offset
  <1>5. max \in Nat BY <1>3
  <1>6. q \in 0 .. IntMax BY <1>3, <1>5, IntMaxAssumption, ScaleFacts
  <1> HIDE DEF q
  <1>7. ToInt(q) = q BY <1>6, IntMaxAssumption DEF ToInt, Int32
  <1> QED BY <1>3, <1>4, <1>6, <1>7

\* An event that a filter sends on in a step.
LEMMA SimpleFine ==
  ASSUME Typed, Modify, ScreenLines, Calls, F.kind \in SimpleKinds, F.next # 0, UNCHANGED scene, Typed'
  PROVE  Calls' /\ UNCHANGED unread /\ \A f \in Filters : f # Self => st'[f] = st[f]
  <1>1. stack # <<>> BY KindActions
  <1>2. Syncs /\ Passed BY SimpleSyncs, SimplePassed
  <1>3. Top.at = "modify" /\ UNCHANGED unread /\ \A f \in Filters : f # Self => st'[f] = st[f]
    BY <1>2 DEF Syncs, Environment
  <1>4. Fine(Self, ev) BY <1>1, <1>3 DEF Calls
  <1>5. ev \in Event /\ ev' \in Event /\ F.next \in Filters /\ Self \in Filters
    BY <1>1, CallFacts, NextFacts DEF Typed, TypeOK
  <1>6. F.kind = "ScaleAbs" => Self \notin Screen /\ F.next \in Screen
    BY <1>1, ScreenFacts DEF ScaledKinds, UnscaledKinds
  <1>7. F.kind # "ScaleAbs" => (Self \in Screen <=> F.next \in Screen) BY <1>1, ScreenFacts
  <1>8. ASSUME NEW e, Forward(e), Fine(F.next, e) PROVE Calls'
    <2>1. e \in Event BY <1>5, <1>8 DEF Forward
    <2> QED BY <1>1, <1>5, <1>6, <1>7, <1>8, <2>1, ForwardFine
  <1>9. ASSUME ev.type = "KEY" PROVE Calls'
    <2>1. KeyPassed BY <1>2, <1>9 DEF Passed
    <2>2. CASE Drop BY <1>1, <2>2, DropFine
    <2>3. CASE \E e : Forward(e) /\ e.type \in {"KEY", "REL"}
      <3>1. PICK e : Forward(e) /\ e.type \in {"KEY", "REL"} BY <2>3
      <3>2. ~Position(e) BY <3>1 DEF Position
      <3> QED BY <1>8, <3>1, <3>2, NoPosition
    <2>4. Unlock(ev, S).type = "KEY" /\ \A x : [ev EXCEPT !.code = x].type = "KEY"
      BY <1>5, <1>9 DEF Unlock, Event
    <2> QED BY <1>9, <2>1, <2>2, <2>3, <2>4 DEF KeyPassed
  <1>10. ASSUME NEW e \in Event, Alike(e) PROVE Fine(F.next, e)
    <2>1. CASE Position(ev)
      <3>1. ev.type = "ABS" /\ ev.code \in Axis /\ e.type = "ABS" BY <1>10, <2>1 DEF Position, Alike
      <3>2. CASE F.kind = "ScaleAbs"
        <4>1. Calibrated(Self, ev) BY <1>1, <1>4, <1>5, <1>6, <3>2, ScreenFacts DEF Fine, Touched, Kind
        <4>2. Scaled(ev).value \in 0 .. IntMax BY <1>1, <1>5, <2>1, <3>2, <4>1, ScaledShown
        <4>3. e.value = Scaled(ev).value BY <1>10, <3>1, <3>2 DEF Alike
        <4> QED BY <1>6, <3>2, <4>2, <4>3 DEF Fine, Shown
      <3>3. CASE F.kind \notin Shapers
        <4>1. e = ev BY <1>10, <3>1, <3>3 DEF Alike
        <4>2. F.kind # "ScaleAbs" BY <3>3 DEF Shapers
        <4> QED BY <1>1, <1>4, <4>1, <4>2, ScreenFacts
      <3>4. CASE F.kind \in Shapers \ {"ScaleAbs"}
        <4>1. Self \in Screen /\ F.kind \in {"Mirror", "Rotate"} /\ F.next \in Screen
          BY <1>1, <1>7, <3>4, ScreenFacts DEF Shapers, ScaledKinds, UnscaledKinds
        <4>2. ev.value \in 0 .. IntMax BY <1>4, <2>1, <4>1 DEF Fine, Shown
        <4>3. e.value \in {ev.value, IntMax - ev.value} BY <1>10, <3>1, <4>1 DEF Alike
        <4>4. e.value \in 0 .. IntMax BY <4>2, <4>3, IntMaxAssumption
        <4> QED BY <4>1, <4>4 DEF Fine, Shown
      <3> QED BY <3>2, <3>3, <3>4
    <2>2. CASE ~Position(ev)
      <3>1. F.kind # "WeightedAverageAbs"
        BY <1>1, ScreenFacts DEF ScaledKinds, UnscaledKinds
      <3>2. ~Position(e) BY <1>10, <2>2, <3>1 DEF Position, Alike
      <3> QED BY <3>2, NoPosition
    <2> QED BY <2>1, <2>2
  <1>11. ASSUME ev.type # "KEY" PROVE Calls'
    <2>1. OtherPassed BY <1>2, <1>11 DEF Passed
    <2>2. CASE \E e \in Event : Forward(e) /\ Alike(e) BY <1>8, <1>10, <2>2
    <2>3. CASE Drop BY <1>1, <2>3, DropFine
    <2>4. CASE Never("trap") \/ Never("loop")
      <3>1. {"trap", "loop"} \subseteq Place \ {"modify"} BY DEF Place
      <3> QED BY <1>1, <2>4, <3>1, NeverFine
    <2> QED BY <2>1, <2>2, <2>3, <2>4 DEF OtherPassed
  <1> QED BY <1>3, <1>9, <1>11

\* The last filter of a line, and those that wait for the filters behind them.
LEMMA LastFine ==
  ASSUME Typed, ScreenLines, Calls, PassOn \/ Commit, UNCHANGED scene
  PROVE  Calls' /\ UNCHANGED unread /\ \A f \in Filters : f # Self => st'[f] = st[f]
  <1>1. stack # <<>> /\ Top.at = "modify" /\ F.kind \in {"Dump", "GetFromHandle", "Commit"}
        /\ UNCHANGED <<unread, st>>
    BY DEF PassOn, Commit, At, Environment
  <1>2. Fine(Self, ev) /\ ev \in Event BY <1>1, CallFacts DEF Calls
  <1>3. Drop \/ (Forward(ev) /\ F.next # 0)
    <2>1. F.kind = "GetFromHandle" => F.next # 0 BY <1>1, ScreenFacts
    <2> QED BY <2>1 DEF PassOn, Commit, ForwardIfAny, At
  <1>4. CASE Drop BY <1>1, <1>4, DropFine
  <1>5. CASE Forward(ev) /\ F.next # 0
    <2>1. F.next \in Filters /\ Fine(F.next, ev) /\ (Self \in Screen <=> F.next \in Screen)
      BY <1>1, <1>2, <1>5, ScreenFacts
    <2> QED BY <1>1, <1>2, <1>5, <2>1, ForwardFine
  <1> QED BY <1>1, <1>3, <1>4, <1>5

LEMMA PressureFine ==
  ASSUME Typed, ScreenLines, Calls, PressureToKey, F.kind = "PressureToKey", UNCHANGED scene
  PROVE  Calls' /\ UNCHANGED unread /\ \A f \in Filters : f # Self => st'[f] = st[f]
  <1>1. stack # <<>> /\ UNCHANGED unread /\ \A f \in Filters : f # Self => st'[f] = st[f]
    <2>1. stack # <<>> BY DEF PressureToKey, At
    <2>2. UNCHANGED unread /\ (UNCHANGED st \/ \E s : Keep(s)) BY DEF PressureToKey, Environment
    <2> QED BY <2>1, <2>2, KeepFacts
  <1>2. /\ F.next \in Filters /\ (Self \in Screen <=> F.next \in Screen)
        /\ \A e : Fine(Self, e) => Fine(F.next, e)
    BY <1>1, ScreenFacts
  <1>3. ev \in Event BY <1>1, CallFacts
  <1>4. CASE At("PressureToKey", "modify")
    <2>1. SendThen(F.next, ev, "sent") /\ Fine(Self, ev)
      BY <1>1, <1>4 DEF PressureToKey, Calls, At
    <2>2. "sent" \in Place \ {"modify"} BY DEF Place
    <2> QED BY <1>1, <1>2, <1>3, <2>1, <2>2, SendFine
  <1>5. CASE At("PressureToKey", "sent")
    <2> DEFINE e == E("KEY", D.key, IF S.on THEN 0 ELSE 1)
    <2>1. Drop \/ Forward(e) BY <1>5 DEF PressureToKey, At
    <2>2. e \in Event /\ ~Position(e)
      <3>1. D.key \in Nat BY <1>1, CallFacts, DataFacts DEF Typed, TypeOK, D, F
      <3> QED BY <3>1 DEF E, Event, Type, Position
    <2> HIDE DEF e
    <2>3. Fine(F.next, e) BY <2>2, NoPosition
    <2> QED BY <1>1, <1>2, <2>1, <2>2, <2>3, DropFine, ForwardFine
  <1> QED BY <1>1, <1>4, <1>5 DEF PressureToKey

LEMMA HandleFine ==
  ASSUME Typed, ScreenLines, Calls, UNCHANGED scene,
         \/ CopyToHandle /\ F.kind = "CopyToHandle"
         \/ FilterToHandle /\ F.kind = "FilterToHandle"
  PROVE  Calls' /\ UNCHANGED unread /\ \A f \in Filters : f # Self => st'[f] = st[f]
  <1>1. stack # <<>> BY DEF CopyToHandle, FilterToHandle, At
  <1>2. UNCHANGED unread /\ \A f \in Filters : f # Self => st'[f] = st[f]
    <2>1. UNCHANGED unread /\ (UNCHANGED st \/ \E s : Keep(s))
      BY DEF CopyToHandle, FilterToHandle, Environment
    <2> QED BY <1>1, <2>1, KeepFacts
  <1> SUFFICES Calls' BY <1>2
  <1>3. /\ F.next \in Filters /\ F.next \in Screen /\ Self \in Screen
        /\ F.handle # 0 => F.handle \in Screen /\ F.handle \in Filters
    BY <1>1, ScreenFacts DEF UnscaledKinds
  <1>4. Shown(ev) /\ ev \in Event BY <1>1, <1>3, CallFacts DEF Calls
  <1>5. \A f \in Screen : Fine(f, ev) BY <1>4 DEF Fine
  <1>6. {"sent", "synced", "passed"} \subseteq Place \ {"modify"} BY DEF Place
  <1>7. ASSUME NEW at \in {"sent", "synced", "passed"}, Send(at) PROVE Calls'
    <2>1. CASE F.handle # 0 /\ SendThen(F.handle, ev, at)
      BY <1>1, <1>3, <1>4, <1>5, <1>6, <2>1, SendFine
    <2>2. CASE Never(at) BY <1>1, <1>6, <2>2, NeverFine
    <2> QED BY <1>7, <2>1, <2>2 DEF Send, Never
  <1>8. CASE Forward(ev) BY <1>1, <1>3, <1>4, <1>5, <1>8, ForwardFine
  <1>9. CASE Drop BY <1>1, <1>9, DropFine
  <1>10. CASE SendThen(F.next, ev, "passed") BY <1>1, <1>3, <1>4, <1>5, <1>6, <1>10, SendFine
  <1>11. CASE CopyToHandle BY <1>7, <1>8, <1>11 DEF CopyToHandle
  <1>12. CASE FilterToHandle BY <1>7, <1>8, <1>9, <1>10, <1>12 DEF FilterToHandle
  <1> QED BY <1>11, <1>12

\* What a Barrier keeps for later.
LEMMA BarrierFine ==
  ASSUME Typed, ScreenLines, OnScreen, Barrier, F.kind = "Barrier", UNCHANGED scene
  PROVE  /\ Calls' /\ UNCHANGED unread /\ \A f \in Filters : f # Self => st'[f] = st[f]
         /\ st'[Self].queue \in Seq({e \in Event : Fine(Self, e)})
  <1> DEFINE Q == {e \in Event : Fine(Self, e)}
  <1>1. stack # <<>> /\ UNCHANGED unread BY DEF Barrier, At, Environment
  <1>2. /\ F.next \in Filters /\ (Self \in Screen <=> F.next \in Screen)
        /\ \A e : Fine(Self, e) => Fine(F.next, e)
        /\ Self \in Filters /\ F = scene.filters[Self]
    BY <1>1, ScreenFacts
  <1>3. Calls /\ S.queue \in Seq(Q)
    BY <1>2 DEF OnScreen, Kind, S
  <1>4. ev \in Event /\ Top.ev \in Event /\ Fine(Self, Top.ev) BY <1>1, <1>3, CallFacts DEF Calls
  <1>5. \A q : [S EXCEPT !.queue = q].queue = q BY <1>1, KeepFacts DEF State
  <1>6. CASE At("Barrier", "modify") /\ Drop /\ Keep([S EXCEPT !.queue = Inserted(@)])
    <2>1. Fine(Self, ev) BY <1>1, <1>3, <1>6 DEF Calls, At
    <2>2. Inserted(S.queue) \in Seq(Q)
      <3>1. ev \in Q BY <1>4, <2>1
      <3>2. Append(S.queue, ev) \in Seq(Q) BY <1>3, <3>1, AppendFacts
      <3> QED BY <1>3, <3>2 DEF Inserted
    <2>3. /\ \A f \in Filters : f # Self => st'[f] = st[f]
          /\ st'[Self] = [S EXCEPT !.queue = Inserted(S.queue)]
      BY <1>1, <1>6, KeepFacts
    <2>4. st'[Self].queue \in Seq(Q) BY <1>5, <2>2, <2>3
    <2> QED BY <1>1, <1>3, <1>6, <2>3, <2>4, DropFine
  <1>7. CASE /\ S.queue # <<>> /\ SendThen(F.next, Head(S.queue), "flush")
             /\ Keep([S EXCEPT !.queue = Tail(@)])
    <2>1. Head(S.queue) \in Q /\ Tail(S.queue) \in Seq(Q) BY <1>3, <1>7, HeadTailProperties
    <2>2. /\ \A f \in Filters : f # Self => st'[f] = st[f]
          /\ st'[Self] = [S EXCEPT !.queue = Tail(S.queue)]
      BY <1>1, <1>7, KeepFacts
    <2>3. st'[Self].queue \in Seq(Q) BY <1>5, <2>1, <2>2
    <2>4. "flush" \in Place \ {"modify"} BY DEF Place
    <2>5. Calls'
      <3> DEFINE e == Head(S.queue)
      <3>1. e \in Event /\ Fine(Self, e) /\ SendThen(F.next, e, "flush") BY <1>7, <2>1
      <3> HIDE DEF e
      <3>2. Fine(F.next, e) BY <1>2, <3>1
      <3> QED BY <1>1, <1>2, <1>3, <2>4, <3>1, <3>2, SendFine
    <2> QED BY <1>1, <2>2, <2>3, <2>5
  <1>8. CASE Forward(Top.ev) /\ UNCHANGED st
    <2>1. Fine(F.next, Top.ev) BY <1>2, <1>4
    <2>2. Calls' BY <1>1, <1>2, <1>3, <1>4, <1>8, <2>1, ForwardFine
    <2>3. st'[Self].queue \in Seq(Q) BY <1>3, <1>8 DEF S
    <2> QED BY <1>1, <1>8, <2>2, <2>3
  <1> HIDE DEF Q
  <1> QED BY <1>6, <1>7, <1>8 DEF Barrier, Q

\* A step keeps what the filters know, when it is the sequence of a Barrier
\* only that it may change.
LEMMA ScreenModify ==
  ASSUME Typed, Typed', ScreenLines, OnScreen, Modify, UNCHANGED scene
  PROVE  OnScreen'
  <1>1. stack # <<>> BY KindActions
  <1>2. Calls BY DEF OnScreen
  <1>3. Self \in Filters /\ F = scene.filters[Self] BY <1>1, ScreenFacts
  <1> DEFINE Q(f) == {e \in Event : Fine(f, e)}
  <1>4. /\ \A f : Q(f)' = Q(f)
        /\ {e \in Event : Touched(e)}' = {e \in Event : Touched(e)}
        /\ Filters' = Filters /\ Devices' = Devices /\ Kind("Barrier")' = Kind("Barrier")
    BY SameScreen
  <1>5. /\ Calls' /\ UNCHANGED unread /\ \A f \in Filters : f # Self => st'[f] = st[f]
        /\ F.kind = "Barrier" => st'[Self].queue \in Seq(Q(Self))
    <2>1. CASE F.kind = "Barrier"
      <3>1. Barrier BY <2>1, KindActions
      <3> QED BY <2>1, <3>1, BarrierFine
    <2>2. CASE F.kind \in {"CopyToHandle", "FilterToHandle"}
      <3>1. (CopyToHandle /\ F.kind = "CopyToHandle") \/ (FilterToHandle /\ F.kind = "FilterToHandle")
        BY <2>2, KindActions
      <3> QED BY <1>2, <2>2, <3>1, HandleFine
    <2>3. CASE F.kind = "PressureToKey"
      <3>1. PressureToKey BY <2>3, KindActions
      <3> QED BY <1>2, <2>3, <3>1, PressureFine
    <2>4. CASE F.kind \in {"Commit", "Dump", "GetFromHandle"}
      <3>1. PassOn \/ Commit BY <2>4, KindActions
      <3> QED BY <1>2, <2>4, <3>1, LastFine
    <2>5. CASE F.kind \notin {"Barrier", "CopyToHandle", "FilterToHandle", "PressureToKey", "Commit",
                              "Dump", "GetFromHandle"}
      <3>1. F.kind \in SimpleKinds /\ F.next # 0
        BY <1>1, <2>5, ScreenFacts DEF ScaledKinds, UnscaledKinds, SimpleKinds
      <3> QED BY <1>2, <2>5, <3>1, SimpleFine
    <2> QED BY <2>1, <2>2, <2>3, <2>4, <2>5
  <1>6. \A f \in Kind("Barrier") : st'[f].queue \in Seq(Q(f))
    <2> TAKE f \in Kind("Barrier")
    <2>1. f \in Filters /\ scene.filters[f].kind = "Barrier" /\ st[f].queue \in Seq(Q(f))
      BY DEF OnScreen, Kind
    <2>2. CASE f = Self BY <1>3, <1>5, <2>1, <2>2
    <2>3. CASE f # Self BY <1>5, <2>1, <2>3
    <2> QED BY <2>2, <2>3
  <1>7. \A d \in Devices : unread'[d] \in Seq({e \in Event : Touched(e)})
    BY <1>5 DEF OnScreen
  <1> QED BY <1>4, <1>5, <1>6, <1>7 DEF OnScreen

LEMMA ScreenDevice ==
  ASSUME Typed, ScreenLines, OnScreen, NEW d \in Devices, Packet(d) \/ Read(d), UNCHANGED scene
  PROVE  OnScreen'
  <1> DEFINE T == {e \in Event : Touched(e)}
  <1>1. UNCHANGED st /\ stack = <<>> BY DEF Packet, Read
  <1>2. /\ \A f : {e \in Event : Fine(f, e)}' = {e \in Event : Fine(f, e)}
        /\ T' = T /\ Filters' = Filters /\ Devices' = Devices /\ Kind("Barrier")' = Kind("Barrier")
    BY SameScreen
  <1>3. \A x \in Devices : unread[x] \in Seq(T) BY DEF OnScreen
  <1>4. unread \in [Devices -> Seq(Event)] BY DEF Typed, TypeOK
  <1>5. ASSUME Calls', \A x \in Devices : unread'[x] \in Seq(T) PROVE OnScreen'
    BY <1>1, <1>2, <1>5 DEF OnScreen
  <1>6. CASE Packet(d)
    <2>1. PICK p \in scene.packets[d] : unread' = [unread EXCEPT ![d] = Append(p, Syn)]
      BY <1>6 DEF Packet
    <2>2. p \in Seq(Event) BY ScenesAssumption DEF Devices, Typed, TypeOK
    <2>3. \A i \in DOMAIN p : p[i] \in T
      <3>1. \A i \in DOMAIN p : Touched(p[i]) BY DEF ScreenLines, Touched
      <3>2. \A i \in DOMAIN p : p[i] \in Event BY <2>2, LenProperties
      <3> QED BY <3>1, <3>2
    <2>4. p \in Seq(T) BY <2>2, <2>3, SeqByElements
    <2>5. Syn \in T BY SynIs DEF Touched, Calibrated, Position
    <2>6. Append(p, Syn) \in Seq(T) BY <2>4, <2>5, AppendFacts
    <2>7. \A x \in Devices : unread'[x] \in Seq(T) BY <1>3, <1>4, <2>1, <2>6
    <2>8. stack' = <<>> BY <1>1, <1>6 DEF Packet
    <2>9. Calls' BY <2>8 DEF Calls
    <2> QED BY <1>5, <2>7, <2>9
  <1>7. CASE Read(d)
    <2>1. /\ unread[d] # <<>> /\ ev' = Head(unread[d]) /\ unread' = [unread EXCEPT ![d] = Tail(@)]
          /\ ev' \in Event
      BY <1>7, ReadFacts
    <2>2. ev' \in T /\ Tail(unread[d]) \in Seq(T) BY <1>3, <2>1, HeadTailProperties
    <2>3. \A x \in Devices : unread'[x] \in Seq(T) BY <1>3, <1>4, <2>1, <2>2
    <2> DEFINE x == Frame(scene.roots[d], "modify", ev')
    <2>4. scene.roots[d] \in Filters BY ScenesAssumption DEF Devices, Filters, Typed, TypeOK
    <2>5. x \in FrameSet /\ x.filter = scene.roots[d] /\ x.at = "modify" /\ x.ev = ev'
      BY <2>1, <2>4 DEF Frame, FrameSet, Place
    <2>6. scene.roots[d] \notin Screen
      <3>1. Splits(Screen) BY DEF ScreenLines, Screen
      <3> QED BY <3>1 DEF Splits
    <2>7. Fine(x.filter, x.ev) /\ Fine(x.filter, ev') BY <2>2, <2>5, <2>6 DEF Fine
    <2>8. stack' = <<x>> BY <1>7 DEF Read
    <2> HIDE DEF x
    <2>9. stack' = <<x>> \o <<>>
      <3>1. <<x>> \in Seq(FrameSet) BY <2>5
      <3> QED BY <2>8, <3>1, ConcatEmptySeq
    <2>10. <<>> \in Seq(FrameSet) /\ Waiting(<<>>) /\ Layered(<<>>) BY DEF Waiting, Layered
    <2>11. Calls' BY <2>5, <2>6, <2>7, <2>9, <2>10, LeftOnStack
    <2> QED BY <1>5, <2>3, <2>11
  <1> QED BY <1>6, <1>7

LEMMA ScreenNext ==
  ASSUME Typed, ScreenInv, [Next]_vars
  PROVE  ScreenInv'
  <1>1. UNCHANGED scene /\ Typed' BY StepFacts
  <1>2. ScreenLines' = ScreenLines BY <1>1, SameScreen
  <1> SUFFICES ASSUME ScreenLines PROVE OnScreen' BY <1>2 DEF ScreenInv
  <1>3. OnScreen BY DEF ScreenInv
  <1>4. CASE Modify BY <1>1, <1>3, <1>4, ScreenModify
  <1>5. ASSUME NEW d \in Devices, Packet(d) \/ Read(d) PROVE OnScreen'
    BY <1>1, <1>3, <1>5, ScreenDevice
  <1>6. CASE UNCHANGED vars
    <2>1. UNCHANGED <<scene, st, ev, stack, unread>> BY <1>6 DEF vars
    <2>2. Top' = Top /\ Self' = Self BY <2>1 DEF Top, Self
    <2>3. Calls' = Calls
      BY <2>1, <2>2, SameScreen DEF Calls, Waiting, Layered, Fine, Shown, Touched, Calibrated
    <2>4. /\ \A f : {e \in Event : Fine(f, e)}' = {e \in Event : Fine(f, e)}
          /\ {e \in Event : Touched(e)}' = {e \in Event : Touched(e)}
          /\ Devices' = Devices /\ Kind("Barrier")' = Kind("Barrier")
      BY <2>1, SameScreen
    <2> QED BY <1>3, <2>1, <2>3, <2>4 DEF OnScreen
  <1> QED BY <1>4, <1>5, <1>6 DEF Next, Halted

LEMMA ScreenInit ==
  ASSUME Init
  PROVE  ScreenInv
  <1>1. \A f \in Kind("Barrier") : st[f].queue = <<>>
    BY DEF Init, Initial, Uninitialised, Kind
  <1>2. stack = <<>> /\ \A d \in Devices : unread[d] = <<>> BY DEF Init
  <1>3. Calls BY <1>2 DEF Calls
  <1>4. \A T : <<>> \in Seq(T) OBVIOUS
  <1>5. \A f \in Kind("Barrier") : st[f].queue \in Seq({e \in Event : Fine(f, e)})
    BY <1>1, <1>4
  <1>6. \A d \in Devices : unread[d] \in Seq({e \in Event : Touched(e)})
    BY <1>2, <1>4
  <1> QED BY <1>3, <1>5, <1>6 DEF ScreenInv, OnScreen

\* Of any number of lines, joined by handles or not, that ScaleAbs filters
\* divide into filters before and behind, and of devices they are calibrated
\* for: every position that is written is one on the screen (InScreen;
\* scale_abs.c:56-75), also when it has waited in the queue of a Barrier or
\* was changed by the line of a handle.
THEOREM ScaledToScreen == Spec => [](ScreenLines => InScreen)
  <1>1. Init => Typed /\ ScreenInv BY InitFacts, ScreenInit
  <1>2. Typed /\ ScreenInv /\ [Next]_vars => (Typed /\ ScreenInv)'
    BY StepFacts, ScreenNext
  <1>3. Typed /\ ScreenInv => (ScreenLines => InScreen)
    <2> SUFFICES ASSUME Typed, ScreenInv, ScreenLines, At("Commit", "modify"), ev.type = "ABS", ev.code \in Axis
                 PROVE  ev.value \in 0 .. IntMax
      BY DEF InScreen
    <2>1. stack # <<>> /\ F.kind = "Commit" BY DEF At
    <2>2. Self \in Screen BY <2>1, ScreenFacts DEF UnscaledKinds
    <2>3. Shown(ev) BY <2>1, <2>2 DEF ScreenInv, OnScreen, Calls
    <2> QED BY <2>3 DEF Shown, Position
  <1> QED BY <1>1, <1>2, <1>3, PTL DEF Spec

---------------------------------------------------------------------------
(* Keys that are pressed and released in turn.                             *)

KeyOf(p, i, k) == p[i].type = "KEY" /\ p[i].code = k

\* A packet is sent event by event: what can be sent of it after the first is
\* the rest.
LEMMA CanSendRest ==
  ASSUME NEW keys \in SUBSET Nat, NEW s \in Seq(Event), s # <<>>, CanSend(keys, s)
  PROVE  /\ Head(s).type = "KEY" => (Head(s).value = 1 <=> Head(s).code \notin keys)
         /\ CanSend(Pressed(keys, Head(s)), Tail(s))
  <1> DEFINE t == Tail(s) n == Len(s) m == Len(t) e == Head(s) down2 == Pressed(keys, e)
  <1>1. t \in Seq(Event) BY HeadTailProperties
  <1>2. m = n - 1 BY HeadTailProperties
  <1>3. \A i \in 1 .. m : t[i] = s[i + 1] BY HeadTailProperties
  <1>4. n \in Nat /\ DOMAIN s = 1 .. n BY LenProperties
  <1>5. m \in Nat /\ DOMAIN t = 1 .. m BY <1>1, LenProperties
  <1>6. e = s[1] /\ e \in Event BY HeadTailProperties
  <1>7. n # 0 BY EmptySeq
  <1> HIDE DEF t, n, m
  <1>8. 1 \in 1 .. n /\ \A i \in 1 .. m : i + 1 \in 1 .. n BY <1>2, <1>4, <1>5, <1>7
  <1>9. \A i \in 1 .. n : s[i].type = "KEY" =>
          /\ (\A j \in 1 .. i - 1 : ~KeyOf(s, j, s[i].code)) => (s[i].value = 1 <=> s[i].code \notin keys)
          /\ \A j \in 1 .. i - 1 :
               KeyOf(s, j, s[i].code) /\ (\A k \in j + 1 .. i - 1 : ~KeyOf(s, k, s[i].code))
               => (s[i].value = 1 <=> s[j].value = 0)
    BY <1>4 DEF CanSend, KeyOf
  <1>10. s[1].type = "KEY" => (s[1].value = 1 <=> s[1].code \notin keys)
    <2>1. 1 .. 1 - 1 = {} OBVIOUS
    <2> QED BY <1>8, <1>9, <2>1
  <1>11. ASSUME NEW i \in 1 .. m, t[i].type = "KEY"
         PROVE  /\ (\A j \in 1 .. i - 1 : ~KeyOf(t, j, t[i].code)) => (t[i].value = 1 <=> t[i].code \notin down2)
                /\ \A j \in 1 .. i - 1 :
                     KeyOf(t, j, t[i].code) /\ (\A k \in j + 1 .. i - 1 : ~KeyOf(t, k, t[i].code))
                     => (t[i].value = 1 <=> t[j].value = 0)
    <2> DEFINE key == t[i].code i1 == i + 1
    <2>1. i1 \in 1 .. n /\ s[i1] = t[i] /\ i1 - 1 = i /\ i \in Nat /\ i1 \in Nat BY <1>3, <1>5, <1>8
    <2>2. \A j \in 1 .. i - 1 : j \in 1 .. m /\ t[j] = s[j + 1] BY <1>3, <1>5
    <2>3. \A j \in 1 .. i - 1 : KeyOf(t, j, key) <=> KeyOf(s, j + 1, key) BY <2>2 DEF KeyOf
    <2> HIDE DEF key, i1
    <2>4. /\ (\A j \in 1 .. i : ~KeyOf(s, j, key)) => (s[i1].value = 1 <=> key \notin keys)
          /\ \A j \in 1 .. i :
               KeyOf(s, j, key) /\ (\A k \in j + 1 .. i : ~KeyOf(s, k, key))
               => (s[i1].value = 1 <=> s[j].value = 0)
      <3>1. s[i1].code = key BY <2>1 DEF key
      <3> QED BY <1>9, <1>11, <2>1, <3>1
    <2>5. ASSUME \A j \in 1 .. i - 1 : ~KeyOf(t, j, key)
          PROVE  t[i].value = 1 <=> key \notin down2
      <3>1. \A j \in 2 .. i : ~KeyOf(s, j, key)
        <4> TAKE j \in 2 .. i
        <4>1. j - 1 \in 1 .. i - 1 /\ (j - 1) + 1 = j BY <2>1
        <4> QED BY <2>3, <2>5, <4>1
      <3>2. CASE KeyOf(s, 1, key)
        <4>1. 1 \in 1 .. i /\ 1 + 1 = 2 BY <2>1
        <4>2. s[i1].value = 1 <=> s[1].value = 0 BY <2>4, <3>1, <3>2, <4>1
        <4>3. s[1].value = 0 <=> key \notin down2 BY <1>6, <3>2 DEF KeyOf, Pressed
        <4> QED BY <2>1, <4>2, <4>3
      <3>3. CASE ~KeyOf(s, 1, key)
        <4>1. \A j \in 1 .. i : ~KeyOf(s, j, key)
          <5> TAKE j \in 1 .. i
          <5>1. j = 1 \/ j \in 2 .. i BY <2>1
          <5> QED BY <3>1, <3>3, <5>1
        <4>2. key \in down2 <=> key \in keys BY <1>6, <3>3 DEF KeyOf, Pressed
        <4> QED BY <2>1, <2>4, <4>1, <4>2
      <3> QED BY <3>2, <3>3
    <2>6. ASSUME NEW j \in 1 .. i - 1, KeyOf(t, j, key), \A k \in j + 1 .. i - 1 : ~KeyOf(t, k, key)
          PROVE  t[i].value = 1 <=> t[j].value = 0
      <3>1. KeyOf(s, j + 1, key) /\ s[j + 1] = t[j] /\ j + 1 \in 1 .. i BY <2>1, <2>2, <2>3, <2>6
      <3>2. \A k \in (j + 1) + 1 .. i : ~KeyOf(s, k, key)
        <4> TAKE k \in (j + 1) + 1 .. i
        <4>1. k - 1 \in j + 1 .. i - 1 /\ k - 1 \in 1 .. i - 1 /\ (k - 1) + 1 = k BY <2>1
        <4> QED BY <2>3, <2>6, <4>1
      <3> QED BY <2>1, <2>4, <3>1, <3>2
    <2> QED BY <2>5, <2>6 DEF key
  <1>12. CanSend(down2, t)
    <2> HIDE DEF down2
    <2> QED BY <1>5, <1>11 DEF CanSend, KeyOf
  <1> QED BY <1>6, <1>10, <1>12 DEF t

\* The sync at the end makes no difference.
LEMMA CanSendSync ==
  ASSUME NEW keys, NEW p \in Seq(Event), CanSend(keys, p)
  PROVE  CanSend(keys, Append(p, Syn))
  <1> DEFINE s == Append(p, Syn) n == Len(p)
  <1>1. s \in Seq(Event) BY SynIs, AppendProperties
  <1>2. Len(s) = n + 1 BY SynIs, AppendProperties
  <1>3. \A i \in 1 .. n : s[i] = p[i] BY SynIs, AppendProperties
  <1>4. s[n + 1] = Syn BY SynIs, AppendProperties
  <1>5. n \in Nat /\ DOMAIN p = 1 .. n BY LenProperties
  <1>6. DOMAIN s = 1 .. Len(s) BY <1>1, LenProperties
  <1> HIDE DEF s, n
  <1>7. DOMAIN s = 1 .. n + 1 BY <1>2, <1>6
  <1>8. ASSUME NEW i \in 1 .. n + 1, s[i].type = "KEY"
        PROVE  /\ i \in 1 .. n /\ s[i] = p[i] /\ \A j \in 1 .. i - 1 : s[j] = p[j]
    <2>1. i # n + 1 BY <1>4, <1>8, SynIs
    <2>2. i \in 1 .. n /\ \A j \in 1 .. i - 1 : j \in 1 .. n BY <1>5, <2>1
    <2> QED BY <1>3, <2>2
  <1>9. ASSUME NEW i \in 1 .. n + 1, s[i].type = "KEY"
        PROVE  /\ (\A j \in 1 .. i - 1 : ~KeyOf(s, j, s[i].code)) => (s[i].value = 1 <=> s[i].code \notin keys)
               /\ \A j \in 1 .. i - 1 :
                    KeyOf(s, j, s[i].code) /\ (\A k \in j + 1 .. i - 1 : ~KeyOf(s, k, s[i].code))
                    => (s[i].value = 1 <=> s[j].value = 0)
    <2>1. i \in 1 .. n /\ s[i] = p[i] /\ \A j \in 1 .. i - 1 : s[j] = p[j] BY <1>8, <1>9
    <2>2. \A j \in 1 .. i - 1 : \A k : KeyOf(s, j, k) <=> KeyOf(p, j, k) BY <2>1 DEF KeyOf
    <2>3. \A j \in 1 .. i - 1 : \A k \in j + 1 .. i - 1 : k \in 1 .. i - 1 BY <2>1
    <2>4. /\ (\A j \in 1 .. i - 1 : ~KeyOf(p, j, p[i].code)) => (p[i].value = 1 <=> p[i].code \notin keys)
          /\ \A j \in 1 .. i - 1 :
               KeyOf(p, j, p[i].code) /\ (\A k \in j + 1 .. i - 1 : ~KeyOf(p, k, p[i].code))
               => (p[i].value = 1 <=> p[j].value = 0)
      <3>1. p[i].type = "KEY" BY <1>9, <2>1
      <3> QED BY <1>5, <2>1, <3>1 DEF CanSend, KeyOf
    <2> QED BY <2>1, <2>2, <2>3, <2>4
  <1>10. CanSend(keys, s) BY <1>7, <1>9 DEF CanSend, KeyOf
  <1> QED BY <1>10 DEF s

\* Keys the device has, as far as its packets show.
Keys == {k \in Nat : \E p \in scene.packets[1] : \E i \in DOMAIN p : IsKey(p[i], k)}

\* The code that each key of the device has when it gets to each filter.
Lost(code, k) == \A c \in Kind("Commit") : code[c][k] = Gone
LockOf(code, f, k) == scene.filters[f].kind = "KeyLock" /\ code[f][k] = Data(f).key

Follows(code) ==
  /\ \A k \in Keys : code[1][k] = k
  /\ \A f \in Filters \ Kind("Commit") : \A k \in Keys :
       code[f + 1][k] = IF code[f][k] = Gone THEN Gone ELSE Renamed(f, code[f][k])

\* Two keys do not become one, and no key is locked twice, unless they are gone
\* before the end of the line.
Distinct(code) ==
  /\ \A f \in Filters : \A k \in Keys : code[f][k] = Gone => Lost(code, k)
  /\ \A f \in Filters : \A k, l \in Keys :
       code[f][k] = code[f][l] => k = l \/ (Lost(code, k) /\ Lost(code, l))
  /\ \A f, g \in Filters : \A k \in Keys :
       LockOf(code, f, k) /\ LockOf(code, g, k) => f = g \/ Lost(code, k)

Codes == [Filters -> [Keys -> Nat \cup {Gone}]]

\* A line of filters that make one step, in which a KeyLock is preceded by a
\* NoRepeat, for a device whose keys send 0, 1 and 2.
KeyLine ==
  /\ Chain(scene, SimpleKinds)
  /\ \A f \in Kind("KeyLock") : \E g \in Kind("NoRepeat") : g < f
  /\ \A p \in scene.packets[1] : \A i \in DOMAIN p : p[i].type = "KEY" => p[i].value \in 0 .. 2
  /\ \E code \in Codes : Follows(code) /\ Distinct(code)

CodeAt == CHOOSE code \in Codes : Follows(code) /\ Distinct(code)
Lock(f, k) == LockOf(CodeAt, f, k)

\* Between two events of a key it is down behind the line exactly when its lock
\* is on, or if there is none, when it is down on the device.
Settled(k, c) ==
  CodeAt[c][k] # Gone =>
    /\ \A f \in Filters : Lock(f, k) => (CodeAt[c][k] \in down[c] <=> st[f].on)
    /\ (\A f \in Filters : ~Lock(f, k)) => (CodeAt[c][k] \in down[c] <=> k \in held[1])

\* An event of it is on its way: it says what will be, from the lock on.
Turning(k, c) ==
  CodeAt[c][k] # Gone =>
    /\ \A f \in Filters : Lock(f, k) =>
         /\ Self <= f => (CodeAt[c][k] \in down[c] <=> st[f].on)
         /\ f < Self => /\ ev.value = 1 <=> CodeAt[c][k] \notin down[c]
                        /\ ev.value # 0 <=> st[f].on
    /\ (\A f \in Filters : ~Lock(f, k)) =>
         /\ ev.value = 1 <=> CodeAt[c][k] \notin down[c]
         /\ ev.value # 0 <=> k \in held[1]

\* The event is one of k.
OfKey(k, c) ==
  /\ ev.code = CodeAt[Self][k] /\ ev.value \in 0 .. 2
  /\ (\E g \in Kind("NoRepeat") : g < Self) => ev.value # 2
  /\ Turning(k, c)
  /\ \A l \in Keys : l # k => Settled(l, c)

KeySends == {e \in Event : e.type = "KEY" => e.code \in Keys /\ e.value \in 0 .. 2}

Keying(c) ==
  /\ unread[1] \in Seq(KeySends) /\ CanSend(held[1], unread[1])
  /\ Len(stack) <= 1
  /\ stack = <<>> => \A k \in Keys : Settled(k, c)
  /\ stack # <<>> /\ Top.at = "modify" =>
       /\ ev.type # "KEY" => \A k \in Keys : Settled(k, c)
       /\ ev.type = "KEY" => \E k \in Keys : OfKey(k, c)

KeyInv == KeyLine => \A c \in Kind("Commit") : Keying(c)

LEMMA CodeFacts ==
  ASSUME KeyLine
  PROVE  CodeAt \in Codes /\ Follows(CodeAt) /\ Distinct(CodeAt)
  BY DEF KeyLine, CodeAt

LEMMA SameCodes ==
  ASSUME UNCHANGED scene
  PROVE  /\ Filters' = Filters /\ (\A k : Kind(k)' = Kind(k)) /\ Keys' = Keys
         /\ CodeAt' = CodeAt /\ KeyLine' = KeyLine /\ KeySends' = KeySends
         /\ \A f, k : Lock(f, k)' <=> Lock(f, k)
  <1>1. Filters' = Filters /\ Devices' = Devices /\ Keys' = Keys BY DEF Filters, Devices, Keys
  <1>2. \A k : Kind(k)' = Kind(k) BY <1>1 DEF Kind
  <1>3. \A f : Data(f)' = Data(f) BY DEF Data
  <1>4. \A f, x : Renamed(f, x)' = Renamed(f, x) BY <1>3 DEF Renamed
  <1>5. \A code : Follows(code)' <=> Follows(code) BY <1>1, <1>2, <1>4 DEF Follows
  <1>6. \A code : (\A k : Lost(code, k)' <=> Lost(code, k)) /\ \A f, k : LockOf(code, f, k)' <=> LockOf(code, f, k)
    BY <1>2, <1>3 DEF Lost, LockOf
  <1>7. \A code : Distinct(code)' <=> Distinct(code) BY <1>1, <1>6 DEF Distinct
  <1>8. Codes' = Codes BY <1>1 DEF Codes
  <1>9. CodeAt' = CodeAt BY <1>5, <1>7, <1>8 DEF CodeAt
  <1>10. KeyLine' = KeyLine BY <1>1, <1>2, <1>5, <1>7, <1>8 DEF KeyLine
  <1>11. KeySends' = KeySends BY <1>1 DEF KeySends
  <1>12. \A f, k : Lock(f, k)' <=> Lock(f, k) BY <1>6, <1>9 DEF Lock
  <1> QED BY <1>1, <1>2, <1>9, <1>10, <1>11, <1>12

\* What the codes are good for: with one Commit at the end.
LEMMA LineFacts ==
  ASSUME Typed, KeyLine, NEW c \in Kind("Commit")
  PROVE  /\ c \in Filters /\ Filters \subseteq Nat \ {0} /\ 1 \in Filters /\ 1 \in Devices
         /\ \A f \in Filters : f <= c
         /\ \A f \in Filters : \A k \in Keys : CodeAt[f][k] \in Nat \cup {Gone}
         /\ \A k \in Keys : CodeAt[1][k] = k
         /\ \A f \in Filters \ Kind("Commit") : \A k \in Keys :
              CodeAt[f + 1][k] = IF CodeAt[f][k] = Gone THEN Gone ELSE Renamed(f, CodeAt[f][k])
         /\ \A k \in Keys : CodeAt[c][k] # Gone =>
              /\ \A f \in Filters : CodeAt[f][k] # Gone
              /\ \A f \in Filters : \A l \in Keys : CodeAt[f][k] = CodeAt[f][l] => k = l
              /\ \A f, g \in Filters : Lock(f, k) /\ Lock(g, k) => f = g
  <1>1. CodeAt \in Codes /\ Follows(CodeAt) /\ Distinct(CodeAt) BY CodeFacts
  <1>2. c \in Filters /\ Filters = DOMAIN scene.filters /\ scene.filters[c].kind = "Commit"
    BY DEF Kind, Filters
  <1>3. Chain(scene, SimpleKinds) BY DEF KeyLine
  <1>4. Filters \subseteq Nat \ {0} /\ (\A f \in Filters : f <= c) /\ scene.roots = <<1>>
    BY <1>2, <1>3 DEF Chain
  <1>5. 1 \in Devices /\ scene.roots[1] = 1 BY <1>4 DEF Devices
  <1>6. 1 \in Filters
    <2>1. scene \in Scenes BY DEF Typed, TypeOK
    <2> QED BY <1>2, <1>5, <2>1, ScenesAssumption DEF Devices
  <1>7. \A k : CodeAt[c][k] # Gone => ~Lost(CodeAt, k) BY DEF Lost
  <1>8. \A f \in Filters : \A k \in Keys : CodeAt[f][k] \in Nat \cup {Gone} BY <1>1 DEF Codes
  <1> QED BY <1>1, <1>2, <1>4, <1>5, <1>6, <1>7, <1>8 DEF Follows, Distinct, Lock

LEMMA SettledKept ==
  ASSUME UNCHANGED scene, NEW l, NEW c, Settled(l, c),
         held'[1] = held[1], down'[c] = down[c],
         CodeAt[c][l] # Gone => \A f \in Filters : Lock(f, l) => st'[f].on = st[f].on
  PROVE  Settled(l, c)'
  <1>1. Filters' = Filters /\ CodeAt' = CodeAt /\ \A f, k : Lock(f, k)' <=> Lock(f, k) BY SameCodes
  <1> QED BY <1>1 DEF Settled

\* The step of a filter before the end of the line.
LEMMA KeyStep ==
  ASSUME Typed, KeyLine, Modify, stack # <<>>, F.kind # "Commit"
  PROVE  /\ Top.at = "modify" /\ F.next = Self + 1 /\ Self \in Filters \ Kind("Commit") /\ Self \in Nat
         /\ UNCHANGED <<scene, unread, held, down>>
         /\ \A f \in Filters : f # Self => st'[f] = st[f]
         /\ Passed
  <1>1. Chain(scene, SimpleKinds) BY DEF KeyLine
  <1>2. Self \in Filters /\ Self \in Nat /\ F.kind \in SimpleKinds /\ F.next = Self + 1 /\ F.next # 0
        /\ F = scene.filters[Self]
    BY <1>1, ChainFacts
  <1>3. Passed BY <1>2, SimplePassed
  <1>4. Syncs BY <1>2, SimpleSyncs
  <1> QED BY <1>2, <1>3, <1>4 DEF Syncs, Environment, Kind

LEMMA OtherKeying ==
  ASSUME Typed, KeyLine, Modify, stack # <<>>, F.kind # "Commit", ev.type # "KEY",
         NEW c \in Kind("Commit"), Keying(c)
  PROVE  Keying(c)'
  <1>1. /\ Top.at = "modify" /\ F.next = Self + 1 /\ Self \in Filters
        /\ UNCHANGED <<scene, unread, held, down>>
        /\ \A f \in Filters : f # Self => st'[f] = st[f]
        /\ Passed
    BY KeyStep
  <1>2. KeySends' = KeySends /\ Keys' = Keys BY <1>1, SameCodes
  <1>3. \A k \in Keys : Settled(k, c) BY <1>1 DEF Keying
  <1>4. OtherPassed BY <1>1 DEF Passed
  <1>5. \A f \in Filters, k \in Keys : Lock(f, k) => st'[f].on = st[f].on
    <2>1. F.kind = "KeyLock" => st'[Self].on = st[Self].on BY <1>4 DEF OtherPassed, S
    <2>2. \A f \in Filters, k \in Keys : Lock(f, k) => scene.filters[f].kind = "KeyLock"
      BY DEF Lock, LockOf
    <2> QED BY <1>1, <2>1, <2>2 DEF F
  <1>6. \A k \in Keys : Settled(k, c)' BY <1>1, <1>3, <1>5, SettledKept
  <1>7. unread'[1] \in Seq(KeySends') /\ CanSend(held[1], unread[1])' BY <1>1, <1>2 DEF Keying, CanSend
  <1>8. Len(stack) <= 1 BY DEF Keying
  <1>9. Len(stack') <= 1 /\ (stack' # <<>> /\ Top'.at = "modify" => ev'.type # "KEY")
    <2>1. CASE Drop
      <3>1. stack' = <<>> /\ Len(<<>>) <= 1 BY <1>8, <2>1, OneCall
      <3> QED BY <3>1
    <2>2. CASE Never("trap") \/ Never("loop") BY <1>8, <2>2, OneCall
    <2>3. CASE \E e : Forward(e) /\ e.type # "KEY" BY <1>8, <2>3, OneCall
    <2>4. ev.type = "KEY" \/ Drop \/ Never("trap") \/ Never("loop") \/ \E e : Forward(e) /\ e.type # "KEY"
      BY <1>4 DEF OtherPassed, Alike
    <2> QED BY <2>1, <2>2, <2>3, <2>4
  <1>10. CanSend(held[1], unread[1])' = CanSend(held'[1], unread'[1]) BY DEF CanSend
  <1> QED BY <1>2, <1>6, <1>7, <1>9, <1>10 DEF Keying

\* An event of a key is sent on, as that of the same key.
LEMMA KeySentOn ==
  ASSUME Typed, KeyLine, Modify, stack # <<>>, F.kind # "Commit",
         NEW c \in Kind("Commit"), Keying(c), NEW k \in Keys, OfKey(k, c), NEW e, Forward(e),
         e.type = "KEY", e.code = CodeAt[Self + 1][k], e.value \in 0 .. 2,
         ev.value # 2 \/ F.kind = "NoRepeat" => e.value # 2,
         CodeAt[c][k] # Gone =>
           /\ \A f \in Filters : Lock(f, k) =>
                /\ Self < f => (CodeAt[c][k] \in down[c] <=> st'[f].on)
                /\ f <= Self => /\ e.value = 1 <=> CodeAt[c][k] \notin down[c]
                                /\ e.value # 0 <=> st'[f].on
           /\ (\A f \in Filters : ~Lock(f, k)) =>
                /\ e.value = 1 <=> CodeAt[c][k] \notin down[c]
                /\ e.value # 0 <=> k \in held[1],
         \A l \in Keys : l # k => Settled(l, c)'
  PROVE  Keying(c)'
  <1>1. /\ Top.at = "modify" /\ F.next = Self + 1 /\ Self \in Filters /\ Self \in Nat
        /\ UNCHANGED <<scene, unread, held, down>>
    BY KeyStep
  <1>2. /\ Filters' = Filters /\ Keys' = Keys /\ CodeAt' = CodeAt /\ KeySends' = KeySends
        /\ (\A x : Kind(x)' = Kind(x)) /\ \A f, x : Lock(f, x)' <=> Lock(f, x)
    BY <1>1, SameCodes
  <1>3. Len(stack) <= 1 BY DEF Keying
  <1>4. /\ stack' # <<>> /\ Len(stack') <= 1 /\ ev' = e /\ Top'.at = "modify" /\ Self' = Self + 1
    BY <1>1, <1>3, OneCall
  <1>5. Filters \subseteq Nat BY LineFacts
  <1>6. \A f \in Filters : /\ Self + 1 <= f <=> Self < f
                           /\ f < Self + 1 <=> f <= Self
                           /\ f <= Self => f < Self \/ f = Self
    <2> DEFINE n == Self
    <2>1. n \in Nat BY <1>1
    <2> HIDE DEF n
    <2>2. \A f \in Nat : /\ n + 1 <= f <=> n < f
                         /\ f < n + 1 <=> f <= n
                         /\ f <= n => f < n \/ f = n
      BY <2>1
    <2> QED BY <1>5, <2>2 DEF n
  <1>7. Turning(k, c)' BY <1>1, <1>2, <1>4, <1>6 DEF Turning
  <1>8. (\E g \in Kind("NoRepeat")' : g < Self') => e.value # 2
    <2> SUFFICES ASSUME NEW g \in Kind("NoRepeat"), g < Self + 1 PROVE e.value # 2
      BY <1>2, <1>4
    <2>1. g \in Filters /\ scene.filters[g].kind = "NoRepeat" BY DEF Kind
    <2>2. g < Self \/ g = Self BY <1>6, <2>1
    <2>3. g < Self => ev.value # 2 BY DEF OfKey
    <2>4. g = Self => F.kind = "NoRepeat" BY <2>1 DEF F
    <2> QED BY <2>2, <2>3, <2>4
  <1>9. OfKey(k, c)' BY <1>2, <1>4, <1>7, <1>8 DEF OfKey
  <1>10. unread'[1] \in Seq(KeySends') BY <1>1, <1>2 DEF Keying
  <1>11. CanSend(held'[1], unread'[1]) BY <1>1 DEF Keying
  <1>12. CanSend(held[1], unread[1])' = CanSend(held'[1], unread'[1]) BY DEF CanSend
  <1> QED BY <1>2, <1>4, <1>9, <1>10, <1>11, <1>12 DEF Keying

\* An event goes no further.
LEMMA KeyDropped ==
  ASSUME Typed, KeyLine, Modify, stack # <<>>, F.kind # "Commit",
         NEW c \in Kind("Commit"), Keying(c), Drop, \A l \in Keys : Settled(l, c)'
  PROVE  Keying(c)'
  <1>1. UNCHANGED <<scene, unread, held, down>> BY KeyStep
  <1>2. KeySends' = KeySends /\ Keys' = Keys BY <1>1, SameCodes
  <1>3. stack' = <<>> BY OneCall DEF Keying
  <1>4. Len(stack') <= 1
    <2>1. Len(<<>>) = 0 OBVIOUS
    <2> QED BY <1>3, <2>1
  <1>5. unread'[1] \in Seq(KeySends') /\ CanSend(held'[1], unread'[1]) BY <1>1, <1>2 DEF Keying
  <1>6. CanSend(held[1], unread[1])' = CanSend(held'[1], unread'[1]) BY DEF CanSend
  <1> QED BY <1>2, <1>3, <1>4, <1>5, <1>6 DEF Keying

\* The lock of a key is the only one.
LEMMA LockKeying ==
  ASSUME Typed, KeyLine, Modify, stack # <<>>, F.kind = "KeyLock", ev.type = "KEY", ev.code = D.key,
         NEW c \in Kind("Commit"), Keying(c), NEW k \in Keys, OfKey(k, c)
  PROVE  Keying(c)'
  <1>1. /\ Top.at = "modify" /\ F.next = Self + 1 /\ Self \in Filters \ Kind("Commit") /\ Self \in Nat
        /\ UNCHANGED <<scene, unread, held, down>>
        /\ \A f \in Filters : f # Self => st'[f] = st[f]
        /\ Passed
    BY KeyStep
  <1>2. ev \in Event /\ S = st[Self] /\ S.on \in BOOLEAN BY CallFacts, KeepFacts
  <1>3. /\ ev.code = CodeAt[Self][k] /\ ev.value \in 0 .. 2 /\ Turning(k, c)
        /\ (\E g \in Kind("NoRepeat") : g < Self) => ev.value # 2
        /\ \A l \in Keys : l # k => Settled(l, c)
    BY DEF OfKey
  <1>4. Self \in Kind("KeyLock") BY <1>1 DEF Kind, F
  <1>5. ev.value \in {0, 1}
    <2>1. ev.value # 2 BY <1>3, <1>4 DEF KeyLine
    <2> QED BY <1>3, <2>1
  <1>6. \/ ev.value = 0 /\ Drop /\ st'[Self].on = S.on
        \/ ev.value = 1 /\ Forward(Unlock(ev, S)) /\ st'[Self].on = ~S.on
    BY <1>1, <1>5 DEF Passed, KeyPassed
  <1>7. Lock(Self, k) BY <1>3, <1>4 DEF Lock, LockOf, Kind, D, F, Data
  <1>8. \A f, g \in Filters : Lock(f, k) /\ Lock(g, k) /\ CodeAt[c][k] # Gone => f = g BY LineFacts
  <1>9. \A l \in Keys : l # k /\ CodeAt[c][l] # Gone => ~Lock(Self, l)
    <2> SUFFICES ASSUME NEW l \in Keys, CodeAt[c][l] # Gone, Lock(Self, l) PROVE l = k
      OBVIOUS
    <2>1. CodeAt[Self][l] = CodeAt[Self][k] BY <1>7 DEF Lock, LockOf
    <2> QED BY <1>1, <2>1, LineFacts
  <1>10. \A l \in Keys : l # k => Settled(l, c)'
    <2> TAKE l \in Keys
    <2> HAVE l # k
    <2>1. CodeAt[c][l] # Gone => \A f \in Filters : Lock(f, l) => st'[f].on = st[f].on
      BY <1>1, <1>9
    <2>2. Settled(l, c) BY <1>3
    <2> QED BY <1>1, <2>1, <2>2, SettledKept
  <1>11. CASE ev.value = 0 /\ Drop /\ st'[Self].on = S.on
    <2>1. Settled(k, c)
      <3> SUFFICES ASSUME CodeAt[c][k] # Gone
                   PROVE  \A f \in Filters : Lock(f, k) => (CodeAt[c][k] \in down[c] <=> st[f].on)
        BY <1>1, <1>7 DEF Settled
      <3>1. CodeAt[c][k] \in down[c] <=> st[Self].on BY <1>1, <1>3, <1>7 DEF Turning
      <3> QED BY <1>1, <1>7, <1>8, <3>1
    <2>2. \A f \in Filters : st'[f].on = st[f].on BY <1>1, <1>2, <1>11
    <2>3. Settled(k, c)' BY <1>1, <2>1, <2>2, SettledKept
    <2> QED BY <1>4, <1>10, <1>11, <2>3, KeyDropped
  <1>12. CASE ev.value = 1 /\ Forward(Unlock(ev, S)) /\ st'[Self].on = ~S.on
    <2> DEFINE e == Unlock(ev, S)
    <2>1. e.type = "KEY" /\ e.code = ev.code /\ e.value = (IF S.on THEN 0 ELSE 1)
      BY <1>2, <1>12 DEF Unlock, Event
    <2> HIDE DEF e
    <2>2. e.code = CodeAt[Self + 1][k]
      <3>1. \A x : Renamed(Self, x) = x BY SameName
      <3>2. CodeAt[Self][k] # Gone BY <1>2, <1>3 DEF Event, Gone
      <3>3. CodeAt[Self + 1][k] = IF CodeAt[Self][k] = Gone THEN Gone ELSE Renamed(Self, CodeAt[Self][k])
        BY <1>1, LineFacts
      <3> QED BY <1>3, <2>1, <3>1, <3>2, <3>3
    <2>3. ASSUME CodeAt[c][k] # Gone, NEW f \in Filters, Lock(f, k)
          PROVE  /\ f = Self
                 /\ e.value = 1 <=> CodeAt[c][k] \notin down[c]
                 /\ e.value # 0 <=> st'[f].on
      <3>1. f = Self BY <1>1, <1>7, <1>8, <2>3
      <3>2. CodeAt[c][k] \in down[c] <=> S.on BY <1>1, <1>2, <1>3, <1>7, <2>3 DEF Turning
      <3>3. st'[f].on = ~S.on BY <1>12, <3>1
      <3>4. CASE S.on
        <4>1. e.value = 0 /\ CodeAt[c][k] \in down[c] /\ ~st'[f].on BY <2>1, <3>2, <3>3, <3>4
        <4> QED BY <3>1, <4>1
      <3>5. CASE ~S.on
        <4>1. e.value = 1 /\ CodeAt[c][k] \notin down[c] /\ st'[f].on BY <2>1, <3>2, <3>3, <3>5
        <4> QED BY <3>1, <4>1
      <3> QED BY <3>4, <3>5
    <2>4. CodeAt[c][k] # Gone =>
            /\ \A f \in Filters : Lock(f, k) =>
                 /\ Self < f => (CodeAt[c][k] \in down[c] <=> st'[f].on)
                 /\ f <= Self => /\ e.value = 1 <=> CodeAt[c][k] \notin down[c]
                                 /\ e.value # 0 <=> st'[f].on
            /\ (\A f \in Filters : ~Lock(f, k)) =>
                 /\ e.value = 1 <=> CodeAt[c][k] \notin down[c]
                 /\ e.value # 0 <=> k \in held[1]
      <3>1. ~(Self < Self) BY <1>1
      <3> QED BY <1>1, <1>7, <2>3, <3>1
    <2>5. e.value \in 0 .. 2 /\ e.value # 2 BY <2>1
    <2>6. Forward(e) BY <1>12 DEF e
    <2> QED BY <1>3, <1>4, <1>10, <2>1, <2>2, <2>4, <2>5, <2>6, KeySentOn
  <1> QED BY <1>6, <1>11, <1>12

LEMMA KeyKeying ==
  ASSUME Typed, KeyLine, Modify, stack # <<>>, F.kind # "Commit", ev.type = "KEY",
         NEW c \in Kind("Commit"), Keying(c)
  PROVE  Keying(c)'
  <1>1. /\ Top.at = "modify" /\ F.next = Self + 1 /\ Self \in Filters \ Kind("Commit") /\ Self \in Nat
        /\ UNCHANGED <<scene, unread, held, down>>
        /\ \A f \in Filters : f # Self => st'[f] = st[f]
        /\ Passed
    BY KeyStep
  <1>2. ev \in Event /\ S = st[Self] BY CallFacts, KeepFacts
  <1>3. PICK k \in Keys : OfKey(k, c) BY <1>1 DEF Keying
  <1>4. CASE F.kind = "KeyLock" /\ ev.code = D.key BY <1>3, <1>4, LockKeying
  <1>5. CASE ~(F.kind = "KeyLock" /\ ev.code = D.key)
    <2>1. /\ ev.code = CodeAt[Self][k] /\ ev.value \in 0 .. 2 /\ Turning(k, c)
          /\ (\E g \in Kind("NoRepeat") : g < Self) => ev.value # 2
          /\ \A l \in Keys : l # k => Settled(l, c)
      BY <1>3 DEF OfKey
    <2>2. ~Lock(Self, k) BY <1>5, <2>1 DEF Lock, LockOf, D, F, Data
    <2>3. \A f, l : Lock(f, l) => scene.filters[f].kind = "KeyLock" BY DEF Lock, LockOf
    <2>4. \A f \in Filters : scene.filters[f].kind = "KeyLock" => st'[f].on = st[f].on
      <3>1. F.kind = "KeyLock" => st'[Self].on = st[Self].on
        BY <1>1, <1>2, <1>5 DEF Passed, KeyPassed
      <3> QED BY <1>1, <3>1 DEF F
    <2>5. \A l \in Keys : l # k => Settled(l, c)' BY <1>1, <2>1, <2>3, <2>4, SettledKept
    <2>6. CodeAt[Self][k] # Gone BY <1>2, <2>1 DEF Event, Gone
    <2>7. CodeAt[Self + 1][k] = Renamed(Self, ev.code) BY <1>1, <2>1, <2>6, LineFacts
    <2>8. c \in Filters /\ Self < c /\ Self + 1 \in Filters
      <3>1. Self <= c /\ c \in Filters /\ c # Self /\ c \in Nat BY <1>1, LineFacts DEF Kind
      <3>2. F.next \in Filters
        <4>1. LoadedFilter(F, Filters) BY <1>1, ScenesAssumption DEF Typed, TypeOK, F, Filters
        <4>2. F.kind # "Commit" /\ F.next # 0 BY <1>1
        <4> QED BY <4>1, <4>2 DEF LoadedFilter
      <3> QED BY <1>1, <3>1, <3>2
    <2>9. CASE Drop /\ F.kind = "NoRepeat" /\ ev.value = 2
      <3>1. Settled(k, c)
        <4> SUFFICES ASSUME CodeAt[c][k] # Gone
                     PROVE  /\ \A f \in Filters : Lock(f, k) => (CodeAt[c][k] \in down[c] <=> st[f].on)
                            /\ (\A f \in Filters : ~Lock(f, k)) => (CodeAt[c][k] \in down[c] <=> k \in held[1])
          BY DEF Settled
        <4>1. ASSUME NEW f \in Filters, Lock(f, k) PROVE CodeAt[c][k] \in down[c] <=> st[f].on
          <5>1. f \in Nat /\ (Self <= f \/ f < Self) BY <1>1, LineFacts
          <5> QED BY <2>1, <2>9, <4>1, <5>1 DEF Turning
        <4>2. (\A f \in Filters : ~Lock(f, k)) => (CodeAt[c][k] \in down[c] <=> k \in held[1])
          BY <2>1, <2>9 DEF Turning
        <4> QED BY <4>1, <4>2
      <3>2. Settled(k, c)' BY <1>1, <2>3, <2>4, <3>1, SettledKept
      <3> QED BY <2>5, <2>9, <3>2, KeyDropped
    <2>10. CASE Renamed(Self, ev.code) = Gone
      <3>1. CodeAt[c][k] = Gone BY <2>7, <2>8, <2>10, LineFacts
      <3>2. Settled(k, c)' BY <1>1, <3>1, SameCodes DEF Settled
      <3>3. \A l \in Keys : Settled(l, c)' BY <2>5, <3>2
      <3>4. CASE Drop BY <3>3, <3>4, KeyDropped
      <3>5. CASE \E e \in Event : Forward(e) /\ e.type = "REL"
        <4>1. PICK e \in Event : Forward(e) /\ e.type = "REL" BY <3>5
        <4>2. stack' # <<>> /\ Len(stack') <= 1 /\ ev' = e BY <4>1, OneCall DEF Keying
        <4>3. KeySends' = KeySends /\ Keys' = Keys BY <1>1, SameCodes
        <4>4. unread'[1] \in Seq(KeySends') /\ CanSend(held'[1], unread'[1]) BY <1>1, <4>3 DEF Keying
        <4>5. CanSend(held[1], unread[1])' = CanSend(held'[1], unread'[1]) BY DEF CanSend
        <4>6. ev'.type # "KEY" BY <4>1, <4>2
        <4> QED BY <3>3, <4>2, <4>3, <4>4, <4>5, <4>6 DEF Keying
      <3>6. CASE F.kind = "NoRepeat" /\ ev.value = 2 /\ Drop BY <3>3, <3>6, KeyDropped
      <3> QED BY <1>1, <1>5, <2>10, <3>4, <3>5, <3>6 DEF Passed, KeyPassed
    <2>11. CASE Renamed(Self, ev.code) # Gone /\ ~(F.kind = "NoRepeat" /\ ev.value = 2)
      <3> DEFINE e == [ev EXCEPT !.code = Renamed(Self, ev.code)]
      <3>1. Forward(e) BY <1>1, <1>5, <2>11 DEF Passed, KeyPassed
      <3>2. e.type = "KEY" /\ e.code = CodeAt[Self + 1][k] /\ e.value = ev.value
        BY <1>2, <2>7 DEF Event
      <3> HIDE DEF e
      <3>3. e.value \in 0 .. 2 /\ (ev.value # 2 \/ F.kind = "NoRepeat" => e.value # 2)
        BY <2>1, <2>11, <3>2
      <3>4. ASSUME CodeAt[c][k] # Gone, NEW f \in Filters, Lock(f, k)
            PROVE  /\ Self < f => (CodeAt[c][k] \in down[c] <=> st'[f].on)
                   /\ f <= Self => /\ e.value = 1 <=> CodeAt[c][k] \notin down[c]
                                   /\ e.value # 0 <=> st'[f].on
        <4>1. f # Self /\ st'[f].on = st[f].on BY <2>2, <2>3, <2>4, <3>4
        <4>2. f \in Nat /\ (Self < f => Self <= f) /\ (f <= Self => f < Self) BY <1>1, <4>1, LineFacts
        <4> QED BY <2>1, <3>2, <3>4, <4>1, <4>2 DEF Turning
      <3>5. CodeAt[c][k] # Gone /\ (\A f \in Filters : ~Lock(f, k)) =>
              /\ e.value = 1 <=> CodeAt[c][k] \notin down[c]
              /\ e.value # 0 <=> k \in held[1]
        BY <2>1, <3>2 DEF Turning
      <3>6. CodeAt[c][k] # Gone =>
              /\ \A f \in Filters : Lock(f, k) =>
                   /\ Self < f => (CodeAt[c][k] \in down[c] <=> st'[f].on)
                   /\ f <= Self => /\ e.value = 1 <=> CodeAt[c][k] \notin down[c]
                                   /\ e.value # 0 <=> st'[f].on
              /\ (\A f \in Filters : ~Lock(f, k)) =>
                   /\ e.value = 1 <=> CodeAt[c][k] \notin down[c]
                   /\ e.value # 0 <=> k \in held[1]
        BY <3>4, <3>5
      <3> QED BY <1>3, <2>5, <3>1, <3>2, <3>3, <3>6, KeySentOn
    <2> QED BY <1>1, <1>5, <2>9, <2>10, <2>11 DEF Passed, KeyPassed
  <1> QED BY <1>4, <1>5

\* What comes out at the end.
LEMMA KeyArrives ==
  ASSUME Typed, KeyLine, stack # <<>>, Top.at = "modify", F.kind = "Commit", ev.type = "KEY",
         NEW c \in Kind("Commit"), c = Self, Keying(c)
  PROVE  \E k \in Keys :
           /\ ev.code = CodeAt[c][k] /\ CodeAt[c][k] # Gone
           /\ \A l \in Keys : l # k => Settled(l, c)
           /\ ev.value = 1 <=> ev.code \notin down[c]
           /\ \A f \in Filters : Lock(f, k) => (ev.value # 0 <=> st[f].on)
           /\ (\A f \in Filters : ~Lock(f, k)) => (ev.value # 0 <=> k \in held[1])
  <1>1. PICK k \in Keys : OfKey(k, c) BY DEF Keying
  <1>2. ev \in Event BY CallFacts
  <1>3. /\ ev.code = CodeAt[c][k] /\ Turning(k, c) /\ \A l \in Keys : l # k => Settled(l, c)
    BY <1>1 DEF OfKey
  <1>4. CodeAt[c][k] # Gone BY <1>2, <1>3 DEF Event, Gone
  <1>5. ASSUME NEW f \in Filters, Lock(f, k)
        PROVE  (ev.value = 1 <=> CodeAt[c][k] \notin down[c]) /\ (ev.value # 0 <=> st[f].on)
    <2>1. f <= c /\ f \in Nat /\ c \in Nat /\ c \in Filters BY LineFacts
    <2>2. f # c
      <3>1. scene.filters[f].kind = "KeyLock" /\ scene.filters[c].kind = "Commit"
        BY <1>5 DEF Lock, LockOf, Kind
      <3> QED BY <3>1
    <2>3. f < Self BY <2>1, <2>2
    <2> QED BY <1>3, <1>4, <1>5, <2>3 DEF Turning
  <1>6. (\A f \in Filters : ~Lock(f, k)) =>
          (ev.value = 1 <=> CodeAt[c][k] \notin down[c]) /\ (ev.value # 0 <=> k \in held[1])
    BY <1>3, <1>4 DEF Turning
  <1>7. ev.value = 1 <=> ev.code \notin down[c] BY <1>3, <1>5, <1>6
  <1> QED BY <1>3, <1>4, <1>5, <1>6, <1>7

LEMMA KeyCommit ==
  ASSUME Typed, PastTyped, KeyLine, Commit, F.kind = "Commit", UNCHANGED scene,
         NEW c \in Kind("Commit"), Keying(c)
  PROVE  Keying(c)'
  <1>1. stack # <<>> /\ Top.at = "modify" BY DEF Commit, At
  <1>2. F.next = 0 /\ c = Self /\ c \in Filters
    BY <1>1, ChainFacts DEF KeyLine
  <1>3. /\ Drop /\ UNCHANGED <<unread, st, held>>
        /\ down' = [down EXCEPT ![Self] = Pressed(@, ev)]
    BY <1>2 DEF Commit, ForwardIfAny, Environment
  <1>4. down'[c] = Pressed(down[c], ev) BY <1>2, <1>3 DEF PastTyped
  <1>5. /\ Filters' = Filters /\ Keys' = Keys /\ CodeAt' = CodeAt /\ KeySends' = KeySends
        /\ \A f, k : Lock(f, k)' <=> Lock(f, k)
    BY SameCodes
  <1>6. stack' = <<>> BY <1>1, <1>3, OneCall DEF Keying
  <1>7. \A k \in Keys : Settled(k, c)'
    <2>1. CASE ev.type # "KEY"
      <3>1. down'[c] = down[c] BY <1>4, <2>1 DEF Pressed
      <3>2. \A k \in Keys : Settled(k, c) BY <1>1, <2>1 DEF Keying
      <3> QED BY <1>3, <3>1, <3>2, SettledKept
    <2>2. CASE ev.type = "KEY"
      <3>1. PICK k \in Keys :
              /\ ev.code = CodeAt[c][k] /\ CodeAt[c][k] # Gone
              /\ \A l \in Keys : l # k => Settled(l, c)
              /\ \A f \in Filters : Lock(f, k) => (ev.value # 0 <=> st[f].on)
              /\ (\A f \in Filters : ~Lock(f, k)) => (ev.value # 0 <=> k \in held[1])
        BY <1>1, <1>2, <2>2, KeyArrives
      <3>2. CodeAt[c][k] \in down'[c] <=> ev.value # 0 BY <1>4, <2>2, <3>1 DEF Pressed
      <3>3. Settled(k, c)' BY <1>3, <1>5, <3>1, <3>2 DEF Settled
      <3>4. ASSUME NEW l \in Keys, l # k PROVE Settled(l, c)'
        <4> SUFFICES ASSUME CodeAt[c][l] # Gone PROVE Settled(l, c)'
          BY <1>5 DEF Settled
        <4>1. CodeAt[c][l] # CodeAt[c][k] BY <1>2, <3>1, <3>4, LineFacts
        <4>2. CodeAt[c][l] \in down'[c] <=> CodeAt[c][l] \in down[c]
          BY <1>4, <2>2, <3>1, <4>1 DEF Pressed
        <4>3. Settled(l, c) BY <3>1, <3>4
        <4> QED BY <1>3, <1>5, <4>2, <4>3 DEF Settled
      <3> QED BY <3>3, <3>4
    <2> QED BY <2>1, <2>2
  <1>8. Len(stack') <= 1
    <2>1. Len(<<>>) = 0 OBVIOUS
    <2> QED BY <1>6, <2>1
  <1>9. unread'[1] \in Seq(KeySends') /\ CanSend(held'[1], unread'[1]) BY <1>3, <1>5 DEF Keying
  <1>10. CanSend(held[1], unread[1])' = CanSend(held'[1], unread'[1]) BY DEF CanSend
  <1> QED BY <1>5, <1>6, <1>7, <1>8, <1>9, <1>10 DEF Keying

LEMMA KeyDevice ==
  ASSUME Typed, PastTyped, KeyLine, NEW d \in Devices, Packet(d) \/ Read(d), UNCHANGED scene,
         NEW c \in Kind("Commit"), Keying(c)
  PROVE  Keying(c)'
  <1>1. d = 1 /\ 1 \in Devices /\ scene.roots[1] = 1 /\ scene \in Scenes
    BY DEF Devices, KeyLine, Chain, Typed, TypeOK
  <1>2. UNCHANGED <<st, down>> /\ stack = <<>> BY DEF Packet, Read
  <1>3. /\ Filters' = Filters /\ Keys' = Keys /\ CodeAt' = CodeAt /\ KeySends' = KeySends
        /\ \A f, k : Lock(f, k)' <=> Lock(f, k)
        /\ \A x : Kind(x)' = Kind(x)
    BY SameCodes
  <1>4. unread \in [Devices -> Seq(Event)] /\ held \in [Devices -> SUBSET Nat]
    BY DEF Typed, TypeOK, PastTyped
  <1>5. \A k \in Keys : Settled(k, c) BY <1>2 DEF Keying
  <1>6. unread[1] \in Seq(KeySends) /\ CanSend(held[1], unread[1]) BY DEF Keying
  <1>7. CanSend(held[1], unread[1])' = CanSend(held'[1], unread'[1]) BY DEF CanSend
  <1>8. CASE Packet(1)
    <2>1. PICK p \in scene.packets[1] :
            CanSend(held[1], p) /\ unread' = [unread EXCEPT ![1] = Append(p, Syn)]
      BY <1>8 DEF Packet
    <2>2. p \in Seq(Event) BY <1>1, ScenesAssumption DEF Devices
    <2>3. \A i \in DOMAIN p : p[i] \in KeySends
      <3> TAKE i \in DOMAIN p
      <3>1. p[i] \in Event BY <2>2, LenProperties
      <3>2. p[i].type = "KEY" => p[i].code \in Keys BY <3>1 DEF Keys, IsKey, Event
      <3>3. p[i].type = "KEY" => p[i].value \in 0 .. 2 BY DEF KeyLine
      <3> QED BY <3>1, <3>2, <3>3 DEF KeySends
    <2>4. p \in Seq(KeySends) BY <2>2, <2>3, SeqByElements
    <2>5. Syn \in KeySends BY SynIs DEF KeySends
    <2>6. Append(p, Syn) \in Seq(KeySends) BY <2>4, <2>5, AppendProperties
    <2>7. unread'[1] = Append(p, Syn) BY <1>1, <1>4, <2>1
    <2>8. stack' = <<>> /\ held' = held BY <1>8 DEF Packet
    <2>9. CanSend(held'[1], unread'[1]) BY <2>1, <2>2, <2>7, <2>8, CanSendSync
    <2>10. \A k \in Keys : Settled(k, c)' BY <1>2, <1>5, <2>8, SettledKept
    <2>11. Len(stack') <= 1
      <3>1. Len(<<>>) = 0 OBVIOUS
      <3> QED BY <2>8, <3>1
    <2> QED BY <1>3, <1>7, <2>6, <2>7, <2>8, <2>9, <2>10, <2>11 DEF Keying
  <1>9. CASE Read(1)
    <2>1. /\ unread[1] # <<>> /\ ev' = Head(unread[1]) /\ ev' \in Event
          /\ unread' = [unread EXCEPT ![1] = Tail(@)]
          /\ stack' # <<>> /\ Len(stack') <= 1 /\ Top'.at = "modify" /\ Self' = 1
      BY <1>1, <1>9, ReadFacts
    <2>2. held' = [held EXCEPT ![1] = Pressed(@, ev')] BY <1>9 DEF Read
    <2>3. unread'[1] = Tail(unread[1]) /\ held'[1] = Pressed(held[1], ev') BY <1>1, <1>4, <2>1, <2>2
    <2>4. /\ ev'.type = "KEY" => (ev'.value = 1 <=> ev'.code \notin held[1])
          /\ CanSend(held'[1], unread'[1])
      <3>1. unread[1] \in Seq(Event) /\ held[1] \in SUBSET Nat BY <1>1, <1>4
      <3> QED BY <1>6, <2>1, <2>3, <3>1, CanSendRest
    <2>5. unread'[1] \in Seq(KeySends) /\ ev' \in KeySends BY <1>6, <2>1, <2>3, HeadTailProperties
    <2>6. ASSUME NEW l \in Keys, ev'.type = "KEY" => l # ev'.code PROVE Settled(l, c)'
      <3>1. l \in held'[1] <=> l \in held[1] BY <2>3, <2>6 DEF Pressed
      <3>2. Settled(l, c) BY <1>5
      <3> QED BY <1>2, <1>3, <3>1, <3>2 DEF Settled
    <2>7. ASSUME NEW k \in Keys, ev'.type = "KEY", k = ev'.code PROVE OfKey(k, c)'
      <3>1. k \in Keys /\ ev'.value \in 0 .. 2 BY <2>5, <2>7 DEF KeySends
      <3>2. CodeAt[1][k] = k BY <3>1, LineFacts
      <3>3. \A f \in Filters : f \in Nat /\ 1 <= f /\ ~(f < 1) BY LineFacts
      <3>4. Settled(k, c) BY <1>5, <3>1
      <3>5. k \in held'[1] <=> ev'.value # 0 BY <2>3, <2>7 DEF Pressed
      <3>6. ev'.value = 1 <=> k \notin held[1] BY <2>4, <2>7
      <3>7. (Turning(k, c)') <=>
              (CodeAt[c][k] # Gone =>
                /\ \A f \in Filters : Lock(f, k) =>
                     /\ Self' <= f => (CodeAt[c][k] \in down'[c] <=> st'[f].on)
                     /\ f < Self' => /\ ev'.value = 1 <=> CodeAt[c][k] \notin down'[c]
                                     /\ ev'.value # 0 <=> st'[f].on
                /\ (\A f \in Filters : ~Lock(f, k)) =>
                     /\ ev'.value = 1 <=> CodeAt[c][k] \notin down'[c]
                     /\ ev'.value # 0 <=> k \in held'[1])
        BY <1>3 DEF Turning
      <3>8. Turning(k, c)'
        BY <1>2, <2>1, <3>3, <3>4, <3>5, <3>6, <3>7 DEF Settled
      <3>9. \A l \in Keys : l # k => Settled(l, c)' BY <2>6, <2>7
      <3>10. ~\E g \in Kind("NoRepeat") : g < 1 BY <3>3 DEF Kind
      <3>11. ev'.code = CodeAt'[Self'][k] BY <1>3, <2>1, <2>7, <3>2
      <3> QED BY <1>3, <2>1, <3>1, <3>8, <3>9, <3>10, <3>11 DEF OfKey
    <2>8. ev'.type # "KEY" => \A k \in Keys : Settled(k, c)' BY <2>6
    <2>9. ev'.type = "KEY" => \E k \in Keys : OfKey(k, c)' BY <2>5, <2>7 DEF KeySends
    <2> QED BY <1>3, <1>7, <2>1, <2>4, <2>5, <2>8, <2>9 DEF Keying
  <1> QED BY <1>1, <1>8, <1>9

LEMMA KeyNext ==
  ASSUME Typed, PastTyped, KeyInv, [Next]_vars
  PROVE  KeyInv'
  <1>1. UNCHANGED scene BY StepFacts
  <1>2. /\ Filters' = Filters /\ (\A k : Kind(k)' = Kind(k)) /\ Keys' = Keys
        /\ CodeAt' = CodeAt /\ KeyLine' = KeyLine /\ KeySends' = KeySends
        /\ \A f, k : Lock(f, k)' <=> Lock(f, k)
    BY <1>1, SameCodes
  <1> SUFFICES ASSUME KeyLine, NEW c \in Kind("Commit") PROVE Keying(c)'
    BY <1>2 DEF KeyInv
  <1>3. Keying(c) BY DEF KeyInv
  <1>4. CASE Modify
    <2>1. stack # <<>> BY <1>4, KindActions
    <2>2. CASE F.kind = "Commit"
      <3>1. Commit BY <1>4, <2>2, KindActions
      <3> QED BY <1>1, <1>3, <2>2, <3>1, KeyCommit
    <2>3. CASE F.kind # "Commit" /\ ev.type = "KEY" BY <1>3, <1>4, <2>1, <2>3, KeyKeying
    <2>4. CASE F.kind # "Commit" /\ ev.type # "KEY" BY <1>3, <1>4, <2>1, <2>4, OtherKeying
    <2> QED BY <2>2, <2>3, <2>4
  <1>5. ASSUME NEW d \in Devices, Packet(d) \/ Read(d) PROVE Keying(c)'
    BY <1>1, <1>3, <1>5, KeyDevice
  <1>6. CASE UNCHANGED vars
    <2>1. UNCHANGED <<scene, st, ev, stack, unread, held, down>> BY <1>6 DEF vars, history
    <2>2. Top' = Top /\ Self' = Self BY <2>1 DEF Top, Self
    <2>3. \A k : (Settled(k, c)' <=> Settled(k, c)) /\ (Turning(k, c)' <=> Turning(k, c))
      BY <1>2, <2>1, <2>2 DEF Settled, Turning
    <2>4. \A k : OfKey(k, c)' <=> OfKey(k, c) BY <1>2, <2>1, <2>2, <2>3 DEF OfKey
    <2>5. CanSend(held[1], unread[1])' = CanSend(held'[1], unread'[1]) BY DEF CanSend
    <2> QED BY <1>2, <1>3, <2>1, <2>2, <2>3, <2>4, <2>5 DEF Keying
  <1> QED BY <1>4, <1>5, <1>6 DEF Next, Halted

LEMMA KeyInit ==
  ASSUME Init, Typed
  PROVE  KeyInv
  <1> SUFFICES ASSUME KeyLine, NEW c \in Kind("Commit") PROVE Keying(c)
    BY DEF KeyInv
  <1>1. 1 \in Devices /\ c \in Filters BY LineFacts
  <1>2. unread[1] = <<>> /\ stack = <<>> /\ down[c] = {} /\ held[1] = {} BY <1>1 DEF Init
  <1>3. \A f \in Filters : ~st[f].on BY DEF Init, Initial, Uninitialised
  <1>4. \A k \in Keys : Settled(k, c) BY <1>2, <1>3 DEF Settled
  <1>5. unread[1] \in Seq(KeySends) BY <1>2
  <1>6. CanSend({}, <<>>) BY DEF CanSend
  <1>7. Len(<<>>) = 0 OBVIOUS
  <1> QED BY <1>2, <1>4, <1>5, <1>6, <1>7 DEF Keying

\* Of lines of filters that make one step per event, with any number of keys
\* locked behind a NoRepeat, renamed and turned into movement, as long as two
\* keys do not become one and none has two locks: the line presses a key that is
\* up and repeats and releases one that is down, whatever the order of the
\* filters and of the events in packets of any length (KeysAlternate;
\* key_lock.c:48-78, key_substitute.c:48-56, no_repeat.c:40-45, btn2rel.c:81-157).
THEOREM KeysInTurn == Spec => [](KeyLine => KeysAlternate)
  <1>1. Init => Typed /\ PastTyped /\ KeyInv BY InitFacts, PastInit, KeyInit
  <1>2. Typed /\ PastTyped /\ KeyInv /\ [Next]_vars => (Typed /\ PastTyped /\ KeyInv)'
    BY StepFacts, PastStep, KeyNext
  <1>3. Typed /\ KeyInv => (KeyLine => KeysAlternate)
    <2> SUFFICES ASSUME Typed, KeyInv, KeyLine, At("Commit", "modify"), ev.type = "KEY"
                 PROVE  ev.value = 1 <=> ev.code \notin down[Self]
      BY DEF KeysAlternate
    <2>1. stack # <<>> /\ F.kind = "Commit" /\ Top.at = "modify" BY DEF At
    <2>2. Self \in Kind("Commit") BY <2>1, CallFacts DEF Kind, F
    <2>3. Keying(Self) BY <2>2 DEF KeyInv
    <2> QED BY <2>1, <2>2, <2>3, KeyArrives
  <1> QED BY <1>1, <1>2, <1>3, PTL DEF Spec

---------------------------------------------------------------------------
(* The packets of joined devices.                                          *)

Carriers == {"CopyToHandle", "GetFromHandle", "Dump", "Commit"}

\* The Commits an event gets to from each filter, none by two ways.
Own(f) == IF scene.filters[f].kind = "Commit" THEN {f} ELSE {}
Ahead(to, f) == IF scene.filters[f].next = 0 THEN {} ELSE to[scene.filters[f].next]
Aside(to, f) ==
  IF scene.filters[f].kind = "CopyToHandle" /\ scene.filters[f].handle # 0
    THEN to[scene.filters[f].handle] ELSE {}
Leads(to) ==
  \A f \in Filters :
    /\ to[f] = Own(f) \cup Ahead(to, f) \cup Aside(to, f)
    /\ Own(f) \cap Ahead(to, f) = {} /\ Aside(to, f) \cap Ahead(to, f) = {}

\* Every line begins with a Barrier, a Barrier of its own, and the events of a
\* packet are not syncs.  What is written of a packet is all remembered.
JoinedLines ==
  /\ 0 \notin Filters
  /\ \A f \in Filters :
       LET g == scene.filters[f] IN
       /\ g.kind \in Carriers \cup {"Barrier"}
       /\ g.next # 0 => scene.filters[g.next].kind \in Carriers
       /\ g.kind = "CopyToHandle" /\ g.handle # 0 => scene.filters[g.handle].kind \in Carriers
  /\ \A d \in Devices : scene.filters[scene.roots[d]].kind = "Barrier"
  /\ \A d, e \in Devices : scene.roots[d] = scene.roots[e] => d = e
  /\ \A d \in Devices : \A p \in scene.packets[d] :
       /\ Len(p) < MaxOut \/ Data(scene.roots[d]).history < MaxOut
       /\ \A i \in DOMAIN p : p[i].type # "SYN"
  /\ \E to \in [Filters -> SUBSET Filters] : Leads(to)

Reach == CHOOSE to \in [Filters -> SUBSET Filters] : Leads(to)

Room(d) == Data(scene.roots[d]).history
Queue(d) == st[scene.roots[d]].queue
Taken(d) == Len(packet[d]) - Len(unread[d])

\* What is left of a packet that a device has sent.
Sent(d) ==
  \/ packet[d] = <<>> /\ unread[d] = <<>>
  \/ /\ Len(packet[d]) <= MaxOut \/ Room(d) < MaxOut
     /\ Len(packet[d]) >= 1 /\ packet[d][Len(packet[d])] = Syn
     /\ \A i \in 1 .. Len(packet[d]) - 1 : packet[d][i].type # "SYN"
     /\ Len(unread[d]) <= Len(packet[d])
     /\ \A i \in 1 .. Len(unread[d]) : unread[d][i] = packet[d][Taken(d) + i]

\* The Barrier holds what it had room for of the first k events.
Gathered(d, k) ==
  /\ Len(Queue(d)) = (IF k <= Room(d) THEN k ELSE Room(d))
  /\ \A i \in 1 .. Len(Queue(d)) : Queue(d)[i] = packet[d][i]

Resting(d) == IF unread[d] = <<>> THEN Queue(d) = <<>> ELSE Gathered(d, Taken(d))

\* An event has been read and not been queued.
Taking(d) ==
  /\ stack # <<>> /\ Len(stack) = 1 /\ Self = scene.roots[d] /\ Top.at = "modify" /\ Top.ev = ev
  /\ Taken(d) >= 1 /\ ev = packet[d][Taken(d)] /\ Gathered(d, Taken(d) - 1)

Finished(s) == s = <<>> \/ Last(s).type = "SYN"

\* The first n events of the packet have been written.
Has(s, d, n) ==
  IF n = 0 THEN Finished(s)
  ELSE Len(s) = n /\ \A i \in 1 .. n : s[i] = Kept(d)[i]

\* Where an event still has to go when a call goes on.
Left(r) == IF r.at = "modify" THEN Reach[r.filter] ELSE Ahead(Reach, r.filter)
Due(c, t) == \E i \in DOMAIN t : c \in Left(t[i])
Once(c, t) == \A i, j \in DOMAIN t : c \in Left(t[i]) /\ c \in Left(t[j]) => i = j

Carries(d, r) ==
  /\ scene.filters[r.filter].kind \in Carriers /\ Left(r) \subseteq Reach[scene.roots[d]]
  /\ r.at = "modify" \/ (r.at = "sent" /\ scene.filters[r.filter].kind = "CopyToHandle")

\* The n-th event of the packet is on its way, and the calls it makes are those
\* above the one of the Barrier, which waits unless it is the sync.
Base(d, n) == IF n < Len(Kept(d)) THEN <<Frame(scene.roots[d], "flush", Syn)>> ELSE <<>>
Rest(d, n) ==
  /\ n + Len(Queue(d)) + 1 = Len(Kept(d))
  /\ \A i \in 1 .. Len(Queue(d)) : Queue(d)[i] = Kept(d)[n + i]
Way(s, c, d, n, t) ==
  /\ Once(c, t)
  /\ IF c \notin Reach[scene.roots[d]] THEN Finished(s)
     ELSE IF Due(c, t) THEN Has(s, d, n - 1) ELSE Has(s, d, n)
Flushing(d, n, t) ==
  /\ packet[d] # <<>> /\ unread[d] = <<>>
  /\ stack = t \o Base(d, n) /\ stack # <<>>
  /\ t # <<>> => ev = Kept(d)[n]
  /\ \A i \in DOMAIN t : Carries(d, t[i])
  /\ IF n < Len(Kept(d)) THEN Rest(d, n) ELSE Queue(d) = <<>>
  /\ \A c \in Kind("Commit") : Way(out[c], c, d, n, t)

Idle == stack = <<>> /\ \A d \in Devices : Resting(d)
AllFinished == \A c \in Kind("Commit") : Finished(out[c])
Working(d, n, t) ==
  /\ n \in 1 .. Len(Kept(d)) /\ t \in Seq(FrameSet) /\ Flushing(d, n, t)
AtWork(d) ==
  /\ \A e \in Devices : e # d => Resting(e)
  /\ (Taking(d) /\ AllFinished) \/ \E n, t : Working(d, n, t)

Packets == packet \in [Devices -> Seq(Event)] /\ \A d \in Devices : Sent(d)
Apart == Packets /\ ((Idle /\ AllFinished) \/ \E d \in Devices : AtWork(d))
ApartInv == JoinedLines => Apart

LEMMA SameJoined ==
  ASSUME UNCHANGED scene
  PROVE  /\ Filters' = Filters /\ Devices' = Devices /\ FrameSet' = FrameSet /\ Reach' = Reach
         /\ JoinedLines' = JoinedLines
         /\ \A k : Kind(k)' = Kind(k)
         /\ \A f : Data(f)' = Data(f)
         /\ \A r : Left(r)' = Left(r)
         /\ \A c, t : (Due(c, t)' <=> Due(c, t)) /\ (Once(c, t)' <=> Once(c, t))
         /\ \A d, r : Carries(d, r)' <=> Carries(d, r)
         /\ \A d : Room(d)' = Room(d)
  <1>1. Filters' = Filters /\ Devices' = Devices BY DEF Filters, Devices
  <1>2. \A f : Data(f)' = Data(f) BY DEF Data
  <1>3. \A to : Leads(to)' <=> Leads(to) BY <1>1 DEF Leads, Own, Ahead, Aside
  <1>4. Reach' = Reach BY <1>1, <1>3 DEF Reach
  <1>5. JoinedLines' = JoinedLines BY <1>1, <1>2, <1>3 DEF JoinedLines
  <1>6. \A r : Left(r)' = Left(r) BY <1>4 DEF Left, Ahead
  <1>7. \A c, t : (Due(c, t)' <=> Due(c, t)) /\ (Once(c, t)' <=> Once(c, t)) BY <1>6 DEF Due, Once
  <1>8. \A d, r : Carries(d, r)' <=> Carries(d, r) BY <1>4, <1>6 DEF Carries
  <1>9. \A d : Room(d)' = Room(d) BY <1>2 DEF Room
  <1>10. (\A k : Kind(k)' = Kind(k)) /\ FrameSet' = FrameSet BY <1>1 DEF Kind, FrameSet
  <1> QED BY <1>1, <1>2, <1>4, <1>5, <1>6, <1>7, <1>8, <1>9, <1>10

\* The lines, filter by filter.
LEMMA JoinedFacts ==
  ASSUME Typed, JoinedLines
  PROVE  /\ \A f \in Filters : Reach[f] \in SUBSET Filters
         /\ Leads(Reach)
         /\ \A d \in Devices :
              LET b == scene.roots[d] IN
              /\ b \in Filters /\ scene.filters[b].kind = "Barrier" /\ Room(d) \in Nat
              /\ scene.filters[b].next \in Filters
              /\ scene.filters[scene.filters[b].next].kind \in Carriers
              /\ Reach[b] = Reach[scene.filters[b].next]
              /\ Queue(d) \in Seq(Event)
  <1>1. Leads(Reach) /\ Reach \in [Filters -> SUBSET Filters]
    <2>1. \E to \in [Filters -> SUBSET Filters] : Leads(to) BY DEF JoinedLines
    <2> QED BY <2>1 DEF Reach
  <1>2. ASSUME NEW d \in Devices
        PROVE  LET b == scene.roots[d] IN
               /\ b \in Filters /\ scene.filters[b].kind = "Barrier" /\ Room(d) \in Nat
               /\ scene.filters[b].next \in Filters
               /\ scene.filters[scene.filters[b].next].kind \in Carriers
               /\ Reach[b] = Reach[scene.filters[b].next]
               /\ Queue(d) \in Seq(Event)
    <2> DEFINE b == scene.roots[d]
    <2>1. scene \in Scenes BY DEF Typed, TypeOK
    <2>2. b \in Filters BY <2>1, ScenesAssumption DEF Devices, Filters
    <2>3. scene.filters[b].kind = "Barrier" BY DEF JoinedLines
    <2>4. scene.filters[b].next \in Filters /\ Room(d) \in Nat
      BY <2>1, <2>2, <2>3, DataFacts DEF Room
    <2>5. /\ scene.filters[b].next # 0
          /\ scene.filters[scene.filters[b].next].kind \in Carriers
      BY <2>2, <2>4 DEF JoinedLines
    <2>6. Reach[b] = Reach[scene.filters[b].next]
      <3>1. Own(b) = {} /\ Aside(Reach, b) = {} BY <2>3 DEF Own, Aside
      <3>2. Ahead(Reach, b) = Reach[scene.filters[b].next] BY <2>5 DEF Ahead
      <3>3. Reach[b] = Own(b) \cup Ahead(Reach, b) \cup Aside(Reach, b) BY <1>1, <2>2 DEF Leads
      <3> QED BY <3>1, <3>2, <3>3
    <2>7. Queue(d) \in Seq(Event) BY <2>2 DEF Typed, TypeOK, State, Queue
    <2> QED BY <2>2, <2>3, <2>4, <2>5, <2>6, <2>7
  <1> QED BY <1>1, <1>2

\* What is kept of a packet.
LEMMA KeptFacts ==
  ASSUME NEW d, packet[d] \in Seq(Event), packet[d] # <<>>, Room(d) \in Nat, Sent(d)
  PROVE  LET p == packet[d]
             k == Kept(d)
         IN  /\ k \in Seq(Event) /\ Len(k) \in Nat \ {0} /\ Len(p) \in Nat \ {0}
             /\ Len(k) = (IF Len(p) - 1 <= Room(d) THEN Len(p) ELSE Room(d) + 1)
             /\ Len(k) <= MaxOut
             /\ k[Len(k)] = Syn
             /\ \A i \in 1 .. Len(k) - 1 : k[i] = p[i] /\ p[i].type # "SYN"
  <1> DEFINE p == packet[d] k == Kept(d) n == Len(p) r == Room(d)
  <1>1. n \in Nat \ {0} /\ p \in Seq(Event)
    BY LenProperties, EmptySeq
  <1>2. /\ n <= MaxOut \/ r < MaxOut
        /\ p[n] = Syn
        /\ \A i \in 1 .. n - 1 : p[i].type # "SYN"
    BY DEF Sent
  <1>3. CASE n - 1 <= r
    <2>1. k = p BY <1>3 DEF Kept, Room
    <2> HIDE DEF p, k
    <2>2. n <= MaxOut BY <1>1, <1>2, <1>3, MaxOutAssumption
    <2> QED BY <1>1, <1>2, <1>3, <2>1, <2>2 DEF p, k
  <1>4. CASE ~(n - 1 <= r)
    <2> DEFINE s == SubSeq(p, 1, r)
    <2>1. k = Append(s, Syn) BY <1>4 DEF Kept, Room
    <2>2. \A i \in 1 .. r : p[i] \in Event BY <1>1, <1>4, ElementOfSeq
    <2>3. s \in Seq(Event) /\ Len(s) = r /\ \A i \in 1 .. r : s[i] = p[i]
      <3> HIDE DEF p, r
      <3>1. r \in Int /\ r >= 0 /\ (1 <= r \/ r = 0) BY DEF r
      <3>2. /\ SubSeq(p, 1, r) \in Seq(Event)
            /\ Len(SubSeq(p, 1, r)) = IF 1 <= r THEN r - 1 + 1 ELSE 0
            /\ \A i \in 1 .. r - 1 + 1 : SubSeq(p, 1, r)[i] = p[1 + i - 1]
        BY <2>2, <3>1, SubSeqProperties
      <3> QED BY <3>1, <3>2
    <2>4. Syn \in Event BY SynIs
    <2> HIDE DEF s, k, p
    <2>5. /\ k \in Seq(Event) /\ Len(k) = r + 1 /\ k[r + 1] = Syn
          /\ \A i \in 1 .. r : k[i] = p[i]
      BY <2>1, <2>3, <2>4, AppendProperties
    <2>6. r < MaxOut BY <1>1, <1>2, <1>4, MaxOutAssumption
    <2> HIDE DEF n, r
    <2>7. r \in Nat /\ r < n - 1 BY <1>1, <1>4 DEF r
    <2> QED BY <1>1, <1>2, <1>4, <2>5, <2>6, <2>7, MaxOutAssumption DEF p, k, n, r
  <1> QED BY <1>3, <1>4

\* What is on the way when calls are made and return.
LEMMA OnTheWay ==
  ASSUME NEW c, NEW x \in FrameSet, NEW t \in Seq(FrameSet)
  PROVE  /\ Due(c, <<x>> \o t) <=> c \in Left(x) \/ Due(c, t)
         /\ Once(c, <<x>> \o t) <=> Once(c, t) /\ ~(c \in Left(x) /\ Due(c, t))
         /\ ~Due(c, <<>>) /\ Once(c, <<>>)
  <1> DEFINE s == <<x>> \o t n == Len(t)
  <1>1. /\ s[1] = x /\ DOMAIN s = 1 .. n + 1 /\ n \in Nat /\ DOMAIN t = 1 .. n
        /\ \A i \in 1 .. n : s[i + 1] = t[i]
    BY PushFacts
  <1> HIDE DEF s, n
  <1>2. \A i \in 1 .. n : i + 1 \in 1 .. n + 1 BY <1>1
  <1>3. \A i \in 1 .. n + 1 : i = 1 \/ (i - 1 \in 1 .. n /\ s[i] = t[i - 1])
    <2> TAKE i \in 1 .. n + 1
    <2> SUFFICES ASSUME i # 1 PROVE i - 1 \in 1 .. n /\ s[i] = t[i - 1] OBVIOUS
    <2>1. i - 1 \in 1 .. n /\ (i - 1) + 1 = i BY <1>1
    <2> QED BY <1>1, <2>1
  <1>4. 1 \in 1 .. n + 1 BY <1>1
  <1>5. Due(c, s) <=> c \in Left(x) \/ Due(c, t)
    BY <1>1, <1>2, <1>3, <1>4 DEF Due
  <1>6. Once(c, s) => Once(c, t) /\ ~(c \in Left(x) /\ Due(c, t))
    <2>1. ASSUME Once(c, s), NEW i \in 1 .. n, NEW j \in 1 .. n, c \in Left(t[i]), c \in Left(t[j])
          PROVE  i = j
      <3>1. c \in Left(s[i + 1]) /\ c \in Left(s[j + 1]) BY <1>1, <2>1
      <3>2. i + 1 = j + 1 BY <1>1, <1>2, <2>1, <3>1 DEF Once
      <3> QED BY <1>1, <3>2
    <2>2. ASSUME Once(c, s), NEW i \in 1 .. n, c \in Left(t[i]), c \in Left(x)
          PROVE  FALSE
      <3>1. c \in Left(s[i + 1]) /\ c \in Left(s[1]) BY <1>1, <2>2
      <3>2. i + 1 = 1 BY <1>1, <1>2, <1>4, <2>2, <3>1 DEF Once
      <3> QED BY <1>1, <3>2
    <2> QED BY <1>1, <2>1, <2>2 DEF Once, Due
  <1>7. Once(c, t) /\ ~(c \in Left(x) /\ Due(c, t)) => Once(c, s)
    <2> SUFFICES ASSUME Once(c, t), ~(c \in Left(x) /\ Due(c, t)),
                        NEW i \in 1 .. n + 1, NEW j \in 1 .. n + 1,
                        c \in Left(s[i]), c \in Left(s[j])
                 PROVE  i = j
      BY <1>1 DEF Once
    <2>1. CASE i = 1 /\ j # 1 BY <1>1, <1>3, <2>1 DEF Due
    <2>2. CASE i # 1 /\ j = 1 BY <1>1, <1>3, <2>2 DEF Due
    <2>3. CASE i # 1 /\ j # 1
      <3>1. i - 1 \in 1 .. n /\ j - 1 \in 1 .. n /\ c \in Left(t[i - 1]) /\ c \in Left(t[j - 1])
        BY <1>3, <2>3
      <3>2. i - 1 = j - 1 BY <1>1, <3>1 DEF Once
      <3> QED BY <1>1, <3>2
    <2> QED BY <2>1, <2>2, <2>3
  <1>8. ~Due(c, <<>>) /\ Once(c, <<>>) BY DEF Due, Once
  <1> QED BY <1>5, <1>6, <1>7, <1>8 DEF s

LEMMA SamePackets ==
  ASSUME UNCHANGED <<scene, packet>>
  PROVE  /\ \A d : Kept(d)' = Kept(d)
         /\ \A d, n : Base(d, n)' = Base(d, n)
         /\ \A s, d, n : Has(s, d, n)' <=> Has(s, d, n)
         /\ \A s, c, d, n, t : Way(s, c, d, n, t)' <=> Way(s, c, d, n, t)
  <1>1. \A d : Kept(d)' = Kept(d) BY SameJoined DEF Kept
  <1>2. \A d, n : Base(d, n)' = Base(d, n) BY <1>1 DEF Base
  <1>3. \A s, d, n : Has(s, d, n)' <=> Has(s, d, n) BY <1>1 DEF Has, Finished
  <1>4. \A s, c, d, n, t : Way(s, c, d, n, t)' <=> Way(s, c, d, n, t)
    BY <1>3, SameJoined DEF Way, Finished
  <1> QED BY <1>1, <1>2, <1>3, <1>4

LEMMA SameRest ==
  ASSUME UNCHANGED <<scene, packet, unread>>
  PROVE  /\ Packets => Packets'
         /\ \A d : UNCHANGED Queue(d) => (Resting(d)' <=> Resting(d))
         /\ \A d, n : UNCHANGED Queue(d) => (Rest(d, n)' <=> Rest(d, n))
  <1>1. \A d : (Sent(d)' <=> Sent(d)) /\ Taken(d)' = Taken(d) BY SameJoined DEF Sent, Taken
  <1>2. ASSUME NEW d, UNCHANGED Queue(d) PROVE Resting(d)' <=> Resting(d)
    BY <1>1, <1>2, SameJoined DEF Resting, Gathered
  <1>3. ASSUME NEW d, NEW n, UNCHANGED Queue(d) PROVE Rest(d, n)' <=> Rest(d, n)
    BY <1>3, SamePackets DEF Rest
  <1>4. Packets => Packets' BY <1>1, SameJoined DEF Packets
  <1> QED BY <1>2, <1>3, <1>4

\* What a Commit has written when the n-th event gets to it.
LEMMA WrittenNext ==
  ASSUME Typed, NEW c \in Filters, NEW d,
         Kept(d) \in Seq(Event), Len(Kept(d)) <= MaxOut,
         \A i \in 1 .. Len(Kept(d)) - 1 : Kept(d)[i].type # "SYN",
         NEW n \in 1 .. Len(Kept(d)), Has(out[c], d, n - 1), ev = Kept(d)[n]
  PROVE  Has(Written(c), d, n)
  <1> DEFINE k == Kept(d) s == out[c] m == Len(s)
  <1>1. s \in Seq(Event) /\ m \in Nat /\ ev \in Event
    BY LenProperties DEF Typed, TypeOK
  <1>2. Len(k) \in Nat BY LenProperties
  <1>3. CASE n = 1
    <2>1. s = <<>> \/ Last(s).type = "SYN" BY <1>3 DEF Has, Finished
    <2>2. Written(c) = <<ev>>
      <3>1. CASE s # <<>> BY <2>1, <3>1 DEF Written
      <3>2. CASE s = <<>>
        <4>1. Min({Len(s), MaxOut - 1}) = 0
          <5>1. Len(s) = 0 /\ MaxOut - 1 >= 0 BY <3>2, MaxOutAssumption
          <5> QED BY <5>1, MaxOutAssumption DEF Min
        <4>2. SubSeq(s, 1, 0) = <<>> BY SubSeqEmpty
        <4>3. Append(<<>>, ev) = <<ev>> OBVIOUS
        <4> QED BY <3>2, <4>1, <4>2, <4>3 DEF Written
      <3> QED BY <3>1, <3>2
    <2>3. Len(<<ev>>) = 1 /\ <<ev>>[1] = ev OBVIOUS
    <2> QED BY <1>3, <2>2, <2>3 DEF Has
  <1>4. CASE n # 1
    <2>1. m = n - 1 /\ m >= 1 /\ \A i \in 1 .. m : s[i] = k[i]
      <3>1. n - 1 # 0 /\ n - 1 >= 1 BY <1>2, <1>4
      <3> QED BY <3>1 DEF Has
    <2>2. s # <<>> /\ Last(s) = s[m] /\ s[m].type # "SYN"
      <3>1. s # <<>> BY <1>1, <2>1, EmptySeq
      <3>2. Last(s) = s[m] BY DEF Last
      <3>3. m \in 1 .. m /\ m \in 1 .. Len(k) - 1 BY <1>1, <1>2, <2>1
      <3> QED BY <2>1, <3>1, <3>2, <3>3
    <2>3. Min({m, MaxOut - 1}) = m
      <3>1. m <= MaxOut - 1 /\ MaxOut - 1 \in Int BY <1>1, <1>2, <2>1, MaxOutAssumption
      <3> HIDE DEF m
      <3> QED BY <1>1, <3>1 DEF Min
    <2>4. SubSeq(s, 1, m) = s
      <3>1. \A i \in 1 .. m : s[i] \in Event BY <1>1, ElementOfSeq
      <3> DEFINE r == SubSeq(s, 1, m)
      <3>2. /\ r \in Seq(Event) /\ Len(r) = (IF 1 <= m THEN m - 1 + 1 ELSE 0)
            /\ \A i \in 1 .. m - 1 + 1 : r[i] = s[1 + i - 1]
        BY <1>1, <3>1, SubSeqProperties
      <3> HIDE DEF r
      <3>3. Len(r) = Len(s) /\ \A i \in 1 .. Len(r) : r[i] = s[i] BY <1>1, <2>1, <3>2
      <3> QED BY <1>1, <3>2, <3>3, SeqEqual DEF r
    <2>5. Written(c) = Append(s, ev) BY <2>2, <2>3, <2>4 DEF Written
    <2> DEFINE w == Append(s, ev)
    <2>6. /\ Len(w) = m + 1 /\ w[m + 1] = ev /\ \A i \in 1 .. m : w[i] = s[i]
      BY <1>1, AppendProperties
    <2> HIDE DEF w, m
    <2>7. ASSUME NEW i \in 1 .. n PROVE w[i] = k[i]
      <3>1. CASE i = n BY <1>1, <2>1, <2>6, <3>1
      <3>2. CASE i # n
        <4>1. i \in 1 .. m BY <1>1, <2>1, <3>2
        <4> QED BY <2>1, <2>6, <4>1
      <3> QED BY <3>1, <3>2
    <2>8. Len(w) = n BY <2>1, <2>6
    <2> QED BY <1>4, <2>5, <2>7, <2>8 DEF Has, w
  <1> QED BY <1>3, <1>4

\* What has been written, when everything has, ends with the sync.
LEMMA HasAll ==
  ASSUME NEW s, NEW d, Len(Kept(d)) \in Nat \ {0}, Kept(d)[Len(Kept(d))] = Syn,
         Has(s, d, Len(Kept(d)))
  PROVE  Finished(s)
  <1> DEFINE n == Len(Kept(d))
  <1>1. Len(s) = n /\ \A i \in 1 .. n : s[i] = Kept(d)[i] BY DEF Has
  <1>2. n \in 1 .. n OBVIOUS
  <1>3. Last(s) = Syn BY <1>1, <1>2 DEF Last
  <1> QED BY <1>3, SynIs DEF Finished

\* The call that runs, and the ones that wait for it.
LEMMA CarrierFacts ==
  ASSUME Typed, JoinedLines, NEW d \in Devices, NEW n, NEW t, Working(d, n, t), t # <<>>
  PROVE  LET r == Tail(t) IN
         /\ stack # <<>> /\ Top \in FrameSet /\ r \in Seq(FrameSet) /\ Carries(d, Top)
         /\ Tail(stack) = r \o Base(d, n) /\ Base(d, n) \in Seq(FrameSet)
         /\ \A i \in DOMAIN r : Carries(d, r[i])
         /\ \A c : /\ Due(c, t) <=> c \in Left(Top) \/ Due(c, r)
                   /\ Once(c, t) <=> Once(c, r) /\ ~(c \in Left(Top) /\ Due(c, r))
  <1> DEFINE r == Tail(t) x == Head(t) z == Base(d, n)
  <1>1. /\ t \in Seq(FrameSet) /\ stack = t \o z /\ stack # <<>>
        /\ \A i \in DOMAIN t : Carries(d, t[i])
    BY DEF Working, Flushing
  <1>2. x \in FrameSet /\ r \in Seq(FrameSet) /\ t = <<x>> \o r
    BY <1>1, HeadTailProperties, HeadAndTail
  <1>3. z \in Seq(FrameSet)
    <2>1. Frame(scene.roots[d], "flush", Syn) \in FrameSet
      BY JoinedFacts, SynIs DEF Frame, FrameSet, Place
    <2> QED BY <2>1 DEF Base
  <1> HIDE DEF r, x, z
  <1>4. stack = <<x>> \o (r \o z)
    <2>1. <<x>> \in Seq(FrameSet) BY <1>2
    <2> QED BY <1>1, <1>2, <1>3, <2>1, ConcatAssociative
  <1>5. r \o z \in Seq(FrameSet) BY <1>2, <1>3, ConcatProperties
  <1>6. Head(stack) = x /\ Tail(stack) = r \o z BY <1>2, <1>4, <1>5, PushFacts
  <1>7. Top = x BY <1>6 DEF Top
  <1>8. /\ t[1] = x /\ DOMAIN t = 1 .. Len(r) + 1 /\ Len(r) \in Nat /\ DOMAIN r = 1 .. Len(r)
        /\ \A i \in 1 .. Len(r) : t[i + 1] = r[i]
    BY <1>2, PushFacts
  <1>9. \A i \in 1 .. Len(r) : i + 1 \in 1 .. Len(r) + 1 BY <1>8
  <1>10. 1 \in 1 .. Len(r) + 1 BY <1>8
  <1>11. Carries(d, x) /\ \A i \in DOMAIN r : Carries(d, r[i])
    BY <1>1, <1>8, <1>9, <1>10
  <1>12. \A c : /\ Due(c, t) <=> c \in Left(x) \/ Due(c, r)
                /\ Once(c, t) <=> Once(c, r) /\ ~(c \in Left(x) /\ Due(c, r))
    BY <1>2, OnTheWay
  <1> QED BY <1>1, <1>2, <1>3, <1>6, <1>7, <1>11, <1>12 DEF r, z

\* The calls on the stack become others, and the event is the same.
LEMMA Moved ==
  ASSUME Typed, JoinedLines, Packets, UNCHANGED <<scene, st, unread, packet>>,
         NEW d \in Devices, \A e \in Devices : e # d => Resting(e),
         NEW n, NEW t, Working(d, n, t), t # <<>>,
         NEW u \in Seq(FrameSet), stack' = u \o Base(d, n), u # <<>> => ev' = ev,
         \A i \in DOMAIN u : Carries(d, u[i]),
         \A c \in Kind("Commit") :
           /\ Once(c, u)
           /\ \/ out'[c] = out[c] /\ (Due(c, u) <=> Due(c, t))
              \/ out'[c] = Written(c) /\ Due(c, t) /\ ~Due(c, u) /\ c \in Reach[scene.roots[d]]
  PROVE  Apart'
  <1> DEFINE b == scene.roots[d] k == Kept(d)
  <1>1. /\ Filters' = Filters /\ Devices' = Devices /\ FrameSet' = FrameSet /\ Reach' = Reach
        /\ (\A x : Kind(x)' = Kind(x)) /\ \A e, r : Carries(e, r)' <=> Carries(e, r)
    BY SameJoined
  <1>2. Kept(d)' = Kept(d) /\ Base(d, n)' = Base(d, n)
        /\ \A s, c : Way(s, c, d, n, u)' <=> Way(s, c, d, n, u)
    BY SamePackets
  <1>3. \A e : UNCHANGED Queue(e) BY DEF Queue
  <1>4. Packets' /\ (\A e : Resting(e)' <=> Resting(e)) /\ (Rest(d, n)' <=> Rest(d, n))
    BY <1>3, SameRest
  <1>5. /\ n \in 1 .. Len(k) /\ packet[d] # <<>> /\ unread[d] = <<>> /\ ev = k[n]
        /\ IF n < Len(k) THEN Rest(d, n) ELSE Queue(d) = <<>>
        /\ \A c \in Kind("Commit") : Way(out[c], c, d, n, t)
    BY DEF Working, Flushing
  <1>6. /\ k \in Seq(Event) /\ Len(k) \in Nat \ {0} /\ Len(k) <= MaxOut /\ k[Len(k)] = Syn
        /\ \A i \in 1 .. Len(k) - 1 : k[i].type # "SYN"
    <2>1. packet[d] \in Seq(Event) /\ Sent(d) /\ Room(d) \in Nat BY JoinedFacts DEF Packets
    <2>2. packet[d] # <<>> BY <1>5
    <2>3. /\ Kept(d) \in Seq(Event) /\ Len(Kept(d)) \in Nat \ {0} /\ Len(Kept(d)) <= MaxOut
          /\ Kept(d)[Len(Kept(d))] = Syn
          /\ \A i \in 1 .. Len(Kept(d)) - 1 : Kept(d)[i] = packet[d][i] /\ packet[d][i].type # "SYN"
      BY <2>1, <2>2, KeptFacts
    <2> QED BY <2>3
  <1>7. ASSUME NEW c \in Kind("Commit") PROVE Way(out'[c], c, d, n, u)
    <2>1. c \in Filters BY DEF Kind
    <2>2. Way(out[c], c, d, n, t) /\ Once(c, u) BY <1>5
    <2>3. CASE out'[c] = out[c] /\ (Due(c, u) <=> Due(c, t)) BY <2>2, <2>3 DEF Way
    <2>4. CASE out'[c] = Written(c) /\ Due(c, t) /\ ~Due(c, u) /\ c \in Reach[b]
      <3>1. Has(out[c], d, n - 1) BY <2>2, <2>4 DEF Way
      <3>2. Has(Written(c), d, n) BY <1>5, <1>6, <2>1, <3>1, WrittenNext
      <3> QED BY <2>2, <2>4, <3>2 DEF Way
    <2> QED BY <2>3, <2>4
  <1>8. \A c \in Kind("Commit") : Way(out[c], c, d, n, u)'
    BY <1>2, <1>7, SameJoined, SamePackets DEF Way, Finished, Has
  <1>9. CASE stack' # <<>>
    <2>1. Flushing(d, n, u)'
      <3>1. packet' = packet /\ unread' = unread OBVIOUS
      <3>2. (IF n < Len(Kept(d)) THEN Rest(d, n) ELSE Queue(d) = <<>>)' BY <1>2, <1>3, <1>4, <1>5
      <3> QED BY <1>1, <1>2, <1>5, <1>8, <1>9, <3>1, <3>2 DEF Flushing
    <2>2. Working(d, n, u)' BY <1>1, <1>2, <1>5, <2>1 DEF Working
    <2>3. AtWork(d)' BY <1>1, <1>4, <2>2 DEF AtWork
    <2> QED BY <1>1, <1>4, <2>3 DEF Apart
  <1>10. CASE stack' = <<>>
    <2>1. u = <<>> /\ Base(d, n) = <<>>
      <3> DEFINE z == Base(d, n)
      <3>1. z \in Seq(FrameSet) BY CarrierFacts
      <3> HIDE DEF z
      <3>2. u \o z = <<>> BY <1>10 DEF z
      <3>3. u = <<>> /\ z = <<>> BY <3>1, <3>2, ConcatEqualIffEmpty
      <3> QED BY <3>3 DEF z
    <2>2. n = Len(k) BY <1>5, <1>6, <2>1 DEF Base
    <2>3. ASSUME NEW c \in Kind("Commit") PROVE Finished(out'[c])
      <3>1. ~Due(c, u) BY <2>1 DEF Due
      <3>2. Has(out'[c], d, n) \/ Finished(out'[c]) BY <1>7, <3>1 DEF Way
      <3> QED BY <1>6, <2>2, <3>2, HasAll
    <2>4. AllFinished' BY <1>1, <2>3 DEF AllFinished, Finished
    <2>5. Resting(d) BY <1>5, <2>2 DEF Resting
    <2>6. Idle' BY <1>1, <1>4, <1>10, <2>5 DEF Idle
    <2> QED BY <1>4, <2>4, <2>6 DEF Apart
  <1> QED BY <1>9, <1>10

\* An event on its way through the lines.
LEMMA CarrierStep ==
  ASSUME Typed, JoinedLines, Packets, UNCHANGED scene, Modify,
         NEW d \in Devices, \A e \in Devices : e # d => Resting(e),
         NEW n, NEW t, Working(d, n, t), t # <<>>
  PROVE  Apart'
  <1> DEFINE r == Tail(t) z == Base(d, n) b == scene.roots[d] Plain == UNCHANGED <<scene, st, unread, packet>>
             Still(c) == out'[c] = out[c]
             Writes(c) == out'[c] = Written(c)
             To == scene.filters[Self].next
             On == Frame(To, "modify", ev)
  <1>1. /\ stack # <<>> /\ Top \in FrameSet /\ r \in Seq(FrameSet) /\ Carries(d, Top)
        /\ Tail(stack) = r \o z /\ z \in Seq(FrameSet)
        /\ \A i \in DOMAIN r : Carries(d, r[i])
        /\ \A c : /\ Due(c, t) <=> c \in Left(Top) \/ Due(c, r)
                  /\ Once(c, t) <=> Once(c, r) /\ ~(c \in Left(Top) /\ Due(c, r))
    BY CarrierFacts
  <1>2. \A c \in Kind("Commit") : Once(c, t) BY DEF Working, Flushing, Way
  <1>3. Left(Top) \subseteq Reach[b] BY <1>1 DEF Carries
  <1> HIDE DEF r, z
  <1>4. ASSUME Plain, ev' = ev, NEW x \in FrameSet, Carries(d, x), stack' = <<x>> \o Tail(stack),
               \A c \in Kind("Commit") : \/ Still(c) /\ (c \in Left(x) <=> c \in Left(Top))
                                         \/ Writes(c) /\ c \in Left(Top) /\ c \notin Left(x)
        PROVE  Apart'
    <2> DEFINE u == <<x>> \o r
    <2>1. u \in Seq(FrameSet) /\ <<x>> \in Seq(FrameSet) BY <1>1, PushFacts
    <2>2. stack' = u \o z
      <3>1. (<<x>> \o r) \o z = <<x>> \o (r \o z) BY <1>1, <2>1, ConcatAssociative
      <3> QED BY <1>1, <1>4, <3>1
    <2>3. \A i \in DOMAIN u : Carries(d, u[i])
      <3>1. /\ u[1] = x /\ DOMAIN u = 1 .. Len(r) + 1 /\ Len(r) \in Nat /\ DOMAIN r = 1 .. Len(r)
            /\ \A i \in 1 .. Len(r) : u[i + 1] = r[i]
        BY <1>1, PushFacts
      <3> HIDE DEF u
      <3> TAKE i \in DOMAIN u
      <3>2. CASE i = 1 BY <1>4, <3>1, <3>2
      <3>3. CASE i # 1
        <4>1. i - 1 \in 1 .. Len(r) /\ (i - 1) + 1 = i BY <3>1, <3>3
        <4> QED BY <1>1, <3>1, <4>1
      <3> QED BY <3>2, <3>3
    <2>4. \A c : /\ Due(c, u) <=> c \in Left(x) \/ Due(c, r)
                 /\ Once(c, u) <=> Once(c, r) /\ ~(c \in Left(x) /\ Due(c, r))
      BY <1>1, OnTheWay
    <2> HIDE DEF u
    <2>5. \A c \in Kind("Commit") :
            /\ Once(c, u)
            /\ \/ out'[c] = out[c] /\ (Due(c, u) <=> Due(c, t))
               \/ out'[c] = Written(c) /\ Due(c, t) /\ ~Due(c, u) /\ c \in Reach[b]
      BY <1>1, <1>2, <1>3, <1>4, <2>4
    <2> QED BY <1>4, <2>1, <2>2, <2>3, <2>5, Moved DEF z
  <1>5. ASSUME Plain, Drop,
               \A c \in Kind("Commit") : \/ Still(c) /\ c \notin Left(Top)
                                         \/ Writes(c) /\ c \in Left(Top)
        PROVE  Apart'
    <2>1. stack' = r \o z BY <1>1, <1>5 DEF Drop
    <2>2. r # <<>> => ev' = ev
      <3> SUFFICES ASSUME r # <<>>, Len(stack) = 1 PROVE FALSE BY <1>5 DEF Drop
      <3>1. stack \in Seq(FrameSet) BY DEF Typed, TypeOK, FrameSet
      <3>2. Len(Tail(stack)) = 0 BY <1>1, <3>1, HeadTailProperties
      <3>3. Len(r \o z) = Len(r) + Len(z) BY <1>1, ConcatProperties
      <3>4. Len(r) \in Nat \ {0} /\ Len(z) \in Nat BY <1>1, EmptySeq, LenProperties
      <3>5. Len(r \o z) = 0 BY <1>1, <3>2
      <3> QED BY <3>3, <3>4, <3>5
    <2>3. \A c \in Kind("Commit") :
            /\ Once(c, r)
            /\ \/ out'[c] = out[c] /\ (Due(c, r) <=> Due(c, t))
               \/ out'[c] = Written(c) /\ Due(c, t) /\ ~Due(c, r) /\ c \in Reach[b]
      BY <1>1, <1>2, <1>3, <1>5
    <2> QED BY <1>1, <1>5, <2>1, <2>2, <2>3, Moved DEF z
  <1>6. ASSUME Plain, ev' = ev, NEW x \in FrameSet, NEW y \in FrameSet, Carries(d, x), Carries(d, y),
               stack' = <<x, y>> \o Tail(stack),
               \A c \in Kind("Commit") :
                 /\ Still(c) /\ ~(c \in Left(x) /\ c \in Left(y))
                 /\ c \in Left(Top) <=> c \in Left(x) \/ c \in Left(y)
        PROVE  Apart'
    <2> DEFINE v == <<y>> \o r
               u == <<x>> \o v
    <2>1. v \in Seq(FrameSet) /\ <<x>> \in Seq(FrameSet) /\ <<y>> \in Seq(FrameSet) BY <1>1, PushFacts
    <2>2. u \in Seq(FrameSet) BY <2>1, PushFacts
    <2>3. stack' = u \o z
      <3>1. <<x, y>> = <<x>> \o <<y>> BY PairFacts
      <3>2. <<y>> \o (r \o z) = v \o z BY <1>1, <2>1, ConcatAssociative
      <3>3. <<x>> \o (<<y>> \o (r \o z)) = (<<x>> \o <<y>>) \o (r \o z)
        <4>1. r \o z \in Seq(FrameSet) BY <1>1, ConcatProperties
        <4> QED BY <2>1, <4>1, ConcatAssociative
      <3>4. <<x>> \o (v \o z) = u \o z
        <4> HIDE DEF v
        <4>1. <<x>> \in Seq(FrameSet) /\ v \in Seq(FrameSet) /\ z \in Seq(FrameSet) BY <1>1, <2>1
        <4> QED BY <4>1, ConcatAssociative
      <3> QED BY <1>1, <1>6, <3>1, <3>2, <3>3, <3>4
    <2>4. \A i \in DOMAIN u : Carries(d, u[i])
      <3>1. /\ v[1] = y /\ DOMAIN v = 1 .. Len(r) + 1 /\ Len(r) \in Nat /\ DOMAIN r = 1 .. Len(r)
            /\ \A i \in 1 .. Len(r) : v[i + 1] = r[i]
        BY <1>1, PushFacts
      <3>2. /\ u[1] = x /\ DOMAIN u = 1 .. Len(v) + 1 /\ Len(v) \in Nat /\ DOMAIN v = 1 .. Len(v)
            /\ \A i \in 1 .. Len(v) : u[i + 1] = v[i]
        BY <2>1, PushFacts
      <3> HIDE DEF u, v
      <3>3. ASSUME NEW i \in DOMAIN v PROVE Carries(d, v[i])
        <4>1. CASE i = 1 BY <1>6, <3>1, <4>1
        <4>2. CASE i # 1
          <5>1. i - 1 \in 1 .. Len(r) /\ (i - 1) + 1 = i BY <3>1, <4>2
          <5> QED BY <1>1, <3>1, <5>1
        <4> QED BY <4>1, <4>2
      <3> TAKE i \in DOMAIN u
      <3>4. CASE i = 1 BY <1>6, <3>2, <3>4
      <3>5. CASE i # 1
        <4>1. i - 1 \in 1 .. Len(v) /\ (i - 1) + 1 = i BY <3>2, <3>5
        <4> QED BY <3>2, <3>3, <4>1
      <3> QED BY <3>4, <3>5
    <2>5. \A c : /\ Due(c, v) <=> c \in Left(y) \/ Due(c, r)
                 /\ Once(c, v) <=> Once(c, r) /\ ~(c \in Left(y) /\ Due(c, r))
      BY <1>1, OnTheWay
    <2>6. \A c : /\ Due(c, u) <=> c \in Left(x) \/ Due(c, v)
                 /\ Once(c, u) <=> Once(c, v) /\ ~(c \in Left(x) /\ Due(c, v))
      BY <2>1, OnTheWay
    <2> HIDE DEF u, v
    <2>7. \A c \in Kind("Commit") :
            /\ Once(c, u)
            /\ \/ out'[c] = out[c] /\ (Due(c, u) <=> Due(c, t))
               \/ out'[c] = Written(c) /\ Due(c, t) /\ ~Due(c, u) /\ c \in Reach[b]
      BY <1>1, <1>2, <1>3, <1>6, <2>5, <2>6
    <2> QED BY <1>6, <2>2, <2>3, <2>4, <2>7, Moved DEF z
  <1>7. /\ Self = Top.filter /\ Self \in Filters /\ ev \in Event /\ Top.at \in Place
        /\ F = scene.filters[Self] /\ F.kind \in Carriers
        /\ F.next = To /\ (F.kind \notin {"Dump", "Commit"} => To # 0) /\ (To # 0 => To \in Filters)
        /\ F.handle # 0 => F.handle \in Filters
    BY <1>1, CallFacts, NextFacts, JoinedLines DEF Self, F, FrameSet, Carries, JoinedLines
  <1>8. /\ Reach[Self] = Own(Self) \cup Ahead(Reach, Self) \cup Aside(Reach, Self)
        /\ Own(Self) \cap Ahead(Reach, Self) = {} /\ Aside(Reach, Self) \cap Ahead(Reach, Self) = {}
    BY <1>7, JoinedFacts DEF Leads
  <1>9. /\ To # 0 => On \in FrameSet /\ Left(On) = Ahead(Reach, Self) /\ On.at = "modify" /\ On.filter = To
        /\ To # 0 => scene.filters[To].kind \in Carriers
        /\ To = 0 => Ahead(Reach, Self) = {}
    BY <1>7 DEF On, Frame, FrameSet, Place, Left, Ahead, JoinedLines
  <1>10. /\ Top.at = "modify" => Left(Top) = Reach[Self]
         /\ Top.at # "modify" => Left(Top) = Ahead(Reach, Self)
    BY <1>7 DEF Left
  <1>11. To # 0 => Carries(d, On)
    <2>1. Ahead(Reach, Self) \subseteq Left(Top) BY <1>8, <1>10
    <2> QED BY <1>3, <1>9, <2>1 DEF Carries
  <1>12. To # 0 /\ Forward(ev) => stack' = <<On>> \o Tail(stack) /\ ev' = ev
    BY <1>7 DEF Forward, On
  <1> HIDE DEF On, To
  <1>13. CASE PassOn /\ Top.at = "modify"
    <2>1. Plain /\ \A c : Still(c) BY <1>13 DEF PassOn, Environment
    <2>2. F.kind \in {"Dump", "GetFromHandle"} /\ ((Forward(ev) /\ To # 0) \/ (Drop /\ To = 0))
      BY <1>7, <1>13 DEF PassOn, At, ForwardIfAny
    <2>3. Left(Top) = Ahead(Reach, Self)
      BY <1>7, <1>8, <1>10, <1>13, <2>2 DEF Own, Aside
    <2> QED BY <1>4, <1>5, <1>9, <1>11, <1>12, <2>1, <2>2, <2>3
  <1>14. CASE Commit /\ Top.at = "modify"
    <2>1. Plain /\ F.kind = "Commit" /\ out' = [out EXCEPT ![Self] = Written(Self)]
      BY <1>14 DEF Commit, Environment, At
    <2>2. (Forward(ev) /\ To # 0) \/ (Drop /\ To = 0) BY <1>7, <1>14 DEF Commit, ForwardIfAny
    <2>3. out \in [Filters -> Seq(Event)] BY DEF Typed, TypeOK
    <2>4. Writes(Self) /\ \A c \in Filters : c # Self => Still(c) BY <1>7, <2>1, <2>3
    <2>5. /\ Self \in Left(Top) /\ Self \notin Ahead(Reach, Self)
          /\ \A c : c # Self => (c \in Left(Top) <=> c \in Ahead(Reach, Self))
      BY <1>7, <1>8, <1>10, <1>14, <2>1 DEF Own, Aside
    <2>6. \A c \in Kind("Commit") : c \in Filters BY DEF Kind
    <2>7. \A c \in Kind("Commit") :
            \/ Still(c) /\ (c \in Ahead(Reach, Self) <=> c \in Left(Top))
            \/ Writes(c) /\ c \in Left(Top) /\ c \notin Ahead(Reach, Self)
      BY <2>4, <2>5, <2>6
    <2>8. CASE Forward(ev) /\ To # 0 BY <1>4, <1>9, <1>11, <1>12, <2>1, <2>7, <2>8
    <2>9. CASE Drop /\ To = 0 BY <1>5, <1>9, <2>1, <2>7, <2>9
    <2> QED BY <2>2, <2>8, <2>9
  <1>15. CASE CopyToHandle /\ F.kind = "CopyToHandle"
    <2>1. Plain /\ \A c : Still(c) BY <1>15 DEF CopyToHandle, Environment
    <2>2. (Top.at = "modify" /\ Send("sent")) \/ (Top.at = "sent" /\ Forward(ev))
      BY <1>15 DEF CopyToHandle, At
    <2>3. To # 0 BY <1>7, <1>15
    <2> DEFINE y == [Top EXCEPT !.at = "sent"]
    <2>4. y \in FrameSet /\ y.filter = Self /\ y.at = "sent" BY <1>1, <1>7 DEF FrameSet, Place
    <2>5. Left(y) = Ahead(Reach, Self) BY <2>4 DEF Left
    <2>6. Carries(d, y)
      <3>1. Left(y) \subseteq Left(Top) BY <1>8, <1>10, <2>5
      <3> QED BY <1>3, <1>7, <1>15, <2>4, <3>1 DEF Carries
    <2>7. Own(Self) = {} BY <1>7, <1>15 DEF Own
    <2>8. CASE Top.at = "sent" /\ Forward(ev)
      BY <1>4, <1>9, <1>10, <1>11, <1>12, <2>1, <2>3, <2>8
    <2>9. CASE Top.at = "modify" /\ Send("sent") /\ F.handle = 0
      <3>1. stack' = <<y>> \o Tail(stack) /\ ev' = ev
        BY <1>7, <2>9 DEF Send
      <3>2. Left(y) = Left(Top) BY <1>7, <1>8, <1>10, <2>5, <2>7, <2>9 DEF Aside
      <3> HIDE DEF y
      <3> QED BY <1>4, <2>1, <2>4, <2>6, <3>1, <3>2
    <2>10. CASE Top.at = "modify" /\ Send("sent") /\ F.handle # 0
      <3> DEFINE x == Frame(F.handle, "modify", ev)
      <3>1. stack' = <<x, y>> \o Tail(stack) /\ ev' = ev
        BY <2>10 DEF Send, SendThen
      <3>2. x \in FrameSet /\ x.filter = F.handle /\ x.at = "modify"
        BY <1>7, <2>10 DEF Frame, FrameSet, Place
      <3>3. Left(x) = Aside(Reach, Self) BY <1>7, <1>15, <2>10, <3>2 DEF Left, Aside
      <3>4. scene.filters[F.handle].kind \in Carriers BY <1>7, <1>15, <2>10 DEF JoinedLines
      <3>5. Carries(d, x)
        <4>1. Left(x) \subseteq Left(Top) BY <1>8, <1>10, <2>10, <3>3
        <4> QED BY <1>3, <3>2, <3>4, <4>1 DEF Carries
      <3> HIDE DEF x, y
      <3>6. \A c \in Kind("Commit") :
              /\ Still(c) /\ ~(c \in Left(x) /\ c \in Left(y))
              /\ c \in Left(Top) <=> c \in Left(x) \/ c \in Left(y)
        BY <1>8, <1>10, <2>1, <2>5, <2>7, <2>10, <3>3
      <3> QED BY <1>6, <2>1, <2>4, <2>6, <3>1, <3>2, <3>5, <3>6
    <2> QED BY <2>2, <2>8, <2>9, <2>10
  <1> QED BY <1>7, <1>13, <1>14, <1>15, KindActions DEF Carriers

\* An event begins its way behind the Barrier.
LEMMA Launched ==
  ASSUME Typed, JoinedLines, Packets', UNCHANGED <<scene, unread, packet, out>>,
         NEW d \in Devices, \A e \in Devices : e # d => Resting(e)',
         packet[d] # <<>>, unread[d] = <<>>,
         NEW n \in Nat, NEW m \in 1 .. Len(Kept(d)), m = n + 1,
         \A c \in Kind("Commit") :
           IF c \in Reach[scene.roots[d]] THEN Has(out[c], d, n) ELSE Finished(out[c]),
         ev' \in Event, ev' = Kept(d)[m],
         NEW x \in FrameSet, x = Frame(scene.filters[scene.roots[d]].next, "modify", ev'),
         stack' = <<x>> \o Base(d, m),
         IF m < Len(Kept(d)) THEN Rest(d, m)' ELSE Queue(d)' = <<>>
  PROVE  Apart'
  <1> DEFINE b == scene.roots[d] To == scene.filters[b].next u == <<x>>
  <1>1. /\ Filters' = Filters /\ Devices' = Devices /\ FrameSet' = FrameSet /\ Reach' = Reach
        /\ (\A y : Kind(y)' = Kind(y)) /\ \A e, r : Carries(e, r)' <=> Carries(e, r)
    BY SameJoined
  <1>2. Kept(d)' = Kept(d) /\ Base(d, m)' = Base(d, m)
        /\ \A s, c : Way(s, c, d, m, u)' <=> Way(s, c, d, m, u)
    BY SamePackets
  <1>3. /\ b \in Filters /\ To \in Filters /\ scene.filters[To].kind \in Carriers
        /\ Reach[b] = Reach[To]
    BY JoinedFacts
  <1>4. x.filter = To /\ x.at = "modify" BY DEF Frame
  <1>5. Left(x) = Reach[b] BY <1>3, <1>4 DEF Left
  <1>6. Carries(d, x) BY <1>3, <1>4, <1>5 DEF Carries
  <1>7. u \in Seq(FrameSet) /\ u # <<>> /\ DOMAIN u = 1 .. 1 /\ u[1] = x OBVIOUS
  <1>8. u = <<x>> \o <<>> BY <1>7, ConcatEmptySeq
  <1>9. \A c : Once(c, u) /\ (Due(c, u) <=> c \in Reach[b])
    <2> TAKE c
    <2>1. Once(c, u)
      <3>1. \A i, j \in 1 .. 1 : i = j OBVIOUS
      <3> QED BY <1>7, <3>1 DEF Once
    <2>2. Due(c, u) <=> c \in Left(x)
      <3>1. 1 \in 1 .. 1 /\ \A i \in 1 .. 1 : i = 1 OBVIOUS
      <3> QED BY <1>7, <3>1 DEF Due
    <2> QED BY <1>5, <2>1, <2>2
  <1> HIDE DEF u
  <1>10. \A i \in DOMAIN u : Carries(d, u[i])
    <2>1. \A i \in 1 .. 1 : i = 1 OBVIOUS
    <2> QED BY <1>6, <1>7, <2>1
  <1>11. \A c \in Kind("Commit") : Way(out[c], c, d, m, u)
    <2>1. m - 1 = n OBVIOUS
    <2> QED BY <1>9, <2>1 DEF Way
  <1>12. \A c \in Kind("Commit") : Way(out[c], c, d, m, u)'
    <2>1. out' = out /\ Kind("Commit")' = Kind("Commit") BY <1>1
    <2>2. \A s, c : Way(s, c, d, m, u)' <=> Way(s, c, d, m, u) BY SamePackets
    <2> QED BY <1>11, <2>1, <2>2, SameJoined, SamePackets DEF Way, Finished, Has
  <1>13. stack' = u \o Base(d, m) /\ stack' # <<>>
    <2>1. Base(d, m) \in Seq(FrameSet)
      <3>1. Frame(b, "flush", Syn) \in FrameSet BY <1>3, SynIs DEF Frame, FrameSet, Place
      <3> QED BY <3>1 DEF Base
    <2>2. stack' = u \o Base(d, m) BY DEF u
    <2> DEFINE z == Base(d, m)
    <2> HIDE DEF z
    <2>3. <<x>> \o z # <<>> BY <2>1, PushFacts DEF z
    <2> QED BY <2>2, <2>3 DEF u, z
  <1>14. Flushing(d, m, u)'
    <2>1. packet' = packet /\ unread' = unread OBVIOUS
    <2>2. (IF m < Len(Kept(d)) THEN Rest(d, m) ELSE Queue(d) = <<>>)' BY <1>2
    <2>3. (u # <<>> => ev = Kept(d)[m])' BY <1>2
    <2> QED BY <1>1, <1>2, <1>10, <1>12, <1>13, <2>1, <2>2, <2>3 DEF Flushing
  <1>15. Working(d, m, u)' BY <1>1, <1>2, <1>7, <1>14 DEF Working
  <1>16. AtWork(d)' BY <1>1, <1>15 DEF AtWork
  <1> QED BY <1>1, <1>16 DEF Apart

\* The Barrier that is at work sends the next of its events, or the sync.
LEMMA Launch ==
  ASSUME Typed, JoinedLines, Packets, UNCHANGED <<scene, unread, packet, out>>,
         NEW d \in Devices, \A e \in Devices : e # d => Resting(e),
         packet[d] # <<>>, unread[d] = <<>>, stack # <<>>, Len(stack) = 1,
         Self = scene.roots[d], Top.ev = Syn, NEW n \in Nat, Rest(d, n),
         \A c \in Kind("Commit") :
           IF c \in Reach[scene.roots[d]] THEN Has(out[c], d, n) ELSE Finished(out[c]),
         \/ S.queue # <<>> /\ SendThen(F.next, Head(S.queue), "flush") /\ Keep([S EXCEPT !.queue = Tail(@)])
         \/ S.queue = <<>> /\ Forward(Top.ev) /\ UNCHANGED st
  PROVE  Apart'
  <1> DEFINE b == scene.roots[d] k == Kept(d) q == Queue(d) m == n + 1
             To == scene.filters[b].next
  <1>1. /\ Filters' = Filters /\ Devices' = Devices /\ FrameSet' = FrameSet /\ Reach' = Reach
        /\ (\A x : Kind(x)' = Kind(x)) /\ \A e, r : Carries(e, r)' <=> Carries(e, r)
    BY SameJoined
  <1>2. Kept(d)' = Kept(d) /\ Base(d, m)' = Base(d, m)
        /\ \A s, c, t : Way(s, c, d, m, t)' <=> Way(s, c, d, m, t)
    BY SamePackets
  <1>3. /\ b \in Filters /\ To \in Filters /\ scene.filters[To].kind \in Carriers
        /\ Reach[b] = Reach[To] /\ q \in Seq(Event) /\ Len(q) \in Nat
    BY JoinedFacts, LenProperties
  <1>4. /\ k \in Seq(Event) /\ Len(k) \in Nat \ {0} /\ k[Len(k)] = Syn
    <2>1. packet[d] \in Seq(Event) /\ Sent(d) /\ Room(d) \in Nat BY JoinedFacts DEF Packets
    <2> QED BY <2>1, KeptFacts
  <1>5. n + Len(q) + 1 = Len(k) /\ \A i \in 1 .. Len(q) : q[i] = k[n + i] BY DEF Rest
  <1>6. S.queue = q /\ F.next = To /\ Tail(stack) = <<>> BY OneCall DEF S, F, Queue
  <1>7. \A e \in Devices : e # d => scene.roots[e] # b BY DEF JoinedLines
  <1>8. \A e \in Devices : e # d => UNCHANGED Queue(e)
    <2> SUFFICES ASSUME NEW e \in Devices, e # d PROVE st'[scene.roots[e]] = st[scene.roots[e]]
      BY DEF Queue
    <2>1. scene.roots[e] # b /\ scene.roots[e] \in Filters BY <1>7, JoinedFacts
    <2>2. st \in [Filters -> State] BY DEF Typed, TypeOK
    <2> QED BY <2>1, <2>2 DEF Keep
  <1>9. Packets' /\ \A e \in Devices : e # d => Resting(e)' BY <1>8, SameRest
  <1> HIDE DEF m
  <1>10. m = n + 1 BY DEF m
  <1>11. CASE q # <<>> /\ SendThen(F.next, Head(S.queue), "flush") /\ Keep([S EXCEPT !.queue = Tail(@)])
    <2> DEFINE e == Head(q) x == Frame(To, "modify", e) y == Frame(b, "flush", Syn)
    <2>1. Len(q) \in Nat \ {0} BY <1>3, <1>11, EmptySeq
    <2>2. 1 \in 1 .. Len(q) /\ m \in 1 .. Len(k) /\ m < Len(k) BY <1>4, <1>5, <1>10, <2>1
    <2>3. e = q[1] /\ e \in Event /\ Tail(q) \in Seq(Event) /\ Len(Tail(q)) = Len(q) - 1
          /\ \A i \in 1 .. Len(Tail(q)) : Tail(q)[i] = q[i + 1]
      <3>1. q # <<>> /\ q \in Seq(Event) BY <1>3, <1>11
      <3> HIDE DEF q
      <3>2. Head(q) = q[1] BY <3>1
      <3> QED BY <3>1, <3>2, HeadTailProperties DEF e
    <2>4. e = k[m] BY <1>5, <1>10, <2>2, <2>3
    <2>5. [Top EXCEPT !.at = "flush"] = y
      BY CallFacts DEF FrameSet, Frame, Self
    <2>6. stack' = <<x, y>> \o <<>> /\ ev' = e BY <1>6, <1>11, <2>5 DEF SendThen
    <2>7. stack' = <<x>> \o <<y>>
      <3>1. <<x, y>> \in Seq({x, y}) OBVIOUS
      <3>2. <<x, y>> \o <<>> = <<x, y>> BY <3>1, ConcatEmptySeq
      <3> QED BY <2>6, <3>2, PairFacts
    <2>8. Base(d, m) = <<y>> BY <2>2 DEF Base
    <2>9. Queue(d)' = Tail(q)
      <3>1. st' = [st EXCEPT ![b] = [S EXCEPT !.queue = Tail(q)]] BY <1>6, <1>11 DEF Keep
      <3>2. st \in [Filters -> State] /\ S = st[b] BY DEF Typed, TypeOK, S
      <3>3. S \in State BY <1>3, <3>2
      <3>4. st'[b] = [S EXCEPT !.queue = Tail(q)] BY <1>3, <3>1, <3>2
      <3>5. st'[b].queue = Tail(q) BY <3>3, <3>4 DEF State
      <3> QED BY <3>5 DEF Queue
    <2>10. Rest(d, m)'
      <3> DEFINE p == Tail(q)
      <3>1. p = Queue(d)' BY <2>9
      <3> HIDE DEF p, q
      <3>2. m + Len(p) + 1 = Len(k) /\ \A i \in 1 .. Len(p) : p[i] = k[m + i]
        <4>1. Len(p) = Len(q) - 1 /\ \A i \in 1 .. Len(p) : p[i] = q[i + 1] BY <2>3 DEF p
        <4>2. \A i \in 1 .. Len(p) : i + 1 \in 1 .. Len(q) /\ q[i + 1] = k[n + (i + 1)] /\ n + (i + 1) = m + i
          <5> TAKE i \in 1 .. Len(p)
          <5>1. i + 1 \in 1 .. Len(q) BY <2>1, <4>1
          <5>2. q[i + 1] = k[n + (i + 1)] BY <1>5, <5>1
          <5>3. n + (i + 1) = m + i BY <1>10
          <5> QED BY <5>1, <5>2, <5>3
        <4>3. Len(p) = Len(q) - 1 /\ m = n + 1 /\ n + Len(q) + 1 = Len(k) /\ Len(q) \in Nat
          BY <1>5, <1>10, <2>1, <4>1
        <4>4. m + Len(p) + 1 = Len(k) BY <4>3
        <4> QED BY <4>1, <4>2, <4>4
      <3> QED BY <1>2, <3>1, <3>2 DEF Rest
    <2>11. x \in FrameSet BY <1>3, <2>3 DEF Frame, FrameSet, Place
    <2>12. stack' = <<x>> \o Base(d, m) /\ ev' = k[m] /\ ev' \in Event BY <2>3, <2>4, <2>6, <2>7, <2>8
    <2>13. x = Frame(To, "modify", ev') BY <2>6
    <2> HIDE DEF e, q, x
    <2> QED BY <1>9, <1>10, <2>2, <2>10, <2>11, <2>12, <2>13, Launched
  <1>12. CASE q = <<>> /\ Forward(Top.ev) /\ UNCHANGED st
    <2> DEFINE x == Frame(To, "modify", Syn)
    <2>1. Len(q) = 0 BY <1>12
    <2>2. m = Len(k) /\ m \in 1 .. Len(k) /\ ~(m < Len(k)) BY <1>4, <1>5, <1>10, <2>1
    <2>3. stack' = <<x>> \o <<>> /\ ev' = Syn BY <1>6, <1>12 DEF Forward
    <2>4. Base(d, m) = <<>> BY <2>2 DEF Base
    <2>5. Queue(d)' = <<>> BY <1>12 DEF Queue
    <2>6. x \in FrameSet BY <1>3, SynIs DEF Frame, FrameSet, Place
    <2>7. <<x>> \o <<>> = <<x>> \o Base(d, m) BY <2>4
    <2>8. stack' = <<x>> \o Base(d, m) /\ ev' = k[m] /\ ev' \in Event
      BY <1>4, <2>2, <2>3, <2>7, SynIs
    <2>9. x = Frame(To, "modify", ev') BY <2>3
    <2> HIDE DEF q, x
    <2> QED BY <1>9, <1>10, <2>2, <2>5, <2>6, <2>8, <2>9, Launched
  <1> QED BY <1>6, <1>11, <1>12

\* The Barrier keeps an event, or begins to pass on what it has kept.
LEMMA TakingStep ==
  ASSUME Typed, JoinedLines, Packets, UNCHANGED scene, Barrier,
         NEW d \in Devices, \A e \in Devices : e # d => Resting(e), Taking(d), AllFinished
  PROVE  Apart'
  <1> DEFINE p == packet[d] l == Len(packet[d]) q == Queue(d) R == Room(d) j == Taken(d)
  <1>1. /\ stack # <<>> /\ Len(stack) = 1 /\ Self = scene.roots[d] /\ Top.at = "modify" /\ Top.ev = ev
        /\ j >= 1 /\ ev = p[j] /\ Gathered(d, j - 1)
    BY DEF Taking
  <1>2. UNCHANGED <<scene, unread, packet, out>> BY DEF Barrier, Environment
  <1>3. /\ Self \in Filters /\ R \in Nat /\ q \in Seq(Event) /\ Len(q) \in Nat /\ ev \in Event
        /\ D.history = R /\ S.queue = q /\ S = st[Self]
    <2>1. R \in Nat /\ q \in Seq(Event) BY JoinedFacts
    <2>2. Self \in Filters /\ ev \in Event BY <1>1, CallFacts
    <2>3. D.history = R /\ S.queue = q /\ S = st[Self] BY <1>1 DEF D, Room, S, Queue
    <2>4. Len(q) \in Nat
      <3> HIDE DEF q
      <3> QED BY <2>1, LenProperties
    <2> QED BY <2>1, <2>2, <2>3, <2>4
  <1>4. Len(q) = (IF j - 1 <= R THEN j - 1 ELSE R) /\ \A i \in 1 .. Len(q) : q[i] = p[i]
    BY <1>1 DEF Gathered
  <1>5. p \in Seq(Event) /\ unread[d] \in Seq(Event) /\ Sent(d) BY DEF Packets, Typed, TypeOK
  <1>6. l \in Nat /\ Len(unread[d]) \in Nat /\ j = l - Len(unread[d]) BY <1>5, LenProperties DEF Taken
  <1>7. p # <<>>
    <2> SUFFICES ASSUME p = <<>> PROVE FALSE OBVIOUS
    <2>1. l = 0 BY <1>5, EmptySeq
    <2> QED BY <1>1, <1>6, <2>1
  <1>8. l >= 1 /\ p[l] = Syn /\ \A i \in 1 .. l - 1 : p[i].type # "SYN"
    BY <1>5, <1>7 DEF Sent
  <1>9. j \in 1 .. l /\ (unread[d] = <<>> <=> j = l)
    <2> DEFINE r == Len(unread[d])
    <2>1. unread[d] = <<>> <=> r = 0 BY <1>5, EmptySeq
    <2>2. j >= 1 /\ j = l - r /\ r \in Nat /\ l \in Nat BY <1>1, <1>6
    <2> HIDE DEF j, l, r
    <2> QED BY <2>1, <2>2
  <1>10. CASE ~IsReport(ev) /\ Drop /\ Keep([S EXCEPT !.queue = Inserted(@)])
    <2>1. unread[d] # <<>>
      <3>1. IsReport(Syn) BY SynIs DEF IsReport
      <3> QED BY <1>1, <1>8, <1>9, <1>10, <3>1
    <2>2. stack' = <<>> BY <1>1, <1>10, OneCall
    <2>3. Queue(d)' = IF Len(q) < R THEN Append(q, ev) ELSE q
      <3>1. st' = [st EXCEPT ![Self] = [S EXCEPT !.queue = Inserted(q)]] BY <1>3, <1>10 DEF Keep
      <3>2. st \in [Filters -> State] BY DEF Typed, TypeOK
      <3>3. S \in State BY <1>3, <3>2
      <3>4. st'[Self] = [S EXCEPT !.queue = Inserted(q)] BY <1>3, <3>1, <3>2
      <3>5. st'[Self].queue = Inserted(q) BY <3>3, <3>4 DEF State
      <3>6. Queue(d)' = st'[Self].queue BY <1>1, <1>2 DEF Queue
      <3> QED BY <1>3, <3>5, <3>6 DEF Inserted
    <2>4. Len(Queue(d)') = (IF j <= R THEN j ELSE R) /\ \A i \in 1 .. Len(Queue(d)') : Queue(d)'[i] = p[i]
      <3> HIDE DEF q, R, j, p, l
      <3>0. j \in Nat BY <1>6, <1>9
      <3>1. CASE Len(q) < R
        <4>1. Len(q) = j - 1 BY <1>3, <1>4, <3>0, <3>1
        <4> DEFINE a == Append(q, ev)
        <4>2. Len(a) = Len(q) + 1 /\ a[Len(q) + 1] = ev /\ \A i \in 1 .. Len(q) : a[i] = q[i]
          BY <1>3, AppendProperties
        <4> HIDE DEF a
        <4>3. Queue(d)' = a BY <2>3, <3>1 DEF a
        <4>4. Len(a) = j /\ a[j] = p[j] BY <1>1, <3>0, <4>1, <4>2
        <4>5. ASSUME NEW i \in 1 .. j PROVE a[i] = p[i]
          <5>1. CASE i = j BY <4>4, <5>1
          <5>2. CASE i # j
            <6>1. i \in 1 .. Len(q) BY <3>0, <4>1, <5>2
            <6> QED BY <1>4, <4>2, <6>1
          <5> QED BY <5>1, <5>2
        <4>6. j <= R BY <1>3, <3>0, <3>1, <4>1
        <4> QED BY <4>3, <4>4, <4>5, <4>6
      <3>2. CASE ~(Len(q) < R)
        <4>1. Len(q) = R /\ Len(q) = (IF j <= R THEN j ELSE R) BY <1>3, <1>4, <3>0, <3>2
        <4>2. Queue(d)' = q BY <2>3, <3>2
        <4> QED BY <1>4, <4>1, <4>2
      <3> QED BY <3>1, <3>2
    <2>5. Gathered(d, Taken(d))'
      <3>1. Taken(d)' = Taken(d) /\ Room(d)' = Room(d) BY <1>2, SameJoined DEF Taken
      <3> QED BY <1>2, <2>4, <3>1 DEF Gathered
    <2>6. Resting(d)' BY <1>2, <2>1, <2>5 DEF Resting
    <2>7. \A e \in Devices : e # d => UNCHANGED Queue(e)
      <3> SUFFICES ASSUME NEW e \in Devices, e # d PROVE st'[scene.roots[e]] = st[scene.roots[e]]
        BY DEF Queue
      <3>1. scene.roots[e] # Self BY <1>1 DEF JoinedLines
      <3>2. scene.roots[e] \in Filters BY JoinedFacts
      <3> QED BY <1>1, <1>10, <3>1, <3>2, KeepFacts
    <2>8. Packets' /\ \A e \in Devices : e # d => Resting(e)' BY <1>2, <2>7, SameRest
    <2>9. Devices' = Devices /\ Kind("Commit")' = Kind("Commit") BY SameJoined
    <2>10. Idle' BY <2>2, <2>6, <2>8, <2>9 DEF Idle
    <2>11. AllFinished' BY <1>2, <2>9 DEF AllFinished, Finished
    <2> QED BY <2>8, <2>10, <2>11 DEF Apart
  <1>11. CASE /\ IsReport(ev)
              /\ \/ S.queue # <<>> /\ SendThen(F.next, Head(S.queue), "flush") /\ Keep([S EXCEPT !.queue = Tail(@)])
                 \/ S.queue = <<>> /\ Forward(Top.ev) /\ UNCHANGED st
    <2>1. j = l
      <3>1. p[j].type = "SYN" BY <1>1, <1>11 DEF IsReport
      <3> HIDE DEF j, l, p
      <3> QED BY <1>6, <1>8, <1>9, <3>1
    <2>2. ev = Syn /\ unread[d] = <<>> BY <1>1, <1>8, <1>9, <2>1
    <2>3. /\ Len(Kept(d)) = (IF l - 1 <= R THEN l ELSE R + 1)
          /\ \A i \in 1 .. Len(Kept(d)) - 1 : Kept(d)[i] = p[i]
      BY <1>3, <1>5, <1>7, KeptFacts
    <2>4. Rest(d, 0)
      <3> DEFINE k == Kept(d)
      <3> HIDE DEF q, R, j, p, l, k
      <3>0. /\ Len(k) = (IF l - 1 <= R THEN l ELSE R + 1) /\ Len(q) = (IF l - 1 <= R THEN l - 1 ELSE R)
            /\ l \in Nat /\ R \in Nat
        BY <1>3, <1>4, <1>6, <2>1, <2>3 DEF k
      <3>1. 0 + Len(q) + 1 = Len(k) BY <3>0
      <3>2. ASSUME NEW i \in 1 .. Len(q) PROVE q[i] = k[0 + i]
        <4>1. i \in 1 .. Len(k) - 1 /\ 0 + i = i BY <3>0
        <4>2. k[i] = p[i] BY <2>3, <4>1 DEF k
        <4> QED BY <1>4, <4>1, <4>2
      <3> QED BY <3>1, <3>2 DEF Rest, q, k
    <2>5. \A c \in Kind("Commit") :
            IF c \in Reach[scene.roots[d]] THEN Has(out[c], d, 0) ELSE Finished(out[c])
      BY DEF AllFinished, Has
    <2> HIDE DEF p, l, q, R, j
    <2> QED BY <1>1, <1>2, <1>7, <1>11, <2>2, <2>4, <2>5, Launch DEF p
  <1>12. \/ ~IsReport(ev) /\ Drop /\ Keep([S EXCEPT !.queue = Inserted(@)])
         \/ /\ IsReport(ev)
            /\ \/ S.queue # <<>> /\ SendThen(F.next, Head(S.queue), "flush") /\ Keep([S EXCEPT !.queue = Tail(@)])
               \/ S.queue = <<>> /\ Forward(Top.ev) /\ UNCHANGED st
    BY <1>1 DEF Barrier, At
  <1> QED BY <1>10, <1>11, <1>12

\* Between two events that it passes on, the Barrier waits.
LEMMA WaitingBarrier ==
  ASSUME NEW d, NEW n, Working(d, n, <<>>)
  PROVE  /\ n < Len(Kept(d)) /\ stack # <<>> /\ Len(stack) = 1
         /\ Self = scene.roots[d] /\ Top.ev = Syn /\ Top.at = "flush"
  <1> DEFINE y == Frame(scene.roots[d], "flush", Syn)
  <1>1. stack = <<>> \o Base(d, n) /\ stack # <<>> BY DEF Working, Flushing
  <1>2. n < Len(Kept(d)) /\ stack = <<y>>
    <2>1. <<>> \o <<>> = <<>> /\ <<>> \o <<y>> = <<y>>
      <3>1. <<y>> \in Seq({y}) /\ <<>> \in Seq({y}) OBVIOUS
      <3> HIDE DEF y
      <3> QED BY <3>1, ConcatEmptySeq
    <2> QED BY <1>1, <2>1 DEF Base
  <1>3. Len(stack) = 1 /\ Top = y
    <2>1. Len(<<y>>) = 1 /\ Head(<<y>>) = y OBVIOUS
    <2> HIDE DEF y
    <2> QED BY <1>2, <2>1 DEF Top
  <1> QED BY <1>1, <1>2, <1>3 DEF Frame, Self

\* It goes on passing on what it has kept.
LEMMA FlushingStep ==
  ASSUME Typed, JoinedLines, Packets, UNCHANGED scene, Modify,
         NEW d \in Devices, \A e \in Devices : e # d => Resting(e), NEW n, Working(d, n, <<>>)
  PROVE  Apart'
  <1> DEFINE k == Kept(d)
  <1>1. /\ n \in 1 .. Len(k) /\ packet[d] # <<>> /\ unread[d] = <<>>
        /\ IF n < Len(k) THEN Rest(d, n) ELSE Queue(d) = <<>>
        /\ \A c \in Kind("Commit") : Way(out[c], c, d, n, <<>>)
    BY DEF Working, Flushing
  <1>2. n < Len(k) BY WaitingBarrier
  <1>3. stack # <<>> /\ Len(stack) = 1 BY WaitingBarrier
  <1>4. Self = scene.roots[d] /\ Top.ev = Syn /\ Top.at = "flush" BY WaitingBarrier
  <1>5. F.kind = "Barrier" BY <1>4 DEF F, JoinedLines
  <1>6. Barrier BY <1>5, KindActions
  <1>7. \/ S.queue # <<>> /\ SendThen(F.next, Head(S.queue), "flush") /\ Keep([S EXCEPT !.queue = Tail(@)])
        \/ S.queue = <<>> /\ Forward(Top.ev) /\ UNCHANGED st
    BY <1>4, <1>6 DEF Barrier, At
  <1>8. UNCHANGED <<scene, unread, packet, out>> BY <1>6 DEF Barrier, Environment
  <1>9. n \in Nat BY <1>1
  <1>10. \A c \in Kind("Commit") :
           IF c \in Reach[scene.roots[d]] THEN Has(out[c], d, n) ELSE Finished(out[c])
    BY <1>1 DEF Way, Due
  <1> QED BY <1>1, <1>2, <1>3, <1>4, <1>7, <1>8, <1>9, <1>10, Launch

LEMMA ApartModify ==
  ASSUME Typed, JoinedLines, Apart, UNCHANGED scene, Modify
  PROVE  Apart'
  <1>1. stack # <<>> BY KindActions
  <1>2. PICK d \in Devices : AtWork(d) BY <1>1 DEF Apart, Idle
  <1>3. Packets /\ \A e \in Devices : e # d => Resting(e) BY <1>2 DEF Apart, AtWork
  <1>4. CASE Taking(d) /\ AllFinished
    <2>1. F.kind = "Barrier" BY <1>4 DEF Taking, F, JoinedLines
    <2>2. Barrier BY <2>1, KindActions
    <2> QED BY <1>3, <1>4, <2>2, TakingStep
  <1>5. ASSUME NEW n, NEW t, Working(d, n, t) PROVE Apart'
    <2>1. CASE t = <<>> BY <1>3, <1>5, <2>1, FlushingStep
    <2>2. CASE t # <<>> BY <1>3, <1>5, <2>2, CarrierStep
    <2> QED BY <2>1, <2>2
  <1> QED BY <1>2, <1>4, <1>5 DEF AtWork

LEMMA SameDevice ==
  ASSUME UNCHANGED <<scene, st>>, NEW e, packet'[e] = packet[e], unread'[e] = unread[e]
  PROVE  Sent(e)' = Sent(e) /\ Resting(e)' = Resting(e)
  <1>1. Room(e)' = Room(e) /\ Queue(e)' = Queue(e) BY SameJoined DEF Queue
  <1>2. Taken(e)' = Taken(e) BY DEF Taken
  <1>3. \A k : Gathered(e, k)' = Gathered(e, k) BY <1>1 DEF Gathered
  <1>4. Sent(e)' = Sent(e) BY <1>1, <1>2 DEF Sent
  <1>5. Resting(e)' = Resting(e) BY <1>1, <1>2, SameJoined DEF Resting, Gathered
  <1> QED BY <1>4, <1>5

\* A device has sent a packet.
LEMMA PacketArrives ==
  ASSUME Typed, JoinedLines, Apart, NEW d \in Devices, Packet(d)
  PROVE  Apart'
  <1>1. stack = <<>> /\ unread[d] = <<>> /\ UNCHANGED <<scene, st, stack, out>> BY DEF Packet
  <1>2. Packets /\ Idle /\ AllFinished
    BY <1>1 DEF Apart, AtWork, Taking, Working, Flushing
  <1>3. PICK p \in scene.packets[d] :
          unread' = [unread EXCEPT ![d] = Append(p, Syn)] /\ packet' = [packet EXCEPT ![d] = Append(p, Syn)]
    BY DEF Packet
  <1> DEFINE a == Append(p, Syn) n == Len(p)
  <1>4. unread \in [Devices -> Seq(Event)] /\ packet \in [Devices -> Seq(Event)]
    BY <1>2 DEF Typed, TypeOK, Packets
  <1>5. unread'[d] = a /\ packet'[d] = a BY <1>3, <1>4
  <1>6. \A e \in Devices : e # d => unread'[e] = unread[e] /\ packet'[e] = packet[e]
    BY <1>3, <1>4
  <1>7. p \in Seq(Event) BY ScenesAssumption DEF Devices, Typed, TypeOK
  <1>8. /\ a \in Seq(Event) /\ a # <<>> /\ Len(a) = n + 1 /\ n \in Nat /\ a[n + 1] = Syn
        /\ DOMAIN p = 1 .. n /\ \A i \in 1 .. n : a[i] = p[i]
    BY <1>7, SynIs, AppendProperties, LenProperties
  <1>9. (n < MaxOut \/ Room(d) < MaxOut) /\ \A i \in DOMAIN p : p[i].type # "SYN"
    BY DEF JoinedLines, Room
  <1>10. Room(d)' = Room(d) /\ Devices' = Devices /\ Kind("Commit")' = Kind("Commit")
    BY <1>1, SameJoined
  <1> HIDE DEF a, n
  <1>11. Taken(d)' = 0 BY <1>5, <1>8 DEF Taken
  <1>12. Sent(d)'
    <2>1. n + 1 <= MaxOut \/ Room(d) < MaxOut BY <1>8, <1>9, MaxOutAssumption
    <2>2. n + 1 >= 1 /\ (n + 1) - 1 = n BY <1>8
    <2>3. \A i \in 1 .. n + 1 : 0 + i = i BY <1>8
    <2>4. \A i \in 1 .. n : a[i].type # "SYN" BY <1>8, <1>9
    <2> QED BY <1>5, <1>8, <1>10, <1>11, <2>1, <2>2, <2>3, <2>4 DEF Sent
  <1>13. Resting(d)'
    <2>1. Queue(d)' = <<>> BY <1>1, <1>2 DEF Queue, Idle, Resting
    <2>2. Room(d) \in Nat BY JoinedFacts
    <2>3. Gathered(d, 0)' BY <1>10, <2>1, <2>2 DEF Gathered
    <2> QED BY <1>5, <1>8, <1>11, <2>3 DEF Resting, Gathered
  <1>14. \A e \in Devices : Sent(e)' /\ Resting(e)'
    <2> SUFFICES ASSUME NEW e \in Devices, e # d PROVE Sent(e)' /\ Resting(e)' BY <1>12, <1>13
    <2>1. Sent(e) /\ Resting(e) BY <1>2 DEF Packets, Idle
    <2> QED BY <1>1, <1>6, <2>1, SameDevice
  <1>15. packet' \in [Devices -> Seq(Event)]
    BY <1>3, <1>4, <1>8 DEF a
  <1>16. Packets' /\ Idle' /\ AllFinished'
    BY <1>1, <1>2, <1>10, <1>14, <1>15 DEF Packets, Idle, AllFinished, Finished
  <1> QED BY <1>16 DEF Apart

\* The next event is read.
LEMMA EventRead ==
  ASSUME Typed, JoinedLines, Apart, NEW d \in Devices, Read(d)
  PROVE  Apart'
  <1> DEFINE p == packet[d] u == unread[d] v == Tail(unread[d])
  <1>1. stack = <<>> /\ u # <<>> /\ UNCHANGED <<scene, st, out, packet>> /\ ev' = Head(u)
        /\ unread' = [unread EXCEPT ![d] = v]
        /\ stack' = <<Frame(scene.roots[d], "modify", ev')>>
    BY DEF Read
  <1>2. Packets /\ Idle /\ AllFinished
    BY <1>1 DEF Apart, AtWork, Taking, Working, Flushing
  <1>3. unread \in [Devices -> Seq(Event)] /\ p \in Seq(Event) /\ Sent(d) /\ Gathered(d, Taken(d))
    BY <1>1, <1>2 DEF Typed, TypeOK, Packets, Idle, Resting
  <1>4. /\ Len(u) \in Nat \ {0} /\ Len(p) \in Nat /\ Len(v) = Len(u) - 1 /\ v \in Seq(Event)
        /\ ev' = u[1] /\ \A i \in 1 .. Len(v) : v[i] = u[i + 1]
    BY <1>1, <1>3, HeadTailProperties, LenProperties, EmptySeq
  <1>5. unread'[d] = v /\ \A e \in Devices : e # d => unread'[e] = unread[e] BY <1>1, <1>3
  <1>6. /\ Len(u) <= Len(p) /\ \A i \in 1 .. Len(u) : u[i] = p[Taken(d) + i]
        /\ p # <<>>
    BY <1>1, <1>3 DEF Sent
  <1>7. /\ Room(d)' = Room(d) /\ Devices' = Devices /\ Kind("Commit")' = Kind("Commit")
        /\ Queue(d)' = Queue(d)
    BY <1>1, SameJoined DEF Queue
  <1> DEFINE t == Taken(d)
  <1>8. t = Len(p) - Len(u) /\ Taken(d)' = Len(p) - Len(v) BY <1>1, <1>5 DEF Taken
  <1> HIDE DEF t, u, v, p
  <1>9. t \in Nat /\ Taken(d)' = t + 1 BY <1>4, <1>6, <1>8
  <1>10. Sent(d)'
    <2>1. Len(v) <= Len(p) BY <1>4, <1>6
    <2>2. \A i \in 1 .. Len(v) : v[i] = p[(t + 1) + i]
      <3> TAKE i \in 1 .. Len(v)
      <3>1. i + 1 \in 1 .. Len(u) /\ t + (i + 1) = (t + 1) + i BY <1>4, <1>9
      <3> QED BY <1>4, <1>6, <3>1 DEF t
    <2>3. packet'[d] = p BY <1>1 DEF p
    <2> QED BY <1>3, <1>5, <1>6, <1>7, <1>9, <2>1, <2>2, <2>3 DEF Sent, p
  <1>11. ev' = p[t + 1]
    <2>1. 1 \in 1 .. Len(u) BY <1>4
    <2> QED BY <1>4, <1>6, <2>1 DEF t
  <1>12. Gathered(d, Taken(d) - 1)'
    <2>1. Taken(d)' - 1 = Taken(d) BY <1>9 DEF t
    <2>2. packet'[d] = packet[d] BY <1>1
    <2> QED BY <1>3, <1>7, <2>1, <2>2 DEF Gathered
  <1>13. /\ stack' # <<>> /\ Len(stack') = 1 /\ Self' = scene.roots[d]
         /\ Top'.at = "modify" /\ Top'.ev = ev'
    <2>1. \A x : <<x>> # <<>> /\ Len(<<x>>) = 1 /\ Head(<<x>>) = x OBVIOUS
    <2>2. Top' = Frame(scene.roots[d], "modify", ev') BY <1>1, <2>1 DEF Top
    <2> QED BY <1>1, <2>1, <2>2 DEF Frame, Self
  <1>14. Taking(d)'
    <2>1. Taken(d)' >= 1 BY <1>9
    <2>2. ev' = packet'[d][Taken(d)'] BY <1>1, <1>9, <1>11 DEF p
    <2> QED BY <1>1, <1>12, <1>13, <2>1, <2>2 DEF Taking
  <1>15. \A e \in Devices : e # d => Sent(e)' /\ Resting(e)'
    <2> SUFFICES ASSUME NEW e \in Devices, e # d PROVE Sent(e)' /\ Resting(e)' OBVIOUS
    <2>1. Sent(e) /\ Resting(e) BY <1>2 DEF Packets, Idle
    <2>2. packet'[e] = packet[e] BY <1>1
    <2> QED BY <1>1, <1>5, <2>1, <2>2, SameDevice
  <1>16. Packets' /\ AllFinished'
    BY <1>1, <1>2, <1>7, <1>10, <1>15 DEF Packets, AllFinished, Finished
  <1>17. AtWork(d)' BY <1>7, <1>14, <1>15, <1>16 DEF AtWork
  <1> QED BY <1>7, <1>16, <1>17 DEF Apart

LEMMA ApartNext ==
  ASSUME Typed, ApartInv, [Next]_vars
  PROVE  ApartInv'
  <1>1. UNCHANGED scene BY StepFacts
  <1>2. JoinedLines' = JoinedLines BY <1>1, SameJoined
  <1> SUFFICES ASSUME JoinedLines PROVE Apart' BY <1>2 DEF ApartInv
  <1>3. Apart BY DEF ApartInv
  <1>4. CASE Modify BY <1>1, <1>3, <1>4, ApartModify
  <1>5. ASSUME NEW d \in Devices, Packet(d) \/ Read(d) PROVE Apart'
    BY <1>3, <1>5, PacketArrives, EventRead
  <1>6. CASE UNCHANGED vars
    <2>1. UNCHANGED <<scene, st, ev, stack, unread, packet, out>> BY <1>6 DEF vars, history
    <2>2. Top' = Top /\ Self' = Self BY <2>1 DEF Top, Self
    <2>3. \A e : Resting(e)' = Resting(e)
      BY <2>1, SameDevice
    <2>4. Packets' /\ Devices' = Devices /\ FrameSet' = FrameSet /\ Kind("Commit")' = Kind("Commit")
      BY <1>3, <2>1, SameRest, SameJoined DEF Apart
    <2>5. AllFinished' = AllFinished BY <2>1, <2>4 DEF AllFinished, Finished
    <2>6. Idle' = Idle BY <2>1, <2>3, <2>4 DEF Idle
    <2>7. \A e, k : Gathered(e, k)' = Gathered(e, k) BY <2>1, SameJoined DEF Gathered, Queue
    <2>8. \A e : Taking(e)' = Taking(e)
      BY <2>1, <2>2, SameJoined DEF Taking, Taken, Gathered, Queue
    <2>9. ASSUME NEW e, NEW n, NEW t, Working(e, n, t) PROVE Working(e, n, t)'
      <3>1. /\ Kept(e)' = Kept(e) /\ Base(e, n)' = Base(e, n) /\ Queue(e)' = Queue(e)
            /\ (Rest(e, n)' <=> Rest(e, n)) /\ \A r : Carries(e, r)' <=> Carries(e, r)
        BY <2>1, SamePackets, SameJoined, SameRest DEF Queue
      <3>2. \A c \in Kind("Commit") : Way(out[c], c, e, n, t)'
        BY <2>1, <2>9, SameJoined, SamePackets DEF Working, Flushing, Way, Finished, Has
      <3>3. Flushing(e, n, t)' BY <2>1, <2>4, <2>9, <3>1, <3>2 DEF Working, Flushing
      <3> QED BY <2>4, <2>9, <3>1, <3>3 DEF Working
    <2>10. \A e : AtWork(e) => AtWork(e)' BY <2>3, <2>4, <2>5, <2>8, <2>9 DEF AtWork
    <2> QED BY <1>3, <2>4, <2>5, <2>6, <2>10 DEF Apart
  <1> QED BY <1>4, <1>5, <1>6 DEF Next, Halted

LEMMA ApartInit ==
  ASSUME Init, Typed
  PROVE  ApartInv
  <1> SUFFICES ASSUME JoinedLines PROVE Apart BY DEF ApartInv
  <1>1. stack = <<>> /\ unread = [d \in Devices |-> <<>>] /\ packet = unread /\ out = [f \in Filters |-> <<>>]
    BY DEF Init
  <1>2. Packets /\ \A d \in Devices : unread[d] = <<>>
    <2>1. <<>> \in Seq(Event) OBVIOUS
    <2> QED BY <1>1, <2>1 DEF Packets, Sent
  <1>3. AllFinished BY <1>1 DEF AllFinished, Finished, Kind
  <1>4. \A f \in Filters : st[f].queue = <<>> BY DEF Init, Initial, Uninitialised
  <1>5. \A d \in Devices : Queue(d) = <<>> BY <1>4, JoinedFacts DEF Queue
  <1> QED BY <1>1, <1>2, <1>3, <1>5 DEF Apart, Idle, Resting

\* What is written of a packet is the beginning of what is kept of it.
LEMMA CommitApart ==
  ASSUME Typed, JoinedLines, Apart, Modify, Commit
  PROVE  \E d \in Devices : IsPrefix(Written(Self), Kept(d))
  <1>1. stack # <<>> /\ F.kind = "Commit" /\ Top.at = "modify" BY DEF Commit, At
  <1>2. Self \in Filters /\ Self \in Kind("Commit") BY <1>1, CallFacts DEF Kind, F
  <1>3. PICK d \in Devices : AtWork(d) BY <1>1 DEF Apart, Idle
  <1>4. Self # scene.roots[d] BY <1>1 DEF F, JoinedLines
  <1>5. PICK n, t : Working(d, n, t) BY <1>3, <1>4 DEF AtWork, Taking
  <1>6. t # <<>> BY <1>4, <1>5, WaitingBarrier
  <1>7. /\ n \in 1 .. Len(Kept(d)) /\ packet[d] # <<>> /\ ev = Kept(d)[n]
        /\ Way(out[Self], Self, d, n, t)
    BY <1>2, <1>5, <1>6 DEF Working, Flushing
  <1>8. Carries(d, Top) /\ (Self \in Left(Top) => Due(Self, t)) BY <1>5, <1>6, CarrierFacts
  <1>9. Self \in Reach[Self]
    <2>1. Self \in Own(Self) BY <1>1 DEF Own, F
    <2> QED BY <1>2, <2>1, JoinedFacts DEF Leads
  <1>10. Self \in Left(Top) BY <1>1, <1>9 DEF Left, Self
  <1>11. Self \in Reach[scene.roots[d]] /\ Due(Self, t) BY <1>8, <1>10 DEF Carries
  <1>12. Has(out[Self], d, n - 1) BY <1>7, <1>11 DEF Way
  <1>13. /\ Kept(d) \in Seq(Event) /\ Len(Kept(d)) \in Nat /\ Len(Kept(d)) <= MaxOut
         /\ \A i \in 1 .. Len(Kept(d)) - 1 : Kept(d)[i].type # "SYN"
    <2>1. packet[d] \in Seq(Event) /\ Sent(d) /\ Room(d) \in Nat BY JoinedFacts DEF Packets, Apart
    <2>2. /\ Kept(d) \in Seq(Event) /\ Len(Kept(d)) \in Nat \ {0} /\ Len(Kept(d)) <= MaxOut
          /\ \A i \in 1 .. Len(Kept(d)) - 1 : Kept(d)[i] = packet[d][i] /\ packet[d][i].type # "SYN"
      BY <1>7, <2>1, KeptFacts
    <2> QED BY <2>2
  <1> DEFINE w == Written(Self) k == Kept(d)
  <1>14. Has(w, d, n) BY <1>2, <1>7, <1>12, <1>13, WrittenNext
  <1>15. w \in Seq(Event) BY <1>2, WrittenFacts
  <1>16. Len(w) = n /\ \A i \in 1 .. n : w[i] = k[i] BY <1>7, <1>14 DEF Has
  <1> HIDE DEF w, k
  <1>17. n \in Nat /\ 1 <= n /\ n <= Len(k) /\ Len(k) \in Nat BY <1>7, <1>13 DEF k
  <1>18. SubSeq(w, 1, n) = SubSeq(k, 1, n)
    <2>1. \A i \in 1 .. n : w[i] \in Event /\ k[i] \in Event BY <1>15, <1>16, ElementOfSeq
    <2>2. /\ SubSeq(w, 1, n) \in Seq(Event) /\ Len(SubSeq(w, 1, n)) = n - 1 + 1
          /\ \A i \in 1 .. n - 1 + 1 : SubSeq(w, 1, n)[i] = w[1 + i - 1]
      BY <1>17, <2>1, SubSeqProperties
    <2>3. /\ SubSeq(k, 1, n) \in Seq(Event) /\ Len(SubSeq(k, 1, n)) = n - 1 + 1
          /\ \A i \in 1 .. n - 1 + 1 : SubSeq(k, 1, n)[i] = k[1 + i - 1]
      BY <1>17, <2>1, SubSeqProperties
    <2> DEFINE a == SubSeq(w, 1, n) b == SubSeq(k, 1, n)
    <2> HIDE DEF a, b
    <2>4. Len(a) = Len(b) /\ \A i \in 1 .. Len(a) : a[i] = b[i]
      <3>1. Len(a) = n /\ Len(b) = n BY <1>17, <2>2, <2>3 DEF a, b
      <3>2. ASSUME NEW i \in 1 .. n PROVE a[i] = b[i]
        <4>1. i \in 1 .. n - 1 + 1 /\ 1 + i - 1 = i BY <1>17
        <4> QED BY <1>16, <2>2, <2>3, <4>1 DEF a, b
      <3> QED BY <3>1, <3>2
    <2> QED BY <2>2, <2>3, <2>4, SeqEqual DEF a, b
  <1> QED BY <1>16, <1>17, <1>18 DEF IsPrefix, w, k

\* Of any number of lines that begin with a Barrier each, and copy events to
\* lines of one another in any way: what is written since the last sync is the
\* beginning of a packet of one device, in order, less what its Barrier had no
\* room for (PacketsApart; barrier.c:34-66).
THEOREM PacketsStayApart == Spec => (JoinedLines => PacketsApart)
  <1> DEFINE A == \A f \in Kind("Commit") :
                    scene.joined /\ out'[f] # out[f] => \E d \in Devices : IsPrefix(out'[f], Kept(d))
  <1>1. Init => Typed /\ ApartInv BY InitFacts, ApartInit
  <1>2. Typed /\ ApartInv /\ [Next]_vars => (Typed /\ ApartInv)' BY StepFacts, ApartNext
  <1>3. Typed /\ JoinedLines /\ [Next]_vars => JoinedLines' BY StepFacts, SameJoined
  <1>4. Typed /\ ApartInv /\ JoinedLines /\ [Next]_vars => [A]_vars
    <2> SUFFICES ASSUME Typed, ApartInv, JoinedLines, Next, NEW f \in Kind("Commit"), out'[f] # out[f]
                 PROVE  \E d \in Devices : IsPrefix(out'[f], Kept(d))
      OBVIOUS
    <2>1. Modify /\ Commit
      BY DEF Next, Modify, PassOn, NoRepeat, KeySubstitute, KeyLock, Btn2Rel, SpeedMod, Accumulate,
             Rel2Scroll, Mirror, Rotate, Abs2RelSync, Abs2Rel, PressureToKey, ScaleAbs, Kalman,
             WeightedAverageAbs, Barrier, CopyToHandle, FilterToHandle, Halted, Packet, Read, vars
    <2>2. out' = [out EXCEPT ![Self] = Written(Self)] BY <2>1 DEF Commit
    <2>3. f \in Filters /\ out \in [Filters -> Seq(Event)] BY DEF Kind, Typed, TypeOK
    <2>4. f = Self /\ out'[f] = Written(Self) BY <2>2, <2>3
    <2> QED BY <2>1, <2>4, CommitApart DEF ApartInv
  <1> QED BY <1>1, <1>2, <1>3, <1>4, PTL DEF Spec, PacketsApart
=============================================================================
