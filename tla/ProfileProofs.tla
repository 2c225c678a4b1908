---------------------------- MODULE ProfileProofs ----------------------------
(***************************************************************************)
(* Theorems about Profile, for any profiles and files and any amount of    *)
(* memory: no filter is lost or freed twice, a load that succeeds has made *)
(* the filters that are written, handles are used as Handles describes,    *)
(* and so lines that name the same handle are joined by it.                *)
(*                                                                         *)
(* What Handles promises is not proved again: the steps of a load are      *)
(* steps of Handles, or leave its variables alone, and the lemmas of       *)
(* HandlesProofs say what those preserve.                                  *)
(***************************************************************************)
EXTENDS Profile, ListLemmas

HP == INSTANCE HandlesProofs

---------------------------------------------------------------------------
(* Reading.                                                                *)

LEMMA LeastFacts ==
  ASSUME NEW S \in SUBSET Nat, S # {}
  PROVE  Least(S) \in S /\ \A j \in S : Least(S) <= j
BY HasLeast DEF Least

\* What ParamError may say.
LEMMA ParamErrors ==
  ASSUME NEW table, NEW text
  PROVE  ParamError(table, text) \in ParameterError \cup {"ok", "errno"}
<1>1. ParseError(table, text) \in {"eredef", "epname", "ok"}
  BY DEF ParseError
<1>2. \A p, v : ValueError(p, v) \in {"emissing", "errno", "einval", "erange", "ok"}
  BY DEF ValueError
<1>3. QED BY <1>1, <1>2 DEF ParamError, ParameterError

\* If nothing is wrong, the first parameter has a value of its type.
LEMMA FirstValue ==
  ASSUME NEW table, NEW text, ParamError(table, text) = "ok",
         DOMAIN table \in SUBSET Nat, 1 \in DOMAIN table, table[1].type = "str"
  PROVE  Values(table, text)[1] \in Name
<1> DEFINE Verdict(j) == ValueError(table[j], Given(text, table[j]))
           wrong == {j \in DOMAIN table : Verdict(j) # "ok"}
<1>1. ParamError(table, text) = IF ParseError(table, text) # "ok" THEN ParseError(table, text)
                                ELSE IF wrong = {} THEN "ok" ELSE Verdict(Least(wrong))
  BY DEF ParamError
<1>2. wrong # {} => Verdict(Least(wrong)) # "ok"
  <2>1. wrong \in SUBSET Nat
    OBVIOUS
  <2>2. wrong # {} => Least(wrong) \in wrong
    BY <2>1, LeastFacts
  <2>3. QED BY <2>2
<1>3. Verdict(1) = "ok"
  BY <1>1, <1>2
<1>4. Given(text, table[1]) \in DOMAIN Means["str"]
  BY <1>3 DEF ValueError
<1>5. QED BY <1>4, TextAssumption DEF Values

\* A filter that takes a handle has the handle's name for its first parameter.
LEMMA HandleParameter ==
  ASSUME NEW f \in {"FilterToHandle", "CopyToHandle", "GetFromHandle"}
  PROVE  DOMAIN Table[f] \in SUBSET Nat /\ 1 \in DOMAIN Table[f] /\ Table[f][1].type = "str"
<1>1. Table[f] \in {HandleParams, FilterToHandleParams}
  BY DEF Table
<1>2. DOMAIN HandleParams = {1} /\ HandleParams[1].type = "str"
  BY DEF HandleParams, Str, Param
<1>3. DOMAIN FilterToHandleParams = 1 .. 3 /\ FilterToHandleParams[1].type = "str"
  BY DEF FilterToHandleParams, Str, Param
<1>4. QED BY <1>1, <1>2, <1>3

Lines(f) == 1 .. Len(Files[f]) + 1

\* A turn of the loop goes on inside the file, and reports one of the errors.
LEMMA TurnFacts ==
  ASSUME NEW f \in DOMAIN Files, NEW p \in Lines(f), NEW t, t = Turns[f][p]
  PROVE  /\ t.is = "error" => t.error \in ParameterError \cup {"errno"}
         /\ t.is = "filter" =>
              /\ t.rest \in Lines(f)
              /\ t.filter \in Senders \cup {"GetFromHandle"} => t.values[1] \in Name
<1> DEFINE text == Files[f]
           q == NextLine(text, p)
           L == Len(text)
<1>0. L \in Nat /\ DOMAIN text = 1 .. L
  BY TextAssumption
<1>1. t = IF Stuck(text, p) THEN [is |-> "stuck"] ELSE Turn(text, p)
  BY DEF Turns, Lines
<1>2. Wrong(text, q) \in ParameterError \cup {"ok", "errno"}
  BY ParamErrors DEF Wrong, ParameterError
<1>3. ASSUME t.is = "error"
      PROVE  t.error \in ParameterError \cup {"errno"}
  BY <1>1, <1>2, <1>3 DEF Turn
<1>4. ASSUME t.is = "filter"
      PROVE  /\ t.rest \in Lines(f)
             /\ t.filter \in Senders \cup {"GetFromHandle"} => t.values[1] \in Name
  <2> DEFINE T == Table[text[q].filter]
             params == ParamsFrom(text, q)
             e == Least(EndsFrom(text, q))
  <2>1. /\ ~NoMore(text, p) /\ Wrong(text, q) = "ok"
        /\ t.filter = text[q].filter /\ t.rest = Behind(text, e) /\ t.values = Values(T, params)
    BY <1>1, <1>4 DEF Turn
  <2>2. q \in p .. L
    <3> DEFINE S == {k \in p .. L + 1 : k > L \/ text[k].kind \notin {"empty", "comment"}}
    <3>1. L + 1 \in S /\ S \in SUBSET Nat
      BY <1>0 DEF Lines
    <3>2. q \in S
      BY <3>1, LeastFacts DEF NextLine
    <3>3. ~(q > L)
      BY <2>1 DEF NoMore
    <3>4. QED BY <1>0, <3>2, <3>3 DEF Lines
  <2>3. EndsFrom(text, q) # {} /\ text[q].kind = "name"
        /\ T = T /\ ParamError(T, params) = "ok"
    BY <2>1 DEF Wrong
  <2>4. e \in q + 1 .. L
    <3>1. EndsFrom(text, q) \in SUBSET Nat
      BY <1>0, <2>2 DEF EndsFrom, Lines
    <3>2. e \in EndsFrom(text, q)
      BY <2>3, <3>1, LeastFacts
    <3>3. QED BY <3>2 DEF EndsFrom
  <2>5. Behind(text, e) \in Lines(f)
    <3> DEFINE S == {r \in e + 1 .. L + 2 : r > L \/ text[r].kind # "empty"}
    <3>1. L + 1 \in S /\ S \in SUBSET Nat
      BY <1>0, <2>2, <2>4 DEF Lines
    <3>2. Behind(text, e) \in S /\ Behind(text, e) <= L + 1
      BY <3>1, LeastFacts DEF Behind
    <3>3. QED BY <1>0, <2>2, <2>4, <3>2 DEF Lines
  <2>6. ASSUME text[q].filter \in Senders \cup {"GetFromHandle"}
        PROVE  Values(T, params)[1] \in Name
    <3>1. text[q].filter \in {"FilterToHandle", "CopyToHandle", "GetFromHandle"}
      BY <2>6 DEF Senders
    <3>2. QED BY <2>3, <3>1, HandleParameter, FirstValue
  <2>7. QED BY <2>1, <2>5, <2>6
<1>5. QED BY <1>3, <1>4

---------------------------------------------------------------------------
(* What a file says, and what the turns of the loop read of it.            *)

\* What text[q..] says of a filter, for all files and all q.
Entries ==
  UNION {{<<Files[f][q].filter, Values(Table[Files[f][q].filter], ParamsFrom(Files[f], q))>> :
            q \in DOMAIN Files[f]} : f \in DOMAIN Files}

BlocksOf(f) == [q \in DOMAIN Files[f] |-> Block(Files[f], q)]

LEMMA BlocksFacts ==
  ASSUME NEW f \in DOMAIN Files
  PROVE  /\ Len(Files[f]) \in Nat /\ DOMAIN Files[f] = 1 .. Len(Files[f])
         /\ BlocksOf(f) \in [1 .. Len(Files[f]) -> Seq(Entries)]
         /\ WrittenIn(Files[f]) = FlattenSeq(BlocksOf(f))
<1>1. Len(Files[f]) \in Nat /\ DOMAIN Files[f] = 1 .. Len(Files[f])
  BY TextAssumption
<1>2. ASSUME NEW q \in DOMAIN Files[f]
      PROVE  Block(Files[f], q) \in Seq(Entries)
  <2> DEFINE e == <<Files[f][q].filter, Values(Table[Files[f][q].filter], ParamsFrom(Files[f], q))>>
  <2>1. e \in Entries
    BY DEF Entries
  <2>2. Block(Files[f], q) = <<>> \/ Block(Files[f], q) = <<e>>
    BY DEF Block
  <2> HIDE DEF e
  <2>3. <<>> \in Seq(Entries) /\ <<e>> \in Seq(Entries)
    BY <2>1
  <2>4. QED BY <2>2, <2>3
<1>3. QED BY <1>1, <1>2 DEF BlocksOf, WrittenIn

\* No filter has a parameter with the name that begins a block, so that a block
\* inside a block is an error.
LEMMA NoSuchParameter == \A f \in DOMAIN Table : ~Known(Table[f], "FilterName")
<1> DEFINE Free(t) == \A j \in DOMAIN t : t[j].name # "FilterName"
<1>1. /\ Free(<<>>) /\ Free(DumpParams) /\ Free(PressureToKeyParams) /\ Free(SpeedModParams)
      /\ Free(BarrierParams) /\ Free(WeightedAverageAbsParams)
  BY DEF DumpParams, PressureToKeyParams, SpeedModParams, BarrierParams,
         WeightedAverageAbsParams, Number, Str, Key, Param
<1>2. Free(ScaleAbsParams)
  BY DEF ScaleAbsParams, Number, Param
<1>3. /\ Free(MirrorParams) /\ Free(RotateParams) /\ Free(KalmanParams)
      /\ Free(Rel2ScrollParams) /\ Free(HandleParams)
  BY DEF MirrorParams, RotateParams, KalmanParams, Rel2ScrollParams, HandleParams,
         Number, Str, Key, Flag, Param
<1>4. Free(Btn2RelParams)
  BY DEF Btn2RelParams, Key, Param
<1>5. Free(KeyLockParams) /\ Free(FilterToHandleParams) /\ Free(KeySubstituteParams)
  BY DEF KeyLockParams, FilterToHandleParams, KeySubstituteParams, Number, Str, Key, Param
<1>6. \A f \in DOMAIN Table :
        Table[f] \in {<<>>, DumpParams, PressureToKeyParams, SpeedModParams, BarrierParams,
                      WeightedAverageAbsParams, ScaleAbsParams, MirrorParams, RotateParams,
                      Btn2RelParams, KalmanParams, Rel2ScrollParams, HandleParams,
                      KeyLockParams, FilterToHandleParams, KeySubstituteParams}
  BY DEF Table
<1> HIDE DEF Free
<1>7. \A f \in DOMAIN Table : Free(Table[f])
  BY <1>1, <1>2, <1>3, <1>4, <1>5, <1>6, Zenon
<1>8. QED BY <1>7 DEF Known, Free

\* The lines of a block that can be loaded begin no other block.
LEMMA NoneInside ==
  ASSUME NEW f \in DOMAIN Files, NEW q \in DOMAIN Files[f], Wrong(Files[f], q) = "ok",
         NEW k \in q + 1 .. Least(EndsFrom(Files[f], q)) - 1
  PROVE  Files[f][k].kind # "name"
<1> DEFINE text == Files[f]
           e == Least(EndsFrom(text, q))
           n == e - q - 1
           F == [i \in 1 .. n |-> IF text[q + i].kind \in {"name", "param"}
                                    THEN <<AsParam(text[q + i])>> ELSE <<>>]
           S == {AsParam(text[i]) : i \in DOMAIN text}
           table == Table[text[q].filter]
           params == ParamsFrom(text, q)
<1>0. Len(text) \in Nat /\ DOMAIN text = 1 .. Len(text)
  BY BlocksFacts
<1>1. /\ EndsFrom(text, q) # {} /\ text[q].filter \in DOMAIN Table
      /\ ParamError(table, params) = "ok"
  BY DEF Wrong
<1>2. e \in q + 1 .. Len(text)
  <2>1. EndsFrom(text, q) \in SUBSET Nat
    BY <1>0 DEF EndsFrom
  <2>2. e \in EndsFrom(text, q)
    BY <1>1, <2>1, LeastFacts
  <2>3. QED BY <2>2 DEF EndsFrom
<1> HIDE DEF e
<1>3. n \in Nat /\ k - q \in 1 .. n /\ q + (k - q) = k
  BY <1>0, <1>2 DEF e
<1>4. F \in [1 .. n -> Seq(S)]
  <2>1. ASSUME NEW i \in 1 .. n PROVE F[i] \in Seq(S)
    <3>1. q + i \in DOMAIN text
      BY <1>0, <1>2
    <3>2. AsParam(text[q + i]) \in S
      BY <3>1
    <3> HIDE DEF S
    <3>3. <<AsParam(text[q + i])>> \in Seq(S) /\ <<>> \in Seq(S)
      BY <3>2
    <3>4. QED BY <3>3
  <2>2. QED BY <2>1
<1>5. params = FlattenSeq(F)
  BY DEF ParamsFrom, e
<1>6. params \in Seq(S)
  <2>1. n \in Nat
    BY <1>3
  <2> HIDE DEF F, S, n, params
  <2>2. FlattenSeq(F) \in Seq(S)
    BY <1>4, <2>1, FlatIsSeq
  <2>3. QED BY <1>5, <2>2
<1>7. ASSUME text[k].kind = "name" PROVE FALSE
  <2> DEFINE x == AsParam(text[k])
  <2>1. F[k - q] = <<x>>
    BY <1>3, <1>7
  <2>2. x.name = "FilterName"
    BY <1>7 DEF AsParam
  <2> HIDE DEF x
  <2>3. Occurs(x, F[k - q])
    <3>1. Len(<<x>>) = 1 /\ <<x>>[1] = x /\ 1 \in 1 .. 1
      OBVIOUS
    <3> DEFINE s == F[k - q]
    <3>2. Len(s) = 1 /\ s[1] = x /\ 1 \in 1 .. 1
      BY <2>1, <3>1
    <3> HIDE DEF s, F
    <3>3. Occurs(x, s)
      BY <3>2 DEF Occurs
    <3>4. QED BY <3>3 DEF s
  <2>4. PICK j \in 1 .. Len(params) : params[j] = x
    <3> DEFINE m == k - q
    <3>1. n \in Nat /\ m \in 1 .. n
      BY <1>3
    <3>2. F \in ListsOf(S, n)
      BY <1>4 DEF ListsOf
    <3> HIDE DEF F, S, n, params, m
    <3>3. Occurs(x, FlattenSeq(F))
      BY <2>3, <3>1, <3>2, FlatHasAll DEF m
    <3>4. QED BY <1>5, <3>3 DEF Occurs
  <2>5. j \in DOMAIN params
    <3> HIDE DEF S, params
    <3>1. QED BY <1>6, <2>4, LenProperties
  <2>6. ~Known(table, params[j].name)
    BY <1>1, <2>2, <2>4, NoSuchParameter
  <2> HIDE DEF params, table
  <2>7. ParseError(table, params) # "ok"
    BY <2>5, <2>6 DEF ParseError
  <2>8. QED BY <1>1, <2>7 DEF ParamError
<1>8. QED BY <1>7

\* A turn of the loop reads the next block, and nothing but that.
Reads(f, p, t) ==
  /\ t.rest \in Lines(f)
  /\ \E q \in p .. t.rest - 1 :
       /\ BlocksOf(f)[q] = <<<<t.filter, t.values>>>>
       /\ \A k \in p .. t.rest - 1 : k # q => BlocksOf(f)[k] = <<>>

LEMMA TurnBlocks ==
  ASSUME NEW f \in DOMAIN Files, NEW p \in Lines(f), NEW t, t = Turns[f][p]
  PROVE  /\ t.is = "end" => \A k \in p .. Len(Files[f]) : BlocksOf(f)[k] = <<>>
         /\ t.is = "filter" => Reads(f, p, t)
<1> DEFINE text == Files[f]
           q == NextLine(text, p)
           L == Len(text)
<1>0. /\ L \in Nat /\ DOMAIN text = 1 .. L /\ p \in 1 .. L + 1
      /\ \A k \in 1 .. L : BlocksOf(f)[k] = Block(text, k)
  BY BlocksFacts DEF BlocksOf, Lines
<1>1. t = IF Stuck(text, p) THEN [is |-> "stuck"] ELSE Turn(text, p)
  BY DEF Turns, Lines
<1>2. /\ q \in p .. L + 1 /\ (q <= L => text[q].kind \notin {"empty", "comment"})
      /\ \A k \in p .. q - 1 : text[k].kind \in {"empty", "comment"}
  <2> DEFINE S == {k \in p .. L + 1 : k > L \/ text[k].kind \notin {"empty", "comment"}}
  <2>1. L + 1 \in S /\ S \in SUBSET Nat
    BY <1>0
  <2>2. q \in S /\ \A k \in S : q <= k
    BY <2>1, LeastFacts DEF NextLine
  <2>3. ASSUME NEW k \in p .. q - 1 PROVE text[k].kind \in {"empty", "comment"}
    <3>1. k \in p .. L + 1 /\ ~(q <= k) /\ ~(k > L)
      BY <1>0, <2>2
    <3>2. QED BY <2>2, <3>1
  <2>4. QED BY <1>0, <2>2, <2>3
<1> HIDE DEF q
<1>3. \A e \in 1 .. L : /\ Behind(text, e) \in e + 1 .. L + 1
                        /\ \A k \in e + 1 .. Behind(text, e) - 1 : text[k].kind = "empty"
  <2> SUFFICES ASSUME NEW e \in 1 .. L
               PROVE  /\ Behind(text, e) \in e + 1 .. L + 1
                      /\ \A k \in e + 1 .. Behind(text, e) - 1 : text[k].kind = "empty"
    OBVIOUS
  <2> DEFINE S == {r \in e + 1 .. L + 2 : r > L \/ text[r].kind # "empty"}
             b == Behind(text, e)
  <2>1. L + 1 \in S /\ S \in SUBSET Nat
    BY <1>0
  <2>2. b \in S /\ \A k \in S : b <= k
    BY <2>1, LeastFacts DEF Behind
  <2> HIDE DEF b
  <2>3. ASSUME NEW k \in e + 1 .. b - 1 PROVE text[k].kind = "empty"
    <3>1. k \in e + 1 .. L + 2 /\ ~(b <= k) /\ k \notin S
      BY <1>0, <2>1, <2>2
    <3>2. QED BY <3>1
  <2>4. QED BY <1>0, <2>1, <2>2, <2>3 DEF b
<1>4. \A k \in 1 .. L : text[k].kind # "name" => BlocksOf(f)[k] = <<>>
  BY <1>0 DEF Block
<1>5. ASSUME t.is = "end", NEW k \in p .. L
      PROVE  BlocksOf(f)[k] = <<>>
  <2>1. NoMore(text, p)
    BY <1>1, <1>5 DEF Turn
  <2>2. q > L \/ Behind(text, q) > L
    BY <2>1 DEF NoMore, q
  <2>3. CASE k < q
    BY <1>0, <1>2, <1>4, <2>3
  <2>4. CASE k > q
    <3>1. q \in 1 .. L /\ k \in q + 1 .. Behind(text, q) - 1 /\ k \in 1 .. L
      BY <1>0, <1>2, <1>3, <2>2, <2>4
    <3>2. QED BY <1>3, <1>4, <3>1
  <2>5. CASE k = q
    <3>1. q \in 1 .. L /\ Behind(text, q) = L + 1
      BY <1>0, <1>2, <1>3, <2>2, <2>5
    <3>2. EndsFrom(text, q) = {}
      BY <1>0, <1>3, <3>1 DEF EndsFrom
    <3>3. QED BY <1>0, <2>5, <3>1, <3>2 DEF Block
  <2>6. QED BY <1>0, <1>2, <2>3, <2>4, <2>5
<1>6. ASSUME t.is = "filter"
      PROVE  Reads(f, p, t)
  <2> DEFINE e == Least(EndsFrom(text, q))
  <2>1. /\ ~NoMore(text, p) /\ Wrong(text, q) = "ok"
        /\ t.filter = text[q].filter /\ t.rest = Behind(text, e)
        /\ t.values = Values(Table[text[q].filter], ParamsFrom(text, q))
    BY <1>1, <1>6 DEF Turn, q
  <2>2. q \in 1 .. L /\ q \in p .. L
    BY <1>0, <1>2, <2>1 DEF NoMore, q
  <2>3. EndsFrom(text, q) # {} /\ text[q].kind = "name"
    BY <2>1 DEF Wrong
  <2>4. e \in q + 1 .. L /\ text[e].kind = "end"
    <3>1. EndsFrom(text, q) \in SUBSET Nat
      BY <1>0, <2>2 DEF EndsFrom
    <3>2. e \in EndsFrom(text, q)
      BY <2>3, <3>1, LeastFacts
    <3>3. QED BY <3>2 DEF EndsFrom
  <2>5. \A k \in q + 1 .. e - 1 : text[k].kind # "name"
    BY <1>0, <2>1, <2>2, NoneInside
  <2> HIDE DEF e
  <2>6. /\ t.rest \in e + 1 .. L + 1
        /\ \A k \in e + 1 .. t.rest - 1 : text[k].kind = "empty"
    <3>1. e \in 1 .. L
      BY <1>0, <2>2, <2>4
    <3>2. QED BY <1>3, <2>1, <3>1
  <2>7. BlocksOf(f)[q] = <<<<t.filter, t.values>>>>
    BY <1>0, <2>1, <2>2, <2>3 DEF Block
  <2>8. ASSUME NEW k \in p .. t.rest - 1, k # q PROVE BlocksOf(f)[k] = <<>>
    <3>1. k \in 1 .. L
      BY <1>0, <2>2, <2>4, <2>6
    <3>2. \/ k \in p .. q - 1 \/ k \in q + 1 .. e - 1 \/ k = e \/ k \in e + 1 .. t.rest - 1
      BY <1>0, <2>2, <2>4, <2>6, <2>8
    <3>3. text[k].kind # "name"
      BY <1>2, <2>4, <2>5, <2>6, <3>2
    <3>4. QED BY <1>4, <3>1, <3>3
  <2>9. q \in p .. t.rest - 1 /\ t.rest \in 1 .. L + 1
    BY <1>0, <2>2, <2>4, <2>6
  <2>10. QED BY <2>7, <2>8, <2>9 DEF Lines, Reads
<1>7. QED BY <1>5, <1>6

---------------------------------------------------------------------------
(* Filters and the lists they are in.                                      *)

\* Each of M is in one of the lists of P, once.
Spread(P, M) ==
  /\ M = UNION {ToSet(P[p]) : p \in Place}
  /\ \A p \in Place : IsInjective(P[p])
  /\ \A p, q \in Place : p # q => ToSet(P[p]) \cap ToSet(P[q]) = {}

Lists == [Place -> Seq(Filter)]

LEMMA ListFacts ==
  ASSUME NEW s \in Seq(Filter)
  PROVE  /\ Len(s) \in Nat /\ DOMAIN s = 1 .. Len(s)
         /\ \A i \in 1 .. Len(s) : s[i] \in Filter /\ s[i] \in ToSet(s)
         /\ \A x \in ToSet(s) : x \in Filter /\ \E i \in 1 .. Len(s) : s[i] = x
         /\ IsInjective(s) <=> \A i, j \in 1 .. Len(s) : s[i] = s[j] => i = j
         /\ s = <<>> <=> ToSet(s) = {}
<1>1. Len(s) \in Nat /\ DOMAIN s = 1 .. Len(s)
  BY LenProperties
<1>2. \A i \in 1 .. Len(s) : s[i] \in Filter
  BY ElementOfSeq
<1>3. s = <<>> <=> Len(s) = 0
  BY EmptySeq
<1>4. s # <<>> => s[1] \in ToSet(s)
  BY <1>1, <1>3 DEF ToSet
<1>5. s = <<>> => ToSet(s) = {}
  BY <1>1, <1>3 DEF ToSet
<1>6. QED BY <1>1, <1>2, <1>4, <1>5 DEF ToSet, IsInjective

LEMMA ConcatFacts ==
  ASSUME NEW s \in Seq(Filter), NEW t \in Seq(Filter)
  PROVE  /\ s \o t \in Seq(Filter)
         /\ ToSet(s \o t) = ToSet(s) \cup ToSet(t)
         /\ IsInjective(s) /\ IsInjective(t) /\ ToSet(s) \cap ToSet(t) = {} => IsInjective(s \o t)
<1> DEFINE u == s \o t
<1>1. /\ u \in Seq(Filter) /\ Len(u) = Len(s) + Len(t)
      /\ \A i \in 1 .. Len(s) + Len(t) : u[i] = IF i <= Len(s) THEN s[i] ELSE t[i - Len(s)]
  BY ConcatProperties
<1> HIDE DEF u
<1>2. Len(s) \in Nat /\ Len(t) \in Nat
  BY ListFacts
<1>3. ASSUME NEW x \in ToSet(u) PROVE x \in ToSet(s) \cup ToSet(t)
  <2>1. PICK i \in 1 .. Len(u) : u[i] = x
    BY <1>1, <1>3, ListFacts
  <2>2. CASE i <= Len(s)
    <3>1. i \in 1 .. Len(s) /\ s[i] = x
      BY <1>1, <1>2, <2>1, <2>2
    <3>2. QED BY <3>1, ListFacts
  <2>3. CASE i > Len(s)
    <3>1. i - Len(s) \in 1 .. Len(t) /\ t[i - Len(s)] = x
      BY <1>1, <1>2, <2>1, <2>3
    <3>2. QED BY <3>1, ListFacts
  <2>4. QED BY <1>1, <1>2, <2>2, <2>3
<1>4. ASSUME NEW x \in ToSet(s) \cup ToSet(t) PROVE x \in ToSet(u)
  <2>1. CASE x \in ToSet(s)
    <3>1. PICK i \in 1 .. Len(s) : s[i] = x
      BY <2>1, ListFacts
    <3>2. i \in 1 .. Len(u) /\ u[i] = x
      BY <1>1, <1>2, <3>1
    <3>3. QED BY <1>1, <3>2, ListFacts
  <2>2. CASE x \in ToSet(t)
    <3>1. PICK i \in 1 .. Len(t) : t[i] = x
      BY <2>2, ListFacts
    <3>2. i + Len(s) \in 1 .. Len(u) /\ u[i + Len(s)] = x
      <4>1. i + Len(s) \in 1 .. Len(s) + Len(t) /\ ~(i + Len(s) <= Len(s))
            /\ (i + Len(s)) - Len(s) = i
        BY <1>2, <3>1
      <4>2. QED BY <1>1, <3>1, <4>1
    <3>3. QED BY <1>1, <3>2, ListFacts
  <2>3. QED BY <1>4, <2>1, <2>2
<1>5. ASSUME IsInjective(s), IsInjective(t), ToSet(s) \cap ToSet(t) = {},
             NEW i \in 1 .. Len(u), NEW j \in 1 .. Len(u), u[i] = u[j]
      PROVE  i = j
  <2>1. CASE i <= Len(s) /\ j <= Len(s)
    BY <1>1, <1>2, <1>5, <2>1, ListFacts
  <2>2. CASE i > Len(s) /\ j > Len(s)
    <3>1. i - Len(s) \in 1 .. Len(t) /\ j - Len(s) \in 1 .. Len(t)
          /\ t[i - Len(s)] = t[j - Len(s)]
      BY <1>1, <1>2, <1>5, <2>2
    <3>2. i - Len(s) = j - Len(s)
      BY <1>5, <3>1, ListFacts
    <3>3. QED BY <1>1, <1>2, <3>2
  <2>3. \A a, b \in 1 .. Len(u) : a <= Len(s) /\ b > Len(s) => u[a] # u[b]
    <3> SUFFICES ASSUME NEW a \in 1 .. Len(u), NEW b \in 1 .. Len(u), a <= Len(s), b > Len(s)
                 PROVE  u[a] # u[b]
      OBVIOUS
    <3>1. u[a] \in ToSet(s)
      <4>1. a \in 1 .. Len(s) /\ u[a] = s[a]
        BY <1>1, <1>2
      <4>2. QED BY <4>1, ListFacts
    <3>2. b - Len(s) \in 1 .. Len(t) /\ u[b] = t[b - Len(s)]
      BY <1>1, <1>2
    <3>3. u[b] \in ToSet(t)
      BY <3>2, ListFacts
    <3>4. QED BY <1>5, <3>1, <3>3
  <2>4. QED BY <1>1, <1>2, <1>5, <2>1, <2>2, <2>3
<1>6. ToSet(u) = ToSet(s) \cup ToSet(t)
  BY <1>3, <1>4
<1>7. IsInjective(s) /\ IsInjective(t) /\ ToSet(s) \cap ToSet(t) = {} => IsInjective(u)
  BY <1>1, <1>5, ListFacts
<1>8. QED BY <1>1, <1>6, <1>7 DEF u

LEMMA AppendOneFacts ==
  ASSUME NEW s \in Seq(Filter), NEW e \in Filter
  PROVE  /\ Append(s, e) \in Seq(Filter)
         /\ ToSet(Append(s, e)) = ToSet(s) \cup {e}
         /\ IsInjective(s) /\ e \notin ToSet(s) => IsInjective(Append(s, e))
<1>1. Append(s, e) = s \o <<e>>
  BY AppendIsConcat
<1>2. <<e>> \in Seq(Filter) /\ ToSet(<<e>>) = {e} /\ IsInjective(<<e>>)
  BY DEF ToSet, IsInjective
<1> DEFINE o == <<e>>
<1> HIDE DEF o
<1>3. o \in Seq(Filter) /\ ToSet(o) = {e} /\ IsInjective(o) /\ Append(s, e) = s \o o
  BY <1>1, <1>2 DEF o
<1>4. /\ s \o o \in Seq(Filter) /\ ToSet(s \o o) = ToSet(s) \cup {e}
      /\ IsInjective(s) /\ ToSet(s) \cap {e} = {} => IsInjective(s \o o)
  BY <1>3, ConcatFacts
<1>5. QED BY <1>3, <1>4

LEMMA TailFacts ==
  ASSUME NEW s \in Seq(Filter), s # <<>>, IsInjective(s)
  PROVE  /\ Head(s) \in ToSet(s)
         /\ Tail(s) \in Seq(Filter) /\ IsInjective(Tail(s))
         /\ ToSet(Tail(s)) = ToSet(s) \ {Head(s)}
<1>1. /\ Len(s) \in Nat /\ Len(s) # 0 /\ Head(s) = s[1]
      /\ Tail(s) \in Seq(Filter) /\ Len(Tail(s)) = Len(s) - 1
      /\ \A i \in 1 .. Len(s) - 1 : Tail(s)[i] = s[i + 1]
  BY HeadTailProperties, EmptySeq, LenProperties
<1> DEFINE t == Tail(s)
<1> HIDE DEF t
<1>2. t \in Seq(Filter) /\ Len(t) = Len(s) - 1 /\ \A i \in 1 .. Len(s) - 1 : t[i] = s[i + 1]
  BY <1>1 DEF t
<1>3. IsInjective(t)
  <2> SUFFICES ASSUME NEW i \in 1 .. Len(t), NEW j \in 1 .. Len(t), t[i] = t[j]
               PROVE  i = j
    BY <1>2, ListFacts
  <2>1. i + 1 \in 1 .. Len(s) /\ j + 1 \in 1 .. Len(s) /\ s[i + 1] = s[j + 1]
    BY <1>1, <1>2
  <2>2. i + 1 = j + 1
    BY <2>1, ListFacts
  <2>3. QED BY <1>1, <1>2, <2>2
<1>4. ASSUME NEW x \in ToSet(t) PROVE x \in ToSet(s) /\ x # s[1]
  <2>1. PICK i \in 1 .. Len(t) : t[i] = x
    BY <1>2, ListFacts
  <2>2. i + 1 \in 1 .. Len(s) /\ s[i + 1] = x /\ i + 1 # 1 /\ 1 \in 1 .. Len(s)
    BY <1>1, <1>2, <2>1
  <2>3. QED BY <2>2, ListFacts
<1>5. ASSUME NEW x \in ToSet(s), x # s[1] PROVE x \in ToSet(t)
  <2>1. PICK i \in 1 .. Len(s) : s[i] = x
    BY <1>5, ListFacts
  <2>2. i - 1 \in 1 .. Len(t) /\ t[i - 1] = x
    BY <1>1, <1>2, <1>5, <2>1
  <2>3. QED BY <1>2, <2>2, ListFacts
<1>6. s[1] \in ToSet(s)
  BY <1>1, ListFacts
<1>7. ToSet(t) = ToSet(s) \ {s[1]}
  BY <1>4, <1>5
<1>8. QED BY <1>1, <1>2, <1>3, <1>6, <1>7 DEF t

\* One list is joined to another.
LEMMA Moved ==
  ASSUME NEW P \in Lists, NEW M, Spread(P, M), NEW p \in Place, NEW q \in Place, p # q,
         NEW P2 \in Lists, P2[p] = <<>>, P2[q] \in {P[q] \o P[p], P[p] \o P[q]},
         \A r \in Place \ {p, q} : P2[r] = P[r]
  PROVE  Spread(P2, M)
<1>1. \A r \in Place : P[r] \in Seq(Filter)
  BY DEF Lists
<1>2. ToSet(P2[q]) = ToSet(P[q]) \cup ToSet(P[p]) /\ IsInjective(P2[q])
  <2>1. /\ P[q] \in Seq(Filter) /\ P[p] \in Seq(Filter) /\ IsInjective(P[q]) /\ IsInjective(P[p])
        /\ ToSet(P[q]) \cap ToSet(P[p]) = {} /\ ToSet(P[p]) \cap ToSet(P[q]) = {}
    BY <1>1 DEF Spread
  <2>2. CASE P2[q] = P[q] \o P[p]
    BY <2>1, <2>2, ConcatFacts
  <2>3. CASE P2[q] = P[p] \o P[q]
    <3>1. ToSet(P2[q]) = ToSet(P[p]) \cup ToSet(P[q]) /\ IsInjective(P2[q])
      BY <2>1, <2>3, ConcatFacts
    <3>2. QED BY <3>1
  <2>4. QED BY <2>2, <2>3
<1>3. ToSet(P2[p]) = {} /\ IsInjective(P2[p])
  BY DEF ToSet, IsInjective
<1>4. \A r \in Place \ {p, q} : ToSet(P2[r]) = ToSet(P[r]) /\ IsInjective(P2[r])
  BY DEF Spread
<1>5. \A r \in Place : IsInjective(P2[r])
  BY <1>2, <1>3, <1>4
<1>6. \A x : (\E r \in Place : x \in ToSet(P2[r])) <=> (\E r \in Place : x \in ToSet(P[r]))
  BY <1>2, <1>3, <1>4
<1>7. UNION {ToSet(P2[r]) : r \in Place} = UNION {ToSet(P[r]) : r \in Place}
  BY <1>6
<1>8. \A r, z \in Place : r # z => ToSet(P2[r]) \cap ToSet(P2[z]) = {}
  BY <1>2, <1>3, <1>4 DEF Spread
<1>9. QED BY <1>5, <1>7, <1>8 DEF Spread

\* One list changes.
LEMMA Changed ==
  ASSUME NEW P \in Lists, NEW M, Spread(P, M), NEW p \in Place, NEW P2 \in Lists,
         \A r \in Place \ {p} : P2[r] = P[r],
         IsInjective(P2[p]), NEW N,
         \/ \E e : e \notin M /\ N = M \cup {e} /\ ToSet(P2[p]) = ToSet(P[p]) \cup {e}
         \/ \E e \in ToSet(P[p]) : N = M \ {e} /\ ToSet(P2[p]) = ToSet(P[p]) \ {e}
  PROVE  Spread(P2, N)
<1>1. /\ \A x : x \in M <=> \E r \in Place : x \in ToSet(P[r])
      /\ \A r, z \in Place : r # z => ToSet(P[r]) \cap ToSet(P[z]) = {}
  BY DEF Spread
<1>2. \A r \in Place \ {p} : ToSet(P2[r]) = ToSet(P[r]) /\ IsInjective(P2[r])
  BY DEF Spread
<1>3. \A x : x \in N <=> \E r \in Place : x \in ToSet(P2[r])
  BY <1>1, <1>2
<1>4. \A r, z \in Place : r # z => ToSet(P2[r]) \cap ToSet(P2[z]) = {}
  BY <1>1, <1>2
<1>5. N = UNION {ToSet(P2[r]) : r \in Place}
  BY <1>3
<1>6. QED BY <1>2, <1>4, <1>5 DEF Spread

---------------------------------------------------------------------------
(* The inductive invariant.                                                *)

\* Where filters can be, in each phase of a load.
Control ==
  /\ phase # "file" => fresh = <<>>
  /\ phase \notin {"profile", "file"} => filters = <<>>
  /\ phase # "free" => dead = <<>>
  /\ phase # "idle" => dev \in Device /\ line[dev] = <<>>
  /\ phase = "file" => /\ pos <= LastRule /\ Rule.key = "File"
                       /\ Rule.file \in DOMAIN Files /\ at \in Lines(Rule.file)

\* A filter has the handle its parameters name.
Named ==
  \A i \in DOMAIN made :
    /\ i \in Sender => dest[i] # Null /\ heap[dest[i]].name = made[i][2][1]
    /\ i \in Receiver => source[i] # Null /\ source[i] = made[i][2][1]

Inv == TypeOK /\ HP!HandleInv /\ Control /\ Spread(Places, DOMAIN made) /\ Named

\* Places, as a function of the lists.
Spot(lines, a, b, c) == [p \in Place |-> CASE p = "filters" -> a [] p = "fresh" -> b
                                          [] p = "dead" -> c [] OTHER -> lines[p]]

LEMMA SpotFacts ==
  ASSUME NEW lines \in [Device -> Seq(Filter)],
         NEW a \in Seq(Filter), NEW b \in Seq(Filter), NEW c \in Seq(Filter)
  PROVE  /\ Spot(lines, a, b, c) \in Lists
         /\ Spot(lines, a, b, c)["filters"] = a
         /\ Spot(lines, a, b, c)["fresh"] = b
         /\ Spot(lines, a, b, c)["dead"] = c
         /\ \A d \in Device : Spot(lines, a, b, c)[d] = lines[d]
<1> DEFINE P == Spot(lines, a, b, c)
<1>1. \A d \in Device : d # "filters" /\ d # "fresh" /\ d # "dead"
  BY DeviceAssumption
<1>2. /\ DOMAIN P = Place
      /\ P["filters"] = a /\ P["fresh"] = b /\ P["dead"] = c
  BY DEF Spot, Place
<1>3. \A d \in Device : P[d] = lines[d]
  BY <1>1 DEF Spot, Place
<1>4. \A p \in Place : P[p] \in Seq(Filter)
  BY <1>2, <1>3 DEF Place
<1>5. P = [p \in Place |-> P[p]]
  BY DEF Spot
<1> HIDE DEF P
<1>6. P \in Lists
  BY <1>4, <1>5 DEF Lists
<1>7. QED BY <1>2, <1>3, <1>6 DEF P

LEMMA PlacesAreSpots ==
  /\ Places = Spot(line, filters, fresh, dead)
  /\ Places' = Spot(line', filters', fresh', dead')
BY DEF Places, Spot

LEMMA SameCounts ==
  /\ H!Cardinality(Sender) = HP!Cardinality(Sender)
  /\ IsFiniteSet(Sender) <=> HP!IsFiniteSet(Sender)
<1>1. H!Cardinality(Sender) = HP!Cardinality(Sender)
  BY DEF H!Cardinality, HP!Cardinality
<1>2. IsFiniteSet(Sender) <=> HP!IsFiniteSet(Sender)
  BY DEF IsFiniteSet, HP!IsFiniteSet
<1>3. QED BY <1>1, <1>2

\* The operations are the same in both instances.
LEMMA SameHandles ==
  /\ H!TypeOK <=> HP!TypeOK
  /\ H!Init <=> HP!Init
  /\ \A s, n : H!CreateSender(s, n) <=> HP!CreateSender(s, n)
  /\ \A r, n : H!CreateReceiver(r, n) <=> HP!CreateReceiver(r, n)
  /\ \A s : H!FreeSender(s) <=> HP!FreeSender(s)
  /\ \A r : H!FreeReceiver(r) <=> HP!FreeReceiver(r)
  /\ H!Next <=> HP!Next
  /\ H!vars = HP!vars
  /\ H!Connected <=> HP!Connected
<1>1. H!TypeOK <=> HP!TypeOK
  BY SameCounts DEF H!TypeOK, HP!TypeOK, H!Handle, HP!Handle
<1>2. H!Init <=> HP!Init
  BY DEF H!Init, HP!Init
<1>3. H!vars = HP!vars /\ H!Allocated = HP!Allocated /\ (H!OutOfMemory <=> HP!OutOfMemory)
  BY DEF H!vars, HP!vars, H!Allocated, HP!Allocated, H!OutOfMemory, HP!OutOfMemory
<1>4. \A n : H!Lookup(n) = HP!Lookup(n)
  BY DEF H!Lookup, HP!Lookup
<1>5. \A m, n, k, f : H!Allocate(m, n, k, f) <=> HP!Allocate(m, n, k, f)
  BY <1>3 DEF H!Allocate, HP!Allocate
<1>6. \A m : H!Free(m) <=> HP!Free(m)
  BY DEF H!Free, HP!Free, H!RemoveAt, HP!RemoveAt
<1>7. \A s, n : H!CreateSender(s, n) <=> HP!CreateSender(s, n)
  BY <1>3, <1>4, <1>5 DEF H!CreateSender, HP!CreateSender
<1>8. \A r, n : H!CreateReceiver(r, n) <=> HP!CreateReceiver(r, n)
  <2>1. \A m : H!Taken(m) <=> HP!Taken(m)
    BY DEF H!Taken, HP!Taken
  <2>2. (UNCHANGED H!vars) <=> (UNCHANGED HP!vars)
    BY DEF H!vars, HP!vars
  <2>3. QED BY <1>3, <1>4, <1>5, <2>1, <2>2 DEF H!CreateReceiver, HP!CreateReceiver
<1>9. \A s : H!FreeSender(s) <=> HP!FreeSender(s)
  BY <1>6 DEF H!FreeSender, HP!FreeSender, H!LastSender, HP!LastSender, H!Leave, HP!Leave
<1>10. \A r : H!FreeReceiver(r) <=> HP!FreeReceiver(r)
  BY <1>4, <1>6 DEF H!FreeReceiver, HP!FreeReceiver, H!Unused, HP!Unused, H!Forget, HP!Forget
<1>11. H!Next <=> HP!Next
  BY <1>7, <1>8, <1>9, <1>10 DEF H!Next, HP!Next
<1>12. H!Connected <=> HP!Connected
  BY <1>3 DEF H!Connected, HP!Connected, H!ToSet, HP!ToSet
<1>13. QED BY <1>1, <1>2, <1>3, <1>7, <1>8, <1>9, <1>10, <1>11, <1>12

LEMMA HandlesAssumed ==
  /\ Null \notin Name \cup Sender \cup Receiver \cup Memory
  /\ Null \notin HP!Handle
  /\ HP!IsFiniteSet(Sender)
BY MemoryAssumption, SameCounts DEF H!Handle, HP!Handle

\* A step of Handles, or none, keeps the invariant of Handles.
LEMMA HandlesStep == HP!HandleInv /\ [HP!Next]_(HP!vars) => HP!HandleInv'
BY HP!HandleStep, HandlesAssumed DEF HP!HandleStep

---------------------------------------------------------------------------
(* A load uses handles as Handles describes.                               *)

LEMMA RuleFacts ==
  ASSUME TypeOK
  PROVE  /\ Len(profile.rules) \in Nat
         /\ LastRule \in Int /\ LastRule <= Len(profile.rules)
BY TextAssumption DEF TypeOK, LastRule

\* Which filter is made, and with which name.
LEMMA Loaded ==
  ASSUME Inv, LoadFilter
  PROVE  \E i \in Filter \ DOMAIN made :
           /\ made' = [j \in DOMAIN made \cup {i} |->
                         IF j = i THEN <<Here.filter, Here.values>> ELSE made[j]]
           /\ fresh' = Append(fresh, i)
           /\ \/ /\ i \in Sender /\ i \notin Receiver /\ Here.values[1] \in Name
                 /\ HP!CreateSender(i, Here.values[1]) /\ dest'[i] # Null
              \/ /\ i \in Receiver /\ i \notin Sender /\ Here.values[1] \in Name
                 /\ HP!CreateReceiver(i, Here.values[1]) /\ source'[i] # Null
              \/ i \in Plain /\ i \notin Sender \cup Receiver /\ UNCHANGED handleVars
<1> DEFINE free == Unmade(KindOf(Here.filter))
           i == CHOOSE i \in free : TRUE
<1>1. /\ free # {} /\ Create(i, Here.filter, Here.values) /\ fresh' = Append(fresh, i)
      /\ phase = "file" /\ Here.is = "filter"
  BY DEF LoadFilter
<1>2. i \in free
  BY <1>1
<1> HIDE DEF i
<1>3. i \in KindOf(Here.filter) /\ i \notin DOMAIN made
  BY <1>2 DEF Unmade
<1>4. i \in Filter
  BY <1>3 DEF KindOf, Filter
<1>5. Here.filter \in Senders \cup {"GetFromHandle"} => Here.values[1] \in Name
  <2>1. Rule.file \in DOMAIN Files /\ at \in Lines(Rule.file) /\ Here = Turns[Rule.file][at]
    BY <1>1 DEF Inv, Control, Rule, Here
  <2>2. QED BY <1>1, <2>1, TurnFacts
<1>6. /\ i \in Sender => i \notin Receiver /\ Here.values[1] \in Name
      /\ i \in Receiver => i \notin Sender /\ Here.values[1] \in Name
      /\ i \in Plain => i \notin Sender \cup Receiver
  BY <1>3, <1>5, MemoryAssumption DEF KindOf
<1>7. QED BY <1>1, <1>3, <1>4, <1>6, SameHandles DEF Create

\* Which filter is freed.
LEMMA Freed ==
  ASSUME Inv, FreeFilter
  PROVE  \E i \in Filter :
           /\ dead # <<>> /\ i = Head(dead) /\ dead' = Tail(dead)
           /\ made' = [j \in DOMAIN made \ {i} |-> made[j]]
           /\ \/ i \in Sender /\ HP!FreeSender(i)
              \/ i \in Receiver /\ HP!FreeReceiver(i)
              \/ UNCHANGED handleVars
<1>1. Head(dead) \in Filter
  BY HeadTailProperties DEF FreeFilter, Inv, TypeOK
<1>2. QED BY <1>1, SameHandles DEF FreeFilter, Release

LEMMA UsesHandles ==
  ASSUME Inv, [Next]_vars
  PROVE  [HP!Next]_(HP!vars)
<1>1. CASE LoadFilter
  BY <1>1, Loaded DEF HP!Next, HP!vars, handleVars
<1>2. CASE FreeFilter
  BY <1>2, Freed DEF HP!Next, HP!vars, handleVars
<1>3. CASE ~LoadFilter /\ ~FreeFilter
  <2>1. UNCHANGED handleVars
    BY <1>3 DEF Next, Load, TestRule, SkipFile, OpenFile, OpenFileFails, ProfileEnds,
       FileEnds, LoadFilterFails, CreateFails, FreeEnds, Fail, Begin, Destroy, vars
  <2>2. QED BY <2>1 DEF HP!vars, handleVars
<1>4. QED BY <1>1, <1>2, <1>3

LEMMA HandlesKept ==
  ASSUME Inv, [Next]_vars
  PROVE  HP!HandleInv' /\ H!TypeOK'
<1>1. HP!HandleInv'
  BY UsesHandles, HandlesStep DEF Inv
<1>2. HP!TypeOK' => H!TypeOK'
  BY SameCounts DEF H!TypeOK, HP!TypeOK, H!Handle, HP!Handle
<1>3. QED BY <1>1, <1>2 DEF HP!HandleInv

---------------------------------------------------------------------------
(* Types and phases.                                                       *)

LEMMA TypeStep ==
  ASSUME Inv, [Next]_vars
  PROVE  TypeOK'
<1>0. H!TypeOK' /\ TypeOK /\ Control
  BY HandlesKept DEF Inv
<1>1. Len(profile.rules) \in Nat /\ LastRule \in Int /\ LastRule <= Len(profile.rules)
  BY <1>0, RuleFacts
<1>2. CASE TestRule \/ SkipFile \/ OpenFile \/ FreeEnds \/ UNCHANGED vars
  BY <1>0, <1>1, <1>2 DEF TypeOK, TestRule, SkipFile, OpenFile, FreeEnds, Matched, vars, loadVars
<1>3. CASE OpenFileFails \/ LoadFilterFails \/ CreateFails
  <2>1. PICK e \in ParameterError \cup {"errno"} : Fail(e)
    <3>1. LoadFilterFails => Here.error \in ParameterError \cup {"errno"}
      <4>1. ASSUME LoadFilterFails
            PROVE  Rule.file \in DOMAIN Files /\ at \in Lines(Rule.file)
                   /\ Here = Turns[Rule.file][at] /\ Here.is = "error"
        BY <1>0, <4>1 DEF LoadFilterFails, Control, Rule, Here
      <4>2. QED BY <4>1, TurnFacts
    <3>2. QED BY <1>3, <3>1 DEF OpenFileFails, LoadFilterFails, CreateFails
  <2>2. <<>> \in Seq(Filter) /\ fresh \o filters \in Seq(Filter)
    BY <1>0, ConcatFacts DEF TypeOK
  <2>3. QED BY <1>0, <2>1, <2>2 DEF TypeOK, Fail, Lost
<1>4. CASE ProfileEnds
  BY <1>0, <1>4 DEF TypeOK, Control, ProfileEnds
<1>5. CASE FileEnds
  <2>1. filters \o fresh \in Seq(Filter)
    BY <1>0, ConcatFacts DEF TypeOK
  <2>2. pos + 1 \in 1 .. Len(profile.rules) + 1
    BY <1>0, <1>1, <1>5 DEF TypeOK, Control, FileEnds
  <2>3. QED BY <1>0, <1>5, <2>1, <2>2 DEF TypeOK, FileEnds, Merged
<1>6. CASE LoadFilter
  <2>1. PICK i \in Filter \ DOMAIN made :
          DOMAIN made' = DOMAIN made \cup {i} /\ fresh' = Append(fresh, i)
    BY <1>6, Loaded
  <2>2. Append(fresh, i) \in Seq(Filter)
    BY <1>0, AppendOneFacts DEF TypeOK
  <2>3. Here.rest \in Nat
    <3>1. Rule.file \in DOMAIN Files /\ at \in Lines(Rule.file) /\ Here = Turns[Rule.file][at]
          /\ Here.is = "filter"
      BY <1>0, <1>6 DEF LoadFilter, Control, Rule, Here
    <3>2. Here.rest \in Lines(Rule.file)
      BY <3>1, TurnFacts
    <3>3. QED BY <3>1, <3>2, TextAssumption DEF Lines
  <2>4. QED BY <1>0, <1>6, <2>1, <2>2, <2>3 DEF TypeOK, LoadFilter
<1>7. CASE FreeFilter
  <2>1. PICK i \in Filter : DOMAIN made' = DOMAIN made \ {i} /\ dead' = Tail(dead) /\ dead # <<>>
    BY <1>7, Freed
  <2>2. Tail(dead) \in Seq(Filter)
    BY <1>0, <2>1, HeadTailProperties DEF TypeOK
  <2>3. QED BY <1>0, <1>7, <2>1, <2>2 DEF TypeOK, FreeFilter
<1>8. ASSUME NEW d \in Device, Begin(d) PROVE TypeOK'
  BY <1>0, <1>1, <1>8 DEF TypeOK, Begin
<1>9. ASSUME NEW d \in Device, Destroy(d) PROVE TypeOK'
  BY <1>0, <1>9 DEF TypeOK, Destroy
<1>10. QED BY <1>2, <1>3, <1>4, <1>5, <1>6, <1>7, <1>8, <1>9 DEF Next, Load

LEMMA ControlStep ==
  ASSUME Inv, [Next]_vars
  PROVE  Control'
<1>0. TypeOK /\ Control /\ TypeOK'
  BY TypeStep DEF Inv
<1>1. CASE TestRule \/ SkipFile \/ FreeEnds \/ UNCHANGED vars
  BY <1>0, <1>1 DEF Control, TestRule, SkipFile, FreeEnds, vars, loadVars, Rule, LastRule, Lines
<1>2. CASE OpenFile
  <2>1. 1 \in Lines(Rule.file)
    BY <1>2, TextAssumption DEF OpenFile, Lines
  <2>2. QED BY <1>0, <1>2, <2>1 DEF Control, OpenFile, Rule, LastRule, Lines
<1>3. CASE OpenFileFails \/ LoadFilterFails \/ CreateFails
  <2>1. \E e : Fail(e) /\ phase # "idle"
    BY <1>3 DEF OpenFileFails, LoadFilterFails, CreateFails
  <2>2. QED BY <1>0, <2>1 DEF Control, Fail
<1>4. CASE ProfileEnds
  BY <1>0, <1>4 DEF Control, ProfileEnds
<1>5. CASE FileEnds
  BY <1>0, <1>5 DEF Control, FileEnds
<1>6. CASE LoadFilter
  <2>1. Rule.file \in DOMAIN Files /\ at \in Lines(Rule.file) /\ Here = Turns[Rule.file][at]
        /\ Here.is = "filter"
    BY <1>0, <1>6 DEF LoadFilter, Control, Rule, Here
  <2>2. Here.rest \in Lines(Rule.file)
    BY <2>1, TurnFacts
  <2>3. QED BY <1>0, <1>6, <2>2 DEF Control, LoadFilter, Rule, LastRule, Lines
<1>7. CASE FreeFilter
  BY <1>0, <1>7 DEF Control, FreeFilter
<1>8. ASSUME NEW d \in Device, Begin(d) PROVE Control'
  BY <1>0, <1>8 DEF Control, Begin
<1>9. ASSUME NEW d \in Device, Destroy(d) PROVE Control'
  BY <1>0, <1>9 DEF Control, Destroy, TypeOK
<1>10. QED BY <1>1, <1>2, <1>3, <1>4, <1>5, <1>6, <1>7, <1>8, <1>9 DEF Next, Load

---------------------------------------------------------------------------
(* No filter is lost, none is in two places.                               *)

LEMMA SpreadStep ==
  ASSUME Inv, [Next]_vars
  PROVE  Spread(Places, DOMAIN made)'
<1> DEFINE M == DOMAIN made
<1>0. TypeOK /\ Control /\ TypeOK' /\ Spread(Places, M)
  BY TypeStep DEF Inv
<1>1. /\ line \in [Device -> Seq(Filter)] /\ line' \in [Device -> Seq(Filter)]
      /\ filters \in Seq(Filter) /\ fresh \in Seq(Filter) /\ dead \in Seq(Filter)
      /\ filters' \in Seq(Filter) /\ fresh' \in Seq(Filter) /\ dead' \in Seq(Filter)
      /\ <<>> \in Seq(Filter)
  BY <1>0 DEF TypeOK
<1>2. /\ Places \in Lists
      /\ Places["filters"] = filters /\ Places["fresh"] = fresh /\ Places["dead"] = dead
      /\ \A d \in Device : Places[d] = line[d]
  <2>1. Places = Spot(line, filters, fresh, dead)
    BY PlacesAreSpots
  <2>2. Places \in Lists
    BY <1>1, <2>1, SpotFacts
  <2>3. Places["filters"] = filters /\ Places["fresh"] = fresh /\ Places["dead"] = dead
    BY DEF Places, Place
  <2>4. \A d \in Device : Places[d] = line[d]
    BY DeviceAssumption DEF Places, Place
  <2>5. QED BY <2>2, <2>3, <2>4
<1>3. /\ Places' \in Lists
      /\ Places'["filters"] = filters' /\ Places'["fresh"] = fresh' /\ Places'["dead"] = dead'
      /\ \A d \in Device : Places'[d] = line'[d]
  BY <1>1, SpotFacts, PlacesAreSpots
<1>4. /\ "filters" \in Place /\ "fresh" \in Place /\ "dead" \in Place /\ Device \subseteq Place
      /\ \A p \in Place : p \in Device \/ p \in {"filters", "fresh", "dead"}
      /\ \A d \in Device : d \notin {"filters", "fresh", "dead"}
  BY DeviceAssumption DEF Place
<1>5. Spread(Places', DOMAIN made') => Spread(Places, DOMAIN made)'
  BY DEF Spread
<1>6. CASE UNCHANGED <<line, made, filters, fresh, dead>>
  <2>1. Places' = Places
    BY <1>6, PlacesAreSpots
  <2>2. QED BY <1>0, <1>5, <1>6, <2>1
<1>7. CASE \E e : Fail(e) /\ phase # "free"
  <2>1. /\ dead = <<>> /\ dead' = fresh \o filters /\ filters' = <<>> /\ fresh' = <<>>
        /\ line' = line /\ made' = made
    BY <1>0, <1>7 DEF Control, Fail, Lost
  <2> DEFINE P == Spot(line, filters, <<>>, fresh)
  <2>2. /\ P \in Lists /\ P["filters"] = filters /\ P["fresh"] = <<>> /\ P["dead"] = fresh
        /\ \A d \in Device : P[d] = line[d]
    <3>1. P \in Lists
      BY <1>1, SpotFacts
    <3>2. P["filters"] = filters /\ P["fresh"] = <<>> /\ P["dead"] = fresh
      BY DEF Spot, Place
    <3>3. \A d \in Device : P[d] = line[d]
      BY DeviceAssumption DEF Spot, Place
    <3>4. QED BY <3>1, <3>2, <3>3
  <2> HIDE DEF P
  <2>3. P["dead"] = Places["dead"] \o Places["fresh"] /\ P["fresh"] = <<>> /\ "fresh" # "dead"
    BY <1>1, <1>2, <2>1, <2>2, ConcatEmptySeq
  <2>4. \A r \in Place \ {"fresh", "dead"} : P[r] = Places[r]
    BY <1>2, <1>4, <2>2
  <2>5. Spread(P, M)
    <3>1. "fresh" \in Place /\ "dead" \in Place
      BY <1>4
    <3>2. Places \in Lists /\ P \in Lists /\ Spread(Places, M)
      BY <1>0, <1>2, <2>2
    <3>3. QED BY <2>3, <2>4, <3>1, <3>2, Moved, ZenonT(60)
  <2>6. \A r \in Place \ {"filters", "dead"} : Places'[r] = P[r]
    BY <1>3, <1>4, <2>1, <2>2
  <2>7. Places'["dead"] = P["dead"] \o P["filters"] /\ Places'["filters"] = <<>> /\ "filters" # "dead"
    BY <1>3, <2>1, <2>2
  <2>8. Spread(Places', M)
    <3>1. "filters" \in Place /\ "dead" \in Place
      BY <1>4
    <3>2. P \in Lists /\ Places' \in Lists
      BY <1>3, <2>2
    <3>3. QED BY <2>5, <2>6, <2>7, <3>1, <3>2, Moved, ZenonT(60)
  <2>9. QED BY <1>5, <2>1, <2>8
<1>8. CASE ProfileEnds
  <2>1. /\ filters' = <<>> /\ fresh' = fresh /\ made' = made /\ dev \in Device
        /\ line[dev] = <<>> /\ dead = <<>>
        /\ \/ line' = [line EXCEPT ![dev] = filters] /\ dead' = dead
           \/ line' = line /\ dead' = filters
    BY <1>0, <1>8 DEF Control, ProfileEnds
  <2>2. PICK q \in Place :
          /\ Places[q] = <<>> /\ Places'[q] = filters /\ "filters" # q
          /\ \A r \in Place \ {"filters", q} : Places'[r] = Places[r]
    <3>1. CASE line' = [line EXCEPT ![dev] = filters] /\ dead' = dead
      <4>1. line'[dev] = filters /\ \A d \in Device : d # dev => line'[d] = line[d]
        BY <1>1, <2>1, <3>1
      <4>2. QED BY <1>2, <1>3, <1>4, <2>1, <3>1, <4>1
    <3>2. CASE line' = line /\ dead' = filters
      BY <1>2, <1>3, <1>4, <2>1, <3>2
    <3>3. QED BY <2>1, <3>1, <3>2
  <2>3. Places'[q] = Places[q] \o Places["filters"] /\ Places'["filters"] = <<>>
    BY <1>1, <1>2, <1>3, <2>1, <2>2, ConcatEmptySeq
  <2>4. Spread(Places', M)
    <3>1. "filters" \in Place /\ q \in Place /\ "filters" # q
          /\ \A r \in Place \ {"filters", q} : Places'[r] = Places[r]
      BY <1>4, <2>2
    <3>2. Places \in Lists /\ Places' \in Lists /\ Spread(Places, M)
      BY <1>0, <1>2, <1>3
    <3>3. QED BY <2>3, <3>1, <3>2, Moved, ZenonT(60)
  <2>5. QED BY <1>5, <2>1, <2>4
<1>9. CASE FileEnds
  <2>1. filters' = filters \o fresh /\ fresh' = <<>> /\ UNCHANGED <<line, made, dead>>
    BY <1>9 DEF FileEnds, Merged
  <2>2. \A r \in Place \ {"fresh", "filters"} : Places'[r] = Places[r]
    BY <1>2, <1>3, <1>4, <2>1
  <2>3. /\ Places'["filters"] = Places["filters"] \o Places["fresh"]
        /\ Places'["fresh"] = <<>> /\ "fresh" # "filters"
    BY <1>2, <1>3, <2>1
  <2>4. Spread(Places', M)
    <3>1. "fresh" \in Place /\ "filters" \in Place
      BY <1>4
    <3>2. Places \in Lists /\ Places' \in Lists /\ Spread(Places, M)
      BY <1>0, <1>2, <1>3
    <3>3. QED BY <2>2, <2>3, <3>1, <3>2, Moved, ZenonT(60)
  <2>5. QED BY <1>5, <2>1, <2>4
<1>10. ASSUME NEW d \in Device, Destroy(d) PROVE Spread(Places, DOMAIN made)'
  <2>1. /\ dead = <<>> /\ dead' = line[d] /\ UNCHANGED <<made, filters, fresh>>
        /\ line'[d] = <<>> /\ \A e \in Device : e # d => line'[e] = line[e]
    BY <1>0, <1>1, <1>10 DEF Control, Destroy
  <2>2. Places'["dead"] = Places["dead"] \o Places[d]
    BY <1>1, <1>2, <1>3, <2>1, ConcatEmptySeq
  <2>3. \A r \in Place \ {d, "dead"} : Places'[r] = Places[r]
    BY <1>2, <1>3, <1>4, <2>1
  <2>4. Places'[d] = <<>> /\ d # "dead" /\ d \in Place
    BY <1>3, <1>4, <2>1
  <2>5. Spread(Places', M)
    <3>1. Places \in Lists /\ Places' \in Lists /\ Spread(Places, M) /\ "dead" \in Place
      BY <1>0, <1>2, <1>3, <1>4
    <3>2. QED BY <2>2, <2>3, <2>4, <3>1, Moved, ZenonT(60)
  <2>6. QED BY <1>5, <2>1, <2>5
<1>11. CASE LoadFilter
  <2>1. PICK i \in Filter \ M : DOMAIN made' = M \cup {i} /\ fresh' = Append(fresh, i)
    BY <1>11, Loaded
  <2>2. UNCHANGED <<line, filters, dead>>
    BY <1>11 DEF LoadFilter
  <2>3. i \notin ToSet(fresh) /\ IsInjective(fresh)
    BY <1>0, <1>2, <1>4 DEF Spread
  <2>4. IsInjective(Places'["fresh"]) /\ ToSet(Places'["fresh"]) = ToSet(Places["fresh"]) \cup {i}
    BY <1>1, <1>2, <1>3, <2>1, <2>3, AppendOneFacts
  <2>5. \A r \in Place \ {"fresh"} : Places'[r] = Places[r]
    BY <1>2, <1>3, <1>4, <2>2
  <2>6. Spread(Places', DOMAIN made')
    <3>1. \E e : e \notin M /\ DOMAIN made' = M \cup {e}
                 /\ ToSet(Places'["fresh"]) = ToSet(Places["fresh"]) \cup {e}
      BY <2>1, <2>4
    <3>2. Places \in Lists /\ Places' \in Lists /\ Spread(Places, M) /\ "fresh" \in Place
      BY <1>0, <1>2, <1>3, <1>4
    <3>3. IsInjective(Places'["fresh"])
      BY <2>4
    <3> DEFINE N == DOMAIN made'
    <3>4. \E e : e \notin M /\ N = M \cup {e}
                 /\ ToSet(Places'["fresh"]) = ToSet(Places["fresh"]) \cup {e}
      BY <3>1
    <3> HIDE DEF N, M
    <3>5. Spread(Places', N)
      BY <2>5, <3>2, <3>3, <3>4, Changed, ZenonT(60)
    <3>6. QED BY <3>5 DEF N
  <2>7. QED BY <1>5, <2>6
<1>12. CASE FreeFilter
  <2>1. DOMAIN made' = M \ {Head(dead)} /\ dead # <<>> /\ dead' = Tail(dead)
    BY <1>12, Freed
  <2>2. UNCHANGED <<line, filters, fresh>>
    BY <1>12 DEF FreeFilter
  <2>3. IsInjective(dead)
    BY <1>0, <1>2, <1>4 DEF Spread
  <2>4. /\ IsInjective(Places'["dead"]) /\ Head(dead) \in ToSet(Places["dead"])
        /\ ToSet(Places'["dead"]) = ToSet(Places["dead"]) \ {Head(dead)}
    BY <1>1, <1>2, <1>3, <2>1, <2>3, TailFacts
  <2>5. \A r \in Place \ {"dead"} : Places'[r] = Places[r]
    BY <1>2, <1>3, <1>4, <2>2
  <2>6. Spread(Places', DOMAIN made')
    <3>1. \E e \in ToSet(Places["dead"]) :
            /\ DOMAIN made' = M \ {e}
            /\ ToSet(Places'["dead"]) = ToSet(Places["dead"]) \ {e}
      BY <2>1, <2>4
    <3>2. Places \in Lists /\ Places' \in Lists /\ Spread(Places, M) /\ "dead" \in Place
      BY <1>0, <1>2, <1>3, <1>4
    <3>3. QED BY <2>4, <2>5, <3>1, <3>2, Changed, Zenon
  <2>7. QED BY <1>5, <2>6
<1>13. CASE OpenFileFails \/ LoadFilterFails \/ CreateFails
  BY <1>7, <1>13 DEF OpenFileFails, LoadFilterFails, CreateFails
<1>14. CASE TestRule \/ SkipFile \/ OpenFile \/ FreeEnds \/ UNCHANGED vars
  BY <1>6, <1>14 DEF TestRule, SkipFile, OpenFile, FreeEnds, vars, loadVars
<1>15. ASSUME NEW d \in Device, Begin(d) PROVE Spread(Places, DOMAIN made)'
  BY <1>6, <1>15 DEF Begin
<1>16. QED BY <1>8, <1>9, <1>10, <1>11, <1>12, <1>13, <1>14, <1>15 DEF Next, Load

---------------------------------------------------------------------------
(* Names.                                                                  *)

\* A handle keeps its name as long as it exists.
LEMMA NameKept ==
  ASSUME HP!TypeOK, [HP!Next]_(HP!vars), NEW m \in Memory, heap[m] # Null, heap'[m] # Null
  PROVE  heap'[m].name = heap[m].name
<1>1. /\ heap \in [Memory -> HP!Handle \cup {Null}] /\ heap[m] \in HP!Handle
  BY DEF HP!TypeOK
<1>2. CASE UNCHANGED heap
  BY <1>2
<1>3. ASSUME NEW n, NEW k, NEW f, NEW l \in Memory, HP!Allocate(l, n, k, f)
      PROVE  heap'[m] = heap[m]
  BY <1>1, <1>3 DEF HP!Allocate, HP!Allocated
<1>4. ASSUME NEW l, HP!Free(l) PROVE heap'[m] = heap[m]
  BY <1>1, <1>4 DEF HP!Free
<1>5. ASSUME NEW s \in Sender, NEW n, HP!CreateSender(s, n) PROVE heap'[m].name = heap[m].name
  <2>1. CASE \E l : heap' = [heap EXCEPT ![l].refcount = @ + 1]
    BY <1>1, <2>1 DEF HP!Handle
  <2>2. QED BY <1>3, <1>5, <2>1 DEF HP!CreateSender, HP!OutOfMemory, HP!vars
<1>6. ASSUME NEW r \in Receiver, NEW n, HP!CreateReceiver(r, n) PROVE heap'[m].name = heap[m].name
  <2>1. CASE \E l : heap' = [heap EXCEPT ![l].filter = r]
    BY <1>1, <2>1 DEF HP!Handle
  <2>2. QED BY <1>3, <1>6, <2>1 DEF HP!CreateReceiver, HP!OutOfMemory, HP!vars
<1>7. ASSUME NEW s \in Sender, HP!FreeSender(s) PROVE heap'[m].name = heap[m].name
  <2>1. CASE \E l : heap' = HP!Leave(l)
    BY <1>1, <2>1 DEF HP!Handle, HP!Leave
  <2>2. QED BY <1>4, <1>7, <2>1 DEF HP!FreeSender
<1>8. ASSUME NEW r \in Receiver, HP!FreeReceiver(r) PROVE heap'[m].name = heap[m].name
  <2>1. CASE \E l : heap' = HP!Forget(l)
    BY <1>1, <2>1 DEF HP!Handle, HP!Forget
  <2>2. QED BY <1>4, <1>8, <2>1 DEF HP!FreeReceiver
<1>9. QED BY <1>2, <1>5, <1>6, <1>7, <1>8 DEF HP!Next, HP!vars

\* A filter that stays keeps its handle, and the handle its name.
LEMMA StaysNamed ==
  ASSUME Inv, [Next]_vars, NEW i \in DOMAIN made, made'[i] = made[i],
         i \in Sender => dest'[i] = dest[i], i \in Receiver => source'[i] = source[i]
  PROVE  /\ i \in Sender => dest'[i] # Null /\ heap'[dest'[i]].name = made'[i][2][1]
         /\ i \in Receiver => source'[i] # Null /\ source'[i] = made'[i][2][1]
<1>0. /\ HP!TypeOK /\ HP!SendersCounted /\ HP!SendersCounted'
      /\ [HP!Next]_(HP!vars) /\ Named
  BY HandlesKept, UsesHandles DEF Inv, HP!HandleInv
<1>1. ASSUME i \in Sender
      PROVE  dest'[i] # Null /\ heap'[dest'[i]].name = made'[i][2][1]
  <2> DEFINE m == dest[i]
  <2>1. m # Null /\ heap[m].name = made[i][2][1] /\ dest'[i] = m
    BY <1>0, <1>1 DEF Named
  <2>2. m \in Memory
    BY <1>0, <1>1, <2>1 DEF HP!TypeOK
  <2> HIDE DEF m
  <2>3. heap[m] # Null
    BY <1>0, <1>1, <2>1, <2>2 DEF HP!SendersCounted, HP!SendersOf, HP!Allocated, m
  <2>4. heap'[m] # Null
    BY <1>0, <1>1, <2>1, <2>2 DEF HP!SendersCounted, HP!SendersOf, HP!Allocated
  <2>5. heap'[m].name = heap[m].name
    BY <1>0, <2>2, <2>3, <2>4, NameKept
  <2>6. QED BY <2>1, <2>5
<1>2. QED BY <1>0, <1>1 DEF Named

\* A filter that is made gets the handle its first parameter names.
LEMMA SenderNamed ==
  ASSUME HP!HandleInv, NEW s \in Sender, NEW n \in Name, HP!CreateSender(s, n), dest'[s] # Null
  PROVE  /\ heap'[dest'[s]].name = n
         /\ \A t \in Sender : t # s => dest'[t] = dest[t]
         /\ source' = source
<1>0. HP!TypeOK /\ HP!Sound /\ dest[s] = Null
  BY DEF HP!HandleInv, HP!CreateSender
<1>1. CASE \E m \in HP!Lookup(n) : /\ heap' = [heap EXCEPT ![m].refcount = @ + 1]
                                   /\ dest' = [dest EXCEPT ![s] = m]
                                   /\ UNCHANGED <<handles, source>>
  <2>1. PICK m \in HP!Lookup(n) : /\ heap' = [heap EXCEPT ![m].refcount = @ + 1]
                                  /\ dest' = [dest EXCEPT ![s] = m] /\ source' = source
    BY <1>1
  <2>2. m \in HP!Listed /\ heap[m].name = n
    BY <1>0, HandlesAssumed, HP!LookupFacts
  <2>3. m \in HP!Allocated
    BY <1>0, <2>2 DEF HP!Sound
  <2>4. heap[m] \in HP!Handle /\ m \in Memory
    BY <1>0, <2>3 DEF HP!TypeOK, HP!Allocated
  <2>5. heap'[m].name = n
    BY <1>0, <2>1, <2>2, <2>4 DEF HP!TypeOK, HP!Handle
  <2>6. QED BY <1>0, <2>1, <2>5 DEF HP!TypeOK
<1>2. CASE \E m \in Memory : HP!Allocate(m, n, 1, Null) /\ dest' = [dest EXCEPT ![s] = m]
                             /\ UNCHANGED source
  BY <1>0, <1>2 DEF HP!TypeOK, HP!Allocate
<1>3. CASE HP!OutOfMemory
  BY <1>0, <1>3 DEF HP!OutOfMemory, HP!vars
<1>4. QED BY <1>1, <1>2, <1>3 DEF HP!CreateSender

LEMMA ReceiverNamed ==
  ASSUME HP!HandleInv, NEW r \in Receiver, NEW n \in Name, HP!CreateReceiver(r, n),
         source'[r] # Null
  PROVE  /\ source'[r] = n
         /\ \A q \in Receiver : q # r => source'[q] = source[q]
         /\ dest' = dest
<1>0. HP!TypeOK /\ source[r] = Null
  BY DEF HP!HandleInv, HP!CreateReceiver
<1>1. CASE source' = [source EXCEPT ![r] = n] /\ dest' = dest
  BY <1>0, <1>1 DEF HP!TypeOK
<1>2. CASE UNCHANGED HP!vars
  BY <1>0, <1>2 DEF HP!vars
<1>3. QED BY <1>1, <1>2 DEF HP!CreateReceiver, HP!OutOfMemory

LEMMA NamedStep ==
  ASSUME Inv, [Next]_vars
  PROVE  Named'
<1>0. HP!HandleInv /\ HP!TypeOK
  BY DEF Inv, HP!HandleInv
<1> DEFINE Good(i) ==
             /\ i \in Sender => dest'[i] # Null /\ heap'[dest'[i]].name = made'[i][2][1]
             /\ i \in Receiver => source'[i] # Null /\ source'[i] = made'[i][2][1]
<1> SUFFICES ASSUME NEW i \in DOMAIN made' PROVE Good(i)
  BY DEF Named
<1>1. CASE LoadFilter
  <2>1. PICK j \in Filter \ DOMAIN made :
           /\ made' = [k \in DOMAIN made \cup {j} |->
                         IF k = j THEN <<Here.filter, Here.values>> ELSE made[k]]
           /\ \/ /\ j \in Sender /\ j \notin Receiver /\ Here.values[1] \in Name
                 /\ HP!CreateSender(j, Here.values[1]) /\ dest'[j] # Null
              \/ /\ j \in Receiver /\ j \notin Sender /\ Here.values[1] \in Name
                 /\ HP!CreateReceiver(j, Here.values[1]) /\ source'[j] # Null
              \/ j \in Plain /\ j \notin Sender \cup Receiver /\ UNCHANGED handleVars
    BY <1>1, Loaded
  <2>2. /\ i # j => i \in DOMAIN made /\ made'[i] = made[i]
        /\ made'[j][2][1] = Here.values[1]
    BY <2>1
  <2>3. CASE /\ j \in Sender /\ j \notin Receiver /\ Here.values[1] \in Name
             /\ HP!CreateSender(j, Here.values[1]) /\ dest'[j] # Null
    <3>1. /\ heap'[dest'[j]].name = Here.values[1]
          /\ \A t \in Sender : t # j => dest'[t] = dest[t]
          /\ source' = source
      BY <1>0, <2>3, SenderNamed
    <3>2. CASE i = j
      BY <2>2, <2>3, <3>1, <3>2
    <3>3. CASE i # j
      BY <2>2, <3>1, <3>3, StaysNamed
    <3>4. QED BY <3>2, <3>3
  <2>4. CASE /\ j \in Receiver /\ j \notin Sender /\ Here.values[1] \in Name
             /\ HP!CreateReceiver(j, Here.values[1]) /\ source'[j] # Null
    <3>1. /\ source'[j] = Here.values[1]
          /\ \A q \in Receiver : q # j => source'[q] = source[q]
          /\ dest' = dest
      BY <1>0, <2>4, ReceiverNamed
    <3>2. CASE i = j
      BY <2>2, <2>4, <3>1, <3>2
    <3>3. CASE i # j
      BY <2>2, <3>1, <3>3, StaysNamed
    <3>4. QED BY <3>2, <3>3
  <2>5. CASE j \notin Sender \cup Receiver /\ UNCHANGED handleVars
    <3>1. CASE i = j
      BY <2>5, <3>1
    <3>2. CASE i # j
      BY <2>2, <2>5, <3>2, StaysNamed DEF handleVars
    <3>3. QED BY <3>1, <3>2
  <2>6. QED BY <2>1, <2>3, <2>4, <2>5
<1>2. CASE FreeFilter
  <2>1. PICK j \in Filter :
          /\ made' = [k \in DOMAIN made \ {j} |-> made[k]]
          /\ \/ j \in Sender /\ HP!FreeSender(j)
             \/ j \in Receiver /\ HP!FreeReceiver(j)
             \/ UNCHANGED handleVars
    BY <1>2, Freed
  <2>2. i # j /\ i \in DOMAIN made /\ made'[i] = made[i]
    BY <2>1
  <2>3. (i \in Sender => dest'[i] = dest[i]) /\ (i \in Receiver => source'[i] = source[i])
    BY <1>0, <2>1, <2>2 DEF HP!FreeSender, HP!FreeReceiver, HP!TypeOK, handleVars
  <2>4. QED BY <2>2, <2>3, StaysNamed
<1>3. CASE ~LoadFilter /\ ~FreeFilter
  <2>1. UNCHANGED <<handleVars, made>>
    BY <1>3 DEF Next, Load, TestRule, SkipFile, OpenFile, OpenFileFails, ProfileEnds,
       FileEnds, LoadFilterFails, CreateFails, FreeEnds, Fail, Begin, Destroy, vars
  <2>2. QED BY <2>1, StaysNamed DEF handleVars
<1>4. QED BY <1>1, <1>2, <1>3

---------------------------------------------------------------------------
(* What lists of filters are made of.                                      *)

Of(m, s) == [k \in DOMAIN s |-> m[s[k]]]

LEMMA OfFacts ==
  ASSUME NEW m, NEW S, \A x \in Filter : m[x] \in S, NEW s \in Seq(Filter)
  PROVE  /\ Of(m, s) \in Seq(S) /\ Len(Of(m, s)) = Len(s)
         /\ \A k \in 1 .. Len(s) : Of(m, s)[k] = m[s[k]]
<1> DEFINE o == Of(m, s)
<1>1. /\ Len(s) \in Nat /\ DOMAIN s = 1 .. Len(s) /\ \A k \in 1 .. Len(s) : s[k] \in Filter
  BY ListFacts
<1>2. o \in [1 .. Len(s) -> S] /\ \A k \in 1 .. Len(s) : o[k] = m[s[k]]
  BY <1>1 DEF Of
<1> HIDE DEF o
<1>3. o \in Seq(S) /\ DOMAIN o = 1 .. Len(s)
  BY <1>1, <1>2, SeqDef
<1>4. Len(o) = Len(s)
  BY <1>1, <1>3, LenProperties
<1>5. QED BY <1>2, <1>3, <1>4 DEF o

LEMMA OfEmpty == ASSUME NEW m PROVE Of(m, <<>>) = <<>>
<1> DEFINE S == {m[x] : x \in Filter}
<1>1. Of(m, <<>>) \in Seq(S) /\ Len(Of(m, <<>>)) = 0
  <2>1. <<>> \in Seq(Filter) /\ Len(<<>>) = 0
    BY EmptySeq
  <2>2. \A x \in Filter : m[x] \in S
    OBVIOUS
  <2> HIDE DEF S
  <2>3. QED BY <2>1, <2>2, OfFacts
<1> HIDE DEF S
<1>2. QED BY <1>1, EmptySeq

LEMMA OfConcat ==
  ASSUME NEW m, NEW s \in Seq(Filter), NEW t \in Seq(Filter)
  PROVE  Of(m, s \o t) = Of(m, s) \o Of(m, t)
<1> DEFINE S == {m[x] : x \in Filter}
           u == s \o t
           a == Of(m, s)
           b == Of(m, t)
           c == Of(m, u)
<1>0. \A x \in Filter : m[x] \in S
  OBVIOUS
<1> HIDE DEF S
<1>1. /\ u \in Seq(Filter) /\ Len(u) = Len(s) + Len(t)
      /\ \A i \in 1 .. Len(s) + Len(t) : u[i] = IF i <= Len(s) THEN s[i] ELSE t[i - Len(s)]
  BY ConcatProperties
<1> HIDE DEF u
<1>2. Len(s) \in Nat /\ Len(t) \in Nat
  BY ListFacts
<1>3. /\ a \in Seq(S) /\ Len(a) = Len(s) /\ b \in Seq(S) /\ Len(b) = Len(t)
      /\ c \in Seq(S) /\ Len(c) = Len(u)
  BY <1>0, <1>1, OfFacts
<1>4. /\ \A k \in 1 .. Len(s) : a[k] = m[s[k]]
      /\ \A k \in 1 .. Len(t) : b[k] = m[t[k]]
      /\ \A k \in 1 .. Len(u) : c[k] = m[u[k]]
  BY <1>1, ListFacts DEF Of
<1> HIDE DEF a, b, c
<1>5. /\ a \o b \in Seq(S) /\ Len(a \o b) = Len(a) + Len(b)
      /\ \A i \in 1 .. Len(a) + Len(b) : (a \o b)[i] = IF i <= Len(a) THEN a[i] ELSE b[i - Len(a)]
  BY <1>3, ConcatProperties
<1>6. ASSUME NEW i \in 1 .. Len(s) + Len(t) PROVE c[i] = (a \o b)[i]
  <2>0. c[i] = m[u[i]] /\ i \in 1 .. Len(a) + Len(b)
    BY <1>1, <1>3, <1>4
  <2>1. CASE i <= Len(s)
    <3>1. i \in 1 .. Len(s)
      BY <1>2, <2>1
    <3>2. u[i] = s[i] /\ (a \o b)[i] = a[i]
      BY <1>1, <1>3, <1>5, <2>0, <2>1
    <3>3. QED BY <1>4, <2>0, <3>1, <3>2
  <2>2. CASE i > Len(s)
    <3> DEFINE k == i - Len(s)
    <3>1. k \in 1 .. Len(t) /\ ~(i <= Len(s))
      BY <1>2, <2>2
    <3>2. u[i] = t[k] /\ (a \o b)[i] = b[k]
      BY <1>1, <1>3, <1>5, <2>0, <3>1
    <3> HIDE DEF k
    <3>3. QED BY <1>4, <2>0, <3>1, <3>2
  <2>3. i <= Len(s) \/ i > Len(s)
    BY <1>2
  <2>4. QED BY <2>1, <2>2, <2>3, Zenon
<1>7. c = a \o b
  BY <1>1, <1>3, <1>5, <1>6, SeqEqual
<1>8. QED BY <1>7 DEF a, b, c, u

LEMMA OfAppend ==
  ASSUME NEW m, NEW s \in Seq(Filter), NEW e \in Filter
  PROVE  Of(m, Append(s, e)) = Of(m, s) \o <<m[e]>>
<1> DEFINE o == <<e>>
<1>1. Append(s, e) = s \o o
  BY AppendIsConcat
<1>2. o \in Seq(Filter) /\ Of(m, o) = <<m[e]>>
  BY DEF Of
<1> HIDE DEF o
<1>3. Of(m, s \o o) = Of(m, s) \o Of(m, o)
  BY <1>2, OfConcat
<1>4. QED BY <1>1, <1>2, <1>3

LEMMA OfSame ==
  ASSUME NEW m, NEW n, NEW s, \A x \in ToSet(s) : m[x] = n[x]
  PROVE  Of(m, s) = Of(n, s)
<1>1. \A k \in DOMAIN s : m[s[k]] = n[s[k]]
  BY DEF ToSet
<1>2. QED BY <1>1 DEF Of

\* What a filter was made of stays as long as it is not about to be freed.
LEMMA MadeKept ==
  ASSUME Inv, [Next]_vars, NEW p \in Place \ {"dead"}
  PROVE  Of(made', Places[p]) = Of(made, Places[p])
<1>0. Spread(Places, DOMAIN made) /\ "dead" \in Place /\ Places["dead"] = dead /\ TypeOK
  BY DEF Inv, Places, Place
<1> SUFFICES ASSUME NEW x \in ToSet(Places[p]) PROVE made'[x] = made[x]
  BY OfSame
<1>1. x \in DOMAIN made /\ x \notin ToSet(dead)
  <2>1. x \in DOMAIN made
    BY <1>0 DEF Spread
  <2>2. ToSet(Places[p]) \cap ToSet(Places["dead"]) = {}
    BY <1>0 DEF Spread
  <2>3. QED BY <1>0, <2>1, <2>2
<1>2. CASE LoadFilter
  <2>1. PICK i \in Filter \ DOMAIN made :
          made' = [j \in DOMAIN made \cup {i} |->
                     IF j = i THEN <<Here.filter, Here.values>> ELSE made[j]]
    BY <1>2, Loaded
  <2>2. QED BY <1>1, <2>1
<1>3. CASE FreeFilter
  <2>1. PICK i : dead # <<>> /\ i = Head(dead) /\ made' = [j \in DOMAIN made \ {i} |-> made[j]]
    BY <1>3, Freed
  <2>2. Head(dead) \in ToSet(dead)
    <3>1. IsInjective(dead) /\ dead \in Seq(Filter)
      BY <1>0 DEF Spread, TypeOK
    <3>2. QED BY <2>1, <3>1, TailFacts
  <2>3. QED BY <1>1, <2>1, <2>2
<1>4. CASE ~LoadFilter /\ ~FreeFilter
  <2>1. made' = made
    BY <1>4 DEF Next, Load, TestRule, SkipFile, OpenFile, OpenFileFails, ProfileEnds,
       FileEnds, LoadFilterFails, CreateFails, FreeEnds, Fail, Begin, Destroy, vars
  <2>2. QED BY <2>1
<1>5. QED BY <1>2, <1>3, <1>4

\* So lines that stay the same are made of the same.
LEMMA ListsKept ==
  ASSUME Inv, [Next]_vars
  PROVE  /\ \A d \in Device : Of(made', line[d]) = Of(made, line[d])
         /\ Of(made', filters) = Of(made, filters)
         /\ Of(made', fresh) = Of(made, fresh)
<1>1. \A d \in Device : d \in Place \ {"dead"} /\ Places[d] = line[d]
  BY DeviceAssumption DEF Places, Place
<1>2. /\ "filters" \in Place \ {"dead"} /\ Places["filters"] = filters
      /\ "fresh" \in Place \ {"dead"} /\ Places["fresh"] = fresh
  BY DEF Places, Place
<1>3. \A d \in Device : Of(made', Places[d]) = Of(made, Places[d])
  BY <1>1, MadeKept
<1>4. Of(made', Places["filters"]) = Of(made, Places["filters"])
  BY <1>2, MadeKept
<1>5. Of(made', Places["fresh"]) = Of(made, Places["fresh"])
  BY <1>2, MadeKept
<1>6. QED BY <1>1, <1>2, <1>3, <1>4, <1>5

---------------------------------------------------------------------------
(* What a profile describes, up to a rule.                                 *)

Part(d) == [i \in DOMAIN profile.rules |->
  IF Applies(d, i) /\ profile.rules[i].file \in DOMAIN Files
    THEN WrittenIn(Files[profile.rules[i].file]) ELSE <<>>]

LEMMA PartFacts ==
  ASSUME TypeOK, NEW d
  PROVE  /\ Len(profile.rules) \in Nat
         /\ Part(d) \in [1 .. Len(profile.rules) -> Seq(Entries)]
         /\ (\A i \in 1 .. Len(profile.rules) :
               Applies(d, i) => profile.rules[i].file \in DOMAIN Files)
            => Written(d) = FlattenSeq(Part(d))
<1>1. Len(profile.rules) \in Nat /\ DOMAIN profile.rules = 1 .. Len(profile.rules)
  BY TextAssumption DEF TypeOK
<1>2. ASSUME NEW f \in DOMAIN Files PROVE WrittenIn(Files[f]) \in Seq(Entries)
  <2> DEFINE n == Len(Files[f])
             F == BlocksOf(f)
  <2>1. n \in Nat /\ F \in [1 .. n -> Seq(Entries)] /\ WrittenIn(Files[f]) = FlattenSeq(F)
    BY BlocksFacts
  <2> HIDE DEF n, F
  <2>2. FlattenSeq(F) \in Seq(Entries)
    BY <2>1, FlatIsSeq
  <2>3. QED BY <2>1, <2>2
<1>3. Part(d) \in [1 .. Len(profile.rules) -> Seq(Entries)]
  BY <1>1, <1>2, EmptySeq DEF Part
<1>4. ASSUME \A i \in 1 .. Len(profile.rules) :
               Applies(d, i) => profile.rules[i].file \in DOMAIN Files
      PROVE  Written(d) = FlattenSeq(Part(d))
  <2>1. Part(d) = [i \in DOMAIN profile.rules |->
                     IF Applies(d, i) THEN WrittenIn(Files[profile.rules[i].file]) ELSE <<>>]
    BY <1>1, <1>4 DEF Part
  <2>2. QED BY <2>1 DEF Written
<1>5. QED BY <1>1, <1>3, <1>4

\* Whether the rules before a line are fulfilled, from line to line.
LEMMA FulfilledNext ==
  ASSUME TypeOK, NEW d, NEW i \in 1 .. Len(profile.rules)
  PROVE  /\ profile.rules[i].key = "File" => (Fulfilled(d, i + 1) <=> Fulfilled(d, i))
         /\ profile.rules[i].key # "File" =>
              (Fulfilled(d, i + 1) <=> \/ d \in profile.rules[i].devices
                                       \/ /\ Fulfilled(d, i)
                                          /\ profile.rules[i - 1].key # "File")
<1> DEFINE r == profile.rules
           From(j, n) == /\ r[j].key # "File" /\ d \in r[j].devices
                         /\ \A k \in j + 1 .. n - 1, l \in j + 1 .. n - 1 :
                              r[k].key = "File" /\ r[l].key # "File" => l < k
<1>0. Len(r) \in Nat
  BY TextAssumption DEF TypeOK
<1> HIDE DEF r
<1>1. \A n : Fulfilled(d, n) <=> \E j \in 1 .. n - 1 : From(j, n)
  BY DEF Fulfilled, r
<1>2. ASSUME r[i].key = "File", NEW j \in 1 .. i - 1 PROVE From(j, i) <=> From(j, i + 1)
  <2>1. ASSUME From(j, i) PROVE From(j, i + 1)
    <3> SUFFICES ASSUME NEW k \in j + 1 .. i, NEW l \in j + 1 .. i,
                        r[k].key = "File", r[l].key # "File"
                 PROVE  l < k
      BY <2>1
    <3>1. l # i
      BY <1>2
    <3>2. CASE k = i
      BY <3>1, <3>2
    <3>3. CASE k # i
      <4>1. k \in j + 1 .. i - 1 /\ l \in j + 1 .. i - 1
        BY <3>1, <3>3
      <4>2. QED BY <2>1, <4>1
    <3>4. QED BY <3>2, <3>3
  <2>2. ASSUME From(j, i + 1) PROVE From(j, i)
    BY <2>2
  <2>3. QED BY <2>1, <2>2
<1>3. ASSUME r[i].key # "File", NEW j \in 1 .. i - 1
      PROVE  From(j, i + 1) <=> From(j, i) /\ r[i - 1].key # "File"
  <2>1. ASSUME From(j, i + 1) PROVE From(j, i) /\ r[i - 1].key # "File"
    <3>1. From(j, i)
      BY <2>1
    <3>2. CASE j = i - 1
      BY <2>1, <3>2
    <3>3. CASE j # i - 1
      <4>1. i - 1 \in j + 1 .. i /\ i \in j + 1 .. i /\ ~(i < i - 1)
        BY <3>3
      <4>2. QED BY <1>3, <2>1, <3>1, <4>1
    <3>4. QED BY <3>1, <3>2, <3>3
  <2>2. ASSUME From(j, i), r[i - 1].key # "File" PROVE From(j, i + 1)
    <3>1. \A k \in j + 1 .. i - 1 : r[k].key # "File"
      <4> SUFFICES ASSUME NEW k \in j + 1 .. i - 1, r[k].key = "File" PROVE FALSE
        OBVIOUS
      <4>1. i - 1 \in j + 1 .. i - 1
        OBVIOUS
      <4>2. i - 1 < k
        BY <2>2, <4>1
      <4>3. QED BY <4>2
    <3>2. \A k \in j + 1 .. i : r[k].key # "File"
      BY <1>3, <3>1
    <3>3. QED BY <2>2, <3>2
  <2>3. QED BY <2>1, <2>2
<1>4. ASSUME r[i].key # "File" PROVE From(i, i + 1) <=> d \in r[i].devices
  BY <1>4
<1>5. ASSUME r[i].key = "File" PROVE ~From(i, i + 1)
  BY <1>5
<1> HIDE DEF From
<1>6. /\ \A j \in 1 .. (i + 1) - 1 : j = i \/ j \in 1 .. i - 1
      /\ i \in 1 .. (i + 1) - 1 /\ \A j \in 1 .. i - 1 : j \in 1 .. (i + 1) - 1
  OBVIOUS
<1>7. ASSUME r[i].key = "File" PROVE Fulfilled(d, i + 1) <=> Fulfilled(d, i)
  BY <1>1, <1>2, <1>5, <1>6, <1>7
<1>8. ASSUME r[i].key # "File"
      PROVE  Fulfilled(d, i + 1) <=> \/ d \in r[i].devices
                                     \/ Fulfilled(d, i) /\ r[i - 1].key # "File"
  <2>1. ASSUME Fulfilled(d, i + 1), d \notin r[i].devices
        PROVE  Fulfilled(d, i) /\ r[i - 1].key # "File"
    <3>1. PICK j \in 1 .. (i + 1) - 1 : From(j, i + 1)
      BY <1>1, <2>1
    <3>2. j \in 1 .. i - 1
      BY <1>4, <1>6, <1>8, <2>1, <3>1
    <3>3. QED BY <1>1, <1>3, <1>8, <3>1, <3>2
  <2>2. ASSUME d \in r[i].devices PROVE Fulfilled(d, i + 1)
    BY <1>1, <1>4, <1>6, <1>8, <2>2
  <2>3. ASSUME Fulfilled(d, i), r[i - 1].key # "File" PROVE Fulfilled(d, i + 1)
    <3>1. PICK j \in 1 .. i - 1 : From(j, i)
      BY <1>1, <2>3
    <3>2. From(j, i + 1)
      BY <1>3, <1>8, <2>3, <3>1
    <3>3. QED BY <1>1, <1>6, <3>1, <3>2
  <2>4. QED BY <2>1, <2>2, <2>3
<1>9. r = profile.rules
  BY DEF r
<1>10. QED BY <1>7, <1>8, <1>9

---------------------------------------------------------------------------
(* The invariant is inductive.                                            *)

LEMMA InvInit == Init => Inv
<1> SUFFICES ASSUME Init PROVE Inv
  OBVIOUS
<1>1. HP!HandleInv
  <2>1. HP!Init
    BY SameHandles DEF Init
  <2>2. QED BY <2>1, HandlesAssumed, HP!HandleInit
<1>2. H!TypeOK
  BY <1>1, SameHandles DEF HP!HandleInv
<1>3. <<>> \in Seq(Filter) /\ line \in [Device -> Seq(Filter)] /\ DOMAIN made = {}
  BY DEF Init
<1>4. TypeOK
  <2>1. Len(profile.rules) \in Nat
    BY TextAssumption DEF Init
  <2>2. QED BY <1>2, <1>3, <2>1 DEF Init, TypeOK
<1>5. Control /\ Named
  BY <1>3 DEF Init, Control, Named
<1>6. Spread(Places, DOMAIN made)
  <2>1. \A p \in Place : Places[p] = <<>>
    BY DeviceAssumption DEF Places, Place, Init
  <2>2. ToSet(<<>>) = {} /\ IsInjective(<<>>)
    BY DEF ToSet, IsInjective
  <2>3. \A p \in Place : ToSet(Places[p]) = {} /\ IsInjective(Places[p])
    BY <2>1, <2>2
  <2>4. QED BY <1>3, <2>3 DEF Spread
<1>7. QED BY <1>1, <1>4, <1>5, <1>6 DEF Inv

LEMMA InvStep == Inv /\ [Next]_vars => Inv'
<1> SUFFICES ASSUME Inv, [Next]_vars PROVE Inv'
  OBVIOUS
<1>1. TypeOK' /\ HP!HandleInv' /\ Control' /\ Spread(Places, DOMAIN made)' /\ Named'
  BY TypeStep, HandlesKept, ControlStep, SpreadStep, NamedStep
<1>2. QED BY <1>1 DEF Inv

---------------------------------------------------------------------------
(* What has been loaded is what the profile describes, as far as it has    *)
(* been read.                                                              *)

\* For the device that is looked at, up to rule i, or line k of the file of rule i.
ReadTo(d, i, k) ==
  /\ matched # "no" <=> Fulfilled(d, i)
  /\ matched = "loading" => i > 1 /\ profile.rules[i - 1].key = "File"
  /\ matched = "yes" => i > 1 /\ profile.rules[i - 1].key # "File"
  /\ \A j \in 1 .. i - 1 : Applies(d, j) => profile.rules[j].file \in DOMAIN Files
  /\ Of(made, filters) = Flat(Part(d), i - 1)
  /\ phase = "file" => /\ matched # "no"
                       /\ Of(made, fresh) = Flat(BlocksOf(profile.rules[i].file), k - 1)

Reading ==
  phase \in {"profile", "file"} =>
    \A d \in Device, i \in Nat, k \in Nat : d = dev /\ i = pos /\ k = at => ReadTo(d, i, k)

Settled ==
  /\ \A d \in Device : line[d] # <<>> => Of(made, line[d]) = Written(d)
  /\ phase = "idle" /\ dev # Null => \A d \in Device : d = dev =>
       IF err = "ok" THEN Of(made, line[d]) = Written(d) ELSE line[d] = <<>>
  /\ phase = "free" => err # "ok"

LoadInv == Inv /\ Reading /\ Settled

\* The same in the next state, in terms of this one.
LEMMA ReadingNow ==
  ASSUME TypeOK, Reading, phase \in {"profile", "file"}, dev \in Device
  PROVE  ReadTo(dev, pos, at)
<1>1. pos \in Nat /\ at \in Nat
  BY DEF TypeOK
<1>2. QED BY <1>1 DEF Reading

\* The profile stays the same, and so does what it describes.
LEMMA ProfileKept ==
  ASSUME [Next]_vars
  PROVE  /\ profile' = profile /\ LastRule' = LastRule
         /\ \A d, i : (Fulfilled(d, i)' <=> Fulfilled(d, i)) /\ (Applies(d, i)' <=> Applies(d, i))
         /\ \A d : Part(d)' = Part(d) /\ Written(d)' = Written(d)
<1>1. profile' = profile
  BY DEF Next, Load, TestRule, SkipFile, OpenFile, OpenFileFails, ProfileEnds, FileEnds,
     LoadFilter, LoadFilterFails, CreateFails, FreeFilter, FreeEnds, Fail, Begin, Destroy, vars
<1>2. LastRule' = LastRule
  BY <1>1 DEF LastRule
<1>3. \A d, i : Fulfilled(d, i)' <=> Fulfilled(d, i)
  BY <1>1 DEF Fulfilled
<1>4. \A d, i : Applies(d, i)' <=> Applies(d, i)
  BY <1>1, <1>2, <1>3 DEF Applies
<1>5. \A d : Part(d)' = Part(d) /\ Written(d)' = Written(d)
  BY <1>1, <1>4 DEF Part, Written
<1>6. QED BY <1>1, <1>2, <1>3, <1>4, <1>5

LEMMA ReadingNext ==
  ASSUME [Next]_vars,
         phase' \in {"profile", "file"} /\ dev' \in Device =>
           /\ matched' # "no" <=> Fulfilled(dev', pos')
           /\ matched' = "loading" => pos' > 1 /\ profile.rules[pos' - 1].key = "File"
           /\ matched' = "yes" => pos' > 1 /\ profile.rules[pos' - 1].key # "File"
           /\ \A j \in 1 .. pos' - 1 : Applies(dev', j) => profile.rules[j].file \in DOMAIN Files
           /\ Of(made', filters') = Flat(Part(dev'), pos' - 1)
           /\ phase' = "file" =>
                /\ matched' # "no"
                /\ Of(made', fresh') = Flat(BlocksOf(profile.rules[pos'].file), at' - 1)
  PROVE  Reading'
<1> SUFFICES ASSUME phase' \in {"profile", "file"},
                    NEW d \in Device, NEW i \in Nat, NEW k \in Nat, d = dev', i = pos', k = at'
             PROVE  ReadTo(d, i, k)'
  BY DEF Reading
<1>1. /\ matched' # "no" <=> Fulfilled(d, i)'
      /\ matched' = "loading" => i > 1 /\ profile'.rules[i - 1].key = "File"
      /\ matched' = "yes" => i > 1 /\ profile'.rules[i - 1].key # "File"
      /\ \A j \in 1 .. i - 1 : Applies(d, j)' => profile'.rules[j].file \in DOMAIN Files
      /\ Of(made', filters') = Flat(Part(d)', i - 1)
      /\ phase' = "file" =>
           /\ matched' # "no"
           /\ Of(made', fresh') = Flat(BlocksOf(profile'.rules[i].file), k - 1)
  BY ProfileKept
<1>2. QED BY <1>1 DEF ReadTo

\* One more rule that is not a file to load.
LEMMA NoPart ==
  ASSUME LoadInv, [Next]_vars, phase = "profile", phase' = "profile",
         pos <= LastRule, pos' = pos + 1, UNCHANGED <<dev, made, filters>>,
         ~Applies(dev, pos),
         matched' # "no" <=> Fulfilled(dev, pos + 1),
         matched' = "loading" => Rule.key = "File",
         matched' = "yes" => Rule.key # "File"
  PROVE  Reading'
<1>0. TypeOK /\ dev \in Device /\ pos \in 1 .. Len(profile.rules) /\ Len(profile.rules) \in Nat
  <2>1. TypeOK /\ Control
    BY DEF LoadInv, Inv
  <2>2. pos \in 1 .. Len(profile.rules) + 1
    BY <2>1 DEF TypeOK
  <2>3. QED BY <2>1, <2>2, RuleFacts DEF Control
<1>1. /\ \A i \in 1 .. pos - 1 : Applies(dev, i) => profile.rules[i].file \in DOMAIN Files
      /\ Of(made, filters) = Flat(Part(dev), pos - 1)
  <2>1. ReadTo(dev, pos, at)
    BY <1>0, ReadingNow DEF LoadInv
  <2>2. QED BY <2>1 DEF ReadTo
<1>2. Flat(Part(dev), pos) = Flat(Part(dev), pos - 1)
  <2> DEFINE n == Len(profile.rules)
             F == Part(dev)
             p == pos - 1
  <2>1. F \in [1 .. n -> Seq(Entries)] /\ n \in Nat
    BY <1>0, PartFacts
  <2>2. p \in 0 .. n /\ pos \in p .. n
    BY <1>0
  <2>3. Blank(F, p, pos)
    BY <1>0, TextAssumption DEF Part, TypeOK, Blank
  <2> HIDE DEF n, F, p
  <2>4. Flat(F, pos) = Flat(F, p)
    BY <2>1, <2>2, <2>3, FlatSkips
  <2>5. QED BY <2>4 DEF F, p
<1>3. \A i \in 1 .. pos : Applies(dev, i) => profile.rules[i].file \in DOMAIN Files
  <2>1. \A i \in 1 .. pos : i = pos \/ i \in 1 .. pos - 1
    BY <1>0
  <2>2. QED BY <1>1, <2>1
<1>4. pos' - 1 = pos /\ pos' > 1 /\ phase' # "file"
  BY <1>0
<1>5. /\ matched' # "no" <=> Fulfilled(dev', pos')
      /\ matched' = "loading" => pos' > 1 /\ profile.rules[pos' - 1].key = "File"
      /\ matched' = "yes" => pos' > 1 /\ profile.rules[pos' - 1].key # "File"
      /\ \A j \in 1 .. pos' - 1 : Applies(dev', j) => profile.rules[j].file \in DOMAIN Files
      /\ Of(made', filters') = Flat(Part(dev'), pos' - 1)
  BY <1>1, <1>2, <1>3, <1>4 DEF Rule
<1>6. QED BY <1>4, <1>5, ReadingNext

LEMMA ReadingStep ==
  ASSUME LoadInv, [Next]_vars
  PROVE  Reading'
<1>0. /\ Inv /\ TypeOK /\ Control
      /\ Len(profile.rules) \in Nat /\ LastRule \in Int /\ LastRule <= Len(profile.rules)
      /\ pos \in 1 .. Len(profile.rules) + 1
      /\ phase \in {"profile", "file"} => dev \in Device /\ ReadTo(dev, pos, at)
  <2>1. Inv /\ TypeOK /\ Control /\ Reading
    BY DEF LoadInv, Inv
  <2>2. phase \in {"profile", "file"} => dev \in Device
    BY <2>1 DEF Control
  <2>3. pos \in 1 .. Len(profile.rules) + 1
    BY <2>1 DEF TypeOK
  <2>4. QED BY <2>1, <2>2, <2>3, RuleFacts, ReadingNow
<1>1. CASE TestRule
  <2>1. pos \in 1 .. Len(profile.rules) /\ dev \in Device /\ phase = "profile" /\ Rule.key # "File"
    BY <1>0, <1>1 DEF TestRule
  <2>2. ~Applies(dev, pos)
    BY <2>1 DEF Applies, Rule
  <2>3. /\ matched # "no" <=> Fulfilled(dev, pos)
        /\ matched = "loading" => profile.rules[pos - 1].key = "File"
        /\ matched = "yes" => profile.rules[pos - 1].key # "File"
    BY <1>0, <2>1 DEF ReadTo
  <2>4. Fulfilled(dev, pos + 1) <=> \/ dev \in Rule.devices
                                    \/ Fulfilled(dev, pos) /\ profile.rules[pos - 1].key # "File"
    BY <1>0, <2>1, FulfilledNext DEF Rule
  <2>5. matched' = IF dev \in Rule.devices THEN "yes"
                   ELSE IF matched = "loading" THEN "no" ELSE matched
    BY <1>1 DEF TestRule, Matched
  <2>6. matched' # "no" <=> Fulfilled(dev, pos + 1)
    BY <1>0, <2>3, <2>4, <2>5 DEF TypeOK
  <2>7. matched' # "loading"
    BY <2>5
  <2>8. QED BY <1>1, <2>1, <2>2, <2>6, <2>7, NoPart DEF TestRule
<1>2. CASE SkipFile
  <2>1. /\ pos \in 1 .. Len(profile.rules) /\ dev \in Device /\ phase = "profile"
        /\ Rule.key = "File" /\ matched = "no" /\ matched' = "no"
    BY <1>0, <1>2 DEF SkipFile
  <2>2. ~Fulfilled(dev, pos)
    BY <1>0, <2>1 DEF ReadTo
  <2>3. ~Fulfilled(dev, pos + 1) /\ ~Applies(dev, pos)
    BY <1>0, <2>1, <2>2, FulfilledNext DEF Rule, Applies
  <2>4. QED BY <1>2, <2>1, <2>3, NoPart DEF SkipFile
<1>3. CASE OpenFile
  <2>1. /\ phase = "profile" /\ phase' = "file" /\ at' = 1
        /\ matched # "no" /\ Rule.file \in DOMAIN Files
        /\ UNCHANGED <<dev, pos, matched, filters, fresh, made>> /\ fresh = <<>>
    BY <1>0, <1>3 DEF OpenFile, Control
  <2>2. Of(made', fresh') = <<>>
    BY <2>1, OfEmpty
  <2>3. Flat(BlocksOf(profile.rules[pos].file), 0) = <<>>
    <3> DEFINE f == Rule.file
               n == Len(Files[f])
               F == BlocksOf(f)
    <3>1. n \in Nat /\ F \in [1 .. n -> Seq(Entries)]
      BY <2>1, BlocksFacts
    <3> HIDE DEF n, F
    <3>2. Flat(F, 0) = <<>>
      BY <3>1, FlatFacts
    <3>3. QED BY <3>2 DEF F, Rule
  <2>4. ReadTo(dev, pos, at)
    BY <1>0, <2>1
  <2>5. at' - 1 = 0 /\ pos' = pos /\ dev' = dev
    BY <2>1
  <2>6. /\ matched' # "no" <=> Fulfilled(dev', pos')
        /\ matched' = "loading" => pos' > 1 /\ profile.rules[pos' - 1].key = "File"
        /\ matched' = "yes" => pos' > 1 /\ profile.rules[pos' - 1].key # "File"
        /\ \A j \in 1 .. pos' - 1 : Applies(dev', j) => profile.rules[j].file \in DOMAIN Files
        /\ Of(made', filters') = Flat(Part(dev'), pos' - 1)
    BY <2>1, <2>4, <2>5 DEF ReadTo
  <2>7. QED BY <2>1, <2>2, <2>3, <2>5, <2>6, ReadingNext
<1>4. CASE FileEnds
  <2> DEFINE n == Len(profile.rules)
             P == Part(dev)
             f == Rule.file
             L == Len(Files[f])
             B == BlocksOf(f)
             p == at - 1
  <2>1. /\ phase = "file" /\ Here.is = "end" /\ filters' = filters \o fresh /\ matched' = "loading"
        /\ phase' = "profile" /\ pos' = pos + 1 /\ UNCHANGED <<made, dev>>
        /\ dev \in Device /\ pos <= LastRule /\ pos \in 1 .. n /\ Rule.key = "File"
        /\ f \in DOMAIN Files /\ at \in Lines(f)
    BY <1>0, <1>4 DEF FileEnds, Control, Merged
  <2>2. /\ matched # "no" /\ Fulfilled(dev, pos)
        /\ \A i \in 1 .. pos - 1 : Applies(dev, i) => profile.rules[i].file \in DOMAIN Files
        /\ Of(made, filters) = Flat(P, pos - 1) /\ Of(made, fresh) = Flat(B, p)
    BY <1>0, <2>1 DEF ReadTo, Rule
  <2>3. Fulfilled(dev, pos + 1) /\ Applies(dev, pos)
    BY <1>0, <2>1, <2>2, FulfilledNext DEF Rule, Applies
  <2>4. Flat(B, p) = WrittenIn(Files[f])
    <3>1. L \in Nat /\ B \in [1 .. L -> Seq(Entries)] /\ WrittenIn(Files[f]) = FlattenSeq(B)
      BY <2>1, BlocksFacts
    <3>2. \A k \in at .. L : B[k] = <<>>
      BY <2>1, TurnBlocks DEF Here, Rule
    <3>3. p \in 0 .. L /\ L \in p .. L /\ p + 1 = at
      BY <2>1, <3>1 DEF Lines
    <3> HIDE DEF B, L, p
    <3>4. Blank(B, p, L)
      BY <3>2, <3>3 DEF Blank
    <3>5. Flat(B, L) = Flat(B, p)
      BY <3>1, <3>3, <3>4, FlatSkips
    <3>6. Flat(B, L) = FlattenSeq(B)
      BY <3>1, FlatFacts
    <3>7. QED BY <3>1, <3>5, <3>6
  <2>5. Flat(P, pos) = Flat(P, pos - 1) \o WrittenIn(Files[f])
    <3>1. P \in [1 .. n -> Seq(Entries)] /\ n \in Nat
      BY <1>0, PartFacts
    <3>2. P[pos] = WrittenIn(Files[f])
      BY <1>0, <2>1, <2>3, TextAssumption DEF Part, Rule, TypeOK
    <3> HIDE DEF P, n
    <3>3. Flat(P, pos) = Flat(P, pos - 1) \o P[pos]
      BY <2>1, <3>1, FlatFacts
    <3>4. QED BY <3>2, <3>3
  <2>6. Of(made, filters \o fresh) = Of(made, filters) \o Of(made, fresh)
    BY <1>0, OfConcat DEF TypeOK
  <2>7. Of(made', filters') = Flat(P, pos)
    BY <2>1, <2>2, <2>4, <2>5, <2>6
  <2>8. \A i \in 1 .. pos : Applies(dev, i) => profile.rules[i].file \in DOMAIN Files
    <3>1. \A i \in 1 .. pos : i = pos \/ i \in 1 .. pos - 1
      BY <2>1
    <3>2. profile.rules[pos].file \in DOMAIN Files
      BY <2>1 DEF Rule
    <3>3. QED BY <2>2, <3>1, <3>2
  <2>9. pos' - 1 = pos /\ pos' > 1 /\ phase' # "file" /\ profile.rules[pos].key = "File"
    BY <1>0, <2>1 DEF Rule
  <2> HIDE DEF P
  <2>10. /\ matched' # "no" <=> Fulfilled(dev', pos')
         /\ matched' = "loading" => pos' > 1 /\ profile.rules[pos' - 1].key = "File"
         /\ matched' = "yes" => pos' > 1 /\ profile.rules[pos' - 1].key # "File"
         /\ \A j \in 1 .. pos' - 1 : Applies(dev', j) => profile.rules[j].file \in DOMAIN Files
         /\ Of(made', filters') = Flat(Part(dev'), pos' - 1)
    BY <2>1, <2>3, <2>7, <2>8, <2>9 DEF P
  <2>11. QED BY <2>9, <2>10, ReadingNext
<1>5. CASE LoadFilter
  <2> DEFINE f == Rule.file
             L == Len(Files[f])
             B == BlocksOf(f)
             t == Here
  <2>0. /\ phase = "file" /\ phase' = "file" /\ t.is = "filter" /\ at' = t.rest
        /\ UNCHANGED <<dev, pos, matched, filters>>
    BY <1>5 DEF LoadFilter
  <2>1. dev \in Device /\ f \in DOMAIN Files /\ at \in Lines(f) /\ t = Turns[f][at]
    <3>1. t = Turns[f][at]
      BY DEF Here, Rule
    <3> HIDE DEF t
    <3>2. QED BY <1>0, <2>0, <3>1 DEF Control
  <2>2. PICK i \in Filter \ DOMAIN made :
          /\ made' = [j \in DOMAIN made \cup {i} |->
                        IF j = i THEN <<t.filter, t.values>> ELSE made[j]]
          /\ fresh' = Append(fresh, i)
    BY <1>0, <1>5, Loaded
  <2>3. made'[i] = <<t.filter, t.values>>
    BY <2>2
  <2>4. Of(made', fresh) = Of(made, fresh) /\ Of(made', filters) = Of(made, filters)
    BY <1>0, ListsKept
  <2>5. Of(made, fresh) = Flat(B, at - 1) /\ ReadTo(dev, pos, at)
    <3>1. ReadTo(dev, pos, at)
      BY <1>0, <2>0
    <3>2. QED BY <2>0, <3>1 DEF ReadTo, Rule
  <2>6. Of(made', fresh') = Of(made', fresh) \o <<made'[i]>>
    BY <1>0, <2>2, OfAppend DEF TypeOK
  <2>7. Flat(B, t.rest - 1) = Flat(B, at - 1) \o <<<<t.filter, t.values>>>>
    <3>1. t.rest \in Lines(f) /\ \E q \in at .. t.rest - 1 :
             /\ B[q] = <<<<t.filter, t.values>>>>
             /\ \A k \in at .. t.rest - 1 : k # q => B[k] = <<>>
      <4>1. t.is = "filter" /\ t = Turns[f][at]
        BY <2>0, <2>1
      <4>2. f \in DOMAIN Files /\ at \in Lines(f)
        BY <2>1
      <4> HIDE DEF t, f
      <4>3. Reads(f, at, t)
        BY <4>1, <4>2, TurnBlocks
      <4>4. QED BY <4>3 DEF Reads
    <3>2. L \in Nat /\ B \in [1 .. L -> Seq(Entries)]
      BY <2>1, BlocksFacts
    <3> DEFINE r == t.rest
               e == <<<<t.filter, t.values>>>>
               p == at - 1
               m == r - 1
    <3>3. PICK q \in at .. m : B[q] = e /\ \A k \in at .. m : k # q => B[k] = <<>>
      BY <3>1
    <3> DEFINE q0 == q - 1
    <3>4. r \in 1 .. L + 1 /\ at \in 1 .. L + 1
      BY <2>1, <3>1 DEF Lines
    <3> HIDE DEF r, e, t, B, L
    <3>5. q \in 1 .. L /\ q \in 0 .. L /\ q0 \in 0 .. L /\ p + 1 = at /\ q0 + 1 = q
      BY <3>2, <3>3, <3>4
    <3>6. p \in 0 .. L /\ q0 \in p .. L
      BY <3>2, <3>3, <3>4
    <3>7. q \in 0 .. L /\ m \in q .. L
      BY <3>2, <3>3, <3>4
    <3>8. Blank(B, p, q0)
      BY <3>2, <3>3, <3>4 DEF Blank
    <3>9. Blank(B, q, m)
      BY <3>2, <3>3, <3>4 DEF Blank
    <3> HIDE DEF p, q0, m
    <3>10. Flat(B, q0) = Flat(B, p)
      BY <3>2, <3>6, <3>8, FlatSkips
    <3>11. Flat(B, m) = Flat(B, q)
      BY <3>2, <3>7, <3>9, FlatSkips
    <3>12. Flat(B, q) = Flat(B, q - 1) \o B[q]
      BY <3>2, <3>5, FlatFacts
    <3>13. QED BY <3>3, <3>10, <3>11, <3>12 DEF p, q0, m, r, e
  <2>8. Of(made', fresh') = Flat(BlocksOf(profile.rules[pos'].file), at' - 1)
    <3>1. Of(made', fresh') = Flat(B, t.rest - 1)
      BY <2>3, <2>4, <2>5, <2>6, <2>7
    <3> HIDE DEF t
    <3>2. QED BY <2>0, <3>1 DEF Rule
  <2> HIDE DEF t
  <2>9. /\ matched' # "no" <=> Fulfilled(dev', pos')
        /\ matched' = "loading" => pos' > 1 /\ profile.rules[pos' - 1].key = "File"
        /\ matched' = "yes" => pos' > 1 /\ profile.rules[pos' - 1].key # "File"
        /\ \A j \in 1 .. pos' - 1 : Applies(dev', j) => profile.rules[j].file \in DOMAIN Files
        /\ Of(made', filters') = Flat(Part(dev'), pos' - 1)
        /\ matched' # "no"
    BY <2>1, <2>0, <2>4, <2>5 DEF ReadTo
  <2>10. QED BY <2>8, <2>9, ReadingNext
<1>6. ASSUME NEW d \in Device, Begin(d) PROVE Reading'
  <2>1. phase' = "profile" => /\ dev' = d /\ pos' = 1 /\ matched' = "no" /\ filters' = <<>>
    BY <1>0, <1>6 DEF Begin, Control
  <2>2. phase' # "file"
    BY <1>6 DEF Begin
  <2>3. ~Fulfilled(d, 1)
    BY DEF Fulfilled
  <2>4. Flat(Part(d), 0) = <<>>
    <3> DEFINE n == Len(profile.rules)
               F == Part(d)
    <3>1. F \in [1 .. n -> Seq(Entries)] /\ n \in Nat
      BY <1>0, PartFacts
    <3> HIDE DEF F, n
    <3>2. Flat(F, 0) = <<>>
      BY <3>1, FlatFacts
    <3>3. QED BY <3>2 DEF F
  <2>5. Of(made', <<>>) = <<>>
    BY OfEmpty
  <2>6. ASSUME phase' = "profile"
        PROVE  /\ matched' # "no" <=> Fulfilled(dev', pos')
               /\ matched' = "loading" => pos' > 1 /\ profile.rules[pos' - 1].key = "File"
               /\ matched' = "yes" => pos' > 1 /\ profile.rules[pos' - 1].key # "File"
               /\ \A j \in 1 .. pos' - 1 :
                    Applies(dev', j) => profile.rules[j].file \in DOMAIN Files
               /\ Of(made', filters') = Flat(Part(dev'), pos' - 1)
    <3>1. dev' = d /\ pos' = 1 /\ matched' = "no" /\ filters' = <<>> /\ pos' - 1 = 0
      BY <2>1, <2>6
    <3>2. QED BY <2>3, <2>4, <2>5, <3>1
  <2>7. QED BY <2>2, <2>6, ReadingNext
<1>7. CASE UNCHANGED vars
  <2>1. UNCHANGED <<phase, dev, pos, matched, filters, fresh, at, made>>
    BY <1>7 DEF vars, loadVars
  <2>2. phase' \in {"profile", "file"} =>
        /\ matched' # "no" <=> Fulfilled(dev', pos')
        /\ matched' = "loading" => pos' > 1 /\ profile.rules[pos' - 1].key = "File"
        /\ matched' = "yes" => pos' > 1 /\ profile.rules[pos' - 1].key # "File"
        /\ \A j \in 1 .. pos' - 1 : Applies(dev', j) => profile.rules[j].file \in DOMAIN Files
        /\ Of(made', filters') = Flat(Part(dev'), pos' - 1)
        /\ phase' = "file" =>
             /\ matched' # "no"
             /\ Of(made', fresh') = Flat(BlocksOf(profile.rules[pos'].file), at' - 1)
    BY <1>0, <2>1 DEF ReadTo
  <2>3. QED BY <2>2, ReadingNext
<1>8. CASE OpenFileFails \/ LoadFilterFails \/ CreateFails \/ ProfileEnds \/ FreeFilter \/ FreeEnds
           \/ \E d \in Device : Destroy(d)
  <2>1. phase' \notin {"profile", "file"}
    BY <1>8 DEF OpenFileFails, LoadFilterFails, CreateFails, Fail, ProfileEnds, FreeFilter,
       FreeEnds, Destroy
  <2>2. QED BY <2>1 DEF Reading
<1>9. QED BY <1>1, <1>2, <1>3, <1>4, <1>5, <1>6, <1>7, <1>8 DEF Next, Load

\* A line that stays the same is still as written.
LEMMA LineKept ==
  ASSUME LoadInv, [Next]_vars, NEW d \in Device, line'[d] = line[d], line[d] # <<>>
  PROVE  Of(made', line'[d]) = Written(d)'
<1>1. Of(made, line[d]) = Written(d)
  BY DEF LoadInv, Settled
<1>2. Of(made', line[d]) = Of(made, line[d])
  BY ListsKept DEF LoadInv
<1>3. QED BY <1>1, <1>2, ProfileKept

LEMMA SettledStep ==
  ASSUME LoadInv, [Next]_vars
  PROVE  Settled'
<1>0. /\ Inv /\ TypeOK /\ Control /\ Reading /\ Settled /\ line \in [Device -> Seq(Filter)]
      /\ Len(profile.rules) \in Nat /\ LastRule \in Int /\ LastRule <= Len(profile.rules)
      /\ profile.newline \in BOOLEAN /\ LastRule >= Len(profile.rules) - 1
  <2>1. Inv /\ TypeOK /\ Control /\ Reading /\ Settled
    BY DEF LoadInv, Inv
  <2>2. line \in [Device -> Seq(Filter)] /\ Len(profile.rules) \in Nat
    BY <2>1, RuleFacts DEF TypeOK
  <2>3. QED BY <2>1, <2>2, TextAssumption DEF LastRule, TypeOK
<1> DEFINE Lined == \A d \in Device : line'[d] # <<>> => Of(made', line'[d]) = Written(d)'
           Ended == phase' = "idle" /\ dev' # Null => \A d \in Device : d = dev' =>
                      IF err' = "ok" THEN Of(made', line'[d]) = Written(d)' ELSE line'[d] = <<>>
<1>1. Lined /\ Ended /\ (phase' = "free" => err' # "ok") => Settled'
  BY DEF Settled
<1>2. ASSUME line' = line PROVE Lined
  BY <1>2, LineKept
<1>3. CASE ProfileEnds
  <2>1. /\ phase = "profile" /\ pos > LastRule /\ dev \in Device /\ UNCHANGED <<made, dev>>
        /\ pos \in 1 .. Len(profile.rules) + 1
        /\ \/ err' = "ok" /\ phase' = "idle" /\ line' = [line EXCEPT ![dev] = filters]
           \/ err' = "errno" /\ phase' = "free" /\ line' = line
    BY <1>0, <1>3 DEF ProfileEnds, Control, TypeOK
  <2>2. CASE err' = "errno" /\ phase' = "free" /\ line' = line
    BY <1>1, <1>2, <2>2
  <2>3. CASE err' = "ok" /\ phase' = "idle" /\ line' = [line EXCEPT ![dev] = filters]
    <3> DEFINE n == Len(profile.rules)
               F == Part(dev)
               p == pos - 1
    <3>1. /\ \A i \in 1 .. p : Applies(dev, i) => profile.rules[i].file \in DOMAIN Files
          /\ Of(made, filters) = Flat(F, p)
      <4>1. ReadTo(dev, pos, at)
        BY <1>0, <2>1, ReadingNow
      <4>2. QED BY <4>1 DEF ReadTo
    <3>2. \A i \in p + 1 .. n : ~Applies(dev, i)
      BY <1>0, <2>1 DEF Applies
    <3>3. \A i \in 1 .. n : i \in 1 .. p \/ i \in p + 1 .. n
      BY <1>0, <2>1
    <3>4. \A i \in 1 .. n : Applies(dev, i) => profile.rules[i].file \in DOMAIN Files
      BY <3>1, <3>2, <3>3
    <3>5. n \in Nat /\ F \in [1 .. n -> Seq(Entries)] /\ Written(dev) = FlattenSeq(F)
      BY <1>0, <3>4, PartFacts
    <3>6. Blank(F, p, n)
      <4>1. \A i \in p + 1 .. n : i \in DOMAIN profile.rules
        BY <1>0, <2>1, TextAssumption DEF TypeOK
      <4>2. QED BY <3>2, <4>1 DEF Part, Blank
    <3>7. p \in 0 .. n /\ n \in p .. n
      BY <1>0, <2>1
    <3> HIDE DEF n, F, p
    <3>8. Flat(F, n) = Flat(F, p)
      BY <3>5, <3>6, <3>7, FlatSkips
    <3>9. Flat(F, n) = FlattenSeq(F)
      BY <3>5, FlatFacts
    <3>10. Of(made', line'[dev]) = Written(dev)
      BY <1>0, <2>1, <2>3, <3>1, <3>5, <3>8, <3>9
    <3>11. \A d \in Device : d # dev => line'[d] = line[d]
      BY <1>0, <2>3
    <3>12. Lined
      BY <2>1, <3>10, <3>11, LineKept, ProfileKept
    <3>13. Ended
      BY <2>1, <3>10, ProfileKept
    <3> HIDE DEF Lined, Ended
    <3>14. QED BY <1>1, <2>3, <3>12, <3>13
  <2>4. QED BY <2>1, <2>2, <2>3
<1>4. CASE OpenFileFails \/ LoadFilterFails \/ CreateFails
  <2>1. PICK e : Fail(e) /\ e # "ok"
    <3>1. ASSUME LoadFilterFails PROVE Here.error # "ok"
      <4>1. Rule.file \in DOMAIN Files /\ at \in Lines(Rule.file)
            /\ Here = Turns[Rule.file][at] /\ Here.is = "error"
        BY <1>0, <3>1 DEF LoadFilterFails, Control, Rule, Here
      <4>2. Here.error \in ParameterError \cup {"errno"}
        BY <4>1, TurnFacts
      <4>3. QED BY <4>2 DEF ParameterError
    <3>2. QED BY <1>4, <3>1 DEF OpenFileFails, LoadFilterFails, CreateFails
  <2>2. line' = line /\ phase' = "free" /\ err' # "ok"
    BY <2>1 DEF Fail
  <2>3. QED BY <1>1, <1>2, <2>2
<1>5. CASE TestRule \/ SkipFile \/ OpenFile \/ FileEnds \/ LoadFilter
  <2>1. line' = line /\ phase' \in {"profile", "file"}
    BY <1>5 DEF TestRule, SkipFile, OpenFile, FileEnds, LoadFilter
  <2>2. QED BY <1>1, <1>2, <2>1
<1>6. CASE FreeFilter
  <2>1. line' = line /\ phase' = "free" /\ err' = err /\ phase = "free"
    BY <1>6 DEF FreeFilter
  <2>2. err # "ok"
    BY <1>0, <2>1 DEF Settled
  <2>3. QED BY <1>1, <1>2, <2>1, <2>2
<1>7. CASE FreeEnds
  <2>1. line' = line /\ phase' = "idle" /\ err' = err /\ phase = "free" /\ dev' = dev
    BY <1>7 DEF FreeEnds, loadVars
  <2>2. err # "ok" /\ line[dev] = <<>>
    BY <1>0, <2>1 DEF Settled, Control
  <2>3. QED BY <1>1, <1>2, <2>1, <2>2
<1>8. ASSUME NEW d \in Device, Begin(d) PROVE Settled'
  <2>1. line' = line /\ dev' = d /\ line[d] = <<>> /\ phase' # "free"
        /\ (phase' = "idle" => err' = "errno")
    BY <1>8 DEF Begin
  <2>2. QED BY <1>1, <1>2, <2>1
<1>9. ASSUME NEW d \in Device, Destroy(d) PROVE Settled'
  <2>1. line' = [line EXCEPT ![d] = <<>>] /\ phase' = "free" /\ err' = "gone"
    BY <1>9 DEF Destroy
  <2>2. line'[d] = <<>> /\ \A c \in Device : c # d => line'[c] = line[c]
    BY <1>0, <2>1
  <2>3. Lined
    BY <2>2, LineKept
  <2>4. QED BY <1>1, <2>1, <2>3
<1>10. CASE UNCHANGED vars
  <2>1. UNCHANGED <<line, made, phase, err, dev>>
    BY <1>10 DEF vars, loadVars
  <2>2. Ended
    BY <1>0, <2>1, ProfileKept DEF Settled
  <2>3. phase' = "free" => err' # "ok"
    BY <1>0, <2>1 DEF Settled
  <2>4. QED BY <1>1, <1>2, <2>1, <2>2, <2>3
<1>11. QED BY <1>3, <1>4, <1>5, <1>6, <1>7, <1>8, <1>9, <1>10 DEF Next, Load

LEMMA LoadInit == Init => LoadInv
<1> SUFFICES ASSUME Init PROVE LoadInv
  OBVIOUS
<1>1. phase = "idle" /\ dev = Null /\ \A d \in Device : line[d] = <<>>
  BY DEF Init
<1>2. Reading /\ Settled
  BY <1>1 DEF Reading, Settled
<1>3. QED BY <1>2, InvInit DEF LoadInv

---------------------------------------------------------------------------
(* The theorems.                                                           *)

\* The inductive invariant holds in every state of a load, a line and the freeing
\* of filters (evf_load_profile, evf_load_filters, evf_filters_free).
THEOREM ProfileInvariant == Spec => []Inv
<1>1. QED BY InvInit, InvStep, PTL DEF Spec

\* All variables stay in their sets, whatever the profile and the filter files
\* say: an error is one of those evf_param.c reports, and reading never leaves a
\* text (evf_load_profile, evf_load_filters).
THEOREM TypeCorrect == Spec => []TypeOK
<1>1. Inv => TypeOK
  BY DEF Inv
<1>2. QED BY <1>1, ProfileInvariant, PTL

\* No filter is lost by a load that fails (evf_load_profile, evf_load_filters),
\* and none is freed twice or while a line still has it (evf_line_destroy).
THEOREM EachInOnePlace == Spec => []Owned
<1>1. Inv => Owned
  BY DEF Inv, Owned, Spread
<1>2. QED BY <1>1, ProfileInvariant, PTL

\* A load asks evf_handle.c for nothing but what Handles describes, so that its
\* theorems hold for the filters that profiles load.
THEOREM LoadsImplementHandles == Spec => H!Spec
<1>1. Init => H!Init
  BY DEF Init
<1>2. Inv /\ [Next]_vars => [H!Next]_(H!vars)
  <2> SUFFICES ASSUME Inv, [Next]_vars PROVE [H!Next]_(H!vars)
    OBVIOUS
  <2>1. HP!Next \/ UNCHANGED HP!vars
    BY UsesHandles
  <2>2. CASE HP!Next
    BY <2>2, SameHandles
  <2>3. CASE UNCHANGED HP!vars
    BY <2>3 DEF HP!vars, H!vars
  <2>4. QED BY <2>1, <2>2, <2>3
<1>3. QED BY <1>1, <1>2, ProfileInvariant, PTL DEF Spec, H!Spec

\* Lines of different devices that name the same handle are joined by it,
\* whatever was loaded, failed or was destroyed before (evf_handle.h: "we do not
\* depend on order of handle create/attach calls").
THEOREM LinesAreJoined == Spec => []Joined
<1>1. Inv => Joined
  <2> SUFFICES ASSUME Inv, H!Allocated \subseteq ToSet(handles),
                      NEW d \in Device, NEW e \in Device, NEW r \in Receiver \cap ToSet(line[d])
               PROVE  /\ \E m \in ToSet(handles) : heap[m].filter = r
                      /\ \A s \in Sender \cap ToSet(line[e]) :
                           made[s][2][1] = made[r][2][1] => heap[dest[s]].filter = r
    BY DEF Joined
  <2>0. HP!TypeOK /\ HP!SendersCounted /\ HP!Sound /\ HP!Attached /\ Named
    BY DEF Inv, HP!HandleInv
  <2>1. HP!Allocated \subseteq HP!Listed /\ HP!Listed = ToSet(handles)
    BY DEF H!Allocated, HP!Allocated, HP!Listed, HP!ToSet, ToSet
  <2>2. \A c \in Device : ToSet(line[c]) \subseteq DOMAIN made
    <3>1. \A c \in Device : c \in Place /\ Places[c] = line[c]
      BY DeviceAssumption DEF Places, Place
    <3>2. QED BY <3>1 DEF Inv, Spread
  <2>3. source[r] # Null /\ source[r] = made[r][2][1]
    BY <2>0, <2>2 DEF Named
  <2>4. PICK m \in HP!Listed : heap[m].name = source[r] /\ heap[m].filter = r
    BY <2>0, <2>1, <2>3 DEF HP!Attached
  <2>5. ASSUME NEW s \in Sender \cap ToSet(line[e]), made[s][2][1] = made[r][2][1]
        PROVE  heap[dest[s]].filter = r
    <3>1. dest[s] # Null /\ heap[dest[s]].name = source[r]
      BY <2>0, <2>2, <2>3, <2>5 DEF Named
    <3>2. dest[s] \in HP!Allocated
      BY <2>0, <3>1 DEF HP!TypeOK, HP!SendersCounted, HP!SendersOf
    <3>3. dest[s] \in HP!Listed
      BY <2>1, <3>2
    <3>4. m = dest[s]
      BY <2>0, <2>4, <3>1, <3>3 DEF HP!Sound, HP!NamesApart
    <3>5. QED BY <2>4, <3>4
  <2>6. QED BY <2>1, <2>4, <2>5
<1>2. QED BY <1>1, ProfileInvariant, PTL

LEMMA LoadStep == LoadInv /\ [Next]_vars => LoadInv'
<1> SUFFICES ASSUME LoadInv, [Next]_vars PROVE LoadInv'
  OBVIOUS
<1>1. Inv'
  BY InvStep DEF LoadInv
<1>2. QED BY <1>1, ReadingStep, SettledStep DEF LoadInv

\* A load that says it went well has given the device the filters that its
\* profile and the filter files describe, with their parameters and in their
\* order, and nothing changes them as long as the line exists; a load that failed
\* has given it none (evf_load_profile, evf_load_filters, evf_line_create).
THEOREM LoadsAreAsWritten == Spec => []LoadedAsWritten
<1>1. LoadInv => LoadedAsWritten
  <2> SUFFICES ASSUME LoadInv PROVE LoadedAsWritten
    OBVIOUS
  <2>1. dev \in Device \cup {Null}
    BY DEF LoadInv, Inv, TypeOK
  <2>2. QED BY <2>1 DEF LoadInv, Settled, LoadedAsWritten, MadeOf, Of
<1>2. QED BY <1>1, LoadInit, LoadStep, PTL DEF Spec
=============================================================================
