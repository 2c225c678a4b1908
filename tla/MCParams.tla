------------------------------ MODULE MCParams ------------------------------
(* An instance of Params with the real table of keys and sections for every *)
(* filter, right and wrong in each way the code distinguishes.              *)
EXTENDS Params

---------------------------------------------------------------------------
(* keys.h: 418 names.  A name stands for its rank in the order of           *)
(* strcasecmp(); between any two of the table there is one that is not.     *)

Total == 418

\* The rank of the name at position p: sort(1) took "_" for nothing.
RankOf(p) ==
  CASE p \in {99, 100, 139, 140, 235, 396} -> p + 1
    [] p \in {101, 141} -> p - 2
    [] p \in {236, 397} -> p - 1
    [] OTHER -> p

Numeral == <<"0", "1", "2", "3", "4", "5", "6", "7", "8", "9">>
Digits3(r) == Numeral[r \div 100 + 1] \o Numeral[((r \div 10) % 10) + 1] \o Numeral[(r % 10) + 1]
Digit(w, i) == (CHOOSE d \in 1 .. 10 : Numeral[d] = SubSeq(w, i, i)) - 1
NumberIn(w) == 100 * Digit(w, 4) + 10 * Digit(w, 5) + Digit(w, 6)

InTable(r) == IF r = Total - 1 THEN "NO_KEY" ELSE "Key" \o Digits3(r)
Between(r) == IF r = 0 THEN "" ELSE "Not" \o Digits3(r)

ByRank(n) == IF n % 2 = 1 THEN InTable(n \div 2) ELSE Between(n \div 2)

Words == {ByRank(n) : n \in 0 .. 2 * Total}
RankIn(w) ==
  IF w = "" THEN 0 ELSE IF w = "NO_KEY" THEN 2 * Total - 1
  ELSE IF SubSeq(w, 1, 3) = "Key" THEN 2 * NumberIn(w) + 1 ELSE 2 * NumberIn(w)
Ranks == [w \in Words |-> RankIn(w)]
KeyTable == [p \in 0 .. Total - 1 |-> InTable(RankOf(p))]

---------------------------------------------------------------------------

AsWritten(texts) == [t \in texts |-> t]

\* What strtol() makes of a text; without digits it is 0, and above the range
\* of a long it is the largest one.
Integer == [t \in {"4", "0x10", "-3", "0", "1", "50", "700", "32767", "", "99999"} |->
  CASE t = "4" -> 4 [] t = "0x10" -> 16 [] t = "-3" -> -3 [] t \in {"0", ""} -> 0 [] t = "1" -> 1
    [] t = "50" -> 50 [] t = "700" -> 700 [] t = "32767" -> 32767 [] t = "99999" -> 99999]

MeansAll == [
  str    |-> AsWritten({"", "A", "my mouse", "a=b"}),
  int    |-> Integer,
  key    |-> AsWritten(Range(KeyTable)),
  evtype |-> [t \in {"EventSyn", "EventKey", "EventRel", "EventAbs", "EventMsc"} |-> t],
  file   |-> AsWritten({"stdout", "stderr", "dump.txt"}),
  bool   |-> [t \in {"True", "true", "Yes", "On", "False", "false", "No", "Off"} |->
                t \in {"True", "true", "Yes", "On"}],
  float  |-> AsWritten({"0.5", ""})]

---------------------------------------------------------------------------
(* Lines of a section.                                                      *)

Separators == {<<Equals>>, <<Blank>>, <<Equals, Blank>>, <<Blank, Equals>>,
               <<Blank, Equals, Blank, Blank>>}

\* A value, cut into pieces.
PiecesOf(v) == IF v = "my mouse" THEN <<"my", Blank, "mouse">>
             ELSE IF v = "a=b" THEN <<"a", Equals, "b">>
             ELSE IF v = "" THEN <<>> ELSE <<v>>

Written(n, v, separator) ==
  [name |-> <<n>>, separator |-> separator, quote |-> <<>>, value |-> PiecesOf(v), tail |-> <<>>]
Quoted(n, v, separator, quote) == [Written(n, v, separator) EXCEPT !.quote = <<quote>>]
Plain(n, v) == Written(n, v, <<Equals>>)
Loose(n, v) == [Plain(n, v) EXCEPT !.tail = <<Blank>>]

Good(type) == CASE type = "int" -> "4" [] type = "str" -> "A" [] type = "key" -> "Key030"
                [] type = "evtype" -> "EventRel" [] type = "file" -> "stderr"
                [] type = "bool" -> "Yes" [] type = "float" -> "0.5"

\* Values worth a look: others that are right, and some that are not.
Others(type) ==
  CASE type = "int" -> {"0x10", "-3", "700", "99999", "x"} [] type = "str" -> {"a=b"}
    [] type = "key" -> {"Key000", "NO_KEY", "Key416", "Not003"}
    [] type = "evtype" -> {"EventMsc", "EventNone"}
    [] type = "file" -> {"dump.txt", "absent/file"} [] type = "bool" -> {"Off", "maybe"}
    [] type = "float" -> {"fast"}

Names(f) == [j \in DOMAIN Table[f] |-> Table[f][j].name]
All(f, Write(_, _)) == [j \in DOMAIN Table[f] |-> Write(Table[f][j].name, Good(Table[f][j].type))]
AllPlain(f) == All(f, Plain)

Request(f, lines) == [filter |-> f, lines |-> lines]

ForEach(f) ==
  LET n == Len(Table[f])
      Varied(j) == {[AllPlain(f) EXCEPT ![j] = Plain(Names(f)[j], v)] : v \in Others(Table[f][j].type)}
  IN  {<<>>, AllPlain(f), Reverse(AllPlain(f)), All(f, Loose),
       <<Plain("nonsense", "4")>>, Append(AllPlain(f), Plain("nonsense", "4"))}
      \cup {All(f, LAMBDA m, v : Written(m, v, s)) : s \in Separators}
      \cup UNION {Varied(j) : j \in 1 .. n}
      \cup {RemoveAt(AllPlain(f), j) : j \in 1 .. n}
      \cup {Append(AllPlain(f), AllPlain(f)[j]) : j \in 1 .. n}

\* Quotes, with any separator and around blanks; the last line may have none.
QuotedTexts(last) ==
  {<<Quoted("prefix", v, s, q), last>> : v \in {"", "A", "my mouse"}, s \in Separators, q \in Quotes}

RequestsAll ==
  {Request(f, lines) : f \in {"Dump"},
                       lines \in QuotedTexts(Plain("file", "stderr"))
                                 \cup QuotedTexts(Quoted("file", "stderr", <<Equals>>, "'"))}
  \cup UNION {{Request(f, lines) : lines \in ForEach(f)} : f \in DOMAIN Table}
  \cup {Request("KeyLock", <<Plain("Key", w)>>) : w \in Words \ {""}}
  \cup {Request("KeySubstitute", <<Quoted("KeyFrom", "", <<Equals>>, q), Plain("KeyTo", "Key030")>>)
          : q \in Quotes}

---------------------------------------------------------------------------
(* What the configuration assigns (TLC evaluates a definition once, but not *)
(* the one that stands for a constant).                                     *)

TheWords == Words
TheRanks == Ranks
TheKeyNames == KeyTable
TheMeanings == MeansAll
TheRequests == RequestsAll
ThePieces == STRING
TheSpelling(pieces) == FoldLeft(LAMBDA w, p : w \o p, "", pieces)
=============================================================================
