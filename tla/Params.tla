------------------------------- MODULE Params -------------------------------
(***************************************************************************)
(* evf_load_params and the creat functions that call it: from the text of  *)
(* a parameter section to the data of a filter, or to an error.            *)
(*                                                                         *)
(* The text is a sequence of pieces: blanks, equals signs, quotes and the  *)
(* words between them.  The first loop cuts names and values off its       *)
(* beginning, the second converts the values in the order of the filter's  *)
(* table, keys with the search of KeyParser, one comparison per step.      *)
(***************************************************************************)
EXTENDS ParamText, KeyParser

CONSTANTS
  Requests,   \* sections to load: [filter, lines]
  Piece,      \* what texts are cut into
  Spell(_)    \* the word that pieces make when they are put together

Blank == " "
Equals == "="
Quotes == {"'", "\""}

ASSUME PieceAssumption == Quotes \cup {Blank, Equals} \subseteq Piece

Text == Seq(Piece)

\* A line, as the comments of evf_param.c want it.
Line == [name : Text, separator : Text, quote : Text, value : Text, tail : Text]

WellWritten(l) ==
  /\ l.name # <<>> /\ Range(l.name) \cap {Blank, Equals} = {}
  /\ l.separator # <<>> /\ Range(l.separator) \subseteq {Blank, Equals}
  /\ \A i, j \in DOMAIN l.separator : l.separator[i] = Equals /\ l.separator[j] = Equals => i = j
  /\ \/ /\ l.quote = <<>> /\ Blank \notin Range(l.value)
        /\ l.value # <<>> /\ Head(l.value) \notin Quotes \cup {Equals}
     \/ \E q \in Quotes : l.quote = <<q>> /\ q \notin Range(l.value)
  /\ Range(l.tail) \subseteq {Blank}

\* Its text, and what it says (ParamText).
Pieces(l) == l.name \o l.separator \o l.quote \o l.value \o l.quote \o l.tail

Says(l) == [name |-> Spell(l.name), value |-> Spell(l.value),
            blank |-> l.quote # <<>> \/ l.tail # <<>>]

ASSUME RequestsAssumption ==
  \A r \in Requests :
    /\ r.filter \in DOMAIN Table
    /\ r.lines \in Seq(Line)
    /\ \A i \in DOMAIN r.lines :
         WellWritten(r.lines[i]) /\ Spell(r.lines[i].value) # Null
    /\ \A i \in DOMAIN r.lines, j \in DOMAIN Table[r.filter] :
         Table[r.filter][j].type = "key" /\ Table[r.filter][j].name = Spell(r.lines[i].name)
           => Spell(r.lines[i].value) \in Word

\* No pieces make a name, but not that of a parameter.
ASSUME SpellAssumption == \A f \in DOMAIN Table : ~Known(Table[f], Spell(<<>>))

\* A text means a key if it is the name of one; a number is one that strtol()
\* can return.
ASSUME MeansAssumption ==
  /\ \A w \in Word : w \in DOMAIN Means["key"] <=> \E p \in Position : RankAt(p) = Rank[w]
  /\ \A w \in Word, p \in Position : RankAt(p) = Rank[w] => Means["key"][w] = KeyNames[p]
  /\ \A t \in DOMAIN Means["int"] : Means["int"][t] \in Int

\* The texts that the tables have for defaults.
ASSUME DefaultsAssumption ==
  /\ \A t \in {"0", "1", "50", "32767"} : t \in DOMAIN Means["int"] /\ t # Null
  /\ Means["int"]["0"] = 0 /\ Means["int"]["1"] = 1
  /\ Means["int"]["50"] = 50 /\ Means["int"]["32767"] = 32767
  /\ {"true", "false"} \subseteq DOMAIN Means["bool"]
  /\ NoText \in DOMAIN Means["str"] /\ "stdout" \in DOMAIN Means["file"]
  /\ "NO_KEY" \in Word /\ \E p \in Position : KeyNames[p] = "NO_KEY"
  /\ IntMax >= 32767

VARIABLES
  request,    \* the section that is loaded, chosen once
  phase,      \* "idle", "parse", "load"
  cfg,        \* what the first loop has left of the text
  values,     \* what it has found for each parameter, or Null
  stored,     \* what the second loop has stored so far
  err,        \* err, or "ok"
  data        \* of the filter that was made last, or Null

parseVars == <<request, phase, cfg, values, stored, err, data>>
vars == <<parseVars, searchVars>>

Params == Table[request.filter]
At == Len(stored) + 1

TypeOK ==
  /\ request \in Requests
  /\ phase \in {"idle", "parse", "load"}
  /\ cfg \in Text
  /\ DOMAIN values = DOMAIN Params
  /\ At \in 1 .. Len(Params) + 1
  /\ \A i \in DOMAIN stored : stored[i] \in Range(Means[Params[i].type])
  /\ err \in ParameterError \cup {"ok", "errno"}
  /\ SearchTypeOK

---------------------------------------------------------------------------
(* Cutting names and values off the text.                                  *)

EatSpaces[t \in Text] ==
  SubSeq(t, Least({i \in 1 .. Len(t) + 1 : i > Len(t) \/ t[i] # Blank}), Len(t))

\* The word up to the first piece that is in ends, and the pieces behind that.
Cut(ends) == [t \in Text |->
  LET n == Least({i \in 1 .. Len(t) + 1 : i > Len(t) \/ t[i] \in ends})
  IN  [word |-> Spell(SubSeq(t, 1, n - 1)), rest |-> SubSeq(t, n + 1, Len(t))]]

\* Mutant: an equals sign behind a blank is not looked for.
EatNoEquals(t) == t

EatEquals(t) == IF t # <<>> /\ Head(t) = Equals THEN Tail(t) ELSE t

\* evfilter_get_name.
GetName[t \in Text] ==
  LET cut == Cut({Blank, Equals})[EatSpaces[t]]
  IN  [word |-> cut.word, rest |-> EatEquals(EatSpaces[cut.rest])]

\* evfilter_get_value, behind the blanks.
Unquoted[t \in Text] ==
  IF t # <<>> /\ Head(t) \in Quotes THEN Cut({Head(t)})[Tail(t)] ELSE Cut({Blank})[t]
GetValue[t \in Text] == Unquoted[EatSpaces[t]]

\* evfilter_find_possition.
Named(name) == {i \in DOMAIN Params : Params[i].name = name}

---------------------------------------------------------------------------

Init ==
  /\ request \in Requests
  /\ phase = "idle"
  /\ cfg = <<>> /\ stored = <<>>
  /\ values = [i \in DOMAIN Params |-> Null]
  /\ err = "ok" /\ data = Null
  /\ SearchInit /\ key = KeyNames[0]

Fail(e) ==
  /\ err' = e /\ data' = Null
  /\ phase' = "idle"
  /\ UNCHANGED <<request, cfg, values, stored>>

\* get_filter_params puts a blank behind each line.
CfgOf(lines) == FlattenSeq([i \in DOMAIN lines |-> Append(Pieces(lines[i]), Blank)])

\* evf_filter_load calls the creat function; no call sees anything of those
\* before it.
Creat ==
  /\ phase = "idle"
  /\ phase' = "parse"
  /\ cfg' = CfgOf(request.lines)
  /\ values' = [i \in DOMAIN Params |-> Null]
  /\ stored' = <<>>
  /\ err' = "ok" /\ data' = Null
  /\ UNCHANGED <<request, searchVars>>

\* One turn of the first loop.
ParseParameter ==
  /\ phase = "parse" /\ cfg # <<>>
  /\ LET name == GetName[cfg].word
         value == GetValue[GetName[cfg].rest]
     IN  \/ Named(name) = {} /\ Fail("epname")
         \/ \E i \in Named(name) :
              \/ values[i] # Null /\ Fail("eredef")
              \/ /\ values[i] = Null
                 /\ values' = [values EXCEPT ![i] = value.word]
                 /\ cfg' = value.rest
                 /\ UNCHANGED <<request, phase, stored, err, data>>
  /\ UNCHANGED searchVars

ParseEnds ==
  /\ phase = "parse" /\ cfg = <<>>
  /\ phase' = "load"
  /\ UNCHANGED <<request, cfg, values, stored, err, data, searchVars>>

---------------------------------------------------------------------------
(* The second loop.                                                        *)

ValueAt(i) == IF values[i] = Null THEN Params[i].dflt ELSE values[i]

\* The parameter that is to be loaded next is of type t and has a value.
Loading(t) ==
  /\ phase = "load" /\ search # "running"
  /\ At <= Len(Params) /\ Params[At].type = t
  /\ ValueAt(At) # Null

Store(x) ==
  /\ stored' = Append(stored, x)
  /\ UNCHANGED <<request, phase, cfg, values, err, data>>

Missing ==
  /\ phase = "load" /\ At <= Len(Params) /\ ValueAt(At) = Null
  /\ search # "running"
  /\ Fail("emissing")
  /\ UNCHANGED searchVars

\* A value of type t that is converted at once, or is none: float, bool,
\* evtype, str, file.
LoadValue(t) ==
  /\ Loading(t)
  /\ \/ ValueAt(At) \in DOMAIN Means[t] /\ Store(Means[t][ValueAt(At)])
     \/ /\ ValueAt(At) \notin DOMAIN Means[t]
        /\ Fail(IF t = "file" THEN "errno" ELSE "einval")
  /\ UNCHANGED searchVars

InLimits(n, lim) == n \in lim

\* evfilter_load_int: strtol, then the range of an int, then the limits.
LoadInt ==
  /\ Loading("int")
  /\ LET n == Means["int"][ValueAt(At)]
     IN  \/ ValueAt(At) \notin DOMAIN Means["int"] /\ Fail("einval")
         \/ /\ ValueAt(At) \in DOMAIN Means["int"]
            /\ \/ n \notin Int32 /\ Fail("erange")
               \/ n \in Int32 /\ ~InLimits(n, Params[At].lim) /\ Fail("erange")
               \/ n \in Int32 /\ InLimits(n, Params[At].lim) /\ Store(n)
  /\ UNCHANGED searchVars

\* evfilter_load_key calls keyparser_getkey and looks at what it returns; the
\* locals of the search are gone then.  A key stands for its own number.
AskKey ==
  /\ Loading("key") /\ search = "idle"
  /\ GetKey(ValueAt(At))
  /\ UNCHANGED parseVars

AnswerKey ==
  /\ Loading("key") /\ search \in {"found", "missing"}
  /\ \/ search = "found" /\ Store(KeyNames[Middle])
     \/ search = "missing" /\ Fail("einval")
  /\ search' = "idle" /\ key' = KeyNames[0] /\ left' = 0 /\ right' = KeyCount

\* The creat function goes on with the values; malloc() may fail.
Made ==
  /\ phase = "load" /\ At = Len(Params) + 1
  /\ \/ /\ data' = Alloc(request.filter, stored) /\ err' = "ok"
        /\ phase' = "idle"
        /\ UNCHANGED <<request, cfg, values, stored>>
     \/ Fail("errno")
  /\ UNCHANGED searchVars

Load == \/ ParseParameter \/ ParseEnds \/ Missing
        \/ \E t \in {"float", "bool", "evtype", "str", "file"} : LoadValue(t)
        \/ LoadInt \/ AskKey \/ (Probe /\ UNCHANGED parseVars) \/ AnswerKey \/ Made

Next == Load \/ Creat

Spec == Init /\ [][Next]_vars /\ WF_vars(Load)

---------------------------------------------------------------------------
(* Properties.                                                             *)

\* The search cannot find all names (see KeyParser).
Misplaced(k) == \E p \in Position : RankAt(p) = Rank[k] /\ OutOfOrder(p)
Said(lines) == [i \in DOMAIN lines |-> Says(lines[i])]
Findable(text) ==
  \A j \in DOMAIN Params :
    Params[j].type = "key" /\ Given(text, Params[j]) # Null => ~Misplaced(Given(text, Params[j]))

\* A section, whatever style of equals signs, blanks and quotes its lines are
\* written in (the comments of evf_param.c, filter.html) and whatever their
\* order, is loaded to what it says, with the defaults for what it does not
\* say, or refused for the first thing that is wrong with it; a filter is made
\* only of values that are all right, and a value that is refused was written:
\* none of the tables has a default its own type or limits refuse.
LoadsAsSpecified ==
  LET text == Said(request.lines)
      error == ParamError(Params, text)
  IN  phase = "idle" /\ Findable(text) =>
        /\ data # Null => error = "ok" /\ data = Alloc(request.filter, Values(Params, text))
        /\ err \in ParameterError => err = error
        /\ err = "errno" => error \in {"ok", "errno"}
        /\ err \in {"einval", "erange"} => values[At] # Null

\* Every load comes to an end, in a filter or in an error.
LoadEnds == phase # "idle" ~> phase = "idle"
=============================================================================
