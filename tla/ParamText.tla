------------------------------ MODULE ParamText ------------------------------
(***************************************************************************)
(* What the text of a filter's parameters means: the lines between         *)
(* FilterName and EndFilter on the one side, the values evf_load_params    *)
(* stores or the error it reports on the other.  Profile builds on these   *)
(* definitions; Params shows that the code that goes through the text      *)
(* piece by piece comes to the same result.                                *)
(*                                                                         *)
(* A line [name, value, blank] sets a parameter; blank tells of white      *)
(* space that is left over behind it.                                      *)
(***************************************************************************)
EXTENDS FilterTable, FiniteSets, SequencesExt

CONSTANT
  Means     \* for each type of parameter: what the texts of its values mean;
            \* the other texts are refused

ParameterError == {"efname", "epname", "eredef", "emissing", "einval", "erange",
                   "nofname", "noparams"}

Least(S) == CHOOSE i \in S : \A j \in S : i <= j

Known(table, name) == \E j \in DOMAIN table : table[j].name = name
Repeated(text, i) == \E k \in 1 .. i - 1 : text[k].name = text[i].name

\* The first loop: each name must be known and new.  White space that is left
\* over at the end is taken for one more parameter, with an empty name.
ParseError(table, text) ==
  LET bad == {i \in DOMAIN text : ~Known(table, text[i].name) \/ Repeated(text, i)}
  IN  IF bad # {}
        THEN IF Known(table, text[Least(bad)].name) THEN "eredef" ELSE "epname"
        ELSE IF text # <<>> /\ Last(text).blank THEN "epname" ELSE "ok"

\* values[i], or the default.
Given(text, p) ==
  LET set == {i \in DOMAIN text : text[i].name = p.name}
  IN  IF set = {} THEN p.dflt ELSE text[Least(set)].value

\* What is wrong with a value, if anything: a file that cannot be opened, a
\* text that is no value of this type, a number that does not fit into an int
\* or is out of its limits.
ValueError(p, value) ==
  IF value = Null THEN "emissing"
  ELSE IF value \notin DOMAIN Means[p.type]
         THEN IF p.type = "file" THEN "errno" ELSE "einval"
  ELSE IF p.type = "int" /\ Means["int"][value] \notin p.lim THEN "erange"
  ELSE "ok"

\* The second loop: in the order of the table.
ParamError(table, text) ==
  LET Verdict(j) == ValueError(table[j], Given(text, table[j]))
      wrong == {j \in DOMAIN table : Verdict(j) # "ok"}
  IN  IF ParseError(table, text) # "ok" THEN ParseError(table, text)
      ELSE IF wrong = {} THEN "ok" ELSE Verdict(Least(wrong))

Values(table, text) == [j \in DOMAIN table |-> Means[table[j].type][Given(text, table[j])]]
=============================================================================
