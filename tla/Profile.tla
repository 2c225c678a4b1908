------------------------------- MODULE Profile -------------------------------
(***************************************************************************)
(* evf_profile.c, evf_loader.c, and the part of evf_line_create that asks  *)
(* them for filters; what a filter's parameters mean is in ParamText.      *)
(*                                                                         *)
(* A profile is a list of rules and of names of filter files; for a device *)
(* the files behind the rules it fulfils are loaded, one after the other,  *)
(* and their filters become its line.  Some of the filters take handles,   *)
(* which are shared with the lines of other devices (module Handles).      *)
(* Whatever is wrong in a file is noticed in the middle of that: the       *)
(* filters that exist by then are freed again, those of earlier files too. *)
(*                                                                         *)
(* A text is the sequence of its lines, and a line is what it says; the    *)
(* case of words and the space around them are left out, except where the  *)
(* code's reading depends on it (an empty first line, a blank behind the   *)
(* last parameter, a missing last newline).                                *)
(***************************************************************************)
EXTENDS ParamText

CONSTANTS
  Device,
  Profiles,   \* texts of profilerc to look at: [rules, newline]
  Files,      \* the filter files: a function from their names to their lines
  Sender, Receiver, Plain,   \* what malloc() can give filters of each kind
  Name, Memory               \* see Handles

VARIABLES
  profile,    \* the profile of this system
  line,       \* the filters of each device's line, <<>> if it has none
  made,       \* what each filter in memory was made of
  phase,      \* "idle", or in evf_load_profile, evf_load_filters, _free
  dev,        \* the device that was looked at last
  pos, matched, filters,  \* evf_load_profile: next line, has_matched, filters
  at, fresh,              \* evf_load_filters: next line, filters
  dead,       \* filters evf_filters_free is still to free
  err,        \* err->type, or err->param.etype if that is evf_errpar
  handles, heap, dest, source   \* see Handles

handleVars == <<handles, heap, dest, source>>
loadVars == <<dev, pos, matched, filters, at, fresh, dead>>
vars == <<profile, line, made, phase, err, loadVars, handleVars>>

H == INSTANCE Handles

Filter == Sender \cup Receiver \cup Plain

ASSUME MemoryAssumption ==
  /\ Null \notin Name \cup Sender \cup Receiver \cup Memory /\ Null \notin H!Handle
  /\ Sender \cap Receiver = {} /\ Sender \cap Plain = {} /\ Receiver \cap Plain = {}
  /\ IsFiniteSet(Sender)
ASSUME TextAssumption ==
  /\ \A p \in Profiles :
       Len(p.rules) \in Nat /\ DOMAIN p.rules = 1 .. Len(p.rules) /\ p.newline \in BOOLEAN
  /\ \A f \in DOMAIN Files :
       Len(Files[f]) \in Nat /\ DOMAIN Files[f] = 1 .. Len(Files[f])
  /\ \A t \in DOMAIN Means["str"] : Means["str"][t] \in Name
ASSUME DeviceAssumption == Device \cap {"filters", "fresh", "dead"} = {}

TypeOK ==
  /\ profile \in Profiles
  /\ line \in [Device -> Seq(Filter)]
  /\ DOMAIN made \subseteq Filter
  /\ phase \in {"idle", "profile", "file", "free"}
  /\ dev \in Device \cup {Null}
  /\ pos \in 1 .. Len(profile.rules) + 1 /\ matched \in {"no", "yes", "loading"}
  /\ {filters, fresh, dead} \subseteq Seq(Filter)
  /\ at \in Nat
  /\ err \in ParameterError \cup {"ok", "errno", "gone"}
  /\ H!TypeOK

Init ==
  /\ profile \in Profiles
  /\ line = [d \in Device |-> <<>>]
  /\ made = <<>>
  /\ phase = "idle" /\ dev = Null /\ err = "ok"
  /\ pos = 1 /\ matched = "no" /\ filters = <<>>
  /\ at = 1 /\ fresh = <<>> /\ dead = <<>>
  /\ H!Init

---------------------------------------------------------------------------
(* Which memory a filter takes; all others are Plain.                      *)

Senders == {"FilterToHandle", "CopyToHandle"}
KindOf(f) == IF f \in Senders THEN Sender
             ELSE IF f = "GetFromHandle" THEN Receiver ELSE Plain

---------------------------------------------------------------------------
(* Reading a filter file: evf_read_line_preprocess skips comments, and     *)
(* after each line all the white space that follows.  A line is [kind],    *)
(* "empty", "comment", "end", "name" (with a filter) or "param".           *)

\* fscanf matches no character of an empty line, so it is called again for ever;
\* that goes for the first line, where nothing has skipped it.
Stuck(text, p) == p \in DOMAIN text /\ text[p].kind = "empty"

\* The next line read from position p on, and where reading goes on after it;
\* Len(text) + 1 stands for the end of the file.
NextLine(text, p) ==
  Least({q \in p .. Len(text) + 1 : q > Len(text) \/ text[q].kind \notin {"empty", "comment"}})

\* Mutant: only one newline is read behind a line.
BehindNext(text, q) == q + 1

\* White space behind a line is skipped, empty lines too.
Behind(text, q) ==
  Least({r \in q + 1 .. Len(text) + 2 : r > Len(text) \/ text[r].kind # "empty"})

\* feof() after get_filter_name: the line was the last one, or there was none.
NoMore(text, p) ==
  LET q == NextLine(text, p) IN q > Len(text) \/ Behind(text, q) > Len(text)

\* get_filter_params: everything up to the first EndFilter is a parameter,
\* another FilterName too.
EndsFrom(text, q) == {e \in q + 1 .. Len(text) : text[e].kind = "end"}
AsParam(l) == IF l.kind = "name" THEN [name |-> "FilterName", value |-> l.filter, blank |-> FALSE]
                                 ELSE [name |-> l.name, value |-> l.value, blank |-> l.blank]
ParamsFrom(text, q) ==
  FlattenSeq([k \in 1 .. Least(EndsFrom(text, q)) - q - 1 |->
                IF text[q + k].kind \in {"name", "param"} THEN <<AsParam(text[q + k])>> ELSE <<>>])

Wrong(text, q) ==
  CASE text[q].kind # "name" -> "nofname"
    [] text[q].kind = "name" /\ EndsFrom(text, q) = {} -> "noparams"
    [] OTHER -> LET f == text[q].filter
                IN  IF f \in DOMAIN Table THEN ParamError(Table[f], ParamsFrom(text, q))
                                          ELSE "efname"

\* One turn of the loop in evf_load_filters, from position p of a file: the end
\* of the loop, or a filter that can be created with these values, or an error.
Turn(text, p) ==
  LET q == NextLine(text, p)
  IN  IF NoMore(text, p) THEN [is |-> "end"]
      ELSE IF Wrong(text, q) # "ok" THEN [is |-> "error", error |-> Wrong(text, q)]
      ELSE [is |-> "filter", filter |-> text[q].filter,
            values |-> Values(Table[text[q].filter], ParamsFrom(text, q)),
            rest |-> Behind(text, Least(EndsFrom(text, q)))]

Turns == [f \in DOMAIN Files |-> [p \in 1 .. Len(Files[f]) + 1 |->
            IF Stuck(Files[f], p) THEN [is |-> "stuck"] ELSE Turn(Files[f], p)]]

Here == Turns[profile.rules[pos].file][at]

---------------------------------------------------------------------------
(* Filters come and go.                                                    *)

\* Filters are taken from memory in any order; the first will do.
Unmade(S) == S \ DOMAIN made

\* evf_filter_load: the creat function of filter f, for a filter i.
Create(i, f, values) ==
  /\ made' = [j \in DOMAIN made \cup {i} |-> IF j = i THEN <<f, values>> ELSE made[j]]
  /\ \/ i \in Sender /\ H!CreateSender(i, values[1]) /\ dest'[i] # Null
     \/ i \in Receiver /\ H!CreateReceiver(i, values[1]) /\ source'[i] # Null
     \/ i \in Plain /\ UNCHANGED handleVars

\* evf_filter_free with the free helper of the filter.
Release(i) ==
  /\ made' = [j \in DOMAIN made \ {i} |-> made[j]]
  /\ \/ i \in Sender /\ H!FreeSender(i)
     \/ i \in Receiver /\ H!FreeReceiver(i)
     \/ i \in Plain /\ UNCHANGED handleVars

\* Mutant: the filters of the files loaded before are forgotten.
LostOf(current, before) == current

\* What is freed when a load fails: evf_load_filters frees the filters of the
\* current file, evf_load_profile then those of the files before.
Lost(current, before) == current \o before

Fail(e) ==
  /\ err' = e
  /\ phase' = "free"
  /\ dead' = Lost(fresh, filters)
  /\ filters' = <<>> /\ fresh' = <<>>
  /\ UNCHANGED <<profile, line, made, dev, pos, matched, at, handleVars>>

---------------------------------------------------------------------------
(* evf_load_profile.                                                       *)

\* The last line is read to its newline; without one it is at the end of the
\* file already, and is not looked at.
LastRule == IF profile.newline THEN Len(profile.rules) ELSE Len(profile.rules) - 1
Rule == profile.rules[pos]

\* A device without a line is plugged in; the profile can be opened, or not.
Begin(d) ==
  /\ phase = "idle" /\ line[d] = <<>>
  /\ dev' = d
  /\ \/ /\ phase' = "profile" /\ pos' = 1 /\ matched' = "no"
        /\ UNCHANGED err
     \/ /\ err' = "errno"
        /\ UNCHANGED <<phase, pos, matched>>
  /\ UNCHANGED <<profile, line, made, filters, at, fresh, dead, handleVars>>

\* Mutant: files go on being loaded behind rules that fail.
MatchedForever(holds) == IF holds THEN "yes" ELSE matched

\* has_matched after a line other than File: any rule of a block is enough, and
\* the first rule behind a File begins a new block.
Matched(holds) == IF holds THEN "yes" ELSE IF matched = "loading" THEN "no" ELSE matched

\* A rule is fulfilled or not; ioctl() errors and unknown keywords count as not.
TestRule ==
  /\ phase = "profile" /\ pos <= LastRule
  /\ Rule.key # "File"
  /\ matched' = Matched(dev \in Rule.devices)
  /\ pos' = pos + 1
  /\ UNCHANGED <<profile, line, made, phase, err, dev, filters, at, fresh, dead, handleVars>>

SkipFile ==
  /\ phase = "profile" /\ pos <= LastRule
  /\ Rule.key = "File" /\ matched = "no"
  /\ pos' = pos + 1
  /\ UNCHANGED <<profile, line, made, phase, err, dev, matched, filters, at, fresh, dead, handleVars>>

OpenFile ==
  /\ phase = "profile" /\ pos <= LastRule
  /\ Rule.key = "File" /\ matched # "no"
  /\ Rule.file \in DOMAIN Files
  /\ phase' = "file" /\ at' = 1
  /\ UNCHANGED <<profile, line, made, err, dev, pos, matched, filters, fresh, dead, handleVars>>

\* fopen() may refuse any file, and malloc() the text of its path.
OpenFileFails ==
  /\ phase = "profile" /\ pos <= LastRule
  /\ Rule.key = "File" /\ matched # "no"
  /\ Fail("errno")

\* All rules are read.  evf_line_create makes a line of the filters, if there
\* are any and malloc() allows it.
ProfileEnds ==
  /\ phase = "profile" /\ pos > LastRule
  /\ filters' = <<>>
  /\ \/ /\ err' = "ok" /\ phase' = "idle"
        /\ line' = [line EXCEPT ![dev] = filters]
        /\ UNCHANGED dead
     \/ /\ filters # <<>>
        /\ err' = "errno" /\ phase' = "free"
        /\ dead' = filters
        /\ UNCHANGED line
  /\ UNCHANGED <<profile, made, dev, pos, matched, at, fresh, handleVars>>

---------------------------------------------------------------------------
(* evf_load_filters.                                                       *)

\* evf_filters_merge.
Merged(before, new) == before \o new

FileEnds ==
  /\ phase = "file" /\ Here.is = "end"
  /\ filters' = Merged(filters, fresh)
  /\ fresh' = <<>>
  /\ matched' = "loading"
  /\ err' = "ok"
  /\ phase' = "profile" /\ pos' = pos + 1
  /\ UNCHANGED <<profile, line, made, dev, at, dead, handleVars>>

LoadFilter ==
  /\ phase = "file" /\ Here.is = "filter"
  /\ LET free == Unmade(KindOf(Here.filter))
         i == CHOOSE i \in free : TRUE
     IN  /\ free # {}
         /\ Create(i, Here.filter, Here.values)
         /\ fresh' = Append(fresh, i)
  /\ at' = Here.rest
  /\ UNCHANGED <<profile, line, phase, err, dev, pos, matched, filters, dead>>

\* Something is wrong with the block.
LoadFilterFails ==
  /\ phase = "file" /\ Here.is = "error"
  /\ Fail(Here.error)

\* malloc() fails, or the handle has a receiver.
CreateFails ==
  /\ phase = "file" /\ Here.is = "filter"
  /\ Fail("errno")

---------------------------------------------------------------------------

\* evf_filters_free, one filter at a time.
FreeFilter ==
  /\ phase = "free" /\ dead # <<>>
  /\ Release(Head(dead))
  /\ dead' = Tail(dead)
  /\ UNCHANGED <<profile, line, phase, err, dev, pos, matched, filters, at, fresh>>

FreeEnds ==
  /\ phase = "free" /\ dead = <<>>
  /\ phase' = "idle"
  /\ UNCHANGED <<profile, line, made, err, loadVars, handleVars>>

\* evf_line_destroy: the device has been unplugged.
Destroy(d) ==
  /\ phase = "idle" /\ line[d] # <<>>
  /\ dev' = d /\ err' = "gone"
  /\ phase' = "free"
  /\ dead' = line[d]
  /\ line' = [line EXCEPT ![d] = <<>>]
  /\ UNCHANGED <<profile, made, pos, matched, filters, at, fresh, handleVars>>

Load == \/ TestRule \/ SkipFile \/ OpenFile \/ OpenFileFails \/ ProfileEnds
        \/ FileEnds \/ LoadFilter \/ LoadFilterFails \/ CreateFails
        \/ FreeFilter \/ FreeEnds

Next == Load \/ \E d \in Device : Begin(d) \/ Destroy(d)

Spec == Init /\ [][Next]_vars

\* A load runs to its end; devices come and go as they like.
LiveSpec == Spec /\ WF_vars(Load)

---------------------------------------------------------------------------
(* What a profile means, read from its documentation: blocks of rules, the *)
(* files behind them, and blocks of parameters.                            *)

\* "When any of rules before the first occurence of File keyword is fulfilled,
\* this file is loaded" (profile.html), and the files that follow it directly:
\* the block of rules before i has one that d fulfils.
Fulfilled(d, i) ==
  \E j \in 1 .. i - 1 :
    /\ profile.rules[j].key # "File"
    /\ d \in profile.rules[j].devices
    /\ \A k \in j + 1 .. i - 1, n \in j + 1 .. i - 1 :
         profile.rules[k].key = "File" /\ profile.rules[n].key # "File" => n < k

Applies(d, i) == i <= LastRule /\ profile.rules[i].key = "File" /\ Fulfilled(d, i)

\* The complete block that begins at a place of a file, if one does.
Block(text, q) ==
  IF text[q].kind # "name" \/ EndsFrom(text, q) = {} THEN <<>>
  ELSE LET f == text[q].filter IN <<<<f, Values(Table[f], ParamsFrom(text, q))>>>>

WrittenIn(text) == FlattenSeq([q \in DOMAIN text |-> Block(text, q)])

Written(d) ==
  FlattenSeq([i \in DOMAIN profile.rules |->
                IF Applies(d, i) THEN WrittenIn(Files[profile.rules[i].file]) ELSE <<>>])

---------------------------------------------------------------------------
(* Properties.                                                             *)

MadeOf(s) == [k \in DOMAIN s |-> made[s[k]]]

\* A load that says it went well has given the device the filters its profile
\* describes, in that order and with these parameters, or no line if there are
\* none; one that failed has given it nothing; and a line stays what it is
\* while those of other devices are loaded, fail and are destroyed.
LoadedAsWritten ==
  /\ \A d \in Device : line[d] # <<>> => MadeOf(line[d]) = Written(d)
  /\ phase = "idle" /\ dev # Null =>
       IF err = "ok" THEN MadeOf(line[dev]) = Written(dev) ELSE line[dev] = <<>>

\* Each filter in memory is in exactly one place: in one line, among what has
\* been loaded, or about to be freed.  None is lost by a load that fails, and
\* none is freed twice.
Place == Device \cup {"filters", "fresh", "dead"}
Places == [p \in Place |-> CASE p = "filters" -> filters [] p = "fresh" -> fresh
                             [] p = "dead" -> dead [] OTHER -> line[p]]
Owned ==
  /\ TypeOK
  /\ DOMAIN made = UNION {ToSet(Places[p]) : p \in Place}
  /\ \A p \in Place : IsInjective(Places[p])
  /\ \A p, q \in Place : p # q => ToSet(Places[p]) \cap ToSet(Places[q]) = {}

\* The lines that name a handle are joined by it, in whatever order they were
\* loaded and whatever was loaded, failed or was destroyed in between, as long
\* as the list of handles has lost none (see Handles).
Joined ==
  H!Allocated \subseteq ToSet(handles) =>
    \A d, e \in Device : \A r \in Receiver \cap ToSet(line[d]) :
      /\ \E m \in ToSet(handles) : heap[m].filter = r
      /\ \A s \in Sender \cap ToSet(line[e]) :
           made[s][2][1] = made[r][2][1] => heap[dest[s]].filter = r

\* A load ends ("Reads lines from config, removes coments and empty lines",
\* evf_func.c).
LoadEnds == phase # "idle" ~> phase = "idle"
=============================================================================
