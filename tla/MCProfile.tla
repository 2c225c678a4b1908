------------------------------ MODULE MCProfile ------------------------------
(* Small instances of Profile: profiles for two devices, and filter files   *)
(* that are right, or wrong in each way the code distinguishes.             *)
EXTENDS Profile

CONSTANTS d1, d2, s1, s2, s3, r1, r2, p1, p2, p3, m1, m2, m3

Devices == {d1, d2}
SendersMemory == {s1, s2, s3}
ReceiversMemory == {r1, r2}
PlainMemory == {p1, p2, p3}
Memories == {m1, m2, m3}
Names == {"A", "B"}

AsWritten(texts) == [t \in texts |-> t]
MeansAll == [str |-> AsWritten({"A", "B"}),
             int |-> [n \in {"1", "4", "30", "700"} |->
                        CASE n = "1" -> 1 [] n = "4" -> 4 [] n = "30" -> 30 [] n = "700" -> 700],
             key |-> AsWritten({"KEY_A", "KEY_B"}), evtype |-> AsWritten({"EventKey"})]

Line(k) == [kind |-> k]
FilterName(f) == [kind |-> "name", filter |-> f]
Set(n, v) == [kind |-> "param", name |-> n, value |-> v, blank |-> FALSE]
Quoted(n, v) == [kind |-> "param", name |-> n, value |-> v, blank |-> TRUE]
End == Line("end")
Comment == Line("comment")
Empty == Line("empty")

Speed == <<FilterName("SpeedMod"), Set("ymod", "4"), End>>
Copy(n) == <<FilterName("CopyToHandle"), Set("HandleName", n), End>>
Get(n) == <<FilterName("GetFromHandle"), Set("HandleName", n), End>>
Redirect(n) == <<FilterName("FilterToHandle"), Quoted("HandleName", n),
                 Set("EventCode", "30"), Comment, Set("EventType", "EventKey"), End>>
Substitute(last) == <<FilterName("KeySubstitute"), Set("KeyFrom", "KEY_A")>> \o last \o <<End>>

FilesGoodAndBad == [
  speed     |-> <<Comment>> \o Speed \o <<Comment, Empty>>,
  two       |-> Redirect("A") \o <<Empty, Comment>> \o Speed,
  copy      |-> Copy("A"),
  both      |-> Copy("B") \o Get("A"),
  get       |-> Get("A") \o Speed,
  nothing   |-> <<Comment, Comment>>,
  void      |-> <<>>,
  dangling  |-> Speed \o <<FilterName("SpeedMod")>>,
  noname    |-> Copy("A") \o <<Set("HandleName", "A"), End, End>>,
  noend     |-> Copy("A") \o <<FilterName("SpeedMod"), Set("xmod", "4")>>,
  unknown   |-> Get("B") \o <<FilterName("Nonsense"), End>>,
  nested    |-> <<FilterName("SpeedMod")>> \o Speed,
  twice     |-> Copy("B") \o Substitute(<<Set("KeyFrom", "KEY_B"), Set("KeyTo", "KEY_B")>>),
  missing   |-> Copy("B") \o Substitute(<<>>),
  range     |-> Copy("B") \o <<FilterName("Barrier"), Set("history", "700"), End>>,
  value     |-> Copy("B") \o Substitute(<<Set("KeyTo", "KEY_Z")>>),
  quoted    |-> Copy("A") \o Substitute(<<Quoted("KeyTo", "KEY_B")>>)]

FilesEmptyLine == [speed |-> <<Empty>> \o Speed, copy |-> Copy("A")]

For(D) == [key |-> "rule", devices |-> D]
Loads(f) == [key |-> "File", file |-> f]
Is(rules) == [rules |-> rules, newline |-> TRUE]

\* Blocks of several rules and several files, comments in between, handles
\* between the devices, files that are empty or missing, a last line that is
\* not complete.
ProfilesGood == {
  Is(<<For({d1}), For({d2}), For({}), Loads("speed"), Loads("copy"), For({d2}), Loads("get")>>),
  Is(<<For({d1}), Loads("two"), For({}), Loads("get"), For({d2}), Loads("both"), Loads("nothing")>>),
  Is(<<Loads("copy"), For({d1, d2}), Loads("void"), Loads("get"), For({d1}), Loads("copy")>>),
  Is(<<For({d1}), Loads("dangling"), For({d2}), Loads("two"), Loads("copy")>>),
  [rules |-> <<For({d1, d2}), Loads("both"), For({d1}), Loads("speed")>>, newline |-> FALSE]}

\* One wrong file behind right ones.
LastOf(f) == Is(<<For({d1, d2}), Loads("copy"), For({d2}), Loads("get"), Loads(f)>>)
ProfilesBad == {LastOf(f) : f \in {"noname", "noend", "unknown", "nested", "twice",
                                  "missing", "range", "value", "quoted", "absent"}}

ProfilesAll == ProfilesGood \cup ProfilesBad
ProfilesEmptyLine == {Is(<<For({d2}), Loads("copy"), For({d1}), Loads("speed")>>)}
=============================================================================
