----------------------------- MODULE FilterLine -----------------------------
(***************************************************************************)
(* The filters of src/filters, chained into lines (evf_line.c) and joined  *)
(* by handles (evf_handle.c).                                              *)
(*                                                                         *)
(* A line passes an event from filter to filter by calling                 *)
(* self->next->modify(self->next, ev): by reference.  A filter may change  *)
(* the event, swallow it, send several, and look at it again after the     *)
(* call, when the filters behind it have had their way with it.  The       *)
(* machine below makes one step per modify() or per stretch of it between  *)
(* two calls; `stack' holds the calls that are under way.                  *)
(*                                                                         *)
(* Devices are read one event at a time, so that packets of two devices    *)
(* reach a joined line interleaved.                                        *)
(***************************************************************************)
EXTENDS FilterTable, FiniteSets, SequencesExt

CONSTANTS
  Scenes,    \* configurations: [filters, roots, packets, joined]; a filter is
             \* [kind, values, next, handle], with the values of its parameters
  MaxOut,    \* bound: how much is remembered of what a line writes
  Junk       \* bound: what memory may hold before it is written:
             \* [head, tail, sample]

ASSUME MaxOutAssumption == MaxOut \in Nat \ {0}

\* An index below 0 would lead out of the ring; none is tried.
ASSUME JunkAssumption == Junk \subseteq [head : Nat, tail : Int, sample : Int]

\* Codes of <linux/input.h>; ABS_X and ABS_Y are the same numbers as REL_X
\* and REL_Y.
REL_X == 0
REL_Y == 1
REL_HWHEEL == 6
REL_WHEEL == 8
ABS_PRESSURE == 24
BTN_LEFT == 272
BTN_RIGHT == 273
BTN_MIDDLE == 274

Type == {"SYN", "KEY", "REL", "ABS"}
Event == [type : Type, code : Nat, value : Int]

E(type, code, value) == [type |-> type, code |-> code, value |-> value]
Syn == E("SYN", 0, 0)

Axis == {REL_X, REL_Y}

\* What evf_load_params lets through for a parameter.
Fits(p, x) ==
  CASE p.type = "int" -> x \in p.lim
    [] p.type = "key" -> x \in Nat
    [] p.type = "bool" -> x \in BOOLEAN
    [] p.type = "evtype" -> x \in Type
    [] OTHER -> TRUE

\* What the loader can have made, with a Commit at the end of each line.
LoadedFilter(g, filters) ==
  /\ g.kind \in DOMAIN Table \cup {"Commit"}
  /\ g.kind \in DOMAIN Table =>
       /\ DOMAIN g.values = DOMAIN Table[g.kind]
       /\ \A j \in DOMAIN g.values : Fits(Table[g.kind][j], g.values[j])
  /\ g.next \in filters \/ (g.next = 0 /\ g.kind \in {"Dump", "Commit"})
  /\ g.handle \in filters \cup {0}

ASSUME ScenesAssumption ==
  \A s \in Scenes :
    /\ \A f \in DOMAIN s.filters : LoadedFilter(s.filters[f], DOMAIN s.filters)
    /\ \A d \in DOMAIN s.roots : s.roots[d] \in DOMAIN s.filters
    /\ \A d \in DOMAIN s.roots : s.packets[d] \subseteq Seq(Event)
    /\ (\E f \in DOMAIN s.filters : s.filters[f].kind = "Kalman") => s.estimates \subseteq Int

VARIABLES
  scene,     \* the configuration, chosen once
  st,        \* self->data of each filter
  ev,        \* the event the running modify() points to
  stack,     \* calls under way, the running one first
  unread,    \* of each device: the rest of the packet the kernel has for it
  packet,    \* history: of each device, that packet
  held,      \* of each device: keys that are down, as far as it has been read
  out,       \* of each filter, if it is a Commit: what it wrote of a packet
  down,      \* history: of each Commit: keys it left pressed
  due,       \* history: movement each filter has taken and not passed on
  pressure,  \* history: the last pressure each filter was handed
  stroke     \* history: of each device and axis: the last two positions since
             \* the pen came down

history == <<packet, down, due, pressure, stroke>>
vars == <<scene, st, ev, stack, unread, held, out, history>>

Filters == DOMAIN scene.filters
Data(f) == Alloc(scene.filters[f].kind, scene.filters[f].values)
Devices == DOMAIN scene.roots

\* What modify() keeps between two events; each kind uses its part of it.
State == [acc : [Axis -> Int],          \* x, y; relx, rely
          seen : [Axis -> 0 .. 2],      \* xstate, ystate
          last : [Axis -> Int],         \* last_absx, last_absy
          eat : BOOLEAN,                \* eat_next_syn
          passed : BOOLEAN,             \* ev_flag
          on : BOOLEAN,                 \* state, pressed, trigger_on, sync_flag
          queue : Seq(Event),
          head : [0 .. 2 -> Int], tail : [0 .. 2 -> Int],
          coord : [0 .. 2 -> Seq(Int)]]

Initial == [acc |-> [a \in Axis |-> 0], seen |-> [a \in Axis |-> 0],
            last |-> [a \in Axis |-> 0], eat |-> FALSE, passed |-> FALSE,
            on |-> FALSE, queue |-> <<>>,
            head |-> [c \in 0 .. 2 |-> 0], tail |-> [c \in 0 .. 2 |-> 0],
            coord |-> [c \in 0 .. 2 |-> <<>>]]

\* evf_weighted_average_abs_alloc sets head[1] and tail[2] twice and leaves
\* tail[1], head[2] and all samples as malloc() gives them.
Uninitialised(n, junk) ==
  [Initial EXCEPT !.head[2] = junk.head, !.tail[1] = junk.tail,
                  !.coord = [c \in 0 .. 2 |-> [i \in 1 .. n |-> junk.sample]]]

Frame(f, at, e) == [filter |-> f, at |-> at, ev |-> e]
Place == {"modify", "flush", "sent", "synced", "passed", "y", "syn", "again", "loop", "trap"}

TypeOK ==
  /\ scene \in Scenes
  /\ st \in [Filters -> State]
  /\ ev \in Event
  /\ stack \in Seq([filter : Filters, at : Place, ev : Event])
  /\ unread \in [Devices -> Seq(Event)]
  /\ out \in [Filters -> Seq(Event)]
  /\ \A f \in Filters :
       st[f].queue # <<>> => Len(st[f].queue) <= Data(f).history

Init ==
  /\ scene \in Scenes
  /\ \E junk \in Junk :
       st = [f \in Filters |-> IF scene.filters[f].kind = "WeightedAverageAbs"
                                 THEN Uninitialised(Data(f).n, junk) ELSE Initial]
  /\ ev = Syn
  /\ stack = <<>>
  /\ unread = [d \in Devices |-> <<>>] /\ packet = unread
  /\ held = [d \in Devices |-> {}]
  /\ out = [f \in Filters |-> <<>>]
  /\ down = [f \in Filters |-> {}]
  /\ due = [f \in Filters |-> [a \in Axis |-> 0]]
  /\ pressure = [f \in Filters |-> 0]
  /\ stroke = [d \in Devices |-> [a \in Axis |-> <<>>]]

---------------------------------------------------------------------------
(* The devices, and evf_line_process.                                      *)

\* The keys that are down after an event.
Pressed(keys, e) == IF e.type # "KEY" THEN keys
                    ELSE IF e.value = 0 THEN keys \ {e.code} ELSE keys \cup {e.code}

\* Whether a device can send p, with these keys down: it presses a key that is
\* up and repeats and releases one that is down.
CanSend(keys, p) ==
  \A i \in DOMAIN p : p[i].type = "KEY" =>
    LET IsOfKey(j) == p[j].type = "KEY" /\ p[j].code = p[i].code
    IN  /\ (\A j \in 1 .. i - 1 : ~IsOfKey(j)) => (p[i].value = 1 <=> p[i].code \notin keys)
        /\ \A j \in 1 .. i - 1 : IsOfKey(j) /\ (\A k \in j + 1 .. i - 1 : ~IsOfKey(k))
             => (p[i].value = 1 <=> p[j].value = 0)

\* Something happens on the device: the kernel has a packet for evfd.  That it
\* may come while a line is at work makes no difference to anybody.
Packet(d) ==
  /\ stack = <<>>
  /\ unread[d] = <<>>
  /\ \E p \in scene.packets[d] :
       /\ CanSend(held[d], p)
       /\ unread' = [unread EXCEPT ![d] = Append(p, Syn)]
       /\ packet' = [packet EXCEPT ![d] = Append(p, Syn)]
  /\ UNCHANGED <<scene, st, ev, stack, held, out, down, due, pressure, stroke>>

\* The last positions of the stroke; pressure 0 ends it.
Drawn(positions, e) ==
  IF e.type # "ABS" THEN positions
  ELSE IF e.code \in Axis
    THEN [positions EXCEPT ![e.code] = Append(IF Len(@) = 2 THEN Tail(@) ELSE @, e.value)]
  ELSE IF e.code = ABS_PRESSURE /\ e.value = 0 THEN [a \in Axis |-> <<>>] ELSE positions

\* evf_line_process reads one event and hands it to the first filter.
Read(d) ==
  /\ stack = <<>>
  /\ unread[d] # <<>>
  /\ ev' = Head(unread[d])
  /\ unread' = [unread EXCEPT ![d] = Tail(@)]
  /\ stack' = <<Frame(scene.roots[d], "modify", ev')>>
  /\ held' = [held EXCEPT ![d] = Pressed(@, ev')]
  /\ stroke' = [stroke EXCEPT ![d] = Drawn(@, ev')]
  /\ UNCHANGED <<scene, st, out, packet, down, due, pressure>>

---------------------------------------------------------------------------
(* Calls.                                                                  *)

Top == Head(stack)
Self == Top.filter
F == scene.filters[Self]
D == Data(Self)
S == st[Self]

At(kind, at) == stack # <<>> /\ F.kind = kind /\ Top.at = at

\* self->next->modify(self->next, ev), and nothing after it.
Forward(e) ==
  /\ ev' = e
  /\ stack' = <<Frame(F.next, "modify", e)>> \o Tail(stack)

\* The same through the handle, or to next, and then on at `at'.
SendThen(to, e, at) ==
  /\ ev' = e
  /\ stack' = <<Frame(to, "modify", e), [Top EXCEPT !.at = at]>> \o Tail(stack)

\* The loop in modify() does not end, or a division by zero ends the process.
Never(at) == stack' = <<[Top EXCEPT !.at = at]>> \o Tail(stack) /\ UNCHANGED ev

\* return; the event is a local of evf_line_process.
Drop ==
  /\ stack' = Tail(stack)
  /\ ev' = IF Len(stack) = 1 THEN Syn ELSE ev

Keep(s) == st' = [st EXCEPT ![Self] = s]

Environment == <<scene, unread, packet, held, stroke>>

IsKey(e, key) == e.type = "KEY" /\ e.code = key
IsAbs(e, code) == e.type = "ABS" /\ e.code = code

\* A Dump and a Commit may be the last of their line.
ForwardIfAny == (F.next # 0 /\ Forward(ev)) \/ (F.next = 0 /\ Drop)

\* A Dump and a GetFromHandle pass everything on.
PassOn ==
  /\ \/ At("Dump", "modify") /\ ForwardIfAny
     \/ At("GetFromHandle", "modify") /\ Forward(ev)
  /\ UNCHANGED <<Environment, st, out, down, due, pressure>>

\* The commit function writes to the virtual device of the line.  Of what is
\* written without a sync the first events and the last one are remembered.
Written(f) == IF out[f] # <<>> /\ Last(out[f]).type = "SYN"
                THEN <<ev>>
                ELSE Append(SubSeq(out[f], 1, Min({Len(out[f]), MaxOut - 1})), ev)

Commit ==
  /\ At("Commit", "modify")
  /\ out' = [out EXCEPT ![Self] = Written(Self)]
  /\ down' = [down EXCEPT ![Self] = Pressed(@, ev)]
  /\ ForwardIfAny
  /\ UNCHANGED <<Environment, st, due, pressure>>

---------------------------------------------------------------------------
(* Filters of keys.                                                        *)

NoRepeat ==
  /\ At("NoRepeat", "modify")
  /\ \/ ev.type = "KEY" /\ ev.value = 2 /\ Drop
     \/ ~(ev.type = "KEY" /\ ev.value = 2) /\ Forward(ev)
  /\ UNCHANGED <<Environment, st, out, down, due, pressure>>

KeySubstitute ==
  /\ At("KeySubstitute", "modify")
  /\ Forward(IF IsKey(ev, D.from) THEN [ev EXCEPT !.code = D.to] ELSE ev)
  /\ UNCHANGED <<Environment, st, out, down, due, pressure>>

\* Mutant: every press locks.
UnlockNever(e, s) == e

\* The second press becomes a release.
Unlock(e, s) == IF s.on THEN [e EXCEPT !.value = 0] ELSE e

\* The release is swallowed, and the sync if it is the very next event.
KeyLock ==
  /\ At("KeyLock", "modify")
  /\ \/ S.eat /\ ev = Syn /\ Drop /\ Keep([S EXCEPT !.eat = FALSE])
     \/ /\ ~(S.eat /\ ev = Syn)
        /\ \/ /\ IsKey(ev, D.key) /\ ev.value = 0
              /\ Drop /\ Keep([S EXCEPT !.eat = TRUE])
           \/ /\ IsKey(ev, D.key) /\ ev.value = 1
              /\ Forward(Unlock(ev, S))
              /\ Keep([S EXCEPT !.eat = FALSE, !.on = ~@])
           \/ /\ ~(IsKey(ev, D.key) /\ ev.value \in {0, 1})
              /\ Forward(ev) /\ Keep([S EXCEPT !.eat = FALSE])
  /\ UNCHANGED <<Environment, out, down, due, pressure>>

\* The tests of modify() run one after the other on the same event, so that
\* what one of them made of it is seen by the next.
MoveFor(key, code, value, e) == IF e.code = key THEN E("REL", code, value) ELSE e
ButtonFor(key, code, e) == IF e.code = key THEN [e EXCEPT !.code = code] ELSE e

Moves(e) == MoveFor(D.right, REL_X, 2, MoveFor(D.left, REL_X, -2,
            MoveFor(D.down, REL_Y, -2, MoveFor(D.up, REL_Y, 2, e))))
Buttons(e) == ButtonFor(D.rbtn, BTN_RIGHT, ButtonFor(D.mbtn, BTN_MIDDLE,
              ButtonFor(D.lbtn, BTN_LEFT, e)))

Translated(e) == Buttons(Moves(e))

IsMoveKey(e) == e.type = "KEY" /\ e.code \in {D.up, D.down, D.left, D.right}

Btn2Rel ==
  /\ At("Btn2Rel", "modify")
  /\ \/ S.eat /\ ev.type = "SYN" /\ Drop /\ Keep([S EXCEPT !.eat = FALSE])
     \/ /\ IsMoveKey(ev) /\ ev.value = 0
        /\ Drop /\ Keep([S EXCEPT !.eat = TRUE])
     \/ /\ ~(S.eat /\ ev.type = "SYN") /\ ~(IsMoveKey(ev) /\ ev.value = 0)
        /\ Forward(IF ev.type = "KEY" THEN Translated(ev) ELSE ev)
        /\ UNCHANGED st
  /\ UNCHANGED <<Environment, out, down, due, pressure>>

---------------------------------------------------------------------------
(* Filters of movement.                                                    *)

Abs(n) == IF n < 0 THEN -n ELSE n

\* C division.
Quotient(n, d) == IF (n < 0) = (d < 0) THEN Abs(n) \div Abs(d) ELSE -(Abs(n) \div Abs(d))

\* Mutant: what is left over after a division is forgotten.
RemainderNone(n, d) == 0

Remainder(n, d) == n - d * Quotient(n, d)

\* Rel2Scroll looks at the quotient.  SpeedMod compares with the divisor, sign
\* and all: a negative one holds nothing back, not even a movement of 0 steps.
FarEnough(total, mod) ==
  \/ F.kind = "SpeedMod" /\ Abs(total) >= mod
  \/ F.kind = "Rel2Scroll" /\ Quotient(total, mod) # 0

\* Movement on the axis is accumulated until it is far enough, and goes out in
\* steps of the divisor, with that code; until then it is held back, and the
\* next sync is to be swallowed.
Accumulate(axis, code, s) ==
  LET total == s.acc[axis] + ev.value
      mod == D.mod[axis]
      step == Quotient(total, mod)
  IN  \/ mod = 0 /\ Never("trap") /\ UNCHANGED <<st, due>>
      \/ /\ mod # 0 /\ FarEnough(total, mod)
         /\ Forward([ev EXCEPT !.code = code, !.value = step])
         /\ Keep([s EXCEPT !.acc[axis] = Remainder(total, mod)])
         /\ due' = [due EXCEPT ![Self][axis] = @ + ev.value - mod * step]
      \/ /\ mod # 0 /\ ~FarEnough(total, mod)
         /\ Drop
         /\ Keep([s EXCEPT !.acc[axis] = total, !.eat = TRUE])
         /\ due' = [due EXCEPT ![Self][axis] = @ + ev.value]

IsMove(e) == e.type = "REL" /\ e.code \in Axis

\* Mutant: the flag is not looked at.
EatsAlways(s, e) == e.type = "SYN"

Eats(s, e) == s.eat /\ e.type = "SYN"

SpeedMod ==
  /\ At("SpeedMod", "modify")
  /\ \/ Eats(S, ev) /\ Drop /\ Keep([S EXCEPT !.eat = FALSE]) /\ UNCHANGED due
     \/ IsMove(ev) /\ Accumulate(ev.code, ev.code, S)
     \/ ~Eats(S, ev) /\ ~IsMove(ev) /\ Forward(ev) /\ UNCHANGED <<st, due>>
  /\ UNCHANGED <<Environment, out, down, pressure>>

\* While the trigger is held, movement turns the wheel of its axis.
Wheel(axis) == IF axis = REL_X THEN REL_HWHEEL ELSE REL_WHEEL

Rel2Scroll ==
  /\ At("Rel2Scroll", "modify")
  /\ \/ Eats(S, ev) /\ Drop /\ Keep([S EXCEPT !.eat = FALSE]) /\ UNCHANGED due
     \/ /\ IsKey(ev, D.key)
        /\ Drop /\ Keep([S EXCEPT !.eat = TRUE, !.on = ev.value # 0]) /\ UNCHANGED due
     \/ S.on /\ IsMove(ev) /\ Accumulate(ev.code, Wheel(ev.code), [S EXCEPT !.eat = FALSE])
     \/ /\ ~Eats(S, ev) /\ ~IsKey(ev, D.key) /\ ~(S.on /\ IsMove(ev))
        /\ Forward(ev) /\ Keep([S EXCEPT !.eat = FALSE]) /\ UNCHANGED due
  /\ UNCHANGED <<Environment, out, down, pressure>>

Mirrored(e) ==
  IF e.type = "REL" /\ e.code \in D.rel THEN [e EXCEPT !.value = -@]
  ELSE IF e.type = "ABS" /\ e.code \in D.abs THEN [e EXCEPT !.value = IntMax - @]
  ELSE e

Mirror ==
  /\ At("Mirror", "modify")
  /\ Forward(Mirrored(ev))
  /\ UNCHANGED <<Environment, st, out, down, due, pressure>>

\* X is exchanged for Y in events of the types that are to be rotated.
Rotate ==
  /\ At("Rotate", "modify")
  /\ Forward(IF ev.type \in D.types /\ ev.code \in Axis THEN [ev EXCEPT !.code = 1 - @] ELSE ev)
  /\ UNCHANGED <<Environment, st, out, down, due, pressure>>

---------------------------------------------------------------------------
(* Touch screens.                                                          *)

\* modify() of abs2rel on a sync: x, y and the sync are sent one by one, in
\* the same event, of which only the code and the value are set.
SendAxis(axis, at) ==
  \/ /\ S.seen[axis] = 2
     /\ SendThen(F.next, [ev EXCEPT !.code = axis, !.value = S.acc[axis]], at)
  \/ /\ S.seen[axis] # 2
     /\ stack' = <<[Top EXCEPT !.at = at]>> \o Tail(stack)
     /\ UNCHANGED ev

Abs2RelSync ==
  /\ \/ At("Abs2Rel", "modify") /\ ev.type = "SYN" /\ SendAxis(REL_X, "y")
     \/ At("Abs2Rel", "y") /\ SendAxis(REL_Y, "syn")
     \/ /\ At("Abs2Rel", "syn")
        /\ SendThen(F.next, [ev EXCEPT !.type = "SYN", !.value = 0], "again")
  /\ UNCHANGED <<Environment, st, out, down, due, pressure>>

\* Mutant: the positions of the last stroke are not forgotten.
PenUpNothing(s) == s

\* xstate, ystate; reset_x, reset_y.
PenUp(s) == [s EXCEPT !.seen = Initial.seen]

\* Then the sync is sent a second time, for it is not an absolute event.
Abs2Rel ==
  /\ At("Abs2Rel", "again") \/ (At("Abs2Rel", "modify") /\ ev.type # "SYN")
  /\ \/ ev.type # "ABS" /\ Forward(ev) /\ UNCHANGED st
     \/ /\ ev.type = "ABS" /\ ev.code \in Axis
        /\ Drop
        /\ Keep([S EXCEPT !.acc[ev.code] = ev.value - S.last[ev.code],
                          !.last[ev.code] = ev.value,
                          !.seen[ev.code] = IF @ < 2 THEN @ + 1 ELSE @])
     \/ /\ ev.type = "ABS" /\ ev.code \notin Axis
        /\ Drop
        /\ Keep(IF IsAbs(ev, ABS_PRESSURE) /\ ev.value = 0 THEN PenUp(S) ELSE S)
  /\ UNCHANGED <<Environment, out, down, due, pressure>>

\* check_treshold.
Reached(value, treshold) ==
  IF treshold < 0 THEN value # 0 /\ value < -treshold ELSE value > treshold

\* Mutant: the key is pressed but never released.
CrossedUp(e, s) == Reached(e.value, D.treshold) /\ ~s.on

Crossed(e, s) == Reached(e.value, D.treshold) # s.on

\* The event is sent on first and looked at afterwards.
PressureToKey ==
  \/ /\ At("PressureToKey", "modify")
     /\ SendThen(F.next, ev, "sent")
     /\ pressure' = IF IsAbs(ev, ABS_PRESSURE) THEN [pressure EXCEPT ![Self] = ev.value]
                                               ELSE pressure
     /\ UNCHANGED <<Environment, st, out, down, due>>
  \/ /\ At("PressureToKey", "sent")
     /\ \/ /\ IsAbs(ev, ABS_PRESSURE) /\ Crossed(ev, S)
           /\ Forward(E("KEY", D.key, IF S.on THEN 0 ELSE 1))
           /\ Keep([S EXCEPT !.on = ~@])
        \/ ~(IsAbs(ev, ABS_PRESSURE) /\ Crossed(ev, S)) /\ Drop /\ UNCHANGED st
     /\ UNCHANGED <<Environment, out, down, due, pressure>>

\* A double that does not fit into an int becomes the smallest one (x86).
ToInt(x) == IF x \in Int32 THEN x ELSE -IntMax - 1

Scaled(e) ==
  LET max == D.max[e.code] offset == e.value - D.min[e.code]
  IN  [e EXCEPT !.value = IF max = 0 THEN -IntMax - 1 ELSE ToInt(Quotient(IntMax * offset, max))]

ScaleAbs ==
  /\ At("ScaleAbs", "modify")
  /\ Forward(IF ev.type = "ABS" /\ ev.code \in Axis THEN Scaled(ev) ELSE ev)
  /\ UNCHANGED <<Environment, st, out, down, due, pressure>>

\* The first position behind a pen up is the estimate; then that is a float of
\* which only the range is kept.  seen is 0 for the reset flag.
Kalman ==
  /\ At("Kalman", "modify")
  /\ \/ /\ ev.type = "ABS" /\ ev.code \in Axis
        /\ \/ S.seen[ev.code] = 0 /\ Forward(ev)
           \/ S.seen[ev.code] = 1 /\ \E x \in scene.estimates : Forward([ev EXCEPT !.value = x])
        /\ Keep([S EXCEPT !.seen[ev.code] = 1])
     \/ /\ IsAbs(ev, ABS_PRESSURE) /\ ev.value = 0
        /\ Forward(ev) /\ Keep(PenUp(S))
     \/ /\ ~(ev.type = "ABS" /\ ev.code \in Axis) /\ ~(IsAbs(ev, ABS_PRESSURE) /\ ev.value = 0)
        /\ Forward(ev) /\ UNCHANGED st
  /\ UNCHANGED <<Environment, out, down, due, pressure>>

\* Mutant: the end of the ring is one too far.
WrapLate(i, n) == IF i > n THEN 0 ELSE i

\* i % n
Wrap(i, n) == i - n * Quotient(i, n)

\* add: the sample goes behind the head; the ring is taken for full when head
\* and tail are far apart.
Added(s, c, value) ==
  LET full == Abs(s.head[c] - s.tail[c]) >= D.n - 1
      head == Wrap(s.head[c] + 1, D.n)
  IN  [s EXCEPT !.tail[c] = IF full THEN Wrap(@ + 1, D.n) ELSE @,
                !.head[c] = head,
                !.coord[c][head + 1] = value]

\* calculate: the loop goes from the head up to the tail, over samples that
\* have not been taken yet or long ago, and what it has last seen remains.
Turns(s, c) == {k \in 0 .. D.n - 1 : Wrap(s.head[c] + k, D.n) = s.tail[c]}
Average(s, c) ==
  LET k == CHOOSE k \in Turns(s, c) : TRUE
  IN  IF k = 0 THEN 0 ELSE Quotient(s.coord[c][Wrap(s.head[c] + k - 1, D.n) + 1], k)

Sampled(e) == e.type = "ABS" /\ (e.code \in Axis \/ (e.code = ABS_PRESSURE /\ e.value # 0))
SampleOf(e) == IF e.code = ABS_PRESSURE THEN 2 ELSE e.code

WeightedAverageAbs ==
  /\ \/ /\ At("WeightedAverageAbs", "modify") /\ Sampled(ev)
        /\ LET c == SampleOf(ev)
               s == Added(S, c, ev.value)
           IN  \/ D.n = 0 /\ Never("trap") /\ UNCHANGED st
               \/ D.n # 0 /\ Turns(s, c) = {} /\ Never("loop") /\ Keep(s)
               \/ /\ D.n # 0 /\ Turns(s, c) # {}
                  /\ Forward([ev EXCEPT !.value = Average(s, c)]) /\ Keep(s)
     \/ /\ At("WeightedAverageAbs", "modify") /\ IsAbs(ev, ABS_PRESSURE) /\ ev.value = 0
        /\ Forward(ev)
        /\ Keep([S EXCEPT !.head = Initial.head, !.tail = Initial.tail])
     \/ /\ At("WeightedAverageAbs", "modify") /\ ~Sampled(ev)
        /\ ~(IsAbs(ev, ABS_PRESSURE) /\ ev.value = 0)
        /\ Forward(ev) /\ UNCHANGED st
  /\ UNCHANGED <<Environment, out, down, due, pressure>>

---------------------------------------------------------------------------
(* Joining lines.                                                          *)

\* Mutant: the size of the queue is not looked at.
InsertedAlways(queue) == Append(queue, ev)

\* insert_queue copies the event, unless the queue is full.
Inserted(queue) == IF Len(queue) < D.history THEN Append(queue, ev) ELSE queue

\* Mutant: the type of the event is not looked at.
IsReportCode(e) == e.code = 0

IsReport(e) == e.type = "SYN" /\ e.code = 0

\* flush_queue passes copies; the sync is the event the barrier was called
\* with.
Barrier ==
  /\ \/ /\ At("Barrier", "modify") /\ ~IsReport(ev)
        /\ Drop
        /\ Keep([S EXCEPT !.queue = Inserted(@)])
     \/ /\ At("Barrier", "flush") \/ (At("Barrier", "modify") /\ IsReport(ev))
        /\ \/ /\ S.queue # <<>>
              /\ SendThen(F.next, Head(S.queue), "flush")
              /\ Keep([S EXCEPT !.queue = Tail(@)])
           \/ S.queue = <<>> /\ Forward(Top.ev) /\ UNCHANGED st
  /\ UNCHANGED <<Environment, out, down, due, pressure>>

\* evf_handle_send: straight into the filter that is attached, if there is one.
Send(at) ==
  \/ F.handle # 0 /\ SendThen(F.handle, ev, at)
  \/ F.handle = 0 /\ stack' = <<[Top EXCEPT !.at = at]>> \o Tail(stack) /\ UNCHANGED ev

\* The filter behind gets what the other line has made of the event.
CopyToHandle ==
  /\ \/ At("CopyToHandle", "modify") /\ Send("sent")
     \/ At("CopyToHandle", "sent") /\ Forward(ev)
  /\ UNCHANGED <<Environment, st, out, down, due, pressure>>

\* Events of one type and code leave through the handle; a sync goes with
\* them, and to the next filter if that got anything after the last of them.
Redirected(e) == e.type = D.type /\ e.code = D.code

FilterToHandle ==
  /\ \/ /\ At("FilterToHandle", "modify")
        /\ \/ ev = Syn /\ S.on /\ Send("synced")
           \/ ~(ev = Syn /\ S.on) /\ Redirected(ev) /\ Send("sent")
           \/ ~(ev = Syn /\ S.on) /\ ~Redirected(ev) /\ SendThen(F.next, ev, "passed")
        /\ UNCHANGED st
     \/ /\ At("FilterToHandle", "synced")
        /\ IF S.passed THEN Forward(ev) ELSE Drop
        /\ UNCHANGED st
     \/ At("FilterToHandle", "sent") /\ Drop /\ Keep([S EXCEPT !.on = TRUE, !.passed = FALSE])
     \/ At("FilterToHandle", "passed") /\ Drop /\ Keep([S EXCEPT !.passed = TRUE])
  /\ UNCHANGED <<Environment, out, down, due, pressure>>

---------------------------------------------------------------------------

Modify == \/ PassOn \/ Commit \/ NoRepeat \/ KeySubstitute \/ KeyLock \/ Btn2Rel
          \/ SpeedMod \/ Rel2Scroll \/ Mirror \/ Rotate \/ Abs2RelSync \/ Abs2Rel
          \/ PressureToKey \/ ScaleAbs \/ Kalman \/ WeightedAverageAbs
          \/ Barrier \/ CopyToHandle \/ FilterToHandle

\* A loop goes on for ever; a process that has been killed stays so.
Halted == stack # <<>> /\ Top.at \in {"loop", "trap"} /\ UNCHANGED vars

Next == Modify \/ Halted \/ \E d \in Devices : Packet(d) \/ Read(d)

Spec == Init /\ [][Next]_vars

---------------------------------------------------------------------------
(* Properties.                                                             *)

Kind(k) == {f \in Filters : scene.filters[f].kind = k}

\* SpeedMod and Rel2Scroll neither lose nor invent movement, however it is
\* split into events, axes and periods of scrolling: what has gone in and not
\* come out is what they still hold, and that is less than one step.
Conserved ==
  \A f \in Kind("SpeedMod") \cup Kind("Rel2Scroll"), a \in Axis :
    /\ due[f][a] = st[f].acc[a]
    /\ Data(f).mod[a] # 0 => Abs(st[f].acc[a]) < Abs(Data(f).mod[a])

\* Barriers keep the packets of joined devices apart ("especially usefull when
\* routing several sources of input events so that they are not mixed up",
\* docs/html/filters.html): what a line has written since the last sync is the
\* beginning of a packet of one device, in order, less what the barrier of
\* that device had no room for.
Kept(d) ==
  LET p == packet[d]
      room == Data(scene.roots[d]).history
  IN  IF Len(p) - 1 <= room THEN p ELSE Append(SubSeq(p, 1, room), Syn)

PacketsApart ==
  [][\A f \in Kind("Commit") :
       scene.joined /\ out'[f] # out[f] => \E d \in Devices : IsPrefix(out'[f], Kept(d))]_vars

\* A line presses a key that is up, and repeats and releases a key it has
\* pressed, also when filters lock, substitute and generate keys.
KeysAlternate ==
  At("Commit", "modify") /\ ev.type = "KEY" =>
    (ev.value = 1 <=> ev.code \notin down[Self])

Quiet == stack = <<>> /\ \A d \in Devices : unread[d] = <<>>

\* Once a packet has gone through, the key of a PressureToKey filter is down
\* on the virtual device exactly when the pressure is beyond the threshold.
KeyFollowsPressure ==
  Quiet => \A f \in Kind("PressureToKey"), c \in Kind("Commit") :
    Data(f).key \in down[c] <=> Reached(pressure[f], Data(f).treshold)

\* Filters swallow syncs: of devices that send one event per packet never one
\* that was due, however many such filters there are in the line.
Single == \A d \in Devices : \A p \in scene.packets[d] : Len(p) = 1
SinglesSynced ==
  Quiet /\ Single =>
    \A f \in Kind("Commit") : out[f] = <<>> \/ Last(out[f]).type = "SYN"

\* The keys move the pointer as their parameters are named (btn2rel.c:
\* "Key to move pointer up"), although alloc and modify() both have up and down
\* the wrong way round: unless the key has another meaning too, or the number
\* of the axis is that of a key, as that of REL_X is of every key that is not
\* set.
Direction == [keyup |-> <<REL_Y, -1>>, keydown |-> <<REL_Y, 1>>,
              keyleft |-> <<REL_X, -1>>, keyright |-> <<REL_X, 1>>]
KeysMoveAsNamed ==
  [][At("Btn2Rel", "modify") /\ ev.type = "KEY" /\ ev.value # 0 =>
       \A j \in DOMAIN F.values :
         LET name == Btn2RelParams[j].name
         IN  /\ name \in DOMAIN Direction /\ F.values[j] = ev.code
             /\ \A i \in DOMAIN F.values : F.values[i] # Direction[name][1] /\ (i # j => F.values[i] # ev.code)
             => /\ ev'.type = "REL" /\ ev'.code = Direction[name][1]
                /\ ev'.value * Direction[name][2] > 0]_vars

\* Behind ScaleAbs the positions of a calibrated device are positions on the
\* screen ("scaling absolute events to range from 0 to MAX_INT. Some other
\* filters needs this filter", docs/html/filters.html), also when they are
\* mirrored and rotated there.
InScreen ==
  At("Commit", "modify") /\ ev.type = "ABS" /\ ev.code \in Axis /\ Kind("ScaleAbs") # {}
    => ev.value \in 0 .. IntMax

\* The pointer does not jump when the pen comes down: a line with Abs2Rel moves
\* it by the distance of two positions of the same stroke (in an event that has
\* the type of the sync), and behind Kalman a stroke begins where the pen does,
\* wherever the one before has ended.
NoJump ==
  At("Commit", "modify") /\ ev.code \in Axis =>
    LET drawn == stroke[1][ev.code]
    IN  /\ ev.type \in {"REL", "SYN"} /\ ev.value # 0 /\ Kind("Abs2Rel") # {} =>
             Len(drawn) = 2 /\ ev.value = drawn[2] - drawn[1]
        /\ ev.type = "ABS" /\ Kind("Kalman") # {} =>
             drawn # <<>> /\ (Len(drawn) = 1 => ev.value = drawn[1])

\* The rings of WeightedAverageAbs: whatever memory has held, an index that is
\* once inside its ring remains there, so that the loop over it ends; and those
\* of X always are.
InRing(f, c) == {st[f].head[c], st[f].tail[c]} \subseteq 0 .. Data(f).n - 1
RingsKept ==
  /\ [](\A f \in Kind("WeightedAverageAbs") : Data(f).n > 0 => InRing(f, 0))
  /\ [][/\ \A f \in Kind("WeightedAverageAbs"), c \in 0 .. 2 : InRing(f, c) => InRing(f, c)'
        /\ At("WeightedAverageAbs", "modify") /\ Sampled(ev) /\ InRing(Self, SampleOf(ev))
             => Top'.at # "loop"]_vars
=============================================================================
