---------------------------- MODULE MCFilterLine ----------------------------
(* Scenes for FilterLine: lines of filters, the devices at their ends, and  *)
(* the packets these send.                                                  *)
EXTENDS FilterLine, TLC

MaxValue == 7

Rel(code, value) == E("REL", code, value)
Press(code, value) == E("KEY", code, value)
Touch(code, value) == E("ABS", code, value)

Singles(events) == {<<e>> : e \in events}

Presses(keys) == {Press(k, v) : k \in keys, v \in 0 .. 2}

Filter(kind, values, next) ==
  [kind |-> kind, values |-> values, next |-> next, handle |-> 0]
SendsTo(filter, handle) == [filter EXCEPT !.handle = handle]
CommitAt == Filter("Commit", <<>>, 0)

\* One device, and its line.
Line(filters, packets) ==
  [filters |-> filters, roots |-> <<1>>, joined |-> FALSE, packets |-> <<packets>>]

\* Two mice with barriers; one is copied into the line of the other.
Joined(room) ==
  [filters |-> <<Filter("Barrier", <<room>>, 2),
                 SendsTo(Filter("CopyToHandle", <<"A">>, 3), 5),
                 CommitAt,
                 Filter("Barrier", <<room>>, 5),
                 Filter("GetFromHandle", <<"A">>, 6),
                 CommitAt>>,
   roots |-> <<1, 4>>,
   joined |-> TRUE,
   packets |-> <<{<<Rel(0, 1)>>, <<Rel(0, 1), Rel(1, 1)>>, <<Rel(1, 1), Rel(0, 1), Rel(8, 1)>>},
                 {<<Rel(0, 2)>>, <<Rel(0, 2), Rel(1, 2)>>, <<Rel(1, 2), Rel(0, 2), Rel(8, 2)>>}>>]

\* The X axis of one mouse goes into the line of another.
Split(handle) ==
  Line(<<SendsTo(Filter("FilterToHandle", <<"A", "REL", 0>>, 2), handle),
         CommitAt,
         Filter("GetFromHandle", <<"A">>, 4),
         CommitAt>>,
       Singles({Rel(0, 1), Rel(1, 1)}))

MouseEvents == {Rel(0, 1), Rel(0, -5), Rel(1, 3), Rel(1, -1), Press(30, 0), Press(30, 1)}
MousePackets == {<<Rel(0, 1)>>, <<Rel(0, 1), Rel(1, 3)>>, <<Rel(0, -5), Rel(1, -1)>>,
                 <<Press(30, 1)>>, <<Rel(1, -1), Press(30, 0)>>}

\* A mouse: slowed down, mirrored, rotated, with a scroll button.
Mouse ==
  Line(<<Filter("SpeedMod", <<2, 3>>, 2),
         Filter("Mirror", <<TRUE, FALSE, FALSE, TRUE>>, 3),
         Filter("Rotate", <<FALSE, TRUE>>, 4),
         Filter("Rel2Scroll", <<30, 2, -2>>, 5),
         Filter("Dump", <<"", "stdout">>, 6),
         CommitAt>>,
       Singles(MouseEvents))

\* One filter of movement alone, with packets of several events; divisors may
\* be negative, and 0.
Alone(kind, values) == Line(<<Filter(kind, values, 2), CommitAt>>, MousePackets)

\* A keyboard: a sticky key, a key replaced by another, keys that move.
Keyboard(packets) ==
  Line(<<Filter("NoRepeat", <<>>, 2),
         Filter("KeyLock", <<42>>, 3),
         Filter("KeySubstitute", <<58, 29>>, 4),
         Filter("Btn2Rel", <<0, 103, 0, 106, 96, 0, 97>>, 5),
         Filter("SpeedMod", <<3, 3>>, 6),
         CommitAt>>,
       packets)

KeyboardEvents == Presses({42, 58, 103, 96})
KeyboardPackets == Singles(Presses({42, 103})) \cup
                   {<<Press(96, 1), Press(42, 0)>>, <<Press(42, 1), Press(58, 1)>>,
                    <<Press(96, 0), Press(58, 0)>>, <<Press(103, 0), Press(42, 1)>>}

\* All keys of Btn2Rel are set, or some are not.
Arrows(lbtn, mbtn, rbtn) ==
  Line(<<Filter("Btn2Rel", <<103, 108, 105, 106, lbtn, mbtn, rbtn>>, 2), CommitAt>>,
       Singles(Presses({103, 108, 105, 106, 96})))

\* A touch screen with a pressure button.
Touchscreen(treshold, packets) ==
  Line(<<Filter("Mirror", <<FALSE, FALSE, TRUE, FALSE>>, 2),
         Filter("PressureToKey", <<treshold, 272>>, 3),
         Filter("Rotate", <<TRUE, FALSE>>, 4),
         Filter("Barrier", <<3>>, 5),
         CommitAt>>,
       packets)

TouchEvents == {Touch(0, 0), Touch(1, 3)} \cup {Touch(24, p) : p \in 0 .. 3}

\* The same with nothing between the button and the device.
Stylus(treshold) ==
  Line(<<Filter("Mirror", <<FALSE, FALSE, TRUE, FALSE>>, 2),
         Filter("PressureToKey", <<treshold, 272>>, 3),
         Filter("KeyLock", <<30>>, 4),
         Filter("Rotate", <<TRUE, FALSE>>, 5),
         CommitAt>>,
       Singles(TouchEvents \cup {Press(30, 0), Press(30, 1)}))

PenEvents == {Touch(a, x) : a \in 0 .. 1, x \in {1, 2, 4}} \cup {Touch(24, 0), Touch(24, 2)}

\* A calibrated touch screen: positions from 1 to 4.
Screen ==
  Line(<<Filter("ScaleAbs", <<4, 4, MaxValue, 1, 1, MaxValue>>, 2),
         Filter("Mirror", <<FALSE, FALSE, TRUE, FALSE>>, 3),
         Filter("Rotate", <<TRUE, FALSE>>, 4),
         CommitAt>>,
       Singles(PenEvents))

\* A touch screen as a touchpad.
Touchpad ==
  Line(<<Filter("Abs2Rel", <<>>, 2),
         Filter("Commit", <<>>, 3),
         Filter("Dump", <<"", "stdout">>, 0)>>,
       Singles({Touch(0, 0), Touch(0, 3), Touch(1, 3), Touch(24, 0), Touch(24, 2)}))

\* Smoothed positions.
Smooth(samples, events) ==
  Line(<<Filter("WeightedAverageAbs", <<samples>>, 2), CommitAt>>,
       Singles(events \cup {Touch(24, 0)}))
SmoothX(samples) == Smooth(samples, {Touch(0, 1), Touch(0, 4)})
SmoothYP(samples) == Smooth(samples, {Touch(1, 2), Touch(24, 2)})
Estimated ==
  Line(<<Filter("Kalman", <<"0.5", "0.5">>, 2), CommitAt>>, Singles(PenEvents))
  @@ [estimates |-> {0, 3}]

AllScenes ==
  {Joined(1), Joined(2), Joined(3), Split(0), Split(3), Mouse,
   Alone("SpeedMod", <<2, 3>>), Alone("SpeedMod", <<-2, 0>>),
   Alone("Rel2Scroll", <<30, 3, 2>>), Alone("Rel2Scroll", <<30, -3, 0>>),
   Keyboard(KeyboardPackets), Keyboard(Singles(KeyboardEvents)),
   Arrows(96, 97, 98), Arrows(96, 0, 0),
   Touchscreen(1, Singles(TouchEvents)), Touchscreen(-2, Singles(TouchEvents)),
   Stylus(1), Stylus(-2), Screen, Touchpad, SmoothX(0), SmoothX(2), SmoothX(3),
   SmoothYP(1), SmoothYP(3), Estimated}

JunkAll == {[head |-> 0, tail |-> 0, sample |-> 0], [head |-> 7, tail |-> 5, sample |-> -8],
            [head |-> 1, tail |-> -2, sample |-> 5]}
=============================================================================
