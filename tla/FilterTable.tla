----------------------------- MODULE FilterTable -----------------------------
(***************************************************************************)
(* The filters that can be loaded (evf_filter.c), the parameters each of   *)
(* them takes, and what its creat and alloc functions make of the values:  *)
(* the part of self->data that does not change afterwards.                 *)
(*                                                                         *)
(* The values come in the order of the table (evf_load_params stores them  *)
(* through its variable arguments in that order); which value ends up      *)
(* where also depends on the order of creat's arguments to alloc.          *)
(***************************************************************************)
EXTENDS Integers, Sequences

CONSTANTS
  Null,     \* no default: a mandatory parameter
  IntMax    \* INT_MAX

ASSUME IntMaxAssumption == IntMax \in Nat

\* lim is the set of integers that are allowed.
Int32 == -IntMax - 1 .. IntMax
Param(name, type, lim, dflt) == [name |-> name, type |-> type, lim |-> lim, dflt |-> dflt]

NoText == ""

Number(name, lim, dflt) == Param(name, "int", lim, dflt)
Str(name, dflt) == Param(name, "str", {}, dflt)
Key(name, dflt) == Param(name, "key", {}, dflt)
Flag(name, dflt) == Param(name, "bool", {}, dflt)

---------------------------------------------------------------------------
(* Keys.                                                                   *)

KeyLockParams == <<Key("Key", Null)>>
KeyLockAlloc(v) == [key |-> v[1]]

KeySubstituteParams == <<Key("KeyFrom", Null), Key("KeyTo", Null)>>
KeySubstituteAlloc(v) == [from |-> v[1], to |-> v[2]]

Btn2RelParams ==
  <<Key("keyup", "NO_KEY"), Key("keydown", "NO_KEY"), Key("keyleft", "NO_KEY"),
    Key("keyright", "NO_KEY"), Key("leftbtn", "NO_KEY"), Key("middlebtn", "NO_KEY"),
    Key("rightbtn", "NO_KEY")>>

\* Mutant: creat hands the keys to alloc in the order of alloc's parameters.
Btn2RelAllocStraight(v) ==
  [up |-> v[1], down |-> v[2], left |-> v[3], right |-> v[4],
   lbtn |-> v[5], mbtn |-> v[6], rbtn |-> v[7]]

\* creat calls alloc(up, down, ...), which is declared alloc(down, up, ...).
Btn2RelAlloc(v) ==
  [up |-> v[2], down |-> v[1], left |-> v[3], right |-> v[4],
   lbtn |-> v[5], mbtn |-> v[6], rbtn |-> v[7]]

---------------------------------------------------------------------------
(* Movement.                                                               *)

SpeedModParams == <<Number("xmod", Int32, "1"), Number("ymod", Int32, "1")>>
SpeedModAlloc(v) == [mod |-> [a \in 0 .. 1 |-> v[1 + a]]]

Rel2ScrollParams ==
  <<Key("TriggerButton", Null), Number("Xmod", Int32, "1"), Number("Ymod", Int32, "1")>>
Rel2ScrollAlloc(v) == [key |-> v[1], mod |-> [a \in 0 .. 1 |-> v[2 + a]]]

MirrorParams ==
  <<Flag("MirrorRelX", "false"), Flag("MirrorRelY", "false"),
    Flag("MirrorAbsX", "false"), Flag("MirrorAbsY", "false")>>
MirrorAlloc(v) == [rel |-> {a \in 0 .. 1 : v[1 + a]}, abs |-> {a \in 0 .. 1 : v[3 + a]}]

RotateParams == <<Flag("RotateAbs", "true"), Flag("RotateRel", "true")>>
RotateAlloc(v) == [types |-> {t \in {"ABS", "REL"} : v[IF t = "ABS" THEN 1 ELSE 2]}]

---------------------------------------------------------------------------
(* Touch screens.                                                          *)

PressureToKeyParams == <<Number("treshold", Int32, Null), Key("key", Null)>>
PressureToKeyAlloc(v) == [treshold |-> v[1], key |-> v[2]]

ScaleAbsParams ==
  <<Number("maxx", Int32, Null), Number("maxy", Int32, Null), Number("maxp", Int32, "32767"),
    Number("minx", Int32, "0"), Number("miny", Int32, "0"), Number("minp", Int32, "32767")>>

\* Mutant: the arguments of alloc come in another order.
ScaleAbsAllocSwapped(v) == [max |-> [a \in 0 .. 1 |-> v[4 + a]], min |-> [a \in 0 .. 1 |-> v[1 + a]]]

ScaleAbsAlloc(v) == [max |-> [a \in 0 .. 1 |-> v[1 + a]], min |-> [a \in 0 .. 1 |-> v[4 + a]]]

KalmanParams == <<Param("kx", "float", {}, Null), Param("ky", "float", {}, Null)>>
KalmanAlloc(v) == [gain |-> [a \in 0 .. 1 |-> v[1 + a]]]

WeightedAverageAbsParams == <<Number("samples", 0 .. 10, Null)>>
WeightedAverageAbsAlloc(v) == [n |-> v[1]]

---------------------------------------------------------------------------
(* Lines and handles.                                                      *)

\* The table of barrier has no end mark; that of the build is the padding
\* behind it.
BarrierParams == <<Number("history", 0 .. 100, "50")>>
BarrierAlloc(v) == [history |-> v[1]]

DumpParams == <<Str("prefix", NoText), Param("file", "file", {}, "stdout")>>
DumpAlloc(v) == [prefix |-> v[1], file |-> v[2]]

HandleParams == <<Str("HandleName", Null)>>
CopyToHandleAlloc(v) == [name |-> v[1]]
GetFromHandleAlloc(v) == [name |-> v[1]]

FilterToHandleParams ==
  <<Str("HandleName", Null), Param("EventType", "evtype", {}, Null),
    Number("EventCode", Int32, Null)>>
FilterToHandleAlloc(v) == [name |-> v[1], type |-> v[2], code |-> v[3]]

NoRepeatAlloc(v) == [none |-> {}]
Abs2RelAlloc(v) == [none |-> {}]

---------------------------------------------------------------------------

\* evf_filters, with the tables of parameters.
Table == [
  Dump               |-> DumpParams,
  NoRepeat           |-> <<>>,
  PressureToKey      |-> PressureToKeyParams,
  SpeedMod           |-> SpeedModParams,
  Barrier            |-> BarrierParams,
  WeightedAverageAbs |-> WeightedAverageAbsParams,
  ScaleAbs           |-> ScaleAbsParams,
  Mirror             |-> MirrorParams,
  Rotate             |-> RotateParams,
  Abs2Rel            |-> <<>>,
  Btn2Rel            |-> Btn2RelParams,
  Kalman             |-> KalmanParams,
  Rel2Scroll         |-> Rel2ScrollParams,
  CopyToHandle       |-> HandleParams,
  GetFromHandle      |-> HandleParams,
  KeyLock            |-> KeyLockParams,
  FilterToHandle     |-> FilterToHandleParams,
  KeySubstitute      |-> KeySubstituteParams]

\* evf_creat, once the values are there.
Alloc(f, v) ==
  CASE f = "Dump" -> DumpAlloc(v)
    [] f = "NoRepeat" -> NoRepeatAlloc(v)
    [] f = "PressureToKey" -> PressureToKeyAlloc(v)
    [] f = "SpeedMod" -> SpeedModAlloc(v)
    [] f = "Barrier" -> BarrierAlloc(v)
    [] f = "WeightedAverageAbs" -> WeightedAverageAbsAlloc(v)
    [] f = "ScaleAbs" -> ScaleAbsAlloc(v)
    [] f = "Mirror" -> MirrorAlloc(v)
    [] f = "Rotate" -> RotateAlloc(v)
    [] f = "Abs2Rel" -> Abs2RelAlloc(v)
    [] f = "Btn2Rel" -> Btn2RelAlloc(v)
    [] f = "Kalman" -> KalmanAlloc(v)
    [] f = "Rel2Scroll" -> Rel2ScrollAlloc(v)
    [] f = "CopyToHandle" -> CopyToHandleAlloc(v)
    [] f = "GetFromHandle" -> GetFromHandleAlloc(v)
    [] f = "KeyLock" -> KeyLockAlloc(v)
    [] f = "FilterToHandle" -> FilterToHandleAlloc(v)
    [] f = "KeySubstitute" -> KeySubstituteAlloc(v)
=============================================================================
