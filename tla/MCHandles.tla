----------------------------- MODULE MCHandles -----------------------------
(* Small instances of Handles.                                             *)
EXTENDS Handles, TLC

CONSTANTS a, b, c, s1, s2, r1, r2, m1, m2, m3

Names == {a, b, c}
Senders == {s1, s2}
Receivers == {r1, r2}
Memories == {m1, m2, m3}

Symmetric == Permutations(Names) \cup Permutations(Memories)
=============================================================================
