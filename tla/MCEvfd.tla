------------------------------- MODULE MCEvfd -------------------------------
(* Small instances of Evfd.  Descriptor 3 is the directory stream that      *)
(* walk() never closes.                                                     *)
EXTENDS Evfd

Fds7 == 4 .. 10
Nodes3 == 1 .. 3
TwoNodes == {1, 2}
NoneOrTwo == {{}, TwoNodes}
JustTwo == {TwoNodes}
=============================================================================
