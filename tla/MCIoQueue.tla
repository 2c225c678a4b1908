----------------------------- MODULE MCIoQueue -----------------------------
(* Small instances of IoQueue.                                             *)
EXTENDS IoQueue

Fds == {3, 4, 5}

\* What the callbacks of the repository return.
UsedFlags == {{}, {"REM"}, {"REM", "CLOSE"}, {"REM", "CLOSE", "DFREE"}}

\* Callbacks that never ask for removal.
OkOnly == {{}}
=============================================================================
