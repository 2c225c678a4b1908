----------------------------- MODULE MCPidLock -----------------------------
(* Small instances of PidLock.                                             *)
EXTENDS PidLock, TLC

\* Instances do not differ, nor do pids: nothing counts or compares them.
Alike == Permutations(Instance) \cup Permutations(Pid)
=============================================================================
