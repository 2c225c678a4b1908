\* Three instances, each a daemon or in the foreground, started at any moment;
\* crashes, pids used again by other instances and unrelated processes.
SPECIFICATION Spec
CONSTANTS
  Instance = {e1, e2, e3}
  Pid = {p1, p2, p3, p4}
  NoPid = NoPid
  Daemonize = {TRUE, FALSE}
SYMMETRY Alike
INVARIANTS
  LockInv
  Exclusive
PROPERTIES
  RefusedByInstance
