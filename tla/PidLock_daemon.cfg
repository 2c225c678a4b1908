\* Two daemons started one after the other.
SPECIFICATION Spec
CONSTANTS
  Instance = {e1, e2}
  Pid = {p1, p2, p3, p4}
  NoPid = NoPid
  Daemonize = {TRUE}
INVARIANTS
  OneDaemon
CHECK_DEADLOCK FALSE
