\* Two devices are there when the daemon starts.
SPECIFICATION Spec
CHECK_DEADLOCK FALSE
CONSTANTS
  Fd <- Fds7
  Node <- Nodes3
  Configured <- TwoNodes
  InitialNodes <- JustTwo
  MaxMembers = 3
  MaxEvents = 2
INVARIANTS
  CallbackNeverBlocks
