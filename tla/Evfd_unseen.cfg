\* A device comes between the directory walk and the watch.
SPECIFICATION Spec
CHECK_DEADLOCK FALSE
CONSTANTS
  Fd <- Fds7
  Node <- Nodes3
  Configured <- TwoNodes
  InitialNodes <- NoneOrTwo
  MaxMembers = 3
  MaxEvents = 2
INVARIANTS
  EveryDeviceAnnounced
