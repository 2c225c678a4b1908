\* Devices come and go from before the daemon starts until it ends, and every
\* call may fail.
SPECIFICATION LiveSpec
CHECK_DEADLOCK FALSE
CONSTANTS
  Fd <- Fds7
  Node <- Nodes3
  Configured <- TwoNodes
  InitialNodes <- NoneOrTwo
  MaxMembers = 3
  MaxEvents = 2
INVARIANTS
  QueueSound
  OwnOutput
  NoEcho
  DeliveredOnce
  Noticed
  BlocksOnlyBelow
PROPERTIES
  GoneIsClosed
  PluggedIsSeen
  SignalEnds
