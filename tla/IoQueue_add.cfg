\* Callbacks add members while the list is being walked, as evfd's hotplug
\* callback does; removal by return value and between two waits.  A destroyed
\* queue stops.
SPECIFICATION LiveSpec
CONSTANTS
  Fd <- Fds
  MaxMembers = 3
  CntModulus = 4
  AddInCallback = TRUE
  RemInCallback = FALSE
  Timeout = TRUE
  ReturnFlags <- UsedFlags
INVARIANTS
  IInv
  SpuriousOnlyFresh
PROPERTIES
  WalkDescends
  ImplementsWatchSet
CHECK_DEADLOCK FALSE
