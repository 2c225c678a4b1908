SPECIFICATION Spec
CONSTANTS
  Null = Null
  Scenes <- AllScenes
  IntMax <- MaxValue
  MaxOut = 4
  Junk <- JunkAll
INVARIANTS
  TypeOK
  Conserved
  KeysAlternate
  KeyFollowsPressure
  SinglesSynced
  InScreen
  NoJump
PROPERTIES
  PacketsApart
  KeysMoveAsNamed
  RingsKept
