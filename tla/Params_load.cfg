SPECIFICATION Spec
CONSTANTS
  Null = Null
  IntMax = 32767
  Word <- TheWords
  Rank <- TheRanks
  KeyCount <- Total
  KeyNames <- TheKeyNames
  Means <- TheMeanings
  Requests <- TheRequests
  Piece <- ThePieces
  Spell <- TheSpelling
INVARIANTS
  TypeOK
  LoadsAsSpecified
  ProbesInTable
  MissesOnlyMisplaced
PROPERTIES
  LoadEnds
