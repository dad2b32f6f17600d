CONSTANTS
  InitialMax = 1
  MaxCount = 3
  MaxServed = 2
  Paths <- TwoPaths
  Routes <- OneRoute
  Reentrant = TRUE
SPECIFICATION Spec
INVARIANTS
  TypeOK
  TableSound
  DescriptorsClosed
PROPERTIES
  ChainOrder
  FreesSetOrCleared
CHECK_DEADLOCK FALSE
