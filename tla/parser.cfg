SPECIFICATION Spec
CONSTANTS
  MaxHeader = 11
  MaxBody = 2
  MaxText = 2
  LengthSpan = 4
  DecBase = 3
  HexBase = 3
INVARIANTS
  TypeOK
  AssertionsHold
  BodyAsAnnounced
  LinesPaired
  LengthSound
PROPERTY MessageSpec
CHECK_DEADLOCK FALSE
