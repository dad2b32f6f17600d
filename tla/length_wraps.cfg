SPECIFICATION Spec
CONSTANTS
  MaxHeader = 11
  MaxBody = 2
  MaxText = 2
  LengthSpan = 4
  DecBase = 3
  HexBase = 3
INVARIANT OverflowRefused
CHECK_DEADLOCK FALSE
