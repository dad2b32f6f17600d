SPECIFICATION Spec
CONSTANTS
  Names = {A, B, C}
  Sizes = {3, 5}
  OtherSizes = {1, 3}
  HeadBase = 7
  HeadPerLine = 4
  RequestMax = 1
  ResponseMax = 1
  MaxLines = 3
  MaxFailures = 2
  SizeSpan = 64
INVARIANTS
  TypeOK
  TablesSound
  HeadFits
PROPERTY FailedAddKeeps
SYMMETRY NameSymmetry
CHECK_DEADLOCK FALSE
