SPECIFICATION Spec
CONSTANTS
  OffsetSpan = 8
  MaxPort = 9
  MaxUrl = 8
  KeySize = 2
  ValueSize = 3
  JsonSize = 16
  SizeSpan = 64
  MaxQuery = 6
INVARIANTS
  UrlTypeOK
  CutsDoNotMatter
  OnlyConnectRefused
  PartsMakeUp
  QueryDecoded
  QueryFaults
  JsonFits
CHECK_DEADLOCK FALSE
