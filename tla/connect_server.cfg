CONSTANTS
  Conns = {c1}
  MaxMsgs = 2
  MaxDialogue = 4
  Async = FALSE
  Calls <- CallsMade
  InitialMax = 1
  MaxCount = 1
  MaxServed = 2
  Paths <- PathsUsed
  Routes <- RoutesUsed
SPECIFICATION ConnectSpec
INVARIANTS
  ConnectTypeOK
  OneAnswer
PROPERTIES
  AnsweredAsDecided
CHECK_DEADLOCK FALSE
