CONSTANTS
  Conns = {c1}
  MaxMsgs = 2
  MaxDialogue = 3
  Async = TRUE
  Calls <- LateAnswering
SPECIFICATION Spec
INVARIANTS
  PromisedEndArmed
  CloseKept
PROPERTIES
  NoResponseAfterEnd
  SessionSpec
CHECK_DEADLOCK FALSE
