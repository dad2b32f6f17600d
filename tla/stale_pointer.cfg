CONSTANTS
  Conns = {c1}
  MaxMsgs = 2
  MaxDialogue = 4
  Async = TRUE
  Calls <- Answering
SPECIFICATION Spec
INVARIANTS
  NoStaleCall
CHECK_DEADLOCK FALSE
