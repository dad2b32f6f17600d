CONSTANTS
  Conns = {c1}
  MaxMsgs = 2
  MaxDialogue = 4
  Async = FALSE
  Calls <- Answering
SPECIFICATION Spec
INVARIANTS
  EndWaitsForDrain
CHECK_DEADLOCK FALSE
