CONSTANTS
  Conns = {c1}
  MaxMsgs = 2
  MaxDialogue = 3
  Async = TRUE
  Calls <- Answering
SPECIFICATION FairSpec
PROPERTIES
  Reclaimed
CHECK_DEADLOCK FALSE
