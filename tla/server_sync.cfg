CONSTANTS
  Conns = {c1}
  MaxMsgs = 2
  MaxDialogue = 4
  Async = FALSE
  Calls <- AllCalls
SPECIFICATION Spec
INVARIANTS
  TypeOK
  LifeCycle
  ResponsePurity
  LastRequestIsLast
  PromisedEndArmed
  TimerArmed
  CloseKept
  OnlyDrainEndsAgain
PROPERTIES
  NoResponseAfterEnd
  SessionSpec
CHECK_DEADLOCK FALSE
