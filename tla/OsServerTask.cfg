CONSTANTS
  a = a
  b = b
  o = o
  NoMsg = NoMsg
  Clients = {a, b}
  Owner = o
  mMaxMsgs = 1
  MaxCalls = 3
  MaxStarts = 2
SPECIFICATION FairSpec
CHECK_DEADLOCK FALSE
INVARIANTS TypeOK AtMostOneRunner RunExitedBeforeDelete LateMessageNotHandled
PROPERTIES PostedIsHandled ShutdownCompletes DestructorReturns
