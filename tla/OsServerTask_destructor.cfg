CONSTANTS
  a = a
  b = b
  o = o
  NoMsg = NoMsg
  Clients = {a}
  Owner = o
  mMaxMsgs = 1
  MaxCalls = 2
  MaxStarts = 1
SPECIFICATION FairSpec
CHECK_DEADLOCK FALSE
PROPERTY DestructorEnds
