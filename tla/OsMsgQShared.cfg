CONSTANTS
  a = a
  b = b
  c = c
  NoMsg = NoMsg
  Threads = {a, b, c}
  Senders = {a, b}
  Receivers = {b, c}
  Servers = {c}
  mMaxMsgs = 2
  Urgent = {FALSE, TRUE}
  SendHook = TRUE
  MaxSends = 2
SPECIFICATION FairSpec
CHECK_DEADLOCK FALSE
INVARIANTS TypeOK SlotsAccounted AssertionsHold
PROPERTIES ImplementsMsgQueue MessageArrives SendReturns
