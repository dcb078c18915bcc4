CONSTANTS
  ua = ua
  u1 = u1
  u2 = u2
  t1 = t1
  t2 = t2
  None = None
  Threads = {ua, u1, u2}
  Collector = ua
  Transactions = {t1, t2}
  MaxEvents = 4
SYMMETRY Symmetry
SPECIFICATION Spec
CHECK_DEADLOCK FALSE
INVARIANTS TypeOK OneHolder HolderKeepsTree EventsAccounted NoWaiterForgotten
