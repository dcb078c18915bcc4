CONSTANTS
  t1 = t1
  t2 = t2
  a1 = a1
  a2 = a2
  NoTimer = NoTimer
  Timers = {t1, t2}
  Threads = {a1}
  TIMER_MAX_REQUEST_MSGS = 1
  Period = 1
  MaxClock = 1
  MaxState = 2
  Deleters = {"deleteAsync", "destructorWhileStarted"}
  RoutineUsesTimer = {}
SPECIFICATION FairSpec
CHECK_DEADLOCK FALSE
INVARIANT QueueSorted
PROPERTIES StartedTimerFires WaiterIsAnswered
