CONSTANTS
  t1 = t1
  t2 = t2
  a1 = a1
  a2 = a2
  NoTimer = NoTimer
  Timers = {t1}
  Threads = {a1, a2}
  TIMER_MAX_REQUEST_MSGS = 2
  Period = 1
  MaxClock = 2
  MaxState = 5
  Deleters = {"deleteAsync", "destructorWhileStarted"}
  RoutineUsesTimer = {}
SPECIFICATION Spec
CHECK_DEADLOCK FALSE
SYMMETRY ThreadSymmetry
INVARIANTS TypeOK QueueMatchesTaskState NoLostUpdate NoDanglingTimer
PROPERTY ImplementsTimerService
