CONSTANTS
  t1 = t1
  t2 = t2
  t3 = t3
  NoTask = NoTask
  SEMAPHORE_CNT_MAX = 100
  Tasks <- ThreeTasks
  TryWriters <- ThreeTasks
SPECIFICATION FairSpec
INVARIANTS TypeOK ReadersExcludeWriters NoLostGrant TicketsConserved
PROPERTY OnlyWritersDelayWriters
