SPECIFICATION FairSpec
CONSTANTS
  Functors = {f1, f2, f3}
  Threads = {t1, t2}
  EventfdMax = 2
INVARIANTS TypeOK NoLostWakeup QuitInterruptsPoll
PROPERTIES ImplementsTaskQueue QueuedRuns QuitEndsLoop
