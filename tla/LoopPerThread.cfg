SPECIFICATION Spec
CONSTANTS
  Threads = {t1, t2}
  Loops = {l1, l2, l3}
  NoLoop = NoLoop
  NoThread = NoThread
INVARIANT OneLoopPerThread
CHECK_DEADLOCK FALSE
