SPECIFICATION FairTimeoutSpec
CONSTANTS
  Functors = {f1}
  Threads = {t1}
  EventfdMax = 2
PROPERTY AllTasksExecuted
