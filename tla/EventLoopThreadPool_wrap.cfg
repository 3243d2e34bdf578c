SPECIFICATION Spec
CONSTANTS
  MaxThreads = 3
  UIntMod = 4
PROPERTY RoundRobin
CHECK_DEADLOCK FALSE
