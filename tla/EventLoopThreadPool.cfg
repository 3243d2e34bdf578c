SPECIFICATION FairSpec
CONSTANTS
  MaxThreads = 2
  UIntMod = 4
INVARIANTS TypeOK PublishedIsAlive ReturnedIsReady QuitMeetsLoop
PROPERTIES StartReturns JoinReturns RoundRobinUntilWrap
CHECK_DEADLOCK FALSE
