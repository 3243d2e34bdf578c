SPECIFICATION FairSpec
CONSTANTS
  MaxBytes = 3
  MaxLen = 3
  highWaterMark_ = 2
INVARIANTS TypeOK InOrder NothingLostBeforePartial BufferedIsWatched FinAfterOutput
INVARIANTS KilledOnlyByLateSend DownOnce
CHECK_DEADLOCK FALSE
PROPERTIES ShutdownCompletes PeerCloseRemoves
