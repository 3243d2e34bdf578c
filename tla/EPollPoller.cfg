SPECIFICATION FairSpec
CONSTANTS
  Channels = {c1, c2}
  Fds = {f1, f2}
  NoChannel = NoChannel
  NoFd = NoFd
  kInitEventListSize = 1
INVARIANTS TypeOK NoFatalEpollCtl  MapKnowsManaged
PROPERTY ReadyIsReported
