SPECIFICATION FairSpec
CONSTANTS
  Conns = {c1}
  IoLoops = {io1}
  Base = base
  NoConn = NoConn
  IdMod = 2
  MaxSends = 2
INVARIANT RawThisIsAlive
PROPERTIES AcceptedIsEstablished ClosedIsDestroyed DestructorReturns
CHECK_DEADLOCK FALSE
