SPECIFICATION Spec
CONSTANTS
  Conns = {c1, c2}
  IoLoops = {io1}
  Base = base
  NoConn = NoConn
  IdMod = 2
  MaxSends = 1
INVARIANTS TypeOK MapHoldsActiveUntilCollision DestroyedOnce
INVARIANTS FreedIsUnregistered NobodyCallsDeadServer
CHECK_DEADLOCK FALSE
SYMMETRY Symmetry
