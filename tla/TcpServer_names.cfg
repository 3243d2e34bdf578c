SPECIFICATION Spec
CONSTANTS
  Conns = {c1, c2, c3}
  IoLoops = {io1}
  Base = base
  NoConn = NoConn
  IdMod = 2
  MaxSends = 0
INVARIANT MapHoldsActive
CHECK_DEADLOCK FALSE
SYMMETRY Symmetry
