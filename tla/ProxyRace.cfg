SPECIFICATION Spec
CONSTANTS
  Conns = {c1, c2}
  NoConn = NoConn
  Payload <- PayloadTwoNone
  Chunk = 2
  SndBuf = 1
  PeerEnds = {}
  Faults = FALSE
  Signals = 0
SYMMETRY ConnSymmetry
INVARIANTS
  CountNeverOvershoots
CHECK_DEADLOCK FALSE
