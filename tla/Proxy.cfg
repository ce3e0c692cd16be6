SPECIFICATION Spec
CONSTANTS
  Conns = {c1}
  NoConn = NoConn
  Payload <- PayloadTwoOne
  Chunk = 2
  SndBuf = 1
  PeerEnds = {"fin", "reset"}
  Faults = FALSE
  Signals = 1
INVARIANTS
  TypeOK
  ClosedWasShut
  NoSilentLoss
  GiveUpOnlyWhenDrained
  CountsExact
  ReportConsistent
CHECK_DEADLOCK FALSE
