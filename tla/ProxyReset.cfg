SPECIFICATION FairSpec
CONSTANTS
  Conns = {c1}
  NoConn = NoConn
  Payload <- PayloadOneOne
  Chunk = 1
  SndBuf = 1
  PeerEnds = {"fin", "reset"}
  Faults = FALSE
  Signals = 0
PROPERTIES
  LossReachesOtherPeer
CHECK_DEADLOCK FALSE
