SPECIFICATION FairSpec
CONSTANTS
  Conns = {c1}
  NoConn = NoConn
  Payload <- PayloadOneOne
  Chunk = 1
  SndBuf = 1
  PeerEnds = {"fin"}
  Faults = TRUE
  Signals = 0
INVARIANTS
  NoDescriptorLeak
PROPERTIES
  RelaysFaithfully
  LossReachesOtherPeer
  CleanupTerminates
CHECK_DEADLOCK FALSE
