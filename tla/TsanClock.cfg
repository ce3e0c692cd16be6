CONSTANTS
  N = 3
  Syncs = {s1, s2}
  NoSync = NoSync
  Bounds <- MCBounds
SYMMETRY SyncSymmetry
SPECIFICATION Spec
INVARIANTS
  ClocksConform
  TablesSound
CHECK_DEADLOCK FALSE
