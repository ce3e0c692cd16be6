SPECIFICATION FairSpec
CONSTANTS
  Threads = {t1, t2}
  Objects = {"a", "b", "f"}
  Locks = {"l", "m"}
  LockOf <- MCLockOf
  LockFree = {"f"}
  N = 2
  Part = {0, 1}
  Inputs <- MCInputs
  Fetch <- MCFetch
  Ops <- MCOps
  Blank <- MCBlank
  Nobody = nobody
  NoOp = noop
  NoResult = noresult
INVARIANTS
  LocksHeld
PROPERTIES
  Linearizable
  LocksReleased
