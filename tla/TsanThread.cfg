CONSTANTS
  Slots = {s1, s2}
  MaxThreads = 4
  QuarantineSize = 1
  MaxReuse = 2
  MaxCreated = 5
SPECIFICATION FairSpec
INVARIANTS
  RegistryConsistent
  HandlesResolve
  EdgesKept
PROPERTIES
  InterceptorsReturn
CHECK_DEADLOCK FALSE
