CONSTANTS
  Threads = {t1, t2}
  MaxSimultaneousAllocations = 2
  PageSize = 4
  MaxPower = 3
  Requests <- MCRequests
  MaxAllocs = 3
  MaxEvents = 2
CHECK_DEADLOCK FALSE
SPECIFICATION FairSpec
INVARIANTS
  SlotsAccountedFor
  HeldMemoryUsable
  FaultsExplained
PROPERTIES
  NothingHandedOutWhileDisabled
  CallsReturn
