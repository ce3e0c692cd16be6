SPECIFICATION Spec
CONSTANTS
  Shells = {"p1", "p2"}
  Plans <- MCPlans
  TeeFails = FALSE
INVARIANTS
  SuccessIsFresh
  NoWedge
  CleanReconfigures
