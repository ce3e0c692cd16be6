SPECIFICATION Spec
CONSTANTS
  Shells = {"p1"}
  Plans <- GritPlan
  TeeFails = TRUE
INVARIANTS
  SuccessIsFresh
