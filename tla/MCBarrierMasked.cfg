CONSTANTS
  Order = {o1, o2}
  Timeout = 1
  MaxTime = 3
  MaxEvents = 2
  Reordered = FALSE
  OtherActors = TRUE
  Restarts = FALSE
SPECIFICATION Spec
SYMMETRY OrderSymmetry
PROPERTY LockEndsWithExpectedChange
CHECK_DEADLOCK FALSE
