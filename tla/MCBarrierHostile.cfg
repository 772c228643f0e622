CONSTANTS
  Order = {o1, o2}
  Timeout = 1
  MaxTime = 2
  MaxEvents = 1
  Reordered = TRUE
  OtherActors = TRUE
  Restarts = TRUE
SPECIFICATION Spec
SYMMETRY OrderSymmetry
INVARIANTS TypeOK UnprovedIsLocked GuardOwnsMarker
PROPERTY OneToggleAtATime
CHECK_DEADLOCK FALSE
