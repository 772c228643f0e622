CONSTANTS
  Order = {o1, o2, o3}
  Timeout = 1
  MaxTime = 4
  MaxEvents = 3
  Reordered = FALSE
  OtherActors = FALSE
  Restarts = FALSE
SPECIFICATION Spec
SYMMETRY OrderSymmetry
PROPERTY ToggleDoesWhatWasAsked
CHECK_DEADLOCK FALSE
