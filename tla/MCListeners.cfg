SPECIFICATION Spec
CONSTANTS
  Cmd = {c1, c2}
  Process = {p1, p2, p3}
SYMMETRY Symmetric
INVARIANT TypeOK
PROPERTY LastListenerKept
CHECK_DEADLOCK FALSE
