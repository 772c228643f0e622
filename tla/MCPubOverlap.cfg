CONSTANTS
  Eq = {e1, e2}
  Type = {light}
  DefaultType = light
  Feature = {"overlap", "birth"}
SPECIFICATION Spec
SYMMETRY EqSymmetry
INVARIANT NoGhost
