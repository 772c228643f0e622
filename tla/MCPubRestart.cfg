CONSTANTS
  Eq = {e1, e2}
  Type = {light, switch}
  DefaultType = light
  Feature = {"restart", "birth"}
SPECIFICATION Spec
SYMMETRY EqSymmetry
INVARIANT NoGhost
