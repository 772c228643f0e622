CONSTANTS
  Eq = {e1}
  Type = {light}
  DefaultType = light
  Feature = {"restart", "refusal"}
SPECIFICATION Spec
SYMMETRY EqSymmetry
INVARIANT NoGhost
