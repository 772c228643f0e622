CONSTANTS
  Eq = {e1, e2}
  Type = {light}
  DefaultType = light
  Feature = {"offline", "refusal", "birth", "overlap", "reconfigure", "restart", "crash"}
SPECIFICATION Spec
SYMMETRY EqSymmetry
INVARIANT NoMissing
