CONSTANTS
  Eq = {e1, e2}
  Type = {light}
  DefaultType = light
  Feature = {"offline", "refusal", "birth"}
SPECIFICATION FairSpec
INVARIANTS TypeOK NoGhost NoLiveRemoval
PROPERTY LockReleased
