CONSTANTS
  Setting <- AllFamilies
  MaxCommands = 4
  MaxSaved = 2
  OverrideType = {"light", "sensor"}
  Policy = {"sure_probable", "sure_only"}
SPECIFICATION Spec
INVARIANTS TypeOK ExclusionWins CommandsToldRight ReadbackNotDuplicated ExemptionPays StatesArrive OrdersRouted PreviewHonest
CHECK_DEADLOCK FALSE
