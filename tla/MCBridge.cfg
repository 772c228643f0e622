SPECIFICATION FairSpec
CONSTANTS
  light = light
  gate = gate
  Entity = {light, gate}
  Order = {1, 2, 3}
  Asked <- OneTopicEach
  None = None
  MaxStarts = 2
  MaxDrops = 1
  Features = {}
INVARIANTS TypeOK StateHonest OneAtATime RunsAsHeard
PROPERTY EveryOrderEnds
CHECK_DEADLOCK FALSE
