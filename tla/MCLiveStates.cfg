SPECIFICATION Spec
CONSTANTS
  s = s
  b = b
  on = on
  level = level
  None = None
  Channel = {s, b}
  Cmd = {on, level}
  Wirings <- Readbacks
  MaxValue = 2
  MaxRestarts = 1
  MaxEvents = 2
  Features = {}
INVARIANTS TypeOK RetainedKnown
PROPERTIES SyncHeals ClickKeepsHeard
CHECK_DEADLOCK FALSE
