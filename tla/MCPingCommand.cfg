SPECIFICATION ToolSpec
CONSTANTS
  Counts = {1}
  Rtts = {2}
  LastTTL = 3
  HostAt = 2
CHECK_DEADLOCK FALSE
INVARIANT
  StarIsTimeout
