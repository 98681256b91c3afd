SPECIFICATION Spec
CONSTANTS
  Times = 2
  Interval = 1
  Slack = 0
  Strays = 0
CHECK_DEADLOCK FALSE
INVARIANT
  AverageInRange
