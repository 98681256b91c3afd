SPECIFICATION Spec
CONSTANTS
  Times = 3
  Interval = 2
  Slack = 1
  Strays = 1
CHECK_DEADLOCK FALSE
INVARIANTS
  TypeOK
  InStep
  CountedOnce
  StatusSound
PROPERTIES
  Terminates
