SPECIFICATION Spec
CONSTANTS
  MaxTraceTTL = 3
  EveryTTLExpCount = 3
  TraceRouterTimeOut = 1
  Distance = 2
  ValidHost = TRUE
  TvUpdated = FALSE
  Senders = {1, 3}
  Strays = 1
  Signals = 1
CHECK_DEADLOCK FALSE
INVARIANTS
  HopsInStep
  NotBeyond
  BoundedTime
  PrintedOnChange
PROPERTY
  Terminates
