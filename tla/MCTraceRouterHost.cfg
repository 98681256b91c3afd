SPECIFICATION Spec
CONSTANTS
  MaxTraceTTL = 4
  EveryTTLExpCount = 1
  TraceRouterTimeOut = 1
  Distance = 2
  ValidHost = TRUE
  TvUpdated = TRUE
  Senders = {}
  Strays = 0
  Signals = 0
CHECK_DEADLOCK FALSE
INVARIANT
  StopsAtHost
