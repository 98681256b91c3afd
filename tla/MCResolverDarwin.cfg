SPECIFICATION Spec
CONSTANTS
  c1 = c1
  c2 = c2
  s1 = s1
  s2 = s2
  Callers <- MCOneCaller
  Sockets <- MCSockets
  TimeoutArg = 2
  DefaultTimeout = 2
  Servers <- MCParsable
  MaxIps = 2
  Replies <- MCReplies
  TvUpdated = FALSE
  Calls = 1
  Signals = 1
  NoSocket = NoSocket
CHECK_DEADLOCK FALSE
INVARIANT
  WithinTimeout
