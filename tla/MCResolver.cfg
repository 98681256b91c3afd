SPECIFICATION Spec
CONSTANTS
  c1 = c1
  c2 = c2
  s1 = s1
  s2 = s2
  Callers <- MCCallers
  Sockets <- MCSockets
  TimeoutArg = 0
  DefaultTimeout = 2
  Servers <- MCServers
  MaxIps = 2
  Replies <- MCReplies
  TvUpdated = TRUE
  Calls = 3
  Signals = 1
  NoSocket = NoSocket
CHECK_DEADLOCK FALSE
INVARIANTS
  TypeOK
  DescriptorsAccounted
  ReturnSound
  NoCrossTalk
  WithinTimeout
PROPERTY
  Returns
