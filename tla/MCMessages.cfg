SPECIFICATION MCSpec
CONSTANTS
  Hosts <- MCHosts
  Labels <- MCLabels
  HostAddresses <- MCAddresses
  MaxAddresses = 2
  MaxAnswers = 3
  Pids = {1, 65535}
  PackageSizes = {0, 3, 6}
  OptionWords = {0, 2, 10}
  Cuts = {0, 19, 24, 27, 28, 30, 35, 36, 67, 68}
  SendLen = 12
  Beyond = {0, 7}
  MaxEchoes = 2
  Counts = {1, 3, 4}
  Rtts = {2, 5}
  LastTTL = 3
  HostAt = 3
  Threads = {t1, t2}
  NoThread = NoThread
  Levels = {0, 6}
  MaxCalls = 3
SYMMETRY ThreadSymmetry
CHECK_DEADLOCK FALSE
INVARIANTS
  QueryNameRight
  NamesRead
  AddressesRead
  ChecksumVerifies
  ReplyRecognised
  ReportRead
  ProbeByProbe
  InitOnce
  Configured
