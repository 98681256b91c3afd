SPECIFICATION ApiSpec
CONSTANTS
  w1 = w1
  c1 = c1
  d1 = d1
  q1 = q1
  p1 = p1
  t1 = t1
  short = short
  long = long
  Workers <- MCWorkers
  Callers <- MCCallers
  Tasks <- MCTasks
  NullFirst = {}
  NullSecond = {}
  Nobody = Nobody
  NoTask = NoTask
  Kind <- MCKind
  Ips <- MCIps
  LongIps <- MCLongIps
  IpLists <- MCIpLists
INVARIANTS
  OneStory
  NeverMixed
  AsyncAnswer
PROPERTY
  Answered
