SPECIFICATION Spec
CONSTANTS
  w1 = w1
  w2 = w2
  c1 = c1
  c2 = c2
  plain = plain
  silent = silent
  empty = empty
  Workers <- MCTwoWorkers
  Callers <- MCCallers
  Tasks <- MCTasks
  NullFirst <- MCNullFirst
  NullSecond <- MCNullSecond
  Nobody = Nobody
  NoTask = NoTask
INVARIANTS
  TypeOK
  TakeHasTask
  FifoNoLoss
  NoLostWakeup
PROPERTIES
  Completes
  ExecutorSpec
