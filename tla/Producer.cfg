SPECIFICATION Spec
CONSTANTS
  NumQueues = 3
  NumJobs = 5
  BatchSize = 2
  old = old
  f1 = f1
  Leftover <- LeftoverThree
  Foreign = {old, f1}
  MaxDequeues = 1
INVARIANTS
  TypeOK
  FilledRoundRobin
  NothingLeftOver
  ZeroMeansEmpty
