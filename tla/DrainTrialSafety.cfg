SPECIFICATION FairSpec
CONSTANTS
  Workers = {w1, w2}
  NumQueues = 2
  j1 = j1
  j2 = j2
  j3 = j3
  Jobs = {j1, j2, j3}
  Foreign = {}
  Malformed = {}
  Backlog <- TwoQueues
  Target = 3
  Waits <- WaitsZero
  HistMax = 2
  MaxErrors = 1
  Nil = Nil
  Pending = Pending
INVARIANTS
  TypeOK
  OnePlace
  CountedOnce
  DoneMeansDrained
  LossIsAccounted
  ShutdownOvershoot
PROPERTIES
  NothingCountedAfterReturn
  PriorityOrder
  TrialTerminates
  DrainCompletes
