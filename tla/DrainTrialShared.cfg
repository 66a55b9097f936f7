SPECIFICATION Spec
CONSTANTS
  Workers = {w1, w2}
  NumQueues = 1
  j1 = j1
  j2 = j2
  j3 = j3
  Jobs = {j1, j2}
  Foreign = {j3}
  Malformed = {j3}
  Backlog <- OneQueue
  Target = 2
  Waits <- WaitsInAbove
  HistMax = 2
  MaxErrors = 1
  Nil = Nil
  Pending = Pending
SYMMETRY WorkerSymmetry
INVARIANT ResultAccounts
PROPERTY ImplementsLedger
