SPECIFICATION Spec
CONSTANTS
  Workers = {w1, w2}
  NumQueues = 2
  Jobs = {}
  Foreign = {f1}
  Malformed = {}
  Backlog <- EmptyQueues
  Target = 9
  Waits <- WaitsIn
  MaxErrors = 1
  Nil = Nil
  Pending = Pending
  Interval = 2
  Window = 1
  Grace = 1
  Second = 1
  MaxTime = 3
SYMMETRY WorkerSymmetry
INVARIANTS
  PollRateBounded
  CallsOutsideBounded
  JoinWithinGrace
  ReportIsFinal
