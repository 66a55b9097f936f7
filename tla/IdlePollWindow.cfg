SPECIFICATION Spec
CONSTANTS
  Workers = {w1, w2}
  NumQueues = 1
  Jobs = {}
  Foreign = {}
  Malformed = {}
  Backlog <- EmptyQueue
  Target = 9
  Waits <- WaitsIn
  MaxErrors = 0
  Nil = Nil
  Pending = Pending
  Interval = 2
  Window = 3
  Grace = 1
  Second = 1
  MaxTime = 5
INVARIANT CallsAreOfTheWindow
