SPECIFICATION FairSpec
CONSTANTS
  Levels <- TwoLevels
  TrialJobs = 2
  WarmupJobs = 1
  MaxStale = 2
  MaxLost = 1
  Durations <- SomeDurations
  IdleDurations = {10003}
  PollCounts = {0, 7}
  Second = 10000
  Nil = Nil
INVARIANTS
  TypeOK
  TrialFinishesOwnJobs
  TotalsExplained
  IdleOnAccountedQueues
  ReportAligned
  ExitCodeTellsAll
  MeasuredLevelsArePrinted
  SkippedIsMarked
  DocumentAgrees
PROPERTY BenchmarkEnds
