SPECIFICATION Spec
CONSTANTS
  Jobs = {j1, j2, j3}
  MaxInFlight = 2
  MaxErrors = 1
  MaxTicks = 2
  Specs <- Duplicate
  Clocks <- Readings
  HistMax = 4
  MaxDigits = 3
  U64Max = 20000
  Nil = Nil
  Dropped = Dropped
SYMMETRY JobSymmetry
INVARIANTS
  WindowsPartitionHistogram
  SeriesAddUp
  TicksAligned
  EveryLatencyCollected
  StatisticsAgree
