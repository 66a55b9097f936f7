SPECIFICATION Spec
CONSTANTS
  Jobs = {j1, j2}
  MaxInFlight = 2
  MaxErrors = 1
  MaxTicks = 2
  Specs <- Distinct
  Clocks <- SomeReadings
  HistMax = 4
  MaxDigits = 3
  U64Max = 20000
  Nil = Nil
  Dropped = Dropped
INVARIANT OneValuePerTick
