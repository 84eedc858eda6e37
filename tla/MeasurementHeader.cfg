SPECIFICATION Spec
CONSTANTS
  Clocks <- Dates
  Voltages <- TwoVoltages
  FreedDiffs <- Garbage
INVARIANTS TypeOK VoltagesAreMeasured ClockIsKept
PROPERTIES DeltasKeepOrder LaterIsLater
