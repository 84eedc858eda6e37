SPECIFICATION Spec
CONSTANTS
  Clocks <- Dates
  Voltages <- TwoVoltages
  FreedDiffs <- Garbage
INVARIANT MeasuredIsTime
