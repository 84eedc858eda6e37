SPECIFICATION FairSpec
CONSTANTS
  Measurements <- WideMeasurements
  kosa = 38
  kosa_year = 19
INVARIANT ArrivedIsMeasured
CHECK_DEADLOCK FALSE
