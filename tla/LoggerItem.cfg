SPECIFICATION FairSpec
CONSTANTS
  Measurements <- AllMeasurements
  kosa = 38
  kosa_year = 19
INVARIANTS TypeOK FramesFit ReadIsMeasured AllIsRead RowIsInPlace
PROPERTY BuildEnds
CHECK_DEADLOCK FALSE
