SPECIFICATION TableSpec
CONSTANTS
  Batches <- NoTraffic
  Load <- KnownPlume
  JunkYears <- AnyYear
  MaxWait = 1
  MaxRawFrames = 2
  MaxKoses = 4
  MaxItems = 8
  Sends <- OneLoggerOfTwo
  MaxBatch = 2
  MaxRepeats = 0
  Loses = TRUE
  Reorders = TRUE
  OtherThread = FALSE
  Ends = FALSE
  FrameBytes = 2
  Paddings <- NoneOrTwo
INVARIANT SavedIsFound
CHECK_DEADLOCK FALSE
