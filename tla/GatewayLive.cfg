SPECIFICATION FairGatewaySpec
CONSTANTS
  Batches <- NoTraffic
  Load <- NoBase
  JunkYears <- AnyYear
  MaxWait = 0
  MaxRawFrames = 2
  MaxKoses = 4
  MaxItems = 8
  Sends <- TwoLoggers
  MaxBatch = 1
  MaxRepeats = 1
  Loses = FALSE
  Reorders = TRUE
  OtherThread = TRUE
  Ends = TRUE
INVARIANT OnePlume
PROPERTY Freed
CHECK_DEADLOCK FALSE
