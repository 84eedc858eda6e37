SPECIFICATION GatewaySpec
CONSTANTS
  Batches <- NoTraffic
  Load <- NoBase
  JunkYears <- AnyYear
  MaxWait = 2
  MaxRawFrames = 2
  MaxKoses = 4
  MaxItems = 8
  Sends <- TwoLoggers
  MaxBatch = 1
  MaxRepeats = 0
  Loses = FALSE
  Reorders = FALSE
  OtherThread = FALSE
  Ends = FALSE
INVARIANT ReceivedIsCompleted
CHECK_DEADLOCK FALSE
