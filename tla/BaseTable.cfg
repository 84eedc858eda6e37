SPECIFICATION FairTableSpec
CONSTANTS
  Batches <- NoTraffic
  Load <- KnownPlume
  JunkYears <- AnyYear
  MaxWait = 1
  MaxRawFrames = 2
  MaxKoses = 4
  MaxItems = 8
  Sends <- OneLoggerOfFour
  MaxBatch = 2
  MaxRepeats = 0
  Loses = TRUE
  Reorders = FALSE
  OtherThread = FALSE
  Ends = FALSE
  FrameBytes = 2
  Paddings <- NoneOrTwo
INVARIANTS GatewayTypeOK CompletedIsWhole ReceivedIsCompleted GivenBackIsSaved
PROPERTIES CompletedIsSavedFirst CompletedIsSaved ParseEnds
CHECK_DEADLOCK FALSE
