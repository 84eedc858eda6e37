SPECIFICATION Spec
CONSTANTS
  Batches <- MCBatches
  Load <- BaseOfOne
  JunkYears <- AnyYear
  MaxWait = 0
  MaxRawFrames = 2
  MaxKoses = 3
  MaxItems = 3
INVARIANTS
  TypeOK
  UniqueKoses
  ItemsAgree
PROPERTY MapSpec
