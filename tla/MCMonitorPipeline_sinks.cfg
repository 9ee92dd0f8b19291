SPECIFICATION FairSpec
CONSTANTS
  NAnalyses = 2
  HasText = TRUE
  HasRoot = TRUE
  EnableGui = TRUE
  Snapshots = TRUE
  MaxEvents = 2
  Runs = {1, 2}
  FaultSets <- Mixed
  MaxFrames = 3
  MaxRequests = 2
INVARIANTS
  SinksAgree
  AnalysesUsedInOrder
  NothingLeftOpen
  SuccessMeansComplete
PROPERTIES
  StopEndsDatamon
