SPECIFICATION FairSpec
CONSTANTS
  Base = 4
  Headers <- SomeHeaders
  MayFail = TRUE
  MayEnd = TRUE
  HWM = 2
  MaxFrames = 3
INVARIANTS
  LinkKeepsRecords
  HeadersAreGenuine
PROPERTIES
  RecordsArrive
CHECK_DEADLOCK FALSE
