SPECIFICATION LogSpec
CONSTANTS
  d1 = d1
  d2 = d2
  Devices = {d1, d2}
  EventsPerFile = 2
  Partial = TRUE
  Faults = {"open", "write", "insert", "mark", "thread"}
  MaxRecords = 5
  MaxSubrun = 3
INVARIANTS
  SummaryAddsUp
  FailureRowsAreShown
CHECK_DEADLOCK FALSE
