SPECIFICATION FairSpec
CONSTANTS
  EventsPerFile = 2
  MaxFrames = 3
  MaxRuns = 3
  MaxPauses = 1
INVARIANTS
  DeliveredIsTrue
  OnlyTheRaceSkips
PROPERTIES
  SourcesAreComplete
CHECK_DEADLOCK FALSE
