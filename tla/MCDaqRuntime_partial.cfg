SPECIFICATION FairSpec
CONSTANTS
  Devices = {d1, d2}
  EventsPerFile = 1
  SubrunStart = 3
  AllowPartial = TRUE
  HasDuration = FALSE
  Faults = {}
  MaxFrames = 1
  MaxDrops = 2
  NoFrame = NoFrame
INVARIANTS
  AliveCountExact
PROPERTIES
  ExhaustedOnlyWhenAlone
  StartsAndEnds
