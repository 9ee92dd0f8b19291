SPECIFICATION Spec
CONSTANTS
  Devices = {d1, d2}
  EventsPerFile = 1
  SubrunStart = 0
  AllowPartial = TRUE
  HasDuration = FALSE
  Faults = {}
  MaxFrames = 0
  MaxDrops = 2
  NoFrame = NoFrame
PROPERTIES
  ExhaustedMeansAllDisconnected
