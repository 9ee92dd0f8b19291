SPECIFICATION Spec
CONSTANTS
  EventsPerFile = 1
  MaxRequest = 0
  MaxEvents = 1
  MaxStarts = 2
  FaultSets <- Crashes
PROPERTIES
  CrashKeepsFiles
