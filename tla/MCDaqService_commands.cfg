SPECIFICATION FairSpec
CONSTANTS
  EventsPerFile = 2
  MaxRequest = 1
  MaxEvents = 3
  MaxStarts = 2
  FaultSets <- Mixed
INVARIANTS
  DaemonKnowsItsRun
  ThreadIsOwned
  PauseIsResumable
PROPERTIES
  FilesAreNotOverwritten
  CommandsAreAnswered
