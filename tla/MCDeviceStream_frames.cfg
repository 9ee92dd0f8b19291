SPECIFICATION FairSpec
CONSTANTS
  Chunk = 3
  MaxFrames = 3
  MaxConnections = 2
  Boards = 2
  Channels = 3
  WordBytes = 3
INVARIANTS
  FramingIsRight
  PayloadsAreReadable
PROPERTIES
  CloseLosesNothing
  FramesArrive
CHECK_DEADLOCK FALSE
