SPECIFICATION Spec
CONSTANTS
  Devices = {d1, d2}
  EventsPerFile = 2
  SubrunStart = 0
  AllowPartial = FALSE
  HasDuration = TRUE
  Faults = {"fatal", "recoverable", "mkdir", "open", "write", "insert"}
  MaxFrames = 2
  MaxDrops = 1
  NoFrame = NoFrame
SYMMETRY Symmetry
INVARIANTS
  TypeOK
  NumberedInPushOrder
  FilesAndRowsAgree
  CleanRunIsComplete
  FinalStatusMatchesReturnCode
  StartupVerdict
PROPERTIES
  FilesKeepTheirRecords
  KeepsContract
