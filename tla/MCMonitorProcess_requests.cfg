SPECIFICATION FairSpec
CONSTANTS
  operator = operator
  page = page
  chooser = chooser
  Threads = {operator, page, chooser}
  Scenes <- Either
  MaxSpawns = 3
  Decoders <- TwoDecoders
  Analyses <- FourAnalyses
  Ints <- Spellable
  Intervals <- Entered
  MaxU32 = 70000
  ULongs = 100000
  MaxOptions = 3
  MaxAnalyses = 2
INVARIANTS
  OneKnownMonitor
  StartsWhatItShows
PROPERTIES
  BackendTellsTrue
  RequestsAreAnswered
