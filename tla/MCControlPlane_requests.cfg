SPECIFICATION FairSpec
CONSTANTS
  c1 = c1
  c2 = c2
  Clients = {c1, c2}
  Patience = 2
  ConnectTimeout = 1
  Scenes <- Either
  HWM = 1
  MaxRequests = 2
  MaxArgs = 2
  MaxChars = 4
  Ints <- Spellable
  Numbers <- Entered
  Words <- Written
  MaxU32 = 70000
  ULongs = 100000
  MaxSettings = 3
INVARIANTS
  StartIsFaithful
  AnswersAreTrue
PROPERTIES
  EveryoneIsTold
CHECK_DEADLOCK FALSE
