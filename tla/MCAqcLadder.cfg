SPECIFICATION FairSpec
CONSTANTS
  LastLevel = 2
  DownHold = 2
  UpHold = 3
  MinDwell = 1
  DropOut = 2
  CapFresh = 1
  CapOn = TRUE
  At = At
  Comma = Comma
  Blank = Blank
  Junk = Junk
  Numbers = {0, 30}
  HalfRate = 30
  MaxLevels = 3
  MaxText = 5
INVARIANTS
  BadEntryStaysAlone
PROPERTIES
  UpAfterQuiet
  Degrades
  Recovers
