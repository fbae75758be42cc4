SPECIFICATION FairSpec
CONSTANTS
  MaxSpawns = 2
  MinRestart = 1
  WedgeThreshold = 2
  MaxStuck = 1
INVARIANTS
  NoOrphan
  PrepAlone
  WedgedQuiet
PROPERTIES
  ImplementsCamera
  StartsSpaced
  MainReturns
  DeathNoticed
CHECK_DEADLOCK FALSE
