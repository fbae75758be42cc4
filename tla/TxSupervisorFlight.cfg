SPECIFICATION Spec
CONSTANTS
  MaxSpawns = 2
  MinRestart = 2
  WedgeThreshold = 2
  MaxStuck = 2
INVARIANT
  SingleFlight
CHECK_DEADLOCK FALSE
