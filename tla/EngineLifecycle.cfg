SPECIFICATION Spec
CONSTANT Bufs = 3
INVARIANTS
  TypeOK
  OneRingOwner
  CleanExit
PROPERTIES
  ShutdownEnds
  NoOrphan
CHECK_DEADLOCK FALSE
