SPECIFICATION Spec
CONSTANTS
  Capacity = 3
  MaxSeq = 5
  MaxViewers = 2
INVARIANT HeardInThree
PROPERTY NeverBack
CHECK_DEADLOCK FALSE
