SPECIFICATION FairSpec
CONSTANTS
  MaxDet = 5
  SockBound = 2
  Uuid <- SmallUuid
  Ff = 8
  PayloadBytes = {0, 1, 3, 4}
  MaxPayload = 6
INVARIANTS
  EpochIsInjected
  NalRoundTrip
PROPERTY
  BoxesConverge
