SPECIFICATION Spec
CONSTANTS
  Slots = {s1, s2, s3}
  NoSlot = NoSlot
  DetectEveryN = 2
  StabilizeFrames = 1
  SockBound = 2
  InferenceOutlastsHandoff = FALSE
CHECK_DEADLOCK FALSE
INVARIANTS
  CameraExclusive
