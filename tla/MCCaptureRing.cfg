SPECIFICATION FairSpec
CONSTANTS
  Slots = {s1, s2, s3}
  NoSlot = NoSlot
  DetectEveryN = 2
  StabilizeFrames = 1
  SockBound = 1
  InferenceOutlastsHandoff = TRUE
  ExpMin = 100
  ExpMax = 16666
  GainMin = 1
  GainMax = 64
  Target = 57
  DeadBand = 2
  StartSettings <- Starts
  TargetLevels <- SceneLevels
  ClipLevels <- ClipAt
CHECK_DEADLOCK FALSE
INVARIANTS
  TypeOK
  CameraExclusive
  NoSlotLost
  OneDisposition
  AtMostTwoPinned
  AutoExposureSettles
PROPERTIES
  LeakOnlyAtCrash
  ImplementsOwnership
  SlotReturns
  TerminationEnds
