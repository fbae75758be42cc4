SPECIFICATION LoopFairSpec
CONSTANTS
  GatePeriod = 2
  Hold = 5
  HintGap = 10
  IdrMin = 12
INVARIANT FreezeNoticed
PROPERTY PictureReturns
