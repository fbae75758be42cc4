SPECIFICATION FairSpec
CONSTANTS
  MaxAutoRetry = 2
  StallTimeout = 1
  Grace = 2
  RetryResetAfter = 1
  RetryBackoffMax = 1
  PromptReaders = TRUE
  MaxKeys = 2
  MaxFaults = 1
  MaxStale = 1
INVARIANTS
  TypeOK
  StopWins
PROPERTIES
  Reconciles
  QuitEnds
  OnlyDeadLinksDropped
