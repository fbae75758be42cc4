SPECIFICATION Spec
CONSTANTS
  MaxAutoRetry = 2
  StallTimeout = 3
  Grace = 4
  RetryResetAfter = 1
  RetryBackoffMax = 1
  PromptReaders = FALSE
  MaxKeys = 1
  MaxFaults = 2
  MaxStale = 1
PROPERTY
  OnlyDeadLinksDropped
