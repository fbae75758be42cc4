SPECIFICATION FairSpec
CONSTANTS
  s1 = s1
  s2 = s2
  Senders = {s1, s2}
  PayloadLen = 2
  MaxLength = 10485760
  MaxMsgs = 2
PROPERTIES  HeardAfterQuiet
CHECK_DEADLOCK FALSE
