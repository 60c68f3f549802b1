CONSTANTS
  s1 = s1
  s2 = s2
  Stream = {s1, s2}
  None = none
  Capacity = 1
  MaxUpdates = 4
  MaxBreaks = 1
SPECIFICATION RealtimeFairSpec
CHECK_DEADLOCK FALSE
INVARIANTS NoSendOnClosed StaleIsExplained
PROPERTIES SubscribedAgain
