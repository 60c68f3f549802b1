CONSTANTS
  d1 = d1
  d2 = d2
  c1 = c1
  c2 = c2
  Decision = {d1, d2}
  Repeatable = {d2}
  Remote = {d1}
  Client = {c1}
  MaxCalls = 1
  MaxCrashes = 1
  MaxRetries = 1
SPECIFICATION FairSpec
CHECK_DEADLOCK FALSE
INVARIANTS OneOutcome ToldTheTruth EndIsAccounted
PROPERTIES DecisionsSpec NobodyIsLeftWaiting
