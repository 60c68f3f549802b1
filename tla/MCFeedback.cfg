CONSTANTS
  c1 = c1
  c2 = c2
  t1 = t1
  Client = {c1, c2}
  ContextTool = {t1}
  Rating = {0, 2, 4}
  MaxCalls = 3
  MaxFaults = 1
SPECIFICATION FairSpec
CHECK_DEADLOCK FALSE
INVARIANTS AnswerAgrees LeftoversAreExplained
PROPERTIES ConsultedAccumulates LoopEnds
