CONSTANTS
  t1 = t1
  t2 = t2
  t3 = t3
  Task = {t1, t2, t3}
  Existing <- OneBlocker
  UsedKind = {"blocks"}
  Client = {c1, c2}
  MaxCalls = 2
  MaxLost = 1
SPECIFICATION FairSpec
CHECK_DEADLOCK FALSE
INVARIANTS CyclesNeedOverlap NoMissedWake
PROPERTIES NobodyWaitsForever
