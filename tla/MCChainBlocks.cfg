CONSTANTS
  t1 = t1
  t2 = t2
  Task = {t1, t2}
  Intake = {}
  Blocks <- FirstBlocksSecond
  Scheduled = {}
  AgentServed = {"triage", "expansion", "execution"}
  Client = {c1}
  MaxCalls = 3
  MaxCrashes = 0
SPECIFICATION Spec
CHECK_DEADLOCK FALSE
INVARIANTS ExecutionAfterBlockers
PROPERTIES BoardSpec
