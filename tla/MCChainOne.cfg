CONSTANTS
  t1 = t1
  t2 = t2
  Task = {t1}
  Intake = {t1}
  Blocks = {}
  Scheduled = {t1}
  AgentServed = {"execution"}
  Client = {c1, c2}
  MaxCalls = 3
  MaxCrashes = 1
SPECIFICATION FairSpec
CHECK_DEADLOCK FALSE
INVARIANTS TablesAgree WaiterHasItsSlot
PROPERTIES StageOnlyForward WorkflowGoesOn
