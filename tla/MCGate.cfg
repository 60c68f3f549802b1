CONSTANTS
  c1 = c1
  c2 = c2
  o1 = o1
  o2 = o2
  Client = {c1, c2}
  Owner = {o1, o2}
  Shape <- Shapes
  Cap = 1
  MaxVersion = 2
  MaxCalls = 3
  MaxSwitches = 1
  MaxFaults = 1
SPECIFICATION Spec
SYMMETRY Alike
CHECK_DEADLOCK FALSE
INVARIANTS ApprovalEntitled CapUnlessOverlapping PointerFollowsRows
