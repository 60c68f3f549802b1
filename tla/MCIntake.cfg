CONSTANTS
  c1 = c1
  c2 = c2
  i1 = i1
  i2 = i2
  i3 = i3
  i4 = i4
  bad = bad
  p1 = p1
  p2 = p2
  Connector = {c1}
  Item = {i1, i2, i3, i4, bad}
  Malformed = {bad}
  Disposition <- Kinds
  Confidence <- Sure
  Stakes <- Risk
  Floor = 85
  Ceiling = 30
  Coefficient = 5
  Dismissals <- Few
  Cap = 1
  Poll = {p1, p2}
  Of <- OneConnector
  Owner = {o1}
  MaxDeliveries = 2
  MaxSwitches = 1
  MaxFailures = 1
SPECIFICATION IntakeSpec
SYMMETRY Alike
CHECK_DEADLOCK FALSE
INVARIANTS SignalsAreAccounted DrivenUnlessCut
