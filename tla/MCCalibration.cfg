CONSTANTS
  t1 = t1
  t2 = t2
  r1 = r1
  r2 = r2
  Tool = {t1}
  Routine = {r1, r2}
  Task = {k1}
  ToolOf <- OneTool
  Unknown = unknown
  Proposal = {p1, p2}
  Tx = {x1}
  Owner = {o1}
  Sweep = {s1}
  Decrement = 25
  WindowN = 2
  MinSample = 1
  Ratio = 50
  MaxOutcomes = 2
  MaxVerdicts = 1
  MaxFaults = 1
SPECIFICATION FairSpec
CHECK_DEADLOCK FALSE
INVARIANTS GrantIsEarned ProposalsAreHonest
PROPERTIES OnlyConsentRaises ProposalComes
