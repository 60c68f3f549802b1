CONSTANTS
  d1 = d1
  d2 = d2
  m1 = m1
  m2 = m2
  Client = {c1}
  Value = {d1, d2}
  Model = {m1, m2}
  Batches = 2
  MaxEvents = 3
SPECIFICATION Spec
SYMMETRY Alike
CHECK_DEADLOCK FALSE
INVARIANTS CacheIsTrue ServingIsTrue QuietServesConfig
PROPERTIES ServingMovesForward
