CONSTANTS
  Verdict = {"approve", "deny", "request_decision"}
  MaxIter = 2
  Budget = 2
  MaxReply = 2
  MaxLosses = 1
SPECIFICATION RunnerFairSpec
CHECK_DEADLOCK FALSE
INVARIANTS Bounded RunIsAccounted
PROPERTIES StageSpec
