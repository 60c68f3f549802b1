CONSTANTS
  Message = {1, 2, 3}
  Kind <- Kinds
  Due <- Dues
  PageLimit = 1
  MaxNow = 1
  MaxScrolls = 2
  MaxAsks = 2
  MaxChanges = 1
  MaxFaults = 1
SPECIFICATION InboxFairSpec
CHECK_DEADLOCK FALSE
INVARIANTS ScrollIsWhole SwipedStaysAway
PROPERTIES OpenRowsAreListed
