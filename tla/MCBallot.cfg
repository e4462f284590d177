SPECIFICATION BallotSpec
CONSTANTS
  Prices = {1, 2, 3}
  Powers = {0, 1, 2, 3}
  Gone = Gone
  MaxVotes = 4
CHECK_DEADLOCK FALSE
INVARIANTS
  LoopIsLowestReached
  MinorityCannotMove
