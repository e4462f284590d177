SPECIFICATION Spec
CONSTANTS
  Vals = {v1, v2}
  Tokens = {t1, t2}
  Nil = Nil
  MinBonded = 2
  MaxMoves = 0
  Feeders = {f1}
  Denoms = {krw}
  Prices = {1}
  VotePeriod = 2
  VoteThreshold = 50
  RewardBand = 1
  DecOne = 10
  MaxHeight = 7
  LastPrevote = 7
  MaxFees = 0
  MaxRestarts = 1
  ForeignHashes = TRUE
SYMMETRY Interchangeable
INVARIANTS
  VotesWereCommitted
  PrevotesBounded
PROPERTIES
  NoPrevoteLost
