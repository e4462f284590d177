SPECIFICATION Spec
CONSTANTS
  Vals = {v1, v2}
  Tokens = {t1, t2, t3}
  Nil = Nil
  MinBonded = 2
  MaxMoves = 2
  Feeders = {}
  Denoms = {krw}
  Prices = {1, 2}
  VotePeriod = 1
  VoteThreshold = 50
  RewardBand = 1
  DecOne = 10
  MaxHeight = 5
  LastPrevote = 3
  MaxFees = 2
  MaxRestarts = 0
  ForeignHashes = FALSE
CHECK_DEADLOCK FALSE
SYMMETRY Interchangeable
INVARIANTS
  TypeOK
  SwapFeesConserved
  DistributionCovered
  PricesAreFresh
PROPERTIES
  ClaimsAreWinners
