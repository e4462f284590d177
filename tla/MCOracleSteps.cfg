SPECIFICATION StepsSpec
CONSTANTS
  Vals = {v1, v2}
  Tokens = {t1, t2, t3}
  Nil = Nil
  MinBonded = 2
  MaxMoves = 0
  Feeders = {}
  Denoms = {krw, sdr}
  Prices = {1}
  VotePeriod = 1
  VoteThreshold = 50
  RewardBand = 1
  DecOne = 10
  MaxHeight = 3
  LastPrevote = 3
  MaxFees = 0
  MaxRestarts = 0
  ForeignHashes = FALSE
SYMMETRY InterchangeableTokens
PROPERTIES
  AtomicSpec
