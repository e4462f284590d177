SPECIFICATION Spec
CONSTANTS
  Vals = {v1, v2}
  Tokens = {t1, t2}
  Nil = Nil
  MinBonded = 2
  MaxMoves = 0
  Accounts = {alice}
  VotePeriod = 2
  ActiveThreshold = 40
  LegacyThreshold = 0
  Deposit = 1
  BlocksPerEpoch = 4
  DecOne = 2
  RewardPools = {0, 3}
  Funds = 2
  MaxHeight = 8
  MaxPrograms = 2
  MaxRestarts = 0
  ExportModes = {}
SYMMETRY Interchangeable
CHECK_DEADLOCK FALSE
INVARIANTS
  NeverHalts
