SPECIFICATION Spec
CONSTANTS
  Vals = {v1, v2}
  Tokens = {t1, t2}
  Nil = Nil
  MinBonded = 2
  MaxMoves = 0
  Accounts = {alice}
  VotePeriod = 2
  ActiveThreshold = 40
  LegacyThreshold = 0
  Deposit = 1
  BlocksPerEpoch = 4
  DecOne = 2
  RewardPools = {0}
  Funds = 2
  MaxHeight = 6
  MaxPrograms = 2
  MaxRestarts = 1
  ExportModes = {TRUE}
SYMMETRY Interchangeable
CHECK_DEADLOCK FALSE
PROPERTIES
  ProgramsNotOverwritten
