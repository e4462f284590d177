SPECIFICATION Spec
CONSTANTS
  Vals = {v1, v2}
  Tokens = {t1, t2, t3}
  Nil = Nil
  MinBonded = 2
  MaxMoves = 2
  Accounts = {alice}
  VotePeriod = 2
  ActiveThreshold = 40
  LegacyThreshold = 0
  Deposit = 1
  BlocksPerEpoch = 4
  DecOne = 2
  RewardPools = {0, 3}
  Funds = 2
  MaxHeight = 8
  MaxPrograms = 2
  MaxRestarts = 0
  ExportModes = {}
SYMMETRY Interchangeable
CHECK_DEADLOCK FALSE
INVARIANTS
  TypeOK
  QueueMatchesPrograms
  NoOverdueCandidate
  VotesHaveProgram
  ActiveWerePassed
  ClaimsNotNegative
PROPERTIES
  ProgramsNotOverwritten
