SPECIFICATION Spec
CONSTANTS
  Accounts = {alice, bob}
  Denoms = {luna, sdr}
  Nil = Nil
  BlocksPerDay = 1
  MaxHeight = 6
  Luna = luna
  SDR = sdr
  DaysPerEpoch = 2
  DecOne = 1000
  TaxPolicy <- MCTaxPolicy
  RewardPolicy <- MCRewardPolicy
  ReferenceCap = 3
  BurdenTarget = 670
  Increment = 1070
  WindowShort = 1
  WindowLong = 2
  WindowProbation = 2
  GenesisTaxRate = 200
  GenesisRewardWeight = 100
  TotalBonded = 3
  Principals <- MCPrincipals
  LunaAmounts = {2}
  SDRRates = {800, 2500}
  Genesis = 20
  SendEnabled = TRUE
  MaxTxs = 2
  MaxRestarts = 1
  RestartHeights = {5}
CHECK_DEADLOCK FALSE
INVARIANTS
  TypeOK
  LeversWithinPolicy
  TaxesAccounted
  SeigniorageCountedOnce
  PaidWithLastUpdate
PROPERTIES
  LeversMoveSlowly
  PastEpochsFinal
  RestartKeepsWeightOnly
