SPECIFICATION Spec
CONSTANTS
  private = private
  preseed = preseed
  seed = seed
  split = split
  Addresses = {private, preseed, seed, split}
  PreseedAddresses = {preseed}
  SeedAddresses = {seed, split}
  SplitSeed = split
  Denoms = {luna, sdr}
  Luna = luna
  Nil = Nil
  OriginalVesting <- MCOriginalVesting
  GenesisSchedules <- MCSchedules
  DecOne = 10000
  Date <- MCDate
  secondsPerMonth = 2
  UpdateHeight = 3
  Amounts = {1, 2}
  TimeSteps = {1, 3}
  MaxTime = 14
  MaxExtra = 1
  MaxRestarts = 1
INVARIANTS
  SpendableCoinsReturns
