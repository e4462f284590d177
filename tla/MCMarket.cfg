SPECIFICATION Spec
CONSTANTS
  Accounts = {alice}
  Denoms = {luna, sdr}
  Nil = Nil
  BlocksPerDay = 2
  MaxHeight = 4
  Luna = luna
  Rates = {5, 31}
  DecOne = 10
  DailyCap = 7
  MinSpread = 1
  MaxSpread = 6
  Offers = {1, 3}
  Genesis = 3
  Bonded = 0
  MaxMoves = 2
CHECK_DEADLOCK FALSE
INVARIANTS
  TypeOK
  SnapshotsContiguous
PROPERTIES
  PastIsFinal
  IssuanceFollowsSupply
  SwapsWithinCap
  SwapsGainOnlyRounding
