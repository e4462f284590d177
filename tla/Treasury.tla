------------------------------ MODULE Treasury ------------------------------
(***************************************************************************)
(* x/treasury: the tax rate and the reward weight of each epoch, written   *)
(* lazily, the tax proceeds of each epoch and the tax cap of each          *)
(* denomination.  At the last block of an epoch both levers are moved      *)
(* towards what the indicators ask for, within the policy constraints.     *)
(* Decimals are integers in units of 1/DecOne.                             *)
(***************************************************************************)
EXTENDS Mint

CONSTANTS
  Luna, SDR,      \* the staking denomination, and the reference of the indicators
  DaysPerEpoch,   \* util.BlocksPerEpoch / util.BlocksPerDay
  DecOne,         \* the denominator of sdk.Dec
  TaxPolicy,      \* params.TaxPolicy: min, max and largest change of the rate
  RewardPolicy,   \* params.RewardPolicy
  ReferenceCap,   \* params.TaxPolicy.Cap, in SDR
  BurdenTarget,   \* params.SeigniorageBurdenTarget
  Increment,      \* params.MiningIncrement
  WindowShort, WindowLong, WindowProbation,  \* params, in epochs
  GenesisTaxRate, GenesisRewardWeight,
  TotalBonded     \* bonded Luna, by which the tax indicator is divided

Policies == [min : Nat, max : Nat, change : Nat]

(* validateParams and ValidateGenesis. *)
ASSUME TreasuryAssumption ==
  /\ {Luna, SDR} \subseteq Denoms /\ Luna # SDR /\ IsFiniteSet(Denoms)
  /\ DaysPerEpoch \in Nat \ {0} /\ DecOne \in Nat \ {0} /\ TotalBonded \in Nat \ {0}
  /\ TaxPolicy \in Policies /\ RewardPolicy \in Policies
  /\ GenesisTaxRate \in TaxPolicy.min .. TaxPolicy.max
  /\ GenesisRewardWeight \in RewardPolicy.min .. RewardPolicy.max
  /\ {ReferenceCap, BurdenTarget, Increment} \subseteq Nat
  /\ {WindowShort, WindowLong, WindowProbation} \subseteq Nat

VARIABLES
  taxRate,       \* store "tax_rate:epoch"
  rewardWeight,  \* store "reward_weight:epoch"
  taxCap,        \* store "tax_cap:denom"
  proceeds,      \* store "tax_proceeds:epoch"
  rates,         \* oracle store "price:denom": the denomination's price of a Luna
  paid           \* history: the weight the budget paid an epoch with

treasuryVars == <<taxRate, rewardWeight, taxCap, proceeds, rates, paid>>

BlocksPerEpoch == DaysPerEpoch * BlocksPerDay

Epochs == 0 .. Period(MaxHeight, BlocksPerEpoch)

Epoch == Period(height, BlocksPerEpoch)

TreasuryTypeOK ==
  /\ taxRate \in [Epochs -> Nat \cup {Nil}]
  /\ rewardWeight \in [Epochs -> Nat \cup {Nil}]
  /\ taxCap \in [Denoms -> Nat \cup {Nil}]
  /\ proceeds \in [Epochs -> [Denoms -> Nat]]
  /\ rates \in [Denoms -> Nat \cup {Nil}]
  /\ paid \in [Epochs -> Nat \cup {Nil}]

(* The entry of an epoch with the value v at genesis. *)
AtGenesis(v) == [e \in Epochs |-> IF e = 0 THEN v ELSE Nil]

(* The stores of a new chain: no cap but the policy's, no proceeds and no   *)
(* price, as neither genesis has them.                                      *)
GenesisCaps == [d \in Denoms |-> IF d = SDR THEN ReferenceCap ELSE Nil]
NoProceeds == [e \in Epochs |-> [d \in Denoms |-> 0]]
NoRates == [d \in Denoms |-> IF d = Luna THEN DecOne ELSE Nil]
NothingPaid == [e \in Epochs |-> Nil]

TreasuryInit ==
  /\ taxRate = AtGenesis(GenesisTaxRate)
  /\ rewardWeight = AtGenesis(GenesisRewardWeight)
  /\ taxCap = GenesisCaps
  /\ proceeds = NoProceeds
  /\ rates = NoRates
  /\ paid = NothingPaid

-----------------------------------------------------------------------------
(* The lazily written levers *)

(* The value in force in epoch e: the last one stored up to e. *)
InForce(store, e) ==
  LET stored == {k \in 0 .. e : store[k] # Nil}
  IN  store[CHOOSE k \in stored : \A j \in stored : j <= k]

(* The tax rates GetTaxRate leaves behind: no gap up to e. *)
FillTaxRate(e) ==
  [k \in Epochs |-> IF k <= e /\ taxRate[k] = Nil THEN InForce(taxRate, k) ELSE taxRate[k]]

(* The weights GetRewardWeight leaves behind when the epochs in `read' are read. *)
FillRewardWeight(read) ==
  [k \in Epochs |->
     IF k \in read /\ rewardWeight[k] = Nil THEN InForce(rewardWeight, k) ELSE rewardWeight[k]]

-----------------------------------------------------------------------------
(* Seigniorage *)

Least(x, y) == IF x <= y THEN x ELSE y

(* Mutant: the day after the epoch is counted in. *)
EpochLastDayNext(e) == Least((e + 1) * DaysPerEpoch, Today)

EpochLastDay(e) == Least((e + 1) * DaysPerEpoch - 1, Today)

(* Mutant: a window one day too long. *)
PrevEpochLastDayEarly(e) ==
  IF EpochLastDay(e) <= DaysPerEpoch THEN 0 ELSE EpochLastDay(e) - DaysPerEpoch - 1

PrevEpochLastDay(e) ==
  IF EpochLastDay(e) < DaysPerEpoch THEN 0 ELSE EpochLastDay(e) - DaysPerEpoch

LunaIssued(day) == GetIssuance(issuance, balances, Luna, day)

(* Growth of the Luna issuance over the epoch, never negative. *)
PeekEpochSeigniorage(e) ==
  LET growth == LunaIssued(EpochLastDay(e)) - LunaIssued(PrevEpochLastDay(e))
  IN  IF growth < 0 THEN 0 ELSE growth

-----------------------------------------------------------------------------
(* Indicators; r are the oracle's rates at the time of the update *)

(* sdk.Dec Quo and Mul round half to even in the last place. *)
Quo(x, y) == RoundInt(x * DecOne, y)
Mul(x, y) == RoundInt(x * y, DecOne)

(* GetSwapDecCoin to SDR; an amount that cannot be swapped counts nothing. *)
InSDR(r, d, amount) ==
  IF d = SDR THEN amount
  ELSE IF r[d] = Nil \/ r[SDR] = Nil THEN 0
  ELSE Quo(Mul(amount, r[SDR]), r[d])

TaxRewardsForEpoch(r, e) ==
  SumFunction([d \in Denoms |-> InSDR(r, d, proceeds[e][d] * DecOne)])

SeigniorageRewardsForEpoch(r, e) ==
  InSDR(r, Luna, InForce(rewardWeight, e) * PeekEpochSeigniorage(e))

MiningRewardForEpoch(r, e) == TaxRewardsForEpoch(r, e) + SeigniorageRewardsForEpoch(r, e)

(* Tax rewards per bonded Luna. *)
TRL(r, e) == TaxRewardsForEpoch(r, e) \div TotalBonded

(* The epochs a window of w epochs looks back on. *)
Window(w) == {e \in 0 .. Epoch : e > Epoch - w}

RollingTRL(r, w) ==
  IF Window(w) = {} THEN 0
  ELSE SumFunction([e \in Window(w) |-> TRL(r, e)]) \div Cardinality(Window(w))

-----------------------------------------------------------------------------
(* Policy updates *)

(* Mutant: only the change is limited. *)
ClampChangeOnly(policy, prev, new) ==
  IF new > prev + policy.change THEN prev + policy.change
  ELSE IF new < prev - policy.change THEN prev - policy.change
  ELSE new

(* Mutant: the change is not limited. *)
ClampRangeOnly(policy, prev, new) ==
  IF new < policy.min THEN policy.min ELSE IF new > policy.max THEN policy.max ELSE new

(* PolicyConstraints.Clamp: first into the range, then towards prev. *)
Clamp(policy, prev, new) ==
  LET ranged == IF new < policy.min THEN policy.min
                ELSE IF new > policy.max THEN policy.max ELSE new
  IN  IF ranged > prev + policy.change THEN prev + policy.change
      ELSE IF ranged < prev - policy.change THEN prev - policy.change
      ELSE ranged

(* Without short-term revenue the tax is raised as far as possible. *)
NewTaxRate(r) ==
  LET old == InForce(taxRate, Epoch)
      month == RollingTRL(r, WindowShort)
      wanted == IF month = 0 THEN TaxPolicy.max
                ELSE Quo(Mul(old, Mul(RollingTRL(r, WindowLong), Increment)), month)
  IN  Clamp(TaxPolicy, old, wanted)

SeigniorageSum(r) ==
  SumFunction([e \in Window(WindowShort) |-> SeigniorageRewardsForEpoch(r, e)])

MiningRewardSum(r) ==
  SumFunction([e \in Window(WindowShort) |-> MiningRewardForEpoch(r, e)])

(* A burden that rounds to zero divides by zero in the next step. *)
BurdenVanishes(r) ==
  /\ SeigniorageSum(r) # 0 /\ MiningRewardSum(r) # 0
  /\ Quo(SeigniorageSum(r), MiningRewardSum(r)) = 0

NewRewardWeight(r) ==
  LET old == InForce(rewardWeight, Epoch)
      wanted == IF SeigniorageSum(r) = 0 \/ MiningRewardSum(r) = 0 THEN RewardPolicy.max
                ELSE Mul(old, Quo(BurdenTarget, Quo(SeigniorageSum(r), MiningRewardSum(r))))
  IN  Clamp(RewardPolicy, old, wanted)

isProbationPeriod == Period(height + 1, BlocksPerEpoch) < WindowProbation

EndsEpoch == IsPeriodLastBlock(height, BlocksPerEpoch)

UpdatesPolicy == EndsEpoch /\ ~isProbationPeriod

(* Mutant: the new rate is stored for the previous epoch. *)
SetTaxRateBefore(rate) == [FillTaxRate(Epoch) EXCEPT ![Epoch - 1] = rate]

(* SetTaxRate, after GetTaxRate: the rate is stored for the epoch that ends. *)
SetTaxRate(rate) == [FillTaxRate(Epoch) EXCEPT ![Epoch] = rate]

(* Mutant: the new weight is stored for the epoch it is meant for. *)
SetRewardWeightNext(weight) ==
  [FillRewardWeight(Window(WindowShort) \cup {Epoch}) EXCEPT ![Epoch + 1] = weight]

SetRewardWeight(weight) ==
  [FillRewardWeight(Window(WindowShort) \cup {Epoch}) EXCEPT ![Epoch] = weight]

(* The EndBlocker, after the oracle's has set the rates r.  The budget's,   *)
(* which runs before it, reads the weight and the seigniorage of the epoch  *)
(* at its last block, probation or not.                                     *)
TreasuryEndBlocker(r) ==
  /\ UpdatesPolicy => ~BurdenVanishes(r)
  /\ taxRate' = IF UpdatesPolicy THEN SetTaxRate(NewTaxRate(r)) ELSE taxRate
  /\ rewardWeight' =
       IF UpdatesPolicy THEN SetRewardWeight(NewRewardWeight(r))
       ELSE FillRewardWeight(IF EndsEpoch THEN {Epoch} ELSE {})
  /\ issuance' =
       IF EndsEpoch THEN FillIssuance(issuance, balances, Luna, Today) ELSE issuance
  /\ paid' = IF EndsEpoch THEN [paid EXCEPT ![Epoch] = InForce(rewardWeight, Epoch)] ELSE paid
  /\ rates' = r
  /\ UNCHANGED <<taxCap, proceeds>>

-----------------------------------------------------------------------------
(* Export *)

(* Mutant: both levers are exported as they were in epoch 0. *)
ExportedWeightOfEpochZero == InForce(rewardWeight, 0)

(* ExportGenesis after the last block was committed: the tax rate is that   *)
(* of epoch 0, the reward weight that of the block's epoch.                 *)
ExportedTaxRate == InForce(taxRate, 0)
ExportedRewardWeight == InForce(rewardWeight, Period(height - 1, BlocksPerEpoch))

(* InitGenesis of the exported state. *)
TreasuryRestart ==
  /\ taxRate' = AtGenesis(ExportedTaxRate)
  /\ rewardWeight' = AtGenesis(ExportedRewardWeight)
  /\ taxCap' = GenesisCaps
  /\ proceeds' = NoProceeds
  /\ rates' = NoRates
  /\ paid' = NothingPaid

=============================================================================
