----------------------------- MODULE PayProofs -----------------------------
(***************************************************************************)
(* Proofs about Pay with the Treasury, for any accounts, denominations,    *)
(* policies, windows and transfers, and any number of epochs.              *)
(***************************************************************************)
EXTENDS Pay, MintProofs

-----------------------------------------------------------------------------
(* The policy constraints *)

(* Clamp keeps a lever within the range of its policy and within the        *)
(* largest change of its previous value, whatever the indicators ask for:   *)
(* limiting the change last never leads out of the range, provided the      *)
(* previous value was in it (PolicyConstraints.Clamp).                      *)
THEOREM ClampSound ==
  ASSUME NEW policy \in Policies,
         NEW prev \in policy.min .. policy.max,
         NEW wanted \in Int
  PROVE  /\ Clamp(policy, prev, wanted) \in policy.min .. policy.max
         /\ Clamp(policy, prev, wanted) - prev \in -policy.change .. policy.change
<1> DEFINE ranged == IF wanted < policy.min THEN policy.min
                     ELSE IF wanted > policy.max THEN policy.max ELSE wanted
<1>1. policy.min \in Nat /\ policy.max \in Nat /\ policy.change \in Nat /\ prev \in Int
  BY DEF Policies
<1>2. ranged \in policy.min .. policy.max
  BY <1>1
<1>3. Clamp(policy, prev, wanted) =
        IF ranged > prev + policy.change THEN prev + policy.change
        ELSE IF ranged < prev - policy.change THEN prev - policy.change ELSE ranged
  BY DEF Clamp
<1> HIDE DEF ranged
<1> QED
  BY <1>1, <1>2, <1>3

(* Clamp leaves alone a wish that is allowed, and never turns it around: a  *)
(* lever moves towards what the indicators ask for or stays where it is.    *)
THEOREM ClampFollows ==
  ASSUME NEW policy \in Policies,
         NEW prev \in policy.min .. policy.max,
         NEW wanted \in Int
  PROVE  /\ wanted >= prev => Clamp(policy, prev, wanted) \in prev .. wanted
         /\ wanted <= prev => Clamp(policy, prev, wanted) \in wanted .. prev
         /\ wanted \in policy.min .. policy.max /\ wanted - prev \in -policy.change .. policy.change
              => Clamp(policy, prev, wanted) = wanted
<1>1. policy.min \in Nat /\ policy.max \in Nat /\ policy.change \in Nat /\ prev \in Int
  BY DEF Policies
<1> QED
  BY <1>1 DEF Clamp

-----------------------------------------------------------------------------
(* Constants, epochs and days *)

LEMMA TreasuryConstants ==
  /\ DecOne \in Nat \ {0} /\ TotalBonded \in Nat \ {0} /\ DaysPerEpoch \in Nat \ {0}
  /\ Luna \in Denoms /\ SDR \in Denoms /\ Luna # SDR /\ IsFiniteSet(Denoms)
  /\ ReferenceCap \in Nat /\ BurdenTarget \in Nat /\ Increment \in Nat
  /\ WindowShort \in Nat /\ WindowLong \in Nat /\ WindowProbation \in Nat
  BY TreasuryAssumption

LEMMA PolicyConstants ==
  /\ TaxPolicy \in Policies /\ RewardPolicy \in Policies
  /\ GenesisTaxRate \in TaxPolicy.min .. TaxPolicy.max
  /\ GenesisRewardWeight \in RewardPolicy.min .. RewardPolicy.max
  /\ TaxPolicy.min \in Nat /\ TaxPolicy.max \in Nat /\ TaxPolicy.change \in Nat
  /\ RewardPolicy.min \in Nat /\ RewardPolicy.max \in Nat /\ RewardPolicy.change \in Nat
<1>1. /\ TaxPolicy \in Policies /\ RewardPolicy \in Policies
      /\ GenesisTaxRate \in TaxPolicy.min .. TaxPolicy.max
      /\ GenesisRewardWeight \in RewardPolicy.min .. RewardPolicy.max
  BY TreasuryAssumption
<1> QED  BY <1>1 DEF Policies

LEMMA PayConstants ==
  /\ Principals \subseteq [Denoms -> Nat]
  /\ LunaAmounts \subseteq Nat \ {0} /\ SDRRates \subseteq Nat \ {0}
  /\ Genesis \in Nat /\ MaxTxs \in Nat /\ MaxRestarts \in Nat
  BY PayAssumption

LEMMA EpochLength == BlocksPerEpoch \in Nat \ {0} /\ BlocksPerEpoch = DaysPerEpoch * BlocksPerDay
<1>1. PICK m \in Nat, n \in Nat : m = DaysPerEpoch /\ n = BlocksPerDay /\ m > 0 /\ n > 0
  BY TreasuryConstants, MintAssumption
<1>2. m * n \in Nat /\ m * n > 0
  BY <1>1, ProductPositive
<1> QED  BY <1>1, <1>2 DEF BlocksPerEpoch

LEMMA EpochsAreNaturals ==
  /\ Epochs \subseteq Nat /\ 0 \in Epochs
  /\ \A e \in Epochs, k \in Nat : k <= e => k \in Epochs
  /\ \A e \in Epochs : \A k \in 0 .. e : k \in Epochs
  /\ IsFiniteSet(Epochs)
<1>1. Period(MaxHeight, BlocksPerEpoch) \in Nat
  BY EpochLength, MintAssumption, PeriodBounds
<1>2. IsFiniteSet(Epochs)
  BY <1>1, FS_Interval DEF Epochs
<1> QED  BY <1>1, <1>2 DEF Epochs

LEMMA HeightIsInEpoch ==
  ASSUME NEW h \in 0 .. MaxHeight
  PROVE  Period(h, BlocksPerEpoch) \in Epochs /\ Period(h, BlocksPerEpoch) \in Nat
<1>1. h \in Nat /\ MaxHeight \in Nat /\ h <= MaxHeight
  BY MintAssumption
<1>2. /\ Period(h, BlocksPerEpoch) \in Nat /\ Period(MaxHeight, BlocksPerEpoch) \in Nat
      /\ Period(h, BlocksPerEpoch) <= Period(MaxHeight, BlocksPerEpoch)
  BY <1>1, EpochLength, PeriodBounds, PeriodMonotone
<1> QED  BY <1>2 DEF Epochs

(* The last day of an epoch that is over lies in the past. *)
LEMMA EpochIsOver ==
  ASSUME NEW h \in Nat, NEW e \in Nat, e < Period(h, BlocksPerEpoch)
  PROVE  (e + 1) * DaysPerEpoch <= Period(h, BlocksPerDay)
<1>1. PICK m \in Nat, n \in Nat : m = DaysPerEpoch /\ n = BlocksPerDay /\ m > 0 /\ n > 0
  BY TreasuryConstants, MintAssumption
<1>2. PICK p \in Nat : p = Period(h, BlocksPerEpoch) /\ p * BlocksPerEpoch <= h
  BY EpochLength, PeriodBounds
<1>3. e + 1 <= p
  BY <1>2
<1>4. PICK b \in Nat : b = BlocksPerEpoch /\ b = m * n
  BY <1>1, EpochLength
<1>5. (e + 1) * b <= h
  <2>1. (e + 1) * b <= p * b
    BY <1>3
  <2> QED  BY <1>2, <1>4, <2>1
<1>6. PICK d \in Nat : d = (e + 1) * m
  BY <1>1
<1>7. d * n <= h
  <2>1. d * n = (e + 1) * b
    BY <1>4, <1>6
  <2> QED  BY <1>5, <2>1
<1>8. d <= h \div n
  BY <1>1, <1>7
<1> QED  BY <1>1, <1>6, <1>8 DEF Period

-----------------------------------------------------------------------------
(* The value in force of a lever *)

Stores == [Epochs -> Nat \cup {Nil}]

StoredUpTo(store, e) == {k \in 0 .. e : store[k] # Nil}

(* The last epoch up to e with a value. *)
LastSet(store, e) ==
  CHOOSE k \in StoredUpTo(store, e) : \A j \in StoredUpTo(store, e) : j <= k

LEMMA InForceIsLastSet ==
  ASSUME NEW store, NEW e \in Epochs, store[0] # Nil
  PROVE  /\ InForce(store, e) = store[LastSet(store, e)]
         /\ LastSet(store, e) \in 0 .. e /\ store[LastSet(store, e)] # Nil
         /\ LastSet(store, e) \in Epochs
         /\ \A j \in 0 .. e : store[j] # Nil => j <= LastSet(store, e)
<1>1. e \in Nat /\ \A k \in 0 .. e : k \in Epochs
  BY EpochsAreNaturals
<1>2. 0 \in StoredUpTo(store, e) /\ StoredUpTo(store, e) \subseteq 0 .. e
  BY <1>1 DEF StoredUpTo
<1>3. \E k \in StoredUpTo(store, e) : \A j \in StoredUpTo(store, e) : j <= k
  BY <1>1, <1>2, GreatestElement
<1>4. /\ LastSet(store, e) \in StoredUpTo(store, e)
      /\ \A j \in StoredUpTo(store, e) : j <= LastSet(store, e)
  BY <1>3 DEF LastSet
<1>5. InForce(store, e) = store[LastSet(store, e)]
  BY DEF InForce, LastSet, StoredUpTo
<1> QED  BY <1>1, <1>4, <1>5 DEF StoredUpTo

LEMMA InForceType ==
  ASSUME NEW store \in Stores, NEW e \in Epochs, store[0] # Nil
  PROVE  InForce(store, e) \in Nat
<1>1. /\ InForce(store, e) = store[LastSet(store, e)]
      /\ LastSet(store, e) \in Epochs /\ store[LastSet(store, e)] # Nil
  BY InForceIsLastSet
<1> QED  BY <1>1 DEF Stores

LEMMA InForceWhereSet ==
  ASSUME NEW store, NEW e \in Epochs, store[0] # Nil, store[e] # Nil
  PROVE  InForce(store, e) = store[e]
<1>1. e \in Nat /\ e \in 0 .. e
  BY EpochsAreNaturals
<1>2. /\ InForce(store, e) = store[LastSet(store, e)]
      /\ LastSet(store, e) \in 0 .. e /\ e <= LastSet(store, e)
  BY <1>1, InForceIsLastSet
<1>3. LastSet(store, e) = e
  BY <1>1, <1>2
<1> QED  BY <1>2, <1>3

(* The value in force is the one of the last epoch up to e that is set,     *)
(* whichever store it is looked up in.                                      *)
LEMMA InForceAt ==
  ASSUME NEW store, NEW e \in Epochs, NEW k \in 0 .. e, store[0] # Nil, store[k] # Nil,
         \A j \in 0 .. e : k < j => store[j] = Nil
  PROVE  InForce(store, e) = store[k]
<1>1. e \in Nat
  BY EpochsAreNaturals
<1>2. /\ InForce(store, e) = store[LastSet(store, e)]
      /\ LastSet(store, e) \in 0 .. e /\ store[LastSet(store, e)] # Nil
      /\ k <= LastSet(store, e)
  BY InForceIsLastSet
<1>3. LastSet(store, e) = k
  BY <1>1, <1>2
<1> QED  BY <1>2, <1>3

(* An epoch without value is in force as the one before. *)
LEMMA InForceCarriedOver ==
  ASSUME NEW store, NEW e \in Epochs, NEW f \in 0 .. e, store[0] # Nil,
         \A j \in 0 .. e : f < j => store[j] = Nil
  PROVE  InForce(store, e) = InForce(store, f)
<1>1. e \in Nat /\ f \in Nat /\ f \in Epochs /\ f <= e
  BY EpochsAreNaturals
<1> DEFINE k == LastSet(store, f)
<1>2. /\ InForce(store, f) = store[k] /\ k \in 0 .. f /\ store[k] # Nil
      /\ \A j \in 0 .. f : store[j] # Nil => j <= k
  BY <1>1, InForceIsLastSet
<1> HIDE DEF k
<1>3. k \in 0 .. e /\ \A j \in 0 .. e : k < j => store[j] = Nil
  BY <1>1, <1>2
<1> QED  BY <1>2, <1>3, InForceAt

(* Filling gaps changes nothing that is in force. *)
LEMMA FillingKeeps ==
  ASSUME NEW store \in Stores, NEW new, store[0] # Nil, NEW e \in Epochs,
         \A k \in 0 .. e : new[k] = store[k] \/ (store[k] = Nil /\ new[k] = InForce(store, k))
  PROVE  InForce(new, e) = InForce(store, e)
<1>0. e \in Nat /\ \A k \in 0 .. e : k \in Epochs /\ k \in Nat
  BY EpochsAreNaturals
<1>1. \A k \in 0 .. e : store[k] # Nil => new[k] = store[k]
  OBVIOUS
<1>2. new[0] # Nil
  BY <1>0, <1>1
<1> DEFINE m == LastSet(new, e)
<1>3. /\ InForce(new, e) = new[m] /\ m \in 0 .. e /\ new[m] # Nil
      /\ \A j \in 0 .. e : new[j] # Nil => j <= m
  BY <1>2, InForceIsLastSet
<1> HIDE DEF m
<1>4. \A j \in 0 .. e : m < j => store[j] = Nil
  BY <1>0, <1>1, <1>3
<1>5. CASE store[m] # Nil
  BY <1>1, <1>3, <1>4, <1>5, InForceAt
<1>6. CASE store[m] = Nil
  <2>1. new[m] = InForce(store, m)
    BY <1>3, <1>6
  <2>2. InForce(store, e) = InForce(store, m)
    BY <1>3, <1>4, InForceCarriedOver
  <2> QED  BY <1>3, <2>1, <2>2
<1> QED  BY <1>5, <1>6

-----------------------------------------------------------------------------
(* The inductive invariant.  That the levers stay within their policies     *)
(* needs the values that are stored, not those in force, to be within them; *)
(* that they move only at the turn of an epoch needs the epochs to come to  *)
(* be empty, for the weight the current one too.                            *)

LeverInv ==
  /\ taxRate[0] # Nil /\ rewardWeight[0] # Nil
  /\ \A k \in Epochs : taxRate[k] # Nil => taxRate[k] \in TaxPolicy.min .. TaxPolicy.max
  /\ \A k \in Epochs : rewardWeight[k] # Nil =>
       rewardWeight[k] \in RewardPolicy.min .. RewardPolicy.max
  /\ \A k \in Epochs : k > Epoch => taxRate[k] = Nil
  /\ \A k \in Epochs : k >= Epoch /\ k # 0 => rewardWeight[k] = Nil
  /\ \A k \in Epochs : k >= Epoch => paid[k] = Nil

RatesPositive == \A d \in Denoms : rates[d] # Nil => rates[d] > 0

IssuanceInv == (\A d \in Denoms : Recorded(issuance[d], Today)) /\ Touched(Luna)

PayInv == TypeOK /\ LeverInv /\ RatesPositive /\ IssuanceInv

LEMMA PayTypes ==
  ASSUME TypeOK
  PROVE  /\ issuance \in Snapshots /\ balances \in Holdings /\ Today \in Days
         /\ Epoch \in Epochs /\ Epoch \in Nat /\ height \in Nat
         /\ taxRate \in Stores /\ rewardWeight \in Stores
<1>1. issuance \in Snapshots /\ balances \in Holdings /\ height \in 0 .. MaxHeight
  BY DEF TypeOK, MintTypeOK, Snapshots, Rows, Holdings
<1>2. Today \in Days
  BY <1>1, TodayIsADay DEF Today
<1>3. Epoch \in Epochs /\ Epoch \in Nat
  BY <1>1, HeightIsInEpoch DEF Epoch
<1>4. taxRate \in Stores /\ rewardWeight \in Stores
  BY DEF TypeOK, TreasuryTypeOK, Stores
<1> QED  BY <1>1, <1>2, <1>3, <1>4

(* A value in force is one that is stored. *)
LEMMA InForceInRange ==
  ASSUME PayInv, NEW e \in Epochs
  PROVE  /\ InForce(taxRate, e) \in TaxPolicy.min .. TaxPolicy.max
         /\ InForce(rewardWeight, e) \in RewardPolicy.min .. RewardPolicy.max
         /\ InForce(taxRate, e) \in Nat /\ InForce(rewardWeight, e) \in Nat
<1>1. taxRate[0] # Nil /\ rewardWeight[0] # Nil
  BY DEF PayInv, LeverInv
<1>2. /\ InForce(taxRate, e) = taxRate[LastSet(taxRate, e)]
      /\ LastSet(taxRate, e) \in Epochs /\ taxRate[LastSet(taxRate, e)] # Nil
  BY <1>1, InForceIsLastSet
<1>3. /\ InForce(rewardWeight, e) = rewardWeight[LastSet(rewardWeight, e)]
      /\ LastSet(rewardWeight, e) \in Epochs /\ rewardWeight[LastSet(rewardWeight, e)] # Nil
  BY <1>1, InForceIsLastSet
<1>4. InForce(taxRate, e) \in Nat /\ InForce(rewardWeight, e) \in Nat
  BY <1>1, InForceType, PayTypes DEF PayInv
<1> QED  BY <1>2, <1>3, <1>4 DEF PayInv, LeverInv

-----------------------------------------------------------------------------
(* Seigniorage *)

LEMMA LunaIssuedType ==
  ASSUME PayInv, NEW day \in Days
  PROVE  LunaIssued(day) \in Nat
<1>1. issuance[Luna] \in Rows /\ issuance[Luna][0] # Nil
  BY PayTypes, TreasuryConstants DEF PayInv, IssuanceInv, Touched, Snapshots
<1> QED  BY <1>1, ReadsTouched DEF LunaIssued

LEMMA EpochDays ==
  ASSUME TypeOK, NEW e \in Nat
  PROVE  EpochLastDay(e) \in Days /\ PrevEpochLastDay(e) \in Days
<1>1. Today \in Days /\ Today \in Nat /\ \A k \in 0 .. Today : k \in Days
  BY PayTypes, DaysAreNaturals
<1>2. PICK m \in Nat : m = DaysPerEpoch /\ m > 0
  BY TreasuryConstants
<1>3. PICK n \in Nat : n = (e + 1) * m - 1
  <2>1. (e + 1) * m \in Nat /\ (e + 1) * m > 0
    BY <1>2, ProductPositive
  <2> QED  BY <2>1
<1>4. EpochLastDay(e) \in 0 .. Today
  BY <1>1, <1>2, <1>3 DEF EpochLastDay, Least
<1>5. PrevEpochLastDay(e) \in 0 .. Today
  BY <1>1, <1>2, <1>4 DEF PrevEpochLastDay
<1> QED  BY <1>1, <1>4, <1>5

LEMMA SeigniorageType ==
  ASSUME PayInv, NEW e \in Nat
  PROVE  PeekEpochSeigniorage(e) \in Nat
<1>1. LunaIssued(EpochLastDay(e)) \in Nat /\ LunaIssued(PrevEpochLastDay(e)) \in Nat
  BY EpochDays, LunaIssuedType DEF PayInv
<1> QED  BY <1>1 DEF PeekEpochSeigniorage

(* The days of an epoch that is over. *)
LEMMA DaysOfPastEpoch ==
  ASSUME TypeOK, NEW e \in 0 .. Epoch - 1
  PROVE  /\ EpochLastDay(e) = (e + 1) * DaysPerEpoch - 1
         /\ PrevEpochLastDay(e) = IF e = 0 THEN 0 ELSE e * DaysPerEpoch - 1
         /\ EpochLastDay(e) \in 0 .. Today - 1 /\ PrevEpochLastDay(e) \in 0 .. Today - 1
<1>1. Today \in Nat /\ Epoch \in Nat /\ height \in Nat
  BY PayTypes, DaysAreNaturals
<1>2. e \in Nat /\ e < Epoch
  BY <1>1
<1>3. (e + 1) * DaysPerEpoch <= Today
  BY <1>1, <1>2, EpochIsOver DEF Epoch, Today
<1>4. PICK m \in Nat : m = DaysPerEpoch /\ m > 0
  BY TreasuryConstants
<1>5. PICK n \in Nat : n = e * m /\ (e > 0 => n >= m)
  <2>1. e * m \in Nat
    BY <1>2, ProductPositive
  <2>2. e > 0 => e * m >= m
    BY <1>2, <1>4
  <2> QED  BY <2>1, <2>2
<1>6. (e + 1) * m = n + m
  BY <1>2, <1>5
<1>7. EpochLastDay(e) = n + m - 1
  BY <1>1, <1>3, <1>4, <1>6 DEF EpochLastDay, Least
<1>8. PrevEpochLastDay(e) = IF e = 0 THEN 0 ELSE n - 1
  <2>1. e = 0 => n = 0
    BY <1>4, <1>5
  <2> QED  BY <1>2, <1>4, <1>5, <1>7, <2>1 DEF PrevEpochLastDay
<1>9. n + m <= Today
  BY <1>3, <1>4, <1>6
<1>10. EpochLastDay(e) \in 0 .. Today - 1 /\ PrevEpochLastDay(e) \in 0 .. Today - 1
  BY <1>1, <1>2, <1>4, <1>5, <1>7, <1>8, <1>9
<1> QED  BY <1>4, <1>5, <1>6, <1>7, <1>8, <1>10

-----------------------------------------------------------------------------
(* The indicators are natural numbers *)

RatesOK(r) ==
  r \in [Denoms -> Nat \cup {Nil}] /\ \A d \in Denoms : r[d] # Nil => r[d] > 0

LEMMA RoundsToNatural ==
  ASSUME NEW n \in Nat, NEW m \in Nat, m > 0
  PROVE  RoundInt(n, m) \in Nat
<1>1. m \in Nat \ {0}
  OBVIOUS
<1> QED  BY <1>1, RoundIntBounds

LEMMA QuoMulType ==
  ASSUME NEW x \in Nat, NEW y \in Nat
  PROVE  Mul(x, y) \in Nat /\ (y # 0 => Quo(x, y) \in Nat)
<1>1. DecOne \in Nat /\ DecOne > 0
  BY TreasuryConstants
<1>2. x * y \in Nat /\ x * DecOne \in Nat
  BY <1>1, ProductPositive
<1>3. Mul(x, y) \in Nat
  BY <1>1, <1>2, RoundsToNatural DEF Mul
<1>4. y # 0 => Quo(x, y) \in Nat
  BY <1>2, RoundsToNatural DEF Quo
<1> QED  BY <1>3, <1>4

LEMMA InSDRType ==
  ASSUME NEW r, RatesOK(r), NEW d \in Denoms, NEW amount \in Nat
  PROVE  InSDR(r, d, amount) \in Nat
<1>1. SDR \in Denoms
  BY TreasuryConstants
<1>2. ASSUME r[d] # Nil, r[SDR] # Nil
      PROVE  Quo(Mul(amount, r[SDR]), r[d]) \in Nat
  <2>1. r[d] \in Nat /\ r[d] # 0 /\ r[SDR] \in Nat
    BY <1>1, <1>2 DEF RatesOK
  <2>2. Mul(amount, r[SDR]) \in Nat
    BY <2>1, QuoMulType
  <2> QED  BY <2>1, <2>2, QuoMulType
<1> QED  BY <1>2 DEF InSDR

LEMMA RewardsType ==
  ASSUME PayInv, NEW r, RatesOK(r), NEW e \in Epochs
  PROVE  /\ TaxRewardsForEpoch(r, e) \in Nat
         /\ SeigniorageRewardsForEpoch(r, e) \in Nat
         /\ MiningRewardForEpoch(r, e) \in Nat
         /\ TRL(r, e) \in Nat
<1> DEFINE f == [d \in Denoms |-> InSDR(r, d, proceeds[e][d] * DecOne)]
<1>1. \A d \in Denoms : f[d] \in Nat
  <2> SUFFICES ASSUME NEW d \in Denoms PROVE InSDR(r, d, proceeds[e][d] * DecOne) \in Nat
    OBVIOUS
  <2>1. proceeds[e][d] \in Nat /\ DecOne \in Nat
    BY TreasuryConstants DEF PayInv, TypeOK, TreasuryTypeOK
  <2>2. proceeds[e][d] * DecOne \in Nat
    BY <2>1, ProductPositive
  <2> QED  BY <2>2, InSDRType
<1>2. TaxRewardsForEpoch(r, e) = SumFunctionOnSet(f, Denoms)
  BY DEF TaxRewardsForEpoch, SumFunction
<1> HIDE DEF f
<1>3. SumFunctionOnSet(f, Denoms) \in Nat
  BY <1>1, TreasuryConstants, SumType
<1>4. SeigniorageRewardsForEpoch(r, e) \in Nat
  <2>1. e \in Nat
    BY EpochsAreNaturals
  <2>2. InForce(rewardWeight, e) \in Nat /\ PeekEpochSeigniorage(e) \in Nat
    BY <2>1, InForceInRange, SeigniorageType
  <2>3. InForce(rewardWeight, e) * PeekEpochSeigniorage(e) \in Nat
    BY <2>2, ProductPositive
  <2> QED  BY <2>3, InSDRType, TreasuryConstants DEF SeigniorageRewardsForEpoch
<1>5. TRL(r, e) \in Nat
  <2>1. PICK n \in Nat, b \in Nat : n = TaxRewardsForEpoch(r, e) /\ b = TotalBonded /\ b > 0
    BY <1>2, <1>3, TreasuryConstants
  <2>2. n \div b \in Nat
    BY <2>1
  <2> QED  BY <2>1, <2>2 DEF TRL
<1> QED  BY <1>2, <1>3, <1>4, <1>5 DEF MiningRewardForEpoch

LEMMA WindowIsFinite ==
  ASSUME TypeOK, NEW w
  PROVE  /\ Window(w) \subseteq Epochs /\ IsFiniteSet(Window(w))
         /\ Window(w) \subseteq 0 .. Epoch
         /\ Window(w) # {} => Cardinality(Window(w)) \in Nat /\ Cardinality(Window(w)) > 0
<1>1. Epoch \in Nat /\ Epoch \in Epochs
  BY PayTypes
<1>2. Window(w) \subseteq 0 .. Epoch /\ \A k \in 0 .. Epoch : k \in Epochs
  BY <1>1, EpochsAreNaturals DEF Window
<1>3. IsFiniteSet(Window(w))
  BY <1>2, EpochsAreNaturals, FS_Subset
<1>4. Cardinality(Window(w)) \in Nat /\ (Cardinality(Window(w)) = 0 <=> Window(w) = {})
  BY <1>3, FS_CardinalityType, FS_EmptySet
<1> QED  BY <1>2, <1>3, <1>4

LEMMA SumsType ==
  ASSUME PayInv, NEW r, RatesOK(r), NEW w
  PROVE  RollingTRL(r, w) \in Nat /\ SeigniorageSum(r) \in Nat /\ MiningRewardSum(r) \in Nat
<1>0. /\ Window(w) \subseteq Epochs /\ IsFiniteSet(Window(w))
      /\ Window(WindowShort) \subseteq Epochs /\ IsFiniteSet(Window(WindowShort))
  BY WindowIsFinite DEF PayInv
<1>1. RollingTRL(r, w) \in Nat
  <2> DEFINE f == [e \in Window(w) |-> TRL(r, e)]
  <2>1. CASE Window(w) = {}
    BY <2>1 DEF RollingTRL
  <2>2. CASE Window(w) # {}
    <3>1. RollingTRL(r, w) = SumFunctionOnSet(f, Window(w)) \div Cardinality(Window(w))
      BY <2>2 DEF RollingTRL, SumFunction
    <3>2. \A e \in Window(w) : f[e] \in Nat
      BY <1>0, RewardsType
    <3> HIDE DEF f
    <3>3. SumFunctionOnSet(f, Window(w)) \in Nat
      BY <1>0, <3>2, SumType
    <3>4. PICK n \in Nat, c \in Nat : /\ n = SumFunctionOnSet(f, Window(w))
                                      /\ c = Cardinality(Window(w)) /\ c > 0
      BY <2>2, <3>3, WindowIsFinite DEF PayInv
    <3>5. n \div c \in Nat
      BY <3>4
    <3> QED  BY <3>1, <3>4, <3>5
  <2> QED  BY <2>1, <2>2
<1>2. SeigniorageSum(r) \in Nat
  <2> DEFINE f == [e \in Window(WindowShort) |-> SeigniorageRewardsForEpoch(r, e)]
  <2>1. SeigniorageSum(r) = SumFunctionOnSet(f, Window(WindowShort))
    BY DEF SeigniorageSum, SumFunction
  <2>2. \A e \in Window(WindowShort) : f[e] \in Nat
    BY <1>0, RewardsType
  <2> HIDE DEF f
  <2>3. SumFunctionOnSet(f, Window(WindowShort)) \in Nat
    BY <1>0, <2>2, SumType
  <2> QED  BY <2>1, <2>3
<1>3. MiningRewardSum(r) \in Nat
  <2> DEFINE f == [e \in Window(WindowShort) |-> MiningRewardForEpoch(r, e)]
  <2>1. MiningRewardSum(r) = SumFunctionOnSet(f, Window(WindowShort))
    BY DEF MiningRewardSum, SumFunction
  <2>2. \A e \in Window(WindowShort) : f[e] \in Nat
    BY <1>0, RewardsType
  <2> HIDE DEF f
  <2>3. SumFunctionOnSet(f, Window(WindowShort)) \in Nat
    BY <1>0, <2>2, SumType
  <2> QED  BY <2>1, <2>3
<1> QED  BY <1>1, <1>2, <1>3

LEMMA DistanceOfClamp ==
  ASSUME NEW policy \in Policies, NEW prev \in policy.min .. policy.max, NEW wanted \in Int
  PROVE  /\ Clamp(policy, prev, wanted) \in policy.min .. policy.max
         /\ Distance(prev, Clamp(policy, prev, wanted)) <= policy.change
<1>1. /\ Clamp(policy, prev, wanted) \in policy.min .. policy.max
      /\ Clamp(policy, prev, wanted) - prev \in -policy.change .. policy.change
  BY ClampSound
<1>2. policy.min \in Nat /\ policy.max \in Nat /\ policy.change \in Nat
  BY DEF Policies
<1> QED  BY <1>1, <1>2 DEF Distance

(* Whatever the indicators, the new levers are within the policy and within *)
(* the largest change of the old ones.                                      *)
LEMMA NewTaxRateGuarantee ==
  ASSUME PayInv, NEW r, RatesOK(r)
  PROVE  /\ NewTaxRate(r) \in TaxPolicy.min .. TaxPolicy.max
         /\ Distance(InForce(taxRate, Epoch), NewTaxRate(r)) <= TaxPolicy.change
<1> DEFINE old == InForce(taxRate, Epoch)
           month == RollingTRL(r, WindowShort)
           wanted == IF month = 0 THEN TaxPolicy.max
                     ELSE Quo(Mul(old, Mul(RollingTRL(r, WindowLong), Increment)), month)
<1>1. old \in TaxPolicy.min .. TaxPolicy.max /\ old \in Nat
  BY InForceInRange, PayTypes DEF PayInv
<1>2. month \in Nat /\ RollingTRL(r, WindowLong) \in Nat
  BY SumsType
<1>3. Mul(RollingTRL(r, WindowLong), Increment) \in Nat
  BY <1>2, QuoMulType, TreasuryConstants
<1>4. Mul(old, Mul(RollingTRL(r, WindowLong), Increment)) \in Nat
  BY <1>1, <1>3, QuoMulType
<1>5. wanted \in Int
  <2>1. month # 0 => Quo(Mul(old, Mul(RollingTRL(r, WindowLong), Increment)), month) \in Nat
    BY <1>2, <1>4, QuoMulType
  <2> QED  BY <2>1, PolicyConstants
<1>6. NewTaxRate(r) = Clamp(TaxPolicy, old, wanted)
  BY DEF NewTaxRate
<1> HIDE DEF old, month, wanted
<1>7. /\ Clamp(TaxPolicy, old, wanted) \in TaxPolicy.min .. TaxPolicy.max
      /\ Distance(old, Clamp(TaxPolicy, old, wanted)) <= TaxPolicy.change
  BY <1>1, <1>5, PolicyConstants, DistanceOfClamp
<1> QED  BY <1>6, <1>7 DEF old

LEMMA NewRewardWeightGuarantee ==
  ASSUME PayInv, NEW r, RatesOK(r), ~BurdenVanishes(r)
  PROVE  /\ NewRewardWeight(r) \in RewardPolicy.min .. RewardPolicy.max
         /\ Distance(InForce(rewardWeight, Epoch), NewRewardWeight(r)) <= RewardPolicy.change
<1> DEFINE old == InForce(rewardWeight, Epoch)
           s == SeigniorageSum(r)
           m == MiningRewardSum(r)
           wanted == IF s = 0 \/ m = 0 THEN RewardPolicy.max
                     ELSE Mul(old, Quo(BurdenTarget, Quo(s, m)))
<1>1. old \in RewardPolicy.min .. RewardPolicy.max /\ old \in Nat
  BY InForceInRange, PayTypes DEF PayInv
<1>2. s \in Nat /\ m \in Nat
  BY SumsType
<1>3. wanted \in Int
  <2>1. CASE s = 0 \/ m = 0
    BY <2>1, PolicyConstants
  <2>2. CASE ~(s = 0 \/ m = 0)
    <3>1. Quo(s, m) \in Nat /\ Quo(s, m) # 0
      BY <1>2, <2>2, QuoMulType DEF BurdenVanishes
    <3>2. Quo(BurdenTarget, Quo(s, m)) \in Nat
      BY <3>1, QuoMulType, TreasuryConstants
    <3>3. Mul(old, Quo(BurdenTarget, Quo(s, m))) \in Nat
      BY <1>1, <3>2, QuoMulType
    <3> QED  BY <2>2, <3>3
  <2> QED  BY <2>1, <2>2
<1>4. NewRewardWeight(r) = Clamp(RewardPolicy, old, wanted)
  BY DEF NewRewardWeight
<1> HIDE DEF old, s, m, wanted
<1>5. /\ Clamp(RewardPolicy, old, wanted) \in RewardPolicy.min .. RewardPolicy.max
      /\ Distance(old, Clamp(RewardPolicy, old, wanted)) <= RewardPolicy.change
  BY <1>1, <1>3, PolicyConstants, DistanceOfClamp
<1> QED  BY <1>4, <1>5 DEF old

-----------------------------------------------------------------------------
(* What a block may do to the store of a lever *)

Lever(store, policy) ==
  /\ store \in Stores /\ store[0] # Nil
  /\ \A k \in Epochs : store[k] # Nil => store[k] \in policy.min .. policy.max
  /\ \A k \in Epochs : k > Epoch => store[k] = Nil

(* The past keeps what was in force, the present and the future have v. *)
LeverMoved(new, store, policy, v) ==
  /\ Lever(new, policy)
  /\ \A e \in Epochs : e < Epoch => InForce(new, e) = InForce(store, e)
  /\ \A e \in Epochs : e >= Epoch => InForce(new, e) = v

LEMMA LeversOfInvariant ==
  ASSUME PayInv
  PROVE  Lever(taxRate, TaxPolicy) /\ Lever(rewardWeight, RewardPolicy)
<1>1. taxRate \in Stores /\ rewardWeight \in Stores /\ Epoch \in Nat
  BY PayTypes DEF PayInv
<1>2. \A k \in Epochs : k > Epoch => k >= Epoch /\ k # 0
  BY <1>1, EpochsAreNaturals
<1> QED  BY <1>1, <1>2 DEF PayInv, LeverInv, Lever

LEMMA LeverFuture ==
  ASSUME TypeOK, NEW store, NEW policy, Lever(store, policy), NEW e \in Epochs, e >= Epoch
  PROVE  InForce(store, e) = InForce(store, Epoch)
<1>1. Epoch \in Nat /\ e \in Nat /\ \A j \in 0 .. e : j \in Epochs
  BY PayTypes, EpochsAreNaturals
<1>2. Epoch \in 0 .. e /\ \A j \in 0 .. e : Epoch < j => store[j] = Nil
  BY <1>1 DEF Lever
<1> QED  BY <1>2, InForceCarriedOver DEF Lever

LEMMA LeverFilled ==
  ASSUME TypeOK, NEW store, NEW policy \in Policies, Lever(store, policy), NEW new, DOMAIN new = Epochs,
         new = [k \in Epochs |-> new[k]],
         \A k \in Epochs : \/ new[k] = store[k]
                           \/ k <= Epoch /\ store[k] = Nil /\ new[k] = InForce(store, k)
  PROVE  LeverMoved(new, store, policy, InForce(store, Epoch))
<1>0. /\ store \in Stores /\ store[0] # Nil /\ Epoch \in Nat /\ Epoch \in Epochs
      /\ Epochs \subseteq Nat /\ \A e \in Epochs : \A k \in 0 .. e : k \in Epochs
  BY PayTypes, EpochsAreNaturals DEF Lever
<1>1. \A k \in Epochs : InForce(store, k) \in policy.min .. policy.max /\ InForce(store, k) \in Nat
  <2> SUFFICES ASSUME NEW k \in Epochs
               PROVE  InForce(store, k) \in policy.min .. policy.max /\ InForce(store, k) \in Nat
    OBVIOUS
  <2>1. /\ InForce(store, k) = store[LastSet(store, k)]
        /\ LastSet(store, k) \in Epochs /\ store[LastSet(store, k)] # Nil
    BY <1>0, InForceIsLastSet
  <2>2. InForce(store, k) \in Nat
    BY <1>0, InForceType
  <2> QED  BY <2>1, <2>2 DEF Lever
<1>2. \A e \in Epochs : InForce(new, e) = InForce(store, e)
  BY <1>0, FillingKeeps
<1>3. new \in Stores
  <2>1. \A k \in Epochs : new[k] \in Nat \cup {Nil}
    BY <1>0, <1>1 DEF Stores
  <2> QED  BY <2>1 DEF Stores
<1>4. new[0] # Nil
  BY <1>0, EpochsAreNaturals
<1>5. \A k \in Epochs : new[k] # Nil => new[k] \in policy.min .. policy.max
  BY <1>1 DEF Lever
<1>6. \A k \in Epochs : k > Epoch => new[k] = Nil
  BY <1>0 DEF Lever
<1>7. Lever(new, policy)
  BY <1>3, <1>4, <1>5, <1>6 DEF Lever
<1> QED  BY <1>2, <1>7, LeverFuture DEF LeverMoved

LEMMA LeverSet ==
  ASSUME TypeOK, NEW store, NEW fill, NEW policy \in Policies, NEW w,
         LeverMoved(fill, store, policy, w), NEW v \in policy.min .. policy.max
  PROVE  LeverMoved([fill EXCEPT ![Epoch] = v], store, policy, v)
<1> DEFINE new == [fill EXCEPT ![Epoch] = v]
<1>0. /\ fill \in Stores /\ fill[0] # Nil /\ Epoch \in Nat /\ Epoch \in Epochs
      /\ Epochs \subseteq Nat /\ 0 \in Epochs /\ \A e \in Epochs : \A k \in 0 .. e : k \in Epochs
  BY PayTypes, EpochsAreNaturals DEF Lever, LeverMoved
<1>1. v \in Nat /\ v # Nil
  <2>1. policy.min \in Nat /\ policy.max \in Nat
    BY DEF Policies
  <2> QED  BY <2>1, MintAssumption
<1>2. new \in Stores /\ new[Epoch] = v /\ \A k \in Epochs \ {Epoch} : new[k] = fill[k]
  BY <1>0, <1>1 DEF Stores
<1> HIDE DEF new
<1>3. new[0] # Nil
  BY <1>0, <1>1, <1>2
<1>4. Lever(new, policy)
  BY <1>0, <1>1, <1>2, <1>3 DEF Lever, LeverMoved
<1>5. ASSUME NEW e \in Epochs, e < Epoch
      PROVE  InForce(new, e) = InForce(store, e)
  <2>1. \A k \in 0 .. e : new[k] = fill[k]
    BY <1>0, <1>2, <1>5
  <2>2. InForce(new, e) = InForce(fill, e)
    BY <1>0, <2>1, FillingKeeps
  <2> QED  BY <1>5, <2>2 DEF LeverMoved
<1>6. InForce(new, Epoch) = v
  BY <1>0, <1>1, <1>2, <1>3, InForceWhereSet
<1>7. \A e \in Epochs : e >= Epoch => InForce(new, e) = v
  BY <1>4, <1>6, LeverFuture
<1> QED  BY <1>4, <1>5, <1>7 DEF LeverMoved, new

LEMMA TaxRateFilled ==
  ASSUME PayInv
  PROVE  LeverMoved(FillTaxRate(Epoch), taxRate, TaxPolicy, InForce(taxRate, Epoch))
  BY LeversOfInvariant, LeverFilled, PolicyConstants DEF PayInv, FillTaxRate

LEMMA RewardWeightFilled ==
  ASSUME PayInv, NEW read, read \subseteq 0 .. Epoch
  PROVE  LeverMoved(FillRewardWeight(read), rewardWeight, RewardPolicy,
                    InForce(rewardWeight, Epoch))
<1>1. \A k \in read : k <= Epoch
  BY PayTypes DEF PayInv
<1> QED  BY <1>1, LeversOfInvariant, LeverFilled, PolicyConstants DEF PayInv, FillRewardWeight

-----------------------------------------------------------------------------
(* What a step may do to the issuance *)

IssuanceStep ==
  /\ issuance' \in Snapshots
  /\ \A d \in Denoms : Recorded(issuance'[d], Today)
  /\ issuance'[Luna][0] # Nil
  /\ \A day \in 0 .. Today - 1 : GetIssuance(issuance', balances', Luna, day) = LunaIssued(day)

LEMMA IssuanceStays ==
  ASSUME PayInv, issuance' = issuance
  PROVE  IssuanceStep
<1>1. /\ issuance \in Snapshots /\ Today \in Days /\ Today \in Nat
      /\ \A day \in 0 .. Today - 1 : day \in Days
  BY PayTypes, DaysAreNaturals DEF PayInv
<1>2. /\ \A d \in Denoms : Recorded(issuance[d], Today)
      /\ issuance[Luna][0] # Nil
  BY DEF PayInv, IssuanceInv, Touched
<1>3. ASSUME NEW day \in 0 .. Today - 1
      PROVE  GetIssuance(issuance', balances', Luna, day) = LunaIssued(day)
  BY <1>1, <1>2, ReadsOneRow DEF LunaIssued
<1> QED  BY <1>1, <1>2, <1>3 DEF IssuanceStep

(* The Luna row is filled up to today and may be changed there. *)
LEMMA IssuanceWritten ==
  ASSUME PayInv, NEW bal \in Holdings, NEW delta \in Int,
         issuance' = FillIssuance(issuance, bal, Luna, Today)
           \/ /\ IssuanceCovers(issuance, bal, Luna, delta, Today)
              /\ issuance' = ChangeIssuance(issuance, bal, Luna, delta, Today)
  PROVE  IssuanceStep
<1> DEFINE fill == FillIssuance(issuance, bal, Luna, Today)
           value == GetIssuance(issuance, bal, Luna, Today)
<1>1. /\ issuance \in Snapshots /\ Today \in Days /\ Today \in Nat /\ Luna \in Denoms
      /\ 0 \in 0 .. Today /\ \A day \in 0 .. Today - 1 : day \in Days /\ day \in 0 .. Today
  BY PayTypes, DaysAreNaturals, TreasuryConstants DEF PayInv
<1>2. /\ \A d \in Denoms : Recorded(issuance[d], Today)
      /\ issuance[Luna][0] # Nil
  BY DEF PayInv, IssuanceInv, Touched
<1>3. /\ fill \in Snapshots
      /\ \A e \in Denoms \ {Luna} : fill[e] = issuance[e]
      /\ Recorded(fill[Luna], Today)
      /\ \A k \in 0 .. Today : fill[Luna][k] # Nil
      /\ \A k \in Days : issuance[Luna][k] # Nil => fill[Luna][k] = issuance[Luna][k]
      /\ \A k \in 0 .. Today : issuance[Luna][k] = Nil => fill[Luna][k] = value
  BY <1>1, <1>2, FillGuarantee
<1>4. /\ issuance' \in Snapshots
      /\ \A e \in Denoms \ {Luna} : issuance'[e] = issuance[e]
      /\ Recorded(issuance'[Luna], Today)
      /\ \A k \in 0 .. Today : issuance'[Luna][k] # Nil
      /\ \A k \in 0 .. Today - 1 : issuance'[Luna][k] = fill[Luna][k]
  <2>1. CASE issuance' = fill
    BY <1>3, <2>1
  <2>2. CASE /\ IssuanceCovers(issuance, bal, Luna, delta, Today)
             /\ issuance' = ChangeIssuance(issuance, bal, Luna, delta, Today)
    BY <1>1, <1>2, <2>2, ChangeGuarantee
  <2> QED  BY <2>1, <2>2
<1> HIDE DEF fill
<1>5. ASSUME NEW day \in 0 .. Today - 1
      PROVE  GetIssuance(issuance', balances', Luna, day) = LunaIssued(day)
  <2>1. day \in 0 .. Today /\ day \in Days
    BY <1>1
  <2>2. /\ issuance'[Luna][day] # Nil
        /\ issuance[Luna][day] # Nil => issuance'[Luna][day] = issuance[Luna][day]
        /\ issuance[Luna][day] = Nil => issuance'[Luna][day] = value
    BY <1>3, <1>4, <2>1
  <2>3. GetIssuance(issuance', balances', Luna, day) = GetIssuance(issuance, bal, Luna, day)
    BY <1>1, <1>2, <2>1, <2>2, PastReadsTheSame
  <2>4. GetIssuance(issuance, bal, Luna, day) = GetIssuance(issuance, balances, Luna, day)
    BY <1>2, <2>1, ReadsOneRow
  <2> QED  BY <2>3, <2>4 DEF LunaIssued
<1>6. \A d \in Denoms : Recorded(issuance'[d], Today)
  BY <1>2, <1>4
<1> QED  BY <1>1, <1>4, <1>5, <1>6 DEF IssuanceStep

-----------------------------------------------------------------------------
(* Transfers *)

LEMMA TaxDueType ==
  ASSUME PayInv, NEW d \in Denoms, NEW amount \in Nat
  PROVE  TaxDue(d, amount) \in Nat /\ GetTaxCap(d) \in Nat
<1>1. GetTaxCap(d) \in Nat
  <2>1. /\ taxCap[d] \in Nat \cup {Nil} /\ rates[d] \in Nat \cup {Nil}
        /\ rates[SDR] \in Nat \cup {Nil} /\ (rates[SDR] # Nil => rates[SDR] > 0)
    BY TreasuryConstants DEF PayInv, TypeOK, TreasuryTypeOK, RatesPositive
  <2>2. ASSUME rates[d] # Nil, rates[SDR] # Nil PROVE SwappedCap(d) \in Nat
    <3>1. ReferenceCap * rates[d] \in Nat
      BY <2>1, <2>2, TreasuryConstants, ProductPositive
    <3>2. PICK q \in Nat : q = Quo(ReferenceCap * rates[d], rates[SDR])
      <4>1. PICK m \in Nat, n \in Nat : m = ReferenceCap * rates[d] /\ n = rates[SDR] /\ n # 0
        BY <2>1, <2>2, <3>1
      <4>2. Quo(m, n) \in Nat
        BY <4>1, QuoMulType
      <4> QED  BY <4>1, <4>2
    <3>3. q \div DecOne \in Nat
      BY TreasuryConstants
    <3> QED  BY <3>2, <3>3 DEF SwappedCap
  <2> QED  BY <2>1, <2>2, TreasuryConstants DEF GetTaxCap
<1>2. CurrentTaxRate \in Nat
  BY InForceInRange, PayTypes DEF PayInv, CurrentTaxRate
<1>3. (amount * CurrentTaxRate) \div DecOne \in Nat
  <2>1. PICK m \in Nat, n \in Nat : m = amount * CurrentTaxRate /\ n = DecOne /\ n > 0
    BY <1>2, TreasuryConstants, ProductPositive
  <2>2. m \div n \in Nat
    BY <2>1
  <2> QED  BY <2>1, <2>2
<1> QED  BY <1>1, <1>3 DEF TaxDue, Least

Inputs == [Accounts -> [Denoms -> Nat]]

LEMMA TotalsType ==
  ASSUME PayInv, NEW inputs \in Inputs, NEW d \in Denoms
  PROVE  SentCoins(inputs, d) \in Nat /\ TotalTax(inputs, d) \in Nat
<1> DEFINE s == [a \in Accounts |-> inputs[a][d]]
           x == [a \in Accounts |-> TaxDue(d, inputs[a][d])]
<1>1. IsFiniteSet(Accounts)
  BY MintAssumption
<1>2. \A a \in Accounts : s[a] \in Nat /\ x[a] \in Nat
  BY TaxDueType DEF Inputs
<1>3. /\ SentCoins(inputs, d) = SumFunctionOnSet(s, Accounts)
      /\ TotalTax(inputs, d) = SumFunctionOnSet(x, Accounts)
  BY DEF SentCoins, TotalTax, SumFunction
<1> HIDE DEF s, x
<1>4. SumFunctionOnSet(s, Accounts) \in Nat
  BY <1>1, <1>2, SumType
<1>5. SumFunctionOnSet(x, Accounts) \in Nat
  BY <1>1, <1>2, SumType
<1> QED  BY <1>3, <1>4, <1>5

(* The accounts lose the tax and nothing else. *)
LEMMA TransferBalances ==
  ASSUME PayInv, NEW inputs \in Inputs, NEW to \in Accounts, Covers(inputs),
         balances' = [d \in Denoms |-> [a \in Accounts |->
           balances[d][a] - inputs[a][d] - TaxDue(d, inputs[a][d])
             + (IF a = to THEN SentCoins(inputs, d) ELSE 0)]]
  PROVE  /\ balances' \in Holdings
         /\ \A d \in Denoms :
              InAccounts(balances', d) = InAccounts(balances, d) - TotalTax(inputs, d)
<1>0. balances \in Holdings /\ IsFiniteSet(Accounts)
  BY PayTypes, MintAssumption DEF PayInv
<1>1. ASSUME NEW d \in Denoms, NEW a \in Accounts
      PROVE  /\ balances[d][a] \in Nat /\ inputs[a][d] \in Nat
             /\ TaxDue(d, inputs[a][d]) \in Nat /\ SentCoins(inputs, d) \in Nat
             /\ balances[d][a] - inputs[a][d] - TaxDue(d, inputs[a][d]) >= 0
  <2>1. balances[d][a] \in Nat /\ inputs[a][d] \in Nat
    BY <1>0 DEF Holdings, Inputs
  <2>2. TaxDue(d, inputs[a][d]) \in Nat /\ SentCoins(inputs, d) \in Nat
    BY <2>1, TaxDueType, TotalsType
  <2> QED  BY <2>1, <2>2 DEF Covers
<1>2. balances' \in Holdings
  <2>1. ASSUME NEW d \in Denoms, NEW a \in Accounts
        PROVE  balances[d][a] - inputs[a][d] - TaxDue(d, inputs[a][d])
                 + (IF a = to THEN SentCoins(inputs, d) ELSE 0) \in Nat
    BY <1>1
  <2> QED  BY <2>1 DEF Holdings
<1>3. ASSUME NEW d \in Denoms
      PROVE  InAccounts(balances', d) = InAccounts(balances, d) - TotalTax(inputs, d)
  <2> DEFINE b == balances[d]
             s == [a \in Accounts |-> inputs[a][d]]
             x == [a \in Accounts |-> TaxDue(d, inputs[a][d])]
             g == [a \in Accounts |-> (-1) * s[a] + b[a]]
             h == [a \in Accounts |-> (-1) * x[a] + g[a]]
             n == balances'[d]
  <2>1. \A a \in Accounts : b[a] \in Int /\ s[a] \in Int /\ x[a] \in Int
    BY <1>1
  <2>2. PICK S \in Nat, T \in Nat : /\ S = SentCoins(inputs, d) /\ T = TotalTax(inputs, d)
                                    /\ S = SumFunctionOnSet(s, Accounts)
                                    /\ T = SumFunctionOnSet(x, Accounts)
    BY TotalsType DEF SentCoins, TotalTax, SumFunction
  <2>3. \A a \in Accounts : g[a] \in Int /\ h[a] \in Int
                            /\ g[a] = (-1) * s[a] + b[a] /\ h[a] = (-1) * x[a] + g[a]
    BY <2>1
  <2>4. \A a \in Accounts : n[a] = h[a] + (IF a = to THEN S ELSE 0)
    <3> SUFFICES ASSUME NEW a \in Accounts
                 PROVE  n[a] = h[a] + (IF a = to THEN S ELSE 0)
      OBVIOUS
    <3>1. n[a] = balances[d][a] - inputs[a][d] - TaxDue(d, inputs[a][d])
                   + (IF a = to THEN S ELSE 0)
      BY <2>2
    <3>2. h[a] = (-1) * TaxDue(d, inputs[a][d]) + ((-1) * inputs[a][d] + balances[d][a])
      OBVIOUS
    <3> QED  BY <1>1, <3>1, <3>2
  <2>5. /\ InAccounts(balances, d) = SumFunctionOnSet(b, Accounts)
        /\ InAccounts(balances', d) = SumFunctionOnSet(n, Accounts)
    BY <1>0, <1>2, InAccountsType
  <2> HIDE DEF b, s, x, g, h, n
  <2>6. SumFunctionOnSet(g, Accounts)
          = (-1) * SumFunctionOnSet(s, Accounts) + SumFunctionOnSet(b, Accounts)
    BY <1>0, <2>1, <2>3, SumLinear
  <2>7. SumFunctionOnSet(h, Accounts)
          = (-1) * SumFunctionOnSet(x, Accounts) + SumFunctionOnSet(g, Accounts)
    BY <1>0, <2>1, <2>3, SumLinear
  <2>8. SumFunctionOnSet(n, Accounts) = SumFunctionOnSet(h, Accounts) + n[to] - h[to]
    <3>1. \A a \in Accounts : n[a] \in Int /\ (a # to => n[a] = h[a])
      BY <2>3, <2>4
    <3> QED  BY <1>0, <2>3, <3>1, SumChange
  <2>9. SumFunctionOnSet(b, Accounts) \in Int
    BY <1>0, <2>1, SumType
  <2>10. n[to] = h[to] + S /\ h[to] \in Int
    BY <2>3, <2>4
  <2>11. SumFunctionOnSet(h, Accounts) \in Int
    BY <1>0, <2>3, SumType
  <2> QED  BY <2>2, <2>5, <2>6, <2>7, <2>8, <2>9, <2>10, <2>11
<1> QED  BY <1>2, <1>3

-----------------------------------------------------------------------------
(* A new chain *)

(* The first block may already be in epoch 1. *)
LEMMA FirstBlock ==
  /\ 1 \in 0 .. MaxHeight
  /\ Period(1, BlocksPerDay) \in Days /\ 0 <= Period(1, BlocksPerDay) /\ 0 \in Days
  /\ Period(1, BlocksPerEpoch) \in Epochs /\ Period(1, BlocksPerEpoch) \in Nat
<1>1. 1 \in 0 .. MaxHeight
  BY MintAssumption
<1>2. Period(1, BlocksPerDay) \in Days
  BY <1>1, TodayIsADay
<1>3. Period(1, BlocksPerEpoch) \in Epochs /\ Period(1, BlocksPerEpoch) \in Nat
  BY <1>1, HeightIsInEpoch
<1> QED  BY <1>1, <1>2, <1>3, DaysAreNaturals

LEMMA FirstCountGuarantee ==
  ASSUME balances \in Holdings
  PROVE  /\ FirstCount \in Snapshots
         /\ \A d \in Denoms : Recorded(FirstCount[d], 0)
         /\ FirstCount[Luna][0] # Nil
<1> DEFINE empty == [d \in Denoms |-> [day \in Days |-> Nil]]
<1>1. empty \in Snapshots /\ \A d \in Denoms : Recorded(empty[d], 0)
  BY DEF Snapshots, Rows, Recorded
<1>2. FirstCount = FillIssuance(empty, balances, Luna, 0)
  BY DEF FirstCount
<1>3. Luna \in Denoms /\ 0 \in Days
  BY TreasuryConstants, FirstBlock
<1> HIDE DEF empty
<1>4. /\ FirstCount \in Snapshots
      /\ \A d \in Denoms \ {Luna} : FirstCount[d] = empty[d]
      /\ Recorded(FirstCount[Luna], 0)
      /\ \A k \in 0 .. 0 : FirstCount[Luna][k] # Nil
  BY <1>1, <1>2, <1>3, FillGuarantee
<1> QED  BY <1>1, <1>4

(* A lever that starts again is in force everywhere. *)
LEMMA AtGenesisGuarantee ==
  ASSUME NEW v \in Nat
  PROVE  /\ AtGenesis(v) \in Stores /\ AtGenesis(v)[0] = v
         /\ \A k \in Epochs : k # 0 => AtGenesis(v)[k] = Nil
         /\ \A e \in Epochs : InForce(AtGenesis(v), e) = v
<1>1. /\ AtGenesis(v) \in Stores /\ AtGenesis(v)[0] = v /\ v # Nil
      /\ \A k \in Epochs : k # 0 => AtGenesis(v)[k] = Nil
  BY EpochsAreNaturals, MintAssumption DEF AtGenesis, Stores
<1>2. ASSUME NEW e \in Epochs
      PROVE  InForce(AtGenesis(v), e) = v
  <2>1. e \in Nat /\ 0 \in 0 .. e /\ \A j \in 0 .. e : j \in Epochs /\ j \in Nat
    BY EpochsAreNaturals
  <2>2. \A j \in 0 .. e : 0 < j => AtGenesis(v)[j] = Nil
    BY <1>1, <2>1
  <2> HIDE DEF AtGenesis
  <2> QED  BY <1>1, <2>1, <2>2, InForceAt
<1> QED  BY <1>1, <1>2

LEMMA NewChain ==
  /\ GenesisCaps \in [Denoms -> Nat \cup {Nil}]
  /\ NoProceeds \in [Epochs -> [Denoms -> Nat]]
  /\ NoRates \in [Denoms -> Nat \cup {Nil}]
  /\ NothingPaid \in [Epochs -> Nat \cup {Nil}]
  /\ \A d \in Denoms : NoRates[d] # Nil => NoRates[d] > 0
  BY TreasuryConstants DEF GenesisCaps, NoProceeds, NoRates, NothingPaid

LEMMA InitPay ==
  ASSUME Init
  PROVE  PayInv
<1>1. height = 1 /\ 1 \in 0 .. MaxHeight
  BY FirstBlock DEF Init
<1>2. balances \in Holdings /\ outside \in [Denoms -> Nat]
  BY PayConstants DEF Init, Holdings
<1>3. issuance \in Snapshots /\ (\A d \in Denoms : Recorded(issuance[d], 0)) /\ issuance[Luna][0] # Nil
  BY <1>2, FirstCountGuarantee DEF Init
<1>4. IssuanceInv
  <2>1. \A d \in Denoms : Recorded(issuance[d], Today)
    BY <1>1, <1>3, FirstBlock, RecordedLater DEF Today
  <2> QED  BY <1>3, <2>1 DEF IssuanceInv, Touched
<1>5. taxRate \in Stores /\ rewardWeight \in Stores
  BY AtGenesisGuarantee, PolicyConstants DEF Init, TreasuryInit
<1>6. TreasuryTypeOK
  BY <1>5, NewChain DEF Init, TreasuryInit, TreasuryTypeOK, Stores
<1>7. MintTypeOK
  BY <1>1, <1>2, <1>3 DEF MintTypeOK, Snapshots, Rows, Holdings
<1>8. TypeOK
  <2>1. delivered \in BOOLEAN
    BY DEF Init
  <2>2. txs \in 0 .. MaxTxs /\ restarts \in 0 .. MaxRestarts
    <3>1. txs = 0 /\ restarts = 0
      BY DEF Init
    <3> QED  BY <3>1, PayConstants
  <2> QED  BY <1>6, <1>7, <2>1, <2>2 DEF TypeOK
<1>9. RatesPositive
  BY NewChain DEF Init, TreasuryInit, RatesPositive
<1>10. LeverInv
  <2>1. GenesisTaxRate \in Nat /\ GenesisRewardWeight \in Nat
    BY PolicyConstants
  <2>2. /\ taxRate[0] = GenesisTaxRate /\ rewardWeight[0] = GenesisRewardWeight
        /\ \A k \in Epochs : k # 0 => taxRate[k] = Nil /\ rewardWeight[k] = Nil
    BY <2>1, AtGenesisGuarantee DEF Init, TreasuryInit
  <2>3. \A k \in Epochs : paid[k] = Nil
    BY DEF Init, TreasuryInit, NothingPaid
  <2>4. \A k \in Epochs : k > Epoch => k # 0
    BY <1>8, PayTypes, EpochsAreNaturals
  <2> QED  BY <2>1, <2>2, <2>3, <2>4, PolicyConstants, MintAssumption DEF LeverInv
<1> QED  BY <1>4, <1>8, <1>9, <1>10 DEF PayInv

-----------------------------------------------------------------------------
(* The steps.  What a step on one chain leaves alone: the levers of the     *)
(* epochs that are over, their proceeds and the issuance of the days that   *)
(* are over.                                                                *)

LeverChanges == InForce(taxRate', Epoch') # InForce(taxRate, Epoch)
                \/ InForce(rewardWeight', Epoch') # InForce(rewardWeight, Epoch)

(* Taxes leave the accounts and are recorded in this epoch. *)
TaxStep ==
  /\ restarts' = restarts
  /\ \A e \in Epochs : e # Epoch => proceeds'[e] = proceeds[e]
  /\ \A d \in Denoms : \E t \in Nat :
       /\ outside'[d] = outside[d] + t
       /\ proceeds'[Epoch][d] = proceeds[Epoch][d] + t
       /\ d # Luna => InAccounts(balances', d) = InAccounts(balances, d) - t

PaidStep ==
  \A e \in Epochs : paid'[e] # Nil =>
    paid'[e] = paid[e] \/ (e = Epoch /\ paid'[e] = InForce(rewardWeight, Epoch))

ChainStep ==
  /\ TaxStep /\ PaidStep
  /\ Epoch' \in Epochs /\ Epoch' \in {Epoch, Epoch + 1}
  /\ Today' \in Days /\ Today <= Today'
  /\ IssuanceStep
  /\ LeverMoved(taxRate', taxRate, TaxPolicy, InForce(taxRate', Epoch'))
  /\ LeverMoved(rewardWeight', rewardWeight, RewardPolicy, InForce(rewardWeight', Epoch'))
  /\ LeverChanges => Epoch' = Epoch + 1 /\ Epoch' >= WindowProbation
  /\ Distance(InForce(taxRate, Epoch), InForce(taxRate', Epoch')) <= TaxPolicy.change
  /\ Distance(InForce(rewardWeight, Epoch), InForce(rewardWeight', Epoch'))
       <= RewardPolicy.change

(* What is left to show that such a step keeps the invariant. *)
LEMMA ChainStepKeeps ==
  ASSUME PayInv, ChainStep,
         height' \in 0 .. MaxHeight, balances' \in Holdings, outside' \in [Denoms -> Nat],
         taxCap' \in [Denoms -> Nat \cup {Nil}], proceeds' \in [Epochs -> [Denoms -> Nat]],
         rates' \in [Denoms -> Nat \cup {Nil}], paid' \in [Epochs -> Nat \cup {Nil}],
         \A d \in Denoms : rates'[d] # Nil => rates'[d] > 0,
         delivered' \in BOOLEAN, txs' \in 0 .. MaxTxs, restarts' \in 0 .. MaxRestarts,
         \A k \in Epochs : k >= Epoch' => paid'[k] = Nil,
         \A k \in Epochs : k >= Epoch' /\ k # 0 => rewardWeight'[k] = Nil
  PROVE  PayInv'
<1>1. /\ Epoch \in Nat /\ Epoch' \in Nat /\ Epoch <= Epoch' /\ Today \in Days
      /\ Epochs \subseteq Nat
  BY PayTypes, EpochsAreNaturals DEF PayInv, ChainStep
<1>2. /\ taxRate' \in Stores /\ rewardWeight' \in Stores
      /\ taxRate'[0] # Nil /\ rewardWeight'[0] # Nil
      /\ \A k \in Epochs : taxRate'[k] # Nil => taxRate'[k] \in TaxPolicy.min .. TaxPolicy.max
      /\ \A k \in Epochs : rewardWeight'[k] # Nil =>
           rewardWeight'[k] \in RewardPolicy.min .. RewardPolicy.max
      /\ \A k \in Epochs : k > Epoch => taxRate'[k] = Nil
  BY DEF ChainStep, LeverMoved, Lever
<1>3. LeverInv'
  <2>1. \A k \in Epochs : k > Epoch' => taxRate'[k] = Nil
    BY <1>1, <1>2
  <2> QED  BY <1>2, <2>1 DEF LeverInv
<1>4. IssuanceInv'
  <2>1. \A d \in Denoms : Recorded(issuance'[d], Today')
    BY <1>1, RecordedLater DEF ChainStep, IssuanceStep
  <2> QED  BY <2>1 DEF ChainStep, IssuanceStep, IssuanceInv, Touched
<1>5. MintTypeOK'
  BY DEF ChainStep, IssuanceStep, MintTypeOK, Snapshots, Rows, Holdings
<1>6. TreasuryTypeOK'
  BY <1>2 DEF TreasuryTypeOK, Stores
<1>7. TypeOK'
  BY <1>5, <1>6 DEF TypeOK
<1>8. RatesPositive'
  BY DEF RatesPositive
<1> QED  BY <1>3, <1>4, <1>7, <1>8 DEF PayInv

(* A step without tax: only Luna may be minted or burned. *)
LEMMA TaxlessStep ==
  ASSUME PayInv, balances' \in Holdings, proceeds' = proceeds, outside' = outside,
         restarts' = restarts, \A d \in Denoms \ {Luna} : balances'[d] = balances[d]
  PROVE  TaxStep
<1>1. ASSUME NEW d \in Denoms
      PROVE  /\ outside'[d] = outside[d] + 0
             /\ proceeds'[Epoch][d] = proceeds[Epoch][d] + 0
             /\ d # Luna => InAccounts(balances', d) = InAccounts(balances, d) - 0
  <2>1. outside[d] \in Nat /\ proceeds[Epoch][d] \in Nat
    BY PayTypes DEF PayInv, TypeOK, MintTypeOK, TreasuryTypeOK
  <2>2. InAccounts(balances, d) \in Nat
    BY PayTypes, InAccountsType DEF PayInv
  <2>3. d # Luna => InAccounts(balances', d) = InAccounts(balances, d)
    BY DEF InAccounts
  <2> QED  BY <2>1, <2>2, <2>3
<1> QED  BY <1>1 DEF TaxStep

LEMMA Unmoved ==
  ASSUME NEW x \in Nat
  PROVE  Distance(x, x) = 0
  BY DEF Distance

(* A transfer reads the levers and records its taxes in this epoch. *)
LEMMA TransferStep ==
  ASSUME PayInv, NEW inputs \in Inputs, NEW to \in Accounts, Transfer(inputs, to)
  PROVE  PayInv' /\ ChainStep
<1>0. /\ Epoch \in Epochs /\ Epoch \in Nat /\ Today \in Days /\ Today \in Nat
      /\ Epochs \subseteq Nat /\ height' = height /\ issuance' = issuance
      /\ rewardWeight' = rewardWeight
  BY PayTypes, DaysAreNaturals, EpochsAreNaturals DEF PayInv, Transfer
<1>1. Epoch' = Epoch /\ Today' = Today
  BY <1>0 DEF Epoch, Today
<1>2. balances' \in Holdings
  BY TransferBalances DEF Transfer
<1>3. IssuanceStep
  BY <1>0, IssuanceStays
<1>4. LeverMoved(taxRate', taxRate, TaxPolicy, InForce(taxRate, Epoch))
  BY TaxRateFilled DEF Transfer
<1>5. LeverMoved(rewardWeight', rewardWeight, RewardPolicy, InForce(rewardWeight, Epoch))
  BY <1>0, LeversOfInvariant, LeverFuture DEF PayInv, LeverMoved
<1>6. /\ InForce(taxRate', Epoch') = InForce(taxRate, Epoch)
      /\ InForce(rewardWeight', Epoch') = InForce(rewardWeight, Epoch)
  BY <1>0, <1>1, <1>4, <1>5 DEF LeverMoved
<1>7. /\ Distance(InForce(taxRate, Epoch), InForce(taxRate, Epoch)) <= TaxPolicy.change
      /\ Distance(InForce(rewardWeight, Epoch), InForce(rewardWeight, Epoch))
           <= RewardPolicy.change
  BY <1>0, InForceInRange, Unmoved, PolicyConstants
<1>8. /\ proceeds' \in [Epochs -> [Denoms -> Nat]]
      /\ \A e \in Epochs : e # Epoch => proceeds'[e] = proceeds[e]
  <2>1. proceeds \in [Epochs -> [Denoms -> Nat]]
    BY DEF PayInv, TypeOK, TreasuryTypeOK
  <2> DEFINE new == [d \in Denoms |-> proceeds[Epoch][d] + TotalTax(inputs, d)]
  <2>2. new \in [Denoms -> Nat]
    BY <1>0, <2>1, TotalsType
  <2>3. proceeds' = [proceeds EXCEPT ![Epoch] = new]
    BY DEF Transfer, RecordTaxProceeds
  <2> QED  BY <1>0, <2>1, <2>2, <2>3
<1>9. ChainStep
  <2>1. TaxStep
    <3>1. restarts' = restarts
      BY DEF Transfer, Deliver
    <3>2. ASSUME NEW d \in Denoms
          PROVE  /\ TotalTax(inputs, d) \in Nat
                 /\ outside'[d] = outside[d] + TotalTax(inputs, d)
                 /\ proceeds'[Epoch][d] = proceeds[Epoch][d] + TotalTax(inputs, d)
                 /\ InAccounts(balances', d) = InAccounts(balances, d) - TotalTax(inputs, d)
      <4>1. proceeds \in [Epochs -> [Denoms -> Nat]]
        BY DEF PayInv, TypeOK, TreasuryTypeOK
      <4>2. proceeds'[Epoch][d] = proceeds[Epoch][d] + TotalTax(inputs, d)
        BY <1>0, <4>1 DEF Transfer, RecordTaxProceeds
      <4>3. InAccounts(balances', d) = InAccounts(balances, d) - TotalTax(inputs, d)
        BY TransferBalances DEF Transfer
      <4>4. outside'[d] = outside[d] + TotalTax(inputs, d)
        BY DEF Transfer
      <4> QED  BY <4>2, <4>3, <4>4, TotalsType
    <3> QED  BY <1>8, <3>1, <3>2 DEF TaxStep
  <2>2. PaidStep
    BY DEF PaidStep, Transfer
  <2> QED  BY <1>0, <1>1, <1>3, <1>4, <1>5, <1>6, <1>7, <2>1, <2>2 DEF ChainStep, LeverChanges
<1>10. outside' \in [Denoms -> Nat]
  <2>1. outside \in [Denoms -> Nat]
    BY DEF PayInv, TypeOK, MintTypeOK
  <2> QED  BY <2>1, TotalsType DEF Transfer
<1>11. taxCap' \in [Denoms -> Nat \cup {Nil}]
  <2>1. taxCap \in [Denoms -> Nat \cup {Nil}] /\ \A d \in Denoms : GetTaxCap(d) \in Nat
    BY TaxDueType DEF PayInv, TypeOK, TreasuryTypeOK
  <2> QED  BY <2>1 DEF Transfer
<1>12. delivered' \in BOOLEAN
  BY DEF Transfer, Deliver
<1>13. txs' \in 0 .. MaxTxs /\ restarts' \in 0 .. MaxRestarts
  BY PayConstants DEF Transfer, Deliver, PayInv, TypeOK
<1>14. /\ rates' \in [Denoms -> Nat \cup {Nil}] /\ paid' \in [Epochs -> Nat \cup {Nil}]
       /\ height' \in 0 .. MaxHeight
       /\ \A d \in Denoms : rates'[d] # Nil => rates'[d] > 0
  BY DEF Transfer, PayInv, TypeOK, MintTypeOK, TreasuryTypeOK, RatesPositive
<1>15. /\ \A k \in Epochs : k >= Epoch' => paid'[k] = Nil
       /\ \A k \in Epochs : k >= Epoch' /\ k # 0 => rewardWeight'[k] = Nil
  BY <1>1 DEF Transfer, PayInv, LeverInv
<1>16. PayInv'
  BY <1>2, <1>8, <1>9, <1>10, <1>11, <1>12, <1>13, <1>14, <1>15, ChainStepKeeps
<1> QED  BY <1>9, <1>16

LEMMA SwapLunaStep ==
  ASSUME PayInv, NEW a \in Accounts, NEW delta \in Int, SwapLuna(a, delta)
  PROVE  PayInv' /\ ChainStep
<1>0. /\ Epoch \in Epochs /\ Epoch \in Nat /\ Today \in Days /\ Today \in Nat
      /\ Epochs \subseteq Nat /\ height' = height /\ taxRate' = taxRate
      /\ rewardWeight' = rewardWeight /\ balances \in Holdings /\ Luna \in Denoms
  BY PayTypes, DaysAreNaturals, EpochsAreNaturals, TreasuryConstants
     DEF PayInv, SwapLuna, treasuryVars
<1>1. Epoch' = Epoch /\ Today' = Today
  BY <1>0 DEF Epoch, Today
<1>2. balances' \in Holdings /\ balances' = Credit(balances, Luna, a, delta)
  BY <1>0, CreditGuarantee DEF SwapLuna
<1>3. IssuanceStep
  <2>1. /\ IssuanceCovers(issuance, balances', Luna, delta, Today)
        /\ issuance' = ChangeIssuance(issuance, balances', Luna, delta, Today)
    BY <1>2 DEF SwapLuna
  <2> QED  BY <1>2, <2>1, IssuanceWritten
<1>4. /\ LeverMoved(taxRate', taxRate, TaxPolicy, InForce(taxRate, Epoch))
      /\ LeverMoved(rewardWeight', rewardWeight, RewardPolicy, InForce(rewardWeight, Epoch))
  BY <1>0, LeversOfInvariant, LeverFuture DEF PayInv, LeverMoved
<1>5. /\ InForce(taxRate', Epoch') = InForce(taxRate, Epoch)
      /\ InForce(rewardWeight', Epoch') = InForce(rewardWeight, Epoch)
  BY <1>0, <1>1
<1>6. /\ Distance(InForce(taxRate, Epoch), InForce(taxRate, Epoch)) <= TaxPolicy.change
      /\ Distance(InForce(rewardWeight, Epoch), InForce(rewardWeight, Epoch))
           <= RewardPolicy.change
  BY <1>0, InForceInRange, Unmoved, PolicyConstants
<1>7. ChainStep
  <2>1. TaxStep
    <3>1. /\ proceeds' = proceeds /\ outside' = outside /\ restarts' = restarts
          /\ \A d \in Denoms \ {Luna} : balances'[d] = balances[d]
      BY <1>0, <1>2, CreditGuarantee DEF SwapLuna, Deliver, treasuryVars
    <3> QED  BY <1>0, <1>2, <3>1, TaxlessStep
  <2>2. PaidStep
    BY DEF PaidStep, SwapLuna, treasuryVars
  <2> QED  BY <1>0, <1>1, <1>3, <1>4, <1>5, <1>6, <2>1, <2>2 DEF ChainStep, LeverChanges
<1>8. delivered' \in BOOLEAN
  BY DEF SwapLuna, Deliver
<1>9. txs' \in 0 .. MaxTxs /\ restarts' \in 0 .. MaxRestarts
  BY PayConstants DEF SwapLuna, Deliver, PayInv, TypeOK
<1>10. /\ rates' \in [Denoms -> Nat \cup {Nil}] /\ paid' \in [Epochs -> Nat \cup {Nil}]
       /\ height' \in 0 .. MaxHeight /\ outside' \in [Denoms -> Nat]
       /\ taxCap' \in [Denoms -> Nat \cup {Nil}] /\ proceeds' \in [Epochs -> [Denoms -> Nat]]
       /\ \A d \in Denoms : rates'[d] # Nil => rates'[d] > 0
  BY DEF SwapLuna, treasuryVars, PayInv, TypeOK, MintTypeOK, TreasuryTypeOK, RatesPositive
<1>11. /\ \A k \in Epochs : k >= Epoch' => paid'[k] = Nil
       /\ \A k \in Epochs : k >= Epoch' /\ k # 0 => rewardWeight'[k] = Nil
  BY <1>1 DEF SwapLuna, treasuryVars, PayInv, LeverInv
<1>12. PayInv'
  BY <1>2, <1>7, <1>8, <1>9, <1>10, <1>11, ChainStepKeeps
<1> QED  BY <1>7, <1>12

LEMMA NextHeight ==
  ASSUME TypeOK, height < MaxHeight, height' = height + 1
  PROVE  /\ Epoch' = (IF EndsEpoch THEN Epoch + 1 ELSE Epoch)
         /\ Epoch' = Period(height + 1, BlocksPerEpoch)
         /\ Epoch' \in Epochs /\ Epoch' \in Nat
         /\ Today' \in Days /\ Today <= Today'
         /\ height' \in 0 .. MaxHeight
<1>1. height \in Nat /\ height + 1 \in 0 .. MaxHeight
  BY MintAssumption DEF TypeOK, MintTypeOK
<1>2. Epoch' = Period(height + 1, BlocksPerEpoch) /\ Today' = Period(height + 1, BlocksPerDay)
  BY DEF Epoch, Today
<1>3. EndsEpoch => Epoch' = Epoch + 1
  BY <1>1, <1>2, EpochLength, PeriodEnds DEF EndsEpoch, Epoch
<1>4. ~EndsEpoch => Epoch' = Epoch
  BY <1>1, <1>2, EpochLength, PeriodGoesOn DEF EndsEpoch, Epoch
<1>5. Period(height, BlocksPerDay) <= Period(height + 1, BlocksPerDay)
  BY <1>1, MintAssumption, PeriodMonotone
<1>6. Epoch' \in Epochs /\ Epoch' \in Nat /\ Today' \in Days
  BY <1>1, <1>2, HeightIsInEpoch, TodayIsADay
<1>7. Today <= Today'
  BY <1>2, <1>5 DEF Today
<1> QED  BY <1>1, <1>2, <1>3, <1>4, <1>6, <1>7

(* Only the end of an epoch moves the levers, by the rules of the policy,   *)
(* and it leaves the weight of the epoch that begins unset.                 *)
LEMMA EndBlockStep ==
  ASSUME PayInv, NEW rate \in SDRRates \cup {Nil}, EndBlock(rate)
  PROVE  PayInv' /\ ChainStep
<1> DEFINE r == [rates EXCEPT ![SDR] = rate]
           tax == InForce(taxRate, Epoch)
           weight == InForce(rewardWeight, Epoch)
<1>0. /\ Epoch \in Epochs /\ Epoch \in Nat /\ Today \in Days /\ Today \in Nat
      /\ Epochs \subseteq Nat /\ balances \in Holdings /\ TypeOK
  BY PayTypes, DaysAreNaturals, EpochsAreNaturals DEF PayInv
<1>1. /\ Epoch' = (IF EndsEpoch THEN Epoch + 1 ELSE Epoch)
      /\ Epoch' = Period(height + 1, BlocksPerEpoch)
      /\ Epoch' \in Epochs /\ Epoch' \in Nat
      /\ Today' \in Days /\ Today <= Today'
      /\ height' \in 0 .. MaxHeight
  BY <1>0, NextHeight DEF EndBlock
<1>2. RatesOK(r)
  <2>1. SDR \in Denoms /\ rate \in Nat \cup {Nil} /\ (rate # Nil => rate > 0)
    BY TreasuryConstants, PayConstants
  <2>2. rates \in [Denoms -> Nat \cup {Nil}] /\ \A d \in Denoms : rates[d] # Nil => rates[d] > 0
    BY DEF PayInv, TypeOK, TreasuryTypeOK, RatesPositive
  <2> QED  BY <2>1, <2>2 DEF RatesOK
<1>3. TreasuryEndBlocker(r) /\ rates' = r
  BY DEF EndBlock, TreasuryEndBlocker
<1> HIDE DEF r
<1>4. IssuanceStep
  <2>1. CASE EndsEpoch
    <3>1. issuance' = FillIssuance(issuance, balances, Luna, Today)
      BY <1>3, <2>1 DEF TreasuryEndBlocker
    <3> QED  BY <1>0, <3>1, IssuanceWritten
  <2>2. CASE ~EndsEpoch
    <3>1. issuance' = issuance
      BY <1>3, <2>2 DEF TreasuryEndBlocker
    <3> QED  BY <3>1, IssuanceStays
  <2> QED  BY <2>1, <2>2
<1>5. /\ tax \in Nat /\ weight \in Nat
      /\ Distance(tax, tax) <= TaxPolicy.change
      /\ Distance(weight, weight) <= RewardPolicy.change
  BY <1>0, InForceInRange, Unmoved, PolicyConstants
<1>6. \E v : /\ LeverMoved(taxRate', taxRate, TaxPolicy, v)
             /\ Distance(tax, v) <= TaxPolicy.change
             /\ v # tax => UpdatesPolicy
  <2>1. CASE UpdatesPolicy
    <3>1. taxRate' = [FillTaxRate(Epoch) EXCEPT ![Epoch] = NewTaxRate(r)]
      BY <1>3, <2>1 DEF TreasuryEndBlocker, SetTaxRate
    <3>2. /\ NewTaxRate(r) \in TaxPolicy.min .. TaxPolicy.max
          /\ Distance(tax, NewTaxRate(r)) <= TaxPolicy.change
      BY <1>2, NewTaxRateGuarantee
    <3>3. LeverMoved(taxRate', taxRate, TaxPolicy, NewTaxRate(r))
      BY <1>0, <3>1, <3>2, TaxRateFilled, LeverSet, PolicyConstants
    <3> QED  BY <2>1, <3>2, <3>3
  <2>2. CASE ~UpdatesPolicy
    <3>1. taxRate' = taxRate
      BY <1>3, <2>2 DEF TreasuryEndBlocker
    <3>2. LeverMoved(taxRate', taxRate, TaxPolicy, tax)
      BY <1>0, <3>1, LeversOfInvariant, LeverFuture DEF LeverMoved
    <3> QED  BY <1>5, <3>2
  <2> QED  BY <2>1, <2>2
<1>7. \E w : /\ LeverMoved(rewardWeight', rewardWeight, RewardPolicy, w)
             /\ Distance(weight, w) <= RewardPolicy.change
             /\ w # weight => UpdatesPolicy
  <2>1. CASE UpdatesPolicy
    <3> DEFINE read == Window(WindowShort) \cup {Epoch}
    <3>1. rewardWeight' = [FillRewardWeight(read) EXCEPT ![Epoch] = NewRewardWeight(r)]
      BY <1>3, <2>1 DEF TreasuryEndBlocker, SetRewardWeight
    <3>2. /\ NewRewardWeight(r) \in RewardPolicy.min .. RewardPolicy.max
          /\ Distance(weight, NewRewardWeight(r)) <= RewardPolicy.change
      BY <1>2, <1>3, <2>1, NewRewardWeightGuarantee DEF TreasuryEndBlocker
    <3>3. read \subseteq 0 .. Epoch
      BY <1>0, WindowIsFinite
    <3> HIDE DEF read
    <3>4. LeverMoved(FillRewardWeight(read), rewardWeight, RewardPolicy, weight)
      BY <3>3, RewardWeightFilled
    <3>5. LeverMoved(rewardWeight', rewardWeight, RewardPolicy, NewRewardWeight(r))
      BY <1>0, <3>1, <3>2, <3>4, LeverSet, PolicyConstants
    <3> QED  BY <2>1, <3>2, <3>5
  <2>2. CASE ~UpdatesPolicy
    <3> DEFINE read == IF EndsEpoch THEN {Epoch} ELSE {}
    <3>1. rewardWeight' = FillRewardWeight(read)
      BY <1>3, <2>2 DEF TreasuryEndBlocker
    <3>2. read \subseteq 0 .. Epoch
      BY <1>0
    <3> HIDE DEF read
    <3>3. LeverMoved(rewardWeight', rewardWeight, RewardPolicy, weight)
      BY <3>1, <3>2, RewardWeightFilled
    <3> QED  BY <1>5, <3>3
  <2> QED  BY <2>1, <2>2
<1> HIDE DEF tax, weight
<1>8. UpdatesPolicy => Epoch' = Epoch + 1 /\ Epoch' >= WindowProbation
  BY <1>1, TreasuryConstants DEF UpdatesPolicy, isProbationPeriod
<1>9. ChainStep
  <2>1. PICK v : /\ LeverMoved(taxRate', taxRate, TaxPolicy, v)
                 /\ Distance(tax, v) <= TaxPolicy.change
                 /\ v # tax => UpdatesPolicy
    BY <1>6
  <2>2. PICK w : /\ LeverMoved(rewardWeight', rewardWeight, RewardPolicy, w)
                 /\ Distance(weight, w) <= RewardPolicy.change
                 /\ w # weight => UpdatesPolicy
    BY <1>7
  <2>3. Epoch' >= Epoch
    BY <1>0, <1>1
  <2>4. InForce(taxRate', Epoch') = v /\ InForce(rewardWeight', Epoch') = w
    BY <1>1, <2>1, <2>2, <2>3 DEF LeverMoved
  <2>5. TaxStep
    <3>1. /\ proceeds' = proceeds /\ outside' = outside /\ restarts' = restarts
          /\ balances' = balances
      BY <1>3 DEF EndBlock, TreasuryEndBlocker
    <3> QED  BY <1>0, <3>1, TaxlessStep
  <2>6. LeverChanges => UpdatesPolicy
    BY <2>1, <2>2, <2>4 DEF LeverChanges, tax, weight
  <2>7. PaidStep
    BY <1>0, <1>3 DEF PayInv, TypeOK, TreasuryTypeOK, TreasuryEndBlocker, PaidStep
  <2> QED  BY <1>0, <1>1, <1>4, <1>8, <2>1, <2>2, <2>4, <2>5, <2>6, <2>7
              DEF ChainStep, tax, weight
<1>10. delivered' \in BOOLEAN
  BY DEF EndBlock
<1>11. txs' \in 0 .. MaxTxs /\ restarts' \in 0 .. MaxRestarts
  BY DEF EndBlock, PayInv, TypeOK
<1>12. /\ rates' \in [Denoms -> Nat \cup {Nil}]
       /\ \A d \in Denoms : rates'[d] # Nil => rates'[d] > 0
  BY <1>2, <1>3 DEF RatesOK
<1>13. /\ outside' \in [Denoms -> Nat] /\ balances' \in Holdings
       /\ taxCap' \in [Denoms -> Nat \cup {Nil}] /\ proceeds' \in [Epochs -> [Denoms -> Nat]]
  BY <1>0, <1>3 DEF EndBlock, TreasuryEndBlocker, PayInv, TypeOK, MintTypeOK, TreasuryTypeOK
<1>14. paid' \in [Epochs -> Nat \cup {Nil}] /\ \A k \in Epochs : k >= Epoch' => paid'[k] = Nil
  <2>1. paid \in [Epochs -> Nat \cup {Nil}] /\ \A k \in Epochs : k >= Epoch => paid[k] = Nil
    BY DEF PayInv, TypeOK, TreasuryTypeOK, LeverInv
  <2>2. CASE EndsEpoch
    <3>1. paid' = [paid EXCEPT ![Epoch] = weight] /\ weight \in Nat
      BY <1>3, <1>5, <2>2 DEF TreasuryEndBlocker, weight
    <3> QED  BY <1>0, <1>1, <2>1, <2>2, <3>1
  <2>3. CASE ~EndsEpoch
    BY <1>1, <1>3, <2>1, <2>3 DEF TreasuryEndBlocker
  <2> QED  BY <2>2, <2>3
<1>15. \A k \in Epochs : k >= Epoch' /\ k # 0 => rewardWeight'[k] = Nil
  <2>1. CASE EndsEpoch
    <3>1. \A k \in Epochs : k > Epoch => rewardWeight'[k] = Nil
      BY <1>7 DEF LeverMoved, Lever
    <3> QED  BY <1>0, <1>1, <2>1, <3>1
  <2>2. CASE ~EndsEpoch
    <3>1. rewardWeight' = [k \in Epochs |-> rewardWeight[k]]
      BY <1>3, <2>2 DEF TreasuryEndBlocker, UpdatesPolicy, FillRewardWeight
    <3> QED  BY <1>1, <2>2, <3>1 DEF PayInv, LeverInv
  <2> QED  BY <2>1, <2>2
<1>16. PayInv'
  BY <1>1, <1>9, <1>10, <1>11, <1>12, <1>13, <1>14, <1>15, ChainStepKeeps
<1> QED  BY <1>9, <1>16

(* A new chain starts with both levers in range. *)
LEMMA RestartStep ==
  ASSUME PayInv, Restart
  PROVE  /\ PayInv'
         /\ taxRate' = AtGenesis(taxRate[0])
         /\ rewardWeight' = AtGenesis(InForce(rewardWeight, Epoch))
         /\ Epoch' \in Epochs
<1> DEFINE weight == InForce(rewardWeight, Epoch)
<1>0. /\ Epoch \in Epochs /\ Epoch \in Nat /\ 0 \in Epochs /\ Epochs \subseteq Nat
      /\ balances \in Holdings /\ TypeOK /\ height \in Nat /\ height > 1
  BY PayTypes, EpochsAreNaturals DEF PayInv, Restart
<1>1. height' = 1 /\ Epoch' = Period(1, BlocksPerEpoch) /\ Today' = Period(1, BlocksPerDay)
  BY DEF Restart, Epoch, Today
<1>2. taxRate' = AtGenesis(taxRate[0]) /\ taxRate[0] \in TaxPolicy.min .. TaxPolicy.max
  <2>1. taxRate[0] # Nil /\ taxRate[0] \in TaxPolicy.min .. TaxPolicy.max
    BY <1>0 DEF PayInv, LeverInv
  <2>2. InForce(taxRate, 0) = taxRate[0]
    BY <1>0, <2>1, InForceWhereSet
  <2> QED  BY <2>1, <2>2 DEF Restart, TreasuryRestart, ExportedTaxRate
<1>3. rewardWeight' = AtGenesis(weight) /\ weight \in RewardPolicy.min .. RewardPolicy.max
  <2>1. PICK f \in Nat : f = Period(height - 1, BlocksPerEpoch) /\ f \in {Epoch, Epoch - 1}
    <3>1. PICK h \in Nat : h + 1 = height /\ h = height - 1
      BY <1>0
    <3>2. Period(h, BlocksPerEpoch) \in Nat
      BY EpochLength, PeriodBounds
    <3>3. Period(h + 1, BlocksPerEpoch)
            \in {Period(h, BlocksPerEpoch), Period(h, BlocksPerEpoch) + 1}
      BY EpochLength, PeriodEnds, PeriodGoesOn
    <3> QED  BY <1>0, <3>1, <3>2, <3>3 DEF Epoch
  <2>2. /\ rewardWeight[0] # Nil /\ f \in 0 .. Epoch
        /\ \A j \in 0 .. Epoch : f < j => rewardWeight[j] = Nil
    <3>1. \A j \in 0 .. Epoch : j \in Epochs
      BY <1>0, EpochsAreNaturals
    <3>2. \A j \in Epochs : j >= Epoch /\ j # 0 => rewardWeight[j] = Nil
      BY DEF PayInv, LeverInv
    <3>3. rewardWeight[0] # Nil
      BY DEF PayInv, LeverInv
    <3> QED  BY <1>0, <2>1, <3>1, <3>2, <3>3
  <2>3. InForce(rewardWeight, f) = weight
    BY <1>0, <2>2, InForceCarriedOver
  <2>4. weight \in RewardPolicy.min .. RewardPolicy.max
    BY <1>0, InForceInRange
  <2> QED  BY <2>1, <2>3, <2>4 DEF Restart, TreasuryRestart, ExportedRewardWeight
<1> HIDE DEF weight
<1>4. PICK t \in Nat, w \in Nat : t = taxRate[0] /\ w = weight
  BY <1>2, <1>3, PolicyConstants
<1>5. /\ taxRate' \in Stores /\ taxRate'[0] = t /\ rewardWeight' \in Stores /\ rewardWeight'[0] = w
      /\ \A k \in Epochs : k # 0 => taxRate'[k] = Nil /\ rewardWeight'[k] = Nil
  BY <1>2, <1>3, <1>4, AtGenesisGuarantee
<1>6. /\ taxCap' = GenesisCaps /\ proceeds' = NoProceeds /\ rates' = NoRates
      /\ paid' = NothingPaid /\ balances' = balances /\ outside' = outside
      /\ issuance' = FirstCount
  BY DEF Restart, TreasuryRestart
<1>7. IssuanceInv' /\ issuance' \in Snapshots
  <2>1. /\ issuance' \in Snapshots /\ (\A d \in Denoms : Recorded(issuance'[d], 0))
        /\ issuance'[Luna][0] # Nil
    BY <1>0, <1>6, FirstCountGuarantee
  <2>2. \A d \in Denoms : Recorded(issuance'[d], Today')
    BY <1>1, <2>1, FirstBlock, RecordedLater
  <2> QED  BY <2>1, <2>2 DEF IssuanceInv, Touched
<1>8. MintTypeOK'
  BY <1>0, <1>1, <1>6, <1>7, FirstBlock
     DEF MintTypeOK, Snapshots, Rows, Holdings, TypeOK
<1>9. TreasuryTypeOK'
  BY <1>5, <1>6, NewChain DEF TreasuryTypeOK, Stores
<1>10. TypeOK'
  <2>1. delivered' \in BOOLEAN
    BY DEF PayInv, TypeOK, Restart
  <2>2. txs' \in 0 .. MaxTxs /\ restarts' \in 0 .. MaxRestarts
    BY PayConstants DEF PayInv, TypeOK, Restart
  <2> QED  BY <1>8, <1>9, <2>1, <2>2 DEF TypeOK
<1>11. RatesPositive'
  BY <1>6, NewChain DEF RatesPositive
<1>12. LeverInv'
  <2>1. \A k \in Epochs : paid'[k] = Nil
    BY <1>6 DEF NothingPaid
  <2>2. \A k \in Epochs : k > Epoch' => k # 0
    BY <1>0, <1>1, FirstBlock
  <2> QED  BY <1>2, <1>3, <1>4, <1>5, <2>1, <2>2, MintAssumption DEF LeverInv
<1> QED  BY <1>1, <1>2, <1>3, <1>7, <1>10, <1>11, <1>12, FirstBlock DEF PayInv, weight

(* Both kinds of payment are transfers of inputs. *)
LEMMA PaymentInputs ==
  ASSUME NEW S, NEW coins \in Principals
  PROVE  [a \in Accounts |-> IF a \in S THEN coins ELSE NoCoins] \in Inputs
<1>1. coins \in [Denoms -> Nat] /\ NoCoins \in [Denoms -> Nat]
  BY PayConstants DEF NoCoins
<1> QED  BY <1>1 DEF Inputs

(* A step is a transfer, a swap, the end of a block, a restart, or nothing. *)
LEMMA NextSteps ==
  ASSUME [Next]_vars
  PROVE  \/ \E inputs \in Inputs, to \in Accounts : Transfer(inputs, to)
         \/ \E a \in Accounts, delta \in Int : SwapLuna(a, delta)
         \/ \E rate \in SDRRates \cup {Nil} : EndBlock(rate)
         \/ Restart
         \/ UNCHANGED vars
<1>1. ASSUME NEW from \in Accounts, NEW to \in Accounts, NEW coins \in Principals,
             handleMsgSend(from, to, coins)
      PROVE  \E inputs \in Inputs, t \in Accounts : Transfer(inputs, t)
  <2> DEFINE inputs == [a \in Accounts |-> IF a = from THEN coins ELSE NoCoins]
  <2>1. inputs = [a \in Accounts |-> IF a \in {from} THEN coins ELSE NoCoins]
    OBVIOUS
  <2>2. inputs \in Inputs
    BY <2>1, PaymentInputs
  <2>3. Transfer(inputs, to)
    BY <1>1 DEF handleMsgSend
  <2> QED  BY <2>2, <2>3
<1>2. ASSUME NEW payers \in SUBSET Accounts, NEW to \in Accounts, NEW coins \in Principals,
             handleMsgMultiSend(payers, coins, to)
      PROVE  \E inputs \in Inputs, t \in Accounts : Transfer(inputs, t)
  <2> DEFINE inputs == [a \in Accounts |-> IF a \in payers THEN coins ELSE NoCoins]
  <2>1. inputs \in Inputs
    BY PaymentInputs
  <2>2. Transfer(inputs, to)
    BY <1>2 DEF handleMsgMultiSend
  <2> QED  BY <2>1, <2>2
<1>3. ASSUME NEW a \in Accounts, NEW n \in LunaAmounts, SwapLuna(a, n) \/ SwapLuna(a, -n)
      PROVE  \E b \in Accounts, delta \in Int : SwapLuna(b, delta)
  <2>1. n \in Int /\ -n \in Int
    BY PayConstants
  <2> QED  BY <1>3, <2>1
<1> QED  BY <1>1, <1>2, <1>3 DEF Next

LEMMA IdleStep ==
  ASSUME PayInv, UNCHANGED vars
  PROVE  PayInv'
<1>1. UNCHANGED <<mintVars, treasuryVars, delivered, txs, restarts>>
  BY DEF vars
<1> QED  BY <1>1 DEF PayInv, TypeOK, MintTypeOK, TreasuryTypeOK, LeverInv, RatesPositive,
           IssuanceInv, Touched, mintVars, treasuryVars, Epoch, Today

(* The steps on one chain, and the restarts. *)
LEMMA StepsOfPay ==
  ASSUME PayInv, [Next]_vars
  PROVE  PayInv' /\ (ChainStep \/ Restart \/ UNCHANGED vars)
<1>1. ASSUME NEW inputs \in Inputs, NEW to \in Accounts, Transfer(inputs, to)
      PROVE  PayInv' /\ ChainStep
  BY <1>1, TransferStep
<1>2. ASSUME NEW a \in Accounts, NEW delta \in Int, SwapLuna(a, delta)
      PROVE  PayInv' /\ ChainStep
  BY <1>2, SwapLunaStep
<1>3. ASSUME NEW rate \in SDRRates \cup {Nil}, EndBlock(rate)
      PROVE  PayInv' /\ ChainStep
  BY <1>3, EndBlockStep
<1> QED  BY <1>1, <1>2, <1>3, NextSteps, RestartStep, IdleStep

LEMMA PayInvariant == Spec => []PayInv
<1>1. Init => PayInv
  BY InitPay
<1>2. PayInv /\ [Next]_vars => PayInv'
  BY StepsOfPay
<1> QED  BY <1>1, <1>2, PTL DEF Spec

-----------------------------------------------------------------------------
(* The properties *)

(* All stores stay well-formed through payments, swaps, policy updates and  *)
(* restarts: no balance and no issuance becomes negative, and a lever is a  *)
(* natural number or not set.                                               *)
THEOREM PayTypeCorrect == Spec => []TypeOK
<1>1. PayInv => TypeOK
  BY DEF PayInv
<1> QED  BY <1>1, PayInvariant, PTL

(* Every lever of every epoch up to now lies within the range of its        *)
(* policy, for any policies, indicators, windows and oracle prices.         *)
THEOREM LeversAlwaysWithinPolicy == Spec => []LeversWithinPolicy
<1>1. PayInv => LeversWithinPolicy
  <2> SUFFICES ASSUME PayInv, NEW e \in 0 .. Epoch
               PROVE  /\ InForce(taxRate, e) \in TaxPolicy.min .. TaxPolicy.max
                      /\ InForce(rewardWeight, e) \in RewardPolicy.min .. RewardPolicy.max
    BY DEF LeversWithinPolicy
  <2>1. e \in Epochs
    BY PayTypes, EpochsAreNaturals DEF PayInv
  <2> QED  BY <2>1, InForceInRange
<1> QED  BY <1>1, PayInvariant, PTL

(* On one chain the levers in force move only at the turn of an epoch,      *)
(* after the probation, and by no more than the policy's largest change.    *)
THEOREM LeversAlwaysMoveSlowly == Spec => LeversMoveSlowly
<1> DEFINE A == Restarted \/
     LET before == <<InForce(taxRate, Epoch), InForce(rewardWeight, Epoch)>>
         after == <<InForce(taxRate, Epoch)', InForce(rewardWeight, Epoch)'>>
     IN  /\ before # after => Epoch' # Epoch /\ Epoch' >= WindowProbation
         /\ Distance(before[1], after[1]) <= TaxPolicy.change
         /\ Distance(before[2], after[2]) <= RewardPolicy.change
<1>1. PayInv /\ [Next]_vars => [A]_vars
  <2> SUFFICES ASSUME PayInv, [Next]_vars PROVE [A]_vars
    OBVIOUS
  <2>1. CASE ChainStep
    <3>1. Epoch \in Nat
      BY PayTypes DEF PayInv
    <3>2. /\ LeverChanges => Epoch' = Epoch + 1 /\ Epoch' >= WindowProbation
          /\ Distance(InForce(taxRate, Epoch), InForce(taxRate', Epoch')) <= TaxPolicy.change
          /\ Distance(InForce(rewardWeight, Epoch), InForce(rewardWeight', Epoch'))
               <= RewardPolicy.change
      BY <2>1 DEF ChainStep
    <3>3. /\ InForce(taxRate, Epoch)' = InForce(taxRate', Epoch')
          /\ InForce(rewardWeight, Epoch)' = InForce(rewardWeight', Epoch')
      BY DEF InForce
    <3> QED  BY <3>1, <3>2, <3>3 DEF LeverChanges
  <2>2. CASE Restart
    <3>1. restarts \in Nat
      BY PayConstants DEF PayInv, TypeOK
    <3> QED  BY <2>2, <3>1 DEF Restart, Restarted
  <2> QED  BY <2>1, <2>2, StepsOfPay
<1> QED  BY <1>1, PayInvariant, PTL DEF Spec, LeversMoveSlowly

(* The levers, the proceeds and the seigniorage of an epoch that is over    *)
(* are final on one chain, however late they are read and filled in.        *)
THEOREM PastEpochsAlwaysFinal == Spec => PastEpochsFinal
<1> DEFINE A == Restarted \/ \A e \in 0 .. Epoch - 1 :
       /\ InForce(taxRate, e)' = InForce(taxRate, e)
       /\ InForce(rewardWeight, e)' = InForce(rewardWeight, e)
       /\ proceeds'[e] = proceeds[e]
       /\ PeekEpochSeigniorage(e)' = PeekEpochSeigniorage(e)
<1>1. PayInv /\ [Next]_vars => [A]_vars
  <2> SUFFICES ASSUME PayInv, [Next]_vars PROVE [A]_vars
    OBVIOUS
  <2>1. CASE ChainStep
    <3> SUFFICES ASSUME NEW e \in 0 .. Epoch - 1
                 PROVE  /\ InForce(taxRate, e)' = InForce(taxRate, e)
                        /\ InForce(rewardWeight, e)' = InForce(rewardWeight, e)
                        /\ proceeds'[e] = proceeds[e]
                        /\ PeekEpochSeigniorage(e)' = PeekEpochSeigniorage(e)
      OBVIOUS
    <3>1. /\ Epoch \in Nat /\ e \in Epochs /\ e \in Nat /\ e < Epoch
          /\ Today \in Nat /\ Today' \in Nat /\ Today <= Today'
      BY <2>1, PayTypes, EpochsAreNaturals, DaysAreNaturals DEF PayInv, ChainStep
    <3>2. InForce(taxRate', e) = InForce(taxRate, e) /\ InForce(rewardWeight', e) = InForce(rewardWeight, e)
      BY <2>1, <3>1 DEF ChainStep, LeverMoved
    <3>3. /\ InForce(taxRate, e)' = InForce(taxRate', e)
          /\ InForce(rewardWeight, e)' = InForce(rewardWeight', e)
      BY DEF InForce
    <3>4. proceeds'[e] = proceeds[e]
      BY <2>1, <3>1 DEF ChainStep, TaxStep
    <3>5. /\ EpochLastDay(e) = (e + 1) * DaysPerEpoch - 1
          /\ EpochLastDay(e) \in 0 .. Today - 1 /\ PrevEpochLastDay(e) \in 0 .. Today - 1
      BY DaysOfPastEpoch DEF PayInv
    <3>6. EpochLastDay(e)' = EpochLastDay(e)
      <4>1. EpochLastDay(e)' = Least((e + 1) * DaysPerEpoch - 1, Today')
        BY DEF EpochLastDay
      <4> QED  BY <3>1, <3>5, <4>1 DEF Least
    <3>7. PrevEpochLastDay(e)' = PrevEpochLastDay(e)
      BY <3>6 DEF PrevEpochLastDay
    <3>8. ASSUME NEW day \in 0 .. Today - 1
          PROVE  GetIssuance(issuance', balances', Luna, day) = LunaIssued(day)
      BY <2>1 DEF ChainStep, IssuanceStep
    <3>9. /\ LunaIssued(EpochLastDay(e))' = LunaIssued(EpochLastDay(e))
          /\ LunaIssued(PrevEpochLastDay(e))' = LunaIssued(PrevEpochLastDay(e))
      <4>1. /\ LunaIssued(EpochLastDay(e))'
                 = GetIssuance(issuance', balances', Luna, EpochLastDay(e)')
            /\ LunaIssued(PrevEpochLastDay(e))'
                 = GetIssuance(issuance', balances', Luna, PrevEpochLastDay(e)')
        BY DEF LunaIssued, GetIssuance, StoredDays, LastStored, InAccounts
      <4> QED  BY <3>5, <3>6, <3>7, <3>8, <4>1
    <3>10. PeekEpochSeigniorage(e)' = PeekEpochSeigniorage(e)
      BY <3>9 DEF PeekEpochSeigniorage
    <3> QED  BY <3>2, <3>3, <3>4, <3>10
  <2>2. CASE Restart
    <3>1. restarts \in Nat
      BY PayConstants DEF PayInv, TypeOK
    <3> QED  BY <2>2, <3>1 DEF Restart, Restarted
  <2> QED  BY <2>1, <2>2, StepsOfPay
<1> QED  BY <1>1, PayInvariant, PTL DEF Spec, PastEpochsFinal

(* The budget pays every epoch with the weight the store lists for the      *)
(* epoch before.                                                            *)
THEOREM AlwaysPaidWithLastUpdate == Spec => []PaidWithLastUpdate
<1>1. Init => PaidWithLastUpdate
  BY DEF Init, TreasuryInit, NothingPaid, PaidWithLastUpdate
<1>2. PayInv /\ PaidWithLastUpdate /\ [Next]_vars => PaidWithLastUpdate'
  <2> SUFFICES ASSUME PayInv, PaidWithLastUpdate, [Next]_vars PROVE PaidWithLastUpdate'
    OBVIOUS
  <2>1. CASE ChainStep
    <3> SUFFICES ASSUME NEW e \in Epochs \ {0}, paid'[e] # Nil
                 PROVE  paid'[e] = InForce(rewardWeight', e - 1)
      BY DEF PaidWithLastUpdate, InForce
    <3>1. PICK f \in Epochs : f = e - 1 /\ e \in Nat /\ f \in Nat
      BY EpochsAreNaturals
    <3>2. /\ Epoch \in Nat /\ rewardWeight[0] # Nil
          /\ \A k \in Epochs : k >= Epoch => paid[k] = Nil
          /\ \A k \in Epochs : k >= Epoch /\ k # 0 => rewardWeight[k] = Nil
          /\ \A k \in Epochs : k < Epoch => InForce(rewardWeight', k) = InForce(rewardWeight, k)
      BY <2>1, PayTypes DEF PayInv, LeverInv, ChainStep, LeverMoved
    <3>3. CASE paid'[e] = paid[e]
      <4>1. e < Epoch /\ f < Epoch
        BY <3>1, <3>2, <3>3
      <4>2. paid[e] = InForce(rewardWeight, f)
        BY <3>1, <3>3 DEF PaidWithLastUpdate
      <4> QED  BY <3>1, <3>2, <3>3, <4>1, <4>2
    <3>4. CASE e = Epoch /\ paid'[e] = InForce(rewardWeight, Epoch)
      <4>1. rewardWeight[e] = Nil /\ f < Epoch /\ f \in 0 .. e
        BY <3>1, <3>2, <3>4
      <4>2. \A j \in 0 .. e : f < j => rewardWeight[j] = Nil
        BY <3>1, <4>1
      <4>3. InForce(rewardWeight, e) = InForce(rewardWeight, f)
        BY <3>2, <4>1, <4>2, InForceCarriedOver
      <4> QED  BY <3>1, <3>2, <3>4, <4>1, <4>3
    <3> QED  BY <2>1, <3>3, <3>4 DEF ChainStep, PaidStep
  <2>2. CASE Restart
    BY <2>2 DEF Restart, TreasuryRestart, NothingPaid, PaidWithLastUpdate
  <2>3. CASE UNCHANGED vars
    BY <2>3 DEF vars, treasuryVars, PaidWithLastUpdate, InForce
  <2> QED  BY <2>1, <2>2, <2>3, StepsOfPay
<1> QED  BY <1>1, <1>2, PayInvariant, PTL DEF Spec

(* Every coin of tax is recorded in exactly one epoch, and payments create  *)
(* and destroy nothing: the inductive step moves the tax of all inputs of a *)
(* transfer from the accounts to the pool and to the current epoch.         *)
THEOREM TaxesAlwaysAccounted == Spec => []TaxesAccounted
<1>1. Init => TaxesAccounted
  <2> SUFFICES ASSUME Init PROVE TaxesAccounted
    OBVIOUS
  <2>1. ASSUME NEW d \in Denoms
        PROVE  outside[d] = SumFunction([e \in Epochs |-> proceeds[e][d]])
    <3> DEFINE f == [e \in Epochs |-> proceeds[e][d]]
    <3>1. \A e \in Epochs : f[e] = 0
      BY DEF Init, TreasuryInit, NoProceeds
    <3>2. SumFunction(f) = SumFunctionOnSet(f, Epochs)
      BY DEF SumFunction
    <3> HIDE DEF f
    <3>3. SumFunctionOnSet(f, Epochs) = 0
      BY <3>1, EpochsAreNaturals, SumOfZeros
    <3>4. outside[d] = 0
      BY DEF Init
    <3> QED  BY <3>2, <3>3, <3>4 DEF f
  <2>2. ASSUME NEW d \in Denoms
        PROVE  Supply(d) = Genesis * Cardinality(Accounts)
    <3>1. /\ InAccounts(balances, d) \in Nat
          /\ InAccounts(balances, d) = SumFunctionOnSet(balances[d], Accounts)
      BY InitPay, PayTypes, InAccountsType DEF PayInv
    <3>2. \A a \in Accounts : balances[d][a] = Genesis
      BY DEF Init
    <3>3. SumFunctionOnSet(balances[d], Accounts) = Genesis * Cardinality(Accounts)
      BY <3>2, PayConstants, MintAssumption, SumConstant
    <3>4. outside[d] = 0
      BY DEF Init
    <3> QED  BY <3>1, <3>3, <3>4 DEF Supply
  <2> QED  BY <2>1, <2>2 DEF TaxesAccounted
<1>2. PayInv /\ TaxesAccounted /\ [Next]_vars => TaxesAccounted'
  <2> SUFFICES ASSUME PayInv, TaxesAccounted, [Next]_vars PROVE TaxesAccounted'
    OBVIOUS
  <2>0. PayInv'
    BY StepsOfPay
  <2>1. CASE ChainStep
    <3>1. ASSUME restarts' = 0, NEW d \in Denoms
          PROVE  outside'[d] = SumFunction([e \in Epochs |-> proceeds'[e][d]])
      <4> DEFINE f == [e \in Epochs |-> proceeds[e][d]]
                 g == [e \in Epochs |-> proceeds'[e][d]]
      <4>1. outside[d] = SumFunctionOnSet(f, Epochs)
        BY <2>1, <3>1 DEF TaxesAccounted, ChainStep, TaxStep, SumFunction
      <4>2. PICK t \in Nat : /\ outside'[d] = outside[d] + t
                             /\ proceeds'[Epoch][d] = proceeds[Epoch][d] + t
        BY <2>1 DEF ChainStep, TaxStep
      <4>3. Epoch \in Epochs /\ IsFiniteSet(Epochs)
        BY PayTypes, EpochsAreNaturals DEF PayInv
      <4>4. \A e \in Epochs : f[e] \in Int /\ g[e] \in Int
        BY <2>0 DEF PayInv, TypeOK, TreasuryTypeOK
      <4>5. \A e \in Epochs \ {Epoch} : f[e] = g[e]
        BY <2>1 DEF ChainStep, TaxStep
      <4>6. g[Epoch] = f[Epoch] + t
        BY <4>2, <4>3
      <4>7. SumFunction(g) = SumFunctionOnSet(g, Epochs)
        BY DEF SumFunction
      <4>8. outside[d] \in Nat
        BY DEF PayInv, TypeOK, MintTypeOK
      <4> HIDE DEF f, g
      <4>9. SumFunctionOnSet(g, Epochs) = SumFunctionOnSet(f, Epochs) + g[Epoch] - f[Epoch]
        BY <4>3, <4>4, <4>5, SumChange
      <4>10. outside'[d] = SumFunction(g)
        BY <4>1, <4>2, <4>3, <4>4, <4>6, <4>7, <4>8, <4>9
      <4> QED  BY <4>10 DEF g
    <3>2. ASSUME NEW d \in Denoms \ {Luna}
          PROVE  InAccounts(balances', d) + outside'[d] = Genesis * Cardinality(Accounts)
      <4>1. PICK t \in Nat : /\ outside'[d] = outside[d] + t
                             /\ InAccounts(balances', d) = InAccounts(balances, d) - t
        BY <2>1 DEF ChainStep, TaxStep
      <4>2. outside[d] \in Nat /\ InAccounts(balances, d) \in Nat
        BY PayTypes, InAccountsType DEF PayInv, TypeOK, MintTypeOK
      <4>3. InAccounts(balances, d) + outside[d] = Genesis * Cardinality(Accounts)
        BY DEF TaxesAccounted, Supply
      <4>4. InAccounts(balances', d) + outside'[d] = InAccounts(balances, d) + outside[d]
        BY <4>1, <4>2
      <4> QED  BY <4>3, <4>4
    <3> QED  BY <3>1, <3>2 DEF TaxesAccounted, Supply, InAccounts
  <2>2. CASE Restart
    <3>1. restarts' # 0
      <4>1. restarts \in Nat
        BY PayConstants DEF PayInv, TypeOK
      <4> QED  BY <2>2, <4>1 DEF Restart
    <3>2. balances' = balances /\ outside' = outside
      BY <2>2 DEF Restart
    <3> QED  BY <3>1, <3>2 DEF TaxesAccounted, Supply, InAccounts
  <2>3. CASE UNCHANGED vars
    BY <2>3 DEF vars, mintVars, treasuryVars, TaxesAccounted, Supply, InAccounts
  <2> QED  BY <2>1, <2>2, <2>3, StepsOfPay
<1> QED  BY <1>1, <1>2, PayInvariant, PTL DEF Spec

(* The seigniorage of the epochs that are over telescopes: the opening day  *)
(* of each is the last day of the one before.                               *)
LEMMA SeigniorageTelescopes ==
  ASSUME PayInv, NEW e \in 0 .. Epoch - 1,
         \A k \in 0 .. e : LunaIssued(IF k = 0 THEN 0 ELSE k * DaysPerEpoch - 1)
                             <= LunaIssued((k + 1) * DaysPerEpoch - 1)
  PROVE  SumFunctionOnSet([k \in 0 .. e |-> PeekEpochSeigniorage(k)], 0 .. e)
           = LunaIssued((e + 1) * DaysPerEpoch - 1) - LunaIssued(0)
<1> DEFINE Opens(k) == LunaIssued(IF k = 0 THEN 0 ELSE k * DaysPerEpoch - 1)
           Ends(k) == LunaIssued((k + 1) * DaysPerEpoch - 1)
           f(n) == [k \in 0 .. n |-> PeekEpochSeigniorage(k)]
           P == {n \in Nat : n <= e => SumFunctionOnSet(f(n), 0 .. n) = Ends(n) - Opens(0)}
<1>0. e \in Nat /\ Epoch \in Nat /\ e < Epoch
  BY PayTypes DEF PayInv
<1>1. ASSUME NEW k \in 0 .. e
      PROVE  /\ Opens(k) \in Nat /\ Ends(k) \in Nat /\ Opens(k) <= Ends(k)
             /\ PeekEpochSeigniorage(k) = Ends(k) - Opens(k)
  <2>1. k \in 0 .. Epoch - 1 /\ k \in Nat
    BY <1>0
  <2>2. /\ EpochLastDay(k) = (k + 1) * DaysPerEpoch - 1
        /\ PrevEpochLastDay(k) = IF k = 0 THEN 0 ELSE k * DaysPerEpoch - 1
    BY <2>1, DaysOfPastEpoch DEF PayInv
  <2>3. LunaIssued(EpochLastDay(k)) \in Nat /\ LunaIssued(PrevEpochLastDay(k)) \in Nat
    BY <2>1, EpochDays, LunaIssuedType DEF PayInv
  <2>4. Opens(k) = LunaIssued(PrevEpochLastDay(k)) /\ Ends(k) = LunaIssued(EpochLastDay(k))
    BY <2>2
  <2>5. Opens(k) <= Ends(k)
    OBVIOUS
  <2> QED  BY <2>3, <2>4, <2>5 DEF PeekEpochSeigniorage
<1>2. ASSUME NEW k \in Nat
      PROVE  Opens(k + 1) = Ends(k)
  OBVIOUS
<1>3. Opens(0) = LunaIssued(0)
  OBVIOUS
<1> HIDE DEF Opens, Ends
<1>4. \A n \in Nat : \A k \in 0 .. n : f(n)[k] = PeekEpochSeigniorage(k)
  OBVIOUS
<1>5. \A n \in Nat : IsFiniteSet(0 .. n)
  BY FS_Interval
<1> HIDE DEF f
<1>6. 0 \in P
  <2>1. 0 .. 0 = {0} /\ (0 .. 0) \ {0} = {} /\ 0 \in 0 .. 0 /\ 0 \in 0 .. e
    BY <1>0
  <2>2. f(0)[0] = Ends(0) - Opens(0) /\ f(0)[0] \in Int
    BY <1>1, <1>4, <2>1
  <2>3. SumFunctionOnSet(f(0), 0 .. 0) = f(0)[0] + SumFunctionOnSet(f(0), (0 .. 0) \ {0})
    <3> DEFINE S == 0 .. 0
               g == f(0)
    <3>1. IsFiniteSet(S) /\ 0 \in S /\ \A x \in S : g[x] \in Int
      BY <1>5, <2>1, <2>2
    <3> HIDE DEF S, g
    <3>2. SumFunctionOnSet(g, S) = g[0] + SumFunctionOnSet(g, S \ {0})
      BY <3>1, SumRemove
    <3> QED  BY <3>2 DEF S, g
  <2>4. SumFunctionOnSet(f(0), {}) = 0
    BY SumOfNothing
  <2>5. SumFunctionOnSet(f(0), 0 .. 0) = Ends(0) - Opens(0)
    BY <2>1, <2>2, <2>3, <2>4
  <2> QED  BY <2>5
<1>7. ASSUME NEW n \in P
      PROVE  n + 1 \in P
  <2>1. n \in Nat /\ n + 1 \in Nat
    OBVIOUS
  <2> SUFFICES ASSUME n + 1 <= e
               PROVE  SumFunctionOnSet(f(n + 1), 0 .. n + 1) = Ends(n + 1) - Opens(0)
    BY <2>1
  <2>2. SumFunctionOnSet(f(n), 0 .. n) = Ends(n) - Opens(0)
    BY <1>0, <2>1
  <2>3. /\ 0 .. n = (0 .. n + 1) \ {n + 1} /\ n + 1 \in 0 .. n + 1
        /\ 0 \in 0 .. e /\ n \in 0 .. e /\ n + 1 \in 0 .. e
        /\ \A k \in 0 .. n + 1 : k \in 0 .. e
    BY <1>0, <2>1
  <2>4. \A k \in 0 .. n + 1 : f(n + 1)[k] \in Int
    <3> SUFFICES ASSUME NEW k \in 0 .. n + 1 PROVE f(n + 1)[k] \in Int
      OBVIOUS
    <3>1. f(n + 1)[k] = PeekEpochSeigniorage(k)
      BY <1>4, <2>1
    <3>2. PeekEpochSeigniorage(k) = Ends(k) - Opens(k) /\ Opens(k) \in Nat /\ Ends(k) \in Nat
      BY <1>1, <2>3
    <3> QED  BY <3>1, <3>2
  <2>5. SumFunctionOnSet(f(n + 1), 0 .. n + 1) = f(n + 1)[n + 1] + SumFunctionOnSet(f(n + 1), 0 .. n)
    <3> DEFINE S == 0 .. n + 1
               g == f(n + 1)
               m == n + 1
    <3>1. IsFiniteSet(S) /\ m \in S /\ \A x \in S : g[x] \in Int
      BY <1>5, <2>1, <2>3, <2>4
    <3> HIDE DEF S, g, m
    <3>2. SumFunctionOnSet(g, S) = g[m] + SumFunctionOnSet(g, S \ {m})
      BY <3>1, SumRemove
    <3> QED  BY <2>3, <3>2 DEF S, g, m
  <2>6. SumFunctionOnSet(f(n + 1), 0 .. n) = SumFunctionOnSet(f(n), 0 .. n)
    <3>1. \A k \in 0 .. n : f(n + 1)[k] \in Int /\ f(n + 1)[k] = f(n)[k]
      BY <1>4, <2>1, <2>3, <2>4
    <3> QED  BY <1>5, <2>1, <3>1, SumSame
  <2>7. f(n + 1)[n + 1] = Ends(n + 1) - Ends(n)
    BY <1>1, <1>2, <1>4, <2>1, <2>3
  <2>8. Ends(n + 1) \in Nat /\ Ends(n) \in Nat /\ Opens(0) \in Nat
    BY <1>1, <2>3
  <2> QED  BY <2>2, <2>5, <2>6, <2>7, <2>8
<1> HIDE DEF P
<1>8. P = Nat
  <2>1. P \in SUBSET Nat
    BY DEF P
  <2> QED  BY <1>6, <1>7, <2>1, NaturalInduction
<1>9. SumFunctionOnSet(f(e), 0 .. e) = Ends(e) - Opens(0)
  <2>1. e \in P
    BY <1>0, <1>8
  <2> QED  BY <1>0, <2>1 DEF P
<1> QED  BY <1>3, <1>9 DEF f, Ends

(* As long as the issuance did not shrink over an epoch, the seigniorage of *)
(* the epochs that are over adds up to the growth of the Luna issuance      *)
(* since day 0: no day is missed and none counted twice, for any length of  *)
(* day and epoch.                                                           *)
THEOREM SeigniorageAlwaysCountedOnce == Spec => []SeigniorageCountedOnce
<1>1. PayInv => SeigniorageCountedOnce
  <2> SUFFICES ASSUME PayInv PROVE SeigniorageCountedOnce
    OBVIOUS
  <2> DEFINE LastDay(k) == (k + 1) * DaysPerEpoch - 1
             Opening(k) == IF k = 0 THEN 0 ELSE LastDay(k - 1)
  <2>1. ASSUME NEW e \in 0 .. Epoch - 1,
               \A k \in 0 .. e : LunaIssued(Opening(k)) <= LunaIssued(LastDay(k))
        PROVE  SumFunction([k \in 0 .. e |-> PeekEpochSeigniorage(k)])
                 = LunaIssued(LastDay(e)) - LunaIssued(0)
    <3>1. \A k \in 0 .. e : Opening(k) = IF k = 0 THEN 0 ELSE k * DaysPerEpoch - 1
      <4> SUFFICES ASSUME NEW k \in 0 .. e
                   PROVE  Opening(k) = IF k = 0 THEN 0 ELSE k * DaysPerEpoch - 1
        OBVIOUS
      <4>1. e \in Nat /\ k \in Nat /\ (k - 1) + 1 = k
        BY PayTypes DEF PayInv
      <4> QED  BY <4>1
    <3>2. SumFunctionOnSet([k \in 0 .. e |-> PeekEpochSeigniorage(k)], 0 .. e)
            = LunaIssued((e + 1) * DaysPerEpoch - 1) - LunaIssued(0)
      BY <2>1, <3>1, SeigniorageTelescopes
    <3> QED  BY <3>2 DEF SumFunction
  <2> QED  BY <2>1 DEF SeigniorageCountedOnce
<1> QED  BY <1>1, PayInvariant, PTL

(* The probation keeps the policy from moving the rate of epoch 0. *)
LEMMA FirstTaxRateKept ==
  ASSUME WindowProbation >= 2
  PROVE  Spec => [](taxRate[0] = GenesisTaxRate)
<1> DEFINE Kept == taxRate[0] = GenesisTaxRate
<1>1. Init => Kept
  BY AtGenesisGuarantee, PolicyConstants DEF Init, TreasuryInit
<1>2. PayInv /\ Kept /\ [Next]_vars => Kept'
  <2> SUFFICES ASSUME PayInv, Kept, [Next]_vars PROVE Kept'
    OBVIOUS
  <2>0. Epoch \in Nat /\ Epoch \in Epochs /\ 0 \in Epochs /\ taxRate[0] # Nil
    BY PayTypes, EpochsAreNaturals DEF PayInv, LeverInv
  <2>1. CASE ChainStep
    <3>1. taxRate'[0] # Nil /\ InForce(taxRate', 0) = taxRate'[0] /\ InForce(taxRate, 0) = taxRate[0]
      <4>1. taxRate'[0] # Nil
        BY <2>1 DEF ChainStep, LeverMoved, Lever
      <4> QED  BY <2>0, <4>1, InForceWhereSet
    <3>2. CASE Epoch > 0
      BY <2>0, <2>1, <3>1, <3>2 DEF ChainStep, LeverMoved
    <3>3. CASE Epoch = 0
      <4>1. ~LeverChanges
        BY <2>1, <3>3, TreasuryConstants DEF ChainStep
      <4>2. InForce(taxRate', 0) = InForce(taxRate', Epoch')
        BY <2>0, <2>1, <3>3 DEF ChainStep, LeverMoved
      <4> QED  BY <3>1, <3>3, <4>1, <4>2 DEF LeverChanges
    <3> QED  BY <2>0, <3>2, <3>3
  <2>2. CASE Restart
    <3>1. taxRate' = AtGenesis(taxRate[0])
      BY <2>2, RestartStep
    <3> QED  BY <3>1, AtGenesisGuarantee, PolicyConstants
  <2>3. CASE UNCHANGED vars
    BY <2>3 DEF vars, treasuryVars
  <2> QED  BY <2>1, <2>2, <2>3, StepsOfPay
<1> QED  BY <1>1, <1>2, PayInvariant, PTL DEF Spec

(* With a probation of two epochs or more (the default is twelve) a restart *)
(* in any block keeps the reward weight in force, stored for this epoch or  *)
(* only for an earlier one, and sets the tax rate back to the one the chain *)
(* was started with.                                                        *)
THEOREM RestartsKeepWeightOnly ==
  ASSUME WindowProbation >= 2
  PROVE  Spec => RestartKeepsWeightOnly
<1> DEFINE Kept == taxRate[0] = GenesisTaxRate
           A == Restarted =>
                  /\ InForce(rewardWeight, Epoch)' = InForce(rewardWeight, Epoch)
                  /\ InForce(taxRate, Epoch)' = GenesisTaxRate
<1>1. PayInv /\ Kept /\ [Next]_vars => [A]_vars
  <2> SUFFICES ASSUME PayInv, Kept, [Next]_vars PROVE [A]_vars
    OBVIOUS
  <2>1. CASE ChainStep
    BY <2>1 DEF ChainStep, TaxStep, Restarted
  <2>2. CASE Restart
    <3>1. /\ taxRate' = AtGenesis(taxRate[0]) /\ Epoch' \in Epochs
          /\ rewardWeight' = AtGenesis(InForce(rewardWeight, Epoch))
      BY <2>2, RestartStep
    <3>2. GenesisTaxRate \in Nat /\ InForce(rewardWeight, Epoch) \in Nat
      BY PolicyConstants, InForceInRange, PayTypes DEF PayInv
    <3>3. /\ InForce(taxRate', Epoch') = GenesisTaxRate
          /\ InForce(rewardWeight', Epoch') = InForce(rewardWeight, Epoch)
      BY <3>1, <3>2, AtGenesisGuarantee
    <3>4. /\ InForce(taxRate, Epoch)' = InForce(taxRate', Epoch')
          /\ InForce(rewardWeight, Epoch)' = InForce(rewardWeight', Epoch')
      BY DEF InForce
    <3> QED  BY <3>3, <3>4
  <2> QED  BY <2>1, <2>2, StepsOfPay
<1>2. Spec => []Kept
  BY FirstTaxRateKept
<1> QED  BY <1>1, <1>2, PayInvariant, PTL DEF Spec, RestartKeepsWeightOnly

=============================================================================
