---------------------------- MODULE OracleProofs ----------------------------
(***************************************************************************)
(* Proofs about Oracle for every set of validators, tokens, denominations  *)
(* and prices and every value of the parameters and bounds.                *)
(***************************************************************************)
EXTENDS OracleSteps, UtilProofs

-----------------------------------------------------------------------------
(* What the oracle relies on when staking changes under it *)

(* Power counts tokens. *)
LEMMA PowerIsNat ==
  ASSUME NEW S
  PROVE  Power(S) \in Nat
<1>1. IsFiniteSet({t \in Tokens : stake[t] \in S})
  BY FS_Subset, StakingAssumption
<1> QED  BY <1>1, FS_CardinalityType DEF Power

(* More validators have at least as much power, and as much only if those   *)
(* that are added have none.                                                *)
LEMMA PowerMonotone ==
  ASSUME NEW S, NEW T, S \subseteq T
  PROVE  /\ Power(S) <= Power(T)
         /\ Power(S) = Power(T) => \A t \in Tokens : stake[t] \in T => stake[t] \in S
<1> DEFINE A == {t \in Tokens : stake[t] \in S}
           B == {t \in Tokens : stake[t] \in T}
<1>1. IsFiniteSet(B) /\ A \in SUBSET B
  BY FS_Subset, StakingAssumption
<1>2. Cardinality(A) <= Cardinality(B) /\ (Cardinality(B) = Cardinality(A) => B = A)
  <2> HIDE DEF A, B
  <2> QED  BY <1>1, FS_Subset
<1>3. A = B => \A t \in Tokens : stake[t] \in T => stake[t] \in S
  OBVIOUS
<1> QED  BY <1>2, <1>3 DEF Power

(* Power that is not zero belongs to somebody. *)
LEMMA PowerHasOwner ==
  ASSUME NEW S, Power(S) # 0
  PROVE  \E t \in Tokens : stake[t] \in S
<1>1. {t \in Tokens : stake[t] \in S} # {}
  BY FS_EmptySet DEF Power
<1> QED  BY <1>1

LEMMA StakingInitType ==
  ASSUME StakingInit
  PROVE  StakingTypeOK
  BY StakingAssumption DEF StakingInit, StakingTypeOK

(* A staking change keeps the staking store well formed: in particular no   *)
(* token stays bonded to a validator that is removed.                       *)
LEMMA StakingKeepsType ==
  ASSUME StakingTypeOK, StakingNext
  PROVE  StakingTypeOK'
<1>1. moves' \in 0 .. MaxMoves
  BY StakingAssumption DEF StakingTypeOK, StakingNext
<1>2. CASE \E t \in Tokens, w \in validators \cup {Nil} : Rebond(t, w)
  BY <1>1, <1>2 DEF StakingTypeOK, Rebond
<1>3. CASE \E v \in Vals : CreateValidator(v)
  BY <1>1, <1>3 DEF StakingTypeOK, CreateValidator
<1>4. ASSUME NEW v \in Vals, RemoveValidator(v)
      PROVE  StakingTypeOK'
  <2>1. \A t \in Tokens : stake[t] # v
    <3>1. IsFiniteSet({t \in Tokens : stake[t] \in {v}})
      BY FS_Subset, StakingAssumption
    <3>2. {t \in Tokens : stake[t] \in {v}} = {}
      BY <1>4, <3>1, FS_EmptySet DEF RemoveValidator, Power
    <3> QED  BY <3>2
  <2>2. stake' \in [Tokens -> validators' \cup {Nil}]
    BY <1>4, <2>1 DEF StakingTypeOK, RemoveValidator
  <2> QED  BY <1>1, <1>4, <2>2 DEF StakingTypeOK, RemoveValidator
<1> QED  BY <1>2, <1>3, <1>4 DEF StakingNext

(* A chain that runs keeps the tokens bonded without which it would not. *)
LEMMA StakingKeepsBonded ==
  ASSUME TotalBondedTokens >= MinBonded, StakingNext
  PROVE  TotalBondedTokens' >= MinBonded
<1>1. ASSUME NEW t \in Tokens, NEW w, Rebond(t, w)
      PROVE  TotalBondedTokens' >= MinBonded
  BY <1>1 DEF Rebond, TotalBondedTokens, Power
<1>2. CASE UNCHANGED stake
  BY <1>2 DEF TotalBondedTokens, Power
<1> QED  BY <1>1, <1>2 DEF StakingNext, CreateValidator, RemoveValidator

-----------------------------------------------------------------------------
(* The tally *)

LEMMA BallotPower ==
  ASSUME NEW d
  PROVE  Power(Ballot(d)) \in Nat
  BY PowerIsNat

LEMMA VotesTyped ==
  ASSUME TypeOK, NEW d \in Denoms
  PROVE  /\ \A v \in Ballot(d) : v \in Vals /\ votes[d][v] \in Nat /\ votes[d][v] \in Prices
         /\ Candidates(d) \subseteq Nat
<1>1. votes[d] \in [Vals -> Prices \cup {Nil}]
  BY DEF TypeOK
<1>2. \A v \in Ballot(d) : v \in Vals /\ votes[d][v] \in Prices
  BY <1>1 DEF Ballot
<1>3. \A v \in Ballot(d) : votes[d][v] \in Nat
  BY <1>2, OracleAssumption
<1> QED  BY <1>2, <1>3 DEF Candidates

(* The price a ballot yields was voted for, or is zero. *)
LEMMA MedianIsVotedFor ==
  ASSUME TypeOK, NEW d \in Denoms
  PROVE  weightedMedian(d) \in Candidates(d) \cup {0}
<1> DEFINE reached == {p \in Candidates(d) : PivotReached(d, p)}
<1>1. reached \subseteq Nat
  BY VotesTyped
<1>2. weightedMedian(d) = IF reached = {} THEN 0
                          ELSE CHOOSE p \in reached : \A q \in reached : p <= q
  BY DEF weightedMedian
<1>3. reached \subseteq Candidates(d)
  OBVIOUS
<1> HIDE DEF reached
<1>4. reached # {} => \E p \in reached : \A q \in reached : p <= q
  BY <1>1, LeastElement
<1> QED  BY <1>2, <1>3, <1>4

LEMMA PricesTyped ==
  ASSUME TypeOK
  PROVE  UpdatedPrices \in [Denoms -> Nat \cup {Nil}]
<1>1. ASSUME NEW d \in Denoms
      PROVE  weightedMedian(d) \in Nat
  <2>1. Candidates(d) \subseteq Nat
    BY VotesTyped
  <2> QED  BY <2>1, MedianIsVotedFor
<1> QED  BY <1>1 DEF UpdatedPrices

LEMMA WeightsTyped ==
  ASSUME NEW v \in Vals
  PROVE  /\ Cardinality({d \in PassingDenoms : v \in BallotWinners(d)}) \in 0 .. Cardinality(Denoms)
         /\ Cardinality(Denoms) \in Nat
         /\ Power({v}) \in Nat
<1> DEFINE won == {d \in PassingDenoms : v \in BallotWinners(d)}
<1>1. won \in SUBSET Denoms
  BY DEF PassingDenoms
<1> HIDE DEF won
<1>2. Cardinality(won) \in Nat /\ Cardinality(won) <= Cardinality(Denoms) /\ Cardinality(Denoms) \in Nat
  BY <1>1, FS_Subset, FS_CardinalityType, OracleAssumption
<1> QED  BY <1>2, PowerIsNat DEF won

LEMMA ClaimsTyped == AddClaims(ClearedClaims) \in [Vals -> Nat]
  BY WeightsTyped DEF AddClaims, ClearedClaims, NoClaims

-----------------------------------------------------------------------------
(* The distribution of the swap fees *)

LEMMA ClaimSumType ==
  ASSUME TypeOK
  PROVE  ClaimSum \in Nat /\ ClaimSum = SumFunctionOnSet(claims, Vals)
<1>1. DOMAIN claims = Vals /\ \A v \in Vals : claims[v] \in Nat
  BY DEF TypeOK
<1>2. SumFunctionOnSet(claims, Vals) \in Nat
  BY <1>1, SumType, OracleAssumption
<1> QED  BY <1>1, <1>2 DEF ClaimSum, SumFunction

(* Truncating twice, once per unit of weight and once per validator, the    *)
(* shares never add up to more than the pool.                               *)
LEMMA SharesCovered ==
  ASSUME TypeOK, ClaimSum # 0
  PROVE  /\ \A v \in Vals : RewardAmt(v) \in Nat
         /\ SumFunctionOnSet([v \in Vals |-> RewardAmt(v)], Vals) \in 0 .. feePool
<1> DEFINE share == [v \in Vals |-> RewardAmt(v)]
           unit == (feePool * DecOne) \div ClaimSum
           scaled == [v \in Vals |-> DecOne * share[v]]
           untruncated == [v \in Vals |-> unit * claims[v]]
<1>1. ClaimSum \in Nat \ {0} /\ DecOne \in Nat \ {0} /\ feePool \in Nat
  BY ClaimSumType, OracleAssumption DEF TypeOK
<1>2. unit \in Nat /\ unit * ClaimSum <= feePool * DecOne
  BY <1>1
<1>3. \A v \in Vals : claims[v] \in Nat
  BY DEF TypeOK
<1>4. \A v \in Vals : RewardAmt(v) = (unit * claims[v]) \div DecOne
  BY DEF RewardAmt
<1> HIDE DEF unit
<1>5. ASSUME NEW v \in Vals
      PROVE  /\ RewardAmt(v) \in Nat
             /\ DecOne * RewardAmt(v) <= unit * claims[v]
             /\ unit * claims[v] \in Nat
  <2>1. unit * claims[v] \in Nat
    BY <1>2, <1>3
  <2> QED  BY <1>1, <1>4, <2>1
<1>6. SumFunctionOnSet(share, Vals) \in Nat
  BY <1>5, SumType, OracleAssumption
<1>7. SumFunctionOnSet(scaled, Vals) = DecOne * SumFunctionOnSet(share, Vals)
  <2>1. \A v \in Vals : share[v] \in Int /\ scaled[v] = DecOne * share[v]
    BY <1>5
  <2> HIDE DEF scaled, share
  <2> QED  BY <1>1, <2>1, SumScaled, OracleAssumption
<1>8. SumFunctionOnSet(untruncated, Vals) = unit * SumFunctionOnSet(claims, Vals)
  <2>1. \A v \in Vals : claims[v] \in Int /\ untruncated[v] = unit * claims[v]
    BY <1>3
  <2> HIDE DEF untruncated
  <2> QED  BY <1>2, <2>1, SumScaled, OracleAssumption
<1>9. SumFunctionOnSet(scaled, Vals) <= SumFunctionOnSet(untruncated, Vals)
  <2>1. \A v \in Vals : scaled[v] \in Int /\ untruncated[v] \in Int /\ scaled[v] <= untruncated[v]
    BY <1>1, <1>5
  <2> HIDE DEF scaled, untruncated
  <2> QED  BY <2>1, SumMonotone, OracleAssumption
<1>10. DecOne * SumFunctionOnSet(share, Vals) <= feePool * DecOne
  <2> HIDE DEF share, scaled, untruncated
  <2> QED  BY <1>1, <1>2, <1>6, <1>7, <1>8, <1>9, ClaimSumType
<1>11. SumFunctionOnSet(share, Vals) <= feePool
  <2> HIDE DEF share
  <2> QED  BY <1>1, <1>6, <1>10
<1> QED  BY <1>5, <1>6, <1>11

(* What the distribution does to the fees, whoever has won and whoever of   *)
(* them is still a validator.                                               *)
LEMMA DistributionKeepsFees ==
  ASSUME TypeOK, SwapFeesConserved, rewardPrevBallotWinners
  PROVE  /\ rewards' \in [Vals -> Nat]
         /\ {feePool', collector', issued', collected'} \subseteq Nat
         /\ SwapFeesConserved'
<1>0. DOMAIN rewards = Vals /\ \A v \in Vals : rewards[v] \in Nat
  BY DEF TypeOK
<1>1. CASE ClaimSum = 0 \/ feePool = 0
  BY <1>1 DEF TypeOK, SwapFeesConserved, rewardPrevBallotWinners, feeVars
<1>2. CASE ClaimSum # 0 /\ feePool # 0
  <2> DEFINE share == [v \in Vals |-> RewardAmt(v)]
             paid == [v \in Vals |-> IF v \in validators THEN RewardAmt(v) ELSE 0]
  <2>1. \A v \in Vals : share[v] \in Nat /\ paid[v] \in Nat /\ paid[v] <= share[v]
    BY <1>2, SharesCovered
  <2>2. SumFunctionOnSet(share, Vals) \in 0 .. feePool
    BY <1>2, SharesCovered
  <2>3. SumFunction(paid) = SumFunctionOnSet(paid, Vals)
    BY DEF SumFunction
  <2>4. /\ rewards' = [v \in Vals |-> rewards[v] + paid[v]]
        /\ collector' = collector + (feePool - SumFunction(paid))
        /\ issued' = issued + feePool
        /\ feePool' = 0
        /\ collected' = collected
    BY <1>2 DEF rewardPrevBallotWinners
  <2> HIDE DEF share, paid
  <2>5. SumFunctionOnSet(paid, Vals) \in Nat
    BY <2>1, SumType, OracleAssumption
  <2>6. SumFunctionOnSet(paid, Vals) <= SumFunctionOnSet(share, Vals)
    BY <2>1, SumMonotone, OracleAssumption
  <2>7. SumFunctionOnSet(rewards', Vals)
          = SumFunctionOnSet(rewards, Vals) + SumFunctionOnSet(paid, Vals)
    <3>1. \A v \in Vals : rewards[v] \in Int /\ paid[v] \in Int /\ rewards'[v] = rewards[v] + paid[v]
      BY <1>0, <2>1, <2>4
    <3> QED  BY <3>1, SumOfSums, OracleAssumption
  <2>8. /\ SumFunction(rewards) = SumFunctionOnSet(rewards, Vals)
        /\ SumFunction(rewards') = SumFunctionOnSet(rewards', Vals)
    BY <1>0, <2>4 DEF SumFunction
  <2>9. SumFunctionOnSet(rewards, Vals) \in Nat
    BY <1>0, SumType, OracleAssumption
  <2>10. rewards' \in [Vals -> Nat]
    BY <1>0, <2>1, <2>4
  <2>11. {feePool', collector', issued', collected'} \subseteq Nat
    BY <2>2, <2>3, <2>4, <2>5, <2>6 DEF TypeOK
  <2>12. feePool + issued = collected /\ SumFunctionOnSet(rewards, Vals) + collector = issued
    BY <2>8 DEF SwapFeesConserved
  <2>13. feePool' + issued' = collected'
    BY <2>4, <2>12 DEF TypeOK
  <2>14. SumFunction(rewards') + collector' = issued'
    BY <2>3, <2>4, <2>5, <2>7, <2>8, <2>9, <2>12 DEF TypeOK
  <2> QED  BY <2>10, <2>11, <2>13, <2>14 DEF SwapFeesConserved
<1> QED  BY <1>1, <1>2

-----------------------------------------------------------------------------
(* Type correctness and conservation of the swap fees.  Neither stands      *)
(* alone: the fees a restart takes back from what was collected, and those  *)
(* left over by a distribution, are naturals because the books balance.     *)

FeeInv == TypeOK /\ SwapFeesConserved

LEMMA InitFees ==
  ASSUME Init
  PROVE  FeeInv
<1>1. StakingTypeOK
  BY StakingInitType DEF Init
<1>2. SumFunction(rewards) = 0
  <2>1. DOMAIN rewards = Vals /\ \A v \in Vals : rewards[v] = 0
    BY DEF Init
  <2> QED  BY <2>1, SumOfZeros, OracleAssumption DEF SumFunction
<1>3. SwapFeesConserved
  BY <1>2 DEF Init, SwapFeesConserved
<1>4. restarts \in 0 .. MaxRestarts
  BY OracleAssumption DEF Init
<1> QED  BY <1>1, <1>3, <1>4
     DEF FeeInv, TypeOK, Init, NoPrevotes, NoVotes, NoPrices, SelfFed, NoClaims, Accounts

LEMMA MessagesKeepFees ==
  ASSUME FeeInv,
         NEW v \in Vals, NEW d \in Denoms, NEW f \in Accounts,
         \/ \E hash \in HashInputs(d, v) : handleMsgPricePrevote(f, v, d, hash)
         \/ \E p \in Prices : handleMsgPriceVote(f, v, d, p)
  PROVE  FeeInv'
<1>1. ASSUME NEW hash \in HashInputs(d, v), handleMsgPricePrevote(f, v, d, hash)
      PROVE  FeeInv'
  <2>1. hash \in Hashes /\ [hash |-> hash, submitBlock |-> height] \in Prevotes
    BY DEF HashInputs, FeeInv, TypeOK, Prevotes
  <2>2. prevotes' \in [Denoms -> [Vals -> Prevotes \cup {Nil}]]
    BY <1>1, <2>1 DEF FeeInv, TypeOK, handleMsgPricePrevote
  <2>3. commits' \subseteq Commits
    BY <1>1, <2>1 DEF FeeInv, TypeOK, handleMsgPricePrevote, CommitsBefore, Commits
  <2> QED  BY <1>1, <2>2, <2>3
       DEF FeeInv, TypeOK, SwapFeesConserved, handleMsgPricePrevote, feeVars, stakingVars, StakingTypeOK
<1>2. ASSUME NEW p \in Prices, handleMsgPriceVote(f, v, d, p)
      PROVE  FeeInv'
  <2>1. /\ prevotes' \in [Denoms -> [Vals -> Prevotes \cup {Nil}]]
        /\ votes' \in [Denoms -> [Vals -> Prices \cup {Nil}]]
    BY <1>2 DEF FeeInv, TypeOK, handleMsgPriceVote
  <2> QED  BY <1>2, <2>1
       DEF FeeInv, TypeOK, SwapFeesConserved, handleMsgPriceVote, feeVars, stakingVars, StakingTypeOK
<1> QED  BY <1>1, <1>2

LEMMA EndBlockerKeepsFees ==
  ASSUME FeeInv, EndBlocker
  PROVE  FeeInv'
<1>1. /\ StakingTypeOK' /\ height' \in Nat /\ delegates' \in [Vals -> Accounts]
      /\ commits' \subseteq Commits /\ restarts' \in 0 .. MaxRestarts
  BY DEF FeeInv, TypeOK, EndBlocker, RecentCommits, stakingVars, StakingTypeOK
<1>2. CASE ~IsPeriodLastBlock(height, VotePeriod)
  BY <1>1, <1>2 DEF FeeInv, TypeOK, SwapFeesConserved, EndBlocker, feeVars
<1>3. CASE IsPeriodLastBlock(height, VotePeriod)
  <2>1. TallyVotes
    BY <1>3 DEF EndBlocker
  <2>2. /\ rewards' \in [Vals -> Nat]
        /\ {feePool', collector', issued', collected'} \subseteq Nat
        /\ SwapFeesConserved'
    BY <2>1, DistributionKeepsFees DEF FeeInv, TallyVotes
  <2>3. prices' \in [Denoms -> Nat \cup {Nil}] /\ claims' \in [Vals -> Nat]
    BY <2>1, PricesTyped, ClaimsTyped DEF FeeInv, TallyVotes
  <2>4. prevotes' \in [Denoms -> [Vals -> Prevotes \cup {Nil}]]
    BY <2>1 DEF FeeInv, TypeOK, TallyVotes, ClearPrevotes
  <2>5. votes' \in [Denoms -> [Vals -> Prices \cup {Nil}]]
    BY <2>1 DEF TallyVotes, NoVotes
  <2> QED  BY <1>1, <2>2, <2>3, <2>4, <2>5 DEF FeeInv, TypeOK
<1> QED  BY <1>2, <1>3

LEMMA NextKeepsFees ==
  ASSUME FeeInv, [Next]_vars
  PROVE  FeeInv'
<1>1. ASSUME NEW v \in Vals, NEW f \in Feeders, handleMsgDelegateFeederPermission(v, f)
      PROVE  FeeInv'
  BY <1>1 DEF FeeInv, TypeOK, SwapFeesConserved, handleMsgDelegateFeederPermission, Accounts,
              feeVars, stakingVars, StakingTypeOK
<1>2. ASSUME NEW fee \in 1 .. MaxFees, AddSwapFeePool(fee)
      PROVE  FeeInv'
  <2>1. /\ {feePool', collected'} \subseteq Nat
        /\ feePool' + issued = collected'
    BY <1>2, OracleAssumption DEF FeeInv, TypeOK, SwapFeesConserved, AddSwapFeePool
  <2> QED  BY <1>2, <2>1
       DEF FeeInv, TypeOK, SwapFeesConserved, AddSwapFeePool, storeVars, stakingVars, StakingTypeOK
<1>3. CASE StakingStep
  BY <1>3, StakingKeepsType
  DEF StakingStep, FeeInv, TypeOK, SwapFeesConserved, storeVars, feeVars
<1>4. CASE Restart
  <2>1. /\ collected' \in Nat /\ feePool' + issued = collected' /\ feePool' = 0
        /\ restarts' \in 0 .. MaxRestarts
    BY <1>4, OracleAssumption DEF Restart, FeeInv, TypeOK, SwapFeesConserved
  <2> QED  BY <1>4, <2>1
       DEF Restart, FeeInv, TypeOK, SwapFeesConserved, stakingVars, StakingTypeOK,
           NoPrevotes, NoVotes, NoPrices, SelfFed, NoClaims, Accounts
<1>5. CASE UNCHANGED vars
  BY <1>5 DEF vars, FeeInv, TypeOK, SwapFeesConserved, storeVars, feeVars, stakingVars, StakingTypeOK
<1> QED  BY <1>1, <1>2, <1>3, <1>4, <1>5, MessagesKeepFees, EndBlockerKeepsFees DEF Next

LEMMA FeeInvariant == Spec => []FeeInv
<1>1. Init => FeeInv
  BY InitFees
<1>2. FeeInv /\ [Next]_vars => FeeInv'
  BY NextKeepsFees
<1> QED  BY <1>1, <1>2, PTL DEF Spec

(* The stores of the oracle, the distribution and the history are well      *)
(* typed in every state; in particular the fees left over by a distribution *)
(* are never negative, so no coin subtraction panics (all handlers, the     *)
(* EndBlocker and the restart).                                             *)
THEOREM OracleTypeCorrect == Spec => []TypeOK
<1>1. FeeInv => TypeOK
  BY DEF FeeInv
<1> QED  BY <1>1, FeeInvariant, PTL

(* No swap fee is created or lost, for any number of validators and weights *)
(* and any rounding: what was collected is pooled or issued, what was       *)
(* issued is with the validators or the collector (rewardPrevBallotWinners). *)
THEOREM FeesAlwaysConserved == Spec => []SwapFeesConserved
<1>1. FeeInv => SwapFeesConserved
  BY DEF FeeInv
<1> QED  BY <1>1, FeeInvariant, PTL

(* The shares never add up to more than the pool, so that the subtraction   *)
(* of what was paid cannot panic in the EndBlocker (rewardPrevBallotWinners). *)
THEOREM DistributionAlwaysCovered == Spec => []DistributionCovered
<1>1. TypeOK => DistributionCovered
  <2> SUFFICES ASSUME TypeOK, ClaimSum # 0
               PROVE  SumFunction([v \in Vals |-> RewardAmt(v)]) <= feePool
    BY DEF DistributionCovered
  <2>1. feePool \in Nat
    BY DEF TypeOK
  <2> QED  BY <2>1, SharesCovered DEF SumFunction
<1> QED  BY <1>1, OracleTypeCorrect, PTL

-----------------------------------------------------------------------------
(* Commit and reveal *)

(* Every stored prevote is in the history, with the block it came in. *)
PrevotesWereCommitted ==
  \A d \in Denoms, v \in Vals : prevotes[d][v] # Nil =>
    [denom |-> d, voter |-> v, hash |-> prevotes[d][v].hash,
     block |-> prevotes[d][v].submitBlock] \in commits

(* Votes are committed to because prevotes are; a prevote is still in the   *)
(* history when it is revealed because the clean-up bounds its age; and a   *)
(* passing ballot has a voter with power because the chain has stake.       *)
CommitInv ==
  /\ TotalBondedTokens >= MinBonded
  /\ PrevotesWereCommitted
  /\ PrevotesBounded
  /\ VotesWereCommitted
  /\ PricesAreFresh

(* With enough stake the threshold of a ballot is not zero. *)
LEMMA ThresholdIsPositive ==
  ASSUME TotalBondedTokens >= MinBonded, NEW d \in Denoms, d \in PassingDenoms
  PROVE  Power(Ballot(d)) > 0
<1>1. PICK n \in Nat : n = TotalBondedTokens /\ n >= 2
  BY PowerIsNat, StakingAssumption, OracleAssumption DEF TotalBondedTokens
<1>2. PICK m \in Nat : m = VoteThreshold * n /\ m >= 68
  <2>1. VoteThreshold \in Nat /\ VoteThreshold >= 34
    BY OracleAssumption
  <2>2. VoteThreshold * n \in Nat /\ VoteThreshold * n >= 34 * 2
    BY <1>1, <2>1
  <2> QED  BY <2>2
<1>3. RoundInt(m, 100) >= 1
  BY <1>2 DEF RoundInt
<1>4. RoundInt(m, 100) \in Nat
  BY RoundIntBounds
<1>5. Power(Ballot(d)) >= RoundInt(m, 100)
  BY <1>1, <1>2 DEF PassingDenoms, ballotIsPassing
<1> QED  BY <1>3, <1>4, <1>5, PowerIsNat

(* A passing ballot yields the price of one of its voters: some voter with  *)
(* power is still a validator, and at the highest price that such a voter   *)
(* gave the pivot has been reached.                                         *)
LEMMA MedianIsVote ==
  ASSUME TypeOK, TotalBondedTokens >= MinBonded, NEW d \in Denoms, d \in PassingDenoms
  PROVE  weightedMedian(d) \in Candidates(d)
<1> DEFINE Upto(p) == {v \in Ballot(d) : votes[d][v] <= p}
           Missing(p) == Power(Ballot(d)) - Power(Upto(p))
           Gaps == {Missing(p) : p \in Candidates(d)}
           reached == {p \in Candidates(d) : PivotReached(d, p)}
<1>1. \A v \in Ballot(d) : v \in Vals /\ votes[d][v] \in Nat /\ votes[d][v] \in Prices
  BY VotesTyped
<1>2. Candidates(d) \subseteq Nat
  BY VotesTyped
<1>3. ASSUME NEW t \in Tokens, stake[t] \in Ballot(d)
      PROVE  stake[t] \in validators /\ votes[d][stake[t]] \in Candidates(d)
  <2>1. stake[t] \in validators
    BY <1>1, <1>3, StakingAssumption DEF TypeOK, StakingTypeOK
  <2> QED  BY <1>3, <2>1 DEF Candidates
<1>4. \A p \in Candidates(d) :
        /\ Missing(p) \in Nat
        /\ Missing(p) = 0 =>  Power(Upto(p)) = Power(Ballot(d))
  <2>1. \A p \in Candidates(d) : Upto(p) \subseteq Ballot(d)
    OBVIOUS
  <2>2. \A p \in Candidates(d) : Power(Upto(p)) <= Power(Ballot(d)) /\ Power(Upto(p)) \in Nat
    <3> HIDE DEF Upto
    <3> QED  BY <2>1, PowerMonotone, PowerIsNat
  <2> HIDE DEF Upto
  <2> QED  BY <2>2, PowerIsNat
<1>5. Candidates(d) # {}
  <2>1. Power(Ballot(d)) # 0
    BY ThresholdIsPositive, PowerIsNat
  <2>2. PICK t \in Tokens : stake[t] \in Ballot(d)
    BY <2>1, PowerHasOwner
  <2> QED  BY <1>3, <2>2
<1>6. PICK p \in Candidates(d) : \A q \in Candidates(d) : Missing(p) <= Missing(q)
  <2>1. Gaps \in SUBSET Nat /\ Gaps # {}
    BY <1>4, <1>5
  <2>2. PICK n \in Gaps : \A m \in Gaps : n <= m
    <3> HIDE DEF Gaps
    <3> QED  BY <2>1, LeastElement
  <2> HIDE DEF Missing
  <2> QED  BY <2>2
<1>7. Missing(p) = 0
  <2> SUFFICES ASSUME Missing(p) # 0 PROVE FALSE
    OBVIOUS
  <2>1. Power(Upto(p)) # Power(Ballot(d))
    BY PowerIsNat
  <2>2. PICK t \in Tokens : stake[t] \in Ballot(d) /\ stake[t] \notin Upto(p)
    <3> DEFINE B == {t \in Tokens : stake[t] \in Ballot(d)}
               U == {t \in Tokens : stake[t] \in Upto(p)}
    <3>1. B # U
      BY <2>1 DEF Power
    <3>2. U \subseteq B
      OBVIOUS
    <3> QED  BY <3>1, <3>2
  <2> DEFINE q == votes[d][stake[t]]
  <2>3. q \in Candidates(d) /\ p < q /\ q \in Nat /\ p \in Nat
    BY <1>1, <1>2, <1>3, <2>2
  <2>4. Upto(p) \subseteq Upto(q) /\ stake[t] \in Upto(q) /\ stake[t] \notin Upto(p)
    BY <1>1, <2>2, <2>3
  <2>5. Missing(p) <= Missing(q)
    BY <1>6, <2>3
  <2> HIDE DEF Upto, q
  <2>6. Power(Upto(p)) < Power(Upto(q))
    BY <2>2, <2>4, PowerMonotone, PowerIsNat
  <2> QED  BY <2>5, <2>6, PowerIsNat
<1>8. p \in reached
  <2>1. PICK n \in Nat : n = Power(Ballot(d))
    BY PowerIsNat
  <2>2. Power(Upto(p)) = n
    BY <1>4, <1>7, <2>1
  <2>3. n >= n \div 2
    BY <2>1
  <2> QED  BY <2>1, <2>2, <2>3 DEF PivotReached
<1>9. weightedMedian(d) = CHOOSE x \in reached : \A y \in reached : x <= y
  BY <1>8 DEF weightedMedian
<1>10. \E x \in reached : \A y \in reached : x <= y
  <2>1. reached \in SUBSET Nat /\ reached # {}
    BY <1>2, <1>8
  <2> HIDE DEF reached
  <2> QED  BY <2>1, LeastElement
<1>11. weightedMedian(d) \in reached
  <2> HIDE DEF reached
  <2> QED  BY <1>9, <1>10
<1> QED  BY <1>11

LEMMA CurrentPeriodBounds ==
  ASSUME TypeOK
  PROVE  /\ CurrentPeriod \in Nat
         /\ CurrentPeriod * VotePeriod <= height
         /\ height < (CurrentPeriod + 1) * VotePeriod
  BY PeriodBounds, OracleAssumption DEF TypeOK, CurrentPeriod

(* A prevote of the age the store may hold is at most two periods old. *)
LEMMA BoundedIsRecent ==
  ASSUME NEW k \in Int, NEW b \in Nat, b + 1 >= (k - 1) * VotePeriod
  PROVE  Period(b, VotePeriod) >= k - 2
<1>1. VotePeriod \in Nat \ {0}
  BY OracleAssumption
<1>2. PICK p \in Nat : p = Period(b, VotePeriod) /\ b < (p + 1) * VotePeriod
  BY <1>1, PeriodBounds
<1>3. (k - 1) * VotePeriod <= (p + 1) * VotePeriod
  BY <1>1, <1>2
<1>4. k - 1 <= p + 1
  BY <1>1, <1>3
<1> QED  BY <1>2, <1>4

LEMMA PrevoteType ==
  ASSUME TypeOK, NEW d \in Denoms, NEW v \in Vals, prevotes[d][v] # Nil
  PROVE  /\ prevotes[d][v].submitBlock \in Nat
         /\ prevotes[d][v].hash \in Hashes
  BY DEF TypeOK, Prevotes

LEMMA PrevoteKeepsCommits ==
  ASSUME TypeOK, CommitInv, NEW f, NEW v \in Vals, NEW d \in Denoms, NEW hash,
         handleMsgPricePrevote(f, v, d, hash)
  PROVE  CommitInv'
<1> DEFINE c == [denom |-> d, voter |-> v, hash |-> hash, block |-> height]
<1>1. /\ prevotes' = [prevotes EXCEPT ![d][v] = [hash |-> hash, submitBlock |-> height]]
      /\ commits' = CommitsBefore(d, v) \cup {c}
      /\ height' = height /\ votes' = votes /\ prices' = prices
      /\ stake' = stake /\ CurrentPeriod' = CurrentPeriod
  BY DEF handleMsgPricePrevote, stakingVars, CurrentPeriod
<1>2. \A e \in Denoms, w \in Vals :
        prevotes'[e][w] = IF e = d /\ w = v THEN [hash |-> hash, submitBlock |-> height]
                          ELSE prevotes[e][w]
  BY <1>1 DEF TypeOK
<1>3. TotalBondedTokens' >= MinBonded
  BY <1>1 DEF CommitInv, TotalBondedTokens, Power
<1>4. PrevotesWereCommitted'
  BY <1>1, <1>2 DEF CommitInv, PrevotesWereCommitted, CommitsBefore
<1>5. PrevotesBounded'
  <2>1. height + 1 >= (CurrentPeriod - 1) * VotePeriod
    BY CurrentPeriodBounds, OracleAssumption DEF TypeOK
  <2> QED  BY <1>1, <1>2, <2>1 DEF CommitInv, PrevotesBounded
<1>6. ASSUME NEW old \in commits, Period(old.block, VotePeriod) # CurrentPeriod
      PROVE  old \in commits'
  BY <1>1, <1>6 DEF CommitsBefore
<1>7. VotesWereCommitted'
  BY <1>1, <1>6, CurrentPeriodBounds DEF CommitInv, VotesWereCommitted
<1>8. PricesAreFresh'
  BY <1>1, <1>6, CurrentPeriodBounds DEF CommitInv, PricesAreFresh
<1> QED  BY <1>3, <1>4, <1>5, <1>7, <1>8 DEF CommitInv

LEMMA VoteKeepsCommits ==
  ASSUME TypeOK, CommitInv, NEW f, NEW v \in Vals, NEW d \in Denoms, NEW price \in Prices,
         handleMsgPriceVote(f, v, d, price)
  PROVE  CommitInv'
<1>1. /\ prevotes' = [prevotes EXCEPT ![d][v] = Nil]
      /\ votes' = [votes EXCEPT ![d][v] = price]
      /\ height' = height /\ commits' = commits /\ prices' = prices
      /\ stake' = stake /\ CurrentPeriod' = CurrentPeriod
  BY DEF handleMsgPriceVote, stakingVars, CurrentPeriod
<1>2. \A e \in Denoms, w \in Vals :
        /\ prevotes'[e][w] = IF e = d /\ w = v THEN Nil ELSE prevotes[e][w]
        /\ votes'[e][w] = IF e = d /\ w = v THEN price ELSE votes[e][w]
  BY <1>1 DEF TypeOK
<1>3. TotalBondedTokens' >= MinBonded /\ PricesAreFresh'
  BY <1>1 DEF CommitInv, TotalBondedTokens, Power, PricesAreFresh
<1>4. PrevotesWereCommitted' /\ PrevotesBounded'
  BY <1>1, <1>2 DEF CommitInv, PrevotesWereCommitted, PrevotesBounded
<1>5. VotesWereCommitted'
  <2> DEFINE c == [denom |-> d, voter |-> v, hash |-> prevotes[d][v].hash,
                   block |-> prevotes[d][v].submitBlock]
  <2>1. c \in commits /\ c.denom = d /\ c.voter = v /\ c.hash = VoteHash(price, d, v)
    BY DEF CommitInv, PrevotesWereCommitted, handleMsgPriceVote
  <2>2. Period(c.block, VotePeriod) = CurrentPeriod - 1
    <3>1. Period(c.block, VotePeriod) \in Nat
      BY PrevoteType, PeriodBounds, OracleAssumption DEF handleMsgPriceVote
    <3> QED  BY <3>1, CurrentPeriodBounds DEF handleMsgPriceVote, InRevealPeriod
  <2> HIDE DEF c
  <2> QED  BY <1>1, <1>2, <2>1, <2>2 DEF CommitInv, VotesWereCommitted
<1> QED  BY <1>3, <1>4, <1>5 DEF CommitInv

LEMMA EndBlockerKeepsCommits ==
  ASSUME TypeOK, CommitInv, EndBlocker
  PROVE  CommitInv'
<1>0. VotePeriod \in Nat \ {0} /\ height \in Nat
  BY OracleAssumption DEF TypeOK
<1>1. /\ height' = height + 1 /\ stake' = stake
      /\ CurrentPeriod' = Period(height + 1, VotePeriod)
      /\ commits' = {c \in commits : Period(c.block, VotePeriod) >= CurrentPeriod' - 2}
  BY DEF EndBlocker, stakingVars, CurrentPeriod, RecentCommits
<1>2. TotalBondedTokens' >= MinBonded
  BY <1>1 DEF CommitInv, TotalBondedTokens, Power
<1>3. CurrentPeriod' \in Nat
  BY <1>0, <1>1, PeriodBounds
<1>4. ASSUME NEW d \in Denoms, NEW v \in Vals, prevotes'[d][v] # Nil
      PROVE  prevotes'[d][v] = prevotes[d][v]
  BY <1>4 DEF EndBlocker, TallyVotes, ClearPrevotes
<1>5. PrevotesBounded'
  <2> SUFFICES ASSUME NEW d \in Denoms, NEW v \in Vals, prevotes'[d][v] # Nil
               PROVE  prevotes'[d][v].submitBlock + 1 >= (CurrentPeriod' - 1) * VotePeriod
    BY DEF PrevotesBounded
  <2>1. PICK b \in Nat : b = prevotes[d][v].submitBlock
    BY <1>4, PrevoteType
  <2>2. CASE ~IsPeriodLastBlock(height, VotePeriod)
    <3>1. CurrentPeriod' = CurrentPeriod
      BY <1>0, <1>1, <2>2, PeriodGoesOn DEF CurrentPeriod
    <3> QED  BY <1>4, <3>1 DEF CommitInv, PrevotesBounded
  <2>3. CASE IsPeriodLastBlock(height, VotePeriod)
    <3>1. height + 1 = CurrentPeriod' * VotePeriod
      BY <1>0, <1>1, <2>3, PeriodEnds
    <3>2. height <= b + VotePeriod
      BY <1>0, <2>1, <2>3 DEF EndBlocker, TallyVotes, ClearPrevotes, PrevoteExpired
    <3>3. (CurrentPeriod' - 1) * VotePeriod = CurrentPeriod' * VotePeriod - VotePeriod
      BY <1>0, <1>3
    <3> QED  BY <1>0, <1>4, <2>1, <3>1, <3>2, <3>3
  <2> QED  BY <2>2, <2>3
<1>6. PrevotesWereCommitted'
  <2> SUFFICES ASSUME NEW d \in Denoms, NEW v \in Vals, prevotes'[d][v] # Nil
               PROVE  [denom |-> d, voter |-> v, hash |-> prevotes'[d][v].hash,
                       block |-> prevotes'[d][v].submitBlock] \in commits'
    BY DEF PrevotesWereCommitted
  <2>1. prevotes[d][v] # Nil /\ prevotes'[d][v] = prevotes[d][v]
    BY <1>4
  <2>2. prevotes[d][v].submitBlock \in Nat
    BY <2>1, PrevoteType
  <2>3. Period(prevotes[d][v].submitBlock, VotePeriod) >= CurrentPeriod' - 2
    BY <1>3, <1>5, <2>1, <2>2, BoundedIsRecent DEF PrevotesBounded
  <2> QED  BY <1>1, <2>1, <2>3 DEF CommitInv, PrevotesWereCommitted
<1>7. CASE ~IsPeriodLastBlock(height, VotePeriod)
  <2>1. CurrentPeriod' = CurrentPeriod
    BY <1>0, <1>1, <1>7, PeriodGoesOn DEF CurrentPeriod
  <2>2. votes' = votes /\ prices' = prices
    BY <1>7 DEF EndBlocker
  <2>3. VotesWereCommitted'
    BY <1>1, <1>3, <2>1, <2>2 DEF CommitInv, VotesWereCommitted
  <2>4. PricesAreFresh'
    BY <1>1, <1>3, <2>1, <2>2 DEF CommitInv, PricesAreFresh
  <2> QED  BY <1>2, <1>5, <1>6, <2>3, <2>4 DEF CommitInv
<1>8. CASE IsPeriodLastBlock(height, VotePeriod)
  <2>1. CurrentPeriod' = CurrentPeriod + 1 /\ CurrentPeriod \in Nat
    BY <1>0, <1>1, <1>8, PeriodEnds, CurrentPeriodBounds DEF CurrentPeriod
  <2>2. votes' = NoVotes /\ prices' = UpdatedPrices
    BY <1>8 DEF EndBlocker, TallyVotes
  <2>3. VotesWereCommitted'
    BY <2>2 DEF VotesWereCommitted, NoVotes
  <2>4. ASSUME NEW d \in Denoms, prices'[d] # Nil
        PROVE  \E c \in commits' :
                 /\ c.denom = d
                 /\ c.hash = VoteHash(prices'[d], d, c.voter)
                 /\ Period(c.block, VotePeriod) = CurrentPeriod' - 2
    <3>1. d \in PassingDenoms /\ prices'[d] = weightedMedian(d)
      BY <2>2, <2>4 DEF UpdatedPrices
    <3>2. PICK v \in Ballot(d) : votes[d][v] = prices'[d]
      BY <3>1, MedianIsVote DEF CommitInv, Candidates
    <3>3. v \in Vals /\ votes[d][v] # Nil
      BY DEF Ballot
    <3>4. PICK c \in commits : /\ c.denom = d /\ c.voter = v
                               /\ c.hash = VoteHash(votes[d][v], d, v)
                               /\ Period(c.block, VotePeriod) = CurrentPeriod - 1
      BY <3>3 DEF CommitInv, VotesWereCommitted
    <3> QED  BY <1>1, <2>1, <3>2, <3>4
  <2>5. PricesAreFresh'
    BY <2>4 DEF PricesAreFresh
  <2> QED  BY <1>2, <1>5, <1>6, <2>3, <2>5 DEF CommitInv
<1> QED  BY <1>7, <1>8

LEMMA NextKeepsCommits ==
  ASSUME TypeOK, CommitInv, [Next]_vars
  PROVE  CommitInv'
<1>1. CASE UNCHANGED <<height, prevotes, votes, prices, commits, stake>>
  BY <1>1 DEF CommitInv, TotalBondedTokens, Power, PrevotesWereCommitted, PrevotesBounded,
              VotesWereCommitted, PricesAreFresh, CurrentPeriod
<1>2. CASE StakingStep
  <2>1. TotalBondedTokens' >= MinBonded
    BY <1>2, StakingKeepsBonded DEF StakingStep, CommitInv
  <2> QED  BY <1>2, <2>1
       DEF StakingStep, storeVars, CommitInv, PrevotesWereCommitted, PrevotesBounded,
           VotesWereCommitted, PricesAreFresh, CurrentPeriod
<1>3. CASE Restart
  <2>1. TotalBondedTokens' >= MinBonded
    BY <1>3 DEF Restart, stakingVars, CommitInv, TotalBondedTokens, Power
  <2> QED  BY <1>3, <2>1
       DEF Restart, CommitInv, PrevotesWereCommitted, PrevotesBounded, VotesWereCommitted,
           PricesAreFresh, NoPrevotes, NoVotes, NoPrices
<1>4. ASSUME NEW v \in Vals, NEW d \in Denoms, NEW f \in Accounts,
             NEW hash \in HashInputs(d, v), handleMsgPricePrevote(f, v, d, hash)
      PROVE  CommitInv'
  BY <1>4, PrevoteKeepsCommits
<1>5. ASSUME NEW v \in Vals, NEW d \in Denoms, NEW f \in Accounts,
             NEW p \in Prices, handleMsgPriceVote(f, v, d, p)
      PROVE  CommitInv'
  BY <1>5, VoteKeepsCommits
<1>6. CASE EndBlocker
  BY <1>6, EndBlockerKeepsCommits
<1>7. ASSUME NEW v \in Vals, NEW f \in Feeders, handleMsgDelegateFeederPermission(v, f)
      PROVE  CommitInv'
  BY <1>1, <1>7 DEF handleMsgDelegateFeederPermission, stakingVars
<1>8. ASSUME NEW fee \in 1 .. MaxFees, AddSwapFeePool(fee)
      PROVE  CommitInv'
  BY <1>1, <1>8 DEF AddSwapFeePool, storeVars, stakingVars
<1>9. CASE UNCHANGED vars
  BY <1>1, <1>9 DEF vars, storeVars, stakingVars
<1> QED  BY <1>2, <1>3, <1>4, <1>5, <1>6, <1>7, <1>8, <1>9 DEF Next

LEMMA CommitInvariant == Spec => []CommitInv
<1>1. Init => CommitInv
  BY DEF Init, StakingInit, CommitInv, PrevotesWereCommitted, PrevotesBounded,
         VotesWereCommitted, PricesAreFresh, NoPrevotes, NoVotes, NoPrices
<1>2. TypeOK /\ CommitInv /\ [Next]_vars => CommitInv'
  BY NextKeepsCommits
<1> QED  BY <1>1, <1>2, OracleTypeCorrect, PTL DEF Spec

(* Every vote that a tally may count was committed to in the period before, *)
(* under any interleaving of prevotes, votes, blocks, staking changes and   *)
(* restarts, copied hashes included (handleMsgPriceVote, EndBlocker).       *)
THEOREM VotesAlwaysCommitted == Spec => []VotesWereCommitted
<1>1. CommitInv => VotesWereCommitted
  BY DEF CommitInv
<1> QED  BY <1>1, CommitInvariant, PTL

(* No prevote outlives the period after the one in which it could still be  *)
(* revealed: the store does not grow (EndBlocker, "Clear all prevotes").    *)
THEOREM PrevotesAlwaysBounded == Spec => []PrevotesBounded
<1>1. CommitInv => PrevotesBounded
  BY DEF CommitInv
<1> QED  BY <1>1, CommitInvariant, PTL

(* Every exchange rate that swaps can use was committed to by a validator   *)
(* exactly two periods before: no stale rate, and no rate of zero from a    *)
(* ballot whose voters are gone (EndBlocker, weightedMedian).               *)
THEOREM PricesAlwaysFresh == Spec => []PricesAreFresh
<1>1. CommitInv => PricesAreFresh
  BY DEF CommitInv
<1> QED  BY <1>1, CommitInvariant, PTL

-----------------------------------------------------------------------------
(* What a step may never do *)

LEMMA StepLosesNoPrevote ==
  ASSUME TypeOK, Next, NEW d \in Denoms, NEW v \in Vals,
         prevotes[d][v] # Nil, prevotes'[d][v] = Nil
  PROVE  \/ restarts' # restarts
         \/ VoteHash(votes'[d][v], d, v) = prevotes[d][v].hash
         \/ Period(height', VotePeriod) > Period(prevotes[d][v].submitBlock, VotePeriod) + 1
<1> DEFINE Kept == \/ restarts' # restarts
                   \/ VoteHash(votes'[d][v], d, v) = prevotes[d][v].hash
                   \/ Period(height', VotePeriod) > Period(prevotes[d][v].submitBlock, VotePeriod) + 1
<1>1. CASE UNCHANGED prevotes
  BY <1>1
<1>2. CASE Restart
  BY <1>2 DEF Restart, TypeOK
<1>3. ASSUME NEW w \in Vals, NEW e \in Denoms, NEW f \in Accounts,
             NEW hash \in HashInputs(e, w), handleMsgPricePrevote(f, w, e, hash)
      PROVE  Kept
  <2>1. [hash |-> hash, submitBlock |-> height] # Nil
    <3>1. [hash |-> hash, submitBlock |-> height] \in Prevotes
      BY DEF HashInputs, TypeOK, Prevotes
    <3> QED  BY <3>1, NilAssumption
  <2>2. e = d /\ w = v => prevotes'[d][v] = [hash |-> hash, submitBlock |-> height]
    BY <1>3 DEF handleMsgPricePrevote, TypeOK
  <2>3. ~(e = d /\ w = v) => prevotes'[d][v] = prevotes[d][v]
    BY <1>3 DEF handleMsgPricePrevote, TypeOK
  <2> QED  BY <2>1, <2>2, <2>3
<1>4. ASSUME NEW w \in Vals, NEW e \in Denoms, NEW f \in Accounts,
             NEW p \in Prices, handleMsgPriceVote(f, w, e, p)
      PROVE  Kept
  <2>1. e = d /\ w = v
    BY <1>4 DEF handleMsgPriceVote, TypeOK
  <2>2. votes'[d][v] = p /\ prevotes[d][v].hash = VoteHash(p, d, v)
    BY <1>4, <2>1 DEF handleMsgPriceVote, TypeOK
  <2> QED  BY <2>2
<1>5. CASE EndBlocker
  <2>1. IsPeriodLastBlock(height, VotePeriod) /\ height' = height + 1
    BY <1>5 DEF EndBlocker
  <2>2. PICK b \in Nat : b = prevotes[d][v].submitBlock
    BY PrevoteType
  <2>3. height > b + VotePeriod
    BY <1>5, <2>1, <2>2 DEF EndBlocker, TallyVotes, ClearPrevotes, PrevoteExpired
  <2>4. VotePeriod \in Nat \ {0} /\ height \in Nat
    BY OracleAssumption DEF TypeOK
  <2>5. PICK k \in Nat : k = Period(height + 1, VotePeriod) /\ height + 1 = k * VotePeriod
    <3>1. Period(height + 1, VotePeriod) \in Nat
      BY <2>4, PeriodBounds
    <3>2. height + 1 = Period(height + 1, VotePeriod) * VotePeriod
      BY <2>1, <2>4, PeriodEnds
    <3> QED  BY <3>1, <3>2
  <2>6. PICK p \in Nat : p = Period(b, VotePeriod) /\ p * VotePeriod <= b
    BY <2>4, PeriodBounds
  <2>7. (p + 1) * VotePeriod < k * VotePeriod
    <3>1. (p + 1) * VotePeriod = p * VotePeriod + VotePeriod
      BY <2>4
    <3> QED  BY <2>2, <2>3, <2>4, <2>5, <2>6, <3>1
  <2>8. p + 1 < k
    BY <2>4, <2>7
  <2> QED  BY <2>1, <2>2, <2>5, <2>6, <2>8
<1> QED  BY <1>1, <1>2, <1>3, <1>4, <1>5
     DEF Next, handleMsgDelegateFeederPermission, AddSwapFeePool, StakingStep, storeVars

(* A prevote that can still be revealed leaves the store only by being      *)
(* revealed, superseded or lost in a restart, in every behaviour            *)
(* (EndBlocker's clean-up against the reveal window of handleMsgPriceVote). *)
THEOREM NoPrevoteEverLost == Spec => NoPrevoteLost
<1>1. TypeOK /\ [Next]_vars =>
        [\A d \in Denoms, v \in Vals :
           prevotes[d][v] # Nil /\ prevotes'[d][v] = Nil =>
             \/ restarts' # restarts
             \/ VoteHash(votes'[d][v], d, v) = prevotes[d][v].hash
             \/ Period(height', VotePeriod) > Period(prevotes[d][v].submitBlock, VotePeriod) + 1]_vars
  BY StepLosesNoPrevote
<1> QED  BY <1>1, OracleTypeCorrect, PTL DEF Spec, NoPrevoteLost

LEMMA StepPaysWinners ==
  ASSUME TypeOK, CommitInv, Next, height' # height, IsPeriodLastBlock(height, VotePeriod),
         NEW v \in Vals, claims'[v] > 0
  PROVE  \E d \in Denoms :
           /\ votes[d][v] # Nil /\ prices'[d] # Nil
           /\ InBand(votes[d][v], prices'[d])
           /\ claims'[v] <= Cardinality(Denoms) * Power({v})
<1>1. CASE Restart
  BY <1>1 DEF Restart, NoClaims
<1>2. CASE EndBlocker
  <2> DEFINE won == {d \in PassingDenoms : v \in BallotWinners(d)}
  <2>1. claims'[v] = Cardinality(won) * Power({v}) /\ prices' = UpdatedPrices
    <3>1. claims' = AddClaims(ClearedClaims) /\ prices' = UpdatedPrices
      BY <1>2 DEF EndBlocker, TallyVotes
    <3> QED  BY <3>1, WeightsTyped DEF AddClaims, ClearedClaims, NoClaims
  <2>2. PICK k \in Nat, m \in Nat, n \in Nat :
          k = Cardinality(won) /\ m = Cardinality(Denoms) /\ n = Power({v}) /\ k <= m
    <3>1. /\ Cardinality(won) \in 0 .. Cardinality(Denoms)
          /\ Cardinality(Denoms) \in Nat /\ Power({v}) \in Nat
      BY WeightsTyped
    <3> HIDE DEF won
    <3> QED  BY <3>1
  <2>3. k # 0 /\ k * n <= m * n
    <3>1. k = 0 => k * n = 0
      OBVIOUS
    <3>2. k * n > 0
      <4> HIDE DEF won
      <4> QED  BY <2>1, <2>2
    <3> QED  BY <2>2, <3>1, <3>2
  <2>4. won # {}
    <3> HIDE DEF won
    <3> QED  BY <2>2, <2>3, FS_EmptySet
  <2>5. PICK d \in PassingDenoms : v \in BallotWinners(d)
    BY <2>4
  <2>6. d \in Denoms
    BY DEF PassingDenoms
  <2>7. votes[d][v] # Nil /\ InBand(votes[d][v], weightedMedian(d))
    BY <2>5 DEF BallotWinners, Ballot
  <2>8. prices'[d] = weightedMedian(d)
    BY <2>1, <2>5, <2>6 DEF UpdatedPrices
  <2>9. weightedMedian(d) # Nil
    BY <2>5, <2>6, MedianIsVote, OracleAssumption DEF CommitInv, Candidates, Ballot
  <2> HIDE DEF won
  <2>10. claims'[v] <= Cardinality(Denoms) * Power({v})
    BY <2>1, <2>2, <2>3
  <2> QED  BY <2>6, <2>7, <2>8, <2>9, <2>10
<1>3. ASSUME NEW w \in Vals, NEW e \in Denoms, NEW f \in Accounts,
             \/ \E hash \in HashInputs(e, w) : handleMsgPricePrevote(f, w, e, hash)
             \/ \E p \in Prices : handleMsgPriceVote(f, w, e, p)
      PROVE  height' = height
  BY <1>3 DEF handleMsgPricePrevote, handleMsgPriceVote
<1>4. ASSUME \/ \E w \in Vals, f \in Feeders : handleMsgDelegateFeederPermission(w, f)
             \/ \E fee \in 1 .. MaxFees : AddSwapFeePool(fee)
             \/ StakingStep
      PROVE  height' = height
  BY <1>4 DEF handleMsgDelegateFeederPermission, AddSwapFeePool, StakingStep
<1> QED  BY <1>1, <1>2, <1>3, <1>4 DEF Next

(* Whoever holds a claim after a tally voted in it, inside the band of a    *)
(* rate it set, and holds at most one bond size per ballot: claims of       *)
(* earlier ballots never survive (rewardPrevBallotWinners, tally).          *)
THEOREM OnlyWinnersClaim == Spec => ClaimsAreWinners
<1>1. TypeOK /\ CommitInv /\ [Next]_vars =>
        [height' # height /\ IsPeriodLastBlock(height, VotePeriod) =>
           \A v \in Vals : claims'[v] > 0 =>
             \E d \in Denoms :
               /\ votes[d][v] # Nil /\ prices'[d] # Nil
               /\ InBand(votes[d][v], prices'[d])
               /\ claims'[v] <= Cardinality(Denoms) * Power({v})]_vars
  BY StepPaysWinners
<1> QED  BY <1>1, OracleTypeCorrect, CommitInvariant, PTL DEF Spec, ClaimsAreWinners

-----------------------------------------------------------------------------
(* Ballots tallied one by one, in any order, implement the atomic tally.    *)

(* The distribution of the fees, seen from the tally it came before. *)
SavedClaimSum == SumFunction(saved.claims)

SavedRewardAmt(v) ==
  (((saved.feePool * DecOne) \div SavedClaimSum) * saved.claims[v]) \div DecOne

FeesDistributed ==
  IF SavedClaimSum = 0 \/ saved.feePool = 0
  THEN /\ feePool = saved.feePool /\ rewards = saved.rewards
       /\ collector = saved.collector /\ issued = saved.issued
  ELSE LET paid == [v \in Vals |-> IF v \in validators THEN SavedRewardAmt(v) ELSE 0]
       IN  /\ rewards = [v \in Vals |-> saved.rewards[v] + paid[v]]
           /\ collector = saved.collector + (saved.feePool - SumFunction(paid))
           /\ issued = saved.issued + saved.feePool
           /\ feePool = 0

Won(v) == {d \in PassingDenoms \ todo : v \in BallotWinners(d)}

(* Prices and claims are those of the ballots already tallied: none of them *)
(* depends on what the tally has written so far.                            *)
TallyInv ==
  Tallying =>
    /\ height < MaxHeight /\ IsPeriodLastBlock(height, VotePeriod)
    /\ todo \in SUBSET {d \in Denoms : Ballot(d) # {}}
    /\ prices = [d \in Denoms |-> IF d \in PassingDenoms \ todo THEN weightedMedian(d) ELSE Nil]
    /\ claims = [v \in Vals |-> Cardinality(Won(v)) * Power({v})]
    /\ FeesDistributed

(* The tally reads votes and staking only, which no turn of it changes. *)
LEMMA TallyReads ==
  ASSUME UNCHANGED <<votes, stakingVars>>
  PROVE  /\ \A d : Ballot(d)' = Ballot(d)
         /\ \A S : Power(S)' = Power(S)
         /\ PassingDenoms' = PassingDenoms
         /\ \A d : weightedMedian(d)' = weightedMedian(d)
         /\ \A d : BallotWinners(d)' = BallotWinners(d)
<1>0. votes' = votes /\ validators' = validators /\ stake' = stake
  BY DEF stakingVars
<1>1. \A d : Ballot(d)' = Ballot(d)
  BY <1>0 DEF Ballot
<1>2. \A S : Power(S)' = Power(S)
  BY <1>0 DEF Power
<1>3. PassingDenoms' = PassingDenoms
  BY <1>0 DEF PassingDenoms, Ballot, ballotIsPassing, TotalBondedTokens, Power
<1>4. \A d : weightedMedian(d)' = weightedMedian(d)
  BY <1>0 DEF weightedMedian, Candidates, PivotReached, Ballot, Power
<1>5. \A d : BallotWinners(d)' = BallotWinners(d)
  BY <1>0 DEF BallotWinners, InBand, weightedMedian, Candidates, PivotReached, Ballot, Power
<1> QED  BY <1>1, <1>2, <1>3, <1>4, <1>5

LEMMA BeginTallyInv ==
  ASSUME BeginTally
  PROVE  TallyInv'
<1>1. /\ \A d : Ballot(d)' = Ballot(d)
      /\ \A S : Power(S)' = Power(S)
      /\ PassingDenoms' = PassingDenoms
  BY TallyReads DEF BeginTally
<1>2. height' < MaxHeight /\ IsPeriodLastBlock(height', VotePeriod)
  BY DEF BeginTally
<1>3. todo' = {d \in Denoms : Ballot(d) # {}} /\ PassingDenoms \ todo' = {}
  BY DEF BeginTally, PassingDenoms
<1>4. prices' = [d \in Denoms |-> IF d \in (PassingDenoms \ todo)' THEN weightedMedian(d)' ELSE Nil]
  BY <1>1, <1>3 DEF BeginTally, NoPrices
<1>5. claims' = [v \in Vals |-> Cardinality(Won(v)') * Power({v})']
  <2>1. \A v : Won(v)' = {}
    BY <1>1, <1>3 DEF Won
  <2>2. \A v : Cardinality(Won(v)') * Power({v})' = 0
    BY <1>1, <2>1, PowerIsNat, FS_EmptySet
  <2> QED  BY <2>2 DEF BeginTally, ClearedClaims, NoClaims
<1>6. FeesDistributed'
  <2>1. /\ saved'.claims = claims /\ saved'.feePool = feePool /\ saved'.rewards = rewards
        /\ saved'.collector = collector /\ saved'.issued = issued /\ validators' = validators
    BY DEF BeginTally, Snapshot, stakingVars
  <2>2. SavedClaimSum' = ClaimSum
    BY <2>1 DEF SavedClaimSum, ClaimSum
  <2>3. \A v : SavedRewardAmt(v)' = RewardAmt(v)
    BY <2>1, <2>2 DEF SavedRewardAmt, RewardAmt
  <2> QED  BY <2>1, <2>2, <2>3 DEF FeesDistributed, BeginTally, rewardPrevBallotWinners, feeVars
<1> QED  BY <1>1, <1>2, <1>3, <1>4, <1>5, <1>6 DEF TallyInv

LEMMA TallyDenomInv ==
  ASSUME TallyInv, NEW d \in Denoms, TallyDenom(d)
  PROVE  TallyInv'
<1>0. /\ Tallying /\ d \in todo /\ todo' = todo \ {d}
      /\ todo \in SUBSET {e \in Denoms : Ballot(e) # {}}
      /\ prices = [e \in Denoms |-> IF e \in PassingDenoms \ todo THEN weightedMedian(e) ELSE Nil]
      /\ claims = [v \in Vals |-> Cardinality(Won(v)) * Power({v})]
  BY DEF TallyInv, TallyDenom
<1>1. /\ \A e : Ballot(e)' = Ballot(e)
      /\ \A S : Power(S)' = Power(S)
      /\ PassingDenoms' = PassingDenoms
      /\ \A e : weightedMedian(e)' = weightedMedian(e)
      /\ \A e : BallotWinners(e)' = BallotWinners(e)
  BY TallyReads DEF TallyDenom
<1>2. height' < MaxHeight /\ IsPeriodLastBlock(height', VotePeriod)
  BY <1>0 DEF TallyInv, TallyDenom
<1>3. FeesDistributed'
  BY <1>0 DEF TallyInv, TallyDenom, FeesDistributed, SavedClaimSum, SavedRewardAmt, feeVars, stakingVars
<1>4. ballotIsPassing(Power(Ballot(d))) <=> d \in PassingDenoms
  BY <1>0 DEF PassingDenoms
<1>5. prices' = [e \in Denoms |-> IF e \in (PassingDenoms \ todo)' THEN weightedMedian(e)' ELSE Nil]
  BY <1>0, <1>1, <1>4 DEF TallyDenom
<1>6. claims' = [v \in Vals |-> Cardinality(Won(v)') * Power({v})']
  <2>1. CASE d \notin PassingDenoms
    <3>1. \A v : Won(v)' = Won(v)
      BY <1>0, <1>1, <2>1 DEF Won
    <3> QED  BY <1>0, <1>1, <1>4, <2>1, <3>1 DEF TallyDenom
  <2>2. CASE d \in PassingDenoms
    <3>1. ASSUME NEW v \in Vals
          PROVE  AddWinners(d)[v] = Cardinality(Won(v)') * Power({v})
      <4>1. claims[v] = Cardinality(Won(v)) * Power({v})
        BY <1>0
      <4>2. IsFiniteSet(Won(v)) /\ d \notin Won(v)
        <5>1. Won(v) \in SUBSET Denoms /\ d \notin Won(v)
          BY <1>0 DEF Won, PassingDenoms
        <5> QED  BY <5>1, FS_Subset, OracleAssumption
      <4>3. PICK k \in Nat, n \in Nat : k = Cardinality(Won(v)) /\ n = Power({v})
        BY <4>2, FS_CardinalityType, PowerIsNat
      <4>4. CASE v \in BallotWinners(d)
        <5>1. Won(v)' = Won(v) \cup {d}
          BY <1>0, <1>1, <2>2, <4>4 DEF Won
        <5>2. Cardinality(Won(v)') = k + 1
          BY <4>2, <4>3, <5>1, FS_AddElement
        <5>3. (k + 1) * n = k * n + n
          OBVIOUS
        <5> QED  BY <4>1, <4>3, <4>4, <5>2, <5>3 DEF AddWinners
      <4>5. CASE v \notin BallotWinners(d)
        <5>1. Won(v)' = Won(v)
          BY <1>0, <1>1, <2>2, <4>5 DEF Won
        <5> QED  BY <4>1, <4>5, <5>1 DEF AddWinners
      <4> QED  BY <4>4, <4>5
    <3>2. claims' = AddWinners(d)
      BY <1>4, <2>2 DEF TallyDenom
    <3>3. AddWinners(d) = [v \in Vals |-> AddWinners(d)[v]]
      BY DEF AddWinners
    <3> QED  BY <1>1, <3>1, <3>2, <3>3
  <2> QED  BY <2>1, <2>2
<1>7. todo' \in SUBSET {e \in Denoms : Ballot(e)' # {}}
  BY <1>0, <1>1
<1> QED  BY <1>2, <1>3, <1>5, <1>6, <1>7 DEF TallyInv

LEMMA TallyInvariant == StepsSpec => []TallyInv
<1>1. StepsInit => TallyInv
  BY DEF StepsInit, TallyInv, Tallying
<1>2. TallyInv /\ [StepsNext]_stepVars => TallyInv'
  <2> SUFFICES ASSUME TallyInv, [StepsNext]_stepVars PROVE TallyInv'
    OBVIOUS
  <2>1. ASSUME AtomicStep \/ EndTally PROVE TallyInv'
    BY <2>1 DEF AtomicStep, EndTally, TallyInv, Tallying
  <2>2. CASE UNCHANGED stepVars
    <3>0. /\ UNCHANGED <<votes, stakingVars>>
          /\ UNCHANGED <<height, prices, claims, feePool, rewards, collector, issued, todo, saved>>
      BY <2>2 DEF stepVars, vars, storeVars, feeVars
    <3>1. /\ \A d : Ballot(d)' = Ballot(d)
          /\ \A S : Power(S)' = Power(S)
          /\ PassingDenoms' = PassingDenoms
          /\ \A d : weightedMedian(d)' = weightedMedian(d)
          /\ \A v : Won(v)' = Won(v)
      BY <3>0, TallyReads DEF Won
    <3>2. FeesDistributed' = FeesDistributed
      BY <3>0 DEF FeesDistributed, SavedClaimSum, SavedRewardAmt, stakingVars
    <3> QED  BY <3>0, <3>1, <3>2 DEF TallyInv, Tallying
  <2> QED  BY <2>1, <2>2, BeginTallyInv, TallyDenomInv DEF StepsNext
<1> QED  BY <1>1, <1>2, PTL DEF StepsSpec

(* The operators of the atomic specification that the tally leaves alone. *)
LEMMA SameOperators ==
  /\ \A S : Atomic!Cardinality(S) = Cardinality(S)
  /\ \A S : Atomic!Power(S) = Power(S)
  /\ \A f : Atomic!SumFunction(f) = SumFunction(f)
  /\ \A h, p : Atomic!Period(h, p) = Period(h, p)
<1>1. \A S : Atomic!Cardinality(S) = Cardinality(S)
  BY Zenon DEF Atomic!Cardinality, Cardinality
<1>2. \A S : Atomic!Power(S) = Power(S)
  BY <1>1 DEF Atomic!Power, Power
<1>3. \A f : Atomic!SumFunction(f) = SumFunction(f)
  BY Zenon DEF SumFunction, SumFunctionOnSet, FoldFunctionOnSet, MapThenFoldSet,
       Atomic!SumFunction, Atomic!SumFunctionOnSet, Atomic!FoldFunctionOnSet, Atomic!MapThenFoldSet
<1>4. \A h, p : Atomic!Period(h, p) = Period(h, p)
  BY DEF Atomic!Period, Period
<1> QED  BY <1>1, <1>2, <1>3, <1>4

LEMMA AtomicInit ==
  ASSUME StepsInit
  PROVE  Atomic!Init
<1>1. Atomic!StakingInit
  BY SameOperators DEF StepsInit, Init, StakingInit, TotalBondedTokens,
     Atomic!StakingInit, Atomic!TotalBondedTokens
<1> QED  BY <1>1
     DEF StepsInit, Tallying, Init, NoPrevotes, NoVotes, NoPrices, SelfFed, NoClaims,
         Atomic!Init, Atomic!NoPrevotes, Atomic!NoVotes, Atomic!NoPrices, Atomic!SelfFed, Atomic!NoClaims

(* Outside a tally a step is the same step of Oracle. *)
LEMMA MessagesMap ==
  ASSUME ~Tallying, UNCHANGED todo,
         NEW v \in Vals, NEW d \in Denoms, NEW f \in Accounts
  PROVE  /\ \A hash \in HashInputs(d, v) :
              handleMsgPricePrevote(f, v, d, hash) => Atomic!handleMsgPricePrevote(f, v, d, hash)
         /\ \A p \in Prices : handleMsgPriceVote(f, v, d, p) => Atomic!handleMsgPriceVote(f, v, d, p)
<1>1. ASSUME NEW hash \in HashInputs(d, v), handleMsgPricePrevote(f, v, d, hash)
      PROVE  Atomic!handleMsgPricePrevote(f, v, d, hash)
  BY <1>1, SameOperators DEF Tallying, handleMsgPricePrevote, MayFeed, CommitsBefore, CurrentPeriod, feeVars, stakingVars,
              Atomic!handleMsgPricePrevote, Atomic!MayFeed, Atomic!CommitsBefore,
              Atomic!CurrentPeriod, Atomic!feeVars, Atomic!stakingVars
<1>2. ASSUME NEW p \in Prices, handleMsgPriceVote(f, v, d, p)
      PROVE  Atomic!handleMsgPriceVote(f, v, d, p)
  BY <1>2, SameOperators DEF Tallying, handleMsgPriceVote, MayFeed, InRevealPeriod, CurrentPeriod, VoteHash, feeVars, stakingVars,
              Atomic!handleMsgPriceVote, Atomic!MayFeed, Atomic!InRevealPeriod, Atomic!VoteHash,
              Atomic!CurrentPeriod, Atomic!feeVars, Atomic!stakingVars
<1> QED  BY <1>1, <1>2

LEMMA AtomicStepMaps ==
  ASSUME AtomicStep
  PROVE  Atomic!Next
<1>0. ~Tallying /\ UNCHANGED todo /\ Next
  BY DEF AtomicStep
<1>1. ASSUME NEW v \in Vals, NEW d \in Denoms, NEW f \in Accounts,
             \/ \E hash \in HashInputs(d, v) : handleMsgPricePrevote(f, v, d, hash)
             \/ \E p \in Prices : handleMsgPriceVote(f, v, d, p)
      PROVE  Atomic!Next
  <2>1. f \in Atomic!Accounts /\ HashInputs(d, v) = Atomic!HashInputs(d, v)
    BY DEF Accounts, HashInputs, Hashes, Atomic!Accounts, Atomic!HashInputs, Atomic!Hashes
  <2> QED  BY <1>0, <1>1, <2>1, MessagesMap DEF Atomic!Next
<1>2. ASSUME NEW v \in Vals, NEW f \in Feeders, handleMsgDelegateFeederPermission(v, f)
      PROVE  Atomic!Next
  <2>1. Atomic!handleMsgDelegateFeederPermission(v, f)
    BY <1>0, <1>2 DEF Tallying, handleMsgDelegateFeederPermission, feeVars, stakingVars,
       Atomic!handleMsgDelegateFeederPermission, Atomic!feeVars, Atomic!stakingVars
  <2> QED  BY <2>1 DEF Atomic!Next
<1>3. ASSUME NEW fee \in 1 .. MaxFees, AddSwapFeePool(fee)
      PROVE  Atomic!Next
  <2>1. Atomic!AddSwapFeePool(fee)
    BY <1>0, <1>3 DEF Tallying, AddSwapFeePool, storeVars, stakingVars,
       Atomic!AddSwapFeePool, Atomic!storeVars, Atomic!stakingVars
  <2> QED  BY <2>1 DEF Atomic!Next
<1>4. CASE EndBlocker
  <2>1. ~IsPeriodLastBlock(height, VotePeriod)
    BY <1>4 DEF AtomicStep
  <2>2. Atomic!EndBlocker
    BY <1>0, <1>4, <2>1 DEF Tallying, EndBlocker, RecentCommits, IsPeriodLastBlock, Period, feeVars, stakingVars,
       Atomic!EndBlocker, Atomic!RecentCommits, Atomic!IsPeriodLastBlock, Atomic!Period,
       Atomic!feeVars, Atomic!stakingVars
  <2> QED  BY <2>2 DEF Atomic!Next
<1>5. CASE StakingStep
  <2>1. Atomic!StakingNext
    BY <1>5, SameOperators DEF StakingStep, StakingNext, Rebond, CreateValidator, RemoveValidator,
       Atomic!StakingNext, Atomic!Rebond, Atomic!CreateValidator, Atomic!RemoveValidator
  <2>2. Atomic!StakingStep
    BY <1>0, <1>5, <2>1 DEF Tallying, StakingStep, storeVars, feeVars,
       Atomic!StakingStep, Atomic!storeVars, Atomic!feeVars
  <2> QED  BY <2>2 DEF Atomic!Next
<1>6. CASE Restart
  <2>1. Atomic!Restart
    BY <1>0, <1>6 DEF Tallying, Restart, NoPrevotes, NoVotes, NoPrices, SelfFed, NoClaims, stakingVars,
       Atomic!Restart, Atomic!NoPrevotes, Atomic!NoVotes, Atomic!NoPrices, Atomic!SelfFed,
       Atomic!NoClaims, Atomic!stakingVars
  <2> QED  BY <2>1 DEF Atomic!Next
<1> QED  BY <1>0, <1>1, <1>2, <1>3, <1>4, <1>5, <1>6 DEF Next

(* Until the tally is over, nothing is seen of it. *)
LEMMA TallyIsHidden ==
  ASSUME TallyInv, BeginTally \/ \E d \in Denoms : TallyDenom(d)
  PROVE  UNCHANGED Atomic!vars
<1>1. CASE BeginTally
  <2>1. ~Tallying /\ Tallying'
    BY <1>1, StepsAssumption DEF BeginTally, Tallying
  <2>2. /\ saved'.prices = prices /\ saved'.claims = claims /\ saved'.feePool = feePool
        /\ saved'.rewards = rewards /\ saved'.collector = collector /\ saved'.issued = issued
    BY <1>1 DEF BeginTally, Snapshot
  <2>3. collected' = collected
    BY <1>1 DEF BeginTally, rewardPrevBallotWinners, feeVars
  <2> QED  BY <1>1, <2>1, <2>2, <2>3
       DEF BeginTally, stakingVars, Atomic!vars, Atomic!storeVars, Atomic!feeVars, Atomic!stakingVars
<1>2. ASSUME NEW d \in Denoms, TallyDenom(d)
      PROVE  UNCHANGED Atomic!vars
  <2>1. Tallying /\ Tallying'
    BY <1>2, StepsAssumption DEF TallyInv, TallyDenom, Tallying
  <2> QED  BY <1>2, <2>1
       DEF TallyDenom, feeVars, stakingVars, Atomic!vars, Atomic!storeVars, Atomic!feeVars, Atomic!stakingVars
<1> QED  BY <1>1, <1>2

(* Its end is the whole tally. *)
LEMMA EndTallyMaps ==
  ASSUME TallyInv, EndTally
  PROVE  Atomic!EndBlocker
<1>0. /\ Tallying /\ ~Tallying' /\ todo = {}
      /\ height < MaxHeight /\ IsPeriodLastBlock(height, VotePeriod) /\ FeesDistributed
      /\ prices = [d \in Denoms |-> IF d \in PassingDenoms \ todo THEN weightedMedian(d) ELSE Nil]
      /\ claims = [v \in Vals |-> Cardinality(Won(v)) * Power({v})]
  BY StepsAssumption DEF EndTally, TallyInv, Tallying
<1>1. /\ \A d : Ballot(d) = Atomic!Ballot(d)
      /\ PassingDenoms = Atomic!PassingDenoms
      /\ \A d : weightedMedian(d) = Atomic!weightedMedian(d)
      /\ \A d : BallotWinners(d) = Atomic!BallotWinners(d)
      /\ \A S : Power(S) = Atomic!Power(S)
  <2>1. \A d : Ballot(d) = Atomic!Ballot(d)
    BY DEF Ballot, Atomic!Ballot
  <2>2. \A S : Power(S) = Atomic!Power(S)
    BY SameOperators
  <2>3. PassingDenoms = Atomic!PassingDenoms
    <3>1. \A n : Atomic!ballotIsPassing(n) <=> ballotIsPassing(n)
      BY <2>2 DEF ballotIsPassing, TotalBondedTokens, RoundInt,
         Atomic!ballotIsPassing, Atomic!TotalBondedTokens, Atomic!RoundInt
    <3> QED  BY <2>1, <2>2, <3>1 DEF PassingDenoms, Atomic!PassingDenoms
  <2>4. \A d : weightedMedian(d) = Atomic!weightedMedian(d)
    <3> SUFFICES ASSUME NEW d PROVE weightedMedian(d) = Atomic!weightedMedian(d)
      OBVIOUS
    <3>1. Atomic!Candidates(d) = Candidates(d) /\ \A p : Atomic!PivotReached(d, p) <=> PivotReached(d, p)
      BY <2>2 DEF Candidates, PivotReached, Ballot, Atomic!Candidates, Atomic!PivotReached, Atomic!Ballot
    <3>2. {p \in Atomic!Candidates(d) : Atomic!PivotReached(d, p)} = {p \in Candidates(d) : PivotReached(d, p)}
      BY <3>1
    <3> DEFINE R == {p \in Candidates(d) : PivotReached(d, p)}
               A == {p \in Atomic!Candidates(d) : Atomic!PivotReached(d, p)}
               Least(T) == IF T = {} THEN 0 ELSE CHOOSE p \in T : \A q \in T : p <= q
    <3>3. weightedMedian(d) = Least(R)
      BY Zenon DEF weightedMedian
    <3>4. Atomic!weightedMedian(d) = Least(A)
      BY Zenon DEF Atomic!weightedMedian
    <3>5. A = R
      BY <3>2
    <3> HIDE DEF R, A, Least
    <3> QED  BY <3>3, <3>4, <3>5
  <2>5. \A d : BallotWinners(d) = Atomic!BallotWinners(d)
    BY <2>1, <2>4 DEF BallotWinners, InBand, Atomic!BallotWinners, Atomic!InBand
  <2> QED  BY <2>1, <2>2, <2>3, <2>4, <2>5
<1>2. prices = Atomic!UpdatedPrices
  BY <1>0, <1>1 DEF Atomic!UpdatedPrices
<1>3. claims = Atomic!AddClaims(Atomic!ClearedClaims)
  <2>1. ASSUME NEW v \in Vals
        PROVE  Cardinality(Won(v)) * Power({v})
                 = 0 + Atomic!Cardinality({d \in Atomic!PassingDenoms : v \in Atomic!BallotWinners(d)}) * Atomic!Power({v})
    <3>1. Won(v) = {d \in PassingDenoms : v \in BallotWinners(d)}
      BY <1>0 DEF Won
    <3>2. {d \in PassingDenoms : v \in BallotWinners(d)}
            = {d \in Atomic!PassingDenoms : v \in Atomic!BallotWinners(d)}
      BY <1>1
    <3>3. Cardinality(Won(v)) \in Nat /\ Power({v}) \in Nat
      BY <3>1, WeightsTyped
    <3>4. PICK n \in Nat : n = Cardinality(Won(v)) * Power({v})
      BY <3>3, ProductPositive
    <3>5. n = 0 + n
      OBVIOUS
    <3>6. Atomic!Cardinality({d \in Atomic!PassingDenoms : v \in Atomic!BallotWinners(d)}) = Cardinality(Won(v))
      BY <3>1, <3>2, SameOperators
    <3> QED  BY <1>1, <3>4, <3>5, <3>6
  <2> QED  BY <1>0, <2>1 DEF Atomic!AddClaims, Atomic!ClearedClaims, Atomic!NoClaims
<1>4. Atomic!rewardPrevBallotWinners
  <2>1. Atomic!ClaimSum = SavedClaimSum
    BY <1>0, SameOperators DEF Atomic!ClaimSum, SavedClaimSum
  <2>2. \A v : Atomic!RewardAmt(v) = SavedRewardAmt(v)
    BY <1>0, <2>1 DEF Atomic!RewardAmt, SavedRewardAmt
  <2>3. UNCHANGED feeVars
    BY DEF EndTally
  <2> QED  BY <1>0, <2>1, <2>2, <2>3, SameOperators
       DEF Atomic!rewardPrevBallotWinners, FeesDistributed, feeVars, Atomic!feeVars
<1>5. prevotes' = Atomic!ClearPrevotes /\ votes' = Atomic!NoVotes /\ commits' = Atomic!RecentCommits
  BY DEF EndTally, ClearPrevotes, PrevoteExpired, NoVotes, RecentCommits, Period,
         Atomic!ClearPrevotes, Atomic!PrevoteExpired, Atomic!NoVotes, Atomic!RecentCommits, Atomic!Period
<1>6. Atomic!TallyVotes
  BY <1>0, <1>2, <1>3, <1>4, <1>5 DEF EndTally, Atomic!TallyVotes
<1>7. Atomic!IsPeriodLastBlock(height, VotePeriod)
  BY <1>0 DEF IsPeriodLastBlock, Atomic!IsPeriodLastBlock
<1> QED  BY <1>0, <1>5, <1>6, <1>7 DEF EndTally, Atomic!EndBlocker, stakingVars, Atomic!stakingVars

(* Whatever order a node's map iteration tallies the ballots in, it reaches *)
(* the state the atomic EndBlocker computes from the store alone, for every *)
(* number of denominations, validators and votes (EndBlocker, "for denom,   *)
(* filteredVotes := range votes").                                          *)
THEOREM TallyOrderNeverMatters == StepsSpec => AtomicSpec
<1>1. StepsInit => Atomic!Init
  BY AtomicInit
<1>2. TallyInv /\ [StepsNext]_stepVars => [Atomic!Next]_(Atomic!vars)
  <2>1. ASSUME UNCHANGED stepVars PROVE UNCHANGED Atomic!vars
    BY <2>1 DEF stepVars, Tallying, vars, storeVars, feeVars, stakingVars,
                Atomic!vars, Atomic!storeVars, Atomic!feeVars, Atomic!stakingVars
  <2>2. ASSUME TallyInv, EndTally PROVE Atomic!Next
    BY <2>2, EndTallyMaps DEF Atomic!Next
  <2> QED  BY <2>1, <2>2, AtomicStepMaps, TallyIsHidden DEF StepsNext
<1> QED  BY <1>1, <1>2, TallyInvariant, PTL DEF StepsSpec, AtomicSpec, Atomic!Spec

=============================================================================
