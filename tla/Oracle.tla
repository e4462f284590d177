------------------------------- MODULE Oracle -------------------------------
(***************************************************************************)
(* x/oracle: validators commit to a Luna price in one vote period, reveal  *)
(* it in the next, and the EndBlocker of the period's last block tallies   *)
(* the revealed votes into the exchange rate of the following period and   *)
(* pays the collected swap fees to the winners of the ballot before.       *)
(*                                                                         *)
(* One step is one delivered message or one EndBlock.  A message that      *)
(* fails leaves no trace in the store, so only successful deliveries are   *)
(* steps.  The hash of a prevote is the tuple it is computed from: the     *)
(* salt and the price are one secret, and a secret stands for its price.   *)
(***************************************************************************)
EXTENDS Staking, Functions

CONSTANTS
  Feeders,        \* accounts an operator may delegate feeding to
  Denoms,         \* currencies the validators vote on
  Prices,         \* prices a vote may carry
  VotePeriod,     \* params.VotePeriod, in blocks
  VoteThreshold,  \* params.VoteThreshold, in percent
  RewardBand,     \* params.OracleRewardBand
  DecOne,         \* the denominator of sdk.Dec (10^18 in the code)
  MaxHeight,      \* bound: last height explored
  LastPrevote,    \* bound: last height with prevotes
  MaxFees,        \* bound: swap fees ever collected
  MaxRestarts,    \* bound: restarts explored
  ForeignHashes   \* bound: whether prevotes with a copied hash are explored

ASSUME OracleAssumption ==
  /\ IsFiniteSet(Vals) /\ IsFiniteSet(Denoms)
  /\ Prices \subseteq Nat \ {0} \* MsgPriceVote.ValidateBasic: price > 0
  /\ Nil \notin Nat
  /\ VotePeriod \in Nat \ {0}
  /\ VoteThreshold \in Nat /\ VoteThreshold > 33
  /\ MinBonded >= 2 \* so that the rounded threshold is never zero
  /\ RewardBand \in Nat
  /\ DecOne \in Nat \ {0}
  /\ {MaxHeight, LastPrevote, MaxFees, MaxRestarts} \subseteq Nat /\ ForeignHashes \in BOOLEAN

Accounts == Vals \cup Feeders

(* VoteHash is collision free: equal hashes have equal preimages. *)
VoteHash(price, denom, voter) == [price |-> price, denom |-> denom, voter |-> voter]

Hashes == [price : Prices, denom : Denoms, voter : Vals]

(* A prevote may carry any hash, also one copied from another voter or denom. *)
HashInputs(d, v) == {h \in Hashes : ForeignHashes \/ (h.denom = d /\ h.voter = v)}

Prevotes == [hash : Hashes, submitBlock : Nat]

ASSUME NilAssumption == Nil \notin Prevotes

VARIABLES
  height,     \* block being executed
  prevotes,   \* store "prevote:denom:voter"
  votes,      \* store "vote:denom:voter": the revealed price
  prices,     \* store "price:denom"
  delegates,  \* store "feederdelegation:operator", defaulting to the operator
  claims,     \* store "claim:recipient": weight in the last ballot
  feePool,    \* store "swapfeepool", one coin
  rewards,    \* distribution module: fees allocated to each validator
  collector,  \* auth module: fees moved to the fee collector
  issued,     \* mint module: issuance added for distributed fees
  collected,  \* history: swap fees added to the pool and not lost by a restart
  commits,    \* history: each voter's last prevote of each of the last periods
  restarts    \* bound counter: restarts so far

storeVars == <<prevotes, votes, prices, delegates, claims>>
feeVars == <<feePool, rewards, collector, issued, collected>>
vars == <<height, storeVars, feeVars, commits, restarts, stakingVars>>

CurrentPeriod == Period(height, VotePeriod)

Commits == [denom : Denoms, voter : Vals, hash : Hashes, block : Nat]

TypeOK ==
  /\ StakingTypeOK
  /\ height \in Nat
  /\ prevotes \in [Denoms -> [Vals -> Prevotes \cup {Nil}]]
  /\ votes \in [Denoms -> [Vals -> Prices \cup {Nil}]]
  /\ prices \in [Denoms -> Nat \cup {Nil}]
  /\ delegates \in [Vals -> Accounts]
  /\ claims \in [Vals -> Nat]
  /\ feePool \in Nat
  /\ rewards \in [Vals -> Nat]
  /\ {collector, issued, collected} \subseteq Nat
  /\ commits \subseteq Commits
  /\ restarts \in 0 .. MaxRestarts

NoPrevotes == [d \in Denoms |-> [v \in Vals |-> Nil]]
NoVotes == [d \in Denoms |-> [v \in Vals |-> Nil]]
NoPrices == [d \in Denoms |-> Nil]
SelfFed == [v \in Vals |-> v]
NoClaims == [v \in Vals |-> 0]

Init ==
  /\ height = 1
  /\ StakingInit
  /\ prevotes = NoPrevotes /\ votes = NoVotes /\ prices = NoPrices
  /\ delegates = SelfFed
  /\ claims = NoClaims
  /\ rewards = [v \in Vals |-> 0]
  /\ feePool = 0 /\ collector = 0 /\ issued = 0 /\ collected = 0
  /\ commits = {}
  /\ restarts = 0

-----------------------------------------------------------------------------
(* Messages *)

(* The operator itself or its current delegate may feed. *)
MayFeed(feeder, v) == feeder = v \/ delegates[v] = feeder

(* The history without the commitment of v that a new prevote supersedes. *)
CommitsBefore(d, v) ==
  {c \in commits : ~(/\ c.denom = d /\ c.voter = v
                     /\ Period(c.block, VotePeriod) = CurrentPeriod)}

handleMsgPricePrevote(feeder, v, d, hash) ==
  /\ height <= LastPrevote
  /\ MayFeed(feeder, v)
  /\ v \in validators
  /\ prevotes' = [prevotes EXCEPT ![d][v] = [hash |-> hash, submitBlock |-> height]]
  /\ commits' = CommitsBefore(d, v) \cup
                {[denom |-> d, voter |-> v, hash |-> hash, block |-> height]}
  /\ UNCHANGED <<height, votes, prices, delegates, claims, feeVars, restarts, stakingVars>>

(* Mutant: a prevote can be revealed in its own period. *)
InRevealPeriodOrOwn(submitBlock) == CurrentPeriod - Period(submitBlock, VotePeriod) <= 1

(* The reveal: only in the period right after the prevote's. *)
InRevealPeriod(submitBlock) == CurrentPeriod - Period(submitBlock, VotePeriod) = 1

handleMsgPriceVote(feeder, v, d, price) ==
  /\ MayFeed(feeder, v)
  /\ v \in validators
  /\ prevotes[d][v] # Nil
  /\ InRevealPeriod(prevotes[d][v].submitBlock)
  /\ prevotes[d][v].hash = VoteHash(price, d, v)
  /\ prevotes' = [prevotes EXCEPT ![d][v] = Nil]
  /\ votes' = [votes EXCEPT ![d][v] = price]
  /\ UNCHANGED <<height, prices, delegates, claims, feeVars, commits, restarts, stakingVars>>

handleMsgDelegateFeederPermission(v, delegate) ==
  /\ v \in validators
  /\ delegates' = [delegates EXCEPT ![v] = delegate]
  /\ UNCHANGED <<height, prevotes, votes, prices, claims, feeVars, commits, restarts, stakingVars>>

(* Keeper.AddSwapFeePool, called by the market for the spread of a swap. *)
AddSwapFeePool(fee) ==
  /\ collected + fee <= MaxFees
  /\ feePool' = feePool + fee
  /\ collected' = collected + fee
  /\ UNCHANGED <<height, storeVars, rewards, collector, issued, commits, restarts, stakingVars>>

-----------------------------------------------------------------------------
(* EndBlocker *)

Ballot(d) == {v \in Vals : votes[d][v] # Nil}

ballotIsPassing(power) == power >= RoundInt(VoteThreshold * TotalBondedTokens, 100)

(* The prices weightedMedian may return: voters gone from the store are skipped. *)
Candidates(d) == {votes[d][v] : v \in Ballot(d) \cap validators}

(* The running sum over the sorted ballot has reached half the power at price p. *)
PivotReached(d, p) ==
  Power({v \in Ballot(d) : votes[d][v] <= p}) >= Power(Ballot(d)) \div 2

(* The first price of the sorted ballot at which the pivot is reached; zero *)
(* when no voter of the ballot is left in the staking store.                *)
weightedMedian(d) ==
  LET reached == {p \in Candidates(d) : PivotReached(d, p)}
  IN  IF reached = {} THEN 0 ELSE CHOOSE p \in reached : \A q \in reached : p <= q

PassingDenoms == {d \in Denoms : Ballot(d) # {} /\ ballotIsPassing(Power(Ballot(d)))}

InBand(p, median) == 2 * p >= 2 * median - RewardBand /\ 2 * p <= 2 * median + RewardBand

(* tally: the voters of d that earn a claim. *)
BallotWinners(d) ==
  {v \in Ballot(d) \cap validators : InBand(votes[d][v], weightedMedian(d))}

(* Mutant: the claims of earlier ballots are not cleared. *)
KeptClaims == claims

(* Claims left by rewardPrevBallotWinners: it clears them unless they sum to *)
(* zero, and then every weight is zero already.                              *)
ClearedClaims == NoClaims

(* Mutant: the weight is subtracted from the stored one. *)
SubtractClaims(base) ==
  [v \in Vals |-> base[v] -
     Cardinality({d \in PassingDenoms : v \in BallotWinners(d)}) * Power({v})]

(* addClaimPool accumulates one bond size per denom won. *)
AddClaims(base) ==
  [v \in Vals |-> base[v] +
     Cardinality({d \in PassingDenoms : v \in BallotWinners(d)}) * Power({v})]

ClaimSum == SumFunction(claims)

(* Mutant: the fee share is rounded up. *)
RewardAmtUp(v) == (((feePool * DecOne) \div ClaimSum) * claims[v] + DecOne - 1) \div DecOne

(* Fee share of v: divided by the sum, multiplied by the weight, truncated. *)
RewardAmt(v) == (((feePool * DecOne) \div ClaimSum) * claims[v]) \div DecOne

(* Mutant: the share of a validator that is gone is dropped. *)
rewardPresentWinnersOnly ==
  IF ClaimSum = 0 \/ feePool = 0
  THEN UNCHANGED feeVars
  ELSE LET share == [v \in Vals |-> RewardAmt(v)]
           paid == [v \in Vals |-> IF v \in validators THEN share[v] ELSE 0]
       IN  /\ rewards' = [v \in Vals |-> rewards[v] + paid[v]]
           /\ collector' = collector + (feePool - SumFunction(share))
           /\ issued' = issued + feePool
           /\ feePool' = 0
           /\ UNCHANGED collected

rewardPrevBallotWinners ==
  IF ClaimSum = 0 \/ feePool = 0
  THEN UNCHANGED feeVars
  ELSE LET paid == [v \in Vals |-> IF v \in validators THEN RewardAmt(v) ELSE 0]
       IN  /\ rewards' = [v \in Vals |-> rewards[v] + paid[v]]
           /\ collector' = collector + (feePool - SumFunction(paid))
           /\ issued' = issued + feePool
           /\ feePool' = 0
           /\ UNCHANGED collected

(* Mutant: only prevotes two periods older are deleted. *)
PrevoteExpiredLate(prevote) == prevote # Nil /\ height > prevote.submitBlock + 2 * VotePeriod

(* Mutant: every prevote of an earlier block is deleted. *)
PrevoteExpiredEarly(prevote) == prevote # Nil /\ height > prevote.submitBlock

(* Prevotes the EndBlocker at the current height deletes. *)
PrevoteExpired(prevote) == prevote # Nil /\ height > prevote.submitBlock + VotePeriod

ClearPrevotes ==
  [d \in Denoms |-> [v \in Vals |->
     IF PrevoteExpired(prevotes[d][v]) THEN Nil ELSE prevotes[d][v]]]

(* Mutant: a dropped ballot leaves the old price in place. *)
KeptPrices == [d \in Denoms |-> IF d \in PassingDenoms THEN weightedMedian(d) ELSE prices[d]]

(* Every active price is deleted, then the passing ballots set theirs. *)
UpdatedPrices == [d \in Denoms |-> IF d \in PassingDenoms THEN weightedMedian(d) ELSE Nil]

TallyVotes ==
  /\ rewardPrevBallotWinners
  /\ prices' = UpdatedPrices
  /\ claims' = AddClaims(ClearedClaims)
  /\ prevotes' = ClearPrevotes
  /\ votes' = NoVotes

(* The history keeps what a price of the next block can still stem from. *)
RecentCommits ==
  {c \in commits : Period(c.block, VotePeriod) >= Period(height + 1, VotePeriod) - 2}

EndBlocker ==
  /\ height < MaxHeight
  /\ height' = height + 1
  /\ IF IsPeriodLastBlock(height, VotePeriod)
     THEN TallyVotes
     ELSE UNCHANGED <<prevotes, votes, prices, claims, feeVars>>
  /\ commits' = RecentCommits
  /\ UNCHANGED <<delegates, restarts, stakingVars>>

StakingStep ==
  /\ StakingNext
  /\ UNCHANGED <<height, storeVars, feeVars, commits, restarts>>

(* The chain is exported and started again.  The oracle exports its         *)
(* parameters only: prevotes, votes, rates, feeder delegations, claims and  *)
(* the undistributed fees are gone.                                         *)
Restart ==
  /\ restarts < MaxRestarts /\ restarts' = restarts + 1
  /\ height > 1 /\ height' = 1
  /\ prevotes' = NoPrevotes /\ votes' = NoVotes /\ prices' = NoPrices
  /\ delegates' = SelfFed
  /\ claims' = NoClaims
  /\ feePool' = 0 /\ collected' = collected - feePool
  /\ commits' = {}
  /\ UNCHANGED <<rewards, collector, issued, stakingVars>>

Next ==
  \/ \E v \in Vals, d \in Denoms, f \in Accounts :
       \/ \E hash \in HashInputs(d, v) : handleMsgPricePrevote(f, v, d, hash)
       \/ \E p \in Prices : handleMsgPriceVote(f, v, d, p)
  \/ \E v \in Vals, f \in Feeders : handleMsgDelegateFeederPermission(v, f)
  \/ \E fee \in 1 .. MaxFees : AddSwapFeePool(fee)
  \/ EndBlocker
  \/ StakingStep
  \/ Restart

Spec == Init /\ [][Next]_vars

-----------------------------------------------------------------------------
(* Properties *)

(* Commit-reveal: a vote in the store carries a price that its voter        *)
(* committed to by a prevote of the period before the current one, so no    *)
(* vote can have been made up after the first reveal of the period          *)
(* (handleMsgPriceVote, and the EndBlocker that clears votes).              *)
VotesWereCommitted ==
  \A d \in Denoms, v \in Vals : votes[d][v] # Nil =>
    \E c \in commits :
      /\ c.denom = d /\ c.voter = v
      /\ c.hash = VoteHash(votes[d][v], d, v)
      /\ Period(c.block, VotePeriod) = CurrentPeriod - 1

(* Freshness: an exchange rate that swaps can use was committed by some     *)
(* validator exactly two periods ago; no rate outlives the period after its *)
(* tally, whatever validators join, leave or fall silent (EndBlocker).      *)
PricesAreFresh ==
  \A d \in Denoms : prices[d] # Nil =>
    \E c \in commits :
      /\ c.denom = d
      /\ c.hash = VoteHash(prices[d], d, c.voter)
      /\ Period(c.block, VotePeriod) = CurrentPeriod - 2

(* The prevote store is bounded in age: it holds the current and the        *)
(* previous period and at most the last block of the one before, which can  *)
(* no longer be revealed (EndBlocker, "Clear all prevotes").                *)
PrevotesBounded ==
  \A d \in Denoms, v \in Vals : prevotes[d][v] # Nil =>
    prevotes[d][v].submitBlock + 1 >= (CurrentPeriod - 1) * VotePeriod

(* No commitment is lost while it can still be revealed: a prevote leaves   *)
(* the store only by becoming the vote it committed to, by a newer prevote  *)
(* of its voter, or after its reveal period (EndBlocker's clean-up), unless *)
(* the chain is restarted.                                                  *)
NoPrevoteLost ==
  [][\A d \in Denoms, v \in Vals :
       prevotes[d][v] # Nil /\ prevotes'[d][v] = Nil =>
         \/ restarts' # restarts
         \/ VoteHash(votes'[d][v], d, v) = prevotes[d][v].hash
         \/ Period(height', VotePeriod) > Period(prevotes[d][v].submitBlock, VotePeriod) + 1]_vars

(* Claims are those of the last ballot only: whoever holds a claim after a  *)
(* tally revealed a price inside the band of a rate set by that tally, and  *)
(* nobody collects twice for one ballot (rewardPrevBallotWinners, tally).   *)
ClaimsAreWinners ==
  [][height' # height /\ IsPeriodLastBlock(height, VotePeriod) =>
       \A v \in Vals : claims'[v] > 0 =>
         \E d \in Denoms :
           /\ votes[d][v] # Nil /\ prices'[d] # Nil
           /\ InBand(votes[d][v], prices'[d])
           /\ claims'[v] <= Cardinality(Denoms) * Power({v})]_vars

(* Swap fees are neither created nor lost by the distribution: what was     *)
(* collected is in the pool or was issued, and what was issued is with the  *)
(* validators or the fee collector, truncation, vanished validators and     *)
(* zero weights included (rewardPrevBallotWinners).                         *)
SwapFeesConserved ==
  /\ feePool + issued = collected
  /\ SumFunction(rewards) + collector = issued

(* The distribution never pays out more than the pool: the subtraction that *)
(* computes the left-over fees would panic and halt the chain.              *)
DistributionCovered ==
  ClaimSum # 0 => SumFunction([v \in Vals |-> RewardAmt(v)]) <= feePool

=============================================================================
