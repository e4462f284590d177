# Terra core: a TLA+ model of the chain's economic modules

This directory specifies and checks the modules of `src/x/` that carry the
logic of the Terra chain: the price oracle, the budget, issuance (mint), the
market, the treasury and taxed payments (pay), and with them the vesting
accounts of `src/types/` and the one-off update of `src/update/`. The program is a Cosmos SDK
application: all state lives in a key-value store, it changes only when a block
delivers a transaction or ends, and every node must compute the same store. A
transaction that fails is rolled back; a panic in an `EndBlocker` is not
recovered and stops every node at the same block.

`PROJECT.json` maps each definition to the lines it models and lists runs,
mutants, findings, hazards and theorems.

## 1. Inventory

| component | state | operations | talks to |
|---|---|---|---|
| oracle (`x/oracle`) | prevotes, votes, exchange rates, feeder delegations, claims of the last ballot, swap fee pool | prevote, vote, delegate feeder, EndBlocker (reward, tally, clean-up), AddSwapFeePool, export and init | reads staking power; issues fees through mint; pays distribution and the fee collector; gives rates to market |
| ballot (`x/oracle/ballot.go`) | none, a loop over sorted votes | weighted median | called by the oracle's tally |
| budget (`x/budget`) | programs, id counter, candidate queue, votes, claims | submit, withdraw, vote, EndBlocker (tally, re-weigh, distribute), export and init | burns and mints deposits and rewards; reads staking, the reward weight, seigniorage and the SDR rate |
| mint (`x/mint`) | one issuance snapshot per denomination and day, written lazily | Mint, Burn, ChangeIssuance, GetIssuance, PeekEpochSeigniorage | counts accounts at the first touch |
| market (`x/market`) | parameters only | swap with spread and daily cap | oracle rates, mint, the oracle's fee pool |
| treasury (`x/treasury`) | tax rate and reward weight per epoch (lazy), tax cap per denomination (cached), tax proceeds per epoch | EndBlocker's policy update, reads that write, export and init | seigniorage from mint, rates from market, bonded tokens |
| pay (`x/pay`) | none | MsgSend, MsgMultiSend with tax | treasury, bank, fee collector |
| vesting accounts (`types/`) | coins, original coins, schedules, coins delegated as free and as vesting | spendable and vested amounts, tracking of delegations, export and init | bank, staking |
| update (`update/`) | none | at block 230000 cliffs become linear schedules, two parameters change | accounts, oracle and market parameters |
| application (`app/`) | wiring | order of EndBlockers (staking, oracle, budget, treasury, update), genesis, export | all |

Hard behaviours, and what makes each component correct:

* **Oracle.** Commit and reveal happen in different vote periods, and power is
  read at the tally while fees are paid one tally later: a validator can lose
  its power or disappear at each point between. A rate has to stem from prices
  committed two periods before, nobody may vote on knowledge of others'
  reveals, and no fee may appear or vanish. Ballots sit in a Go map whose order
  differs between nodes.
* **Budget.** A program is a candidate only by an entry in a queue whose key is
  recomputed from the program. Queue, programs and votes have to agree on every
  path a program can take, a restart from an exported genesis included.
* **Mint and market.** Snapshots are written when somebody reads them. They must
  have no gaps, past days must be final and every change must be counted
  exactly once, because the swap cap and seigniorage are computed from them.
* **Treasury and pay.** The levers of an epoch are also written on read. The
  policy must stay in its range and move slowly; taxes and seigniorage must be
  counted once.
* **Vesting and update.** What is vesting depends on the time of the call, a
  delegation is divided by the schedule of its time and comes back in another
  order, and slashes are not reported to the account. Coins that vest must stay
  covered all the same; the update exchanges the schedule under accounts that
  have acted on the old one, and panics on an account it does not expect.
* **Liveness.** A candidate must be decided and the update made as long as blocks
  are produced, everything must vest in the end, and no EndBlocker may panic.

There is no concurrency inside a node that touches the store and no crash
recovery of its own (Tendermint and the store provide it). Interleaving means
the order in which transactions, staking changes and blocks meet; the only
restart with logic in this repository is export and genesis.

## 2. Modules

| module | models | composition |
|---|---|---|
| `ChainUtil` | epochs, last blocks of periods, `Dec.RoundInt` | extended by all |
| `Staking` | validators and bonded power as the keepers see them (external) | extended by `Oracle`, `Budget` |
| `Oracle` | the oracle's messages and EndBlocker | with `Staking` |
| `OracleSteps` | the EndBlocker one denomination at a time, in any order | refines `Oracle` |
| `Ballot` | the weighted-median loop, one vote at a time | checked against the operator `Oracle` uses |
| `Budget` | the budget, with export and restart | with `Staking` |
| `Mint` | issuance snapshots as operators on the store | extended by `Market`, `Treasury` |
| `Market` | swaps, fee distribution, days | with `Mint` |
| `Treasury` | levers, caps, proceeds, indicators, policy update, export and init | with `Mint` |
| `Pay` | taxed transfers, Luna swaps, the end of blocks and restarts | with `Treasury` |
| `LockedFunds` | what a vesting account promises: part of its coins is locked, the lock loosens and is set anew at most once | |
| `Vesting` | one vesting account with bank, staking, the update and restarts | implements `LockedFunds` |
| `UtilProofs` | lemmas on periods, rounding, sums over functions, and induction | extended by all proof modules |
| `OracleProofs`, `BallotProofs`, `BudgetProofs`, `MarketProofs`, `PayProofs`, `VestingProofs` | theorems about `Oracle` and `OracleSteps`, `Ballot`, `Budget`, `Market`, `Treasury` and `Pay`, `Vesting` | each extends its module |
| `MintProofs` | lemmas about the issuance store | extended by `MarketProofs` and `PayProofs` |

`MC*` modules add symmetry sets and values for constants and nothing else.

How the models read:

* One action is one delivered message or one end of a block, with everything
  the handler calls. The guard of a message is the condition under which it
  succeeds; failed messages are stuttering steps.
* Store keys are functions, `Nil` is an absent key. Store keys and the names of
  the code are given in comments at the variables.
* Decimals are integers in units of `1/DecOne`, with the rounding of `sdk.Dec`:
  half to even for `Mul`, `Quo` and `RoundInt`, truncation for `QuoInt` and
  `TruncateInt`. Exchange rates are such decimals too: the rate of Luna is
  `DecOne`, the others may be any positive number of `1/DecOne`. Integers of the
  SDK are arbitrary precision, so nothing wraps.
* `VoteHash` is the tuple that is hashed: the model assumes no collisions. The
  salt and the price are one secret.
* Bonded power is a set of tokens, each bonded to one validator, so that a
  staking transaction or a slash is the move of one token. `Staking` allows any
  such move and removes a validator only when nothing is bonded to it. A chain
  without bonded power does not run, hence `MinBonded`.
* `Oracle` keeps two history variables (`commits`, `collected`), `Budget` one
  (`passed`) and `Treasury` one (`paid`). They guard nothing but their bounds.
* A restart is an export of the whole state followed by `initChainer` and block
  1 of a new chain. Each module models its own part: the oracle keeps its
  parameters only, the budget its programs and votes, the treasury two levers,
  an account everything; the issuance is counted anew.
* `Vesting` follows one account. Vesting accounts share no state, and the update
  treats them one by one, so that a run over one account of each kind (named
  preseed, named seed, the seed address with a schedule of its own, any other)
  covers them. Luna is the only denomination that is staked. The coins of an
  account are created by other accounts' payments (`Receive`) within a bound.
  The two parameters the update sets are the flag `params`. An account whose
  `SpendableCoins` would panic cannot spend: the transaction fails.
* In `Market` and `Pay` the oracle is an environment that sets any rate, or
  none, at the end of a block. In `Market` it may also distribute the fee pool.
  Coins in `outside` are those the account iteration does not see: bonded, owed
  as rewards, or in the fee collector.
* `Pay` has transfers by one payer, or by several payers of equal amounts, to
  one recipient; the code treats inputs independently of each other before the
  outputs. Gas fees are left out. Budget rewards are not minted in `Pay`, but
  the budget's reads of the reward weight and of the issuance, which write the
  store, are part of the end of the block.
* Parameters are constants; the repository has no message that changes them.

Definitions whose comment begins with *Mutant* are faulty variants of the
definition they precede and are used nowhere. They show that the property named
in `PROJECT.json` can fail.

## 3. Runs

Bounds are constants commented *bound*. `CHECK_DEADLOCK FALSE` appears where a
behaviour ends because a bound is reached, where the ballot's loop has
returned, or where the chain has halted.

| run | shows | instance |
|---|---|---|
| `oracle_commit` | votes were committed one period earlier by their voter (`VotesWereCommitted`), prevotes do not linger (`PrevotesBounded`) and are not lost early (`NoPrevoteLost`), on restarted chains too | 2 validators, a feeder, copied hashes, periods of 2 blocks, more than three periods, a restart at any block |
| `oracle_tally` | rates are two periods old (`PricesAreFresh`), claims belong to winners of the last ballot (`ClaimsAreWinners`), the distribution is covered and conserves fees (`DistributionCovered`, `SwapFeesConserved`) | 2 validators, 3 tokens, two staking changes, 2 prices, 2 units of fees; prevotes up to height 3 and two further periods, so that the last commitment is still revealed, tallied and paid |
| `oracle_map_order` | the EndBlocker with ballots in any order implements the atomic one (`AtomicSpec`, a refinement) | 2 denominations |
| `ballot` | the loop returns the lowest price that reaches half of the power, rounded down (`LoopIsLowestReached`), and less than half of the power cannot move it out of the range of the others, but for downward moves by a minority that lacks just half a unit of power (`MinorityCannotMove`) | all ballots of up to 4 votes, 3 prices, powers 0 to 3 and vanished voters, each order of equal prices |
| `budget` | queue, programs, votes and claims agree (`QueueMatchesPrograms`, `NoOverdueCandidate`, `VotesHaveProgram`, `ActiveWerePassed`, `ClaimsNotNegative`, `ProgramsNotOverwritten`) | 2 programs, 2 validators, 3 tokens, two staking changes, two epochs |
| `budget_restart` | a zero-height export keeps programs and candidates (`RestartKeepsPrograms`) and candidates are decided (`CandidatesDecided`, under fairness) | one restart at any block |
| `market` | snapshots have no gap, past days are final, issuance follows supply, swaps respect the cap and gain no more than the rounding of a decimal (`SnapshotsContiguous`, `PastIsFinal`, `IssuanceFollowsSupply`, `SwapsWithinCap`, `SwapsGainOnlyRounding`) | three days of 2 blocks, no rate or one of 0.5 and 3.1 per Luna with one decimal place, offers of 1 and 3 coins, coins leaving and entering accounts |
| `pay_treasury` | levers stay in the policy's range and move only at the turn of an epoch (`LeversWithinPolicy`, `LeversMoveSlowly`), past epochs are final (`PastEpochsFinal`), tax and seigniorage are counted once (`TaxesAccounted`, `SeigniorageCountedOnce`), an epoch is paid with the weight of the last update (`PaidWithLastUpdate`), a restart keeps the weight and resets the rate (`RestartKeepsWeightOnly`) | 2 accounts, four epochs of 2 days, the first in probation, rates of 0.8 and 2.5 that appear, change and vanish, 2 transactions, a restart at height 5 |
| `vesting` | vesting coins stay covered until the update (`VestingCovered`), delegations are tracked in full (`StakeTracked`), cliffs become months that are never ahead and at most a month behind (`SpreadWithinMonth`), the account keeps the promise of `LockedFunds` (`KeepsPromise`, a refinement), the update is made and everything vests (`FullyVests`, under fairness) | 4 kinds of account with 2 or 4 Luna, amounts 1 and 2, update at block 3, a restart at any block |
| `budget_reuse`, `budget_halt`, `vesting_freeze` | expected violations, see section 5 | |

Why the bounds suffice for the questions asked: the oracle looks back two
periods and the runs cover at least three; the budget decides a candidate in
one vote period and pays per epoch, and the run has four vote periods and two
epochs; the market looks back one day out of three, and 3 coins at 3.1 per Luna
are the case in which the rounded quotient yields a coin the offer is not worth;
the treasury's windows are
one and two epochs out of four. Two validators with three tokens produce
majorities, ties, and a validator without power. In the instance of `pay_treasury`
both levers rise and fall, hit the edge of their range and the largest change,
and a transfer fails for want of the tax alone. Its restart is taken at height
5, the first block after a policy update: the weight of the exported epoch is
then not stored yet and the tax rate has moved. The oracle's runs with fees
have no restart, as it would only empty the pool.

In `vesting` months are compressed: `Date` maps months to any times in order.
The schedules of the update are those of the code with its ratios, and blocks
are 1 or 3 units apart, so that they fall before, on, between and behind every
boundary and months may be skipped. Two Luna make shares that are rounded to
0, 1 and 2. The update comes after cliffs have passed and been spent, before,
and, by a restart, a second time.

**Fairness** is assumed in `budget_restart` (`WF_vars(EndBlock)`) and in `vesting`
(`WF_vars(Block)`), because Tendermint keeps producing blocks and time advances
from block to block. No fairness is assumed for any message.

## 4. Proofs

Every invariant, every action property and both refinements that the runs check
are proved for all values of the constants, under the assumptions the modules
declare and the hypotheses named below. What stays with TLC is liveness
(`CandidatesDecided`, `FullyVests`), which this prover cannot do, and the three
expected violations.

The bounds of section 3 (heights, restarts, moves, fees) are constants like any
other: a theorem holds for every value of them, so it does not depend on where
exploration stops.

**Lemmas on data.** `UtilProofs` derives two induction principles that take a
*set* instead of a predicate (`NaturalInduction`, `SubsetInduction`), from the
well-foundedness of the naturals. With them it proves what
`SumFunction` of the community modules computes: the recursion behind it has a
solution on finite sets (`SumsExist`), any element can be taken out first
(`SumRemove`), and sums are linear, monotone, split over subsets and change with
one summand. Also there: bounds of `RoundInt`, periods and their last blocks, and
least elements. `MintProofs` has what reading and filling the issuance store
returns.

**Oracle** (`OracleProofs`).

* `FeeInv` = `TypeOK` and `SwapFeesConserved`; neither is inductive alone, since a
  restart subtracts the pool from what was collected. `OracleTypeCorrect` and
  `FeesAlwaysConserved` follow. `DistributionAlwaysCovered` is an inequality of
  sums: each share is truncated twice, and scaled by `DecOne` their sum is at
  most the unit share times the sum of the claims.
* `CommitInv` joins `VotesWereCommitted`, `PrevotesBounded` and `PricesAreFresh` with
  two strengthenings: every stored prevote is in the history of commitments, and
  the chain has stake. A prevote is still in the history when it is revealed
  because the clean-up bounds its age, and a passing ballot has a voter that
  exists because its threshold is not zero. `NoPrevoteEverLost` and
  `OnlyWinnersClaim` are its action properties.
* `TallyOrderNeverMatters`: `OracleSteps` implements `Oracle`. During a tally
  `TallyInv` says that prices and claims are those of the ballots done so far, as
  functions of votes and stake, which no turn of the loop writes; that the fees
  have been distributed from the saved values; and that this is the last block
  of a period. The beginning and every turn are then stuttering steps and the
  end is the atomic tally.

**Ballot** (`BallotProofs`). While the loop runs, the running sum is the power of
the votes passed, and before the current index the loop could not have returned
(`BallotInv`). `LoopAlwaysLowest` uses that the ballot is sorted, by induction on
the distance of two indices; `MinorityNeverMoves` holds for every set of voters
with less than half of the power, the half taken exactly.

**Budget** (`BudgetProofs`).

* `TypeCorrect`, `VotesNeverOutlivePrograms` and `ClaimsNeverNegative` hold with
  any number of restarts.
* `QueueAlwaysMatches`, `CandidatesNeverOverdue`, `OnlyPassedProgramsAreActive`
  and `IdsAreFresh` have the hypothesis `MaxRestarts = 0`, the life of one chain;
  with restarts the last one is false (`budget_reuse`).
  `FirstRestartKeepsPrograms` has `MaxRestarts <= 1` and zero-height exports, as
  in the run. It is false for a second restart: in between, a reused id leaves
  two queue entries for one program.

None of these is inductive alone. `QueueInv` joins the first three of them and
`IdsGivenOut`: programs are stored only under ids up to the counter. A
submission keeps the queue exact only because its id is unused, so no entry of
an older program shares it; the tally removes exactly the due entries only
because each sits under the key derived from its program; and an entry that is
not due has a later block, so none is overdue in the next one. A program
without an entry was therefore removed by a tally that it passed.

**Mint and market** (`MarketProofs`). `MarketInv`: well typed, every denomination's
snapshots are without gap up to some day not after today (`Recorded`), and the
Luna issuance was counted at genesis. From what one step does to one row
(`RowStep`) follow `SnapshotsAlwaysContiguous`, `PastAlwaysFinal`,
`IssuanceAlwaysFollows` and `SwapsAlwaysWithinCap`.

`SwapsAlwaysGainOnlyRounding` holds at every rate, with no hypothesis. `GetSwapCoin`
rounds the quotient half to even in its last decimal place and truncates it
afterwards, so a quotient just below a whole number yields the whole coin: 3 SDR
at 3.000000000000000001 SDR per Luna buy 1 Luna. A swap can therefore create
value, by the bound of the theorem at most half of the last decimal place of one
coin. The theorem's argument is the error bound of `RoundInt` carried through the
truncation (`RetAmountWorth`). Since coins are whole, `CheapOffersCreateNoValue`
follows: below 2 per Luna, and so for every sale of Luna, no value is created at
all.

**Treasury and pay** (`PayProofs`). `ClampSound` and `ClampFollows` hold for every
policy: the clamped lever is in range, within the largest change, and never on
the other side of its previous value than the indicators ask for. `PayInv` says
of the lazily written levers that those of epochs to come are absent, the weight
of the current epoch too; of the issuance what `MarketInv` says. `ChainStep`
describes what a step other than a restart does to taxes, payments, issuance and
levers; `LeversAlwaysWithinPolicy`, `LeversAlwaysMoveSlowly`,
`PastEpochsAlwaysFinal`, `AlwaysPaidWithLastUpdate`, `TaxesAlwaysAccounted` and
`SeigniorageAlwaysCountedOnce` (a telescoping sum, by induction over epochs) rest
on it. `RestartsKeepWeightOnly` has the hypothesis `WindowProbation >= 2` (the
default is 12): with a shorter probation the policy already changes epoch 0,
whose rate the export reads, and TLC finds the property violated.

**Vesting** (`VestingProofs`). `VestingInv` joins the types, `StakeTracked`,
`VestingCovered` and `SchedulesKnown`: an account has the schedules of its genesis
before the update and what the update makes of them after it. Vested amounts
never fall back because each schedule's share only grows, a monotone sum.
`SpreadAlwaysWithinMonth` compares the sums before and after the update
schedule by schedule. `AlwaysKeepsPromise` is the refinement of `LockedFunds`:
payments map to `Receive` and `Spend`, blocks to `Release` or, once, to
`Reschedule`, everything else to a stutter.

**Assumptions.** Each is declared in the module it is about, and TLC evaluates it
in that module's runs: the sets of validators, tokens, accounts and denominations are
finite, `Nil` is none of the stored values, periods and denominators are
positive, policies are ranges that contain the genesis levers, the vote
threshold is above 33 percent (as the parameter's validation demands) and at
least `MinBonded` >= 2 units are bonded, so that a rounded threshold is not zero,
genesis schedules are valid.

## 5. Findings

1. `budget_reuse`: the id counter is not exported; the first submission after a
   restart overwrites program 1 and inherits its votes.
2. `budget_halt`: with the default legacy threshold of 0, an active program with
   as many yes as no votes has weight 0; the distribution then divides by zero
   or mints a zero coin, and `EndBlocker` panics.
3. `vesting_freeze`: the update spreads a cliff that has passed over the month
   after it, so that free coins vest again. An account that has spent them has
   less than is vesting, and `SpendableCoins` panics on a negative coin, for its
   other denominations too, until enough has vested. `FullyVests` shows that
   this ends.

Seen while modelling, without a run:

* Half of the total power is an integer division (`x/oracle/ballot.go:41`): three
  votes of power 1 at 1, 2 and 3 give 1, which is no weighted median although the
  comment at `x/oracle/ballot.go:25` says so. The exception in
  `MinorityCannotMove` is exactly this case.
* `GetSwapCoin` rounds before it truncates (`x/market/keeper.go:70`), so that a swap
  can gain up to half of the last decimal place (`SwapsGainOnlyRounding`).
* The swap cap holds per calendar day, not "in any given 24 hour period"
  (`docs/specifications/market.md:14`): around midnight twice the cap passes.
* The oracle exports its parameters only: undistributed swap fees and feeder
  delegations are lost by a restart (`x/oracle/genesis.go:33`), while the comment
  above says that the state "will contain the pool".
* `budget.ValidateGenesis` demands a submit block of 0 and distinct ids
  (`x/budget/genesis.go:91`), but nothing calls it; a zero-height export lists
  candidates as active programs too, and any other export leaves candidates
  queued under a key that is never looked up. The check writes to a map that is
  never made (`x/budget/genesis.go:98`), so calling it with a program would panic.
* An account named as preseed has more vested between months 3 and 12 after the
  update than its cliffs gave it (`update/plan/update_230000.go:183`).
* `types/graded_account.go:57` speaks of a block time in nanoseconds; the code
  compares seconds.
* `docs/specifications/budget.md:47` promises a refund on withdrawal; the
  handler refunds candidates only (`x/budget/handler.go:75`).
* `clearsThreshold` is commented as a strict comparison, while the code rounds
  the threshold and accepts equality (`x/budget/end_blocker.go:41`).
* The first count of the Luna issuance happens after the genesis delegations
  and misses bonded Luna (`app/app.go:437`).
* `docs/specifications/pay.md:32` and `x/pay/handler.go:6` say that taxes of a
  failed transaction are not refunded; the failed transaction is rolled back,
  taxes included.
* The policy comments read t(t+1) = ...; the code stores the new value under the
  epoch that ends (`x/treasury/policy.go:28`), so that later indicators value
  that epoch's seigniorage with a weight it was not run with.
* `treasury.ExportGenesis` exports the tax rate of epoch 0 and the reward weight
  of the current epoch (`x/treasury/genesis.go:49`); `RestartKeepsWeightOnly`
  states the effect.
* `docs/specifications/treasury.md:16` says levers are re-evaluated every
  `WindowLong`; the code does so every epoch.

## 6. Not modelled

Queriers are read-only. Command line, REST, node set-up and the collection of
genesis transactions keep no chain state. The repository's only JavaScript is
the vendored Swagger UI (`client/lcd/swagger-ui/`), third-party code without any
part in the chain: the program, and with it this project, is the Go code.
Message decoding and signatures are the SDK's. Tags and logs of results are left
out; the tags of the oracle depend on map order (see the hazards). Gas is left
out, and so is the pool of not bonded tokens that `Mint` and `Burn` keep in step
(`x/mint/keeper.go:47`), which no modelled code reads. A burden that rounds to zero
would panic in the policy update (`x/treasury/policy.go:48`); the model takes no
such step. The vesting accounts of the SDK (`ContinuousVestingAccount`,
`DelayedVestingAccount`), which a genesis file could also hold, are a dependency.

## 7. Plan

Done: every component of section 1 except the parts of `app/` that only wire
the SDK; theorems for every safety property and refinement of the runs.

What could be added:

1. In `LockedFunds`, a theorem that an account which was not rescheduled is never
   worth less than what is locked, carried over to `Vesting` by the refinement.
2. A connection of `Ballot` and `Oracle`: the price `LowestReached` names is
   `weightedMedian` of the ballot's votes, however they are numbered.
3. One store for the budget's payment and the treasury's levers, where the
   budget's minting feeds the next epoch's seigniorage.
