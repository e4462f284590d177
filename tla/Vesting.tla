------------------------------ MODULE Vesting ------------------------------
(***************************************************************************)
(* types/graded_account.go, types/lazy_graded_account.go and the one-off   *)
(* update of update/plan/update_230000.go, which turns every account with  *)
(* vesting cliffs into one that vests linearly, in the life of one         *)
(* account: it receives, spends, delegates and gets back coins, is slashed *)
(* and is carried through an export and a new genesis.  Vesting accounts   *)
(* share no state, so that any one of them stands for all.                 *)
(***************************************************************************)
EXTENDS Functions, Sequences, ChainUtil

CONSTANTS
  Addresses,         \* the vesting accounts of the genesis file
  PreseedAddresses, SeedAddresses,  \* those the update names
  SplitSeed,         \* the seed address with a schedule of its own
  Denoms, Luna,      \* denominations, and the one that is staked
  Nil,               \* a denomination without schedule
  OriginalVesting,   \* coins of each address, all vesting, by denomination
  GenesisSchedules,  \* cliffs of each address, by denomination
  DecOne,            \* the denominator of sdk.Dec
  Date,              \* genesisTime.AddDate(0, n, 0), for n months
  secondsPerMonth,
  UpdateHeight,      \* 230000
  Amounts,           \* amounts sent, received, delegated, slashed
  TimeSteps,         \* times between two blocks
  MaxTime,           \* bound: the clock stops there
  MaxExtra,          \* bound: coins an account may have beyond its original ones
  MaxRestarts        \* bound: restarts explored

Cliffs == [cliff : Nat, ratio : Nat]
LazySchedules == [start : Nat, end : Nat, ratio : Nat]

RatioSum(s) == SumFunction([i \in DOMAIN s |-> s[i].ratio])

(* VestingSchedule.IsValid and LazyVestingSchedule.IsValid. *)
IsValidGraded(s) == (\A i \in DOMAIN s : s[i].ratio > 0) /\ RatioSum(s) = DecOne
IsValidLazy(s) ==
  (\A i \in DOMAIN s : s[i].end >= s[i].start /\ s[i].ratio > 0) /\ RatioSum(s) = DecOne

ASSUME VestingAssumption ==
  /\ PreseedAddresses \subseteq Addresses /\ SeedAddresses \subseteq Addresses
  /\ Luna \in Denoms
  /\ OriginalVesting \in [Addresses -> [Denoms -> Nat]]
  /\ \A a \in Addresses : GenesisSchedules[a] # Nil /\ DOMAIN GenesisSchedules[a] = Denoms
  /\ \A a \in Addresses, d \in Denoms :
       GenesisSchedules[a][d] # Nil =>
         GenesisSchedules[a][d] \in Seq(Cliffs) /\ IsValidGraded(GenesisSchedules[a][d])
  /\ Nil \notin Seq(LazySchedules)
  /\ {DecOne, secondsPerMonth, UpdateHeight} \subseteq Nat \ {0}
  /\ Date \in [1 .. 19 -> Nat]
  /\ Amounts \subseteq Nat \ {0} /\ TimeSteps \subseteq Nat \ {0}
  /\ {MaxTime, MaxExtra, MaxRestarts} \subseteq Nat

VARIABLES
  height,            \* block being executed
  now,               \* its time
  addr,              \* the account looked at
  lazy,              \* BaseLazyGradedVestingAccount, else BaseGradedVestingAccount
  schedules,         \* VestingSchedules or LazyVestingSchedules
  coins,             \* Coins
  delegatedFree,     \* DelegatedFree, in Luna
  delegatedVesting,  \* DelegatedVesting, in Luna
  staked,            \* staking module: Luna delegated or unbonding, after slashes
  params,            \* oracle and market parameters: as at genesis, or as updated
  restarts           \* bound counter: restarts so far

accountVars == <<addr, lazy, schedules, coins, delegatedFree, delegatedVesting>>
vars == <<height, now, accountVars, staked, params, restarts>>

TypeOK ==
  /\ height \in 1 .. UpdateHeight + 1 /\ now \in 0 .. MaxTime
  /\ addr \in Addresses
  /\ \A d \in Denoms : schedules[d] # Nil =>
       IF lazy THEN schedules[d] \in Seq(LazySchedules) /\ IsValidLazy(schedules[d])
       ELSE schedules[d] \in Seq(Cliffs) /\ IsValidGraded(schedules[d])
  /\ coins \in [Denoms -> Nat]
  /\ {delegatedFree, delegatedVesting, staked} \subseteq Nat
  /\ params \in {"genesis", "updated"}
  /\ restarts \in 0 .. MaxRestarts

(* A graded account of the genesis file.  It holds what vests; coins beyond *)
(* that, which the file may give it too, are left to Receive.               *)
Init ==
  /\ height = 1 /\ now = 0
  /\ addr \in Addresses
  /\ lazy = FALSE /\ schedules = GenesisSchedules[addr]
  /\ coins = OriginalVesting[addr]
  /\ delegatedFree = 0 /\ delegatedVesting = 0 /\ staked = 0
  /\ params = "genesis"
  /\ restarts = 0

Least(x, y) == IF x <= y THEN x ELSE y
Greatest(x, y) == IF x >= y THEN x ELSE y

-----------------------------------------------------------------------------
(* What has vested *)

GradedRatio(s, t) ==
  SumFunction([i \in DOMAIN s |-> IF t >= s[i].cliff THEN s[i].ratio ELSE 0])

(* Mutant: a schedule that has ended counts nothing. *)
LazyRatioOpen(s, t) ==
  SumFunction([i \in DOMAIN s |->
    IF t < s[i].start \/ t >= s[i].end THEN 0
    ELSE (s[i].ratio * (t - s[i].start)) \div (s[i].end - s[i].start)])

LazyRatio(s, t) ==
  SumFunction([i \in DOMAIN s |->
    IF t < s[i].start THEN 0
    ELSE IF t < s[i].end THEN (s[i].ratio * (t - s[i].start)) \div (s[i].end - s[i].start)
    ELSE s[i].ratio])

(* Vested part of an original amount; without schedule it is vested at once. *)
Vested(isLazy, s, original, t) ==
  IF s = Nil THEN original
  ELSE RoundInt(original * (IF isLazy THEN LazyRatio(s, t) ELSE GradedRatio(s, t)), DecOne)

GetVestedCoins(d, t) == Vested(lazy, schedules[d], OriginalVesting[addr][d], t)

GetVestingCoins(d) == OriginalVesting[addr][d] - GetVestedCoins(d, now)

DelegatedVesting(d) == IF d = Luna THEN delegatedVesting ELSE 0
Delegated(d) == IF d = Luna THEN delegatedFree + delegatedVesting ELSE 0

(* spendableCoins panics on a negative coin, of whatever denomination. *)
Frozen == \E d \in Denoms : coins[d] > 0 /\ coins[d] + DelegatedVesting(d) < GetVestingCoins(d)

(* min((BC + DV) - V, BC). *)
SpendableCoins(d) == Least(coins[d] + DelegatedVesting(d) - GetVestingCoins(d), coins[d])

-----------------------------------------------------------------------------
(* Coins come and go *)

(* Mutant: a delegation is either all of vesting coins or all of free ones. *)
VestingShareUnsplit(n) == IF GetVestingCoins(Luna) - delegatedVesting >= n THEN n ELSE 0

(* X of trackDelegation: min(max(V - DV, 0), D). *)
VestingShare(n) == Least(Greatest(GetVestingCoins(Luna) - delegatedVesting, 0), n)

Receive(d, n) ==
  /\ coins[d] + Delegated(d) + n <= OriginalVesting[addr][d] + MaxExtra
  /\ coins' = [coins EXCEPT ![d] = @ + n]
  /\ UNCHANGED <<height, now, addr, lazy, schedules, delegatedFree, delegatedVesting,
                 staked, params, restarts>>

(* A payment, a fee, a swap or a deposit: bank.SubtractCoins. *)
Spend(d, n) ==
  /\ ~Frozen
  /\ n <= SpendableCoins(d)
  /\ coins' = [coins EXCEPT ![d] = @ - n]
  /\ UNCHANGED <<height, now, addr, lazy, schedules, delegatedFree, delegatedVesting,
                 staked, params, restarts>>

(* bank.DelegateCoins; vesting coins may be delegated too. *)
TrackDelegation(n) ==
  /\ n <= coins[Luna]
  /\ delegatedVesting' = delegatedVesting + VestingShare(n)
  /\ delegatedFree' = delegatedFree + n - VestingShare(n)
  /\ coins' = [coins EXCEPT ![Luna] = @ - n]
  /\ staked' = staked + n
  /\ UNCHANGED <<height, now, addr, lazy, schedules, params, restarts>>

(* Mutant: all coins come back as free ones. *)
FreeReturnedAll(n) == n

(* X of TrackUndelegation: free coins come back first. *)
FreeReturned(n) == Least(delegatedFree, n)

(* An unbonding delegation matures: bank.UndelegateCoins. *)
TrackUndelegation(n) ==
  /\ n <= staked
  /\ delegatedFree' = delegatedFree - FreeReturned(n)
  /\ delegatedVesting' = delegatedVesting - (n - FreeReturned(n))
  /\ coins' = [coins EXCEPT ![Luna] = @ + n]
  /\ staked' = staked - n
  /\ UNCHANGED <<height, now, addr, lazy, schedules, params, restarts>>

(* A validator is slashed; the account is not told. *)
Slash(n) ==
  /\ n <= staked
  /\ staked' = staked - n
  /\ UNCHANGED <<height, now, accountVars, params, restarts>>

-----------------------------------------------------------------------------
(* Update 230000 *)

Tenth(n) == (n * DecOne) \div 10
Thousandth(n) == (n * DecOne) \div 1000
Mul(x, y) == RoundInt(x * y, DecOne)

Cliff(month, ratio) == [cliff |-> Date[month], ratio |-> ratio]
From(m, n, ratio) == [start |-> Date[m], end |-> Date[n], ratio |-> ratio]

(* The only vesting schedule is one of Luna. *)
OnlyLuna(s) == \A d \in Denoms : s[d] # Nil <=> d = Luna

(* Every cliff is one of those expected, and there are as many. *)
Strictly(s, expected, n) ==
  OnlyLuna(s) /\ Len(s[Luna]) = n /\ Range(s[Luna]) \subseteq expected

IsPreseed(s) ==
  Strictly(s, {Cliff(m, Tenth(1)) : m \in 1 .. 3} \cup {Cliff(12, Tenth(7))}, 4)

IsSeed(a, s) ==
  IF a = SplitSeed
  THEN Strictly(s, {Cliff(m, Thousandth(47)) : m \in 1 .. 3} \cup
                {Cliff(10, Thousandth(326)), Cliff(18, Thousandth(533))}, 5)
  ELSE Strictly(s, {Cliff(m, Tenth(1)) : m \in 1 .. 3} \cup
                {Cliff(m, Tenth(7)) : m \in {9, 10}}, 4)

PreseedSchedule ==
  <<From(1, 2, Tenth(1)), From(2, 12, Thousandth(270)),
    From(12, 17, Thousandth(480)), From(17, 18, Thousandth(150))>>

(* Mutant: the part of the split seed address that vests later is forgotten. *)
SeedScheduleShort(a) ==
  LET ratio == IF a = SplitSeed THEN Thousandth(467) ELSE DecOne
  IN  <<From(1, 2, Mul(ratio, Tenth(1))), From(2, 10, Mul(ratio, Tenth(3))),
        From(10, 13, Mul(ratio, Tenth(6)))>>

SeedSchedule(a) ==
  LET ratio == IF a = SplitSeed THEN Thousandth(467) ELSE DecOne
  IN  <<From(1, 2, Mul(ratio, Tenth(1))), From(2, 10, Mul(ratio, Tenth(3))),
        From(10, 13, Mul(ratio, Tenth(6)))>>
      \o (IF ratio = DecOne THEN <<>> ELSE <<From(18, 19, DecOne - ratio)>>)

(* Mutant: the month ends at the cliff. *)
SpreadBefore(s) ==
  [i \in DOMAIN s |-> [start |-> Greatest(s[i].cliff - secondsPerMonth, 0),
                       end |-> s[i].cliff, ratio |-> s[i].ratio]]

(* Any other cliff becomes a month of linear vesting. *)
Spread(s) ==
  [i \in DOMAIN s |-> [start |-> s[i].cliff, end |-> s[i].cliff + secondsPerMonth,
                       ratio |-> s[i].ratio]]

OfLuna(s) == [d \in Denoms |-> IF d = Luna THEN s ELSE Nil]

UpdatedSchedules(a, s) ==
  IF a \in PreseedAddresses THEN OfLuna(PreseedSchedule)
  ELSE IF a \in SeedAddresses THEN OfLuna(SeedSchedule(a))
  ELSE [d \in Denoms |-> IF s[d] = Nil THEN Nil ELSE Spread(s[d])]

AllValid(isLazy, s) ==
  \A d \in Denoms : s[d] # Nil => IF isLazy THEN IsValidLazy(s[d]) ELSE IsValidGraded(s[d])

(* Update230000 panics, and the chain stops, on an account it does not expect. *)
UpdateAccepts ==
  /\ addr \in PreseedAddresses => IsPreseed(schedules)
  /\ addr \in SeedAddresses => IsSeed(addr, schedules)
  /\ AllValid(TRUE, UpdatedSchedules(addr, schedules))

(* An account already converted is left as it is. *)
Update230000 ==
  /\ ~lazy => UpdateAccepts
  /\ schedules' = IF lazy THEN schedules ELSE UpdatedSchedules(addr, schedules)
  /\ lazy' = TRUE
  /\ params' = "updated"

(* The update is the last to run at the end of a block.  Heights above the  *)
(* update's differ in nothing.                                              *)
EndBlock(dt) ==
  /\ IF height = UpdateHeight THEN Update230000 ELSE UNCHANGED <<lazy, schedules, params>>
  /\ height' = Least(height + 1, UpdateHeight + 1)
  /\ now' = Least(now + dt, MaxTime)
  /\ UNCHANGED <<addr, coins, delegatedFree, delegatedVesting, staked, restarts>>

-----------------------------------------------------------------------------
(* Export and genesis *)

NewGenesisAccountI ==
  [Coins |-> coins, DelegatedFree |-> delegatedFree, DelegatedVesting |-> delegatedVesting,
   VestingSchedules |-> IF lazy THEN Nil ELSE schedules,
   LazyVestingSchedules |-> IF lazy THEN schedules ELSE Nil]

(* initFromGenesisState panics on a vesting account it does not accept. *)
validateGenesisStateAccounts(ga) ==
  IF ga.VestingSchedules # Nil THEN AllValid(FALSE, ga.VestingSchedules)
  ELSE ga.LazyVestingSchedules # Nil /\ AllValid(TRUE, ga.LazyVestingSchedules)

(* Mutant: delegated coins come back without what they are tracked as. *)
ToAccountUntracked(ga) ==
  /\ coins' = ga.Coins
  /\ delegatedFree' = 0
  /\ delegatedVesting' = 0
  /\ lazy' = (ga.VestingSchedules = Nil)
  /\ schedules' = IF ga.VestingSchedules # Nil THEN ga.VestingSchedules
                  ELSE ga.LazyVestingSchedules

ToAccount(ga) ==
  /\ coins' = ga.Coins
  /\ delegatedFree' = ga.DelegatedFree
  /\ delegatedVesting' = ga.DelegatedVesting
  /\ lazy' = (ga.VestingSchedules = Nil)
  /\ schedules' = IF ga.VestingSchedules # Nil THEN ga.VestingSchedules
                  ELSE ga.LazyVestingSchedules

(* The chain is exported for height zero and started again: parameters and  *)
(* delegations are carried over, the height is not.                         *)
Restart ==
  /\ restarts < MaxRestarts /\ restarts' = restarts + 1
  /\ height' = 1
  /\ validateGenesisStateAccounts(NewGenesisAccountI)
  /\ ToAccount(NewGenesisAccountI)
  /\ UNCHANGED <<now, addr, staked, params>>

Block == \E dt \in TimeSteps : EndBlock(dt)

Next ==
  \/ \E d \in Denoms, n \in Amounts : Receive(d, n) \/ Spend(d, n)
  \/ \E n \in Amounts : TrackDelegation(n) \/ TrackUndelegation(n) \/ Slash(n)
  \/ Block
  \/ Restart

Spec == Init /\ [][Next]_vars /\ WF_vars(Block)

-----------------------------------------------------------------------------
(* Properties *)

(* Until the update, the coins at hand and those delegated as vesting       *)
(* together cover what is still vesting, whatever the account spends,       *)
(* delegates and gets back, at whatever times and after whatever slashes:   *)
(* spendableCoins never meets a negative amount (SpendableCoins,            *)
(* trackDelegation, TrackUndelegation).                                     *)
VestingCovered ==
  params = "genesis" =>
    \A d \in Denoms : coins[d] + DelegatedVesting(d) >= GetVestingCoins(d)

(* Staking never returns more than the account tracks as delegated, so that *)
(* TrackUndelegation subtracts no more than there is.                       *)
StakeTracked == staked <= delegatedFree + delegatedVesting

(* For an account the update does not name, the converted schedule is never *)
(* ahead of its cliffs and never more than a month behind (Update230000,    *)
(* LazyVestingSchedule.GetVestedRatio).                                     *)
SpreadWithinMonth ==
  lazy /\ addr \notin PreseedAddresses \cup SeedAddresses =>
    \A d \in Denoms : GenesisSchedules[addr][d] # Nil =>
      LET byCliffs == RoundInt(OriginalVesting[addr][d]
                                 * GradedRatio(GenesisSchedules[addr][d], now), DecOne)
      IN  GetVestedCoins(d, now) <= byCliffs /\ byCliffs <= GetVestedCoins(d, now + secondsPerMonth)

(* A delegation, an undelegation, a slash and a restart are invisible to    *)
(* the promise of the account: only a payment lowers its worth, never below *)
(* what is locked, and only the update locks more (LockedFunds).            *)
Promise == INSTANCE LockedFunds WITH
  worth <- [d \in Denoms |-> coins[d] + Delegated(d)],
  locked <- [d \in Denoms |-> GetVestingCoins(d)],
  rescheduled <- (params = "updated")

KeepsPromise == Promise!Spec

(* In the end the update is made and nothing is vesting any more, on chains *)
(* that are restarted as well: no account fails the strict checks, whose    *)
(* panic would stop the chain, every new schedule adds up in spite of       *)
(* truncated shares, and an account the update has frozen can be used again *)
(* (Update230000, GetVestedRatio).                                          *)
FullyVests ==
  <>[](params = "updated" /\ \A d \in Denoms : GetVestingCoins(d) = 0)

(* SpendableCoins returns what can be spent: it never panics.  The update   *)
(* makes coins vest again that were free and may have been spent.           *)
SpendableCoinsReturns == ~Frozen

=============================================================================
