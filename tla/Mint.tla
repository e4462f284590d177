-------------------------------- MODULE Mint --------------------------------
(***************************************************************************)
(* x/mint: the issuance of each denomination, kept as one snapshot per     *)
(* day that is written lazily.  Reading a day copies the last snapshot     *)
(* forward over the gap; the first touch of a denomination counts the      *)
(* coins in the accounts.  Coins held elsewhere (bonded, collected as      *)
(* fees, owed as rewards) are outside the accounts and are not counted.    *)
(*                                                                         *)
(* The operators take the snapshots and the balances they start from, so   *)
(* that a handler can call them one after the other.                       *)
(***************************************************************************)
EXTENDS Functions, FiniteSets, ChainUtil

CONSTANTS
  Accounts,      \* owners of coins
  Denoms,        \* denominations
  Nil,           \* a day without a snapshot
  BlocksPerDay,  \* util.BlocksPerDay
  MaxHeight      \* bound: last height explored

ASSUME MintAssumption ==
  /\ Nil \notin Nat /\ IsFiniteSet(Accounts)
  /\ BlocksPerDay \in Nat \ {0}
  /\ MaxHeight \in Nat \ {0}

Days == 0 .. Period(MaxHeight, BlocksPerDay)

VARIABLES
  height,    \* block being executed
  balances,  \* bank module: coins in the accounts
  outside,   \* coins that exist outside the accounts
  issuance   \* store "issuance:denom:day"

mintVars == <<height, balances, outside, issuance>>

Today == Period(height, BlocksPerDay)

MintTypeOK ==
  /\ height \in 0 .. MaxHeight
  /\ balances \in [Denoms -> [Accounts -> Nat]]
  /\ outside \in [Denoms -> Nat]
  /\ issuance \in [Denoms -> [Days -> Nat \cup {Nil}]]

InAccounts(bal, d) == SumFunction(bal[d])

(* The days up to `day' that have a snapshot of d. *)
StoredDays(iss, d, day) == {k \in 0 .. day : iss[d][k] # Nil}

LastStored(iss, d, day) ==
  CHOOSE k \in StoredDays(iss, d, day) : \A j \in StoredDays(iss, d, day) : j <= k

(* The value GetIssuance returns. *)
GetIssuance(iss, bal, d, day) ==
  IF StoredDays(iss, d, day) = {} THEN InAccounts(bal, d) ELSE iss[d][LastStored(iss, d, day)]

(* Mutant: only the day that is read is written. *)
FillOneDay(iss, bal, d, day) ==
  [iss EXCEPT ![d][day] = GetIssuance(iss, bal, d, day)]

(* The snapshots GetIssuance leaves behind: no gap up to `day'. *)
FillIssuance(iss, bal, d, day) ==
  [iss EXCEPT ![d] = [k \in Days |->
     IF k <= day /\ \A j \in k .. day : iss[d][j] = Nil
     THEN GetIssuance(iss, bal, d, day) ELSE @[k]]]

(* Mutant: the change is applied to what the first touch has just counted. *)
ChangeCounted(iss, bal, d, delta, day) ==
  [FillIssuance(iss, bal, d, day) EXCEPT ![d][day] = GetIssuance(iss, bal, d, day) + delta]

(* Mutant: the change is written to the last stored snapshot. *)
ChangeLastSnapshot(iss, bal, d, delta, day) ==
  IF iss[d][0] = Nil
  THEN FillIssuance(iss, bal, d, day)
  ELSE FillIssuance([iss EXCEPT ![d][LastStored(iss, d, day)] = @ + delta], bal, d, day)

(* ChangeIssuance: the first touch counts the accounts, which already hold  *)
(* the change; later the change is applied to today's snapshot.             *)
ChangeIssuance(iss, bal, d, delta, day) ==
  IF iss[d][0] = Nil
  THEN FillIssuance(iss, bal, d, day)
  ELSE [FillIssuance(iss, bal, d, day) EXCEPT ![d][day] = GetIssuance(iss, bal, d, day) + delta]

(* Mutant: the sign of the new issuance is not checked. *)
IssuanceUnchecked(iss, bal, d, delta, day) == TRUE

(* It fails rather than let the issuance become negative. *)
IssuanceCovers(iss, bal, d, delta, day) ==
  iss[d][0] = Nil \/ GetIssuance(iss, bal, d, day) + delta >= 0

Credit(bal, d, a, amt) == [bal EXCEPT ![d][a] = @ + amt]

-----------------------------------------------------------------------------
(* Properties *)

Touched(d) == issuance[d][0] # Nil

CurrentIssuance(d) == GetIssuance(issuance, balances, d, Today)

Supply(d) == InAccounts(balances, d) + outside[d]

(* The snapshots have no gap: a denomination that was ever touched has one  *)
(* for every day from 0 to the last day of a change, so reading an earlier  *)
(* day never falls back to counting accounts of a later state.              *)
SnapshotsContiguous ==
  \A d \in Denoms, day \in Days : issuance[d][day] # Nil =>
    \A k \in 0 .. day : issuance[d][k] # Nil

(* Snapshots are never written for the future, and a snapshot of a day that *)
(* is over is final: the daily cap and the seigniorage of an epoch are      *)
(* computed from it after the fact (ChangeIssuance, GetIssuance).           *)
PastIsFinal ==
  [][\A d \in Denoms, day \in Days :
       /\ day < Today /\ issuance[d][day] # Nil => issuance'[d][day] = issuance[d][day]
       /\ day > Today' => issuance'[d][day] = Nil]_mintVars

(* Issuance follows supply: once a denomination has been touched, every     *)
(* step changes its current issuance by exactly the change of the coins in  *)
(* existence, and the touch itself counts the accounts as they are after    *)
(* the step (Mint, Burn, ChangeIssuance and the lazily written days).       *)
IssuanceFollowsSupply ==
  [][\A d \in Denoms :
       /\ Touched(d) => CurrentIssuance(d)' - CurrentIssuance(d) = Supply(d)' - Supply(d)
       /\ ~Touched(d) /\ Touched(d)' => CurrentIssuance(d)' = InAccounts(balances, d)']_mintVars

=============================================================================
