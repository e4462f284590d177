------------------------------- MODULE Market -------------------------------
(***************************************************************************)
(* x/market on top of x/mint: atomic swaps at the oracle's exchange rates, *)
(* with a spread and a daily cap on swaps that involve Luna.  The spread   *)
(* goes to the oracle's swap fee pool, which is issued only when the       *)
(* oracle distributes it.  Decimals are integers in units of 1/DecOne.     *)
(***************************************************************************)
EXTENDS Mint

CONSTANTS
  Luna,          \* the staking denomination
  Rates,         \* exchange rates the oracle may set, in units of 1/DecOne
  DecOne,        \* the denominator of sdk.Dec
  DailyCap,      \* params.DailyLunaDeltaCap
  MinSpread,     \* params.MinSwapSpread
  MaxSpread,     \* params.MaxSwapSpread
  Offers,        \* amounts offered
  Genesis,       \* coins of each denomination in each account at genesis
  Bonded,        \* Luna outside the accounts at genesis
  MaxMoves       \* bound: moves between the accounts and outside

ASSUME MarketAssumption ==
  /\ Luna \in Denoms
  /\ Rates \subseteq Nat \ {0}
  /\ DecOne \in Nat \ {0}
  /\ DailyCap \in Nat
  /\ MinSpread \in Nat /\ MaxSpread \in Nat /\ MinSpread <= MaxSpread
  /\ Offers \subseteq Nat
  /\ Genesis \in Nat /\ Bonded \in Nat /\ MaxMoves \in Nat

VARIABLES
  rates,       \* oracle store "price:denom": the denomination's price of a Luna
  feePool,     \* oracle store "swapfeepool"
  moves        \* bound counter: moves between the accounts and outside

marketVars == <<rates, feePool, moves>>
vars == <<mintVars, marketVars>>

TypeOK ==
  /\ MintTypeOK
  /\ rates \in [Denoms -> Rates \cup {DecOne, Nil}]
  /\ feePool \in [Denoms -> Nat]
  /\ moves \in 0 .. MaxMoves

(* initChainer reads the Luna issuance once the genesis accounts are loaded. *)
Init ==
  /\ height = 1
  /\ balances = [d \in Denoms |-> [a \in Accounts |-> Genesis]]
  /\ outside = [d \in Denoms |-> IF d = Luna THEN Bonded ELSE 0]
  /\ issuance = FillIssuance([d \in Denoms |-> [day \in Days |-> Nil]], balances, Luna, 0)
  /\ rates = [d \in Denoms |-> IF d = Luna THEN DecOne ELSE Nil]
  /\ feePool = [d \in Denoms |-> 0]
  /\ moves = 0

-----------------------------------------------------------------------------
Abs(n) == IF n < 0 THEN -n ELSE n

(* sdk.Dec Quo and Mul round half to even in the last place. *)
Quo(x, y) == RoundInt(x * DecOne, y)
Mul(x, y) == RoundInt(x * y, DecOne)

(* Mutant: the quotient is rounded to the nearest coin. *)
RetAmountRounded(offer, amt, ask) == RoundInt(Quo(amt * rates[ask], rates[offer]), DecOne)

(* The amount of ask before the spread: a whole number times a decimal is   *)
(* exact, the quotient is rounded to a decimal and truncated to coins.      *)
RetAmount(offer, amt, ask) == Quo(amt * rates[ask], rates[offer]) \div DecOne

(* ComputeLunaDelta, absolute: no limit on day 0, nor without issuance. *)
LunaDelta(change) ==
  IF Today = 0 THEN 0
  ELSE LET prev == GetIssuance(issuance, balances, Luna, Today - 1)
           cur == GetIssuance(issuance, balances, Luna, Today)
       IN  IF prev = 0 THEN 0 ELSE (Abs(cur + change - prev) * DecOne) \div prev

(* The change of the Luna issuance a swap would make. *)
LunaChange(offer, amt, ask) == IF offer = Luna THEN -amt ELSE RetAmount(offer, amt, ask)

ChargesSpread(offer, ask) == Luna \in {offer, ask}

(* Mutant: the cap is not enforced on deflation. *)
CapAllowsDeflation(offer, amt, ask) ==
  ChargesSpread(offer, ask) =>
    /\ offer = Luna \/ LunaDelta(LunaChange(offer, amt, ask)) <= DailyCap
    /\ DailyCap # 0

(* Beyond the cap the swap fails; a zero cap divides by zero, which fails too. *)
CapAllows(offer, amt, ask) ==
  ChargesSpread(offer, ask) =>
    /\ LunaDelta(LunaChange(offer, amt, ask)) <= DailyCap
    /\ DailyCap # 0

Spread(offer, amt, ask) ==
  IF ~ChargesSpread(offer, ask) THEN 0
  ELSE MinSpread + Mul(Quo(LunaDelta(LunaChange(offer, amt, ask)), DailyCap),
                       MaxSpread - MinSpread)

SwapFee(offer, amt, ask) ==
  (Spread(offer, amt, ask) * RetAmount(offer, amt, ask)) \div DecOne

(* What is left for the trader once the spread has been taken. *)
MintedAmount(offer, amt, ask) ==
  RetAmount(offer, amt, ask) - SwapFee(offer, amt, ask)

(* Fee to the pool, burn of the offer, mint of the rest: all or nothing. *)
handleMsgSwap(trader, offer, amt, ask) ==
  LET minted == MintedAmount(offer, amt, ask)
      bal1 == Credit(balances, offer, trader, -amt)
      iss1 == ChangeIssuance(issuance, bal1, offer, -amt, Today)
      bal2 == Credit(bal1, ask, trader, minted)
  IN  /\ offer # ask
      /\ rates[offer] # Nil /\ rates[ask] # Nil
      /\ RetAmount(offer, amt, ask) # 0
      /\ CapAllows(offer, amt, ask)
      /\ amt > 0 /\ balances[offer][trader] >= amt
      /\ IssuanceCovers(issuance, bal1, offer, -amt, Today)
      /\ minted > 0
      /\ balances' = bal2
      /\ issuance' = ChangeIssuance(iss1, bal2, ask, minted, Today)
      /\ feePool' = [feePool EXCEPT ![ask] = @ + SwapFee(offer, amt, ask)]
      /\ UNCHANGED <<height, outside, rates, moves>>

(* Transaction fees and delegations take coins out of the accounts, rewards *)
(* and unbonding bring them back; neither touches the issuance.             *)
LeaveAccounts(a, d) ==
  /\ balances[d][a] > 0
  /\ balances' = Credit(balances, d, a, -1)
  /\ outside' = [outside EXCEPT ![d] = @ + 1]
  /\ moves < MaxMoves /\ moves' = moves + 1
  /\ UNCHANGED <<height, issuance, rates, feePool>>

EnterAccounts(a, d) ==
  /\ outside[d] > 0
  /\ balances' = Credit(balances, d, a, 1)
  /\ outside' = [outside EXCEPT ![d] = @ - 1]
  /\ moves < MaxMoves /\ moves' = moves + 1
  /\ UNCHANGED <<height, issuance, rates, feePool>>

(* Distribution of the whole fee pool by the oracle, coin by coin: issued,  *)
(* and owed to validators or held by the fee collector.                     *)
PayFee(iss, d) ==
  IF feePool[d] = 0 THEN iss[d] ELSE ChangeIssuance(iss, balances, d, feePool[d], Today)[d]

DistributeFees ==
  /\ issuance' = [d \in Denoms |-> PayFee(issuance, d)]
  /\ outside' = [d \in Denoms |-> outside[d] + feePool[d]]
  /\ feePool' = [d \in Denoms |-> 0]

(* End of a block: the oracle may pay the fees and set new rates. *)
EndBlock(pays, newRates) ==
  /\ height < MaxHeight
  /\ height' = height + 1
  /\ IF pays THEN DistributeFees ELSE UNCHANGED <<issuance, outside, feePool>>
  /\ rates' = newRates
  /\ UNCHANGED <<balances, moves>>

NewRates ==
  {r \in [Denoms -> Rates \cup {DecOne, Nil}] :
     r[Luna] = DecOne /\ \A d \in Denoms \ {Luna} : r[d] \in Rates \cup {Nil}}

Next ==
  \/ \E a \in Accounts, offer, ask \in Denoms, amt \in Offers : handleMsgSwap(a, offer, amt, ask)
  \/ \E a \in Accounts, d \in Denoms : LeaveAccounts(a, d) \/ EnterAccounts(a, d)
  \/ \E pays \in BOOLEAN, r \in NewRates : EndBlock(pays, r)

Spec == Init /\ [][Next]_vars

-----------------------------------------------------------------------------
(* Properties *)

(* Deviation of an issuance from yesterday's, in the units of the cap. *)
DayDelta(iss) ==
  LET prev == GetIssuance(issuance, balances, Luna, Today - 1)
  IN  (Abs(iss - prev) * DecOne) \div prev

(* Daily cap: after day 0 no swap takes the Luna issuance of the day beyond *)
(* the cap around yesterday's close; issuance that fee distribution pushed  *)
(* beyond it can only be brought back (GetSwapCoin with ComputeLunaDelta,   *)
(* which look at the amount before the spread, and the two issuance         *)
(* updates of handleMsgSwap).                                               *)
SwapsWithinCap ==
  [][height' = height /\ Today > 0 /\ GetIssuance(issuance, balances, Luna, Today - 1) > 0 =>
       LET before == DayDelta(CurrentIssuance(Luna))
           after == DayDelta(CurrentIssuance(Luna)')
       IN  after <= DailyCap \/ after <= before]_vars

(* Swaps create no value but rounding: at the rates of the swap, the coins  *)
(* it creates, unissued fees included, exceed the worth of the coins it     *)
(* burns by at most half of the last decimal place of one coin.  The        *)
(* excess is real: Quo rounds up before TruncateInt, so a quotient just     *)
(* below a whole number yields the whole coin.  As coins are whole, no      *)
(* value at all is created when the offered denomination is priced below    *)
(* 2 per Luna, Luna itself included (GetSwapCoin, and the spread, fee pool, *)
(* burn and mint of handleMsgSwap).                                         *)
SwapsGainOnlyRounding ==
  [][\A x, y \in Denoms :
       height' = height /\ Supply(x)' < Supply(x) /\ Supply(y)' > Supply(y) =>
         LET created == Supply(y)' + feePool'[y] - Supply(y) - feePool[y]
             burned == Supply(x) - Supply(x)'
         IN  2 * DecOne * (created * rates[x] - burned * rates[y]) <= rates[x]]_vars

=============================================================================
