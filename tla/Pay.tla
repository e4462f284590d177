-------------------------------- MODULE Pay --------------------------------
(***************************************************************************)
(* x/pay: transfers that pay the stability tax min(principal * rate, cap)  *)
(* in every coin they send, composed with the treasury that sets rate and  *)
(* cap, and with the swaps that mint and burn Luna.  A transaction that    *)
(* fails leaves no trace in the store, so only successful ones are steps.  *)
(***************************************************************************)
EXTENDS Treasury

CONSTANTS
  Principals,    \* coins one account sends: amounts by denomination
  LunaAmounts,   \* amounts of Luna minted or burned by swaps
  SDRRates,      \* prices of a Luna in SDR the oracle may set, in units of 1/DecOne
  Genesis,       \* coins of each denomination in each account at genesis
  SendEnabled,   \* bank parameter
  MaxTxs,        \* bound: transactions explored
  MaxRestarts,   \* bound: restarts explored
  RestartHeights \* bound: heights at which they are explored

ASSUME PayAssumption ==
  /\ Principals \subseteq [Denoms -> Nat]
  /\ LunaAmounts \subseteq Nat \ {0}
  /\ SDRRates \subseteq Nat \ {0}
  /\ {Genesis, MaxTxs, MaxRestarts} \cup RestartHeights \subseteq Nat
  /\ SendEnabled \in BOOLEAN

VARIABLES
  delivered,     \* whether the block being executed has a transaction
  txs,           \* bound counter: transactions so far
  restarts       \* bound counter: restarts so far

vars == <<mintVars, treasuryVars, delivered, txs, restarts>>

TypeOK ==
  /\ MintTypeOK /\ TreasuryTypeOK
  /\ delivered \in BOOLEAN
  /\ txs \in 0 .. MaxTxs /\ restarts \in 0 .. MaxRestarts

(* initChainer counts the Luna in the accounts. *)
FirstCount == FillIssuance([d \in Denoms |-> [day \in Days |-> Nil]], balances, Luna, 0)

Init ==
  /\ height = 1
  /\ balances = [d \in Denoms |-> [a \in Accounts |-> Genesis]]
  /\ outside = [d \in Denoms |-> 0]
  /\ issuance = FirstCount
  /\ TreasuryInit
  /\ delivered = FALSE /\ txs = 0 /\ restarts = 0

-----------------------------------------------------------------------------
(* GetTaxCap: the stored cap, else the reference cap at the oracle's rates, *)
(* else, without a rate or below one coin, the reference amount as it is.   *)
SwappedCap(d) == Quo(ReferenceCap * rates[d], rates[SDR]) \div DecOne

GetTaxCap(d) ==
  IF taxCap[d] # Nil THEN taxCap[d]
  ELSE IF rates[d] = Nil \/ rates[SDR] = Nil \/ SwappedCap(d) = 0 THEN ReferenceCap
  ELSE SwappedCap(d)

CurrentTaxRate == InForce(taxRate, Epoch)

(* The tax payTax takes on an amount of d. *)
TaxDue(d, amount) == Least((amount * CurrentTaxRate) \div DecOne, GetTaxCap(d))

NoCoins == [d \in Denoms |-> 0]

Deliver ==
  /\ txs < MaxTxs /\ txs' = txs + 1
  /\ delivered' = TRUE
  /\ UNCHANGED restarts

(* The coins all accounts together send, and the tax all together pay. *)
SentCoins(inputs, d) == SumFunction([a \in Accounts |-> inputs[a][d]])
TotalTax(inputs, d) == SumFunction([a \in Accounts |-> TaxDue(d, inputs[a][d])])

(* Mutant: only the principal has to be covered. *)
CoversPrincipal(inputs) ==
  \A a \in Accounts, d \in Denoms : balances[d][a] >= inputs[a][d]

(* Every input can pay its tax and then its principal, before any output. *)
Covers(inputs) ==
  \A a \in Accounts, d \in Denoms : balances[d][a] >= inputs[a][d] + TaxDue(d, inputs[a][d])

(* Mutant: the proceeds of the epoch start again with every payment. *)
RecordLastProceeds(inputs) ==
  [proceeds EXCEPT ![Epoch] = [d \in Denoms |-> TotalTax(inputs, d)]]

(* RecordTaxProceeds of every input. *)
RecordTaxProceeds(inputs) ==
  [proceeds EXCEPT ![Epoch] = [d \in Denoms |-> @[d] + TotalTax(inputs, d)]]

(* payTax of every input, then all inputs are taken and the output is paid. *)
Transfer(inputs, to) ==
  /\ SendEnabled
  /\ Covers(inputs)
  /\ balances' = [d \in Denoms |-> [a \in Accounts |->
       balances[d][a] - inputs[a][d] - TaxDue(d, inputs[a][d])
         + (IF a = to THEN SentCoins(inputs, d) ELSE 0)]]
  /\ outside' = [d \in Denoms |-> outside[d] + TotalTax(inputs, d)]
  /\ taxRate' = FillTaxRate(Epoch)
  /\ taxCap' = [d \in Denoms |->
       IF CurrentTaxRate > 0 /\ SentCoins(inputs, d) > 0 THEN GetTaxCap(d) ELSE taxCap[d]]
  /\ proceeds' = RecordTaxProceeds(inputs)
  /\ Deliver
  /\ UNCHANGED <<height, issuance, rewardWeight, rates, paid>>

handleMsgSend(from, to, coins) ==
  Transfer([a \in Accounts |-> IF a = from THEN coins ELSE NoCoins], to)

(* Two or more inputs and one output; totals are equal by construction. *)
handleMsgMultiSend(payers, coins, to) ==
  Transfer([a \in Accounts |-> IF a \in payers THEN coins ELSE NoCoins], to)

(* A swap mints Luna for the trader, or burns it. *)
SwapLuna(a, delta) ==
  /\ balances[Luna][a] + delta >= 0
  /\ IssuanceCovers(issuance, Credit(balances, Luna, a, delta), Luna, delta, Today)
  /\ balances' = Credit(balances, Luna, a, delta)
  /\ issuance' = ChangeIssuance(issuance, balances', Luna, delta, Today)
  /\ Deliver
  /\ UNCHANGED <<height, outside, treasuryVars>>

(* End of a block: oracle, budget and treasury, in this order. *)
EndBlock(rate) ==
  /\ height < MaxHeight
  /\ height' = height + 1
  /\ TreasuryEndBlocker([rates EXCEPT ![SDR] = rate])
  /\ delivered' = FALSE
  /\ UNCHANGED <<balances, outside, txs, restarts>>

(* The committed state is exported and a new chain starts from it: accounts *)
(* and collected fees are carried over, the issuance is counted again.      *)
Restart ==
  /\ restarts < MaxRestarts /\ restarts' = restarts + 1
  /\ height > 1 /\ height \in RestartHeights /\ ~delivered
  /\ height' = 1
  /\ TreasuryRestart
  /\ issuance' = FirstCount
  /\ UNCHANGED <<balances, outside, delivered, txs>>

Next ==
  \/ \E from, to \in Accounts, coins \in Principals : handleMsgSend(from, to, coins)
  \/ \E payers \in SUBSET Accounts, coins \in Principals, to \in Accounts :
       Cardinality(payers) > 1 /\ handleMsgMultiSend(payers, coins, to)
  \/ \E a \in Accounts, n \in LunaAmounts : SwapLuna(a, n) \/ SwapLuna(a, -n)
  \/ \E rate \in SDRRates \cup {Nil} : EndBlock(rate)
  \/ Restart

Spec == Init /\ [][Next]_vars

-----------------------------------------------------------------------------
(* Properties *)

(* Every lever of every epoch, stored or still to be filled in, lies within *)
(* the range of its policy: Clamp limits the change after the range, which  *)
(* must not lead out of it again.                                           *)
LeversWithinPolicy ==
  \A e \in 0 .. Epoch :
    /\ InForce(taxRate, e) \in TaxPolicy.min .. TaxPolicy.max
    /\ InForce(rewardWeight, e) \in RewardPolicy.min .. RewardPolicy.max

Distance(x, y) == IF x < y THEN y - x ELSE x - y

Restarted == restarts' # restarts

(* On one chain, what payers and claimants face moves only at the turn of   *)
(* an epoch, after the probation, and by no more than the policy's largest  *)
(* change, whatever was or was not read in the epochs before (EndBlocker,   *)
(* GetTaxRate, GetRewardWeight and the carry-over of the last stored value). *)
LeversMoveSlowly ==
  [][Restarted \/
     LET before == <<InForce(taxRate, Epoch), InForce(rewardWeight, Epoch)>>
         after == <<InForce(taxRate, Epoch)', InForce(rewardWeight, Epoch)'>>
     IN  /\ before # after => Epoch' # Epoch /\ Epoch' >= WindowProbation
         /\ Distance(before[1], after[1]) <= TaxPolicy.change
         /\ Distance(before[2], after[2]) <= RewardPolicy.change]_vars

(* The past of a chain is final: the levers of an epoch that is over, its proceeds and *)
(* its seigniorage never change again, although stores are filled late and  *)
(* the indicators of later epochs read them (GetTaxRate, GetRewardWeight,   *)
(* RecordTaxProceeds, PeekEpochSeigniorage, GetIssuance).                   *)
PastEpochsFinal ==
  [][Restarted \/ \A e \in 0 .. Epoch - 1 :
       /\ InForce(taxRate, e)' = InForce(taxRate, e)
       /\ InForce(rewardWeight, e)' = InForce(rewardWeight, e)
       /\ proceeds'[e] = proceeds[e]
       /\ PeekEpochSeigniorage(e)' = PeekEpochSeigniorage(e)]_vars

(* Every coin of tax taken from a payer is recorded in exactly one epoch,   *)
(* and transfers create and destroy nothing (payTax, AddCollectedFees,      *)
(* RecordTaxProceeds).                                                      *)
TaxesAccounted ==
  /\ restarts = 0 => \A d \in Denoms : outside[d] = SumFunction([e \in Epochs |-> proceeds[e][d]])
  /\ \A d \in Denoms \ {Luna} : Supply(d) = Genesis * Cardinality(Accounts)

(* Seigniorage is counted once: as long as the Luna issuance did not shrink *)
(* over an epoch, the seigniorage of the epochs that are over adds up to    *)
(* the growth of the issuance since day 0; no day is missed or counted in   *)
(* two epochs (PeekEpochSeigniorage).                                       *)
SeigniorageCountedOnce ==
  \A e \in 0 .. Epoch - 1 :
    LET LastDay(k) == (k + 1) * DaysPerEpoch - 1
        Opening(k) == IF k = 0 THEN 0 ELSE LastDay(k - 1)
    IN  (\A k \in 0 .. e : LunaIssued(Opening(k)) <= LunaIssued(LastDay(k))) =>
          SumFunction([k \in 0 .. e |-> PeekEpochSeigniorage(k)])
            = LunaIssued(LastDay(e)) - LunaIssued(0)

(* The budget pays an epoch with the weight that the treasury stored at the *)
(* end of the epoch before, which the store lists under that earlier epoch: *)
(* the weight listed for an epoch is never the one it was paid with, but    *)
(* the next one's (SetRewardWeight under the epoch that ends, after the     *)
(* budget's EndBlocker; carried over to the epoch when first read).         *)
PaidWithLastUpdate ==
  \A e \in Epochs \ {0} : paid[e] # Nil => paid[e] = InForce(rewardWeight, e - 1)

(* A restart in any block keeps the reward weight in force, stored for this *)
(* epoch or only for an earlier one, and sets the tax rate back to the one  *)
(* the chain was started with, however far the policy has moved it          *)
(* (ExportGenesis, InitGenesis).                                            *)
RestartKeepsWeightOnly ==
  [][Restarted =>
       /\ InForce(rewardWeight, Epoch)' = InForce(rewardWeight, Epoch)
       /\ InForce(taxRate, Epoch)' = GenesisTaxRate]_vars

=============================================================================
