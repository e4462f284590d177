---------------------------- MODULE MarketProofs ----------------------------
(***************************************************************************)
(* Proofs about Market for any accounts, denominations, rates, spreads and *)
(* caps, and any number of days.                                           *)
(***************************************************************************)
EXTENDS Market, MintProofs

-----------------------------------------------------------------------------
(* The inductive invariant: no snapshot of the future, no gap in the past,  *)
(* and a Luna issuance that was counted at genesis.                         *)

MarketInv ==
  /\ TypeOK
  /\ \A d \in Denoms : Recorded(issuance[d], Today)
  /\ Touched(Luna)

LEMMA MarketTypes ==
  ASSUME TypeOK
  PROVE  /\ issuance \in Snapshots /\ balances \in Holdings /\ Today \in Days
         /\ \A d \in Denoms : issuance[d] \in Rows /\ outside[d] \in Nat /\ feePool[d] \in Nat
         /\ Luna \in Denoms /\ height \in Nat
<1>1. issuance \in Snapshots /\ balances \in Holdings /\ height \in 0 .. MaxHeight
  BY DEF TypeOK, MintTypeOK, Snapshots, Rows, Holdings
<1>2. Today \in Days
  BY <1>1, TodayIsADay DEF Today
<1>3. \A d \in Denoms : issuance[d] \in Rows /\ outside[d] \in Nat /\ feePool[d] \in Nat
  BY <1>1 DEF TypeOK, MintTypeOK, Snapshots
<1>4. Luna \in Denoms
  BY MarketAssumption
<1> QED  BY <1>1, <1>2, <1>3, <1>4

LEMMA InitMarket ==
  ASSUME Init
  PROVE  MarketInv
<1> DEFINE empty == [d \in Denoms |-> [day \in Days |-> Nil]]
<1>1. height = 1 /\ 1 \in 0 .. MaxHeight
  BY MintAssumption DEF Init
<1>2. Today \in Days /\ 0 \in Days /\ 0 <= Today
  <2>1. Today \in Days
    BY <1>1, TodayIsADay DEF Today
  <2> QED  BY <2>1, DaysAreNaturals
<1>3. balances \in Holdings
  BY MarketAssumption DEF Init, Holdings
<1>4. empty \in Snapshots /\ \A d \in Denoms : Recorded(empty[d], 0)
  BY DEF Snapshots, Rows, Recorded
<1>5. issuance = FillIssuance(empty, balances, Luna, 0)
  BY DEF Init
<1>6. Luna \in Denoms
  BY MarketAssumption
<1> HIDE DEF empty
<1>7. /\ issuance \in Snapshots
      /\ \A d \in Denoms \ {Luna} : issuance[d] = empty[d]
      /\ Recorded(issuance[Luna], 0)
      /\ \A k \in 0 .. 0 : issuance[Luna][k] # Nil
  BY <1>2, <1>3, <1>4, <1>5, <1>6, FillGuarantee
<1>8. \A d \in Denoms : Recorded(issuance[d], 0)
  BY <1>4, <1>7
<1>9. \A d \in Denoms : Recorded(issuance[d], Today)
  BY <1>2, <1>8, RecordedLater
<1>10. Touched(Luna)
  BY <1>7 DEF Touched
<1>11. MintTypeOK
  <2>1. outside \in [Denoms -> Nat]
    BY MarketAssumption DEF Init
  <2> QED  BY <1>1, <1>3, <1>7, <2>1 DEF MintTypeOK, Snapshots, Rows, Holdings
<1>12. TypeOK
  BY <1>11, MarketAssumption DEF Init, TypeOK
<1> QED  BY <1>9, <1>10, <1>12 DEF MarketInv

-----------------------------------------------------------------------------
(* What a step does to the snapshots of one denomination, read on the day   *)
(* of the step.                                                             *)
RowStep(d) ==
  /\ Recorded(issuance'[d], Today)
  /\ \A k \in Days : k < Today /\ issuance[d][k] # Nil => issuance'[d][k] = issuance[d][k]
  /\ Touched(d) => Touched(d)'
  /\ Touched(d) => GetIssuance(issuance', balances', d, Today) - CurrentIssuance(d)
                     = Supply(d)' - Supply(d)
  /\ ~Touched(d) /\ Touched(d)' =>
       GetIssuance(issuance', balances', d, Today) = InAccounts(balances', d)

(* A step that leaves the row of a denomination alone, and its coins or     *)
(* their number.                                                            *)
LEMMA RowUntouched ==
  ASSUME MarketInv, NEW d \in Denoms, issuance'[d] = issuance[d], Supply(d)' = Supply(d)
  PROVE  RowStep(d)
<1>1. Today \in Days /\ issuance[d] \in Rows /\ Recorded(issuance[d], Today)
  BY MarketTypes DEF MarketInv
<1>2. Touched(d)' <=> Touched(d)
  BY DEF Touched
<1>3. ASSUME Touched(d)
      PROVE  GetIssuance(issuance', balances', d, Today) - CurrentIssuance(d)
               = Supply(d)' - Supply(d)
  <2>1. GetIssuance(issuance', balances', d, Today) = CurrentIssuance(d)
    BY <1>1, <1>3, ReadsOneRow DEF Touched, CurrentIssuance
  <2>2. CurrentIssuance(d) \in Nat
    BY <1>1, <1>3, ReadsTouched DEF Touched, CurrentIssuance
  <2>3. Supply(d) \in Nat
    BY MarketTypes, InAccountsType DEF MarketInv, Supply
  <2> QED  BY <2>1, <2>2, <2>3
<1> QED  BY <1>1, <1>2, <1>3 DEF RowStep

(* A step that changes the issuance of a denomination by what its supply    *)
(* changes; `bal' are the balances it is counted from.                      *)
LEMMA RowChanged ==
  ASSUME MarketInv, NEW d \in Denoms, NEW iss \in Snapshots, NEW bal \in Holdings,
         NEW delta \in Int,
         iss[d] = issuance[d],
         IssuanceCovers(iss, bal, d, delta, Today),
         issuance'[d] = ChangeIssuance(iss, bal, d, delta, Today)[d],
         InAccounts(balances', d) = InAccounts(bal, d),
         Supply(d)' - Supply(d) = delta
  PROVE  RowStep(d)
<1>1. Today \in Days /\ issuance[d] \in Rows /\ Recorded(issuance[d], Today)
  BY MarketTypes DEF MarketInv
<1> DEFINE new == ChangeIssuance(iss, bal, d, delta, Today)
           fill == FillIssuance(iss, bal, d, Today)
<1>2. /\ Recorded(new[d], Today)
      /\ \A k \in 0 .. Today : new[d][k] # Nil
      /\ \A k \in 0 .. Today - 1 : new[d][k] = fill[d][k]
      /\ new[d][Today] = IF iss[d][0] = Nil THEN InAccounts(bal, d)
                         ELSE GetIssuance(iss, bal, d, Today) + delta
  BY <1>1, ChangeGuarantee
<1>3. \A k \in Days : iss[d][k] # Nil => fill[d][k] = iss[d][k]
  BY <1>1, FillGuarantee
<1> HIDE DEF new, fill
<1>4. Today \in Nat /\ Days \subseteq Nat /\ 0 \in 0 .. Today /\ Today \in 0 .. Today
  BY <1>1, DaysAreNaturals
<1>5. \A k \in Days : k < Today /\ issuance[d][k] # Nil => issuance'[d][k] = issuance[d][k]
  <2>1. \A k \in Days : k < Today => k \in 0 .. Today - 1
    BY <1>4
  <2> QED  BY <1>2, <1>3, <2>1 DEF new
<1>6. GetIssuance(issuance', balances', d, Today) = new[d][Today]
  BY <1>1, <1>2, <1>4, ReadsStored DEF new
<1>7. ASSUME Touched(d)
      PROVE  GetIssuance(issuance', balances', d, Today) - CurrentIssuance(d)
               = Supply(d)' - Supply(d)
  <2>1. GetIssuance(iss, bal, d, Today) = CurrentIssuance(d)
    BY <1>1, <1>7, ReadsOneRow DEF Touched, CurrentIssuance
  <2>2. CurrentIssuance(d) \in Nat
    BY <1>1, <1>7, ReadsTouched DEF Touched, CurrentIssuance
  <2>3. new[d][Today] = CurrentIssuance(d) + delta
    BY <1>2, <1>7, <2>1 DEF Touched
  <2> QED  BY <1>6, <2>2, <2>3
<1>8. ~Touched(d) => GetIssuance(issuance', balances', d, Today) = InAccounts(balances', d)
  BY <1>2, <1>6 DEF Touched
<1>9. Touched(d)'
  BY <1>2, <1>4 DEF Touched, new
<1>10. Recorded(issuance'[d], Today)
  BY <1>2 DEF new
<1> QED  BY <1>5, <1>7, <1>8, <1>9, <1>10 DEF RowStep

-----------------------------------------------------------------------------
(* The amounts of a swap *)

LEMMA RateType ==
  ASSUME TypeOK, NEW d \in Denoms, rates[d] # Nil
  PROVE  rates[d] \in Nat /\ rates[d] > 0
<1>1. rates[d] \in Rates \cup {DecOne}
  BY DEF TypeOK
<1>2. DecOne \in Nat \ {0} /\ \A r \in Rates : r \in Nat \ {0}
  BY MarketAssumption
<1> QED  BY <1>1, <1>2

LEMMA DecOneIsPositive == DecOne \in Nat \ {0} /\ DecOne \in Nat /\ DecOne > 0
<1>1. DecOne \in Nat \ {0}
  BY MarketAssumption
<1> QED  BY <1>1

LEMMA RetAmountType ==
  ASSUME TypeOK, NEW offer \in Denoms, NEW ask \in Denoms, NEW amt \in Nat,
         rates[offer] # Nil, rates[ask] # Nil
  PROVE  RetAmount(offer, amt, ask) \in Nat
<1>1. /\ rates[offer] \in Nat /\ rates[offer] > 0 /\ rates[ask] \in Nat
      /\ DecOne \in Nat /\ DecOne > 0
  BY RateType, DecOneIsPositive
<1>2. PICK n \in Nat : n = amt * rates[ask] * DecOne
  BY <1>1, ProductPositive
<1>3. PICK m \in Nat \ {0} : m = rates[offer]
  BY <1>1
<1>4. RetAmount(offer, amt, ask) = RoundInt(n, m) \div DecOne
  BY <1>2, <1>3 DEF RetAmount, Quo
<1>5. PICK q \in Nat : q = RoundInt(n, m)
  BY RoundIntBounds
<1>6. q \div DecOne \in Nat
  BY <1>1
<1> QED  BY <1>4, <1>5, <1>6

(* A swap pays out at most what the offer is worth and what rounding the    *)
(* quotient up can add, half of the last decimal place of a coin.           *)
LEMMA RetAmountWorth ==
  ASSUME TypeOK, NEW offer \in Denoms, NEW ask \in Denoms, NEW amt \in Nat,
         rates[offer] # Nil, rates[ask] # Nil
  PROVE  2 * DecOne * (RetAmount(offer, amt, ask) * rates[offer] - amt * rates[ask])
           <= rates[offer]
<1>1. PICK b \in Nat, D \in Nat : b = rates[offer] /\ D = DecOne /\ b > 0 /\ D > 0
  BY RateType, DecOneIsPositive
<1>2. PICK a \in Nat : a = amt * rates[ask]
  BY RateType, ProductPositive
<1>3. PICK z \in Nat : z = a * D
  BY <1>1, ProductPositive
<1>4. RetAmount(offer, amt, ask) = RoundInt(z, b) \div D
  BY <1>1, <1>2, <1>3 DEF RetAmount, Quo
<1>5. PICK q \in Nat : q = RoundInt(z, b) /\ 2 * b * q <= 2 * z + b
  <2>1. b \in Nat \ {0}
    BY <1>1
  <2> QED  BY <2>1, RoundIntBounds
<1>6. PICK r \in Nat : r = q \div D /\ r * D <= q
  BY <1>1
<1>7. PICK p \in Nat : p = r * b
  BY <1>1, <1>6, ProductPositive
<1>8. PICK x \in Nat, y \in Nat : x = p * D /\ y = b * q
  BY <1>1, <1>5, <1>7, ProductPositive
<1>9. x <= y
  <2>1. b * (r * D) <= b * q
    BY <1>1, <1>5, <1>6
  <2>2. b * (r * D) = p * D
    BY <1>1, <1>6, <1>7
  <2> QED  BY <1>8, <2>1, <2>2
<1>10. 2 * b * q = 2 * y
  BY <1>1, <1>5, <1>8
<1>11. 2 * x - 2 * z <= b
  BY <1>5, <1>8, <1>9, <1>10
<1>12. 2 * D * (p - a) = 2 * x - 2 * z
  BY <1>1, <1>2, <1>3, <1>7, <1>8
<1>13. RetAmount(offer, amt, ask) * rates[offer] = p
  BY <1>1, <1>4, <1>5, <1>6, <1>7
<1> QED  BY <1>1, <1>2, <1>11, <1>12, <1>13

LEMMA LunaDeltaType ==
  ASSUME MarketInv, NEW change \in Int
  PROVE  LunaDelta(change) \in Nat
<1>1. Today \in Days /\ Today \in Nat /\ Luna \in Denoms
  BY MarketTypes, DaysAreNaturals DEF MarketInv
<1>2. CASE Today = 0
  BY <1>2 DEF LunaDelta
<1>3. CASE Today # 0
  <2>1. Today - 1 \in Days
    BY <1>1, <1>3, DaysAreNaturals
  <2>2. issuance[Luna] \in Rows /\ issuance[Luna][0] # Nil
    BY <1>1, MarketTypes DEF MarketInv, Touched
  <2>3. PICK prev \in Nat, cur \in Nat : /\ prev = GetIssuance(issuance, balances, Luna, Today - 1)
                                         /\ cur = GetIssuance(issuance, balances, Luna, Today)
    BY <1>1, <2>1, <2>2, ReadsTouched
  <2>4. LunaDelta(change) = IF prev = 0 THEN 0 ELSE (Abs(cur + change - prev) * DecOne) \div prev
    BY <1>3, <2>3 DEF LunaDelta
  <2>5. Abs(cur + change - prev) \in Nat
    BY DEF Abs
  <2>6. PICK n \in Nat : n = Abs(cur + change - prev) * DecOne
    BY <2>5, DecOneIsPositive, ProductPositive
  <2>7. prev # 0 => n \div prev \in Nat
    OBVIOUS
  <2> QED  BY <2>4, <2>6, <2>7
<1> QED  BY <1>2, <1>3

LEMMA SwapFeeType ==
  ASSUME MarketInv, NEW offer \in Denoms, NEW ask \in Denoms, NEW amt \in Nat,
         rates[offer] # Nil, rates[ask] # Nil, CapAllows(offer, amt, ask)
  PROVE  SwapFee(offer, amt, ask) \in Nat
<1>1. RetAmount(offer, amt, ask) \in Nat
  BY RetAmountType DEF MarketInv
<1>2. Spread(offer, amt, ask) \in Nat
  <2>1. CASE ~ChargesSpread(offer, ask)
    BY <2>1 DEF Spread
  <2>2. CASE ChargesSpread(offer, ask)
    <3>1. DailyCap \in Nat \ {0}
      BY <2>2, MarketAssumption DEF CapAllows
    <3>2. LunaChange(offer, amt, ask) \in Int
      BY <1>1 DEF LunaChange
    <3>3. PICK x \in Nat : x = LunaDelta(LunaChange(offer, amt, ask))
      BY <3>2, LunaDeltaType
    <3>4. x * DecOne \in Nat
      BY DecOneIsPositive, ProductPositive
    <3>5. PICK q \in Nat : q = Quo(x, DailyCap)
      BY <3>1, <3>4, RoundIntBounds DEF Quo
    <3>6. PICK s \in Nat : s = MaxSpread - MinSpread
      BY MarketAssumption
    <3>7. q * s \in Nat
      BY ProductPositive
    <3>8. Mul(q, s) \in Nat
      BY <3>7, DecOneIsPositive, RoundIntBounds DEF Mul
    <3>9. Spread(offer, amt, ask) = MinSpread + Mul(q, s)
      BY <2>2, <3>3, <3>5, <3>6 DEF Spread
    <3> QED  BY <3>8, <3>9, MarketAssumption
  <2> QED  BY <2>1, <2>2
<1>3. PICK n \in Nat : n = Spread(offer, amt, ask) * RetAmount(offer, amt, ask)
  BY <1>1, <1>2, ProductPositive
<1>4. n \div DecOne \in Nat
  BY DecOneIsPositive
<1> QED  BY <1>3, <1>4 DEF SwapFee

-----------------------------------------------------------------------------
(* The steps *)

(* The supply of a denomination whose coins outside stay. *)
LEMMA SupplyChange ==
  ASSUME MarketInv, NEW d \in Denoms, NEW x \in Int,
         InAccounts(balances', d) = InAccounts(balances, d) + x, outside'[d] = outside[d]
  PROVE  Supply(d)' - Supply(d) = x /\ Supply(d) \in Nat /\ (x = 0 => Supply(d)' = Supply(d))
<1>1. InAccounts(balances, d) \in Nat /\ outside[d] \in Nat
  BY MarketTypes, InAccountsType DEF MarketInv
<1>2. Supply(d) = InAccounts(balances, d) + outside[d]
  BY DEF Supply
<1>3. Supply(d)' = InAccounts(balances', d) + outside'[d]
  BY DEF Supply, InAccounts
<1> QED  BY <1>1, <1>2, <1>3

LEMMA SwapStep ==
  ASSUME MarketInv, NEW a \in Accounts, NEW offer \in Denoms, NEW ask \in Denoms,
         NEW amt \in Offers, handleMsgSwap(a, offer, amt, ask)
  PROVE  /\ MintTypeOK' /\ feePool' \in [Denoms -> Nat]
         /\ \A d \in Denoms : RowStep(d)
         /\ amt \in Nat /\ amt > 0 /\ RetAmount(offer, amt, ask) \in Nat
         /\ SwapFee(offer, amt, ask) \in Nat /\ MintedAmount(offer, amt, ask) > 0
         /\ Supply(offer)' - Supply(offer) = -amt
         /\ Supply(ask)' - Supply(ask) = MintedAmount(offer, amt, ask)
         /\ \A d \in Denoms \ {offer, ask} : Supply(d)' = Supply(d)
<1> DEFINE minted == MintedAmount(offer, amt, ask)
           bal1 == Credit(balances, offer, a, -amt)
           iss1 == ChangeIssuance(issuance, bal1, offer, -amt, Today)
           bal2 == Credit(bal1, ask, a, minted)
<1>1. /\ offer # ask /\ rates[offer] # Nil /\ rates[ask] # Nil
      /\ CapAllows(offer, amt, ask) /\ amt > 0 /\ balances[offer][a] >= amt
      /\ IssuanceCovers(issuance, bal1, offer, -amt, Today)
      /\ minted > 0 /\ balances' = bal2
      /\ issuance' = ChangeIssuance(iss1, bal2, ask, minted, Today)
      /\ feePool' = [feePool EXCEPT ![ask] = @ + SwapFee(offer, amt, ask)]
      /\ UNCHANGED <<height, outside, rates, moves>>
  BY DEF handleMsgSwap
<1>2. amt \in Nat
  BY MarketAssumption
<1>3. /\ RetAmount(offer, amt, ask) \in Nat /\ SwapFee(offer, amt, ask) \in Nat
  BY <1>1, <1>2, RetAmountType, SwapFeeType DEF MarketInv
<1>4. minted \in Int
  BY <1>3 DEF MintedAmount
<1>5. /\ issuance \in Snapshots /\ balances \in Holdings /\ Today \in Days
      /\ \A d \in Denoms : Recorded(issuance[d], Today) /\ issuance[d] \in Rows
      /\ \A d \in Denoms : outside[d] \in Nat /\ feePool[d] \in Nat
  BY MarketTypes DEF MarketInv
<1>6. balances[offer][a] \in Nat
  BY <1>5 DEF Holdings
<1>7. /\ bal1 \in Holdings
      /\ InAccounts(bal1, offer) = InAccounts(balances, offer) + (-amt)
      /\ \A e \in Denoms \ {offer} : bal1[e] = balances[e]
  <2>1. balances[offer][a] + (-amt) >= 0 /\ -amt \in Int
    BY <1>1, <1>2, <1>6
  <2> QED  BY <1>5, <2>1, CreditGuarantee
<1>8. /\ iss1 \in Snapshots
      /\ \A e \in Denoms \ {offer} : iss1[e] = issuance[e]
  <2>1. -amt \in Int
    BY <1>2
  <2> HIDE DEF bal1
  <2> QED  BY <1>1, <1>5, <1>7, <2>1, ChangeGuarantee
<1> HIDE DEF minted
<1>9. /\ bal2 \in Holdings
      /\ InAccounts(bal2, ask) = InAccounts(bal1, ask) + minted
      /\ \A e \in Denoms \ {ask} : bal2[e] = bal1[e]
  <2> HIDE DEF bal1
  <2>1. bal1[ask][a] \in Nat
    BY <1>7 DEF Holdings
  <2>2. bal1[ask][a] + minted >= 0
    BY <1>1, <1>4, <2>1
  <2> QED  BY <1>4, <1>7, <2>2, CreditGuarantee
<1>10. IssuanceCovers(iss1, bal2, ask, minted, Today) /\ iss1[ask] = issuance[ask]
  <2> HIDE DEF bal2, iss1
  <2>1. iss1[ask] = issuance[ask]
    BY <1>1, <1>8
  <2>2. GetIssuance(iss1, bal2, ask, Today) \in Nat
    BY <1>5, <1>9, <2>1, IssuanceType
  <2> QED  BY <1>1, <1>4, <2>1, <2>2 DEF IssuanceCovers
<1> HIDE DEF bal2, iss1, bal1
<1>11. /\ issuance' \in Snapshots
       /\ \A e \in Denoms \ {ask} : issuance'[e] = iss1[e]
  BY <1>1, <1>4, <1>5, <1>8, <1>9, <1>10, ChangeGuarantee
<1>12. InAccounts(balances', offer) = InAccounts(bal1, offer)
  BY <1>1, <1>9, InAccountsOfRow
<1>13. InAccounts(bal1, ask) = InAccounts(balances, ask)
  BY <1>1, <1>7, InAccountsOfRow
<1>14. Supply(offer)' - Supply(offer) = -amt
  <2>1. -amt \in Int
    BY <1>2
  <2> QED  BY <1>1, <1>7, <1>12, <2>1, SupplyChange
<1>15. Supply(ask)' - Supply(ask) = minted
  BY <1>1, <1>4, <1>9, <1>13, SupplyChange
<1>16. \A d \in Denoms \ {offer, ask} : Supply(d)' = Supply(d)
  <2> SUFFICES ASSUME NEW d \in Denoms \ {offer, ask} PROVE Supply(d)' = Supply(d)
    OBVIOUS
  <2>1. balances'[d] = balances[d]
    BY <1>1, <1>7, <1>9
  <2> QED  BY <1>1, <2>1 DEF Supply, InAccounts
<1>17. RowStep(offer)
  <2>1. -amt \in Int
    BY <1>2
  <2>2. issuance'[offer] = ChangeIssuance(issuance, bal1, offer, -amt, Today)[offer]
    BY <1>1, <1>11 DEF iss1
  <2> QED  BY <1>1, <1>5, <1>7, <1>12, <1>14, <2>1, <2>2, RowChanged
<1>18. RowStep(ask)
  <2>1. /\ issuance'[ask] = ChangeIssuance(iss1, bal2, ask, minted, Today)[ask]
        /\ InAccounts(balances', ask) = InAccounts(bal2, ask)
    BY <1>1
  <2> QED  BY <1>4, <1>8, <1>9, <1>10, <1>15, <2>1, RowChanged
<1>19. \A d \in Denoms \ {offer, ask} : RowStep(d)
  <2> SUFFICES ASSUME NEW d \in Denoms \ {offer, ask} PROVE RowStep(d)
    OBVIOUS
  <2>1. issuance'[d] = issuance[d]
    BY <1>8, <1>11
  <2> QED  BY <1>16, <2>1, RowUntouched
<1>20. MintTypeOK'
  BY <1>1, <1>9, <1>11 DEF MarketInv, TypeOK, MintTypeOK, Snapshots, Rows, Holdings
<1>21. feePool' \in [Denoms -> Nat]
  <2>1. feePool \in [Denoms -> Nat]
    BY DEF MarketInv, TypeOK
  <2> QED  BY <1>1, <1>3, <2>1
<1> QED  BY <1>1, <1>2, <1>3, <1>14, <1>15, <1>16, <1>17, <1>18, <1>19, <1>20, <1>21 DEF minted

(* Coins that leave or enter the accounts still exist. *)
LEMMA MoveStep ==
  ASSUME MarketInv, NEW a \in Accounts, NEW d \in Denoms,
         LeaveAccounts(a, d) \/ EnterAccounts(a, d)
  PROVE  /\ TypeOK'
         /\ \A e \in Denoms : RowStep(e) /\ Supply(e)' = Supply(e)
<1>1. PICK x \in {1, -1} : /\ balances[d][a] + x >= 0 /\ outside[d] - x >= 0
                           /\ balances' = Credit(balances, d, a, x)
                           /\ outside' = [outside EXCEPT ![d] = outside[d] - x]
  <2>1. balances[d][a] \in Nat /\ outside[d] \in Nat
    BY DEF MarketInv, TypeOK, MintTypeOK
  <2>2. CASE LeaveAccounts(a, d)
    <3>1. /\ balances[d][a] + (-1) >= 0 /\ outside[d] - (-1) >= 0
          /\ outside[d] - (-1) = outside[d] + 1
      BY <2>1, <2>2 DEF LeaveAccounts
    <3> QED  BY <2>2, <3>1 DEF LeaveAccounts
  <2>3. CASE EnterAccounts(a, d)
    <3>1. balances[d][a] + 1 >= 0 /\ outside[d] - 1 >= 0
      BY <2>1, <2>3 DEF EnterAccounts
    <3> QED  BY <2>3, <3>1 DEF EnterAccounts
  <2> QED  BY <2>2, <2>3
<1>2. UNCHANGED <<height, issuance, rates, feePool>> /\ moves < MaxMoves /\ moves' = moves + 1
  BY DEF LeaveAccounts, EnterAccounts
<1>3. x \in Int /\ balances \in Holdings /\ outside \in [Denoms -> Nat]
  BY MarketTypes DEF MarketInv, TypeOK, MintTypeOK
<1>4. /\ balances' \in Holdings
      /\ InAccounts(balances', d) = InAccounts(balances, d) + x
      /\ \A e \in Denoms \ {d} : balances'[e] = balances[e]
  BY <1>1, <1>3, CreditGuarantee
<1>5. outside' \in [Denoms -> Nat] /\ \A e \in Denoms \ {d} : outside'[e] = outside[e]
  BY <1>1, <1>3
<1>6. Supply(d)' = Supply(d)
  <2>1. InAccounts(balances, d) \in Nat /\ outside[d] \in Nat /\ outside'[d] = outside[d] - x
    BY <1>1, <1>3, InAccountsType
  <2>2. Supply(d)' = InAccounts(balances', d) + outside'[d]
    BY DEF Supply, InAccounts
  <2> QED  BY <1>3, <1>4, <2>1, <2>2 DEF Supply
<1>7. \A e \in Denoms \ {d} : Supply(e)' = Supply(e)
  BY <1>4, <1>5 DEF Supply, InAccounts
<1>8. \A e \in Denoms : RowStep(e)
  BY <1>2, <1>6, <1>7, RowUntouched
<1>9. TypeOK'
  <2>1. MintTypeOK'
    BY <1>2, <1>4, <1>5 DEF MarketInv, TypeOK, MintTypeOK, Holdings
  <2>2. moves' \in 0 .. MaxMoves
    BY <1>2, MarketAssumption DEF MarketInv, TypeOK
  <2> QED  BY <1>2, <2>1, <2>2 DEF MarketInv, TypeOK
<1> QED  BY <1>6, <1>7, <1>8, <1>9

(* Fees that are paid out are issued on the day of the block that ends. *)
LEMMA EndBlockStep ==
  ASSUME MarketInv, NEW pays \in BOOLEAN, NEW r \in NewRates, EndBlock(pays, r)
  PROVE  TypeOK' /\ \A d \in Denoms : RowStep(d)
<1>1. /\ issuance \in Snapshots /\ balances \in Holdings /\ Today \in Days
      /\ \A d \in Denoms : Recorded(issuance[d], Today) /\ issuance[d] \in Rows
      /\ \A d \in Denoms : outside[d] \in Nat /\ feePool[d] \in Nat
  BY MarketTypes DEF MarketInv
<1>2. /\ height < MaxHeight /\ height' = height + 1 /\ rates' = r
      /\ balances' = balances /\ moves' = moves
  BY DEF EndBlock
<1>3. CASE ~pays
  <2>1. UNCHANGED <<issuance, outside, feePool>>
    BY <1>3 DEF EndBlock
  <2>2. \A d \in Denoms : Supply(d)' = Supply(d)
    BY <1>2, <2>1 DEF Supply, InAccounts
  <2>3. \A d \in Denoms : RowStep(d)
    BY <2>1, <2>2, RowUntouched
  <2>4. MintTypeOK'
    BY <1>2, <2>1, MintAssumption DEF MarketInv, TypeOK, MintTypeOK
  <2>5. TypeOK'
    BY <1>2, <2>1, <2>4 DEF MarketInv, TypeOK, NewRates
  <2> QED  BY <2>3, <2>5
<1>4. CASE pays
  <2>1. /\ issuance' = [d \in Denoms |-> PayFee(issuance, d)]
        /\ outside' = [d \in Denoms |-> outside[d] + feePool[d]]
        /\ feePool' = [d \in Denoms |-> 0]
    BY <1>4 DEF EndBlock, DistributeFees
  <2>2. ASSUME NEW d \in Denoms
        PROVE  /\ RowStep(d) /\ issuance'[d] \in Rows
    <3>0. InAccounts(balances', d) = InAccounts(balances, d)
      BY <1>2
    <3>1. Supply(d)' - Supply(d) = feePool[d] /\ (feePool[d] = 0 => Supply(d)' = Supply(d))
      <4>1. InAccounts(balances, d) \in Nat
        BY <1>1, InAccountsType
      <4>2. Supply(d)' = InAccounts(balances', d) + outside'[d] /\ outside'[d] = outside[d] + feePool[d]
        BY <2>1 DEF Supply, InAccounts
      <4> QED  BY <1>1, <3>0, <4>1, <4>2 DEF Supply
    <3>2. CASE feePool[d] = 0
      <4>1. issuance'[d] = issuance[d]
        BY <2>1, <3>2 DEF PayFee
      <4> QED  BY <1>1, <3>1, <3>2, <4>1, RowUntouched
    <3>3. CASE feePool[d] # 0
      <4>1. issuance'[d] = ChangeIssuance(issuance, balances, d, feePool[d], Today)[d]
        BY <2>1, <3>3 DEF PayFee
      <4>2. GetIssuance(issuance, balances, d, Today) \in Nat
        BY <1>1, IssuanceType
      <4>3. feePool[d] \in Int
        BY <1>1
      <4>4. IssuanceCovers(issuance, balances, d, feePool[d], Today)
        BY <1>1, <4>2 DEF IssuanceCovers
      <4>5. RowStep(d)
        BY <1>1, <3>0, <3>1, <4>1, <4>3, <4>4, RowChanged
      <4>6. ChangeIssuance(issuance, balances, d, feePool[d], Today) \in Snapshots
        BY <1>1, <4>3, <4>4, ChangeGuarantee
      <4> QED  BY <4>1, <4>5, <4>6 DEF Snapshots
    <3> QED  BY <3>2, <3>3
  <2>3. issuance' \in Snapshots
    <3>1. issuance' = [d \in Denoms |-> issuance'[d]]
      BY <2>1
    <3> QED  BY <2>2, <3>1 DEF Snapshots
  <2>4. outside' \in [Denoms -> Nat] /\ feePool' \in [Denoms -> Nat]
    BY <1>1, <2>1
  <2>5. MintTypeOK'
    BY <1>2, <2>3, <2>4, MintAssumption DEF MarketInv, TypeOK, MintTypeOK, Snapshots, Rows
  <2>6. TypeOK'
    BY <1>2, <2>4, <2>5 DEF MarketInv, TypeOK, NewRates
  <2> QED  BY <2>2, <2>6
<1> QED  BY <1>3, <1>4

LEMMA NextStep ==
  ASSUME MarketInv, [Next]_vars
  PROVE  TypeOK' /\ (\A d \in Denoms : RowStep(d)) /\ height' \in Nat /\ height <= height'
<1>0. height \in Nat
  BY MarketTypes DEF MarketInv
<1>1. ASSUME NEW a \in Accounts, NEW offer \in Denoms, NEW ask \in Denoms, NEW amt \in Offers,
             handleMsgSwap(a, offer, amt, ask)
      PROVE  TypeOK' /\ (\A d \in Denoms : RowStep(d)) /\ height' = height
  <2>1. MintTypeOK' /\ feePool' \in [Denoms -> Nat] /\ \A d \in Denoms : RowStep(d)
    BY <1>1, SwapStep
  <2>2. UNCHANGED <<height, rates, moves>>
    BY <1>1 DEF handleMsgSwap
  <2> QED  BY <2>1, <2>2 DEF MarketInv, TypeOK
<1>2. ASSUME NEW a \in Accounts, NEW d \in Denoms, LeaveAccounts(a, d) \/ EnterAccounts(a, d)
      PROVE  TypeOK' /\ (\A e \in Denoms : RowStep(e)) /\ height' = height
  <2>1. height' = height
    BY <1>2 DEF LeaveAccounts, EnterAccounts
  <2> QED  BY <1>2, <2>1, MoveStep
<1>3. ASSUME NEW pays \in BOOLEAN, NEW r \in NewRates, EndBlock(pays, r)
      PROVE  TypeOK' /\ (\A d \in Denoms : RowStep(d)) /\ height' = height + 1
  <2>1. height' = height + 1
    BY <1>3 DEF EndBlock
  <2> QED  BY <1>3, <2>1, EndBlockStep
<1>4. ASSUME UNCHANGED vars
      PROVE  TypeOK' /\ (\A d \in Denoms : RowStep(d)) /\ height' = height
  <2>1. UNCHANGED <<height, balances, outside, issuance, rates, feePool, moves>>
    BY <1>4 DEF vars, mintVars, marketVars
  <2>2. \A d \in Denoms : Supply(d)' = Supply(d)
    BY <2>1 DEF Supply, InAccounts
  <2>3. \A d \in Denoms : RowStep(d)
    BY <2>1, <2>2, RowUntouched
  <2>4. TypeOK'
    BY <2>1 DEF MarketInv, TypeOK, MintTypeOK
  <2> QED  BY <2>1, <2>3, <2>4
<1>5. CASE Next
  BY <1>0, <1>1, <1>2, <1>3, <1>5 DEF Next
<1> QED  BY <1>0, <1>4, <1>5

LEMMA DayGoesOn ==
  ASSUME MarketInv, TypeOK', height' \in Nat, height <= height'
  PROVE  Today \in Days /\ Today' \in Days /\ Today <= Today'
<1>1. Today \in Days /\ height \in Nat
  BY MarketTypes DEF MarketInv
<1>2. height' \in 0 .. MaxHeight
  BY DEF TypeOK, MintTypeOK
<1>3. Today' \in Days
  BY <1>2, TodayIsADay DEF Today
<1>4. Today <= Today'
  BY <1>1, PeriodMonotone, MintAssumption DEF Today
<1> QED  BY <1>1, <1>3, <1>4

LEMMA NextKeepsMarket ==
  ASSUME MarketInv, [Next]_vars
  PROVE  MarketInv'
<1>1. TypeOK' /\ (\A d \in Denoms : RowStep(d)) /\ height' \in Nat /\ height <= height'
  BY NextStep
<1>2. Today \in Days /\ Today' \in Days /\ Today <= Today'
  BY <1>1, DayGoesOn
<1>3. \A d \in Denoms : Recorded(issuance'[d], Today')
  BY <1>1, <1>2, RecordedLater DEF RowStep
<1>4. Touched(Luna)'
  BY <1>1, MarketAssumption DEF RowStep, MarketInv
<1> QED  BY <1>1, <1>3, <1>4 DEF MarketInv

LEMMA MarketInvariant == Spec => []MarketInv
<1>1. Init => MarketInv
  BY InitMarket
<1>2. MarketInv /\ [Next]_vars => MarketInv'
  BY NextKeepsMarket
<1> QED  BY <1>1, <1>2, PTL DEF Spec

(* Balances, the fee pool and every snapshot stay natural numbers: no swap  *)
(* and no distribution of fees takes the issuance below zero.               *)
THEOREM MarketTypeCorrect == Spec => []TypeOK
<1>1. MarketInv => TypeOK
  BY DEF MarketInv
<1> QED  BY <1>1, MarketInvariant, PTL

(* However rarely a denomination is touched, its snapshots have no gap, so  *)
(* that reading a day never counts the accounts of a later state.           *)
THEOREM SnapshotsAlwaysContiguous == Spec => []SnapshotsContiguous
<1>1. MarketInv => SnapshotsContiguous
  BY DEF MarketInv, SnapshotsContiguous, Recorded
<1> QED  BY <1>1, MarketInvariant, PTL

(* The snapshot of a day that is over never changes, and none is written    *)
(* for a day to come.                                                       *)
THEOREM PastAlwaysFinal == Spec => PastIsFinal
<1> DEFINE A == \A d \in Denoms, day \in Days :
                  /\ day < Today /\ issuance[d][day] # Nil => issuance'[d][day] = issuance[d][day]
                  /\ day > Today' => issuance'[d][day] = Nil
<1>1. MarketInv /\ [Next]_vars => A
  <2> SUFFICES ASSUME MarketInv, [Next]_vars PROVE A
    OBVIOUS
  <2>1. \A d \in Denoms : RowStep(d)
    BY NextStep
  <2>2. \A d \in Denoms : Recorded(issuance'[d], Today')
    BY NextKeepsMarket DEF MarketInv
  <2> QED  BY <2>1, <2>2 DEF RowStep, Recorded
<1>2. MarketInv /\ [Next]_vars => [A]_mintVars
  BY <1>1
<1> QED  BY <1>2, MarketInvariant, PTL DEF Spec, PastIsFinal

(* The issuance of a denomination follows its supply through every swap,    *)
(* every payment of fees and every day without a snapshot.                  *)
THEOREM IssuanceAlwaysFollows == Spec => IssuanceFollowsSupply
<1> DEFINE A == \A d \in Denoms :
       /\ Touched(d) => CurrentIssuance(d)' - CurrentIssuance(d) = Supply(d)' - Supply(d)
       /\ ~Touched(d) /\ Touched(d)' => CurrentIssuance(d)' = InAccounts(balances, d)'
<1>1. MarketInv /\ [Next]_vars => A
  <2> SUFFICES ASSUME MarketInv, [Next]_vars, NEW d \in Denoms
               PROVE  /\ Touched(d) => CurrentIssuance(d)' - CurrentIssuance(d)
                                         = Supply(d)' - Supply(d)
                      /\ ~Touched(d) /\ Touched(d)' =>
                           CurrentIssuance(d)' = InAccounts(balances', d)
    BY DEF InAccounts
  <2>1. TypeOK' /\ RowStep(d) /\ height' \in Nat /\ height <= height'
    BY NextStep
  <2>2. Today \in Days /\ Today' \in Days /\ Today <= Today'
    BY <2>1, DayGoesOn
  <2>3. \A k \in Days : Today < k => issuance'[d][k] = Nil
    <3>1. Days \subseteq Nat
      BY <2>2, DaysAreNaturals
    <3> QED  BY <2>1, <2>2, <3>1 DEF RowStep, Recorded
  <2>4. GetIssuance(issuance', balances', d, Today') = GetIssuance(issuance', balances', d, Today)
    BY <2>2, <2>3, ReadsCarriedOver
  <2>5. CurrentIssuance(d)' = GetIssuance(issuance', balances', d, Today')
    BY DEF CurrentIssuance, GetIssuance, StoredDays, LastStored, InAccounts
  <2> QED  BY <2>1, <2>4, <2>5 DEF RowStep
<1>2. MarketInv /\ [Next]_vars => [A]_mintVars
  BY <1>1
<1> QED  BY <1>2, MarketInvariant, PTL DEF Spec, IssuanceFollowsSupply

-----------------------------------------------------------------------------
(* What swaps may do *)

(* Within a block only swaps change what exists. *)
LEMMA WithinBlock ==
  ASSUME MarketInv, [Next]_vars, height' = height
  PROVE  \/ \A d \in Denoms : Supply(d)' = Supply(d)
         \/ \E a \in Accounts, offer, ask \in Denoms, amt \in Offers :
              handleMsgSwap(a, offer, amt, ask)
<1>0. height \in Nat
  BY MarketTypes DEF MarketInv
<1>1. ASSUME UNCHANGED vars PROVE \A d \in Denoms : Supply(d)' = Supply(d)
  BY <1>1 DEF vars, mintVars, Supply, InAccounts
<1>2. ASSUME NEW a \in Accounts, NEW d \in Denoms, LeaveAccounts(a, d) \/ EnterAccounts(a, d)
      PROVE  \A e \in Denoms : Supply(e)' = Supply(e)
  BY <1>2, MoveStep
<1>3. ASSUME NEW pays \in BOOLEAN, NEW r \in NewRates, EndBlock(pays, r) PROVE FALSE
  BY <1>0, <1>3 DEF EndBlock
<1> QED  BY <1>1, <1>2, <1>3 DEF Next

(* A step within a block that burns x and creates y is a swap of x for y. *)
LEMMA SwapValue ==
  ASSUME MarketInv, [Next]_vars, NEW x \in Denoms, NEW y \in Denoms,
         height' = height, Supply(x)' < Supply(x), Supply(y)' > Supply(y)
  PROVE  \E ret, amt \in Nat :
           /\ Supply(y)' + feePool'[y] - Supply(y) - feePool[y] = ret
           /\ Supply(x) - Supply(x)' = amt
           /\ rates[x] \in Nat /\ rates[y] \in Nat
           /\ 2 * DecOne * (ret * rates[x] - amt * rates[y]) <= rates[x]
<1>0. \A d \in Denoms : Supply(d) \in Nat /\ Supply(d)' \in Nat
  <2>1. TypeOK'
    BY NextStep
  <2>2. \A d \in Denoms : InAccounts(balances', d) \in Nat /\ outside'[d] \in Nat
    BY <2>1, InAccountsType DEF TypeOK, MintTypeOK, Holdings
  <2>3. \A d \in Denoms : InAccounts(balances, d) \in Nat /\ outside[d] \in Nat
    BY MarketTypes, InAccountsType DEF MarketInv
  <2>4. \A d \in Denoms : Supply(d)' = InAccounts(balances', d) + outside'[d]
    BY DEF Supply, InAccounts
  <2> QED  BY <2>2, <2>3, <2>4 DEF Supply
<1>1. PICK a \in Accounts, offer \in Denoms, ask \in Denoms, amt \in Offers :
        handleMsgSwap(a, offer, amt, ask)
  BY <1>0, WithinBlock
<1>2. PICK ret \in Nat, fee \in Nat : /\ ret = RetAmount(offer, amt, ask)
                                      /\ fee = SwapFee(offer, amt, ask)
  BY <1>1, SwapStep
<1>3. /\ amt \in Nat /\ amt > 0 /\ ret - fee > 0
      /\ Supply(offer)' - Supply(offer) = -amt
      /\ Supply(ask)' - Supply(ask) = ret - fee
      /\ \A d \in Denoms \ {offer, ask} : Supply(d)' = Supply(d)
  BY <1>1, <1>2, SwapStep DEF MintedAmount
<1>4. x = offer /\ y = ask
  <2>1. x # ask /\ y # offer
    BY <1>0, <1>3
  <2>2. x \in {offer, ask} /\ y \in {offer, ask}
    BY <1>0, <1>3
  <2> QED  BY <2>1, <2>2
<1>5. feePool'[ask] = feePool[ask] + fee /\ feePool[ask] \in Nat
  BY <1>1, <1>2 DEF handleMsgSwap, MarketInv, TypeOK
<1>6. Supply(y)' + feePool'[y] - Supply(y) - feePool[y] = ret
  BY <1>0, <1>3, <1>4, <1>5
<1>7. Supply(x) - Supply(x)' = amt
  BY <1>0, <1>3, <1>4
<1>8. rates[offer] # Nil /\ rates[ask] # Nil
  BY <1>1 DEF handleMsgSwap
<1>9. 2 * DecOne * (ret * rates[offer] - amt * rates[ask]) <= rates[offer]
  BY <1>2, <1>3, <1>8, RetAmountWorth DEF MarketInv
<1>10. rates[offer] \in Nat /\ rates[ask] \in Nat
  BY <1>8, RateType DEF MarketInv
<1>11. amt \in Nat /\ ret \in Nat
  BY <1>2, <1>3
<1> QED  BY <1>4, <1>6, <1>7, <1>9, <1>10, <1>11

(* No swap creates value but for rounding: whatever the rates, spread and   *)
(* fees, the coins it creates exceed the worth of those it burns by at most *)
(* half of the last decimal place of one coin.                              *)
THEOREM SwapsAlwaysGainOnlyRounding == Spec => SwapsGainOnlyRounding
<1> DEFINE A == \A x, y \in Denoms :
       height' = height /\ Supply(x)' < Supply(x) /\ Supply(y)' > Supply(y) =>
         LET created == Supply(y)' + feePool'[y] - Supply(y) - feePool[y]
             burned == Supply(x) - Supply(x)'
         IN  2 * DecOne * (created * rates[x] - burned * rates[y]) <= rates[x]
<1>1. MarketInv /\ [Next]_vars => A
  BY SwapValue
<1>2. MarketInv /\ [Next]_vars => [A]_vars
  BY <1>1
<1> QED  BY <1>2, MarketInvariant, PTL DEF Spec, SwapsGainOnlyRounding

(* Coins are whole, so that no value at all is created by a swap out of a   *)
(* denomination of which a Luna costs less than 2, Luna itself included:    *)
(* from 2 on, the quotient that Quo rounds up can be worth a whole coin.    *)
THEOREM CheapOffersCreateNoValue ==
  Spec => [][\A x, y \in Denoms :
               /\ height' = height /\ Supply(x)' < Supply(x) /\ Supply(y)' > Supply(y)
               /\ rates[x] < 2 * DecOne
               => (Supply(y)' + feePool'[y] - Supply(y) - feePool[y]) * rates[x]
                    <= (Supply(x) - Supply(x)') * rates[y]]_vars
<1> DEFINE A == \A x, y \in Denoms :
               /\ height' = height /\ Supply(x)' < Supply(x) /\ Supply(y)' > Supply(y)
               /\ rates[x] < 2 * DecOne
               => (Supply(y)' + feePool'[y] - Supply(y) - feePool[y]) * rates[x]
                    <= (Supply(x) - Supply(x)') * rates[y]
<1>1. MarketInv /\ [Next]_vars => A
  <2> SUFFICES ASSUME MarketInv, [Next]_vars, NEW x \in Denoms, NEW y \in Denoms,
                      height' = height, Supply(x)' < Supply(x), Supply(y)' > Supply(y),
                      rates[x] < 2 * DecOne
               PROVE  (Supply(y)' + feePool'[y] - Supply(y) - feePool[y]) * rates[x]
                        <= (Supply(x) - Supply(x)') * rates[y]
    OBVIOUS
  <2>1. PICK ret \in Nat, amt \in Nat :
          /\ Supply(y)' + feePool'[y] - Supply(y) - feePool[y] = ret
          /\ Supply(x) - Supply(x)' = amt
          /\ rates[x] \in Nat /\ rates[y] \in Nat
          /\ 2 * DecOne * (ret * rates[x] - amt * rates[y]) <= rates[x]
    BY SwapValue
  <2>2. PICK v \in Nat, w \in Nat : v = ret * rates[x] /\ w = amt * rates[y]
    BY <2>1, ProductPositive
  <2>3. PICK b \in Nat, D \in Nat : b = rates[x] /\ D = DecOne /\ D > 0 /\ b < 2 * D
    BY <2>1, DecOneIsPositive
  <2>4. 2 * D * (v - w) <= b
    BY <2>1, <2>2, <2>3
  <2>5. v <= w
    <3> SUFFICES ASSUME v - w >= 1 PROVE FALSE
      BY <2>2
    <3>1. 2 * D * (v - w) >= 2 * D
      BY <2>3
    <3> QED  BY <2>3, <2>4, <3>1
  <2> QED  BY <2>1, <2>2, <2>5
<1>2. MarketInv /\ [Next]_vars => [A]_vars
  BY <1>1
<1> QED  BY <1>2, MarketInvariant, PTL DEF Spec

(* Truncated shares keep their order. *)
LEMMA DeltaMonotone ==
  ASSUME NEW m \in Nat, NEW n \in Nat, m <= n, NEW prev \in Nat, prev > 0
  PROVE  (m * DecOne) \div prev <= (n * DecOne) \div prev
<1>1. PICK x \in Nat, y \in Nat : x = m * DecOne /\ y = n * DecOne
  BY DecOneIsPositive, ProductPositive
<1>2. x <= y
  BY <1>1, DecOneIsPositive
<1>3. x \div prev <= y \div prev
  BY <1>2
<1> QED  BY <1>1, <1>3

(* Moving part of the way to an issuance deviates from yesterday's no more  *)
(* than the whole way, or no more than not moving.                          *)
LEMMA PartOfTheWay ==
  ASSUME NEW prev \in Nat, NEW cur \in Nat, NEW part \in Nat, NEW ret \in Nat, part <= ret
  PROVE  /\ Abs(cur + part - prev) \in Nat /\ Abs(cur + ret - prev) \in Nat
         /\ Abs(cur - prev) \in Nat
         /\ \/ Abs(cur + part - prev) <= Abs(cur + ret - prev)
            \/ Abs(cur + part - prev) <= Abs(cur - prev)
  BY DEF Abs

(* After day 0 no swap takes the Luna issuance beyond the daily cap, or     *)
(* further from yesterday's close than it was, for every cap and spread:    *)
(* that the cap is tested on the amount before the spread is enough.        *)
THEOREM SwapsAlwaysWithinCap == Spec => SwapsWithinCap
<1> DEFINE A == height' = height /\ Today > 0 /\ GetIssuance(issuance, balances, Luna, Today - 1) > 0 =>
       LET before == DayDelta(CurrentIssuance(Luna))
           after == DayDelta(CurrentIssuance(Luna)')
       IN  after <= DailyCap \/ after <= before
<1>1. MarketInv /\ [Next]_vars => A
  <2> SUFFICES ASSUME MarketInv, [Next]_vars, height' = height, Today > 0,
                      GetIssuance(issuance, balances, Luna, Today - 1) > 0
               PROVE  \/ DayDelta(CurrentIssuance(Luna)') <= DailyCap
                      \/ DayDelta(CurrentIssuance(Luna)') <= DayDelta(CurrentIssuance(Luna))
    OBVIOUS
  <2>1. Today \in Days /\ Today \in Nat /\ Luna \in Denoms /\ issuance[Luna] \in Rows
    BY MarketTypes, DaysAreNaturals DEF MarketInv
  <2>2. Today - 1 \in Days
    BY <2>1, DaysAreNaturals
  <2>3. PICK prev \in Nat, cur \in Nat : /\ prev = GetIssuance(issuance, balances, Luna, Today - 1)
                                         /\ cur = CurrentIssuance(Luna)
    BY <2>1, <2>2, ReadsTouched DEF MarketInv, Touched, CurrentIssuance
  <2>4. prev > 0 /\ \A iss \in Int : DayDelta(iss) = (Abs(iss - prev) * DecOne) \div prev
    BY <2>3 DEF DayDelta
  <2>5. \A change \in Int : LunaDelta(change) = (Abs(cur + change - prev) * DecOne) \div prev
    BY <2>1, <2>3, <2>4 DEF LunaDelta, CurrentIssuance
  <2>6. CurrentIssuance(Luna)' - cur = Supply(Luna)' - Supply(Luna)
    <3>1. RowStep(Luna)
      BY <2>1, NextStep
    <3>2. Today' = Today
      BY DEF Today
    <3>3. CurrentIssuance(Luna)' = GetIssuance(issuance', balances', Luna, Today)
      BY <3>2 DEF CurrentIssuance, GetIssuance, StoredDays, LastStored, InAccounts
    <3> QED  BY <2>3, <3>1, <3>3 DEF RowStep, MarketInv
  <2>7. CurrentIssuance(Luna)' \in Nat
    <3>1. MarketInv'
      BY NextKeepsMarket
    <3>2. Today' = Today
      BY DEF Today
    <3>3. issuance'[Luna] \in Rows /\ issuance'[Luna][0] # Nil
      BY <2>1, <3>1 DEF MarketInv, TypeOK, MintTypeOK, Rows, Touched
    <3>4. GetIssuance(issuance', balances', Luna, Today) \in Nat
      BY <2>1, <3>3, ReadsTouched
    <3> QED  BY <3>2, <3>4 DEF CurrentIssuance, GetIssuance, StoredDays, LastStored, InAccounts
  <2>8. ASSUME Supply(Luna)' = Supply(Luna)
        PROVE  DayDelta(CurrentIssuance(Luna)') <= DayDelta(CurrentIssuance(Luna))
    <3>1. Supply(Luna) \in Nat
      BY <2>1, MarketTypes, InAccountsType DEF MarketInv, Supply
    <3>2. CurrentIssuance(Luna)' = cur
      BY <2>6, <2>7, <2>8, <3>1
    <3>3. Abs(cur - prev) \in Nat
      BY DEF Abs
    <3> QED  BY <2>3, <2>4, <3>2, <3>3, DeltaMonotone
  <2>9. ASSUME NEW a \in Accounts, NEW offer \in Denoms, NEW ask \in Denoms, NEW amt \in Offers,
               handleMsgSwap(a, offer, amt, ask)
        PROVE  \/ DayDelta(CurrentIssuance(Luna)') <= DailyCap
               \/ DayDelta(CurrentIssuance(Luna)') <= DayDelta(CurrentIssuance(Luna))
    <3>1. PICK ret \in Nat, fee \in Nat : /\ ret = RetAmount(offer, amt, ask)
                                          /\ fee = SwapFee(offer, amt, ask)
      BY <2>9, SwapStep
    <3>2. /\ amt \in Nat /\ amt > 0 /\ ret - fee > 0
          /\ Supply(offer)' - Supply(offer) = -amt
          /\ Supply(ask)' - Supply(ask) = ret - fee
          /\ \A d \in Denoms \ {offer, ask} : Supply(d)' = Supply(d)
      BY <2>9, <3>1, SwapStep DEF MintedAmount
    <3>3. CASE offer = Luna
      <4>1. CurrentIssuance(Luna)' = cur + (-amt)
        BY <2>6, <2>7, <3>2, <3>3
      <4>2. LunaDelta(-amt) <= DailyCap
        BY <2>9, <3>3 DEF handleMsgSwap, CapAllows, ChargesSpread, LunaChange
      <4>3. DayDelta(CurrentIssuance(Luna)') = (Abs(cur + (-amt) - prev) * DecOne) \div prev
        BY <2>4, <2>7, <3>2, <4>1
      <4>4. LunaDelta(-amt) = (Abs(cur + (-amt) - prev) * DecOne) \div prev
        <5>1. -amt \in Int
          BY <3>2
        <5> QED  BY <2>5, <5>1
      <4> QED  BY <4>2, <4>3, <4>4
    <3>4. CASE ask = Luna /\ offer # Luna
      <4>1. PICK part \in Nat : part = ret - fee /\ part <= ret
        BY <3>2
      <4>2. CurrentIssuance(Luna)' = cur + part
        BY <2>6, <2>7, <3>2, <3>4, <4>1
      <4>3. LunaDelta(ret) <= DailyCap
        BY <2>9, <3>1, <3>4 DEF handleMsgSwap, CapAllows, ChargesSpread, LunaChange
      <4> DEFINE m == Abs(cur + part - prev)
                 n == Abs(cur + ret - prev)
                 k == Abs(cur - prev)
      <4>4. m \in Nat /\ n \in Nat /\ k \in Nat /\ (m <= n \/ m <= k)
        BY <4>1, PartOfTheWay
      <4>5. DayDelta(CurrentIssuance(Luna)') = (m * DecOne) \div prev
        BY <2>4, <2>7, <4>2
      <4>6. DayDelta(CurrentIssuance(Luna)) = (k * DecOne) \div prev
        BY <2>3, <2>4
      <4>7. LunaDelta(ret) = (n * DecOne) \div prev
        BY <2>5
      <4> HIDE DEF m, n, k
      <4>8. CASE m <= n
        <5>1. (m * DecOne) \div prev <= (n * DecOne) \div prev
          BY <2>4, <4>4, <4>8, DeltaMonotone
        <5>2. (m * DecOne) \div prev \in Int /\ (n * DecOne) \div prev \in Int
          BY <2>4, <4>4, DecOneIsPositive, ProductPositive
        <5> QED  BY <4>3, <4>5, <4>7, <5>1, <5>2, MarketAssumption
      <4>9. CASE m <= k
        BY <2>4, <4>4, <4>5, <4>6, <4>9, DeltaMonotone
      <4> QED  BY <4>4, <4>8, <4>9
    <3>5. CASE Luna \notin {offer, ask}
      BY <2>1, <2>8, <3>2, <3>5
    <3> QED  BY <3>3, <3>4, <3>5
  <2> QED  BY <2>1, <2>8, <2>9, WithinBlock
<1>2. MarketInv /\ [Next]_vars => [A]_vars
  BY <1>1
<1> QED  BY <1>2, MarketInvariant, PTL DEF Spec, SwapsWithinCap

=============================================================================
