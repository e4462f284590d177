----------------------------- MODULE MintProofs -----------------------------
(***************************************************************************)
(* What reading, filling and changing the snapshots of the issuance does,  *)
(* for any number of days, accounts and coins.                             *)
(***************************************************************************)
EXTENDS Mint, UtilProofs

Rows == [Days -> Nat \cup {Nil}]
Snapshots == [Denoms -> Rows]
Holdings == [Denoms -> [Accounts -> Nat]]

(* A row of snapshots as the chain writes it on a day: nothing of the       *)
(* future, and no gap in the past.                                          *)
Recorded(row, day) ==
  /\ \A k \in Days : k > day => row[k] = Nil
  /\ \A k \in Days : row[k] # Nil => \A j \in 0 .. k : row[j] # Nil

LEMMA DaysAreNaturals ==
  ASSUME NEW day \in Days
  PROVE  /\ day \in Nat /\ 0 \in Days /\ Days \subseteq Nat
         /\ \A k \in 0 .. day : k \in Days /\ k \in Nat
         /\ \A j \in Days, k \in Nat : k <= j => k \in Days
<1>1. Period(MaxHeight, BlocksPerDay) \in Nat
  BY MintAssumption, PeriodBounds
<1> QED  BY <1>1 DEF Days

LEMMA TodayIsADay ==
  ASSUME NEW h \in 0 .. MaxHeight
  PROVE  Period(h, BlocksPerDay) \in Days
<1>1. h \in Nat /\ MaxHeight \in Nat /\ h <= MaxHeight /\ BlocksPerDay \in Nat \ {0}
  BY MintAssumption
<1>2. /\ Period(h, BlocksPerDay) \in Nat /\ Period(MaxHeight, BlocksPerDay) \in Nat
      /\ Period(h, BlocksPerDay) <= Period(MaxHeight, BlocksPerDay)
  BY <1>1, PeriodBounds, PeriodMonotone
<1> QED  BY <1>2 DEF Days

LEMMA RecordedLater ==
  ASSUME NEW row, NEW day \in Days, NEW later \in Days, day <= later, Recorded(row, day)
  PROVE  Recorded(row, later)
<1>1. day \in Nat /\ later \in Nat /\ Days \subseteq Nat
  BY DaysAreNaturals
<1>2. \A k \in Days : k > later => k > day
  BY <1>1
<1> QED  BY <1>2 DEF Recorded

LEMMA InAccountsType ==
  ASSUME NEW bal \in Holdings, NEW d \in Denoms
  PROVE  InAccounts(bal, d) \in Nat /\ InAccounts(bal, d) = SumFunctionOnSet(bal[d], Accounts)
<1>1. bal[d] \in [Accounts -> Nat] /\ IsFiniteSet(Accounts)
  BY MintAssumption DEF Holdings
<1>2. InAccounts(bal, d) = SumFunctionOnSet(bal[d], Accounts)
  BY <1>1 DEF InAccounts, SumFunction
<1>3. \A a \in Accounts : bal[d][a] \in Nat
  BY <1>1
<1>4. SumFunctionOnSet(bal[d], Accounts) \in Nat
  <2> DEFINE f == bal[d]
  <2>1. \A a \in Accounts : f[a] \in Nat
    BY <1>3
  <2> HIDE DEF f
  <2>2. SumFunctionOnSet(f, Accounts) \in Nat
    BY <1>1, <2>1, SumType
  <2> QED  BY <2>2 DEF f
<1> QED  BY <1>2, <1>4

-----------------------------------------------------------------------------
(* Reading *)

(* The last snapshot up to a day. *)
LEMMA LastStoredIsLast ==
  ASSUME NEW iss, NEW d, NEW day \in Days, StoredDays(iss, d, day) # {}
  PROVE  /\ LastStored(iss, d, day) \in StoredDays(iss, d, day)
         /\ \A j \in StoredDays(iss, d, day) : j <= LastStored(iss, d, day)
<1>1. StoredDays(iss, d, day) \subseteq 0 .. day /\ day \in Nat
  BY DaysAreNaturals DEF StoredDays
<1>2. \E k \in StoredDays(iss, d, day) : \A j \in StoredDays(iss, d, day) : j <= k
  BY <1>1, GreatestElement
<1> QED  BY <1>2 DEF LastStored

LEMMA ReadsStored ==
  ASSUME NEW iss, NEW bal, NEW d, NEW day \in Days, iss[d][day] # Nil
  PROVE  GetIssuance(iss, bal, d, day) = iss[d][day]
<1>1. day \in StoredDays(iss, d, day) /\ day \in Nat
  BY DaysAreNaturals DEF StoredDays
<1>2. /\ LastStored(iss, d, day) \in StoredDays(iss, d, day)
      /\ day <= LastStored(iss, d, day)
  BY <1>1, LastStoredIsLast
<1>3. LastStored(iss, d, day) \in 0 .. day
  BY <1>2 DEF StoredDays
<1>4. LastStored(iss, d, day) = day
  BY <1>1, <1>2, <1>3
<1> QED  BY <1>1, <1>4 DEF GetIssuance

(* A denomination that was touched is read from its snapshots alone. *)
LEMMA ReadsTouched ==
  ASSUME NEW iss, NEW bal, NEW d, NEW day \in Days, iss[d] \in Rows, iss[d][0] # Nil
  PROVE  /\ GetIssuance(iss, bal, d, day) = iss[d][LastStored(iss, d, day)]
         /\ GetIssuance(iss, bal, d, day) \in Nat
<1>1. 0 \in StoredDays(iss, d, day)
  BY DaysAreNaturals DEF StoredDays
<1>2. LastStored(iss, d, day) \in StoredDays(iss, d, day)
  BY <1>1, LastStoredIsLast
<1>3. LastStored(iss, d, day) \in Days /\ iss[d][LastStored(iss, d, day)] # Nil
  BY <1>2, DaysAreNaturals DEF StoredDays
<1>4. iss[d][LastStored(iss, d, day)] \in Nat
  BY <1>3 DEF Rows
<1> QED  BY <1>1, <1>4 DEF GetIssuance

LEMMA ReadsUntouched ==
  ASSUME NEW iss, NEW bal, NEW d, NEW day \in Days, NEW last,
         Recorded(iss[d], last), iss[d][0] = Nil
  PROVE  GetIssuance(iss, bal, d, day) = InAccounts(bal, d) /\ \A k \in Days : iss[d][k] = Nil
<1>1. \A k \in Days : iss[d][k] = Nil
  BY DaysAreNaturals DEF Recorded
<1>2. StoredDays(iss, d, day) = {}
  BY <1>1, DaysAreNaturals DEF StoredDays
<1> QED  BY <1>1, <1>2 DEF GetIssuance

LEMMA IssuanceType ==
  ASSUME NEW iss, NEW bal \in Holdings, NEW d \in Denoms, NEW day \in Days, NEW last,
         iss[d] \in Rows, Recorded(iss[d], last)
  PROVE  GetIssuance(iss, bal, d, day) \in Nat
<1>1. CASE iss[d][0] = Nil
  <2>1. GetIssuance(iss, bal, d, day) = InAccounts(bal, d)
    BY <1>1, ReadsUntouched
  <2> QED  BY <2>1, InAccountsType
<1>2. CASE iss[d][0] # Nil
  BY <1>2, ReadsTouched
<1> QED  BY <1>1, <1>2

(* Without a snapshot in between, a later day reads what an earlier one does. *)
LEMMA ReadsCarriedOver ==
  ASSUME NEW iss, NEW bal, NEW d, NEW day \in Days, NEW later \in Days, day <= later,
         \A k \in Days : day < k => iss[d][k] = Nil
  PROVE  GetIssuance(iss, bal, d, later) = GetIssuance(iss, bal, d, day)
<1>1. day \in Nat /\ later \in Nat /\ \A k \in 0 .. later : k \in Days /\ k \in Nat
  BY DaysAreNaturals
<1>2. StoredDays(iss, d, later) = StoredDays(iss, d, day)
  BY <1>1 DEF StoredDays
<1> QED  BY <1>2 DEF GetIssuance, LastStored

(* Reading depends on one row, and on the accounts only without snapshots. *)
LEMMA ReadsOneRow ==
  ASSUME NEW iss, NEW new, NEW bal, NEW bal2, NEW d, NEW day \in Days,
         \A k \in 0 .. day : new[d][k] = iss[d][k],
         iss[d][0] # Nil \/ InAccounts(bal, d) = InAccounts(bal2, d)
  PROVE  GetIssuance(new, bal2, d, day) = GetIssuance(iss, bal, d, day)
<1>1. StoredDays(new, d, day) = StoredDays(iss, d, day)
  BY DEF StoredDays
<1>2. LastStored(new, d, day) = LastStored(iss, d, day)
  BY <1>1 DEF LastStored
<1>3. CASE StoredDays(iss, d, day) = {}
  <2>1. iss[d][0] = Nil
    BY <1>3, DaysAreNaturals DEF StoredDays
  <2> QED  BY <1>1, <1>3, <2>1 DEF GetIssuance
<1>4. CASE StoredDays(iss, d, day) # {}
  <2>1. LastStored(iss, d, day) \in 0 .. day
    BY <1>4, LastStoredIsLast DEF StoredDays
  <2> QED  BY <1>1, <1>2, <1>4, <2>1 DEF GetIssuance
<1> QED  BY <1>3, <1>4

-----------------------------------------------------------------------------
(* Filling and changing *)

(* The row that reading a day leaves behind. *)
FilledRow(row, value, day) ==
  [k \in Days |-> IF k <= day /\ \A j \in k .. day : row[j] = Nil THEN value ELSE row[k]]

LEMMA FillIsFilledRow ==
  ASSUME NEW iss \in Snapshots, NEW bal, NEW d \in Denoms, NEW day
  PROVE  /\ FillIssuance(iss, bal, d, day)[d]
              = FilledRow(iss[d], GetIssuance(iss, bal, d, day), day)
         /\ \A e \in Denoms \ {d} : FillIssuance(iss, bal, d, day)[e] = iss[e]
         /\ DOMAIN FillIssuance(iss, bal, d, day) = Denoms
  BY DEF FillIssuance, FilledRow, Snapshots

LEMMA FilledRowRecorded ==
  ASSUME NEW row \in Rows, NEW day \in Days, Recorded(row, day), NEW value \in Nat
  PROVE  /\ FilledRow(row, value, day) \in Rows
         /\ Recorded(FilledRow(row, value, day), day)
         /\ \A k \in 0 .. day : FilledRow(row, value, day)[k] # Nil
         /\ \A k \in Days : row[k] # Nil => FilledRow(row, value, day)[k] = row[k]
         /\ \A k \in 0 .. day : row[k] = Nil => FilledRow(row, value, day)[k] = value
         /\ \A k \in Days : k > day => FilledRow(row, value, day)[k] = Nil
<1> DEFINE new == FilledRow(row, value, day)
<1>1. day \in Nat /\ Days \subseteq Nat /\ \A k \in 0 .. day : k \in Days
  BY DaysAreNaturals
<1>2. Nil \notin Nat
  BY MintAssumption
<1>3. ASSUME NEW k \in 0 .. day, row[k] = Nil
      PROVE  \A j \in k .. day : row[j] = Nil
  <2>1. \A j \in k .. day : j \in Days /\ k \in 0 .. j
    BY <1>1
  <2> QED  BY <1>3, <2>1 DEF Recorded
<1>4. \A k \in Days : new[k] = IF k <= day /\ \A j \in k .. day : row[j] = Nil
                               THEN value ELSE row[k]
  BY DEF FilledRow
<1>5. new \in Rows
  BY DEF FilledRow, Rows
<1>6. \A k \in Days : row[k] # Nil => new[k] = row[k]
  <2>1. \A k \in Days : k <= day => k \in k .. day
    BY <1>1
  <2> QED  BY <1>4, <2>1
<1>7. \A k \in 0 .. day : row[k] = Nil => new[k] = value
  BY <1>1, <1>3, <1>4
<1>8. \A k \in Days : k > day => new[k] = Nil
  BY <1>1, <1>4 DEF Recorded
<1> HIDE DEF new
<1>9. \A k \in 0 .. day : new[k] # Nil
  BY <1>1, <1>2, <1>6, <1>7
<1>10. Recorded(new, day)
  <2>1. ASSUME NEW k \in Days, new[k] # Nil
        PROVE  \A j \in 0 .. k : new[j] # Nil
    <3>1. k <= day
      BY <1>1, <1>8, <2>1
    <3>2. \A j \in 0 .. k : j \in 0 .. day
      BY <1>1, <3>1
    <3> QED  BY <1>9, <3>2
  <2> QED  BY <1>8, <2>1 DEF Recorded
<1> QED  BY <1>5, <1>6, <1>7, <1>8, <1>9, <1>10 DEF new

(* What filling the snapshots up to a day guarantees. *)
LEMMA FillGuarantee ==
  ASSUME NEW iss \in Snapshots, NEW bal \in Holdings, NEW d \in Denoms, NEW day \in Days,
         Recorded(iss[d], day)
  PROVE  /\ FillIssuance(iss, bal, d, day) \in Snapshots
         /\ \A e \in Denoms \ {d} : FillIssuance(iss, bal, d, day)[e] = iss[e]
         /\ Recorded(FillIssuance(iss, bal, d, day)[d], day)
         /\ \A k \in 0 .. day : FillIssuance(iss, bal, d, day)[d][k] # Nil
         /\ \A k \in Days : iss[d][k] # Nil => FillIssuance(iss, bal, d, day)[d][k] = iss[d][k]
         /\ FillIssuance(iss, bal, d, day)[d][day] = GetIssuance(iss, bal, d, day)
         /\ \A k \in 0 .. day : iss[d][k] = Nil =>
              FillIssuance(iss, bal, d, day)[d][k] = GetIssuance(iss, bal, d, day)
<1> DEFINE value == GetIssuance(iss, bal, d, day)
           new == FillIssuance(iss, bal, d, day)
<1>1. iss[d] \in Rows /\ \A e \in Denoms : iss[e] \in Rows
  BY DEF Snapshots
<1>2. value \in Nat
  BY <1>1, IssuanceType
<1>3. /\ new[d] = FilledRow(iss[d], value, day)
      /\ \A e \in Denoms \ {d} : new[e] = iss[e]
      /\ DOMAIN new = Denoms
  BY FillIsFilledRow
<1>4. new = [e \in Denoms |-> new[e]]
  BY DEF FillIssuance, Snapshots
<1> HIDE DEF value, new
<1>5. /\ new[d] \in Rows
      /\ Recorded(new[d], day)
      /\ \A k \in 0 .. day : new[d][k] # Nil
      /\ \A k \in Days : iss[d][k] # Nil => new[d][k] = iss[d][k]
      /\ \A k \in 0 .. day : iss[d][k] = Nil => new[d][k] = value
  BY <1>1, <1>2, <1>3, FilledRowRecorded
<1>6. new[d][day] = value
  <2>1. day \in 0 .. day
    BY DaysAreNaturals
  <2>2. iss[d][day] # Nil => value = iss[d][day]
    BY ReadsStored DEF value
  <2> QED  BY <1>5, <2>1, <2>2
<1>7. new \in Snapshots
  <2>1. \A e \in Denoms : new[e] \in Rows
    BY <1>1, <1>3, <1>5
  <2> QED  BY <1>4, <2>1 DEF Snapshots
<1> QED  BY <1>3, <1>5, <1>6, <1>7 DEF value, new

(* What a change of the issuance on a day guarantees. *)
LEMMA ChangeGuarantee ==
  ASSUME NEW iss \in Snapshots, NEW bal \in Holdings, NEW d \in Denoms, NEW day \in Days,
         Recorded(iss[d], day), NEW delta \in Int, IssuanceCovers(iss, bal, d, delta, day)
  PROVE  /\ ChangeIssuance(iss, bal, d, delta, day) \in Snapshots
         /\ \A e \in Denoms \ {d} : ChangeIssuance(iss, bal, d, delta, day)[e] = iss[e]
         /\ Recorded(ChangeIssuance(iss, bal, d, delta, day)[d], day)
         /\ \A k \in 0 .. day : ChangeIssuance(iss, bal, d, delta, day)[d][k] # Nil
         /\ \A k \in 0 .. day - 1 : ChangeIssuance(iss, bal, d, delta, day)[d][k]
              = FillIssuance(iss, bal, d, day)[d][k]
         /\ ChangeIssuance(iss, bal, d, delta, day)[d][day]
              = IF iss[d][0] = Nil THEN InAccounts(bal, d)
                ELSE GetIssuance(iss, bal, d, day) + delta
<1> DEFINE value == GetIssuance(iss, bal, d, day)
           fill == FillIssuance(iss, bal, d, day)
           new == ChangeIssuance(iss, bal, d, delta, day)
<1>0. day \in Nat /\ Days \subseteq Nat /\ \A k \in 0 .. day - 1 : k \in Days /\ k # day
  BY DaysAreNaturals
<1>1. /\ fill \in Snapshots
      /\ \A e \in Denoms \ {d} : fill[e] = iss[e]
      /\ Recorded(fill[d], day)
      /\ \A k \in 0 .. day : fill[d][k] # Nil
      /\ fill[d][day] = value
  BY FillGuarantee
<1>2. CASE iss[d][0] = Nil
  <2>1. new = fill
    BY <1>2 DEF ChangeIssuance
  <2>2. value = InAccounts(bal, d)
    BY <1>2, ReadsUntouched
  <2> HIDE DEF value, fill, new
  <2>3. \A k \in 0 .. day - 1 : new[d][k] = fill[d][k]
    BY <2>1
  <2>4. new[d][day] = IF iss[d][0] = Nil THEN InAccounts(bal, d) ELSE value + delta
    BY <1>1, <1>2, <2>1, <2>2
  <2> QED  BY <1>1, <2>1, <2>3, <2>4 DEF value, fill, new
<1>3. CASE iss[d][0] # Nil
  <2>1. new = [fill EXCEPT ![d] = [fill[d] EXCEPT ![day] = value + delta]]
    BY <1>3 DEF ChangeIssuance
  <2>2. iss[d] \in Rows /\ fill[d] \in Rows
    BY <1>1 DEF Snapshots
  <2>3. value \in Nat /\ value + delta >= 0
    BY <1>3, <2>2, ReadsTouched DEF IssuanceCovers
  <2>4. Nil \notin Nat
    BY MintAssumption
  <2> HIDE DEF value, fill, new
  <2>5. value + delta \in Nat
    BY <2>3
  <2>6. /\ new[d] = [fill[d] EXCEPT ![day] = value + delta]
        /\ \A e \in Denoms \ {d} : new[e] = fill[e]
        /\ new \in Snapshots
    BY <1>1, <2>1, <2>2, <2>5 DEF Snapshots, Rows
  <2>7. /\ new[d][day] = value + delta
        /\ \A k \in Days \ {day} : new[d][k] = fill[d][k]
    BY <2>2, <2>6 DEF Rows
  <2>8. \A k \in Days : new[d][k] = Nil <=> fill[d][k] = Nil
    <3>1. day \in 0 .. day
      BY <1>0
    <3>2. new[d][day] # Nil /\ fill[d][day] # Nil
      BY <1>1, <2>4, <2>5, <2>7, <3>1
    <3> QED  BY <2>7, <3>2
  <2>9. \A k \in Days : \A j \in 0 .. k : j \in Days
    BY DaysAreNaturals
  <2>10. Recorded(new[d], day)
    BY <1>1, <2>8, <2>9 DEF Recorded
  <2>11. \A k \in 0 .. day : new[d][k] # Nil
    BY <1>1, <2>8, <2>9
  <2>12. \A k \in 0 .. day - 1 : new[d][k] = fill[d][k]
    BY <1>0, <2>7
  <2>13. \A e \in Denoms \ {d} : new[e] = iss[e]
    BY <1>1, <2>6
  <2> QED  BY <1>3, <2>6, <2>7, <2>10, <2>11, <2>12, <2>13 DEF value, fill, new
<1> QED  BY <1>2, <1>3

(* A day that is over reads the same before and after. *)
LEMMA PastReadsTheSame ==
  ASSUME NEW iss, NEW new, NEW bal, NEW bal2, NEW d, NEW day \in Days, NEW past \in 0 .. day,
         Recorded(iss[d], day), iss[d][0] # Nil,
         new[d][past] # Nil,
         iss[d][past] # Nil => new[d][past] = iss[d][past],
         iss[d][past] = Nil => new[d][past] = GetIssuance(iss, bal, d, day)
  PROVE  GetIssuance(new, bal2, d, past) = GetIssuance(iss, bal, d, past)
<1>0. past \in Days /\ past <= day /\ past \in Nat /\ Days \subseteq Nat
  BY DaysAreNaturals
<1>1. GetIssuance(new, bal2, d, past) = new[d][past]
  BY <1>0, ReadsStored
<1>2. CASE iss[d][past] # Nil
  <2>1. GetIssuance(iss, bal, d, past) = iss[d][past]
    BY <1>0, <1>2, ReadsStored
  <2> QED  BY <1>1, <1>2, <2>1
<1>3. CASE iss[d][past] = Nil
  <2>1. \A k \in Days : past < k => iss[d][k] = Nil
    <3> SUFFICES ASSUME NEW k \in Days, past < k, iss[d][k] # Nil PROVE FALSE
      OBVIOUS
    <3>1. past \in 0 .. k
      BY <1>0
    <3> QED  BY <1>3, <3>1 DEF Recorded
  <2>2. GetIssuance(iss, bal, d, day) = GetIssuance(iss, bal, d, past)
    BY <1>0, <2>1, ReadsCarriedOver
  <2> QED  BY <1>1, <1>3, <2>2
<1> QED  BY <1>2, <1>3

-----------------------------------------------------------------------------
(* Coins that change hands *)

LEMMA CreditGuarantee ==
  ASSUME NEW bal \in Holdings, NEW d \in Denoms, NEW a \in Accounts, NEW amt \in Int,
         bal[d][a] + amt >= 0
  PROVE  /\ Credit(bal, d, a, amt) \in Holdings
         /\ InAccounts(Credit(bal, d, a, amt), d) = InAccounts(bal, d) + amt
         /\ \A e \in Denoms \ {d} : Credit(bal, d, a, amt)[e] = bal[e]
         /\ Credit(bal, d, a, amt)[d][a] = bal[d][a] + amt
<1> DEFINE new == Credit(bal, d, a, amt)
           f == bal[d]
           g == [f EXCEPT ![a] = f[a] + amt]
<1>1. f \in [Accounts -> Nat] /\ f[a] + amt >= 0 /\ f[a] \in Nat
  BY DEF Holdings
<1>2. new = [bal EXCEPT ![d] = g]
  BY DEF Credit
<1> HIDE DEF f
<1>3. g \in [Accounts -> Nat] /\ g[a] = f[a] + amt /\ \A x \in Accounts \ {a} : f[x] = g[x]
  BY <1>1
<1> HIDE DEF g
<1>4. new \in Holdings /\ new[d] = g /\ \A e \in Denoms \ {d} : new[e] = bal[e]
  BY <1>2, <1>3 DEF Holdings
<1> HIDE DEF new
<1>5. SumFunctionOnSet(g, Accounts) = SumFunctionOnSet(f, Accounts) + g[a] - f[a]
  <2>1. IsFiniteSet(Accounts)
    BY MintAssumption
  <2>2. \A x \in Accounts : f[x] \in Int /\ g[x] \in Int
    BY <1>1, <1>3
  <2> QED  BY <1>3, <2>1, <2>2, SumChange
<1>6. /\ InAccounts(new, d) = SumFunctionOnSet(g, Accounts)
      /\ InAccounts(bal, d) = SumFunctionOnSet(f, Accounts)
      /\ InAccounts(bal, d) \in Nat
  BY <1>4, InAccountsType DEF f
<1>7. InAccounts(new, d) = InAccounts(bal, d) + amt
  BY <1>1, <1>3, <1>5, <1>6
<1> QED  BY <1>1, <1>3, <1>4, <1>7 DEF new, f

LEMMA InAccountsOfRow ==
  ASSUME NEW bal, NEW bal2, NEW d, bal[d] = bal2[d]
  PROVE  InAccounts(bal, d) = InAccounts(bal2, d)
  BY DEF InAccounts

=============================================================================
