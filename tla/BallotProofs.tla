---------------------------- MODULE BallotProofs ----------------------------
(***************************************************************************)
(* Proofs about Ballot for ballots of any length, with any prices, any     *)
(* distribution of power and any votes of validators that are gone.        *)
(***************************************************************************)
EXTENDS Ballot, UtilProofs, SequenceTheorems

Half == TotalPower \div 2

(* Before index k + 1 the loop could not have returned. *)
NotReached(k) == PowerOf(1 .. k) < Half \/ \A m \in 1 .. k : pb[m].power = Gone

(* The vote at index i is the one that ends the loop. *)
EndsLoop(i) ==
  /\ pb[i].power # Gone
  /\ PowerOf(1 .. i) >= Half
  /\ NotReached(i - 1)

BallotInv ==
  /\ pb \in Seq(Votes) /\ Sorted(pb)
  /\ next \in 1 .. Len(pb) + 1
  /\ pivot = PowerOf(1 .. next - 1)
  /\ median = Gone => NotReached(next - 1)
  /\ median # Gone => \/ median = 0 /\ \A m \in 1 .. Len(pb) : pb[m].power = Gone
                      \/ \E i \in 1 .. Len(pb) : EndsLoop(i) /\ median = pb[i].price

-----------------------------------------------------------------------------
(* Votes and their power *)

LEMMA VoteTypes ==
  ASSUME pb \in Seq(Votes)
  PROVE  /\ Len(pb) \in Nat /\ DOMAIN pb = 1 .. Len(pb) /\ IsFiniteSet(1 .. Len(pb))
         /\ \A i \in 1 .. Len(pb) : /\ VotePower(i) \in Nat
                                    /\ pb[i].price \in Nat \ {0} /\ pb[i].price # Gone
                                    /\ pb[i].power = Gone => VotePower(i) = 0
<1>1. Len(pb) \in Nat /\ DOMAIN pb = 1 .. Len(pb)
  BY LenProperties
<1>2. IsFiniteSet(1 .. Len(pb))
  BY <1>1, FS_Interval
<1>3. ASSUME NEW i \in 1 .. Len(pb)
      PROVE  /\ VotePower(i) \in Nat
             /\ pb[i].price \in Nat \ {0} /\ pb[i].price # Gone
             /\ pb[i].power = Gone => VotePower(i) = 0
  <2>1. pb[i] \in Votes
    BY ElementOfSeq
  <2>2. pb[i].price \in Nat \ {0} /\ (pb[i].power \in Nat \/ pb[i].power = Gone)
    BY <2>1, BallotAssumption DEF Votes
  <2> QED  BY <2>2, BallotAssumption DEF VotePower
<1> QED  BY <1>1, <1>2, <1>3

(* The power of some votes, as a sum of one function. *)
AllPowers == [i \in 1 .. Len(pb) |-> VotePower(i)]

LEMMA PowerIsSum ==
  ASSUME pb \in Seq(Votes), NEW I \in SUBSET (1 .. Len(pb))
  PROVE  /\ PowerOf(I) = SumFunctionOnSet(AllPowers, I)
         /\ PowerOf(I) \in Nat
         /\ TotalPower = PowerOf(1 .. Len(pb)) /\ TotalPower \in Nat
<1> DEFINE f == [i \in I |-> VotePower(i)]
<1>1. IsFiniteSet(I) /\ IsFiniteSet(1 .. Len(pb))
  BY VoteTypes, FS_Subset
<1>2. \A i \in I : f[i] \in Int /\ f[i] \in Nat /\ f[i] = AllPowers[i]
  BY VoteTypes DEF AllPowers
<1>3. PowerOf(I) = SumFunctionOnSet(f, I)
  BY DEF PowerOf, SumFunction
<1> HIDE DEF f
<1>4. SumFunctionOnSet(f, I) = SumFunctionOnSet(AllPowers, I)
  BY <1>1, <1>2, SumSame
<1>5. SumFunctionOnSet(f, I) \in Nat
  BY <1>1, <1>2, SumType
<1>6. TotalPower = PowerOf(1 .. Len(pb))
  BY VoteTypes DEF TotalPower
<1>7. TotalPower \in Nat
  <2>1. TotalPower = SumFunctionOnSet(AllPowers, 1 .. Len(pb))
    BY <1>6 DEF PowerOf, SumFunction, AllPowers
  <2>2. \A i \in 1 .. Len(pb) : AllPowers[i] \in Nat
    BY VoteTypes DEF AllPowers
  <2> QED  BY <1>1, <2>1, <2>2, SumType
<1> QED  BY <1>3, <1>4, <1>5, <1>6, <1>7

(* Votes without power do not count. *)
LEMMA PowerAtMost ==
  ASSUME pb \in Seq(Votes), NEW I \in SUBSET (1 .. Len(pb)), NEW J \in SUBSET (1 .. Len(pb)),
         \A i \in I \ J : VotePower(i) = 0
  PROVE  PowerOf(I) <= PowerOf(J)
<1>1. IsFiniteSet(1 .. Len(pb)) /\ \A i \in 1 .. Len(pb) : AllPowers[i] \in Nat
  BY VoteTypes DEF AllPowers
<1>2. \A i \in I \ J : AllPowers[i] = 0
  BY DEF AllPowers
<1>3. SumFunctionOnSet(AllPowers, I) <= SumFunctionOnSet(AllPowers, J)
  BY <1>1, <1>2, SumAtMost
<1> QED  BY <1>3, PowerIsSum

(* The running sum of the loop. *)
LEMMA PowerGrows ==
  ASSUME pb \in Seq(Votes), NEW n \in 1 .. Len(pb)
  PROVE  /\ PowerOf(1 .. n) = PowerOf(1 .. n - 1) + VotePower(n)
         /\ PowerOf(1 .. n) \in Nat /\ PowerOf(1 .. n - 1) \in Nat
<1>0. Len(pb) \in Nat /\ n \in Nat
  BY VoteTypes
<1>1. /\ 1 .. n \in SUBSET (1 .. Len(pb)) /\ 1 .. n - 1 \in SUBSET (1 .. Len(pb))
      /\ n \in 1 .. n /\ (1 .. n) \ {n} = 1 .. n - 1
  BY <1>0
<1>2. IsFiniteSet(1 .. n) /\ \A i \in 1 .. n : AllPowers[i] \in Int
  <2>1. \A i \in 1 .. n : AllPowers[i] \in Int
    BY <1>1, VoteTypes DEF AllPowers
  <2> QED  BY <1>0, <2>1, FS_Interval
<1>3. SumFunctionOnSet(AllPowers, 1 .. n)
        = AllPowers[n] + SumFunctionOnSet(AllPowers, (1 .. n) \ {n})
  <2> DEFINE S == 1 .. n
             f == AllPowers
             e == n
  <2>1. IsFiniteSet(S) /\ e \in S /\ \A i \in S : f[i] \in Int
    BY <1>1, <1>2
  <2> HIDE DEF S, f, e
  <2>2. SumFunctionOnSet(f, S) = f[e] + SumFunctionOnSet(f, S \ {e})
    BY <2>1, SumRemove
  <2> QED  BY <2>2 DEF S, f, e
<1>4. AllPowers[n] = VotePower(n) /\ VotePower(n) \in Nat
  BY VoteTypes DEF AllPowers
<1>5. /\ PowerOf(1 .. n) = SumFunctionOnSet(AllPowers, 1 .. n)
      /\ PowerOf(1 .. n - 1) = SumFunctionOnSet(AllPowers, 1 .. n - 1)
      /\ PowerOf(1 .. n) \in Nat /\ PowerOf(1 .. n - 1) \in Nat
  BY <1>1, PowerIsSum
<1>6. PowerOf(1 .. n) = VotePower(n) + PowerOf(1 .. n - 1)
  BY <1>1, <1>3, <1>4, <1>5
<1> QED  BY <1>4, <1>5, <1>6

(* Sorting neighbours sorts the ballot. *)
LEMMA SortedPrices ==
  ASSUME pb \in Seq(Votes), Sorted(pb), NEW i \in 1 .. Len(pb), NEW j \in 1 .. Len(pb), i <= j
  PROVE  pb[i].price <= pb[j].price
<1>0. Len(pb) \in Nat /\ i \in Nat /\ j \in Nat /\ \A k \in 1 .. Len(pb) : pb[k].price \in Nat
  BY VoteTypes
<1> DEFINE P == {d \in Nat : i + d <= Len(pb) => pb[i].price <= pb[i + d].price}
<1>1. 0 \in P
  BY <1>0
<1>2. ASSUME NEW d \in P
      PROVE  d + 1 \in P
  <2> SUFFICES ASSUME i + (d + 1) <= Len(pb)
               PROVE  pb[i].price <= pb[i + (d + 1)].price
    OBVIOUS
  <2>1. PICK m \in 1 .. Len(pb) - 1 : m = i + d /\ m + 1 = i + (d + 1)
    BY <1>0
  <2>2. pb[i].price <= pb[m].price
    BY <1>0, <2>1
  <2>3. pb[m].price <= pb[m + 1].price
    BY DEF Sorted
  <2>4. m \in 1 .. Len(pb) /\ m + 1 \in 1 .. Len(pb)
    BY <1>0
  <2> QED  BY <1>0, <2>1, <2>2, <2>3, <2>4
<1> HIDE DEF P
<1>3. P = Nat
  <2>1. P \in SUBSET Nat
    BY DEF P
  <2> QED  BY <1>1, <1>2, <2>1, NaturalInduction
<1>4. PICK d \in Nat : j = i + d
  <2>1. j - i \in Nat /\ j = i + (j - i)
    BY <1>0
  <2> QED  BY <2>1
<1>5. d \in P
  BY <1>3
<1> QED  BY <1>0, <1>4, <1>5 DEF P

-----------------------------------------------------------------------------
(* The loop *)

LEMMA InitBallot ==
  ASSUME BallotInit
  PROVE  BallotInv
<1>1. pb \in Seq(Votes) /\ Sorted(pb)
  <2>1. PICK n \in 0 .. MaxVotes : pb \in [1 .. n -> Votes] /\ Sorted(pb)
    BY DEF BallotInit
  <2>2. n \in Nat
    BY BallotAssumption
  <2> QED  BY <2>1, <2>2, SeqDef
<1>2. Len(pb) \in Nat /\ next = 1 /\ pivot = 0 /\ median = Gone
  BY <1>1, VoteTypes DEF BallotInit
<1>3. 1 .. next - 1 = {} /\ next \in 1 .. Len(pb) + 1
  BY <1>2
<1>4. PowerOf({}) = 0
  BY SumOfNothing DEF PowerOf, SumFunction
<1>5. NotReached(next - 1)
  BY <1>3 DEF NotReached
<1> QED  BY <1>1, <1>2, <1>3, <1>4, <1>5 DEF BallotInv

LEMMA CountVoteKeeps ==
  ASSUME BallotInv, CountVote
  PROVE  BallotInv'
<1>0. /\ pb \in Seq(Votes) /\ Sorted(pb) /\ pb' = pb /\ next' = next + 1
      /\ median = Gone /\ next \in 1 .. Len(pb) + 1 /\ next <= Len(pb)
      /\ pivot = PowerOf(1 .. next - 1) /\ NotReached(next - 1)
  BY DEF BallotInv, CountVote
<1>1. Len(pb) \in Nat /\ next \in 1 .. Len(pb) /\ next' \in 1 .. Len(pb) + 1 /\ next' - 1 = next
  BY <1>0, VoteTypes
<1>2. /\ PowerOf(1 .. next) = pivot + VotePower(next)
      /\ PowerOf(1 .. next) \in Nat /\ pivot \in Nat
      /\ VotePower(next) \in Nat /\ pb[next].price # Gone
      /\ pb[next].power = Gone => VotePower(next) = 0
      /\ TotalPower \in Nat /\ Half \in Nat
  <2>1. TotalPower \in Nat
    BY <1>0, PowerIsSum
  <2>2. Half \in Nat
    BY <2>1 DEF Half
  <2> QED  BY <1>0, <1>1, <2>1, <2>2, PowerGrows, VoteTypes
<1>3. /\ \A k : NotReached(k)' = NotReached(k)
      /\ \A i : EndsLoop(i)' = EndsLoop(i)
      /\ \A I : PowerOf(I)' = PowerOf(I)
  BY <1>0 DEF NotReached, EndsLoop, Half, TotalPower, PowerOf, VotePower
<1>4. /\ pb' \in Seq(Votes) /\ Sorted(pb') /\ next' \in 1 .. Len(pb') + 1
      /\ PowerOf(1 .. next - 1)' = PowerOf(1 .. next)
  <2>1. pb' \in Seq(Votes) /\ Sorted(pb') /\ next' \in 1 .. Len(pb') + 1
    BY <1>0, <1>1
  <2>2. 1 .. next' - 1 = 1 .. next
    BY <1>1
  <2>3. PowerOf(1 .. next - 1)' = PowerOf(1 .. next)
    BY <1>0, <2>2 DEF PowerOf, VotePower
  <2> QED  BY <2>1, <2>3
<1>5. CASE pb[next].power = Gone
  <2>1. pivot' = pivot /\ median' = Gone
    BY <1>0, <1>5 DEF CountVote
  <2>2. pivot' = PowerOf(1 .. next)
    BY <1>2, <1>5, <2>1
  <2>3. NotReached(next)
    <3>1. CASE PowerOf(1 .. next - 1) < Half
      BY <1>0, <2>1, <2>2, <3>1 DEF NotReached
    <3>2. CASE \A m \in 1 .. next - 1 : pb[m].power = Gone
      BY <1>1, <1>5, <3>2 DEF NotReached
    <3> QED  BY <1>0, <3>1, <3>2 DEF NotReached
  <2>4. NotReached(next - 1)'
    BY <1>0, <1>1, <2>3 DEF NotReached, Half, TotalPower, PowerOf, VotePower
  <2> QED  BY <1>4, <2>1, <2>2, <2>4 DEF BallotInv
<1>6. CASE pb[next].power # Gone
  <2>1. pivot' = PowerOf(1 .. next) /\ median' = IF pivot' >= Half THEN pb[next].price ELSE Gone
    BY <1>2, <1>6 DEF CountVote, ReturnsAt, Half
  <2>2. CASE pivot' >= Half
    <3>1. EndsLoop(next) /\ median' = pb[next].price /\ median' # Gone
      BY <1>0, <1>2, <1>6, <2>1, <2>2 DEF EndsLoop
    <3>2. \E i \in 1 .. Len(pb') : EndsLoop(i)' /\ median' = pb'[i].price
      BY <1>0, <1>1, <1>3, <3>1
    <3> QED  BY <1>4, <2>1, <3>1, <3>2 DEF BallotInv
  <2>3. CASE ~(pivot' >= Half)
    <3>1. NotReached(next) /\ median' = Gone
      BY <1>2, <2>1, <2>3 DEF NotReached
    <3>2. NotReached(next - 1)'
      BY <1>0, <1>1, <3>1 DEF NotReached, Half, TotalPower, PowerOf, VotePower
    <3> QED  BY <1>4, <2>1, <3>1, <3>2 DEF BallotInv
  <2> QED  BY <2>2, <2>3
<1> QED  BY <1>5, <1>6

(* The loop runs out of votes only if no voter is left: the last one would  *)
(* reach the whole power.                                                   *)
LEMMA ReturnZeroKeeps ==
  ASSUME BallotInv, ReturnZero
  PROVE  BallotInv'
<1>0. /\ pb \in Seq(Votes) /\ Sorted(pb) /\ pb' = pb /\ next' = next /\ pivot' = pivot
      /\ next \in 1 .. Len(pb) + 1 /\ next > Len(pb) /\ median' = 0
      /\ pivot = PowerOf(1 .. next - 1) /\ NotReached(next - 1)
  BY DEF BallotInv, ReturnZero
<1>1. Len(pb) \in Nat /\ next - 1 = Len(pb)
  BY <1>0, VoteTypes
<1>2. ~(PowerOf(1 .. Len(pb)) < Half)
  <2>1. TotalPower = PowerOf(1 .. Len(pb)) /\ TotalPower \in Nat
    BY <1>0, PowerIsSum
  <2>2. PICK t \in Nat : t = TotalPower
    BY <2>1
  <2>3. t \div 2 <= t
    OBVIOUS
  <2> QED  BY <2>1, <2>2, <2>3 DEF Half
<1>3. \A m \in 1 .. Len(pb) : pb[m].power = Gone
  BY <1>0, <1>1, <1>2 DEF NotReached
<1>4. pivot' = PowerOf(1 .. next - 1)'
  BY <1>0 DEF PowerOf, VotePower
<1>5. median' # Gone
  BY <1>0, BallotAssumption
<1> QED  BY <1>0, <1>3, <1>4, <1>5 DEF BallotInv

LEMMA BallotInvariant == BallotSpec => []BallotInv
<1>1. BallotInit => BallotInv
  BY InitBallot
<1>2. BallotInv /\ [BallotNext]_ballotVars => BallotInv'
  <2>1. ASSUME BallotInv, UNCHANGED ballotVars PROVE BallotInv'
    BY <2>1 DEF ballotVars, BallotInv, NotReached, EndsLoop, Half, TotalPower, PowerOf, VotePower
  <2> QED  BY <2>1, CountVoteKeeps, ReturnZeroKeeps DEF BallotNext
<1> QED  BY <1>1, <1>2, PTL DEF BallotSpec

-----------------------------------------------------------------------------
(* The properties *)

(* The vote that ends the loop has the lowest price at which the votes at   *)
(* or below it hold half of the power.                                      *)
LEMMA EndIsLowest ==
  ASSUME pb \in Seq(Votes), Sorted(pb), NEW i \in 1 .. Len(pb), EndsLoop(i)
  PROVE  LowestReached = pb[i].price
<1> DEFINE reached == {pb[k].price : k \in {j \in DOMAIN pb :
                         pb[j].power # Gone /\ PowerOf(AtMost(pb[j].price)) >= TotalPower \div 2}}
<1>0. /\ Len(pb) \in Nat /\ DOMAIN pb = 1 .. Len(pb)
      /\ \A k \in 1 .. Len(pb) : pb[k].price \in Nat
      /\ 1 .. i \in SUBSET (1 .. Len(pb)) /\ 1 .. i - 1 \in SUBSET (1 .. Len(pb))
  BY VoteTypes
<1>1. \A p : AtMost(p) \in SUBSET (1 .. Len(pb))
  BY <1>0 DEF AtMost
<1>2. Half \in Nat
  <2>1. TotalPower \in Nat
    BY PowerIsSum
  <2> QED  BY <2>1 DEF Half
<1>3. \A I \in SUBSET (1 .. Len(pb)) : PowerOf(I) \in Nat
  BY PowerIsSum
<1>4. pb[i].price \in reached
  <2>1. 1 .. i \subseteq AtMost(pb[i].price)
    <3> SUFFICES ASSUME NEW k \in 1 .. i PROVE k \in AtMost(pb[i].price)
      OBVIOUS
    <3>1. k \in 1 .. Len(pb) /\ k <= i
      BY <1>0
    <3>2. pb[k].price <= pb[i].price
      BY <3>1, SortedPrices
    <3> QED  BY <1>0, <3>1, <3>2 DEF AtMost
  <2>2. PowerOf(1 .. i) <= PowerOf(AtMost(pb[i].price))
    BY <1>0, <1>1, <2>1, PowerAtMost
  <2>3. PowerOf(AtMost(pb[i].price)) >= Half
    BY <1>0, <1>1, <1>2, <1>3, <2>2 DEF EndsLoop
  <2> QED  BY <1>0, <2>3 DEF EndsLoop, Half
<1>5. ASSUME NEW q \in reached, ~(pb[i].price <= q)
      PROVE  FALSE
  <2>1. PICK j \in 1 .. Len(pb) : /\ q = pb[j].price /\ pb[j].power # Gone
                                  /\ PowerOf(AtMost(q)) >= Half
    BY <1>0 DEF Half
  <2>2. AtMost(q) \subseteq 1 .. i - 1
    <3> SUFFICES ASSUME NEW k \in AtMost(q) PROVE k \in 1 .. i - 1
      OBVIOUS
    <3>1. k \in 1 .. Len(pb) /\ pb[k].price <= q
      BY <1>0 DEF AtMost
    <3>2. i <= k => pb[i].price <= pb[k].price
      BY <3>1, SortedPrices
    <3>3. ~(i <= k)
      BY <1>0, <1>5, <2>1, <3>1, <3>2
    <3> QED  BY <1>0, <3>1, <3>3
  <2>3. j \in AtMost(q)
    BY <1>0, <2>1 DEF AtMost
  <2>4. PowerOf(1 .. i - 1) < Half
    BY <2>1, <2>2, <2>3 DEF EndsLoop, NotReached
  <2>5. PowerOf(AtMost(q)) <= PowerOf(1 .. i - 1)
    BY <1>0, <1>1, <2>2, PowerAtMost
  <2> QED  BY <1>0, <1>1, <1>2, <1>3, <2>1, <2>4, <2>5
<1>6. \A q \in reached : q \in Nat
  BY <1>0
<1>7. LowestReached = IF reached = {} THEN 0 ELSE CHOOSE p \in reached : \A q \in reached : p <= q
  BY DEF LowestReached
<1> HIDE DEF reached
<1>8. PICK low \in reached : /\ low = (CHOOSE p \in reached : \A q \in reached : p <= q)
                             /\ \A q \in reached : low <= q
  BY <1>4, <1>5
<1>9. low = pb[i].price
  <2>1. low <= pb[i].price /\ pb[i].price <= low
    BY <1>4, <1>5, <1>8
  <2>2. low \in Nat /\ pb[i].price \in Nat
    BY <1>4, <1>6
  <2> QED  BY <2>1, <2>2
<1> QED  BY <1>4, <1>7, <1>8, <1>9

(* The loop of weightedMedian computes the price that Oracle's definition   *)
(* names, for ballots of any length and however equal prices are ordered.   *)
THEOREM LoopAlwaysLowest == BallotSpec => []LoopIsLowestReached
<1>1. BallotInv => LoopIsLowestReached
  <2> SUFFICES ASSUME BallotInv, median # Gone PROVE median = LowestReached
    BY DEF LoopIsLowestReached, Returned
  <2>0. pb \in Seq(Votes) /\ Sorted(pb)
    BY DEF BallotInv
  <2>1. CASE median = 0 /\ \A m \in 1 .. Len(pb) : pb[m].power = Gone
    <3>1. {j \in DOMAIN pb : pb[j].power # Gone
                             /\ PowerOf(AtMost(pb[j].price)) >= TotalPower \div 2} = {}
      BY <2>0, <2>1, VoteTypes
    <3>2. LowestReached = 0
      BY <3>1 DEF LowestReached
    <3> QED  BY <2>1, <3>2
  <2>2. ASSUME NEW i \in 1 .. Len(pb), EndsLoop(i), median = pb[i].price
        PROVE  median = LowestReached
    BY <2>0, <2>2, EndIsLowest
  <2> QED  BY <2>1, <2>2 DEF BallotInv
<1> QED  BY <1>1, BallotInvariant, PTL

(* Some votes hold more power than a minority: one of them is not in it. *)
LEMMA OutsideMinority ==
  ASSUME pb \in Seq(Votes), NEW I \in SUBSET (1 .. Len(pb)), NEW M \in SUBSET (1 .. Len(pb)),
         PowerOf(M) < PowerOf(I)
  PROVE  \E k \in I \ M : VotePower(k) > 0
<1> SUFFICES ASSUME ~\E k \in I \ M : VotePower(k) > 0 PROVE FALSE
  OBVIOUS
<1>1. \A k \in I \ M : VotePower(k) = 0
  <2>1. \A k \in I \ M : VotePower(k) \in Nat
    BY VoteTypes
  <2> QED  BY <2>1
<1>2. PowerOf(I) <= PowerOf(M) /\ PowerOf(I) \in Nat /\ PowerOf(M) \in Nat
  BY <1>1, PowerAtMost, PowerIsSum
<1> QED  BY <1>2

(* Voters with less than half of the ballot's power cannot push the price   *)
(* the loop returns outside the range of the other voters' prices, but for  *)
(* downward pushes by one that lacks just half a unit of power.             *)
THEOREM MinorityNeverMoves == BallotSpec => []MinorityCannotMove
<1>1. BallotInv => MinorityCannotMove
  <2> SUFFICES ASSUME BallotInv, median # Gone, TotalPower > 0,
                      NEW M \in SUBSET DOMAIN pb, 2 * PowerOf(M) < TotalPower
               PROVE  LET others == {i \in DOMAIN pb \ M : VotePower(i) > 0}
                      IN  /\ \E i \in others : pb[i].price >= median
                          /\ \/ 2 * PowerOf(M) = TotalPower - 1
                             \/ \E i \in others : pb[i].price <= median
    BY DEF MinorityCannotMove, Returned
  <2>0. /\ pb \in Seq(Votes) /\ Sorted(pb) /\ Len(pb) \in Nat /\ DOMAIN pb = 1 .. Len(pb)
        /\ M \in SUBSET (1 .. Len(pb))
    BY VoteTypes DEF BallotInv
  <2>1. /\ TotalPower \in Nat /\ TotalPower = PowerOf(1 .. Len(pb)) /\ PowerOf(M) \in Nat
        /\ Half \in Nat /\ 2 * Half <= TotalPower /\ TotalPower <= 2 * Half + 1
    <3>1. TotalPower \in Nat /\ TotalPower = PowerOf(1 .. Len(pb)) /\ PowerOf(M) \in Nat
      BY <2>0, PowerIsSum
    <3>2. PICK t \in Nat : t = TotalPower
      BY <3>1
    <3>3. t \div 2 \in Nat /\ 2 * (t \div 2) <= t /\ t <= 2 * (t \div 2) + 1
      OBVIOUS
    <3> QED  BY <3>1, <3>2, <3>3 DEF Half
  <2>2. PICK i \in 1 .. Len(pb) : EndsLoop(i) /\ median = pb[i].price
    <3>1. ASSUME \A m \in 1 .. Len(pb) : pb[m].power = Gone
          PROVE  FALSE
      <4>1. \A m \in 1 .. Len(pb) : VotePower(m) = 0
        BY <2>0, <3>1, VoteTypes
      <4>2. PowerOf(1 .. Len(pb)) <= PowerOf({}) /\ PowerOf({}) = 0
        BY <2>0, <4>1, PowerAtMost, SumOfNothing DEF PowerOf, SumFunction
      <4> QED  BY <2>1, <4>2
    <3> QED  BY <3>1 DEF BallotInv
  <2>3. ASSUME 2 * PowerOf(M) # TotalPower - 1
        PROVE  \E k \in 1 .. Len(pb) : k \notin M /\ VotePower(k) > 0 /\ pb[k].price <= median
    <3>0. PowerOf(M) < Half
      BY <2>1, <2>3
    <3>1. 1 .. i \in SUBSET (1 .. Len(pb)) /\ PowerOf(1 .. i) \in Nat
      BY <2>0, PowerIsSum
    <3>2. PowerOf(M) < PowerOf(1 .. i)
      BY <2>1, <2>2, <3>0, <3>1 DEF EndsLoop
    <3>3. PICK k \in (1 .. i) \ M : VotePower(k) > 0
      BY <2>0, <3>1, <3>2, OutsideMinority
    <3>4. k \in 1 .. Len(pb) /\ k <= i
      BY <2>0
    <3>5. pb[k].price <= pb[i].price
      BY <2>0, <3>4, SortedPrices
    <3> QED  BY <2>2, <3>3, <3>4, <3>5
  <2>4. \E k \in 1 .. Len(pb) : k \notin M /\ VotePower(k) > 0 /\ pb[k].price >= median
    <3> DEFINE Low == 1 .. i - 1
               High == i .. Len(pb)
    <3>1. Low \in SUBSET (1 .. Len(pb)) /\ High \in SUBSET (1 .. Len(pb))
          /\ (1 .. Len(pb)) \ Low = High
      BY <2>0
    <3>2. 2 * PowerOf(Low) <= TotalPower
      <4>1. CASE \A m \in 1 .. i - 1 : pb[m].power = Gone
        <5>1. \A m \in Low : VotePower(m) = 0
          BY <2>0, <3>1, <4>1, VoteTypes
        <5>2. PowerOf(Low) <= PowerOf({}) /\ PowerOf({}) = 0
          BY <2>0, <3>1, <5>1, PowerAtMost, SumOfNothing DEF PowerOf, SumFunction
        <5>3. PowerOf(Low) \in Nat
          BY <2>0, <3>1, PowerIsSum
        <5> QED  BY <2>1, <5>2, <5>3
      <4>2. CASE PowerOf(Low) < Half
        <5>1. PowerOf(Low) \in Nat
          BY <2>0, <3>1, PowerIsSum
        <5> QED  BY <2>1, <4>2, <5>1
      <4> QED  BY <2>2, <4>1, <4>2 DEF EndsLoop, NotReached
    <3>3. /\ TotalPower = PowerOf(Low) + PowerOf(High)
          /\ PowerOf(Low) \in Nat /\ PowerOf(High) \in Nat
      <4>1. IsFiniteSet(1 .. Len(pb)) /\ \A k \in 1 .. Len(pb) : AllPowers[k] \in Int
        BY <2>0, VoteTypes DEF AllPowers
      <4>2. /\ TotalPower = SumFunctionOnSet(AllPowers, 1 .. Len(pb))
            /\ PowerOf(Low) = SumFunctionOnSet(AllPowers, Low)
            /\ PowerOf(High) = SumFunctionOnSet(AllPowers, High)
            /\ PowerOf(Low) \in Nat /\ PowerOf(High) \in Nat
        BY <2>0, <3>1, PowerIsSum
      <4> HIDE DEF Low, High
      <4>3. SumFunctionOnSet(AllPowers, 1 .. Len(pb))
              = SumFunctionOnSet(AllPowers, Low) + SumFunctionOnSet(AllPowers, (1 .. Len(pb)) \ Low)
        BY <3>1, <4>1, SumSplit
      <4> QED  BY <3>1, <4>2, <4>3
    <3> HIDE DEF Low, High
    <3>4. PowerOf(M) < PowerOf(High)
      BY <2>0, <2>1, <3>2, <3>3
    <3>5. PICK k \in High \ M : VotePower(k) > 0
      BY <2>0, <3>1, <3>4, OutsideMinority
    <3>6. k \in 1 .. Len(pb) /\ i <= k
      BY <2>0, <3>5 DEF High
    <3>7. pb[i].price <= pb[k].price
      BY <2>0, <3>6, SortedPrices
    <3>8. pb[i].price \in Nat /\ pb[k].price \in Nat
      BY <2>0, <3>6, VoteTypes
    <3> QED  BY <2>2, <3>5, <3>6, <3>7, <3>8
  <2> QED  BY <2>0, <2>3, <2>4
<1> QED  BY <1>1, BallotInvariant, PTL

=============================================================================
