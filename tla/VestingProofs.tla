--------------------------- MODULE VestingProofs ---------------------------
(***************************************************************************)
(* Proofs about Vesting for every account, every schedule, every amount    *)
(* and every time between blocks.                                          *)
(***************************************************************************)
EXTENDS Vesting, UtilProofs

-----------------------------------------------------------------------------
(* What has vested never decreases and never exceeds the original amount *)

(* The ratio that one cliff, or one linear schedule, has released at t. *)
CliffTerm(c, t) == IF t >= c.cliff THEN c.ratio ELSE 0

LinearTerm(c, t) ==
  IF t < c.start THEN 0
  ELSE IF t < c.end THEN (c.ratio * (t - c.start)) \div (c.end - c.start)
  ELSE c.ratio

LEMMA CliffTermBounds ==
  ASSUME NEW c \in Cliffs, NEW t \in Nat, NEW u \in Nat, t <= u
  PROVE  /\ CliffTerm(c, t) \in 0 .. c.ratio
         /\ CliffTerm(c, t) <= CliffTerm(c, u)
         /\ c.ratio \in Nat
  BY DEF Cliffs, CliffTerm

LEMMA LinearTermBounds ==
  ASSUME NEW c \in LazySchedules, NEW t \in Nat, NEW u \in Nat, t <= u
  PROVE  /\ LinearTerm(c, t) \in 0 .. c.ratio
         /\ LinearTerm(c, t) <= LinearTerm(c, u)
         /\ c.ratio \in Nat
<1> DEFINE Part(x) == (c.ratio * (x - c.start)) \div (c.end - c.start)
<1>1. c.start \in Nat /\ c.end \in Nat /\ c.ratio \in Nat
  BY DEF LazySchedules
<1>2. ASSUME NEW x \in Nat, c.start <= x, x < c.end
      PROVE  Part(x) \in 0 .. c.ratio
  <2>1. PICK m \in Nat, n \in Nat : m = x - c.start /\ n = c.end - c.start /\ m < n
    BY <1>1, <1>2
  <2>2. c.ratio * m <= c.ratio * n /\ c.ratio * m \in Nat /\ c.ratio * n \in Nat
    BY <1>1, <2>1
  <2>3. (c.ratio * m) \div n \in Nat /\ (c.ratio * m) \div n <= c.ratio
    BY <1>1, <2>1, <2>2, QuotientBelow
  <2> QED  BY <1>1, <2>1, <2>3
<1>3. ASSUME NEW x \in Nat, NEW y \in Nat, c.start <= x, x <= y, y < c.end
      PROVE  Part(x) <= Part(y)
  <2>1. PICK m \in Nat, k \in Nat, n \in Nat :
          m = x - c.start /\ k = y - c.start /\ n = c.end - c.start /\ m <= k /\ k < n
    BY <1>1, <1>3
  <2>2. c.ratio * m <= c.ratio * k /\ c.ratio * m \in Nat /\ c.ratio * k \in Nat
    BY <1>1, <2>1
  <2>3. (c.ratio * m) \div n <= (c.ratio * k) \div n
    BY <2>1, <2>2
  <2> QED  BY <1>1, <2>1, <2>3
<1>4. \A x \in Nat : LinearTerm(c, x) = IF x < c.start THEN 0 ELSE IF x < c.end THEN Part(x) ELSE c.ratio
  BY DEF LinearTerm
<1> HIDE DEF Part
<1>5. \A x \in Nat : LinearTerm(c, x) \in 0 .. c.ratio
  BY <1>1, <1>2, <1>4
<1>6. LinearTerm(c, t) <= LinearTerm(c, u)
  <2>1. CASE t < c.start
    BY <1>1, <1>4, <1>5, <2>1
  <2>2. CASE c.start <= t /\ u < c.end
    BY <1>1, <1>3, <1>4, <2>2
  <2>3. CASE u >= c.end /\ u >= c.start
    BY <1>1, <1>4, <1>5, <2>3
  <2> QED  BY <1>1, <2>1, <2>2, <2>3
<1> QED  BY <1>1, <1>5, <1>6

LEMMA SequenceIsFinite ==
  ASSUME NEW T, NEW s \in Seq(T)
  PROVE  IsFiniteSet(DOMAIN s) /\ \A i \in DOMAIN s : s[i] \in T
<1>1. DOMAIN s = 1 .. Len(s) /\ Len(s) \in Nat
  OBVIOUS
<1> QED  BY <1>1, FS_Interval

(* The ratios released by a valid schedule lie between nothing and one. *)
LEMMA GradedRatioBounds ==
  ASSUME NEW s \in Seq(Cliffs), IsValidGraded(s), NEW t \in Nat, NEW u \in Nat, t <= u
  PROVE  /\ GradedRatio(s, t) \in 0 .. DecOne
         /\ GradedRatio(s, t) <= GradedRatio(s, u)
<1> DEFINE At(x) == [i \in DOMAIN s |-> CliffTerm(s[i], x)]
           all == [i \in DOMAIN s |-> s[i].ratio]
<1>1. IsFiniteSet(DOMAIN s) /\ \A i \in DOMAIN s : s[i] \in Cliffs
  BY SequenceIsFinite
<1>2. \A x : GradedRatio(s, x) = SumFunctionOnSet(At(x), DOMAIN s)
  BY DEF GradedRatio, SumFunction, CliffTerm
<1>3. SumFunctionOnSet(all, DOMAIN s) = DecOne
  BY DEF IsValidGraded, RatioSum, SumFunction
<1>4. \A i \in DOMAIN s :
        /\ At(t)[i] \in Nat /\ At(u)[i] \in Nat /\ all[i] \in Nat
        /\ At(t)[i] <= At(u)[i] /\ At(t)[i] <= all[i]
  <2> SUFFICES ASSUME NEW i \in DOMAIN s
               PROVE  /\ CliffTerm(s[i], t) \in Nat /\ CliffTerm(s[i], u) \in Nat /\ s[i].ratio \in Nat
                      /\ CliffTerm(s[i], t) <= CliffTerm(s[i], u) /\ CliffTerm(s[i], t) <= s[i].ratio
    OBVIOUS
  <2>1. PICK c \in Cliffs : c = s[i]
    BY <1>1
  <2>2. CliffTerm(c, t) \in 0 .. c.ratio /\ CliffTerm(c, t) <= CliffTerm(c, u) /\ c.ratio \in Nat
    BY CliffTermBounds
  <2>3. CliffTerm(c, u) \in 0 .. c.ratio
    <3>1. u <= u
      OBVIOUS
    <3> QED  BY <3>1, CliffTermBounds
  <2> QED  BY <2>1, <2>2, <2>3
<1> HIDE DEF At, all
<1>5. SumFunctionOnSet(At(t), DOMAIN s) \in Nat
  BY <1>1, <1>4, SumType
<1>6. /\ SumFunctionOnSet(At(t), DOMAIN s) <= SumFunctionOnSet(At(u), DOMAIN s)
      /\ SumFunctionOnSet(At(t), DOMAIN s) <= SumFunctionOnSet(all, DOMAIN s)
  BY <1>1, <1>4, SumMonotone
<1>7. DecOne \in Nat
  BY VestingAssumption
<1> QED  BY <1>2, <1>3, <1>5, <1>6, <1>7

LEMMA LazyRatioBounds ==
  ASSUME NEW s \in Seq(LazySchedules), IsValidLazy(s), NEW t \in Nat, NEW u \in Nat, t <= u
  PROVE  /\ LazyRatio(s, t) \in 0 .. DecOne
         /\ LazyRatio(s, t) <= LazyRatio(s, u)
<1> DEFINE At(x) == [i \in DOMAIN s |-> LinearTerm(s[i], x)]
           all == [i \in DOMAIN s |-> s[i].ratio]
<1>1. IsFiniteSet(DOMAIN s) /\ \A i \in DOMAIN s : s[i] \in LazySchedules
  BY SequenceIsFinite
<1>2. \A x : LazyRatio(s, x) = SumFunctionOnSet(At(x), DOMAIN s)
  BY DEF LazyRatio, SumFunction, LinearTerm
<1>3. SumFunctionOnSet(all, DOMAIN s) = DecOne
  BY DEF IsValidLazy, RatioSum, SumFunction
<1>4. \A i \in DOMAIN s :
        /\ At(t)[i] \in Nat /\ At(u)[i] \in Nat /\ all[i] \in Nat
        /\ At(t)[i] <= At(u)[i] /\ At(t)[i] <= all[i]
  <2> SUFFICES ASSUME NEW i \in DOMAIN s
               PROVE  /\ LinearTerm(s[i], t) \in Nat /\ LinearTerm(s[i], u) \in Nat /\ s[i].ratio \in Nat
                      /\ LinearTerm(s[i], t) <= LinearTerm(s[i], u) /\ LinearTerm(s[i], t) <= s[i].ratio
    OBVIOUS
  <2>1. PICK c \in LazySchedules : c = s[i]
    BY <1>1
  <2>2. LinearTerm(c, t) \in 0 .. c.ratio /\ LinearTerm(c, t) <= LinearTerm(c, u) /\ c.ratio \in Nat
    BY LinearTermBounds
  <2>3. LinearTerm(c, u) \in 0 .. c.ratio
    <3>1. u <= u
      OBVIOUS
    <3> QED  BY <3>1, LinearTermBounds
  <2> QED  BY <2>1, <2>2, <2>3
<1> HIDE DEF At, all
<1>5. SumFunctionOnSet(At(t), DOMAIN s) \in Nat
  BY <1>1, <1>4, SumType
<1>6. /\ SumFunctionOnSet(At(t), DOMAIN s) <= SumFunctionOnSet(At(u), DOMAIN s)
      /\ SumFunctionOnSet(At(t), DOMAIN s) <= SumFunctionOnSet(all, DOMAIN s)
  BY <1>1, <1>4, SumMonotone
<1>7. DecOne \in Nat
  BY VestingAssumption
<1> QED  BY <1>2, <1>3, <1>5, <1>6, <1>7

(* Rounded shares of an amount keep the order of the ratios. *)
LEMMA ShareBounds ==
  ASSUME NEW n \in Nat, NEW q \in Nat, NEW r \in Nat, q <= r, r <= DecOne
  PROVE  /\ RoundInt(n * q, DecOne) \in 0 .. n
         /\ RoundInt(n * q, DecOne) <= RoundInt(n * r, DecOne)
<1>1. DecOne \in Nat \ {0}
  BY VestingAssumption
<1>2. /\ n * q \in Nat /\ n * r \in Nat /\ n * DecOne \in Nat
      /\ n * q <= n * r /\ n * q <= n * DecOne
  BY <1>1
<1>3. RoundInt(n * DecOne, DecOne) = n
  BY <1>1, RoundIntExact
<1>4. RoundInt(n * q, DecOne) \in Nat
  BY <1>1, <1>2, RoundIntBounds
<1>5. /\ RoundInt(n * q, DecOne) <= RoundInt(n * r, DecOne)
      /\ RoundInt(n * q, DecOne) <= RoundInt(n * DecOne, DecOne)
  BY <1>1, <1>2, RoundIntMonotone
<1> QED  BY <1>3, <1>4, <1>5

(* A schedule as the type invariant has it. *)
IsSchedule(isLazy, s) ==
  s # Nil =>
    IF isLazy THEN s \in Seq(LazySchedules) /\ IsValidLazy(s)
    ELSE s \in Seq(Cliffs) /\ IsValidGraded(s)

LEMMA VestedBounds ==
  ASSUME NEW isLazy \in BOOLEAN, NEW s, IsSchedule(isLazy, s), NEW n \in Nat,
         NEW t \in Nat, NEW u \in Nat, t <= u
  PROVE  /\ Vested(isLazy, s, n, t) \in 0 .. n
         /\ Vested(isLazy, s, n, t) <= Vested(isLazy, s, n, u)
<1> DEFINE Ratio(x) == IF isLazy THEN LazyRatio(s, x) ELSE GradedRatio(s, x)
<1>1. CASE s = Nil
  BY <1>1 DEF Vested
<1>2. CASE s # Nil
  <2>1. Ratio(t) \in Nat /\ Ratio(u) \in Nat /\ Ratio(t) <= Ratio(u) /\ Ratio(u) <= DecOne
    <3>1. CASE isLazy
      <4>1. s \in Seq(LazySchedules) /\ IsValidLazy(s)
        BY <1>2, <3>1 DEF IsSchedule
      <4>2. /\ LazyRatio(s, t) \in 0 .. DecOne /\ LazyRatio(s, u) \in 0 .. DecOne
            /\ LazyRatio(s, t) <= LazyRatio(s, u)
        BY <4>1, LazyRatioBounds
      <4> QED  BY <3>1, <4>2, VestingAssumption
    <3>2. CASE ~isLazy
      <4>1. s \in Seq(Cliffs) /\ IsValidGraded(s)
        BY <1>2, <3>2 DEF IsSchedule
      <4>2. /\ GradedRatio(s, t) \in 0 .. DecOne /\ GradedRatio(s, u) \in 0 .. DecOne
            /\ GradedRatio(s, t) <= GradedRatio(s, u)
        BY <4>1, GradedRatioBounds
      <4> QED  BY <3>2, <4>2, VestingAssumption
    <3> QED  BY <3>1, <3>2
  <2>2. /\ Vested(isLazy, s, n, t) = RoundInt(n * Ratio(t), DecOne)
        /\ Vested(isLazy, s, n, u) = RoundInt(n * Ratio(u), DecOne)
    BY <1>2 DEF Vested
  <2> HIDE DEF Ratio
  <2> QED  BY <2>1, <2>2, ShareBounds
<1> QED  BY <1>1, <1>2

-----------------------------------------------------------------------------
(* The schedules of the update *)

LEMMA DatesAreTimes ==
  ASSUME NEW m \in 1 .. 19, NEW n \in 1 .. 19, NEW ratio \in Nat
  PROVE  From(m, n, ratio) \in LazySchedules
  BY VestingAssumption DEF From, LazySchedules

LEMMA UpdatedSchedulesAreSequences ==
  ASSUME NEW a \in Addresses, NEW d \in Denoms,
         UpdatedSchedules(a, GenesisSchedules[a])[d] # Nil
  PROVE  UpdatedSchedules(a, GenesisSchedules[a])[d] \in Seq(LazySchedules)
<1>0. DecOne \in Nat \ {0} /\ secondsPerMonth \in Nat
  BY VestingAssumption
<1>1. \A n \in Nat : Tenth(n) \in Nat /\ Thousandth(n) \in Nat
  BY <1>0 DEF Tenth, Thousandth
<1>2. \A x, y \in Nat : Mul(x, y) \in Nat
  <2>1. \A x, y \in Nat : x * y \in Nat
    OBVIOUS
  <2> QED  BY <1>0, <2>1, RoundIntBounds DEF Mul
<1>3. CASE a \in PreseedAddresses
  <2>1. UpdatedSchedules(a, GenesisSchedules[a])[d] = PreseedSchedule
    BY <1>3 DEF UpdatedSchedules, OfLuna
  <2>2. /\ From(1, 2, Tenth(1)) \in LazySchedules
        /\ From(2, 12, Thousandth(270)) \in LazySchedules
        /\ From(12, 17, Thousandth(480)) \in LazySchedules
        /\ From(17, 18, Thousandth(150)) \in LazySchedules
    <3>1. /\ Tenth(1) \in Nat /\ Thousandth(270) \in Nat
          /\ Thousandth(480) \in Nat /\ Thousandth(150) \in Nat
      BY <1>1
    <3> QED  BY <3>1, DatesAreTimes
  <2> QED  BY <2>1, <2>2 DEF PreseedSchedule
<1>4. CASE a \notin PreseedAddresses /\ a \in SeedAddresses
  <2>1. UpdatedSchedules(a, GenesisSchedules[a])[d] = SeedSchedule(a)
    BY <1>4 DEF UpdatedSchedules, OfLuna
  <2> DEFINE ratio == IF a = SplitSeed THEN Thousandth(467) ELSE DecOne
             first == <<From(1, 2, Mul(ratio, Tenth(1))), From(2, 10, Mul(ratio, Tenth(3))),
                        From(10, 13, Mul(ratio, Tenth(6)))>>
             rest == IF ratio = DecOne THEN <<>> ELSE <<From(18, 19, DecOne - ratio)>>
  <2>2. SeedSchedule(a) = first \o rest
    BY DEF SeedSchedule
  <2>3. ratio \in Nat /\ DecOne - ratio \in Nat
    BY <1>0 DEF Thousandth
  <2> HIDE DEF ratio
  <2>0. /\ Mul(ratio, Tenth(1)) \in Nat
        /\ Mul(ratio, Tenth(3)) \in Nat
        /\ Mul(ratio, Tenth(6)) \in Nat
    BY <1>1, <1>2, <2>3
  <2>4. /\ From(1, 2, Mul(ratio, Tenth(1))) \in LazySchedules
        /\ From(2, 10, Mul(ratio, Tenth(3))) \in LazySchedules
        /\ From(10, 13, Mul(ratio, Tenth(6))) \in LazySchedules
        /\ From(18, 19, DecOne - ratio) \in LazySchedules
    BY <2>0, <2>3, DatesAreTimes
  <2>5. first \in Seq(LazySchedules) /\ rest \in Seq(LazySchedules)
    BY <2>4
  <2> HIDE DEF first, rest
  <2> QED  BY <2>1, <2>2, <2>5
<1>5. CASE a \notin PreseedAddresses /\ a \notin SeedAddresses
  <2> DEFINE s == GenesisSchedules[a][d]
  <2>1. s # Nil /\ UpdatedSchedules(a, GenesisSchedules[a])[d] = Spread(s)
    BY <1>5 DEF UpdatedSchedules
  <2>2. s \in Seq(Cliffs)
    BY <2>1, VestingAssumption
  <2> HIDE DEF s
  <2>3. DOMAIN s = 1 .. Len(s) /\ Len(s) \in Nat /\ \A i \in DOMAIN s : s[i] \in Cliffs
    BY <2>2
  <2>4. \A i \in 1 .. Len(s) : [start |-> s[i].cliff, end |-> s[i].cliff + secondsPerMonth,
                               ratio |-> s[i].ratio] \in LazySchedules
    BY <1>0, <2>3 DEF Cliffs, LazySchedules
  <2>5. Spread(s) \in [1 .. Len(s) -> LazySchedules]
    BY <2>3, <2>4 DEF Spread
  <2> QED  BY <2>1, <2>3, <2>5
<1> QED  BY <1>3, <1>4, <1>5

-----------------------------------------------------------------------------
LEMMA BoundsAreNaturals ==
  /\ MaxTime \in Nat /\ MaxRestarts \in Nat
  /\ UpdateHeight \in Nat /\ UpdateHeight > 0
<1>1. UpdateHeight \in Nat \ {0}
  BY VestingAssumption
<1> QED  BY <1>1, VestingAssumption

(* The inductive invariant.  That what vests is covered depends on the      *)
(* schedule being the one of the genesis file until the update, and on      *)
(* nothing coming back from staking that is not tracked.                    *)

SchedulesKnown ==
  /\ lazy \in BOOLEAN
  /\ lazy <=> params = "updated"
  /\ schedules = IF lazy THEN UpdatedSchedules(addr, GenesisSchedules[addr])
                 ELSE GenesisSchedules[addr]

VestingInv ==
  /\ TypeOK
  /\ SchedulesKnown
  /\ StakeTracked
  /\ VestingCovered

LEMMA SchedulesTyped ==
  ASSUME TypeOK, NEW d \in Denoms
  PROVE  IsSchedule(lazy, schedules[d])
  BY DEF TypeOK, IsSchedule

(* What vests is between nothing and everything. *)
LEMMA VestingCoinsType ==
  ASSUME TypeOK, SchedulesKnown, NEW d \in Denoms
  PROVE  GetVestingCoins(d) \in 0 .. OriginalVesting[addr][d] /\ OriginalVesting[addr][d] \in Nat
<1>1. OriginalVesting[addr][d] \in Nat /\ now \in Nat
  <2>1. now \in Nat /\ addr \in Addresses
    BY BoundsAreNaturals DEF TypeOK
  <2> QED  BY <2>1, VestingAssumption
<1>2. GetVestedCoins(d, now) \in 0 .. OriginalVesting[addr][d]
  BY <1>1, SchedulesTyped, VestedBounds DEF SchedulesKnown, GetVestedCoins
<1> QED  BY <1>1, <1>2 DEF GetVestingCoins

(* As long as the schedule stays, less and less is vesting. *)
LEMMA VestingDecreases ==
  ASSUME TypeOK, SchedulesKnown, NEW d \in Denoms,
         lazy' = lazy, schedules' = schedules, addr' = addr, now' \in Nat, now <= now'
  PROVE  /\ GetVestingCoins(d)' \in Nat /\ GetVestingCoins(d) \in Nat
         /\ GetVestingCoins(d)' <= GetVestingCoins(d)
<1>1. OriginalVesting[addr][d] \in Nat /\ now \in Nat
  <2>1. now \in Nat /\ addr \in Addresses
    BY BoundsAreNaturals DEF TypeOK
  <2> QED  BY <2>1, VestingAssumption
<1> DEFINE V(t) == Vested(lazy, schedules[d], OriginalVesting[addr][d], t)
<1>2. V(now) \in 0 .. OriginalVesting[addr][d] /\ V(now') \in 0 .. OriginalVesting[addr][d]
  BY <1>1, SchedulesTyped, VestedBounds DEF SchedulesKnown
<1>3. V(now) <= V(now')
  BY <1>1, SchedulesTyped, VestedBounds DEF SchedulesKnown
<1>4. /\ GetVestingCoins(d) = OriginalVesting[addr][d] - V(now)
      /\ GetVestingCoins(d)' = OriginalVesting[addr][d] - V(now')
  BY DEF GetVestingCoins, GetVestedCoins
<1> HIDE DEF V
<1> QED  BY <1>1, <1>2, <1>3, <1>4

LEMMA InitVesting ==
  ASSUME Init
  PROVE  VestingInv
<1>1. TypeOK
  <2>1. \A d \in Denoms : schedules[d] # Nil =>
          schedules[d] \in Seq(Cliffs) /\ IsValidGraded(schedules[d])
    BY VestingAssumption DEF Init
  <2>2. coins \in [Denoms -> Nat]
    BY VestingAssumption DEF Init
  <2>3. height \in 1 .. UpdateHeight + 1 /\ now \in 0 .. MaxTime /\ restarts \in 0 .. MaxRestarts
    BY BoundsAreNaturals DEF Init
  <2> QED  BY <2>1, <2>2, <2>3 DEF Init, TypeOK
<1>2. SchedulesKnown
  BY DEF Init, SchedulesKnown
<1>3. StakeTracked
  BY DEF Init, StakeTracked
<1>4. VestingCovered
  <2> SUFFICES ASSUME NEW d \in Denoms
               PROVE  coins[d] + DelegatedVesting(d) >= GetVestingCoins(d)
    BY DEF VestingCovered
  <2>1. coins[d] = OriginalVesting[addr][d] /\ DelegatedVesting(d) = 0
    BY DEF Init, DelegatedVesting
  <2> QED  BY <1>1, <1>2, <2>1, VestingCoinsType
<1> QED  BY <1>1, <1>2, <1>3, <1>4 DEF VestingInv

(* Frame: what a step leaves alone that keeps clock and schedule. *)
SameSchedule == UNCHANGED <<height, now, addr, lazy, schedules, params, restarts>>

LEMMA FrameKeepsInvariant ==
  ASSUME VestingInv, SameSchedule,
         coins' \in [Denoms -> Nat], {delegatedFree', delegatedVesting', staked'} \subseteq Nat,
         StakeTracked',
         \A d \in Denoms : coins'[d] + (IF d = Luna THEN delegatedVesting' ELSE 0)
                              >= coins[d] + DelegatedVesting(d)
                           \/ coins'[d] + (IF d = Luna THEN delegatedVesting' ELSE 0)
                              >= GetVestingCoins(d)
  PROVE  VestingInv'
<1>1. TypeOK'
  BY DEF VestingInv, TypeOK, SameSchedule
<1>2. SchedulesKnown'
  BY DEF VestingInv, SchedulesKnown, SameSchedule
<1>3. VestingCovered'
  <2> SUFFICES ASSUME params' = "genesis", NEW d \in Denoms
               PROVE  coins'[d] + DelegatedVesting(d)' >= GetVestingCoins(d)'
    BY DEF VestingCovered
  <2>1. GetVestingCoins(d)' = GetVestingCoins(d) /\ GetVestingCoins(d) \in Int
    BY VestingCoinsType DEF VestingInv, SameSchedule, GetVestingCoins, GetVestedCoins
  <2>2. coins[d] + DelegatedVesting(d) >= GetVestingCoins(d)
    BY DEF VestingInv, VestingCovered, SameSchedule
  <2>3. DelegatedVesting(d)' = IF d = Luna THEN delegatedVesting' ELSE 0
    BY DEF DelegatedVesting
  <2>4. /\ coins[d] \in Nat /\ coins'[d] \in Nat
        /\ DelegatedVesting(d) \in Nat /\ DelegatedVesting(d)' \in Nat
    BY DEF VestingInv, TypeOK, DelegatedVesting
  <2> QED  BY <2>1, <2>2, <2>3, <2>4
<1> QED  BY <1>1, <1>2, <1>3 DEF VestingInv

LEMMA LunaCoins ==
  ASSUME TypeOK
  PROVE  /\ Luna \in Denoms /\ coins[Luna] \in Nat
         /\ delegatedFree \in Nat /\ delegatedVesting \in Nat /\ staked \in Nat
  BY VestingAssumption DEF TypeOK

(* A delegation is split into a vesting and a free part. *)
LEMMA ShareType ==
  ASSUME TypeOK, SchedulesKnown, NEW n \in Nat
  PROVE  /\ VestingShare(n) \in 0 .. n
         /\ \/ VestingShare(n) = n
            \/ delegatedVesting + VestingShare(n) >= GetVestingCoins(Luna)
<1>1. GetVestingCoins(Luna) \in Nat /\ delegatedVesting \in Nat
  BY VestingCoinsType, LunaCoins
<1> QED  BY <1>1 DEF VestingShare, Least, Greatest

(* Free coins are returned first, vesting ones as far as they are tracked. *)
LEMMA ReturnType ==
  ASSUME TypeOK, StakeTracked, NEW n \in Nat, n <= staked
  PROVE  /\ FreeReturned(n) \in 0 .. n
         /\ FreeReturned(n) <= delegatedFree
         /\ n - FreeReturned(n) <= delegatedVesting
  BY LunaCoins DEF StakeTracked, FreeReturned, Least

LEMMA ReceiveKeepsInvariant ==
  ASSUME VestingInv, NEW d \in Denoms, NEW n \in Amounts, Receive(d, n)
  PROVE  VestingInv'
<1>1. n \in Nat /\ \A e \in Denoms : coins[e] \in Nat
  BY VestingAssumption DEF VestingInv, TypeOK
<1>2. /\ \A e \in Denoms : coins'[e] = IF e = d THEN coins[d] + n ELSE coins[e]
      /\ coins' \in [Denoms -> Nat]
  BY <1>1 DEF Receive, VestingInv, TypeOK
<1>3. /\ SameSchedule
      /\ delegatedFree' = delegatedFree /\ delegatedVesting' = delegatedVesting /\ staked' = staked
  BY DEF Receive, SameSchedule
<1>4. \A e \in Denoms : coins'[e] + (IF e = Luna THEN delegatedVesting' ELSE 0)
                           >= coins[e] + DelegatedVesting(e)
  BY <1>1, <1>2, <1>3, LunaCoins DEF DelegatedVesting, VestingInv
<1>5. StakeTracked' /\ {delegatedFree', delegatedVesting', staked'} \subseteq Nat
  BY <1>3 DEF StakeTracked, VestingInv, TypeOK
<1> QED  BY <1>2, <1>3, <1>4, <1>5, FrameKeepsInvariant

LEMMA SpendKeepsInvariant ==
  ASSUME VestingInv, NEW d \in Denoms, NEW n \in Amounts, Spend(d, n)
  PROVE  /\ VestingInv'
         /\ n <= coins[d] /\ n <= coins[d] + DelegatedVesting(d) - GetVestingCoins(d)
<1>1. n \in Nat /\ \A e \in Denoms : coins[e] \in Nat
  BY VestingAssumption DEF VestingInv, TypeOK
<1>2. GetVestingCoins(d) \in Nat /\ DelegatedVesting(d) \in Nat
  BY VestingCoinsType DEF DelegatedVesting, VestingInv, TypeOK
<1>3. n <= coins[d] /\ n <= coins[d] + DelegatedVesting(d) - GetVestingCoins(d)
  BY <1>1, <1>2 DEF Spend, SpendableCoins, Least
<1>4. /\ \A e \in Denoms : coins'[e] = IF e = d THEN coins[d] - n ELSE coins[e]
      /\ coins' \in [Denoms -> Nat]
  BY <1>1, <1>3 DEF Spend, VestingInv, TypeOK
<1>5. /\ SameSchedule
      /\ delegatedFree' = delegatedFree /\ delegatedVesting' = delegatedVesting /\ staked' = staked
  BY DEF Spend, SameSchedule
<1>6. \A e \in Denoms :
        \/ coins'[e] + (IF e = Luna THEN delegatedVesting' ELSE 0) >= coins[e] + DelegatedVesting(e)
        \/ coins'[e] + (IF e = Luna THEN delegatedVesting' ELSE 0) >= GetVestingCoins(e)
  <2>1. ASSUME NEW e \in Denoms, e # d
        PROVE  coins'[e] + (IF e = Luna THEN delegatedVesting' ELSE 0) >= coins[e] + DelegatedVesting(e)
    BY <1>1, <1>4, <1>5, <2>1, LunaCoins DEF DelegatedVesting, VestingInv
  <2>2. coins'[d] + (IF d = Luna THEN delegatedVesting' ELSE 0) >= GetVestingCoins(d)
    BY <1>1, <1>2, <1>3, <1>4, <1>5 DEF DelegatedVesting
  <2> QED  BY <2>1, <2>2
<1>7. StakeTracked' /\ {delegatedFree', delegatedVesting', staked'} \subseteq Nat
  BY <1>5 DEF StakeTracked, VestingInv, TypeOK
<1> QED  BY <1>3, <1>4, <1>5, <1>6, <1>7, FrameKeepsInvariant

LEMMA DelegationKeepsInvariant ==
  ASSUME VestingInv, NEW n \in Amounts, TrackDelegation(n)
  PROVE  VestingInv'
<1>1. n \in Nat /\ \A e \in Denoms : coins[e] \in Nat
  BY VestingAssumption DEF VestingInv, TypeOK
<1>2. PICK x \in 0 .. n : /\ x = VestingShare(n)
                          /\ x = n \/ delegatedVesting + x >= GetVestingCoins(Luna)
  BY <1>1, ShareType DEF VestingInv
<1>3. /\ SameSchedule /\ n <= coins[Luna]
      /\ delegatedVesting' = delegatedVesting + x
      /\ delegatedFree' = delegatedFree + n - x
      /\ staked' = staked + n
      /\ coins' = [coins EXCEPT ![Luna] = coins[Luna] - n]
  BY <1>2 DEF TrackDelegation, SameSchedule
<1>4. /\ Luna \in Denoms /\ coins[Luna] \in Nat
      /\ delegatedFree \in Nat /\ delegatedVesting \in Nat /\ staked \in Nat
  BY LunaCoins DEF VestingInv
<1>5. /\ coins' \in [Denoms -> Nat]
      /\ \A e \in Denoms : coins'[e] = IF e = Luna THEN coins[Luna] - n ELSE coins[e]
  BY <1>1, <1>3, <1>4 DEF VestingInv, TypeOK
<1>6. StakeTracked' /\ {delegatedFree', delegatedVesting', staked'} \subseteq Nat
  BY <1>1, <1>3, <1>4 DEF StakeTracked, VestingInv
<1>7. \A e \in Denoms :
        \/ coins'[e] + (IF e = Luna THEN delegatedVesting' ELSE 0) >= coins[e] + DelegatedVesting(e)
        \/ coins'[e] + (IF e = Luna THEN delegatedVesting' ELSE 0) >= GetVestingCoins(e)
  <2>1. GetVestingCoins(Luna) \in Nat
    BY <1>4, VestingCoinsType DEF VestingInv
  <2> QED  BY <1>1, <1>2, <1>3, <1>4, <1>5, <2>1 DEF DelegatedVesting
<1> QED  BY <1>3, <1>5, <1>6, <1>7, FrameKeepsInvariant

LEMMA UndelegationKeepsInvariant ==
  ASSUME VestingInv, NEW n \in Amounts, TrackUndelegation(n)
  PROVE  VestingInv'
<1>1. n \in Nat /\ n <= staked /\ \A e \in Denoms : coins[e] \in Nat
  BY VestingAssumption DEF VestingInv, TypeOK, TrackUndelegation
<1>2. PICK x \in 0 .. n : x = FreeReturned(n) /\ x <= delegatedFree /\ n - x <= delegatedVesting
  BY <1>1, ReturnType DEF VestingInv
<1>3. /\ SameSchedule
      /\ delegatedVesting' = delegatedVesting - (n - x)
      /\ delegatedFree' = delegatedFree - x
      /\ staked' = staked - n
      /\ coins' = [coins EXCEPT ![Luna] = coins[Luna] + n]
  BY <1>2 DEF TrackUndelegation, SameSchedule
<1>4. /\ Luna \in Denoms /\ coins[Luna] \in Nat
      /\ delegatedFree \in Nat /\ delegatedVesting \in Nat /\ staked \in Nat
  BY LunaCoins DEF VestingInv
<1>5. /\ coins' \in [Denoms -> Nat]
      /\ \A e \in Denoms : coins'[e] = IF e = Luna THEN coins[Luna] + n ELSE coins[e]
  BY <1>1, <1>3, <1>4 DEF VestingInv, TypeOK
<1>6. StakeTracked' /\ {delegatedFree', delegatedVesting', staked'} \subseteq Nat
  BY <1>1, <1>2, <1>3, <1>4 DEF StakeTracked, VestingInv
<1>7. \A e \in Denoms :
        coins'[e] + (IF e = Luna THEN delegatedVesting' ELSE 0) >= coins[e] + DelegatedVesting(e)
  BY <1>1, <1>2, <1>3, <1>4, <1>5 DEF DelegatedVesting
<1> QED  BY <1>3, <1>5, <1>6, <1>7, FrameKeepsInvariant

LEMMA SlashKeepsInvariant ==
  ASSUME VestingInv, NEW n \in Amounts, Slash(n)
  PROVE  VestingInv'
<1>1. n \in Nat
  BY VestingAssumption
<1>2. /\ SameSchedule /\ n <= staked /\ staked' = staked - n
      /\ coins' = coins /\ delegatedFree' = delegatedFree /\ delegatedVesting' = delegatedVesting
  BY DEF Slash, SameSchedule, accountVars
<1>3. StakeTracked' /\ {delegatedFree', delegatedVesting', staked'} \subseteq Nat
  BY <1>1, <1>2, LunaCoins DEF StakeTracked, VestingInv
<1>4. coins' \in [Denoms -> Nat]
  BY <1>2 DEF VestingInv, TypeOK
<1>5. \A e \in Denoms :
        coins'[e] + (IF e = Luna THEN delegatedVesting' ELSE 0) >= coins[e] + DelegatedVesting(e)
  <2>1. \A e \in Denoms : coins[e] + DelegatedVesting(e) \in Nat
    BY DEF VestingInv, TypeOK, DelegatedVesting
  <2> QED  BY <1>2, <2>1 DEF DelegatedVesting
<1> QED  BY <1>2, <1>3, <1>4, <1>5, FrameKeepsInvariant

(* Without the update only time passes. *)
LEMMA TimePasses ==
  ASSUME VestingInv, UNCHANGED <<addr, lazy, schedules, coins, delegatedFree, delegatedVesting,
                                 staked, params>>,
         height' \in 1 .. UpdateHeight + 1, restarts' \in 0 .. MaxRestarts,
         now' \in 0 .. MaxTime, now <= now'
  PROVE  VestingInv'
<1>1. TypeOK' /\ SchedulesKnown' /\ StakeTracked'
  BY DEF VestingInv, TypeOK, SchedulesKnown, StakeTracked
<1>2. VestingCovered'
  <2> SUFFICES ASSUME params' = "genesis", NEW d \in Denoms
               PROVE  coins'[d] + DelegatedVesting(d)' >= GetVestingCoins(d)'
    BY DEF VestingCovered
  <2>1. now' \in Nat
    BY BoundsAreNaturals
  <2>2. GetVestingCoins(d)' <= GetVestingCoins(d)
    BY <2>1, VestingDecreases DEF VestingInv
  <2>3. GetVestingCoins(d)' \in Nat /\ GetVestingCoins(d) \in Nat
    BY <2>1, VestingDecreases DEF VestingInv
  <2>4. coins[d] + DelegatedVesting(d) >= GetVestingCoins(d)
    BY DEF VestingInv, VestingCovered
  <2>5. /\ coins'[d] + DelegatedVesting(d)' = coins[d] + DelegatedVesting(d)
        /\ coins[d] + DelegatedVesting(d) \in Nat
    BY DEF VestingInv, TypeOK, DelegatedVesting
  <2> QED  BY <2>2, <2>3, <2>4, <2>5
<1> QED  BY <1>1, <1>2 DEF VestingInv

(* The clock of a block and the next one. *)
LEMMA BlockMoves ==
  ASSUME TypeOK, NEW dt \in TimeSteps, EndBlock(dt)
  PROVE  height' \in 1 .. UpdateHeight + 1 /\ now' \in 0 .. MaxTime /\ now <= now'
<1>1. dt \in Nat
  BY VestingAssumption
<1> QED  BY <1>1, BoundsAreNaturals DEF TypeOK, EndBlock, Least

(* The one step in which an account is converted. *)
Converts == height = UpdateHeight /\ ~lazy

LEMMA ConversionKeepsInvariant ==
  ASSUME VestingInv, NEW dt \in TimeSteps, EndBlock(dt), Converts
  PROVE  VestingInv'
<1>1. /\ UpdateAccepts
      /\ schedules' = UpdatedSchedules(addr, schedules)
      /\ lazy' = TRUE /\ params' = "updated"
      /\ UNCHANGED <<addr, coins, delegatedFree, delegatedVesting, staked, restarts>>
  BY DEF EndBlock, Update230000, Converts
<1>2. schedules = GenesisSchedules[addr] /\ addr \in Addresses
  BY DEF VestingInv, TypeOK, SchedulesKnown, Converts
<1>3. SchedulesKnown'
  BY <1>1, <1>2 DEF SchedulesKnown
<1>4. \A d \in Denoms : schedules'[d] # Nil =>
        schedules'[d] \in Seq(LazySchedules) /\ IsValidLazy(schedules'[d])
  BY <1>1, <1>2, UpdatedSchedulesAreSequences DEF UpdateAccepts, AllValid
<1>5. height' \in 1 .. UpdateHeight + 1 /\ now' \in 0 .. MaxTime
  BY BlockMoves DEF VestingInv
<1>6. TypeOK'
  BY <1>1, <1>4, <1>5 DEF VestingInv, TypeOK
<1>7. StakeTracked' /\ VestingCovered'
  BY <1>1 DEF VestingInv, StakeTracked, VestingCovered
<1> QED  BY <1>3, <1>6, <1>7 DEF VestingInv

LEMMA EndBlockKeepsInvariant ==
  ASSUME VestingInv, NEW dt \in TimeSteps, EndBlock(dt)
  PROVE  VestingInv'
<1>1. CASE Converts
  BY <1>1, ConversionKeepsInvariant
<1>2. CASE ~Converts
  <2>1. lazy \in BOOLEAN /\ (lazy <=> params = "updated")
    BY DEF VestingInv, SchedulesKnown
  <2>2. lazy' = lazy /\ schedules' = schedules /\ params' = params
    BY <1>2, <2>1 DEF EndBlock, Update230000, Converts
  <2>3. UNCHANGED <<addr, lazy, schedules, coins, delegatedFree, delegatedVesting, staked, params>>
    BY <2>2 DEF EndBlock
  <2>4. restarts' \in 0 .. MaxRestarts
    BY DEF EndBlock, VestingInv, TypeOK
  <2>5. height' \in 1 .. UpdateHeight + 1 /\ now' \in 0 .. MaxTime /\ now <= now'
    BY BlockMoves DEF VestingInv
  <2> QED  BY <2>3, <2>4, <2>5, TimePasses
<1> QED  BY <1>1, <1>2

(* An export and a new genesis give back the account as it was. *)
LEMMA RestartKeepsAccount ==
  ASSUME VestingInv, Restart
  PROVE  UNCHANGED <<addr, lazy, schedules, coins, delegatedFree, delegatedVesting,
                     staked, params, now>>
<1> DEFINE ga == NewGenesisAccountI
<1>0. lazy \in BOOLEAN
  BY DEF VestingInv, SchedulesKnown
<1>1. /\ ga.Coins = coins /\ ga.DelegatedFree = delegatedFree
      /\ ga.DelegatedVesting = delegatedVesting
      /\ ga.VestingSchedules = IF lazy THEN Nil ELSE schedules
      /\ ga.LazyVestingSchedules = IF lazy THEN schedules ELSE Nil
  BY DEF NewGenesisAccountI
<1>2. /\ coins' = ga.Coins /\ delegatedFree' = ga.DelegatedFree
      /\ delegatedVesting' = ga.DelegatedVesting
      /\ lazy' = (ga.VestingSchedules = Nil)
      /\ schedules' = IF ga.VestingSchedules # Nil THEN ga.VestingSchedules
                      ELSE ga.LazyVestingSchedules
      /\ UNCHANGED <<now, addr, staked, params>>
  BY DEF Restart, ToAccount
<1> HIDE DEF ga
<1>3. lazy' = lazy /\ schedules' = schedules
  <2>1. CASE lazy
    BY <1>0, <1>1, <1>2, <2>1
  <2>2. CASE ~lazy
    <3>1. schedules = GenesisSchedules[addr] /\ addr \in Addresses
      BY <2>2 DEF VestingInv, TypeOK, SchedulesKnown
    <3>2. schedules # Nil
      BY <3>1, VestingAssumption
    <3> QED  BY <1>0, <1>1, <1>2, <2>2, <3>2
  <2> QED  BY <2>1, <2>2
<1> QED  BY <1>1, <1>2, <1>3

LEMMA RestartKeepsInvariant ==
  ASSUME VestingInv, Restart
  PROVE  VestingInv'
<1>1. UNCHANGED <<addr, lazy, schedules, coins, delegatedFree, delegatedVesting,
                  staked, params, now>>
  BY RestartKeepsAccount
<1>2. height' \in 1 .. UpdateHeight + 1 /\ restarts' \in 0 .. MaxRestarts
  BY BoundsAreNaturals DEF Restart, VestingInv, TypeOK
<1>3. now' \in 0 .. MaxTime /\ now <= now'
  BY <1>1, BoundsAreNaturals DEF VestingInv, TypeOK
<1> QED  BY <1>1, <1>2, <1>3, TimePasses

LEMMA NextKeepsVesting ==
  ASSUME VestingInv, [Next]_vars
  PROVE  VestingInv'
<1>1. ASSUME NEW d \in Denoms, NEW n \in Amounts, Receive(d, n) \/ Spend(d, n)
      PROVE  VestingInv'
  BY <1>1, ReceiveKeepsInvariant, SpendKeepsInvariant
<1>2. ASSUME NEW n \in Amounts, TrackDelegation(n) \/ TrackUndelegation(n) \/ Slash(n)
      PROVE  VestingInv'
  BY <1>2, DelegationKeepsInvariant, UndelegationKeepsInvariant, SlashKeepsInvariant
<1>3. CASE Block
  BY <1>3, EndBlockKeepsInvariant DEF Block
<1>4. CASE Restart
  BY <1>4, RestartKeepsInvariant
<1>5. CASE UNCHANGED vars
  <2>1. SameSchedule /\ UNCHANGED <<coins, delegatedFree, delegatedVesting, staked>>
    BY <1>5 DEF vars, accountVars, SameSchedule
  <2>2. now \in 0 .. MaxTime /\ now <= now
    BY BoundsAreNaturals DEF VestingInv, TypeOK
  <2>3. height \in 1 .. UpdateHeight + 1 /\ restarts \in 0 .. MaxRestarts
    BY DEF VestingInv, TypeOK
  <2> QED  BY <2>1, <2>2, <2>3, TimePasses DEF SameSchedule
<1> QED  BY <1>1, <1>2, <1>3, <1>4, <1>5 DEF Next

LEMMA VestingInvariant == Spec => []VestingInv
<1>1. Init => VestingInv
  BY InitVesting
<1>2. VestingInv /\ [Next]_vars => VestingInv'
  BY NextKeepsVesting
<1> QED  BY <1>1, <1>2, PTL DEF Spec

(* Heights, times, balances and schedules stay of their types; every       *)
(* schedule the update writes is well formed and adds up to one, whatever  *)
(* dates and cliffs it starts from.                                         *)
THEOREM VestingTypeCorrect == Spec => []TypeOK
<1>1. VestingInv => TypeOK
  BY DEF VestingInv
<1> QED  BY <1>1, VestingInvariant, PTL

(* spendableCoins of a genesis account never meets a negative amount before *)
(* the update, for every schedule, amount and clock.                        *)
THEOREM VestingAlwaysCovered == Spec => []VestingCovered
<1>1. VestingInv => VestingCovered
  BY DEF VestingInv
<1> QED  BY <1>1, VestingInvariant, PTL

(* TrackUndelegation never gets back more than is tracked as delegated.     *)
THEOREM StakeAlwaysTracked == Spec => []StakeTracked
<1>1. VestingInv => StakeTracked
  BY DEF VestingInv
<1> QED  BY <1>1, VestingInvariant, PTL

-----------------------------------------------------------------------------
(* The month of linear vesting that replaces a cliff *)

LEMMA SpreadOfCliffs ==
  ASSUME NEW s \in Seq(Cliffs)
  PROVE  /\ Spread(s) \in Seq(LazySchedules)
         /\ DOMAIN Spread(s) = DOMAIN s
         /\ \A i \in DOMAIN s : /\ Spread(s)[i].start = s[i].cliff
                                /\ Spread(s)[i].end = s[i].cliff + secondsPerMonth
                                /\ Spread(s)[i].ratio = s[i].ratio
<1>1. secondsPerMonth \in Nat
  BY VestingAssumption
<1>2. DOMAIN s = 1 .. Len(s) /\ Len(s) \in Nat /\ \A i \in DOMAIN s : s[i] \in Cliffs
  OBVIOUS
<1>3. \A i \in 1 .. Len(s) : [start |-> s[i].cliff, end |-> s[i].cliff + secondsPerMonth,
                             ratio |-> s[i].ratio] \in LazySchedules
  BY <1>1, <1>2 DEF Cliffs, LazySchedules
<1>4. Spread(s) \in [1 .. Len(s) -> LazySchedules]
  BY <1>2, <1>3 DEF Spread
<1> QED  BY <1>2, <1>4 DEF Spread

LEMMA MonthIsNatural == secondsPerMonth \in Nat /\ DecOne \in Nat
  BY VestingAssumption

(* A cliff and the month after it. *)
LEMMA MonthAfterCliff ==
  ASSUME NEW c \in Cliffs, NEW l \in LazySchedules, NEW t \in Nat,
         l.start = c.cliff, l.end = c.cliff + secondsPerMonth, l.ratio = c.ratio
  PROVE  /\ LinearTerm(l, t) <= CliffTerm(c, t)
         /\ CliffTerm(c, t) <= LinearTerm(l, t + secondsPerMonth)
<1>1. secondsPerMonth \in Nat /\ c.cliff \in Nat /\ c.ratio \in Nat
  BY VestingAssumption DEF Cliffs
<1>2. t + secondsPerMonth \in Nat
  BY <1>1
<1>3. LinearTerm(l, t) \in 0 .. c.ratio /\ LinearTerm(l, t + secondsPerMonth) \in 0 .. c.ratio
  BY <1>2, LinearTermBounds
<1>4. CASE t < c.cliff
  BY <1>1, <1>3, <1>4 DEF LinearTerm, CliffTerm
<1>5. CASE t >= c.cliff
  <2>1. CliffTerm(c, t) = c.ratio
    BY <1>5 DEF CliffTerm
  <2>2. LinearTerm(l, t + secondsPerMonth) = c.ratio
    <3>1. ~(t + secondsPerMonth < l.start) /\ ~(t + secondsPerMonth < l.end)
      BY <1>1, <1>5
    <3> QED  BY <3>1 DEF LinearTerm
  <2> QED  BY <1>1, <1>3, <2>1, <2>2
<1> QED  BY <1>1, <1>4, <1>5

LEMMA SpreadRatio ==
  ASSUME NEW s \in Seq(Cliffs), NEW t \in Nat
  PROVE  /\ LazyRatio(Spread(s), t) <= GradedRatio(s, t)
         /\ GradedRatio(s, t) <= LazyRatio(Spread(s), t + secondsPerMonth)
<1> DEFINE l == Spread(s)
           byCliffs == [i \in DOMAIN s |-> CliffTerm(s[i], t)]
           At(x) == [i \in DOMAIN s |-> LinearTerm(l[i], x)]
<1>1. IsFiniteSet(DOMAIN s) /\ \A i \in DOMAIN s : s[i] \in Cliffs
  BY SequenceIsFinite
<1>2. /\ DOMAIN l = DOMAIN s
      /\ \A i \in DOMAIN s : /\ l[i].start = s[i].cliff
                             /\ l[i].end = s[i].cliff + secondsPerMonth
                             /\ l[i].ratio = s[i].ratio
  BY SpreadOfCliffs
<1>3. \A i \in DOMAIN s : l[i] \in LazySchedules
  BY <1>2, SpreadOfCliffs, SequenceIsFinite
<1>4. t + secondsPerMonth \in Nat
  BY MonthIsNatural
<1> HIDE DEF l
<1>5. \A x : LazyRatio(l, x) = SumFunctionOnSet(At(x), DOMAIN s)
  BY <1>2 DEF LazyRatio, SumFunction, LinearTerm
<1>6. GradedRatio(s, t) = SumFunctionOnSet(byCliffs, DOMAIN s)
  BY DEF GradedRatio, SumFunction, CliffTerm
<1>7. \A i \in DOMAIN s :
        /\ At(t)[i] \in Nat /\ byCliffs[i] \in Nat /\ At(t + secondsPerMonth)[i] \in Nat
        /\ At(t)[i] <= byCliffs[i] /\ byCliffs[i] <= At(t + secondsPerMonth)[i]
  <2> SUFFICES ASSUME NEW i \in DOMAIN s
               PROVE  LET x == LinearTerm(l[i], t)
                          y == CliffTerm(s[i], t)
                          z == LinearTerm(l[i], t + secondsPerMonth)
                      IN  x \in Nat /\ y \in Nat /\ z \in Nat /\ x <= y /\ y <= z
    OBVIOUS
  <2>1. LinearTerm(l[i], t) \in Nat /\ LinearTerm(l[i], t + secondsPerMonth) \in Nat
    <3>1. t <= t /\ t + secondsPerMonth <= t + secondsPerMonth
      BY <1>4
    <3>2. PICK c \in LazySchedules : c = l[i]
      BY <1>3
    <3>3. LinearTerm(c, t) \in 0 .. c.ratio /\ c.ratio \in Nat
      BY <3>1, LinearTermBounds
    <3>4. LinearTerm(c, t + secondsPerMonth) \in 0 .. c.ratio
      BY <1>4, <3>1, LinearTermBounds
    <3> QED  BY <3>2, <3>3, <3>4
  <2>2. CliffTerm(s[i], t) \in Nat
    <3>1. PICK c \in Cliffs : c = s[i]
      BY <1>1
    <3>2. t <= t
      OBVIOUS
    <3>3. CliffTerm(c, t) \in 0 .. c.ratio /\ c.ratio \in Nat
      BY <3>2, CliffTermBounds
    <3> QED  BY <3>1, <3>3
  <2>3. /\ s[i] \in Cliffs /\ l[i] \in LazySchedules
        /\ l[i].start = s[i].cliff /\ l[i].end = s[i].cliff + secondsPerMonth
        /\ l[i].ratio = s[i].ratio
    BY <1>1, <1>2, <1>3
  <2>4. /\ LinearTerm(l[i], t) <= CliffTerm(s[i], t)
        /\ CliffTerm(s[i], t) <= LinearTerm(l[i], t + secondsPerMonth)
    BY <2>3, MonthAfterCliff
  <2> QED  BY <2>1, <2>2, <2>4
<1> HIDE DEF At, byCliffs
<1>8. SumFunctionOnSet(At(t), DOMAIN s) <= SumFunctionOnSet(byCliffs, DOMAIN s)
  BY <1>1, <1>7, SumMonotone
<1>9. SumFunctionOnSet(byCliffs, DOMAIN s) <= SumFunctionOnSet(At(t + secondsPerMonth), DOMAIN s)
  BY <1>1, <1>7, SumMonotone
<1> QED  BY <1>5, <1>6, <1>8, <1>9 DEF l

(* For every account the update does not name, the converted schedule is   *)
(* never ahead of its cliffs and never more than a month behind.           *)
THEOREM SpreadAlwaysWithinMonth == Spec => []SpreadWithinMonth
<1>1. ASSUME VestingInv PROVE SpreadWithinMonth
  <2> SUFFICES ASSUME lazy, addr \notin PreseedAddresses \cup SeedAddresses,
                      NEW d \in Denoms, GenesisSchedules[addr][d] # Nil
               PROVE  LET byCliffs == RoundInt(OriginalVesting[addr][d]
                                 * GradedRatio(GenesisSchedules[addr][d], now), DecOne)
                      IN  /\ GetVestedCoins(d, now) <= byCliffs
                          /\ byCliffs <= GetVestedCoins(d, now + secondsPerMonth)
    BY DEF SpreadWithinMonth
  <2> DEFINE s == GenesisSchedules[addr][d]
             n == OriginalVesting[addr][d]
             later == now + secondsPerMonth
  <2>1. now \in Nat /\ later \in Nat /\ addr \in Addresses /\ n \in Nat
    <3>1. now \in Nat /\ addr \in Addresses
      BY <1>1, BoundsAreNaturals DEF VestingInv, TypeOK
    <3>2. n \in Nat
      BY <3>1, VestingAssumption
    <3> QED  BY <3>1, <3>2, MonthIsNatural
  <2>2. s \in Seq(Cliffs) /\ IsValidGraded(s)
    BY <2>1, VestingAssumption
  <2>3. schedules[d] = Spread(s)
    BY <1>1 DEF VestingInv, SchedulesKnown, UpdatedSchedules
  <2>4. Spread(s) # Nil /\ Spread(s) \in Seq(LazySchedules) /\ IsValidLazy(Spread(s))
    <3>1. Spread(s) \in Seq(LazySchedules)
      BY <2>2, SpreadOfCliffs
    <3>2. Spread(s) # Nil
      BY <3>1, VestingAssumption
    <3> QED  BY <1>1, <2>3, <3>1, <3>2 DEF VestingInv, TypeOK
  <2>5. \A t : GetVestedCoins(d, t) = RoundInt(n * LazyRatio(Spread(s), t), DecOne)
    BY <2>3, <2>4 DEF GetVestedCoins, Vested
  <2> HIDE DEF s, n, later
  <2>6. /\ LazyRatio(Spread(s), now) \in 0 .. DecOne
        /\ LazyRatio(Spread(s), later) \in 0 .. DecOne
    BY <2>1, <2>4, LazyRatioBounds
  <2>7. GradedRatio(s, now) \in 0 .. DecOne
    BY <2>1, <2>2, GradedRatioBounds
  <2>8. /\ LazyRatio(Spread(s), now) <= GradedRatio(s, now)
        /\ GradedRatio(s, now) <= LazyRatio(Spread(s), later)
    BY <2>1, <2>2, SpreadRatio DEF later
  <2>9. /\ RoundInt(n * LazyRatio(Spread(s), now), DecOne) <= RoundInt(n * GradedRatio(s, now), DecOne)
        /\ RoundInt(n * GradedRatio(s, now), DecOne) <= RoundInt(n * LazyRatio(Spread(s), later), DecOne)
    <3>1. \A q, r \in 0 .. DecOne : q <= r =>
            RoundInt(n * q, DecOne) <= RoundInt(n * r, DecOne)
      <4> TAKE q, r \in 0 .. DecOne
      <4> HAVE q <= r
      <4>1. q \in Nat /\ r \in Nat /\ r <= DecOne
        BY MonthIsNatural
      <4> QED  BY <2>1, <4>1, ShareBounds
    <3> QED  BY <2>6, <2>7, <2>8, <3>1
  <2> QED  BY <2>5, <2>9 DEF s, n, later
<1>2. VestingInv => SpreadWithinMonth
  BY <1>1
<1> QED  BY <1>2, VestingInvariant, PTL

-----------------------------------------------------------------------------
(* The account keeps the promise of LockedFunds *)

Worth == [d \in Denoms |-> coins[d] + Delegated(d)]
Locked == [d \in Denoms |-> GetVestingCoins(d)]

LEMMA AmountsArePositive ==
  ASSUME NEW n \in Amounts
  PROVE  n \in Nat /\ n > 0
<1>1. n \in Nat \ {0}
  BY VestingAssumption
<1> QED  BY <1>1

LEMMA DelegatedType ==
  ASSUME TypeOK, NEW d \in Denoms
  PROVE  coins[d] \in Nat /\ Delegated(d) \in Nat
  BY LunaCoins DEF TypeOK, Delegated

LEMMA HoldingsType ==
  ASSUME VestingInv
  PROVE  Worth \in [Denoms -> Nat] /\ Locked \in [Denoms -> Nat]
<1>1. \A d \in Denoms : coins[d] + Delegated(d) \in Nat
  BY LunaCoins DEF VestingInv, TypeOK, Delegated
<1>2. \A d \in Denoms : GetVestingCoins(d) \in Nat
  BY VestingCoinsType DEF VestingInv
<1> QED  BY <1>1, <1>2 DEF Worth, Locked

(* A step that leaves clock and schedule alone locks neither more nor less. *)
LEMMA LockedUnchanged ==
  ASSUME UNCHANGED <<now, addr, lazy, schedules>>
  PROVE  Locked' = Locked
  BY DEF Locked, GetVestingCoins, GetVestedCoins

LEMMA PromiseStutters ==
  ASSUME Worth' = Worth, Locked' = Locked, params' = params
  PROVE  UNCHANGED Promise!vars
  BY DEF Promise!vars, Worth, Locked

LEMMA PromiseInit ==
  ASSUME Init
  PROVE  Promise!Init
<1>1. VestingInv
  BY InitVesting
<1>2. \A d \in Denoms : Locked[d] <= Worth[d]
  <2> TAKE d \in Denoms
  <2>1. GetVestingCoins(d) \in 0 .. OriginalVesting[addr][d] /\ OriginalVesting[addr][d] \in Nat
    BY <1>1, VestingCoinsType DEF VestingInv
  <2>2. coins[d] = OriginalVesting[addr][d] /\ Delegated(d) = 0
    BY DEF Init, Delegated
  <2> QED  BY <2>1, <2>2 DEF Locked, Worth
<1>3. (params = "updated") = FALSE
  BY DEF Init
<1>4. Worth \in [Denoms -> Nat] /\ Locked \in [Denoms -> Nat]
  BY <1>1, HoldingsType
<1> QED  BY <1>2, <1>3, <1>4 DEF Promise!Init, Promise!Holdings, Worth, Locked

LEMMA ReceiveMaps ==
  ASSUME VestingInv, NEW d \in Denoms, NEW n \in Amounts, Receive(d, n)
  PROVE  Promise!Receive(d)
<1>1. n \in Nat /\ n > 0 /\ \A e \in Denoms : coins[e] \in Nat /\ Delegated(e) \in Nat
  BY AmountsArePositive, DelegatedType DEF VestingInv
<1>2. \A e \in Denoms : coins'[e] = IF e = d THEN coins[d] + n ELSE coins[e]
  BY DEF Receive, VestingInv, TypeOK
<1>3. \A e \in Denoms : Delegated(e)' = Delegated(e)
  BY DEF Receive, Delegated
<1>4. Worth[d] < Worth'[d]
  BY <1>1, <1>2, <1>3 DEF Worth
<1>5. Worth' = [Worth EXCEPT ![d] = Worth'[d]]
  BY <1>1, <1>2, <1>3 DEF Worth
<1>6. Locked' = Locked /\ params' = params
  BY LockedUnchanged DEF Receive
<1> QED  BY <1>4, <1>5, <1>6 DEF Promise!Receive, Worth, Locked

LEMMA SpendMaps ==
  ASSUME VestingInv, NEW d \in Denoms, NEW n \in Amounts, Spend(d, n)
  PROVE  Promise!Spend(d)
<1>1. n \in Nat /\ n > 0 /\ \A e \in Denoms : coins[e] \in Nat /\ Delegated(e) \in Nat
  BY AmountsArePositive, DelegatedType DEF VestingInv
<1>2. \A e \in Denoms : coins'[e] = IF e = d THEN coins[d] - n ELSE coins[e]
  BY DEF Spend, VestingInv, TypeOK
<1>3. \A e \in Denoms : Delegated(e)' = Delegated(e)
  BY DEF Spend, Delegated
<1>4. Worth'[d] < Worth[d]
  BY <1>1, <1>2, <1>3 DEF Worth
<1>5. Worth' = [Worth EXCEPT ![d] = Worth'[d]]
  BY <1>1, <1>2, <1>3 DEF Worth
<1>6. Locked[d] <= Worth'[d]
  <2>1. n <= coins[d] + DelegatedVesting(d) - GetVestingCoins(d)
    BY SpendKeepsInvariant
  <2>2. DelegatedVesting(d) \in Nat /\ DelegatedVesting(d) <= Delegated(d)
    BY LunaCoins DEF VestingInv, DelegatedVesting, Delegated
  <2>3. GetVestingCoins(d) \in Nat
    BY VestingCoinsType DEF VestingInv
  <2>4. Worth'[d] = coins[d] - n + Delegated(d) /\ Locked[d] = GetVestingCoins(d)
    BY <1>2, <1>3 DEF Worth, Locked
  <2> QED  BY <1>1, <2>1, <2>2, <2>3, <2>4
<1>7. Locked' = Locked /\ params' = params
  BY LockedUnchanged DEF Spend
<1> QED  BY <1>4, <1>5, <1>6, <1>7 DEF Promise!Spend, Worth, Locked

(* Delegated coins are still the account's. *)
LEMMA StakingMaps ==
  ASSUME VestingInv, NEW n \in Amounts, TrackDelegation(n) \/ TrackUndelegation(n) \/ Slash(n)
  PROVE  UNCHANGED Promise!vars
<1>1. /\ n \in Nat /\ \A e \in Denoms : coins[e] \in Nat
      /\ delegatedFree \in Nat /\ delegatedVesting \in Nat
  BY VestingAssumption, LunaCoins DEF VestingInv, TypeOK
<1>2. ASSUME TrackDelegation(n) PROVE Worth' = Worth
  <2>1. PICK x \in Int : x = VestingShare(n)
    BY <1>1, ShareType DEF VestingInv
  <2>2. /\ delegatedVesting' = delegatedVesting + x
        /\ delegatedFree' = delegatedFree + n - x
        /\ \A e \in Denoms : coins'[e] = IF e = Luna THEN coins[e] - n ELSE coins[e]
    BY <1>2, <2>1 DEF TrackDelegation, VestingInv, TypeOK
  <2> QED  BY <1>1, <2>2 DEF Worth, Delegated
<1>3. ASSUME TrackUndelegation(n) PROVE Worth' = Worth
  <2>1. PICK x \in Int : x = FreeReturned(n)
    BY <1>1 DEF FreeReturned, Least
  <2>2. /\ delegatedVesting' = delegatedVesting - (n - x)
        /\ delegatedFree' = delegatedFree - x
        /\ \A e \in Denoms : coins'[e] = IF e = Luna THEN coins[e] + n ELSE coins[e]
    BY <1>3, <2>1 DEF TrackUndelegation, VestingInv, TypeOK
  <2> QED  BY <1>1, <2>2 DEF Worth, Delegated
<1>4. ASSUME Slash(n) PROVE Worth' = Worth
  BY <1>4 DEF Slash, accountVars, Worth, Delegated
<1>5. UNCHANGED <<now, addr, lazy, schedules, params>>
  BY DEF TrackDelegation, TrackUndelegation, Slash, accountVars
<1> QED  BY <1>2, <1>3, <1>4, <1>5, LockedUnchanged, PromiseStutters

(* A block releases coins; the one that converts the account locks anew.   *)
LEMMA EndBlockMaps ==
  ASSUME VestingInv, VestingInv', NEW dt \in TimeSteps, EndBlock(dt)
  PROVE  Promise!Release \/ Promise!Reschedule
<1>1. Worth' = Worth
  BY DEF EndBlock, Worth, Delegated
<1>2. Locked' \in [Denoms -> Nat]
  <2>1. (VestingInv => Locked \in [Denoms -> Nat])'
    BY HoldingsType, PTL
  <2> QED  BY <2>1
<1>3. lazy \in BOOLEAN /\ (lazy <=> params = "updated")
  BY DEF VestingInv, SchedulesKnown
<1>4. CASE Converts
  <2>1. ~(params = "updated") /\ (params' = "updated") = TRUE
    BY <1>3, <1>4 DEF Converts, EndBlock, Update230000
  <2> QED  BY <1>1, <1>2, <2>1 DEF Promise!Reschedule, Promise!Holdings, Worth, Locked
<1>5. CASE ~Converts
  <2>1. UNCHANGED <<addr, lazy, schedules, params>>
    BY <1>3, <1>5 DEF EndBlock, Update230000, Converts
  <2>2. now' \in Nat /\ now <= now'
    BY BlockMoves, BoundsAreNaturals DEF VestingInv
  <2>3. \A d \in Denoms : GetVestingCoins(d)' <= GetVestingCoins(d)
    BY <2>1, <2>2, VestingDecreases DEF VestingInv
  <2>4. \A d \in Denoms : Locked'[d] <= Locked[d]
    BY <2>3 DEF Locked
  <2> QED  BY <1>1, <1>2, <2>1, <2>4 DEF Promise!Release, Promise!Holdings, Worth, Locked
<1> QED  BY <1>4, <1>5

LEMMA NextKeepsPromise ==
  ASSUME VestingInv, VestingInv', [Next]_vars
  PROVE  [Promise!Next]_(Promise!vars)
<1>1. ASSUME NEW d \in Denoms, NEW n \in Amounts, Receive(d, n) \/ Spend(d, n)
      PROVE  Promise!Next
  BY <1>1, ReceiveMaps, SpendMaps DEF Promise!Next
<1>2. ASSUME NEW n \in Amounts, TrackDelegation(n) \/ TrackUndelegation(n) \/ Slash(n)
      PROVE  UNCHANGED Promise!vars
  BY <1>2, StakingMaps
<1>3. ASSUME Block PROVE Promise!Next
  BY <1>3, EndBlockMaps DEF Block, Promise!Next
<1>4. ASSUME Restart \/ UNCHANGED vars PROVE UNCHANGED Promise!vars
  <2>1. UNCHANGED <<addr, lazy, schedules, coins, delegatedFree, delegatedVesting, params, now>>
    BY <1>4, RestartKeepsAccount DEF vars, accountVars
  <2>2. Worth' = Worth
    BY <2>1 DEF Worth, Delegated
  <2> QED  BY <2>1, <2>2, LockedUnchanged, PromiseStutters
<1> QED  BY <1>1, <1>2, <1>3, <1>4 DEF Next

(* Refinement: whatever the holder spends, delegates and gets back, however *)
(* often he is slashed and the chain restarted, only a payment lowers what  *)
(* the account is worth, never below what is locked, and only the update    *)
(* locks more, once.                                                        *)
THEOREM AlwaysKeepsPromise == Spec => KeepsPromise
<1>1. Init => Promise!Init
  BY PromiseInit
<1>2. VestingInv /\ VestingInv' /\ [Next]_vars => [Promise!Next]_(Promise!vars)
  BY NextKeepsPromise
<1> QED  BY <1>1, <1>2, VestingInvariant, PTL DEF Spec, KeepsPromise, Promise!Spec

=============================================================================
