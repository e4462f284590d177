----------------------------- MODULE MCVesting -----------------------------
(***************************************************************************)
(* Model-checking instance of Vesting: one address of each kind.  A month  *)
(* is two units of time at first, later ones are shorter, and the account   *)
(* that the update does not name has cliffs at months 0, 1 and 3 for Luna  *)
(* and vested SDR.                                                         *)
(***************************************************************************)
EXTENDS Vesting

CONSTANTS private, preseed, seed, split

(* Months 1 to 3 are two units apart, the months the update does not name   *)
(* take no time.                                                            *)
MCDate == <<2, 4, 6, 6, 6, 6, 6, 6, 7, 8, 8, 9, 10, 10, 10, 10, 11, 12, 14>>

InLuna(s) == [d \in Denoms |-> IF d = Luna THEN s ELSE Nil]

MCOriginalVesting ==
  [a \in Addresses |-> [d \in Denoms |->
     IF d = Luna THEN (IF a = private THEN 4 ELSE 2) ELSE IF a = private THEN 1 ELSE 0]]

At(month, ratio) == [cliff |-> MCDate[month], ratio |-> ratio]

MCSchedules ==
  [a \in Addresses |-> InLuna(
     CASE a = private -> <<[cliff |-> 0, ratio |-> 2000], At(1, 3000), At(3, 5000)>>
       [] a = preseed -> <<At(1, 1000), At(2, 1000), At(3, 1000), At(12, 7000)>>
       [] a = seed -> <<At(1, 1000), At(2, 1000), At(3, 1000), At(10, 7000)>>
       [] a = split -> <<At(1, 470), At(2, 470), At(3, 470), At(10, 3260), At(18, 5330)>>)]

=============================================================================
