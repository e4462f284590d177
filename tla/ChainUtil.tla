----------------------------- MODULE ChainUtil -----------------------------
(***************************************************************************)
(* Block-height arithmetic and fixed-point rounding shared by the modules  *)
(* of the chain: types/util/epoch.go and the sdk.Dec operations the        *)
(* keepers call.  A decimal is a pair numerator/denominator of naturals.   *)
(***************************************************************************)
EXTENDS Integers

(* The period of length p that contains height h (integer division of int64). *)
Period(h, p) == h \div p

(* util.IsPeriodLastBlock: the block before a multiple of the period. *)
IsPeriodLastBlock(h, p) == (h + 1) % p = 0

(* sdk.Dec.RoundInt of n/d for n >= 0: to the nearest integer, ties to even. *)
RoundInt(n, d) ==
  LET q == n \div d
      r == n % d
  IN  IF 2 * r < d \/ (2 * r = d /\ q % 2 = 0) THEN q ELSE q + 1

=============================================================================
