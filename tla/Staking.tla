------------------------------ MODULE Staking ------------------------------
(***************************************************************************)
(* The staking module of the Cosmos SDK as the oracle and the budget see   *)
(* it through sdk.ValidatorSet: which validators exist, how many bonded    *)
(* tokens each has, and the total.  Bonded tokens are individuals, so the  *)
(* power of a set of validators is the number of tokens bonded to them.    *)
(* A validator that exists without bonded tokens is jailed or unbonding.   *)
(***************************************************************************)
EXTENDS FiniteSets, ChainUtil

CONSTANTS
  Vals,       \* operator addresses that may ever run a validator
  Tokens,     \* units of Luna that can be bonded
  Nil,        \* absence: an unbonded token, an empty store key
  MinBonded,  \* bonded tokens without which no chain is running
  MaxMoves    \* bound: staking changes explored

ASSUME StakingAssumption ==
  /\ IsFiniteSet(Tokens)
  /\ Nil \notin Vals
  /\ MinBonded \in Nat
  /\ MaxMoves \in Nat

VARIABLES
  validators, \* the validators in the staking store
  stake,      \* the validator each token is bonded to, or Nil
  moves       \* bound counter: staking changes so far

stakingVars == <<validators, stake, moves>>

StakingTypeOK ==
  /\ validators \subseteq Vals
  /\ stake \in [Tokens -> validators \cup {Nil}]
  /\ moves \in 0 .. MaxMoves

(* Sum of GetBondedTokens over the validators in S. *)
Power(S) == Cardinality({t \in Tokens : stake[t] \in S})

TotalBondedTokens == Power(Vals)

StakingInit ==
  /\ validators = Vals
  /\ stake \in [Tokens -> Vals]
  /\ TotalBondedTokens >= MinBonded
  /\ moves = 0

(* Any staking transaction or slash that moves one bonded unit. *)
Rebond(t, w) ==
  /\ stake[t] # w
  /\ stake' = [stake EXCEPT ![t] = w]
  /\ Cardinality({u \in Tokens : stake'[u] \in Vals}) >= MinBonded
  /\ UNCHANGED validators

CreateValidator(v) ==
  /\ v \notin validators
  /\ validators' = validators \cup {v}
  /\ UNCHANGED stake

(* The staking keeper removes a validator only once nothing is bonded to it. *)
RemoveValidator(v) ==
  /\ v \in validators
  /\ Power({v}) = 0
  /\ validators' = validators \ {v}
  /\ UNCHANGED stake

StakingNext ==
  /\ moves < MaxMoves
  /\ moves' = moves + 1
  /\ \/ \E t \in Tokens, w \in validators \cup {Nil} : Rebond(t, w)
     \/ \E v \in Vals : CreateValidator(v) \/ RemoveValidator(v)

=============================================================================
