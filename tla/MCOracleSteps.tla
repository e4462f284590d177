---------------------------- MODULE MCOracleSteps ----------------------------
(***************************************************************************)
(* Model-checking instance of OracleSteps.                                 *)
(***************************************************************************)
EXTENDS OracleSteps, TLC

(* Bonded units are interchangeable. *)
InterchangeableTokens == Permutations(Tokens)

=============================================================================
