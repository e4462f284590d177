------------------------------ MODULE MCBudget ------------------------------
(***************************************************************************)
(* Model-checking instances of Budget.                                     *)
(***************************************************************************)
EXTENDS Budget, TLC

(* Bonded units, and validators, are interchangeable. *)
Interchangeable == Permutations(Tokens) \cup Permutations(Vals)

=============================================================================
