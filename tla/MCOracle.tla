------------------------------ MODULE MCOracle ------------------------------
(***************************************************************************)
(* Model-checking instances of Oracle.                                     *)
(***************************************************************************)
EXTENDS Oracle, TLC

(* Bonded units, and validators, are interchangeable. *)
Interchangeable == Permutations(Tokens) \cup Permutations(Vals)

=============================================================================
