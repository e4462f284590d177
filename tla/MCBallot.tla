------------------------------ MODULE MCBallot ------------------------------
(***************************************************************************)
(* Model-checking instances of Ballot.                                     *)
(***************************************************************************)
EXTENDS Ballot

=============================================================================
