------------------------------ MODULE MCMarket ------------------------------
(***************************************************************************)
(* Model-checking instances of Market.                                     *)
(***************************************************************************)
EXTENDS Market

=============================================================================
