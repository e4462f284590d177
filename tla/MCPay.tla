------------------------------- MODULE MCPay -------------------------------
(***************************************************************************)
(* Model-checking instance of Pay with the Treasury.                       *)
(***************************************************************************)
EXTENDS Pay

MCTaxPolicy == [min |-> 100, max |-> 400, change |-> 150]
MCRewardPolicy == [min |-> 50, max |-> 900, change |-> 250]
MCPrincipals ==
  {[d \in Denoms |-> IF d = Luna THEN 6 ELSE 0],
   [d \in Denoms |-> IF d = Luna THEN 0 ELSE 18],
   [d \in Denoms |-> IF d = Luna THEN 3 ELSE 5]}

=============================================================================
