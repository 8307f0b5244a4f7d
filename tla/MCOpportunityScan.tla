------------------------- MODULE MCOpportunityScan -------------------------
(***************************************************************************)
(* A small instance of OpportunityScan: one product with listing b1 on one *)
(* marketplace and x1, x2 on another, traded both ways.  Two pairs share a *)
(* direction, and both directions can be active at once.                   *)
(***************************************************************************)
EXTENDS OpportunityScan

OneProduct == [l \in Listings |-> "p"]
TwoMarkets == [l \in Listings |-> IF l = "b1" THEN "buy" ELSE "sell"]
BothWays == {<<"buy", "sell">>, <<"sell", "buy">>}
============================================================================
