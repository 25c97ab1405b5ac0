------------------------------ MODULE MCRouter ------------------------------
(***************************************************************************)
(* MatchingEngineRouter on small instances.  Order ids and users are model   *)
(* values that the specification only compares, so they are symmetric.      *)
(***************************************************************************)
EXTENDS MatchingEngineRouter, TLC

\* Prices and volumes on both sides of zero: neither is validated.
BookPrices == {-2, 1}
AnyVolumes == {-1, 1}

Symmetry == Permutations(OrderIds) \cup Permutations(UserIds)
=============================================================================
