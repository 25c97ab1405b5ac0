----------------------------- MODULE MCExchange -----------------------------
(***************************************************************************)
(* Exchange on small instances.                                             *)
(***************************************************************************)
EXTENDS Exchange, TLC

\* Order ids and users are only compared.
Symmetry == Permutations(OrderIds) \cup Permutations(UserIds)
=============================================================================
