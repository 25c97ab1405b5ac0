------------------------------- MODULE MCFeed -------------------------------
(***************************************************************************)
(* Feed on small instances.                                                 *)
(***************************************************************************)
EXTENDS Feed

\* A short ticker and one of full length.
TwoTickers == {<<69>>, <<78, 81>>}
OneTicker == {<<69>>}
=============================================================================
