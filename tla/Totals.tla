------------------------------- MODULE Totals -------------------------------
(***************************************************************************)
(* The sum of a sequence of integers, as a recursive function of positions.  *)
(***************************************************************************)
EXTENDS Integers, Sequences

Total(s) ==
  LET sum[i \in 0..Len(s)] == IF i = 0 THEN 0 ELSE sum[i - 1] + s[i]
  IN  sum[Len(s)]
=============================================================================
