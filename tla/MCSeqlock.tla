----------------------------- MODULE MCSeqlock ------------------------------
(***************************************************************************)
(* Seqlock on small instances: a T of two words both of which differ from    *)
(* value to value.                                                          *)
(***************************************************************************)
EXTENDS Seqlock

MCWords == {"low", "high"}
Both(d) == [w \in MCWords |-> d]
MCStorable == {Both(d) : d \in Data}
MCInitialValue == Both(0)
=============================================================================
