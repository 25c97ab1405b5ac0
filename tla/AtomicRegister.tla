--------------------------- MODULE AtomicRegister ---------------------------
(***************************************************************************)
(* What a seqlock promises: a register whose loads and stores each take      *)
(* effect in one step.                                                      *)
(***************************************************************************)
CONSTANTS Readers, Values, InitialValue, None

VARIABLES
  register,   \* the stored value
  loaded      \* what each reader's latest Load returned, None before the first

vars == <<register, loaded>>

Init ==
  /\ register = InitialValue
  /\ loaded = [r \in Readers |-> None]

Store(v) ==
  /\ register' = v
  /\ UNCHANGED loaded

Load(r) ==
  /\ loaded' = [loaded EXCEPT ![r] = register]
  /\ UNCHANGED register

Next ==
  \/ \E v \in Values : Store(v)
  \/ \E r \in Readers : Load(r)

Spec == Init /\ [][Next]_vars
=============================================================================
