------------------------------ MODULE Seqlock -------------------------------
(***************************************************************************)
(* Seqlock<T> of src/common/core/seqlock.hpp: one writer, any number of      *)
(* readers.  T is stored as several machine words (optional<Price> as its    *)
(* price and its engaged flag), which value_ = value and result = value_     *)
(* copy one at a time, in any order.                                        *)
(*                                                                         *)
(* value_ is plain memory.  With InOrder, memory operations take effect in   *)
(* program order, as in a build that keeps them so on x86-64.  Without it    *)
(* they may move as release stores and acquire loads permit, as on AArch64:  *)
(* a plain write may precede the release store before it, a plain read may   *)
(* follow the acquire load after it.                                        *)
(***************************************************************************)
EXTENDS Integers

CONSTANTS
  Readers,
  Words,          \* the words a T consists of
  Data,           \* what one word can hold
  Storable,       \* the values of T that the writer stores
  InitialValue,   \* T{}
  None,           \* no Load has returned yet
  InOrder,
  MaxStores       \* bound: how often the writer stores

Values == [Words -> Data]

ASSUME SeqlockAssumption ==
  /\ Storable \subseteq Values
  /\ InitialValue \in Storable
  /\ None \notin Values
  /\ InOrder \in BOOLEAN

VARIABLES
  sequence, value,                        \* sequence_ and the words of value_
  writer, stored, unwritten,              \* the writer's step, argument and words to copy
  reader, before, after, result, unread,  \* the same for every reader
  loaded,                                 \* what each reader's latest Load returned
  committed                               \* history: the argument of the last finished Store

shared == <<sequence, value>>
writerVars == <<writer, stored, unwritten, committed>>
readerVars == <<reader, before, after, result, unread, loaded>>
seqlockVars == <<sequence, value, writer, stored, unwritten, committed,
                 reader, before, after, result, unread, loaded>>

SeqlockInit ==
  /\ sequence = 0
  /\ value = InitialValue
  /\ writer = "idle"
  /\ stored = InitialValue
  /\ unwritten = {}
  /\ committed = InitialValue
  /\ reader = [r \in Readers |-> "idle"]
  /\ before = [r \in Readers |-> 0]
  /\ after = [r \in Readers |-> 0]
  /\ result = [r \in Readers |-> InitialValue]
  /\ unread = [r \in Readers |-> {}]
  /\ loaded = [r \in Readers |-> None]

-----------------------------------------------------------------------------
(* Store *)

\* The call, with the relaxed load of sequence_: only this thread writes it.
BeginStore(v) ==
  /\ writer = "idle"
  /\ writer' = "begun"
  /\ stored' = v
  /\ unwritten' = Words
  /\ UNCHANGED <<sequence, value, committed, readerVars>>

\* Mutant: the counter runs down.
Decremented(n) == n - 1

Incremented(n) == n + 1

StoreOdd ==
  /\ writer = "begun"
  /\ writer' = "odd"
  /\ sequence' = Incremented(sequence)
  /\ UNCHANGED <<value, stored, unwritten, committed, readerVars>>

\* Mutant: the words need not wait for the odd sequence number.
MayWriteEarly == writer \in {"begun", "odd"}

MayWrite == writer = "odd" \/ (~InOrder /\ writer = "begun")

WriteWord(w) ==
  /\ MayWrite
  /\ w \in unwritten
  /\ value' = [value EXCEPT ![w] = stored[w]]
  /\ unwritten' = unwritten \ {w}
  /\ UNCHANGED <<sequence, writer, stored, committed, readerVars>>

\* A release store: the words are written by now.
StoreEven ==
  /\ writer = "odd"
  /\ unwritten = {}
  /\ writer' = "idle"
  /\ sequence' = Incremented(sequence)
  /\ committed' = stored
  /\ UNCHANGED <<value, stored, unwritten, readerVars>>

-----------------------------------------------------------------------------
(* Load *)

BeginLoad(r) ==
  /\ reader[r] = "idle"
  /\ reader' = [reader EXCEPT ![r] = "begun"]
  /\ UNCHANGED <<shared, writerVars, before, after, result, unread, loaded>>

\* An acquire load: no word is read earlier.
LoadBefore(r) ==
  /\ reader[r] = "begun"
  /\ reader' = [reader EXCEPT ![r] = "copying"]
  /\ before' = [before EXCEPT ![r] = sequence]
  /\ unread' = [unread EXCEPT ![r] = Words]
  /\ UNCHANGED <<shared, writerVars, after, result, loaded>>

ReadWord(r, w) ==
  /\ reader[r] = "copying" \/ (~InOrder /\ reader[r] = "deciding")
  /\ w \in unread[r]
  /\ result' = [result EXCEPT ![r][w] = value[w]]
  /\ unread' = [unread EXCEPT ![r] = @ \ {w}]
  /\ UNCHANGED <<shared, writerVars, reader, before, after, loaded>>

LoadAfter(r) ==
  /\ reader[r] = "copying"
  /\ InOrder => unread[r] = {}
  /\ reader' = [reader EXCEPT ![r] = "deciding"]
  /\ after' = [after EXCEPT ![r] = sequence]
  /\ UNCHANGED <<shared, writerVars, before, result, unread, loaded>>

\* Mutant: an odd sequence number is accepted.
SettledEvenIfOdd(r) == before[r] = after[r]

Settled(r) == before[r] = after[r] /\ before[r] % 2 = 0

\* The loop condition is false: Load returns result.
ReturnLoad(r) ==
  /\ reader[r] = "deciding"
  /\ unread[r] = {}
  /\ Settled(r)
  /\ reader' = [reader EXCEPT ![r] = "idle"]
  /\ loaded' = [loaded EXCEPT ![r] = result[r]]
  /\ UNCHANGED <<shared, writerVars, before, after, result, unread>>

\* Mutant: the retry does not load the first sequence number again.
CopyAgain == "copying"

\* Where the loop body starts.
LoopStart == "begun"

RetryLoad(r) ==
  /\ reader[r] = "deciding"
  /\ unread[r] = {}
  /\ ~Settled(r)
  /\ reader' = [reader EXCEPT ![r] = LoopStart]
  /\ UNCHANGED <<shared, writerVars, before, after, result, unread, loaded>>

-----------------------------------------------------------------------------

WriterStep == StoreOdd \/ StoreEven \/ \E w \in Words : WriteWord(w)

ReaderStep(r) ==
  LoadBefore(r) \/ LoadAfter(r) \/ ReturnLoad(r) \/ RetryLoad(r)
    \/ \E w \in Words : ReadWord(r, w)

SeqlockNext ==
  \/ \E v \in Storable : sequence < 2 * MaxStores /\ BeginStore(v)
  \/ WriterStep
  \/ \E r \in Readers : BeginLoad(r)
  \/ \E r \in Readers : ReaderStep(r)

SeqlockSpec == SeqlockInit /\ [][SeqlockNext]_seqlockVars

\* A thread inside Store or Load keeps running; nobody has to call them.
FairSeqlockSpec ==
  /\ SeqlockSpec
  /\ WF_seqlockVars(WriterStep)
  /\ \A r \in Readers : WF_seqlockVars(ReaderStep(r))

-----------------------------------------------------------------------------
(* Properties. *)

\* Type invariant.
SeqlockTypeOK ==
  /\ sequence \in Nat
  /\ value \in Values
  /\ writer \in {"idle", "begun", "odd"}
  /\ stored \in Storable
  /\ unwritten \subseteq Words
  /\ committed \in Storable
  /\ reader \in [Readers -> {"idle", "begun", "copying", "deciding"}]
  /\ before \in [Readers -> Nat]
  /\ after \in [Readers -> Nat]
  /\ result \in [Readers -> Values]
  /\ unread \in [Readers -> SUBSET Words]
  /\ loaded \in [Readers -> Values \cup {None}]

\* "Load() retries if it observes a torn [...] sequence": what a Load returns
\* is a value that was stored, never words of two of them.
NoTornLoad == \A r \in Readers : loaded[r] \in Storable \cup {None}

\* Why it works in program order.  An even sequence number means that the
\* words are those of the last finished Store, an odd one that the words
\* already copied are those of the Store in progress; and as long as the
\* sequence number is the even one a Load started from, every word that Load
\* has copied is of the last finished Store.
SequenceProtocol ==
  /\ writer # "odd" => sequence % 2 = 0 /\ value = committed
  /\ writer = "begun" => unwritten = Words
  /\ writer = "odd" => /\ sequence % 2 = 1
                       /\ \A w \in Words \ unwritten : value[w] = stored[w]
  /\ \A r \in Readers : reader[r] = "copying" =>
       /\ before[r] <= sequence
       /\ before[r] = sequence /\ sequence % 2 = 0 =>
            \A w \in Words \ unread[r] : result[r][w] = committed[w]

\* What readers have loaded once their second load of sequence_ settles it.
LoadedSoFar ==
  [r \in Readers |-> IF reader[r] = "deciding" /\ unread[r] = {} /\ Settled(r)
                     THEN result[r] ELSE loaded[r]]

Register == INSTANCE AtomicRegister WITH
  Values <- Storable, register <- committed, loaded <- LoadedSoFar

\* Every Load takes effect at one instant, its second load of sequence_, and
\* every Store at its second store to it: the seqlock is an atomic register,
\* so readers never see values out of order either.
ImplementsAtomicRegister == Register!Spec

\* A Load returns once the writer pauses: no retry is left waiting for a
\* sequence number that never becomes even or never stays put.
LoadReturnsOnceWriterPauses ==
  <>[](writer = "idle") =>
    \A r \in Readers : reader[r] # "idle" ~> reader[r] = "idle"
=============================================================================
