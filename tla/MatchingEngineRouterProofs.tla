--------------------- MODULE MatchingEngineRouterProofs ---------------------
(***************************************************************************)
(* Theorems about MatchingEngineRouter, for every set of instruments, users, *)
(* ids, prices and volumes, any number of orders, and with or without order  *)
(* ids that are used twice.  The first half says what the member functions   *)
(* of MatchingEngine return, for every book.                                *)
(***************************************************************************)
EXTENDS MatchingEngineRouter, WellFoundedInduction, TLAPS

\* Every nonempty set of naturals has a least element: the induction principle
\* of the lemmas below.
LEMMA LeastElement ==
  ASSUME NEW T, T \subseteq Nat, T # {}
  PROVE  \E x \in T : \A y \in T : x <= y
<1>1. PICK x \in T : \A y \in T : ~ (<<y, x>> \in OpToRel(<, Nat))
  BY NatLessThanWellFounded, WFMin
<1>2. \A y \in T : ~(y < x)
  BY <1>1 DEF OpToRel
<1>3. QED
  BY <1>2

-----------------------------------------------------------------------------
(* Facts about sequences. *)

\* The empty sequence, and the length of any other.
LEMMA EmptySeq ==
  ASSUME NEW S
  PROVE  /\ <<>> \in Seq(S) /\ Len(<<>>) = 0
         /\ \A seq \in Seq(S) : seq # <<>> => Len(seq) \in Nat \ {0}
OBVIOUS

\* A sequence with one more element at its end.
LEMMA AppendProperties ==
  ASSUME NEW S, NEW seq \in Seq(S), NEW e \in S
  PROVE  /\ Append(seq, e) \in Seq(S) /\ Append(seq, e) # <<>>
         /\ Len(Append(seq, e)) = Len(seq) + 1
         /\ \A i \in 1..Len(seq) : Append(seq, e)[i] = seq[i]
         /\ Append(seq, e)[Len(seq) + 1] = e
OBVIOUS

\* The first element of a sequence, and the others.
LEMMA HeadTailProperties ==
  ASSUME NEW S, NEW s \in Seq(S), s # <<>>
  PROVE  /\ Head(s) \in S /\ Tail(s) \in Seq(S) /\ Len(Tail(s)) = Len(s) - 1
         /\ \A i \in 1..Len(Tail(s)) : Tail(s)[i] = s[i + 1]
OBVIOUS

\* A sequence with one element replaced.
LEMMA ExceptSeq ==
  ASSUME NEW S, NEW seq \in Seq(S), NEW i \in 1..Len(seq), NEW e \in S
  PROVE  /\ [seq EXCEPT ![i] = e] \in Seq(S)
         /\ Len([seq EXCEPT ![i] = e]) = Len(seq)
         /\ \A j \in 1..Len(seq) : [seq EXCEPT ![i] = e][j] = IF j = i THEN e ELSE seq[j]
OBVIOUS

-----------------------------------------------------------------------------
(* The best price. *)

\* book.begin() of a nonempty side is its best price.
LEMMA BestPriceIsBest ==
  ASSUME NEW side \in Sides, NEW levels,
         DOMAIN levels \subseteq Price, DOMAIN levels # {}
  PROVE  /\ BestPrice(side, levels) \in DOMAIN levels
         /\ BestPrice(side, levels) \in Price
         /\ \A q \in DOMAIN levels : NoWorse(side, BestPrice(side, levels), q)
<1> USE HalfAssumption DEF Price
<1>1. \E p \in DOMAIN levels : \A q \in DOMAIN levels : NoWorse(side, p, q)
  <2>1. CASE side = "Buy"
    <3> DEFINE T == {Half - 1 - q : q \in DOMAIN levels}
    <3>1. T \subseteq Nat /\ T # {}
      OBVIOUS
    <3>2. PICK x \in T : \A y \in T : x <= y
      BY <3>1, LeastElement
    <3>3. PICK p \in DOMAIN levels : x = Half - 1 - p
      OBVIOUS
    <3>4. ASSUME NEW q \in DOMAIN levels PROVE p >= q
      <4>1. Half - 1 - p <= Half - 1 - q
        BY <3>2, <3>3
      <4>2. QED
        BY <4>1
    <3>5. QED
      BY <2>1, <3>4 DEF NoWorse
  <2>2. CASE side = "Sell"
    <3> DEFINE T == {q + Half : q \in DOMAIN levels}
    <3>1. T \subseteq Nat /\ T # {}
      OBVIOUS
    <3>2. PICK x \in T : \A y \in T : x <= y
      BY <3>1, LeastElement
    <3>3. PICK p \in DOMAIN levels : x = p + Half
      OBVIOUS
    <3>4. ASSUME NEW q \in DOMAIN levels PROVE p <= q
      <4>1. p + Half <= q + Half
        BY <3>2, <3>3
      <4>2. QED
        BY <4>1
    <3>5. QED
      BY <2>2, <3>4 DEF NoWorse
  <2>3. QED
    BY <2>1, <2>2 DEF Sides
<1>2. QED
  BY <1>1 DEF BestPrice

-----------------------------------------------------------------------------
(* std::erase_if. *)

\* One step of the recursion that defines EraseId.
KeptStep(level, orderId, f, i) ==
  IF i = 0 THEN <<>>
  ELSE IF level[i].orderId = orderId THEN f[i - 1]
  ELSE Append(f[i - 1], level[i])

\* The function of the orders kept among the first i.
Kept(level, orderId) ==
  CHOOSE f : f = [i \in 0..Len(level) |-> KeptStep(level, orderId, f, i)]

\* The recursion has a solution on every prefix of a level.
LEMMA KeptExists ==
  ASSUME NEW S, NEW level \in Seq(S), NEW orderId, NEW n \in Nat, n <= Len(level)
  PROVE  \E f : f = [i \in 0..n |-> KeptStep(level, orderId, f, i)]
<1> DEFINE Solvable(m) == \E f : f = [i \in 0..m |-> KeptStep(level, orderId, f, i)]
           T == {m \in Nat : m <= Len(level) /\ ~Solvable(m)}
<1>1. SUFFICES ASSUME T # {} PROVE FALSE
  OBVIOUS
<1>2. PICK m \in T : \A y \in T : m <= y
  BY <1>1, LeastElement
<1>3. CASE m = 0
  <2> DEFINE g == [i \in 0..0 |-> <<>>]
  <2>1. g = [i \in 0..0 |-> KeptStep(level, orderId, g, i)]
    BY DEF KeptStep
  <2>2. QED
    BY <2>1, <1>2, <1>3
<1>4. CASE m # 0
  <2>1. m - 1 \in Nat /\ m - 1 <= Len(level) /\ m - 1 \notin T
    BY <1>2, <1>4
  <2>2. PICK f : f = [i \in 0..(m - 1) |-> KeptStep(level, orderId, f, i)]
    BY <2>1
  <2> DEFINE g == [i \in 0..m |-> IF i = m THEN KeptStep(level, orderId, f, m) ELSE f[i]]
  <2>3. ASSUME NEW i \in 0..m PROVE g[i] = KeptStep(level, orderId, g, i)
    <3>1. CASE i = m
      <4>1. g[m] = KeptStep(level, orderId, f, m) /\ g[m - 1] = f[m - 1]
        BY <1>2, <1>4
      <4>2. QED
        BY <1>4, <3>1, <4>1 DEF KeptStep
    <3>2. CASE i # m
      <4>1. i \in 0..(m - 1) /\ g[i] = f[i]
        BY <1>2, <3>2
      <4>2. f[i] = KeptStep(level, orderId, f, i)
        BY <2>2, <4>1
      <4>3. i # 0 => g[i - 1] = f[i - 1]
        BY <1>2, <4>1
      <4>4. QED
        BY <4>1, <4>2, <4>3 DEF KeptStep
    <3>3. QED
      BY <3>1, <3>2
  <2>4. g = [i \in 0..m |-> KeptStep(level, orderId, g, i)]
    BY <2>3
  <2>5. QED
    BY <1>2, <2>4
<1>5. QED
  BY <1>3, <1>4

\* The recursion that EraseId follows.
LEMMA KeptRecursion ==
  ASSUME NEW S, NEW level \in Seq(S), NEW orderId
  PROVE  /\ EraseId(level, orderId) = Kept(level, orderId)[Len(level)]
         /\ Kept(level, orderId)[0] = <<>>
         /\ \A i \in 1..Len(level) :
              Kept(level, orderId)[i] =
                IF level[i].orderId = orderId
                THEN Kept(level, orderId)[i - 1]
                ELSE Append(Kept(level, orderId)[i - 1], level[i])
<1> DEFINE k == Kept(level, orderId)
<1>1. Len(level) \in Nat
  OBVIOUS
<1>2. \E f : f = [i \in 0..Len(level) |-> KeptStep(level, orderId, f, i)]
  <2>1. Len(level) <= Len(level)
    BY <1>1
  <2>2. QED
    BY <1>1, <2>1, KeptExists
<1>3. k = [i \in 0..Len(level) |-> KeptStep(level, orderId, k, i)]
  BY <1>2 DEF Kept
<1>4. EraseId(level, orderId) = k[Len(level)]
  BY DEF EraseId, Kept, KeptStep
<1> HIDE DEF k
<1>5. \A i \in 0..Len(level) : k[i] = KeptStep(level, orderId, k, i)
  BY <1>3
<1>6. k[0] = <<>>
  BY <1>1, <1>5 DEF KeptStep
<1>7. \A i \in 1..Len(level) :
        k[i] = IF level[i].orderId = orderId THEN k[i - 1] ELSE Append(k[i - 1], level[i])
  BY <1>1, <1>5 DEF KeptStep
<1>8. QED
  BY <1>4, <1>6, <1>7 DEF k

\* Erasing leaves a sequence of the same kind of orders.
LEMMA EraseIdType ==
  ASSUME NEW S, NEW level \in Seq(S), NEW orderId
  PROVE  EraseId(level, orderId) \in Seq(S)
<1> DEFINE k == Kept(level, orderId)
           T == {m \in Nat : m <= Len(level) /\ k[m] \notin Seq(S)}
<1>1. Len(level) \in Nat
  OBVIOUS
<1>2. /\ EraseId(level, orderId) = k[Len(level)]
      /\ k[0] = <<>>
      /\ \A i \in 1..Len(level) :
           k[i] = IF level[i].orderId = orderId THEN k[i - 1] ELSE Append(k[i - 1], level[i])
  BY KeptRecursion
<1> HIDE DEF k
<1>3. SUFFICES ASSUME T # {} PROVE FALSE
  BY <1>1, <1>2
<1>4. PICK m \in T : \A y \in T : m <= y
  BY <1>3, LeastElement
<1>5. m # 0
  BY <1>2, <1>4, EmptySeq
<1>6. m \in 1..Len(level) /\ k[m - 1] \in Seq(S) /\ level[m] \in S
  BY <1>1, <1>4, <1>5
<1>7. k[m] \in Seq(S)
  <2>1. k[m] = IF level[m].orderId = orderId THEN k[m - 1] ELSE Append(k[m - 1], level[m])
    BY <1>2, <1>6
  <2>2. Append(k[m - 1], level[m]) \in Seq(S)
    BY <1>6, AppendProperties
  <2>3. QED
    BY <1>6, <2>1, <2>2
<1>8. QED
  BY <1>4, <1>7

-----------------------------------------------------------------------------
(* One side of a book. *)

\* Putting a level back, or erasing it when empty, keeps a side well formed
\* and creates no level.
LEMMA PutLevelOK ==
  ASSUME NEW levels, LevelsOK(levels), NEW p \in DOMAIN levels,
         NEW level \in Seq(RestingOrder)
  PROVE  /\ LevelsOK(PutLevel(levels, p, level))
         /\ DOMAIN PutLevel(levels, p, level) \subseteq DOMAIN levels
<1>1. CASE level = <<>>
  BY <1>1 DEF PutLevel, WithoutKey, LevelsOK
<1>2. CASE level # <<>>
  BY <1>2 DEF PutLevel, LevelsOK
<1>3. QED
  BY <1>1, <1>2

\* A fill smaller than the front order shrinks it, a fill of its whole volume
\* removes it.
LEMMA FillFrontOK ==
  ASSUME NEW level \in Seq(RestingOrder), level # <<>>,
         NEW traded \in Nat, traded <= Head(level).volume
  PROVE  FillFront(level, traded) \in Seq(RestingOrder)
<1>1. Head(level) \in RestingOrder /\ Tail(level) \in Seq(RestingOrder)
  BY HeadTailProperties
<1>2. CASE Head(level).volume = traded
  BY <1>1, <1>2 DEF FillFront
<1>3. CASE Head(level).volume # traded
  <2>1. 1 \in 1..Len(level) /\ Head(level) = level[1]
    BY EmptySeq
  <2> DEFINE front == [level[1] EXCEPT !.volume = @ - traded]
  <2>2. front \in RestingOrder
    <3>1. level[1] \in RestingOrder /\ traded <= level[1].volume /\ traded # level[1].volume
      BY <1>1, <1>3, <2>1
    <3>2. ASSUME NEW r \in RestingOrder, traded <= r.volume, traded # r.volume
          PROVE  [r EXCEPT !.volume = @ - traded] \in RestingOrder
      <4>1. r.volume - traded \in Nat \ {0}
        BY <3>2 DEF RestingOrder
      <4>2. QED
        BY <4>1 DEF RestingOrder
    <3>3. QED
      BY <3>1, <3>2
  <2>3. FillFront(level, traded) = [level EXCEPT ![1] = front]
    BY <1>3, <2>1 DEF FillFront
  <2>4. QED
    BY <2>1, <2>2, <2>3, ExceptSeq
<1>4. QED
  BY <1>2, <1>3

\* The same for the best level of a side: no level appears.
LEMMA FillBestOK ==
  ASSUME NEW side \in Sides, NEW levels, LevelsOK(levels), DOMAIN levels # {},
         NEW traded \in Nat,
         traded <= Head(levels[BestPrice(side, levels)]).volume
  PROVE  /\ LevelsOK(FillBest(side, levels, traded))
         /\ DOMAIN FillBest(side, levels, traded) \subseteq DOMAIN levels
<1> DEFINE p == BestPrice(side, levels)
<1>1. p \in DOMAIN levels
  BY BestPriceIsBest DEF LevelsOK
<1>2. levels[p] \in Seq(RestingOrder) /\ levels[p] # <<>>
  BY <1>1 DEF LevelsOK
<1>3. FillFront(levels[p], traded) \in Seq(RestingOrder)
  BY <1>2, FillFrontOK
<1>4. QED
  BY <1>1, <1>3, PutLevelOK DEF FillBest

\* Resting an order adds at most the level of its price.
LEMMA RestOK ==
  ASSUME NEW levels, LevelsOK(levels), NEW p \in Price, NEW resting \in RestingOrder
  PROVE  /\ LevelsOK(Rest(levels, p, resting))
         /\ DOMAIN Rest(levels, p, resting) = DOMAIN levels \cup {p}
<1> DEFINE old == IF p \in DOMAIN levels THEN levels[p] ELSE <<>>
<1>1. old \in Seq(RestingOrder)
  BY EmptySeq DEF LevelsOK
<1> HIDE DEF old
<1>2. Append(old, resting) \in Seq(RestingOrder) /\ Append(old, resting) # <<>>
  BY <1>1, AppendProperties
<1>3. Rest(levels, p, resting) =
        [q \in DOMAIN levels \cup {p} |-> IF q = p THEN Append(old, resting) ELSE levels[q]]
  BY DEF Rest, WithKey, old
<1>4. QED
  BY <1>2, <1>3 DEF LevelsOK

\* Erasing an order creates no level.
LEMMA EraseFromBookOK ==
  ASSUME NEW levels, LevelsOK(levels), NEW p, NEW orderId
  PROVE  /\ LevelsOK(EraseFromBook(levels, p, orderId))
         /\ DOMAIN EraseFromBook(levels, p, orderId) \subseteq DOMAIN levels
<1>1. CASE p \in DOMAIN levels
  <2>1. EraseId(levels[p], orderId) \in Seq(RestingOrder)
    BY <1>1, EraseIdType DEF LevelsOK
  <2>2. QED
    BY <1>1, <2>1, PutLevelOK DEF EraseFromBook
<1>2. CASE p \notin DOMAIN levels
  BY <1>2 DEF EraseFromBook
<1>3. QED
  BY <1>1, <1>2

-----------------------------------------------------------------------------
(* The queue of a price, and what the member functions make of it. *)

\* A side of a book seen through its queues, one for every price, empty when
\* the side has no such level.
LevelAt(levels, p) == IF p \in DOMAIN levels THEN levels[p] ELSE <<>>

\* PutLevel changes the queue of one price.
LEMMA PutLevelAt ==
  ASSUME NEW levels, NEW p \in DOMAIN levels, NEW level, NEW q
  PROVE  LevelAt(PutLevel(levels, p, level), q) =
           IF q = p THEN level ELSE LevelAt(levels, q)
<1>1. CASE level = <<>>
  BY <1>1 DEF PutLevel, WithoutKey, LevelAt
<1>2. CASE level # <<>>
  BY <1>2 DEF PutLevel, LevelAt
<1>3. QED
  BY <1>1, <1>2

\* Every queue of a well-formed side is a sequence of orders.
LEMMA LevelAtOK ==
  ASSUME NEW levels, LevelsOK(levels), NEW p
  PROVE  /\ LevelAt(levels, p) \in Seq(RestingOrder)
         /\ LevelAt(levels, p) # <<>> <=> p \in DOMAIN levels
BY EmptySeq DEF LevelAt, LevelsOK

\* A fill changes the queue of the best price.
LEMMA FillBestAt ==
  ASSUME NEW side \in Sides, NEW levels, LevelsOK(levels), DOMAIN levels # {},
         NEW traded, NEW q
  PROVE  LevelAt(FillBest(side, levels, traded), q) =
           IF q = BestPrice(side, levels)
           THEN FillFront(LevelAt(levels, q), traded) ELSE LevelAt(levels, q)
<1> DEFINE p == BestPrice(side, levels)
<1>1. p \in DOMAIN levels
  BY BestPriceIsBest DEF LevelsOK
<1>2. FillBest(side, levels, traded) = PutLevel(levels, p, FillFront(levels[p], traded))
  BY DEF FillBest
<1> HIDE DEF p
<1>3. LevelAt(PutLevel(levels, p, FillFront(levels[p], traded)), q) =
        IF q = p THEN FillFront(levels[p], traded) ELSE LevelAt(levels, q)
  BY <1>1, PutLevelAt
<1>4. LevelAt(levels, p) = levels[p]
  BY <1>1 DEF LevelAt
<1>5. QED
  BY <1>2, <1>3, <1>4 DEF p

\* Resting an order appends it to the queue of its price.
LEMMA RestAt ==
  ASSUME NEW levels, NEW p, NEW resting, NEW q
  PROVE  LevelAt(Rest(levels, p, resting), q) =
           IF q = p THEN Append(LevelAt(levels, q), resting) ELSE LevelAt(levels, q)
BY DEF Rest, WithKey, LevelAt

\* Nothing is erased from an empty level.
LEMMA EraseIdEmpty ==
  ASSUME NEW level \in Seq(RestingOrder), NEW orderId
  PROVE  Len(level) = 0 => EraseId(level, orderId) = <<>>
<1> DEFINE k == Kept(level, orderId)
<1>1. /\ EraseId(level, orderId) = k[Len(level)]
      /\ k[0] = <<>>
      /\ \A i \in 1..Len(level) :
           k[i] = IF level[i].orderId = orderId THEN k[i - 1] ELSE Append(k[i - 1], level[i])
  BY KeptRecursion
<1> HIDE DEF k
<1>2. QED
  BY <1>1

\* Erasing an order changes the queue of the price it is found at.
LEMMA EraseFromBookAt ==
  ASSUME NEW levels, LevelsOK(levels), NEW p, NEW orderId, NEW q
  PROVE  LevelAt(EraseFromBook(levels, p, orderId), q) =
           IF q = p THEN EraseId(LevelAt(levels, q), orderId) ELSE LevelAt(levels, q)
<1>1. CASE p \in DOMAIN levels
  BY <1>1, PutLevelAt DEF EraseFromBook, LevelAt
<1>2. CASE p \notin DOMAIN levels
  <2>1. EraseId(<<>>, orderId) = <<>>
    BY EmptySeq, EraseIdEmpty
  <2>2. QED
    BY <1>2, <2>1 DEF EraseFromBook, LevelAt
<1>3. QED
  BY <1>1, <1>2

-----------------------------------------------------------------------------
(* The orders of a queue. *)

\* What a fill does to the orders of a level.
LEMMA FillFrontOrders ==
  ASSUME NEW level \in Seq(RestingOrder), level # <<>>,
         NEW traded \in Nat, traded <= Head(level).volume
  PROVE  /\ level[1] = Head(level) /\ 1 \in 1..Len(level)
         /\ Head(level).volume = traded =>
              /\ Len(FillFront(level, traded)) = Len(level) - 1
              /\ \A i \in 1..Len(FillFront(level, traded)) :
                   FillFront(level, traded)[i] = level[i + 1]
         /\ Head(level).volume # traded =>
              /\ Len(FillFront(level, traded)) = Len(level)
              /\ FillFront(level, traded)[1] =
                   [level[1] EXCEPT !.volume = level[1].volume - traded]
              /\ \A i \in 2..Len(level) : FillFront(level, traded)[i] = level[i]
<1>1. level[1] = Head(level) /\ 1 \in 1..Len(level)
  BY EmptySeq
<1>2. CASE Head(level).volume = traded
  <2>1. FillFront(level, traded) = Tail(level)
    BY <1>2 DEF FillFront
  <2>2. /\ Len(Tail(level)) = Len(level) - 1
        /\ \A i \in 1..Len(Tail(level)) : Tail(level)[i] = level[i + 1]
    BY HeadTailProperties
  <2>3. QED
    BY <1>1, <1>2, <2>1, <2>2
<1>3. CASE Head(level).volume # traded
  <2> DEFINE front == [level[1] EXCEPT !.volume = level[1].volume - traded]
  <2>1. FillFront(level, traded) = [level EXCEPT ![1] = front]
    BY <1>1, <1>3 DEF FillFront
  <2> HIDE DEF front
  <2>2. /\ Len([level EXCEPT ![1] = front]) = Len(level)
        /\ [level EXCEPT ![1] = front][1] = front
        /\ \A i \in 2..Len(level) : [level EXCEPT ![1] = front][i] = level[i]
    BY <1>1
  <2>3. QED
    BY <1>1, <1>3, <2>1, <2>2 DEF front
<1>4. QED
  BY <1>2, <1>3

\* g shows that e holds, in order, exactly the orders among the first m of
\* level whose id is not orderId.
Shows(g, e, level, m, orderId) ==
  /\ g \in [1..Len(e) -> 1..m]
  /\ \A i \in 1..Len(e) : e[i] = level[g[i]] /\ level[g[i]].orderId # orderId
  /\ \A i, j \in 1..Len(e) : i < j => g[i] < g[j]
  /\ \A j \in 1..m : level[j].orderId # orderId => \E i \in 1..Len(e) : g[i] = j

\* EraseId keeps every order with another id, and their order.
LEMMA EraseIdOrders ==
  ASSUME NEW S, NEW level \in Seq(S), NEW orderId
  PROVE  \E g : Shows(g, EraseId(level, orderId), level, Len(level), orderId)
<1> DEFINE k == Kept(level, orderId)
           Good(m) == k[m] \in Seq(S) /\ \E g : Shows(g, k[m], level, m, orderId)
           T == {m \in Nat : m <= Len(level) /\ ~Good(m)}
<1>1. Len(level) \in Nat
  OBVIOUS
<1>2. /\ EraseId(level, orderId) = k[Len(level)]
      /\ k[0] = <<>>
      /\ \A i \in 1..Len(level) :
           k[i] = IF level[i].orderId = orderId THEN k[i - 1] ELSE Append(k[i - 1], level[i])
  BY KeptRecursion
<1> HIDE DEF k
<1>3. SUFFICES ASSUME T # {} PROVE FALSE
  BY <1>1, <1>2
<1>4. PICK m \in T : \A y \in T : m <= y
  BY <1>3, LeastElement
<1>5. Good(0)
  <2>1. k[0] \in Seq(S) /\ Len(k[0]) = 0
    BY <1>2, EmptySeq
  <2>2. Shows([i \in 1..0 |-> i], k[0], level, 0, orderId)
    BY <2>1 DEF Shows
  <2>3. QED
    BY <2>1, <2>2
<1>6. m \in 1..Len(level) /\ level[m] \in S /\ m - 1 \in Nat
  BY <1>1, <1>4, <1>5
<1>7. Good(m - 1)
  <2>1. m - 1 <= Len(level) /\ ~(m <= m - 1)
    BY <1>1, <1>6
  <2>2. QED
    BY <1>4, <1>6, <2>1
<1>8. PICK g : Shows(g, k[m - 1], level, m - 1, orderId)
  BY <1>7
<1>9. k[m] = IF level[m].orderId = orderId THEN k[m - 1] ELSE Append(k[m - 1], level[m])
  BY <1>2, <1>6
<1>10. k[m - 1] \in Seq(S)
  BY <1>7
<1> DEFINE e == k[m - 1]
<1>11. Len(e) \in Nat
  BY <1>10
<1>12. CASE level[m].orderId = orderId
  <2>1. Shows(g, e, level, m, orderId)
    BY <1>6, <1>8, <1>11, <1>12 DEF Shows
  <2>2. QED
    BY <1>4, <1>9, <1>10, <1>12, <2>1
<1>13. CASE level[m].orderId # orderId
  <2> DEFINE n == Len(e)
             f == Append(e, level[m])
             h == [i \in 1..(n + 1) |-> IF i = n + 1 THEN m ELSE g[i]]
  <2>1. /\ f \in Seq(S) /\ Len(f) = n + 1 /\ f[n + 1] = level[m]
        /\ \A i \in 1..n : f[i] = e[i]
    BY <1>6, <1>10, AppendProperties
  <2>2. h[n + 1] = m /\ \A i \in 1..n : h[i] = g[i]
    BY <1>11
  <2>3. k[m] = f
    BY <1>9, <1>13
  <2> HIDE DEF f
  <2>4. /\ g \in [1..n -> 1..(m - 1)]
        /\ \A i \in 1..n : e[i] = level[g[i]] /\ level[g[i]].orderId # orderId
        /\ \A i, j \in 1..n : i < j => g[i] < g[j]
        /\ \A j \in 1..(m - 1) : level[j].orderId # orderId => \E i \in 1..n : g[i] = j
    BY <1>8 DEF Shows
  <2>5. h \in [1..(n + 1) -> 1..m]
    BY <1>6, <1>11, <2>4
  <2>6. \A i \in 1..(n + 1) : i = n + 1 \/ i \in 1..n
    BY <1>11
  <2> HIDE DEF h, e, n
  <2>7. \A i \in 1..(n + 1) : f[i] = level[h[i]] /\ level[h[i]].orderId # orderId
    BY <1>13, <2>1, <2>2, <2>4, <2>6
  <2>8. \A i, j \in 1..(n + 1) : i < j => h[i] < h[j]
    <3> SUFFICES ASSUME NEW i \in 1..(n + 1), NEW j \in 1..(n + 1), i < j
                 PROVE  h[i] < h[j]
      OBVIOUS
    <3>1. i \in 1..n
      BY <1>11 DEF n
    <3>2. CASE j = n + 1
      <4>1. g[i] \in 1..(m - 1)
        BY <2>4, <3>1
      <4>2. QED
        BY <1>6, <2>2, <3>1, <3>2, <4>1
    <3>3. CASE j \in 1..n
      BY <2>2, <2>4, <3>1, <3>3
    <3>4. QED
      BY <2>6, <3>2, <3>3
  <2>9. \A j \in 1..m : level[j].orderId # orderId => \E i \in 1..(n + 1) : h[i] = j
    <3> SUFFICES ASSUME NEW j \in 1..m, level[j].orderId # orderId
                 PROVE  \E i \in 1..(n + 1) : h[i] = j
      OBVIOUS
    <3>1. CASE j = m
      <4>1. n + 1 \in 1..(n + 1)
        BY <1>11 DEF n
      <4>2. QED
        BY <2>2, <3>1, <4>1
    <3>2. CASE j # m
      <4>1. j \in 1..(m - 1)
        BY <1>6, <3>2
      <4>2. PICK i \in 1..n : g[i] = j
        BY <2>4, <4>1
      <4>3. i \in 1..(n + 1)
        BY <1>11 DEF n
      <4>4. QED
        BY <2>2, <4>2, <4>3
    <3>3. QED
      BY <3>1, <3>2
  <2>10. Shows(h, f, level, m, orderId)
    BY <2>1, <2>5, <2>7, <2>8, <2>9 DEF Shows
  <2>11. QED
    BY <1>4, <2>1, <2>3, <2>10
<1>14. QED
  BY <1>12, <1>13

-----------------------------------------------------------------------------
(* The mid price. *)

\* The sum of two prices, wrapped and halved, is a price.
LEMMA HalfOfWrapOK ==
  ASSUME NEW n \in Int
  PROVE  HalfOf(Wrap(n)) \in Price
<1>1. 2 * Half \in Nat \ {0}
  BY HalfAssumption
<1>2. \A m \in Nat \ {0} : \A x \in Int : x % m \in 0..(m - 1)
  OBVIOUS
<1>3. (n + Half) % (2 * Half) \in 0..(2 * Half - 1)
  BY <1>1, <1>2, HalfAssumption
<1>4. Wrap(n) \in Price
  BY <1>3, HalfAssumption DEF Wrap, Price
<1>5. \A w \in Price : HalfOf(w) \in Price
  BY HalfAssumption DEF HalfOf, Price
<1>6. QED
  BY <1>4, <1>5

\* UpdateMidPrice publishes a price, or keeps what it had.
LEMMA UpdateMidPriceOK ==
  ASSUME NEW bids, NEW asks, LevelsOK(bids), LevelsOK(asks), NEW mid
  PROVE  /\ UpdateMidPrice(bids, asks, mid) \in Price \cup {mid}
         /\ DOMAIN bids # {} \/ DOMAIN asks # {} => UpdateMidPrice(bids, asks, mid) \in Price
<1>1. DOMAIN bids # {} => BestPrice("Buy", bids) \in Price
  BY BestPriceIsBest DEF LevelsOK, Sides
<1>2. DOMAIN asks # {} => BestPrice("Sell", asks) \in Price
  BY BestPriceIsBest DEF LevelsOK, Sides
<1>3. DOMAIN bids # {} /\ DOMAIN asks # {} =>
        HalfOf(Wrap(BestPrice("Buy", bids) + BestPrice("Sell", asks))) \in Price
  BY <1>1, <1>2, HalfOfWrapOK, HalfAssumption DEF Price
<1>4. QED
  BY <1>1, <1>2, <1>3 DEF UpdateMidPrice

\* The mid price m of a side pair lies between the best prices, and is the
\* best price of the only side that has one.
InSpread(bids, asks, m) ==
  DOMAIN bids # {} \/ DOMAIN asks # {} =>
    /\ m \in Price
    /\ \A b \in DOMAIN bids : b <= m
    /\ \A a \in DOMAIN asks : m <= a
    /\ DOMAIN asks = {} => m \in DOMAIN bids
    /\ DOMAIN bids = {} => m \in DOMAIN asks

\* UpdateMidPrice of an uncrossed book whose prices do not overflow when added.
LEMMA UpdateMidPriceInSpread ==
  ASSUME NEW bids, NEW asks, LevelsOK(bids), LevelsOK(asks), NEW mid,
         \A b \in DOMAIN bids, a \in DOMAIN asks : b < a /\ b + a \in Price
  PROVE  InSpread(bids, asks, UpdateMidPrice(bids, asks, mid))
<1> DEFINE bb == BestPrice("Buy", bids)
           ba == BestPrice("Sell", asks)
           m == UpdateMidPrice(bids, asks, mid)
<1>1. DOMAIN bids # {} =>
        bb \in DOMAIN bids /\ bb \in Price /\ \A b \in DOMAIN bids : b <= bb
  <2>1. DOMAIN bids # {} =>
          bb \in DOMAIN bids /\ bb \in Price /\ \A b \in DOMAIN bids : NoWorse("Buy", bb, b)
    BY BestPriceIsBest DEF LevelsOK, Sides
  <2>2. \A b \in DOMAIN bids : b \in Int
    BY HalfAssumption DEF LevelsOK, Price
  <2> HIDE DEF bb
  <2>3. QED
    BY <2>1, <2>2 DEF NoWorse
<1>2. DOMAIN asks # {} =>
        ba \in DOMAIN asks /\ ba \in Price /\ \A a \in DOMAIN asks : ba <= a
  BY BestPriceIsBest DEF LevelsOK, Sides, NoWorse
<1>3. m \in Price \/ (DOMAIN bids = {} /\ DOMAIN asks = {})
  BY UpdateMidPriceOK
<1>4. CASE DOMAIN bids # {} /\ DOMAIN asks # {}
  <2>1. m = HalfOf(Wrap(bb + ba))
    BY <1>4 DEF UpdateMidPrice
  <2>2. bb < ba /\ bb + ba \in Price /\ bb \in Int /\ ba \in Int
    BY <1>1, <1>2, <1>4, HalfAssumption DEF Price
  <2> HIDE DEF bb, ba, m
  <2>3. Wrap(bb + ba) = bb + ba
    <3>1. \A k \in Nat \ {0} : \A x \in 0..(k - 1) : x % k = x
      OBVIOUS
    <3>2. 2 * Half \in Nat \ {0} /\ bb + ba + Half \in 0..(2 * Half - 1)
      BY <2>2, HalfAssumption DEF Price
    <3>3. (bb + ba + Half) % (2 * Half) = bb + ba + Half
      BY <3>1, <3>2
    <3>4. QED
      BY <2>2, <3>3, HalfAssumption DEF Wrap
  <2>4. bb <= m /\ m <= ba
    BY <2>1, <2>2, <2>3 DEF HalfOf
  <2>5. m \in Int
    BY <1>3, <1>4, HalfAssumption DEF Price
  <2>6. ASSUME NEW b \in DOMAIN bids PROVE b <= m
    <3>1. b <= bb
      BY <1>1, <1>4
    <3>2. b \in Int
      BY HalfAssumption DEF LevelsOK, Price
    <3>3. QED
      BY <2>2, <2>4, <2>5, <3>1, <3>2
  <2>7. ASSUME NEW a \in DOMAIN asks PROVE m <= a
    <3>1. ba <= a
      BY <1>2, <1>4
    <3>2. a \in Int
      BY HalfAssumption DEF LevelsOK, Price
    <3>3. QED
      BY <2>2, <2>4, <2>5, <3>1, <3>2
  <2>8. InSpread(bids, asks, m)
    BY <1>3, <1>4, <2>6, <2>7 DEF InSpread
  <2>9. QED
    BY <2>8 DEF m
<1>5. CASE DOMAIN bids # {} /\ DOMAIN asks = {}
  <2>1. m = bb
    BY <1>5 DEF UpdateMidPrice
  <2>2. QED
    BY <1>1, <1>5, <2>1 DEF InSpread
<1>6. CASE DOMAIN bids = {} /\ DOMAIN asks # {}
  <2>1. m = ba
    BY <1>6 DEF UpdateMidPrice
  <2>2. QED
    BY <1>2, <1>6, <2>1 DEF InSpread
<1>7. CASE DOMAIN bids = {} /\ DOMAIN asks = {}
  BY <1>7 DEF InSpread
<1>8. QED
  BY <1>4, <1>5, <1>6, <1>7

-----------------------------------------------------------------------------
(* Type correctness. *)

\* What Match knows when it makes a trade: the maker is a resting order of the
\* best opposing level, and the traded volume fits both orders.
LEMMA MatchFacts ==
  ASSUME TypeOK, call # None, Matches(call.order, call.remaining, Opposing)
  PROVE  LET t == call.order.ticker
             s == Opposite(call.order.side)
             traded == Traded(call.remaining, Maker)
         IN  /\ call \in Call
             /\ t \in INSTRUMENTS /\ s \in Sides
             /\ Opposing = book[t][s]
             /\ LevelsOK(book[t][s]) /\ DOMAIN book[t][s] # {}
             /\ Maker = Head(book[t][s][BestPrice(s, book[t][s])])
             /\ Maker \in RestingOrder
             /\ traded \in Nat \ {0}
             /\ traded <= Maker.volume /\ traded <= call.remaining
<1> DEFINE t == call.order.ticker
           s == Opposite(call.order.side)
           best == BestPrice(s, book[t][s])
<1>1. call \in Call /\ t \in INSTRUMENTS
  BY DEF TypeOK
<1>2. call.order \in OrderAdd /\ call.remaining \in Int
  BY <1>1 DEF Call
<1>3. s \in Sides
  BY <1>2 DEF OrderAdd, Opposite, Sides
<1>4. LevelsOK(book[t][s]) /\ DOMAIN book[t][s] # {}
  BY <1>1, <1>3 DEF TypeOK, Matches, VolumeLeft, Opposing
<1>5. best \in DOMAIN book[t][s]
  BY <1>3, <1>4, BestPriceIsBest, ZenonT(30) DEF LevelsOK
<1>6. book[t][s][best] \in Seq(RestingOrder) /\ book[t][s][best] # <<>>
  BY <1>4, <1>5, Zenon DEF LevelsOK
<1>7. Maker = Head(book[t][s][best])
  BY DEF Maker, Opposing
<1>8. Maker \in RestingOrder
  BY <1>6, <1>7, HeadTailProperties
<1>9. Maker.volume \in Nat \ {0} /\ call.remaining > 0
  BY <1>8 DEF RestingOrder, Matches, VolumeLeft
<1>10. /\ Traded(call.remaining, Maker) \in Nat \ {0}
       /\ Traded(call.remaining, Maker) <= Maker.volume
       /\ Traded(call.remaining, Maker) <= call.remaining
  BY <1>2, <1>9 DEF Traded
<1>11. Opposing = book[t][s]
  BY DEF Opposing
<1>12. QED
  BY <1>1, <1>3, <1>4, <1>7, <1>8, <1>10, <1>11, Zenon

\* The book after the remainder of an order rests.
LEMMA BookWithRemainderOK ==
  ASSUME TypeOK, call # None
  PROVE  LET o == call.order
             after == BookWithRemainder
         IN  /\ call \in Call /\ o \in OrderAdd /\ o.ticker \in INSTRUMENTS
             /\ after = [s \in Sides |-> after[s]]
             /\ \A s \in Sides : LevelsOK(after[s])
             /\ \A s \in Sides : DOMAIN after[s] =
                  IF call.remaining > 0 /\ s = o.side
                  THEN DOMAIN book[o.ticker][s] \cup {o.price}
                  ELSE DOMAIN book[o.ticker][s]
<1> DEFINE o == call.order
           resting == [orderId |-> o.orderId, userId |-> o.userId,
                       volume |-> call.remaining, arrival |-> call.arrival]
<1>1. call \in Call /\ o \in OrderAdd /\ o.ticker \in INSTRUMENTS
  BY DEF TypeOK, Call
<1>2. /\ book[o.ticker] = [s \in Sides |-> book[o.ticker][s]]
      /\ \A s \in Sides : LevelsOK(book[o.ticker][s])
  BY <1>1 DEF TypeOK
<1>3. CASE call.remaining > 0
  <2>1. resting \in RestingOrder
    BY <1>1, <1>3 DEF Call, OrderAdd, RestingOrder
  <2>2. o.price \in Price /\ o.side \in Sides
    BY <1>1, RouterAssumption DEF OrderAdd
  <2> HIDE DEF resting
  <2>3. /\ LevelsOK(Rest(book[o.ticker][o.side], o.price, resting))
        /\ DOMAIN Rest(book[o.ticker][o.side], o.price, resting)
             = DOMAIN book[o.ticker][o.side] \cup {o.price}
    BY <1>2, <2>1, <2>2, RestOK, Zenon
  <2>4. BookWithRemainder =
          [book[o.ticker] EXCEPT ![o.side] = Rest(book[o.ticker][o.side], o.price, resting)]
    BY <1>3 DEF BookWithRemainder, resting
  <2>5. QED
    BY <1>1, <1>2, <1>3, <2>2, <2>3, <2>4, Zenon
<1>4. CASE ~(call.remaining > 0)
  BY <1>1, <1>2, <1>4 DEF BookWithRemainder
<1>5. QED
  BY <1>3, <1>4

\* Adding to some counters of a sequence of counters.
LEMMA CountersOK ==
  ASSUME NEW counters \in Seq(Nat), NEW chosen, NEW n \in Nat
  PROVE  LET added == [i \in DOMAIN counters |->
                         IF i \in chosen THEN counters[i] + n ELSE counters[i]]
         IN  added \in Seq(Nat) /\ Len(added) = Len(counters)
<1> DEFINE added == [i \in DOMAIN counters |->
                       IF i \in chosen THEN counters[i] + n ELSE counters[i]]
<1>1. DOMAIN counters = 1..Len(counters) /\ Len(counters) \in Nat
  OBVIOUS
<1>2. added \in [1..Len(counters) -> Nat]
  BY <1>1
<1> HIDE DEF added
<1>3. added \in Seq(Nat) /\ Len(added) = Len(counters)
  BY <1>1, <1>2
<1>4. QED
  BY <1>3 DEF added

\* The type invariant holds initially.
LEMMA TypeInit == Init => TypeOK
<1> SUFFICES ASSUME Init PROVE TypeOK
  OBVIOUS
<1>1. \A t \in INSTRUMENTS : \A s \in Sides : LevelsOK(book[t][s])
  BY DEF Init, EmptyMap, LevelsOK
<1>2. log \in Seq(OrderAdd) /\ executed \in Seq(Nat) /\ Len(executed) = Len(log)
  BY DEF Init
<1>3. QED
  BY <1>1, <1>2 DEF Init, TypeOK, EmptyMap

\* Every operation keeps the type invariant.
LEMMA TypeStep == TypeOK /\ [Next]_vars => TypeOK'
<1> SUFFICES ASSUME TypeOK, [Next]_vars
             PROVE  TypeOK'
  OBVIOUS
<1>1. ASSUME NEW o \in OrderAdd, OnOrderAdd(o) PROVE TypeOK'
  <2>1. log' \in Seq(OrderAdd) /\ executed' \in Seq(Nat) /\ Len(executed') = Len(log')
    BY <1>1, AppendProperties DEF OnOrderAdd, Receive, TypeOK
  <2>2. call' \in Call /\ call'.order.ticker \in INSTRUMENTS
    BY <1>1, RouterAssumption DEF OnOrderAdd, TypeOK, Call, OrderAdd
  <2>3. QED
    BY <1>1, <2>1, <2>2 DEF OnOrderAdd, Receive, TypeOK
<1>2. ASSUME NEW o \in OrderAdd, DropOrderAdd(o) PROVE TypeOK'
  <2>1. log' \in Seq(OrderAdd) /\ executed' \in Seq(Nat) /\ Len(executed') = Len(log')
    BY <1>2, AppendProperties DEF DropOrderAdd, Receive, TypeOK
  <2>2. QED
    BY <1>2, <2>1 DEF DropOrderAdd, Receive, TypeOK
<1>3. CASE Match
  <2> DEFINE t == call.order.ticker
             s == Opposite(call.order.side)
             traded == Traded(call.remaining, Maker)
  <2>1. /\ call \in Call /\ t \in INSTRUMENTS /\ s \in Sides
        /\ LevelsOK(book[t][s]) /\ DOMAIN book[t][s] # {}
        /\ Maker = Head(book[t][s][BestPrice(s, book[t][s])])
        /\ Maker \in RestingOrder
        /\ traded \in Nat \ {0} /\ traded <= Maker.volume
    BY <1>3, MatchFacts, Zenon DEF Match
  <2>2. /\ book' = [book EXCEPT ![t][s] = FillBest(s, book[t][s], traded)]
        /\ orderIndex' = IF Maker.volume = traded
                         THEN [orderIndex EXCEPT ![t] = WithoutKey(orderIndex[t], Maker.orderId)]
                         ELSE orderIndex
        /\ call' = [call EXCEPT !.remaining = call.remaining - traded]
        /\ executed' = [a \in DOMAIN executed |->
                           IF a \in {Maker.arrival, call.arrival}
                           THEN executed[a] + traded ELSE executed[a]]
        /\ UNCHANGED <<midPrice, log, cancelledBy>>
    BY <1>3 DEF Match
  <2> HIDE DEF t, s, traded
  <2>3. LevelsOK(FillBest(s, book[t][s], traded))
    BY <2>1, FillBestOK
  <2>4. /\ book' = [u \in INSTRUMENTS |-> [side \in Sides |-> book'[u][side]]]
        /\ \A u \in INSTRUMENTS : \A side \in Sides : LevelsOK(book'[u][side])
    <3> DEFINE filled == FillBest(s, book[t][s], traded)
    <3>1. t \in INSTRUMENTS /\ s \in Sides
      BY <2>1
    <3>2. book' = [book EXCEPT ![t][s] = filled] /\ LevelsOK(filled)
      BY <2>2, <2>3
    <3>3. /\ book = [u \in INSTRUMENTS |-> [side \in Sides |-> book[u][side]]]
          /\ \A u \in INSTRUMENTS : \A side \in Sides : LevelsOK(book[u][side])
      BY DEF TypeOK
    <3> HIDE DEF filled
    <3>4. book' = [u \in INSTRUMENTS |-> [side \in Sides |->
                     IF u = t /\ side = s THEN filled ELSE book[u][side]]]
      BY <3>1, <3>2, <3>3
    <3>5. \A u \in INSTRUMENTS : \A side \in Sides :
            book'[u][side] = IF u = t /\ side = s THEN filled ELSE book[u][side]
      BY <3>4
    <3>6. book' = [u \in INSTRUMENTS |-> [side \in Sides |-> book'[u][side]]]
      BY <3>4, <3>5
    <3>7. QED
      BY <3>2, <3>3, <3>5, <3>6
  <2>5. /\ orderIndex' = [u \in INSTRUMENTS |->
                            [i \in DOMAIN orderIndex'[u] |-> orderIndex'[u][i]]]
        /\ \A u \in INSTRUMENTS :
             /\ DOMAIN orderIndex'[u] \subseteq OrderIds
             /\ \A i \in DOMAIN orderIndex'[u] : orderIndex'[u][i] \in OrderLocation
    <3>1. t \in INSTRUMENTS
      BY <2>1
    <3>2. CASE Maker.volume = traded
      <4>1. orderIndex' = [orderIndex EXCEPT ![t] = WithoutKey(orderIndex[t], Maker.orderId)]
        BY <2>2, <3>2
      <4>2. QED
        BY <3>1, <4>1, ZenonT(40) DEF TypeOK, WithoutKey
    <3>3. CASE Maker.volume # traded
      BY <2>2, <3>3 DEF TypeOK
    <3>4. QED
      BY <3>2, <3>3
  <2>6. call' \in Call /\ call'.order.ticker \in INSTRUMENTS
    <3>1. \A c \in Call : \A n \in Int :
            [c EXCEPT !.remaining = n] \in Call /\ [c EXCEPT !.remaining = n].order = c.order
      BY DEF Call
    <3>2. call.remaining - traded \in Int
      BY <2>1 DEF Call
    <3>3. QED
      BY <2>1, <2>2, <3>1, <3>2, Zenon DEF t
  <2>7. executed' \in Seq(Nat) /\ Len(executed') = Len(executed)
    <3> DEFINE chosen == {Maker.arrival, call.arrival}
    <3>1. executed \in Seq(Nat) /\ traded \in Nat
      BY <2>1 DEF TypeOK
    <3>2. executed' = [a \in DOMAIN executed |->
                         IF a \in chosen THEN executed[a] + traded ELSE executed[a]]
      BY <2>2
    <3> HIDE DEF chosen
    <3>3. QED
      BY <3>1, <3>2, CountersOK
  <2>8. cancelledBy' = cancelledBy /\ log' = log /\ midPrice' = midPrice
    BY <2>2
  <2>9. QED
    BY <2>4, <2>5, <2>6, <2>7, <2>8 DEF TypeOK
<1>4. CASE FinishOrderAdd
  <2> DEFINE o == call.order
             t == call.order.ticker
             after == BookWithRemainder
  <2>1. /\ call \in Call /\ o \in OrderAdd /\ t \in INSTRUMENTS
        /\ after = [s \in Sides |-> after[s]]
        /\ \A s \in Sides : LevelsOK(after[s])
    BY <1>4, BookWithRemainderOK DEF FinishOrderAdd
  <2> DEFINE mid == UpdateMidPrice(after["Buy"], after["Sell"], midPrice[t])
             location == [side |-> o.side, price |-> o.price, userId |-> o.userId]
  <2>2. /\ book' = [book EXCEPT ![t] = after]
        /\ orderIndex' = IF call.remaining > 0
                         THEN [orderIndex EXCEPT ![t] =
                                 WithKey(orderIndex[t], o.orderId, location)]
                         ELSE orderIndex
        /\ midPrice' = [midPrice EXCEPT ![t] = mid]
        /\ call' = None
        /\ UNCHANGED <<log, executed, cancelledBy>>
    BY <1>4 DEF FinishOrderAdd
  <2>3. location \in OrderLocation /\ o.orderId \in OrderIds
    BY <2>1, RouterAssumption DEF OrderAdd, OrderLocation
  <2>4. mid \in Price \cup {None}
    BY <2>1, UpdateMidPriceOK DEF Sides, TypeOK
  <2> HIDE DEF o, t, after, mid, location
  <2>5. /\ book' = [u \in INSTRUMENTS |-> [s \in Sides |-> book'[u][s]]]
        /\ \A u \in INSTRUMENTS : \A s \in Sides : LevelsOK(book'[u][s])
    BY <2>1, <2>2, Zenon DEF TypeOK
  <2>6. /\ orderIndex' = [u \in INSTRUMENTS |->
                            [i \in DOMAIN orderIndex'[u] |-> orderIndex'[u][i]]]
        /\ \A u \in INSTRUMENTS :
             /\ DOMAIN orderIndex'[u] \subseteq OrderIds
             /\ \A i \in DOMAIN orderIndex'[u] : orderIndex'[u][i] \in OrderLocation
    <3>1. t \in INSTRUMENTS
      BY <2>1
    <3>2. CASE call.remaining > 0
      <4>1. orderIndex' = [orderIndex EXCEPT ![t] = WithKey(orderIndex[t], o.orderId, location)]
        BY <2>2, <3>2
      <4>2. QED
        BY <2>3, <3>1, <4>1, ZenonT(40) DEF TypeOK, WithKey
    <3>3. CASE ~(call.remaining > 0)
      BY <2>2, <3>3, ZenonT(30) DEF TypeOK
    <3>4. QED
      BY <3>2, <3>3
  <2>7. midPrice' \in [INSTRUMENTS -> Price \cup {None}]
    BY <2>1, <2>2, <2>4 DEF TypeOK
  <2>8. call' = None /\ cancelledBy' = cancelledBy /\ log' = log /\ executed' = executed
    BY <2>2
  <2>9. QED
    BY <2>5, <2>6, <2>7, <2>8 DEF TypeOK
<1>5. ASSUME NEW c \in OrderCancel, OnOrderCancel(c) PROVE TypeOK'
  <2> DEFINE t == c.ticker
             at == orderIndex[t][c.orderId]
             erased == EraseFromBook(book[t][at.side], at.price, c.orderId)
             gone == Arrivals(book[t][at.side], at.price) \ Arrivals(erased, at.price)
             after == [book[t] EXCEPT ![at.side] = erased]
             mid == UpdateMidPrice(after["Buy"], after["Sell"], midPrice[t])
  <2>1. /\ t \in INSTRUMENTS /\ c.userId \in UserIds
        /\ at \in OrderLocation
    BY <1>5, Zenon DEF OnOrderCancel, Cancellable, OrderCancel, TypeOK
  <2>2. at.side \in Sides
    BY <2>1 DEF OrderLocation
  <2>3. /\ book' = [book EXCEPT ![t] = after]
        /\ orderIndex' = [orderIndex EXCEPT ![t] = WithoutKey(orderIndex[t], c.orderId)]
        /\ midPrice' = [midPrice EXCEPT ![t] = mid]
        /\ cancelledBy' = [a \in DOMAIN cancelledBy \cup gone |->
                             IF a \in gone THEN c.userId ELSE cancelledBy[a]]
        /\ UNCHANGED <<call, log, executed>>
    BY <1>5, ZenonT(30) DEF OnOrderCancel
  <2>4. LevelsOK(erased)
    BY <2>1, <2>2, EraseFromBookOK, Zenon DEF TypeOK
  <2> HIDE DEF t, at, erased, gone
  <2>5. /\ after = [s \in Sides |-> after[s]]
        /\ \A s \in Sides : LevelsOK(after[s])
    BY <2>1, <2>2, <2>4 DEF TypeOK
  <2>6. mid \in Price \cup {None}
    BY <2>1, <2>5, UpdateMidPriceOK DEF Sides, TypeOK
  <2> HIDE DEF after, mid
  <2>7. /\ book' = [u \in INSTRUMENTS |-> [s \in Sides |-> book'[u][s]]]
        /\ \A u \in INSTRUMENTS : \A s \in Sides : LevelsOK(book'[u][s])
    BY <2>1, <2>3, <2>5, Zenon DEF TypeOK
  <2>8. /\ orderIndex' = [u \in INSTRUMENTS |->
                            [i \in DOMAIN orderIndex'[u] |-> orderIndex'[u][i]]]
        /\ \A u \in INSTRUMENTS :
             /\ DOMAIN orderIndex'[u] \subseteq OrderIds
             /\ \A i \in DOMAIN orderIndex'[u] : orderIndex'[u][i] \in OrderLocation
    BY <2>1, <2>3, ZenonT(40) DEF TypeOK, WithoutKey
  <2>9. midPrice' \in [INSTRUMENTS -> Price \cup {None}]
    BY <2>1, <2>3, <2>6 DEF TypeOK
  <2>10. /\ cancelledBy' = [a \in DOMAIN cancelledBy' |-> cancelledBy'[a]]
         /\ \A a \in DOMAIN cancelledBy' : cancelledBy'[a] \in UserIds
    BY <2>1, <2>3 DEF TypeOK
  <2>11. QED
    BY <2>3, <2>7, <2>8, <2>9, <2>10, Zenon DEF TypeOK
<1>6. ASSUME NEW c \in OrderCancel, RejectCancel(c) PROVE TypeOK'
  BY <1>6 DEF RejectCancel, vars, TypeOK
<1>7. CASE UNCHANGED vars
  BY <1>7 DEF vars, TypeOK
<1>8. QED
  BY <1>1, <1>2, <1>3, <1>4, <1>5, <1>6, <1>7 DEF Next

\* The type invariant: every operation of the router keeps its maps, levels,
\* index entries and mid prices well formed, and erases the levels it empties.
THEOREM TypeCorrect == Spec => []TypeOK
BY TypeInit, TypeStep, PTL DEF Spec

-----------------------------------------------------------------------------
(* The book is never crossed. *)

\* A step that creates no level does not cross the book.
LEMMA ShrinkingKeepsUncrossed ==
  ASSUME NeverCrossed,
         \A t \in INSTRUMENTS : \A s \in Sides :
           DOMAIN book'[t][s] \subseteq DOMAIN book[t][s]
  PROVE  NeverCrossed'
BY DEF NeverCrossed, Sides

\* A price that priceCrosses refuses at the best opposing level crosses none.
LEMMA NoCrossingRemainder ==
  ASSUME NEW side \in Sides, NEW price \in Price, NEW levels,
         DOMAIN levels \subseteq Price,
         DOMAIN levels # {} =>
           ~PriceCrosses(side, price, BestPrice(Opposite(side), levels))
  PROVE  \A q \in DOMAIN levels : IF side = "Buy" THEN price < q ELSE q < price
<1> SUFFICES ASSUME NEW q \in DOMAIN levels
             PROVE  IF side = "Buy" THEN price < q ELSE q < price
  OBVIOUS
<1> DEFINE best == BestPrice(Opposite(side), levels)
<1>1. Opposite(side) \in Sides
  BY DEF Opposite, Sides
<1>2. best \in Price /\ NoWorse(Opposite(side), best, q)
  BY <1>1, BestPriceIsBest
<1>3. ~PriceCrosses(side, price, best)
  OBVIOUS
<1> HIDE DEF best
<1>4. q \in Int /\ best \in Int /\ price \in Int
  BY <1>2, HalfAssumption DEF Price
<1>5. QED
  BY <1>2, <1>3, <1>4 DEF NoWorse, PriceCrosses, Opposite, Sides

\* What can trade trades before anything rests, so no bid ever reaches an ask:
\* the guard of Match's loop, the comparators of the two maps and the early
\* exits leave no crossing order to Rest.
THEOREM BookNeverCrossed == Spec => []NeverCrossed
<1>1. Init => NeverCrossed
  BY DEF Init, NeverCrossed, EmptyMap, Sides
<1>2. TypeOK /\ NeverCrossed /\ [Next]_vars => NeverCrossed'
  <2> SUFFICES ASSUME TypeOK, NeverCrossed, [Next]_vars
               PROVE  NeverCrossed'
    OBVIOUS
  <2>1. CASE UNCHANGED book
    BY <2>1 DEF NeverCrossed
  <2>2. CASE Match
    <3> DEFINE t == call.order.ticker
               s == Opposite(call.order.side)
               filled == FillBest(s, book[t][s], Traded(call.remaining, Maker))
    <3>1. t \in INSTRUMENTS /\ s \in Sides /\ DOMAIN filled \subseteq DOMAIN book[t][s]
      BY <2>2, MatchFacts, FillBestOK, Zenon DEF Match
    <3>2. book' = [book EXCEPT ![t][s] = filled]
      BY <2>2 DEF Match
    <3>3. book = [u \in INSTRUMENTS |-> [side \in Sides |-> book[u][side]]]
      BY DEF TypeOK
    <3> HIDE DEF t, s, filled
    <3>4. \A u \in INSTRUMENTS : \A side \in Sides :
            book'[u][side] = IF u = t /\ side = s THEN filled ELSE book[u][side]
      BY <3>1, <3>2, <3>3
    <3>5. QED
      BY <3>1, <3>4, ShrinkingKeepsUncrossed
  <2>3. CASE FinishOrderAdd
    <3> DEFINE o == call.order
               after == BookWithRemainder
    <3>1. /\ o \in OrderAdd /\ o.ticker \in INSTRUMENTS
          /\ \A s \in Sides : DOMAIN after[s] =
               IF call.remaining > 0 /\ s = o.side
               THEN DOMAIN book[o.ticker][s] \cup {o.price}
               ELSE DOMAIN book[o.ticker][s]
      BY <2>3, BookWithRemainderOK DEF FinishOrderAdd
    <3>2. o.side \in Sides /\ Opposite(o.side) \in Sides /\ o.price \in Price
      BY <3>1, RouterAssumption DEF OrderAdd, Opposite, Sides
    <3>3. call.remaining > 0 =>
            \A q \in DOMAIN book[o.ticker][Opposite(o.side)] :
              IF o.side = "Buy" THEN o.price < q ELSE q < o.price
      <4> SUFFICES ASSUME call.remaining > 0
                   PROVE  \A q \in DOMAIN book[o.ticker][Opposite(o.side)] :
                            IF o.side = "Buy" THEN o.price < q ELSE q < o.price
        OBVIOUS
      <4> DEFINE levels == book[o.ticker][Opposite(o.side)]
      <4>1. DOMAIN levels # {} =>
              ~PriceCrosses(o.side, o.price, BestPrice(Opposite(o.side), levels))
        BY <2>3 DEF FinishOrderAdd, Matches, VolumeLeft, Opposing
      <4>2. DOMAIN levels \subseteq Price
        BY <3>1, <3>2, Zenon DEF TypeOK, LevelsOK
      <4> HIDE DEF levels, o
      <4>3. \A q \in DOMAIN levels : IF o.side = "Buy" THEN o.price < q ELSE q < o.price
        BY <3>2, <4>1, <4>2, NoCrossingRemainder
      <4>4. QED
        BY <4>3 DEF levels
    <3>4. book' = [book EXCEPT ![o.ticker] = after]
      BY <2>3 DEF FinishOrderAdd
    <3>5. book = [u \in INSTRUMENTS |-> [side \in Sides |-> book[u][side]]]
      BY DEF TypeOK
    <3> HIDE DEF o, after
    <3>6. SUFFICES ASSUME NEW u \in INSTRUMENTS,
                          NEW bid \in DOMAIN book'[u]["Buy"],
                          NEW ask \in DOMAIN book'[u]["Sell"]
                   PROVE  bid < ask
      BY DEF NeverCrossed
    <3>7. CASE u # o.ticker
      BY <3>4, <3>5, <3>6, <3>7 DEF NeverCrossed
    <3>8. CASE u = o.ticker
      <4>1. bid \in DOMAIN after["Buy"] /\ ask \in DOMAIN after["Sell"]
        BY <3>1, <3>4, <3>5, <3>6, <3>8
      <4>2. \/ bid \in DOMAIN book[u]["Buy"]
            \/ call.remaining > 0 /\ o.side = "Buy" /\ bid = o.price
        BY <3>1, <3>8, <4>1 DEF Sides
      <4>3. \/ ask \in DOMAIN book[u]["Sell"]
            \/ call.remaining > 0 /\ o.side = "Sell" /\ ask = o.price
        BY <3>1, <3>8, <4>1 DEF Sides
      <4>4. QED
        BY <3>3, <3>8, <4>2, <4>3 DEF NeverCrossed, Opposite
    <3>9. QED
      BY <3>7, <3>8
  <2>4. ASSUME NEW c \in OrderCancel, OnOrderCancel(c) PROVE NeverCrossed'
    <3> DEFINE t == c.ticker
               at == orderIndex[t][c.orderId]
               erased == EraseFromBook(book[t][at.side], at.price, c.orderId)
    <3>1. t \in INSTRUMENTS /\ at.side \in Sides
      BY <2>4, ZenonT(30) DEF OnOrderCancel, Cancellable, TypeOK, OrderLocation
    <3>2. DOMAIN erased \subseteq DOMAIN book[t][at.side]
      BY <3>1, EraseFromBookOK, ZenonT(30) DEF TypeOK
    <3>3. book' = [book EXCEPT ![t] = [book[t] EXCEPT ![at.side] = erased]]
      BY <2>4, Zenon DEF OnOrderCancel
    <3>4. book = [u \in INSTRUMENTS |-> [side \in Sides |-> book[u][side]]]
      BY DEF TypeOK
    <3> HIDE DEF t, at, erased
    <3>5. \A u \in INSTRUMENTS : \A side \in Sides :
            book'[u][side] = IF u = t /\ side = at.side THEN erased ELSE book[u][side]
      BY <3>1, <3>3, <3>4
    <3>6. QED
      BY <3>1, <3>2, <3>5, ShrinkingKeepsUncrossed
  <2>5. QED
    BY <2>1, <2>2, <2>3, <2>4
       DEF Next, OnOrderAdd, DropOrderAdd, Receive, RejectCancel, vars
<1>3. QED
  BY <1>1, <1>2, TypeCorrect, PTL DEF Spec

-----------------------------------------------------------------------------
(* The published mid price. *)

\* FinishOrderAdd and OnOrderCancel end with UpdateMidPrice of the one book
\* they changed.
MidUpdated(t, after) ==
  /\ t \in INSTRUMENTS
  /\ \A s \in Sides : LevelsOK(after[s])
  /\ \A s \in Sides : book'[t][s] = after[s]
  /\ \A u \in INSTRUMENTS \ {t} : book'[u] = book[u]
  /\ midPrice'[t] = UpdateMidPrice(after["Buy"], after["Sell"], midPrice[t])
  /\ \A u \in INSTRUMENTS \ {t} : midPrice'[u] = midPrice[u]

\* The end of a call updates the mid price of its book.
LEMMA FinishUpdatesMid ==
  ASSUME TypeOK, FinishOrderAdd
  PROVE  /\ MidUpdated(call.order.ticker, BookWithRemainder)
         /\ \A s \in Sides : DOMAIN BookWithRemainder[s] \subseteq
              DOMAIN book[call.order.ticker][s] \cup Prices
<1> DEFINE t == call.order.ticker
           after == BookWithRemainder
<1>1. /\ call.order \in OrderAdd /\ t \in INSTRUMENTS
      /\ \A s \in Sides : LevelsOK(after[s])
      /\ \A s \in Sides : DOMAIN after[s] =
           IF call.remaining > 0 /\ s = call.order.side
           THEN DOMAIN book[t][s] \cup {call.order.price} ELSE DOMAIN book[t][s]
  BY BookWithRemainderOK DEF FinishOrderAdd
<1>2. \A s \in Sides : DOMAIN after[s] \subseteq DOMAIN book[t][s] \cup Prices
  BY <1>1, ZenonT(30) DEF OrderAdd
<1>3. /\ book' = [book EXCEPT ![t] = after]
      /\ midPrice' = [midPrice EXCEPT ![t] =
                        UpdateMidPrice(after["Buy"], after["Sell"], midPrice[t])]
  BY DEF FinishOrderAdd
<1>4. DOMAIN book = INSTRUMENTS /\ DOMAIN midPrice = INSTRUMENTS
  BY DEF TypeOK
<1> HIDE DEF t, after
<1>5. MidUpdated(t, after)
  BY <1>1, <1>3, <1>4 DEF MidUpdated
<1>6. QED
  BY <1>2, <1>5 DEF t, after

\* So does a cancel.
LEMMA CancelUpdatesMid ==
  ASSUME TypeOK, NEW c \in OrderCancel, OnOrderCancel(c)
  PROVE  \E after : /\ MidUpdated(c.ticker, after)
                    /\ \A s \in Sides : DOMAIN after[s] \subseteq DOMAIN book[c.ticker][s]
<1> DEFINE t == c.ticker
           at == orderIndex[t][c.orderId]
           erased == EraseFromBook(book[t][at.side], at.price, c.orderId)
           after == [book[t] EXCEPT ![at.side] = erased]
<1>1. t \in INSTRUMENTS /\ at.side \in Sides
  BY Zenon DEF OnOrderCancel, Cancellable, TypeOK, OrderLocation
<1>2. LevelsOK(erased) /\ DOMAIN erased \subseteq DOMAIN book[t][at.side]
  BY <1>1, EraseFromBookOK, ZenonT(30) DEF TypeOK
<1>3. /\ book' = [book EXCEPT ![t] = after]
      /\ midPrice' = [midPrice EXCEPT ![t] =
                        UpdateMidPrice(after["Buy"], after["Sell"], midPrice[t])]
  BY Zenon DEF OnOrderCancel
<1>4. /\ DOMAIN book = INSTRUMENTS /\ DOMAIN midPrice = INSTRUMENTS
      /\ book[t] = [s \in Sides |-> book[t][s]]
      /\ \A s \in Sides : LevelsOK(book[t][s])
  BY <1>1 DEF TypeOK
<1> HIDE DEF t, at, erased
<1>5. \A s \in Sides : after[s] = IF s = at.side THEN erased ELSE book[t][s]
  BY <1>1, <1>4
<1> HIDE DEF after
<1>6. /\ \A s \in Sides : LevelsOK(after[s])
      /\ \A s \in Sides : DOMAIN after[s] \subseteq DOMAIN book[t][s]
  BY <1>2, <1>4, <1>5
<1>7. MidUpdated(t, after)
  BY <1>1, <1>3, <1>4, <1>6 DEF MidUpdated
<1>8. QED
  BY <1>6, <1>7 DEF t

\* The sum of two submitted prices fits the 64 bits of a price.
SumsFit == \A p, q \in Prices : p + q \in Price

\* The inductive invariant: only submitted prices have a level, and the mid
\* price of every book that is not being matched lies in its spread.
MidInvariant ==
  /\ \A u \in INSTRUMENTS : \A s \in Sides : DOMAIN book[u][s] \subseteq Prices
  /\ \A u \in INSTRUMENTS :
       call = None \/ u # call.order.ticker =>
         InSpread(book[u]["Buy"], book[u]["Sell"], midPrice[u])

\* A step that ends with UpdateMidPrice leaves every mid price in its spread.
LEMMA MidUpdatedKeepsInvariant ==
  ASSUME SumsFit, TypeOK, MidInvariant, NeverCrossed', call' = None,
         NEW t, NEW after, MidUpdated(t, after),
         call = None \/ t = call.order.ticker,
         \A s \in Sides : DOMAIN after[s] \subseteq DOMAIN book[t][s] \cup Prices
  PROVE  MidInvariant'
<1>1. \A s \in Sides : DOMAIN after[s] \subseteq Prices
  BY DEF MidInvariant, MidUpdated
<1>2. \A u \in INSTRUMENTS : \A s \in Sides : DOMAIN book'[u][s] \subseteq Prices
  BY <1>1 DEF MidInvariant, MidUpdated
<1>3. ASSUME NEW u \in INSTRUMENTS
      PROVE  InSpread(book'[u]["Buy"], book'[u]["Sell"], midPrice'[u])
  <2>1. CASE u # t
    BY <2>1 DEF MidInvariant, MidUpdated
  <2>2. CASE u = t
    <3> DEFINE bids == after["Buy"]
               asks == after["Sell"]
    <3>1. /\ book'[u]["Buy"] = bids /\ book'[u]["Sell"] = asks
          /\ LevelsOK(bids) /\ LevelsOK(asks)
          /\ midPrice'[u] = UpdateMidPrice(bids, asks, midPrice[t])
      BY <2>2 DEF MidUpdated, Sides
    <3>2. DOMAIN bids \subseteq Prices /\ DOMAIN asks \subseteq Prices
      BY <1>1 DEF Sides
    <3>3. \A b \in DOMAIN bids, a \in DOMAIN asks : b < a
      BY <3>1 DEF NeverCrossed
    <3> HIDE DEF bids, asks
    <3>4. \A b \in DOMAIN bids, a \in DOMAIN asks : b < a /\ b + a \in Price
      BY <3>2, <3>3 DEF SumsFit
    <3>5. QED
      BY <3>1, <3>4, UpdateMidPriceInSpread
  <2>3. QED
    BY <2>1, <2>2
<1>4. QED
  BY <1>2, <1>3 DEF MidInvariant

\* Between calls the mid price lies in the spread of its book, whatever the
\* orders, provided that the sum of two submitted prices does not overflow:
\* every call that changes a book ends with UpdateMidPrice, and the book it
\* reads is not crossed.
THEOREM MidStaysWithinSpread ==
  ASSUME SumsFit
  PROVE  Spec => []MidWithinSpread
<1>1. Init => MidInvariant
  BY DEF Init, MidInvariant, EmptyMap, InSpread, Sides
<1>2. TypeOK /\ MidInvariant /\ NeverCrossed' /\ [Next]_vars => MidInvariant'
  <2> SUFFICES ASSUME TypeOK, MidInvariant, NeverCrossed', [Next]_vars PROVE MidInvariant'
    OBVIOUS
  <2>1. ASSUME book' = book, midPrice' = midPrice, call = None \/ call' = call
        PROVE  MidInvariant'
    BY <2>1 DEF MidInvariant
  <2>2. CASE Match
    <3> DEFINE t == call.order.ticker
               s == Opposite(call.order.side)
               filled == FillBest(s, book[t][s], Traded(call.remaining, Maker))
    <3>1. t \in INSTRUMENTS /\ s \in Sides /\ DOMAIN filled \subseteq DOMAIN book[t][s]
      BY <2>2, MatchFacts, FillBestOK, Zenon DEF Match
    <3>2. /\ book' = [book EXCEPT ![t][s] = filled] /\ midPrice' = midPrice
          /\ call # None /\ call' = [call EXCEPT !.remaining = @ - Traded(call.remaining, Maker)]
      BY <2>2 DEF Match
    <3>3. book = [u \in INSTRUMENTS |-> [side \in Sides |-> book[u][side]]] /\ call \in Call
      BY <3>2 DEF TypeOK
    <3>4. call'.order.ticker = t
      BY <3>2, <3>3 DEF Call
    <3>5. call' # None
      <4>1. \A d \in Call : \A k \in Int : [d EXCEPT !.remaining = k] \in Call
        BY DEF Call
      <4>2. call.remaining - Traded(call.remaining, Maker) \in Int
        <5>1. Traded(call.remaining, Maker) \in Nat
          BY <2>2, MatchFacts DEF Match
        <5>2. call.remaining \in Int
          BY <3>3 DEF Call
        <5>3. QED
          BY <5>1, <5>2
      <4>3. call' \in Call
        BY <3>2, <3>3, <4>1, <4>2
      <4>4. QED
        BY <4>3, NoneIsNoCall
    <3> HIDE DEF t, s, filled
    <3>6. \A u \in INSTRUMENTS : \A side \in Sides :
            book'[u][side] = IF u = t /\ side = s THEN filled ELSE book[u][side]
      BY <3>1, <3>2, <3>3
    <3>7. \A u \in INSTRUMENTS : \A side \in Sides : DOMAIN book'[u][side] \subseteq Prices
      BY <3>1, <3>6 DEF MidInvariant
    <3>8. \A u \in INSTRUMENTS : u # t =>
            InSpread(book'[u]["Buy"], book'[u]["Sell"], midPrice'[u])
      BY <3>2, <3>6 DEF MidInvariant, Sides, t
    <3>9. QED
      BY <3>4, <3>5, <3>7, <3>8 DEF MidInvariant
  <2>3. CASE FinishOrderAdd
    <3>1. call' = None
      BY <2>3 DEF FinishOrderAdd
    <3>2. QED
      BY <2>3, <3>1, FinishUpdatesMid, MidUpdatedKeepsInvariant
  <2>4. ASSUME NEW c \in OrderCancel, OnOrderCancel(c) PROVE MidInvariant'
    <3>1. call = None /\ call' = None
      BY <2>4, Zenon DEF OnOrderCancel
    <3>2. PICK after : /\ MidUpdated(c.ticker, after)
                       /\ \A s \in Sides : DOMAIN after[s] \subseteq DOMAIN book[c.ticker][s]
      BY <2>4, CancelUpdatesMid
    <3>3. QED
      BY <3>1, <3>2, MidUpdatedKeepsInvariant
  <2>5. QED
    BY <2>1, <2>2, <2>3, <2>4
       DEF Next, OnOrderAdd, DropOrderAdd, Receive, RejectCancel, vars
<1>3. MidInvariant => MidWithinSpread
  BY NoneIsNoPrice DEF MidInvariant, MidWithinSpread, InSpread
<1>4. QED
  BY <1>1, <1>2, <1>3, TypeCorrect, BookNeverCrossed, PTL DEF Spec
=============================================================================
