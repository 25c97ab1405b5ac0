------------------------- MODULE RouterIndexProofs -------------------------
(***************************************************************************)
(* Theorems about MatchingEngineRouter for clients that do not reuse the id  *)
(* of an order resting on the same ticker: the order index, the cancels that *)
(* rely on it, and the refinement of LimitOrderBook.  Router_shared_id shows *)
(* what happens when they do.  For the refinement, the open orders are       *)
(* determined by the history alone, and that is how the steps of the two     *)
(* specifications are compared.                                             *)
(***************************************************************************)
EXTENDS RouterHistoryProofs

-----------------------------------------------------------------------------
(* The inductive invariant. *)

\* The orders of a queue have ids of their own, under which the index of their
\* engine finds them.
Indexed(index, side, p, level) ==
  /\ \A i, j \in 1..Len(level) : level[i].orderId = level[j].orderId => i = j
  /\ \A i \in 1..Len(level) :
       /\ level[i].orderId \in DOMAIN index
       /\ index[level[i].orderId] =
            [side |-> side, price |-> p, userId |-> level[i].userId]

\* Some order with this id rests on the ticker.
IdRests(u, id) ==
  \E side \in Sides, p \in Price :
    \E i \in 1..Len(Queue(u, side, p)) : Queue(u, side, p)[i].orderId = id

IndexInvariant ==
  /\ \A u \in INSTRUMENTS, side \in Sides, p \in Price :
       Indexed(orderIndex[u], side, p, Queue(u, side, p))
  /\ \A u \in INSTRUMENTS : \A id \in DOMAIN orderIndex[u] : IdRests(u, id)
  /\ \A u \in INSTRUMENTS, id \in OrderIds :
       call # None /\ u = call.order.ticker /\ id = call.order.orderId => ~IdRests(u, id)
  /\ \A a \in DOMAIN cancelledBy : cancelledBy[a] = log[a].userId

\* On one ticker no two orders share an id, wherever they rest.
LEMMA OneIdOnePlace ==
  ASSUME IndexInvariant, NEW u \in INSTRUMENTS,
         NEW side \in Sides, NEW p \in Price, NEW i \in 1..Len(Queue(u, side, p)),
         NEW vside \in Sides, NEW q \in Price, NEW j \in 1..Len(Queue(u, vside, q)),
         Queue(u, side, p)[i].orderId = Queue(u, vside, q)[j].orderId
  PROVE  side = vside /\ p = q /\ i = j
<1> DEFINE r == Queue(u, side, p)[i]
           w == Queue(u, vside, q)[j]
<1>1. /\ Indexed(orderIndex[u], side, p, Queue(u, side, p))
      /\ Indexed(orderIndex[u], vside, q, Queue(u, vside, q))
  BY DEF IndexInvariant
<1>2. /\ orderIndex[u][r.orderId] = [side |-> side, price |-> p, userId |-> r.userId]
      /\ orderIndex[u][w.orderId] = [side |-> vside, price |-> q, userId |-> w.userId]
      /\ r.orderId = w.orderId
  BY <1>1 DEF Indexed
<1>3. side = vside /\ p = q
  <2> HIDE DEF r, w
  <2>1. /\ orderIndex[u][r.orderId].side = side /\ orderIndex[u][r.orderId].price = p
        /\ orderIndex[u][w.orderId].side = vside /\ orderIndex[u][w.orderId].price = q
    BY <1>2
  <2>2. QED
    BY <1>2, <2>1
<1>4. QED
  BY <1>1, <1>3 DEF Indexed

\* LiveIds lists the ids of the queues.
LEMMA LiveIdsRest ==
  ASSUME TypeOK, NEW u \in INSTRUMENTS, NEW id
  PROVE  id \in LiveIds(u) <=> IdRests(u, id)
<1>1. ASSUME id \in LiveIds(u) PROVE IdRests(u, id)
  <2>0. PICK side \in Sides : \E p \in DOMAIN book[u][side] :
          \E k \in DOMAIN book[u][side][p] : book[u][side][p][k].orderId = id
    BY <1>1 DEF LiveIds
  <2>1. PICK p \in DOMAIN book[u][side] :
          \E k \in DOMAIN book[u][side][p] : book[u][side][p][k].orderId = id
    BY <2>0
  <2>2. p \in Price /\ book[u][side][p] = Queue(u, side, p)
    BY QueueType
  <2>3. DOMAIN Queue(u, side, p) = 1..Len(Queue(u, side, p))
    BY QueueType
  <2>4. QED
    BY <2>1, <2>2, <2>3 DEF IdRests
<1>2. ASSUME IdRests(u, id) PROVE id \in LiveIds(u)
  <2>1. PICK side \in Sides, p \in Price :
          \E i \in 1..Len(Queue(u, side, p)) : Queue(u, side, p)[i].orderId = id
    BY <1>2 DEF IdRests
  <2>2. PICK i \in 1..Len(Queue(u, side, p)) : Queue(u, side, p)[i].orderId = id
    BY <2>1
  <2>3. Queue(u, side, p) \in Seq(RestingOrder)
    BY QueueType
  <2>4. p \in DOMAIN book[u][side]
    BY <2>2, QueueType, EmptySeq
  <2>5. book[u][side][p] = Queue(u, side, p) /\ i \in DOMAIN book[u][side][p]
    BY <2>3, <2>4, QueueType
  <2>6. Queue(u, side, p)[i] \in RestingOrder
    BY <2>3
  <2>7. id \in OrderIds
    BY <2>2, <2>6 DEF RestingOrder
  <2>8. QED
    BY <2>2, <2>4, <2>5, <2>7 DEF LiveIds
<1>3. QED
  BY <1>1, <1>2

\* Changing the entry of an id that a queue does not hold.
LEMMA IndexedWithoutKey ==
  ASSUME NEW index, NEW side, NEW p, NEW level, Indexed(index, side, p, level),
         NEW id, \A i \in 1..Len(level) : level[i].orderId # id
  PROVE  Indexed(WithoutKey(index, id), side, p, level)
BY DEF Indexed, WithoutKey

\* Adding an entry under a new id keeps a queue indexed.
LEMMA IndexedWithKey ==
  ASSUME NEW index, NEW side, NEW p, NEW level, Indexed(index, side, p, level),
         NEW id, \A i \in 1..Len(level) : level[i].orderId # id, NEW entry
  PROVE  Indexed(WithKey(index, id, entry), side, p, level)
BY DEF Indexed, WithKey

-----------------------------------------------------------------------------
(* Every step keeps it. *)

\* An order is received: its id is not in use on its ticker.
LEMMA ReceiveKeepsIndex ==
  ASSUME ~ReuseLiveIds, TypeOK, History, IndexInvariant,
         NEW o \in OrderAdd, MaySubmit(o), Receive(o),
         \/ /\ o.ticker \in INSTRUMENTS
            /\ call' = [order |-> o, remaining |-> o.volume, arrival |-> Len(log) + 1]
         \/ call' = call
  PROVE  IndexInvariant'
<1>1. book' = book /\ orderIndex' = orderIndex /\ cancelledBy' = cancelledBy /\ call = None
  BY DEF Receive
<1>2. \A u, side, p : Queue(u, side, p)' = Queue(u, side, p)
  BY <1>1 DEF Queue, LevelAt
<1>3. \A u, id : IdRests(u, id)' <=> IdRests(u, id)
  BY <1>2 DEF IdRests
<1>4. /\ \A u \in INSTRUMENTS, side \in Sides, p \in Price :
           Indexed(orderIndex'[u], side, p, Queue(u, side, p)')
      /\ \A u \in INSTRUMENTS : \A id \in DOMAIN orderIndex'[u] : IdRests(u, id)'
  BY <1>1, <1>2, <1>3 DEF IndexInvariant
<1>5. ASSUME call' # None
      PROVE  \A u \in INSTRUMENTS, id \in OrderIds :
               u = call'.order.ticker /\ id = call'.order.orderId => ~IdRests(u, id)'
  <2>1. o.ticker \in INSTRUMENTS /\ call'.order = o
    BY <1>1, <1>5
  <2>2. o.orderId \notin LiveIds(o.ticker)
    BY <2>1 DEF MaySubmit
  <2>3. ~IdRests(o.ticker, o.orderId)
    BY <2>1, <2>2, LiveIdsRest
  <2>4. QED
    BY <1>3, <2>1, <2>3
<1>6. ASSUME NEW a \in DOMAIN cancelledBy' PROVE cancelledBy'[a] = log'[a].userId
  <2>1. a \in 1..Len(log) /\ cancelledBy[a] = log[a].userId
    BY <1>1 DEF History, AllAccounted, IndexInvariant
  <2>2. log'[a] = log[a]
    BY <2>1, AppendProperties DEF Receive, TypeOK
  <2>3. QED
    BY <1>1, <2>1, <2>2
<1>7. QED
  BY <1>4, <1>5, <1>6 DEF IndexInvariant

\* Match: a filled maker leaves its queue and the index together.
LEMMA MatchKeepsIndex ==
  ASSUME TypeOK, History, IndexInvariant, Match
  PROVE  IndexInvariant'
<1> DEFINE t == call.order.ticker
           id1 == Maker.orderId
           full == Maker.volume = Fill
           filled == FillFront(MakerQueue, Fill)
           AtMaker(u, side, p) == u = t /\ side = MakerSide /\ p = MakerPrice
<1>1. /\ t \in INSTRUMENTS /\ MakerSide \in Sides /\ MakerPrice \in Price
      /\ MakerQueue \in Seq(RestingOrder) /\ MakerQueue # <<>>
      /\ Maker = Head(MakerQueue) /\ Maker \in RestingOrder
      /\ Fill \in Nat \ {0} /\ Fill <= Maker.volume
      /\ MakerQueue = Queue(t, MakerSide, MakerPrice)
  BY MatchQueues DEF MakerQueue
<1>2. \A u \in INSTRUMENTS, side \in Sides, p \in Price :
        Queue(u, side, p)' = IF AtMaker(u, side, p) THEN filled ELSE Queue(u, side, p)
  BY MatchQueues
<1>3. /\ call # None /\ call' # None /\ call'.order = call.order
      /\ log' = log /\ cancelledBy' = cancelledBy
  BY MatchCounters
<1>4. /\ MakerQueue[1] = Maker /\ 1 \in 1..Len(MakerQueue) /\ Len(MakerQueue) \in Nat
      /\ full => /\ Len(filled) = Len(MakerQueue) - 1
                 /\ \A i \in 1..Len(filled) : filled[i] = MakerQueue[i + 1]
      /\ ~full => /\ Len(filled) = Len(MakerQueue)
                  /\ filled[1] = [Maker EXCEPT !.volume = Maker.volume - Fill]
                  /\ \A i \in 2..Len(MakerQueue) : filled[i] = MakerQueue[i]
  <2>1. /\ MakerQueue[1] = Head(MakerQueue) /\ 1 \in 1..Len(MakerQueue)
        /\ Head(MakerQueue).volume = Fill =>
             /\ Len(filled) = Len(MakerQueue) - 1
             /\ \A i \in 1..Len(filled) : filled[i] = MakerQueue[i + 1]
        /\ Head(MakerQueue).volume # Fill =>
             /\ Len(filled) = Len(MakerQueue)
             /\ filled[1] = [MakerQueue[1] EXCEPT !.volume = MakerQueue[1].volume - Fill]
             /\ \A i \in 2..Len(MakerQueue) : filled[i] = MakerQueue[i]
    BY <1>1, FillFrontOrders
  <2>2. QED
    BY <1>1, <2>1
<1>5. \A u \in INSTRUMENTS : orderIndex'[u] =
        IF full /\ u = t THEN WithoutKey(orderIndex[u], id1) ELSE orderIndex[u]
  <2>1. orderIndex' = IF full THEN [orderIndex EXCEPT ![t] = WithoutKey(orderIndex[t], id1)]
                      ELSE orderIndex
    BY DEF Match, Fill
  <2>2. DOMAIN orderIndex = INSTRUMENTS
    BY DEF TypeOK
  <2> HIDE DEF t, full, id1
  <2>3. QED
    BY <1>1, <2>1, <2>2
<1> HIDE DEF t, full, filled, id1
\* The orders of the maker's queue after the fill, as orders before it.
<1>6. PICK k \in {0, 1} :
        /\ k = IF full THEN 1 ELSE 0
        /\ Len(filled) = Len(MakerQueue) - k
        /\ \A i \in 1..Len(filled) :
             /\ i + k \in 1..Len(MakerQueue)
             /\ filled[i].orderId = MakerQueue[i + k].orderId
             /\ filled[i].userId = MakerQueue[i + k].userId
  <2>1. CASE full
    <3>1. /\ Len(filled) = Len(MakerQueue) - 1
          /\ \A i \in 1..Len(filled) : filled[i] = MakerQueue[i + 1]
      BY <1>4, <2>1
    <3>2. \A i \in 1..Len(filled) : i + 1 \in 1..Len(MakerQueue)
      BY <1>4, <3>1
    <3>3. QED
      BY <2>1, <3>1, <3>2
  <2>2. CASE ~full
    <3> DEFINE front == [Maker EXCEPT !.volume = Maker.volume - Fill]
    <3>1. /\ Len(filled) = Len(MakerQueue) /\ filled[1] = front
          /\ \A i \in 2..Len(MakerQueue) : filled[i] = MakerQueue[i]
      BY <1>4, <2>2
    <3>2. front.orderId = Maker.orderId /\ front.userId = Maker.userId
      BY <1>1 DEF RestingOrder
    <3> HIDE DEF front
    <3>3. \A i \in 1..Len(filled) : i = 1 \/ i \in 2..Len(MakerQueue)
      BY <1>4, <3>1
    <3>4. \A i \in 1..Len(filled) :
            filled[i].orderId = MakerQueue[i].orderId /\ filled[i].userId = MakerQueue[i].userId
      BY <1>4, <3>1, <3>2, <3>3
    <3>5. Len(filled) = Len(MakerQueue) - 0 /\ \A i \in 1..Len(filled) : i + 0 = i
      BY <1>4, <3>1
    <3>6. QED
      BY <2>2, <3>1, <3>4, <3>5
  <2>3. QED
    BY <2>1, <2>2
\* On the maker's ticker its id is used nowhere else.
<1>7. ASSUME NEW side \in Sides, NEW p \in Price, NEW i \in 1..Len(Queue(t, side, p)),
             Queue(t, side, p)[i].orderId = id1
      PROVE  side = MakerSide /\ p = MakerPrice /\ i = 1
  <2>1. Queue(t, MakerSide, MakerPrice)[1].orderId = id1 /\ 1 \in 1..Len(Queue(t, MakerSide, MakerPrice))
    BY <1>1, <1>4 DEF id1
  <2>2. QED
    BY <1>1, <1>7, <2>1, OneIdOnePlace
<1>8. ASSUME NEW u \in INSTRUMENTS, NEW side \in Sides, NEW p \in Price
      PROVE  Indexed(orderIndex'[u], side, p, Queue(u, side, p)')
  <2>1. Indexed(orderIndex[u], side, p, Queue(u, side, p))
    BY DEF IndexInvariant
  <2>2. CASE ~AtMaker(u, side, p)
    <3>1. Queue(u, side, p)' = Queue(u, side, p)
      BY <1>2, <2>2
    <3>2. CASE u # t
      BY <1>5, <2>1, <3>1, <3>2
    <3>3. CASE u = t
      <4>1. \A i \in 1..Len(Queue(u, side, p)) : Queue(u, side, p)[i].orderId # id1
        BY <1>7, <2>2, <3>3
      <4>2. Indexed(WithoutKey(orderIndex[u], id1), side, p, Queue(u, side, p))
        BY <2>1, <4>1, IndexedWithoutKey
      <4>3. QED
        BY <1>5, <2>1, <3>1, <4>2
    <3>4. QED
      BY <3>2, <3>3
  <2>3. CASE AtMaker(u, side, p)
    <3>1. Queue(u, side, p)' = filled /\ Queue(u, side, p) = MakerQueue /\ u = t
      BY <1>1, <1>2, <2>3
    <3>2. ASSUME NEW i \in 1..Len(filled), NEW j \in 1..Len(filled),
                 filled[i].orderId = filled[j].orderId
          PROVE  i = j
      <4>1. i + k = j + k
        BY <1>6, <2>1, <3>1, <3>2 DEF Indexed
      <4>2. QED
        BY <1>6, <4>1
    <3>3. ASSUME NEW i \in 1..Len(filled)
          PROVE  /\ filled[i].orderId \in DOMAIN orderIndex'[u]
                 /\ orderIndex'[u][filled[i].orderId] =
                      [side |-> side, price |-> p, userId |-> filled[i].userId]
      <4> DEFINE j == i + k
                 id == MakerQueue[j].orderId
      <4>1. j \in 1..Len(MakerQueue) /\ filled[i].orderId = id
            /\ filled[i].userId = MakerQueue[j].userId
        BY <1>6
      <4>2. /\ id \in DOMAIN orderIndex[u]
            /\ orderIndex[u][id] = [side |-> side, price |-> p, userId |-> MakerQueue[j].userId]
        BY <2>1, <3>1, <4>1 DEF Indexed
      <4>3. full => id # id1
        <5> SUFFICES ASSUME full, id = id1 PROVE FALSE
          OBVIOUS
        <5>1. j = 1
          BY <1>1, <1>7, <4>1
        <5>2. j = i + 1
          BY <1>6
        <5>3. QED
          BY <5>1, <5>2
      <4> HIDE DEF id
      <4>4. id \in DOMAIN orderIndex'[u] /\ orderIndex'[u][id] = orderIndex[u][id]
        BY <1>5, <4>2, <4>3, Zenon DEF WithoutKey
      <4>5. QED
        BY <4>1, <4>2, <4>4
    <3>4. Indexed(orderIndex'[u], side, p, filled)
      BY <3>2, <3>3 DEF Indexed
    <3>5. QED
      BY <3>1, <3>4
  <2>4. QED
    BY <2>2, <2>3
<1>9. ASSUME NEW u \in INSTRUMENTS, NEW id \in DOMAIN orderIndex'[u]
      PROVE  IdRests(u, id)'
  <2>1. id \in DOMAIN orderIndex[u] /\ (full /\ u = t => id # id1)
    BY <1>5, Zenon DEF WithoutKey
  <2>2. IdRests(u, id)
    BY <2>1 DEF IndexInvariant
  <2>3. PICK side \in Sides, p \in Price :
          \E i \in 1..Len(Queue(u, side, p)) : Queue(u, side, p)[i].orderId = id
    BY <2>2 DEF IdRests
  <2>4. CASE ~AtMaker(u, side, p)
    <3>1. Queue(u, side, p)' = Queue(u, side, p)
      BY <1>2, <2>4
    <3>2. QED
      BY <2>3, <3>1 DEF IdRests
  <2>5. CASE AtMaker(u, side, p)
    <3>1. Queue(u, side, p)' = filled /\ Queue(u, side, p) = MakerQueue /\ u = t
      BY <1>1, <1>2, <2>5
    <3>2. PICK i \in 1..Len(MakerQueue) : MakerQueue[i].orderId = id
      BY <2>3, <3>1
    <3>3. full => i # 1
      BY <1>4, <2>1, <3>1, <3>2 DEF id1
    <3>4. i - k \in 1..Len(filled) /\ (i - k) + k = i
      BY <1>4, <1>6, <3>3
    <3>5. filled[i - k].orderId = id
      BY <1>6, <3>2, <3>4
    <3>6. QED
      BY <3>1, <3>4, <3>5 DEF IdRests
  <2>6. QED
    BY <2>4, <2>5
<1>10. ASSUME NEW u \in INSTRUMENTS, NEW id, IdRests(u, id)' PROVE IdRests(u, id)
  <2>1. PICK side \in Sides, p \in Price :
          \E i \in 1..Len(Queue(u, side, p)') : Queue(u, side, p)'[i].orderId = id
    BY <1>10 DEF IdRests
  <2>2. CASE ~AtMaker(u, side, p)
    <3>1. Queue(u, side, p)' = Queue(u, side, p)
      BY <1>2, <2>2
    <3>2. QED
      BY <2>1, <3>1 DEF IdRests
  <2>3. CASE AtMaker(u, side, p)
    <3>1. Queue(u, side, p)' = filled /\ Queue(u, side, p) = MakerQueue
      BY <1>1, <1>2, <2>3
    <3>2. PICK i \in 1..Len(filled) : filled[i].orderId = id
      BY <2>1, <3>1
    <3>3. i + k \in 1..Len(MakerQueue) /\ MakerQueue[i + k].orderId = id
      BY <1>6, <3>2
    <3>4. QED
      BY <3>1, <3>3 DEF IdRests
  <2>4. QED
    BY <2>2, <2>3
<1>11. \A u \in INSTRUMENTS, id \in OrderIds :
         call' # None /\ u = call'.order.ticker /\ id = call'.order.orderId => ~IdRests(u, id)'
  BY <1>3, <1>10 DEF IndexInvariant
<1>12. \A a \in DOMAIN cancelledBy' : cancelledBy'[a] = log'[a].userId
  BY <1>3 DEF IndexInvariant
<1>13. QED
  BY <1>8, <1>9, <1>11, <1>12 DEF IndexInvariant

\* FinishOrderAdd: the remainder enters its queue and the index together,
\* under an id that nothing on its ticker has.
LEMMA FinishKeepsIndex ==
  ASSUME TypeOK, IndexInvariant, FinishOrderAdd
  PROVE  IndexInvariant'
<1> DEFINE o == call.order
           rests == call.remaining > 0
           entry == [side |-> o.side, price |-> o.price, userId |-> o.userId]
           Here(u, side, p) == rests /\ u = o.ticker /\ side = o.side /\ p = o.price
<1>1. /\ o \in OrderAdd /\ o.ticker \in INSTRUMENTS /\ o.side \in Sides /\ o.price \in Price
      /\ rests => Remainder \in RestingOrder
  BY FinishQueues
<1>2. \A u \in INSTRUMENTS, side \in Sides, p \in Price :
        Queue(u, side, p)' = IF Here(u, side, p) THEN Append(Queue(u, side, p), Remainder)
                             ELSE Queue(u, side, p)
  BY FinishQueues
<1>3. call # None /\ call' = None /\ log' = log /\ cancelledBy' = cancelledBy
  BY DEF FinishOrderAdd
<1>4. Remainder.orderId = o.orderId /\ Remainder.userId = o.userId
  BY DEF Remainder
<1>5. \A u \in INSTRUMENTS : orderIndex'[u] =
        IF rests /\ u = o.ticker THEN WithKey(orderIndex[u], o.orderId, entry) ELSE orderIndex[u]
  <2>1. orderIndex' = IF rests
                      THEN [orderIndex EXCEPT ![o.ticker] =
                              WithKey(orderIndex[o.ticker], o.orderId, entry)]
                      ELSE orderIndex
    BY DEF FinishOrderAdd
  <2>2. DOMAIN orderIndex = INSTRUMENTS
    BY DEF TypeOK
  <2> HIDE DEF o, rests, entry
  <2>3. QED
    BY <1>1, <2>1, <2>2
<1>6. ~IdRests(o.ticker, o.orderId)
  BY <1>1, <1>3 DEF IndexInvariant, OrderAdd
<1> HIDE DEF o, rests
<1>7. \A side \in Sides, p \in Price : \A i \in 1..Len(Queue(o.ticker, side, p)) :
        Queue(o.ticker, side, p)[i].orderId # o.orderId
  BY <1>6 DEF IdRests
<1>8. ASSUME NEW u \in INSTRUMENTS, NEW side \in Sides, NEW p \in Price
      PROVE  Indexed(orderIndex'[u], side, p, Queue(u, side, p)')
  <2> DEFINE level == Queue(u, side, p)
  <2>1. Indexed(orderIndex[u], side, p, level) /\ level \in Seq(RestingOrder)
    BY QueueType DEF IndexInvariant
  <2>2. Indexed(orderIndex'[u], side, p, level)
    <3>1. CASE rests /\ u = o.ticker
      <4>1. \A i \in 1..Len(level) : level[i].orderId # o.orderId
        BY <1>7, <3>1
      <4> HIDE DEF level, entry
      <4>2. Indexed(WithKey(orderIndex[u], o.orderId, entry), side, p, level)
        BY <2>1, <4>1, IndexedWithKey
      <4>3. QED
        BY <1>5, <3>1, <4>2
    <3>2. CASE ~(rests /\ u = o.ticker)
      BY <1>5, <2>1, <3>2
    <3>3. QED
      BY <3>1, <3>2
  <2>3. CASE ~Here(u, side, p)
    BY <1>2, <2>2, <2>3
  <2>4. CASE Here(u, side, p)
    <3> DEFINE longer == Append(level, Remainder)
               n == Len(level)
               index == orderIndex'[u]
    <3>1. Remainder \in RestingOrder
      BY <1>1, <2>4
    <3>2. /\ Len(longer) = n + 1 /\ longer[n + 1] = Remainder /\ n \in Nat
          /\ \A i \in 1..n : longer[i] = level[i]
      BY <2>1, <3>1, AppendProperties
    <3>3. \A i \in 1..(n + 1) : i = n + 1 \/ i \in 1..n
      BY <3>2
    <3>4. \A i \in 1..n : level[i].orderId # o.orderId
      BY <1>7, <2>4
    <3>5. Queue(u, side, p)' = longer
      BY <1>2, <2>4
    <3>6. /\ o.orderId \in DOMAIN index
          /\ index[o.orderId] = [side |-> side, price |-> p, userId |-> o.userId]
      <4>1. index = WithKey(orderIndex[u], o.orderId, entry)
        BY <1>5, <2>4
      <4>2. entry = [side |-> side, price |-> p, userId |-> o.userId]
        BY <2>4
      <4> HIDE DEF entry, index
      <4>3. QED
        BY <4>1, <4>2 DEF WithKey
    <3>7. Indexed(index, side, p, level)
      BY <2>2
    <3> HIDE DEF longer, n, level, index
    <3>8. ASSUME NEW i \in 1..(n + 1), NEW j \in 1..(n + 1), longer[i].orderId = longer[j].orderId
          PROVE  i = j
      <4>1. CASE i \in 1..n /\ j \in 1..n
        BY <3>2, <3>7, <3>8, <4>1 DEF Indexed, n
      <4>2. CASE i = n + 1 /\ j \in 1..n
        BY <1>4, <3>2, <3>4, <3>8, <4>2
      <4>3. CASE i \in 1..n /\ j = n + 1
        BY <1>4, <3>2, <3>4, <3>8, <4>3
      <4>4. QED
        BY <3>3, <4>1, <4>2, <4>3
    <3>9. ASSUME NEW i \in 1..(n + 1)
          PROVE  /\ longer[i].orderId \in DOMAIN index
                 /\ index[longer[i].orderId] =
                      [side |-> side, price |-> p, userId |-> longer[i].userId]
      <4>1. CASE i = n + 1
        BY <1>4, <3>2, <3>6, <4>1
      <4>2. CASE i \in 1..n
        BY <3>2, <3>7, <4>2 DEF Indexed, n
      <4>3. QED
        BY <3>3, <4>1, <4>2
    <3>10. Indexed(index, side, p, longer)
      BY <3>2, <3>8, <3>9 DEF Indexed
    <3>11. QED
      BY <3>5, <3>10 DEF index
  <2>5. QED
    BY <2>3, <2>4
<1>9. ASSUME NEW u \in INSTRUMENTS, NEW id \in DOMAIN orderIndex'[u]
      PROVE  IdRests(u, id)'
  <2>1. CASE rests /\ u = o.ticker /\ id = o.orderId
    <3>1. PICK side \in Sides, p \in Price : Here(u, side, p)
      BY <1>1, <2>1
    <3> DEFINE level == Queue(u, side, p)
    <3>2. level \in Seq(RestingOrder) /\ Remainder \in RestingOrder
      BY <1>1, <2>1, QueueType
    <3>3. Queue(u, side, p)' = Append(level, Remainder)
      BY <1>2, <3>1
    <3> HIDE DEF level
    <3>4. /\ Len(level) + 1 \in 1..Len(Append(level, Remainder))
          /\ Append(level, Remainder)[Len(level) + 1] = Remainder
      BY <3>2, AppendProperties
    <3>5. QED
      BY <1>4, <2>1, <3>3, <3>4 DEF IdRests
  <2>2. CASE ~(rests /\ u = o.ticker /\ id = o.orderId)
    <3>1. id \in DOMAIN orderIndex[u]
      <4> HIDE DEF entry
      <4>1. CASE rests /\ u = o.ticker
        <5>1. id \in DOMAIN WithKey(orderIndex[u], o.orderId, entry)
          BY <1>5, <1>9, <4>1
        <5>2. DOMAIN WithKey(orderIndex[u], o.orderId, entry) = DOMAIN orderIndex[u] \cup {o.orderId}
          BY DEF WithKey
        <5>3. QED
          BY <2>2, <4>1, <5>1, <5>2
      <4>2. CASE ~(rests /\ u = o.ticker)
        BY <1>5, <1>9, <4>2
      <4>3. QED
        BY <4>1, <4>2
    <3>2. IdRests(u, id)
      BY <3>1 DEF IndexInvariant
    <3>3. PICK side \in Sides, p \in Price :
            \E i \in 1..Len(Queue(u, side, p)) : Queue(u, side, p)[i].orderId = id
      BY <3>2 DEF IdRests
    <3> DEFINE level == Queue(u, side, p)
    <3>4. PICK i \in 1..Len(level) : level[i].orderId = id
      BY <3>3
    <3>5. CASE Here(u, side, p)
      <4>1. Queue(u, side, p)' = Append(level, Remainder)
        BY <1>2, <3>5
      <4>2. level \in Seq(RestingOrder) /\ Remainder \in RestingOrder
        BY <1>1, <3>5, QueueType
      <4> HIDE DEF level
      <4>3. i \in 1..Len(Append(level, Remainder)) /\ Append(level, Remainder)[i] = level[i]
        BY <4>2, AppendProperties
      <4>4. QED
        BY <3>4, <4>1, <4>3 DEF IdRests
    <3>6. CASE ~Here(u, side, p)
      <4>1. Queue(u, side, p)' = level
        BY <1>2, <3>6
      <4>2. QED
        BY <3>4, <4>1 DEF IdRests
    <3>7. QED
      BY <3>5, <3>6
  <2>3. QED
    BY <2>1, <2>2
<1>10. \A a \in DOMAIN cancelledBy' : cancelledBy'[a] = log'[a].userId
  BY <1>3 DEF IndexInvariant
<1>11. QED
  BY <1>3, <1>8, <1>9, <1>10 DEF IndexInvariant

\* OnOrderCancel: the order found under the id is the only one with it, it
\* belongs to the sender, and it leaves its queue and the index together.
LEMMA CancelKeepsIndex ==
  ASSUME TypeOK, History, IndexInvariant, NEW c \in OrderCancel, OnOrderCancel(c)
  PROVE  IndexInvariant'
<1>1. PICK at : at = orderIndex[c.ticker][c.orderId]
  OBVIOUS
<1>2. PICK level : level = Queue(c.ticker, at.side, at.price)
  OBVIOUS
<1>3. PICK kept : kept = EraseId(level, c.orderId)
  OBVIOUS
<1> DEFINE At(u, side, p) == u = c.ticker /\ side = at.side /\ p = at.price
<1>4. /\ c.ticker \in INSTRUMENTS /\ at.side \in Sides /\ at.price \in Price
      /\ at.userId = c.userId
  BY <1>1, CancelQueues
<1>5. \A u \in INSTRUMENTS, side \in Sides, p \in Price :
        Queue(u, side, p)' = IF At(u, side, p) THEN kept ELSE Queue(u, side, p)
  <2>1. \A u \in INSTRUMENTS, side \in Sides, p \in Price :
          Queue(u, side, p)' = IF u = c.ticker /\ side = at.side /\ p = at.price
                               THEN EraseId(Queue(u, side, p), c.orderId)
                               ELSE Queue(u, side, p)
    BY <1>1, CancelQueues, SMTT(20)
  <2>2. QED
    BY <1>2, <1>3, <2>1, Zenon
<1>6. level = CancelQueue(c)
  BY <1>1, <1>2 DEF CancelQueue
<1>7. /\ level \in Seq(RestingOrder) /\ kept \in Seq(RestingOrder)
      /\ DOMAIN cancelledBy' = DOMAIN cancelledBy \cup Erased(c)
      /\ \A a \in DOMAIN cancelledBy' :
           cancelledBy'[a] = IF a \in Erased(c) THEN c.userId ELSE cancelledBy[a]
  BY <1>3, <1>6, CancelRecords, Zenon
<1>8. Erased(c) = ArrivalsOf(level) \ ArrivalsOf(kept)
  BY <1>3, <1>6 DEF Erased
<1>9. PICK g : Shows(g, kept, level, Len(level), c.orderId)
  BY <1>3, <1>7, EraseIdOrders
<1>10. \A i \in 1..Len(kept) :
         g[i] \in 1..Len(level) /\ kept[i] = level[g[i]] /\ kept[i].orderId # c.orderId
  BY <1>9 DEF Shows
<1>11. \A u \in INSTRUMENTS : orderIndex'[u] =
         IF u = c.ticker THEN WithoutKey(orderIndex[u], c.orderId) ELSE orderIndex[u]
  <2>1. orderIndex' = [orderIndex EXCEPT ![c.ticker] =
                         WithoutKey(orderIndex[c.ticker], c.orderId)]
    BY ZenonT(30) DEF OnOrderCancel
  <2>2. DOMAIN orderIndex = INSTRUMENTS
    BY DEF TypeOK
  <2>3. QED
    BY <1>4, <2>1, <2>2
<1>12. call' = None /\ log' = log
  BY ZenonT(30) DEF OnOrderCancel
<1>13. Indexed(orderIndex[c.ticker], at.side, at.price, level)
  BY <1>2, <1>4 DEF IndexInvariant
\* The index entry leads to every order with the id.
<1>14. ASSUME NEW side \in Sides, NEW p \in Price, NEW i \in 1..Len(Queue(c.ticker, side, p)),
              Queue(c.ticker, side, p)[i].orderId = c.orderId
       PROVE  side = at.side /\ p = at.price /\ at.userId = Queue(c.ticker, side, p)[i].userId
  <2> DEFINE r == Queue(c.ticker, side, p)[i]
  <2>1. Indexed(orderIndex[c.ticker], side, p, Queue(c.ticker, side, p))
    BY <1>4 DEF IndexInvariant
  <2>2. at = [side |-> side, price |-> p, userId |-> r.userId]
    BY <1>1, <1>14, <2>1 DEF Indexed
  <2> HIDE DEF r
  <2>3. at.side = side /\ at.price = p /\ at.userId = r.userId
    BY <2>2
  <2>4. QED
    BY <2>3 DEF r
<1>15. ASSUME NEW u \in INSTRUMENTS, NEW side \in Sides, NEW p \in Price
       PROVE  Indexed(orderIndex'[u], side, p, Queue(u, side, p)')
  <2>1. Indexed(orderIndex[u], side, p, Queue(u, side, p))
    BY DEF IndexInvariant
  <2>2. CASE u # c.ticker
    BY <1>5, <1>11, <2>1, <2>2
  <2>3. CASE u = c.ticker /\ ~At(u, side, p)
    <3>1. \A i \in 1..Len(Queue(u, side, p)) : Queue(u, side, p)[i].orderId # c.orderId
      BY <1>14, <2>3
    <3>2. Indexed(WithoutKey(orderIndex[u], c.orderId), side, p, Queue(u, side, p))
      BY <2>1, <3>1, IndexedWithoutKey
    <3>3. QED
      BY <1>5, <1>11, <2>3, <3>2
  <2>4. CASE At(u, side, p)
    <3>1. Queue(u, side, p)' = kept /\ orderIndex'[u] = WithoutKey(orderIndex[u], c.orderId)
      BY <1>5, <1>11, <2>4
    <3>2. Indexed(orderIndex[u], side, p, level)
      BY <1>2, <2>1, <2>4
    <3>3. ASSUME NEW i \in 1..Len(kept), NEW j \in 1..Len(kept),
                 kept[i].orderId = kept[j].orderId
          PROVE  i = j
      <4>1. g[i] = g[j]
        <5>1. /\ g[i] \in 1..Len(level) /\ g[j] \in 1..Len(level)
              /\ level[g[i]].orderId = level[g[j]].orderId
          BY <1>10, <3>3
        <5>2. QED
          BY <3>2, <5>1, Zenon DEF Indexed
      <4>2. g[i] \in Nat
        BY <1>10
      <4>3. ~(i < j) /\ ~(j < i)
        BY <1>9, <4>1, <4>2 DEF Shows
      <4>4. i \in Nat /\ j \in Nat
        BY <1>7
      <4>5. QED
        BY <4>3, <4>4
    <3>4. \A i \in 1..Len(kept) :
            /\ kept[i].orderId \in DOMAIN orderIndex[u]
            /\ orderIndex[u][kept[i].orderId] =
                 [side |-> side, price |-> p, userId |-> kept[i].userId]
      BY <1>10, <3>2 DEF Indexed
    <3>5. Indexed(orderIndex[u], side, p, kept)
      BY <3>3, <3>4 DEF Indexed
    <3>6. Indexed(WithoutKey(orderIndex[u], c.orderId), side, p, kept)
      BY <1>10, <3>5, IndexedWithoutKey
    <3>7. QED
      BY <3>1, <3>6
  <2>5. QED
    BY <2>2, <2>3, <2>4
<1>16. ASSUME NEW u \in INSTRUMENTS, NEW id \in DOMAIN orderIndex'[u]
       PROVE  IdRests(u, id)'
  <2>1. id \in DOMAIN orderIndex[u] /\ (u = c.ticker => id # c.orderId)
    BY <1>11, ZenonT(30) DEF WithoutKey
  <2>2. IdRests(u, id)
    BY <2>1 DEF IndexInvariant
  <2>3. PICK side \in Sides, p \in Price :
          \E i \in 1..Len(Queue(u, side, p)) : Queue(u, side, p)[i].orderId = id
    BY <2>2 DEF IdRests
  <2>4. CASE ~At(u, side, p)
    <3>1. Queue(u, side, p)' = Queue(u, side, p)
      BY <1>5, <2>4
    <3>2. QED
      BY <2>3, <3>1 DEF IdRests
  <2>5. CASE At(u, side, p)
    <3>1. Queue(u, side, p)' = kept /\ Queue(u, side, p) = level
      BY <1>2, <1>5, <2>5
    <3>2. PICK j \in 1..Len(level) : level[j].orderId = id
      BY <2>3, <3>1
    <3>3. PICK i \in 1..Len(kept) : g[i] = j
      BY <1>9, <2>1, <2>5, <3>2 DEF Shows
    <3>4. kept[i].orderId = id
      BY <1>10, <3>2, <3>3
    <3>5. QED
      BY <3>1, <3>4 DEF IdRests
  <2>6. QED
    BY <2>4, <2>5
<1>17. ASSUME NEW a \in DOMAIN cancelledBy' PROVE cancelledBy'[a] = log'[a].userId
  <2>1. CASE a \in Erased(c)
    <3>1. PICK j \in 1..Len(level) : level[j].arrival = a
      BY <1>8, <2>1 DEF ArrivalsOf
    <3>2. level[j].orderId = c.orderId
      <4> SUFFICES ASSUME level[j].orderId # c.orderId PROVE FALSE
        OBVIOUS
      <4>1. PICK i \in 1..Len(kept) : g[i] = j
        BY <1>9 DEF Shows
      <4>2. kept[i].arrival = a
        BY <1>10, <3>1, <4>1
      <4>3. QED
        BY <1>8, <2>1, <4>2 DEF ArrivalsOf
    <3>3. level[j].userId = c.userId
      BY <1>2, <1>4, <1>14, <3>2
    <3>4. PICK u \in INSTRUMENTS, side \in Sides, p \in Price :
            u = c.ticker /\ side = at.side /\ p = at.price
      BY <1>4
    <3>5. j \in 1..Len(Queue(u, side, p)) /\ level[j] = Queue(u, side, p)[j]
      BY <1>2, <3>4, Zenon
    <3>6. log[a].userId = level[j].userId
      <4>1. Queued
        BY DEF History
      <4>2. LET r == Queue(u, side, p)[j] IN log[r.arrival].userId = r.userId
        BY <3>5, <4>1, QueuedEntry, SMTT(20)
      <4>3. QED
        BY <3>1, <3>5, <4>2, Zenon
    <3>7. QED
      BY <1>7, <1>12, <2>1, <3>3, <3>6
  <2>2. CASE a \notin Erased(c)
    BY <1>7, <1>12, <2>2 DEF IndexInvariant
  <2>3. QED
    BY <2>1, <2>2
<1>18. QED
  BY <1>12, <1>15, <1>16, <1>17 DEF IndexInvariant

\* The index invariant holds initially.
LEMMA IndexInit == Init => IndexInvariant
<1> SUFFICES ASSUME Init PROVE IndexInvariant
  OBVIOUS
<1>1. \A u \in INSTRUMENTS, side \in Sides, p \in Price : Len(Queue(u, side, p)) = 0
  BY EmptySeq DEF Init, EmptyMap, Queue, LevelAt
<1>2. \A u \in INSTRUMENTS, side \in Sides, p \in Price :
        Indexed(orderIndex[u], side, p, Queue(u, side, p))
  BY <1>1 DEF Indexed
<1>3. /\ call = None /\ DOMAIN cancelledBy = {}
      /\ \A u \in INSTRUMENTS : DOMAIN orderIndex[u] = {}
  BY DEF Init, EmptyMap
<1>4. QED
  BY <1>2, <1>3 DEF IndexInvariant

\* Every operation keeps it, when ids are not reused.
LEMMA IndexStep ==
  ASSUME ~ReuseLiveIds
  PROVE  TypeOK /\ History /\ IndexInvariant /\ [Next]_vars => IndexInvariant'
<1> SUFFICES ASSUME TypeOK, History, IndexInvariant, [Next]_vars PROVE IndexInvariant'
  OBVIOUS
<1>1. ASSUME NEW o \in OrderAdd, MaySubmit(o), OnOrderAdd(o) PROVE IndexInvariant'
  BY <1>1, ReceiveKeepsIndex DEF OnOrderAdd
<1>2. ASSUME NEW o \in OrderAdd, MaySubmit(o), DropOrderAdd(o) PROVE IndexInvariant'
  BY <1>2, ReceiveKeepsIndex DEF DropOrderAdd
<1>3. CASE Match
  BY <1>3, MatchKeepsIndex
<1>4. CASE FinishOrderAdd
  BY <1>4, FinishKeepsIndex
<1>5. ASSUME NEW c \in OrderCancel, OnOrderCancel(c) PROVE IndexInvariant'
  BY <1>5, CancelKeepsIndex
<1>6. CASE UNCHANGED vars
  <2>1. /\ book' = book /\ orderIndex' = orderIndex /\ call' = call
        /\ log' = log /\ cancelledBy' = cancelledBy
    BY <1>6 DEF vars
  <2>2. \A u, side, p : Queue(u, side, p)' = Queue(u, side, p)
    BY <2>1 DEF Queue, LevelAt
  <2>3. \A u, id : IdRests(u, id)' <=> IdRests(u, id)
    BY <2>2 DEF IdRests
  <2>4. QED
    BY <2>1, <2>2, <2>3 DEF IndexInvariant
<1>7. QED
  BY <1>1, <1>2, <1>3, <1>4, <1>5, <1>6 DEF Next, RejectCancel

\* The invariant holds when ids are not reused.
LEMMA IndexInvariantHolds ==
  ASSUME ~ReuseLiveIds
  PROVE  Spec => []IndexInvariant
BY IndexInit, IndexStep, TypeCorrect, HistoryInvariant, PTL DEF Spec

-----------------------------------------------------------------------------
(* What follows from it. *)

\* The index holds exactly the resting orders, at their side, price and owner,
\* when clients do not reuse the id of a resting order.
THEOREM IndexIsExact ==
  ASSUME ~ReuseLiveIds
  PROVE  Spec => []IndexExact
<1>1. TypeOK /\ IndexInvariant => IndexExact
  <2> SUFFICES ASSUME TypeOK, IndexInvariant, NEW t \in INSTRUMENTS
               PROVE  /\ DOMAIN orderIndex[t] = LiveIds(t)
                      /\ \A r \in {q \in Resting : q.ticker = t} :
                           orderIndex[t][r.order.orderId] =
                             [side |-> r.side, price |-> r.price, userId |-> r.order.userId]
    BY DEF IndexExact
  <2>1. ASSUME NEW id \in LiveIds(t) PROVE id \in DOMAIN orderIndex[t]
    <3>1. IdRests(t, id)
      BY LiveIdsRest
    <3>2. PICK side \in Sides, p \in Price :
            \E i \in 1..Len(Queue(t, side, p)) : Queue(t, side, p)[i].orderId = id
      BY <3>1 DEF IdRests
    <3>3. Indexed(orderIndex[t], side, p, Queue(t, side, p))
      BY DEF IndexInvariant
    <3>4. QED
      BY <3>2, <3>3, Zenon DEF Indexed
  <2>2. ASSUME NEW id \in DOMAIN orderIndex[t] PROVE id \in LiveIds(t)
    BY LiveIdsRest DEF IndexInvariant
  <2>3. ASSUME NEW r \in Resting, r.ticker = t
        PROVE  orderIndex[t][r.order.orderId] =
                 [side |-> r.side, price |-> r.price, userId |-> r.order.userId]
    <3>1. PICK u \in INSTRUMENTS, side \in Sides, p \in Price :
            \E i \in 1..Len(Queue(u, side, p)) :
              r = [ticker |-> u, side |-> side, price |-> p, order |-> Queue(u, side, p)[i]]
      BY RestingIsQueued
    <3>2. PICK i \in 1..Len(Queue(u, side, p)) :
            r = [ticker |-> u, side |-> side, price |-> p, order |-> Queue(u, side, p)[i]]
      BY <3>1
    <3> DEFINE q == Queue(u, side, p)[i]
    <3>3. r.order = q /\ u = t /\ r.side = side /\ r.price = p
      BY <2>3, <3>2
    <3>4. Indexed(orderIndex[u], side, p, Queue(u, side, p))
      BY DEF IndexInvariant
    <3>5. orderIndex[u][q.orderId] = [side |-> side, price |-> p, userId |-> q.userId]
      BY <3>4 DEF Indexed
    <3> HIDE DEF q
    <3>6. QED
      BY <3>3, <3>5
  <2>4. DOMAIN orderIndex[t] = LiveIds(t)
    BY <2>1, <2>2
  <2>5. QED
    BY <2>3, <2>4
<1>2. QED
  BY <1>1, TypeCorrect, IndexInvariantHolds, PTL

\* Under the same condition only its owner can take an order off the book.
THEOREM CancelsAreTheOwners ==
  ASSUME ~ReuseLiveIds
  PROVE  Spec => []OnlyOwnerCancels
<1>1. IndexInvariant => OnlyOwnerCancels
  BY DEF IndexInvariant, OnlyOwnerCancels
<1>2. QED
  BY <1>1, IndexInvariantHolds, PTL

-----------------------------------------------------------------------------
(* The open orders, by the history. *)

\* What the types of the log say of an order.
LEMMA VolumeIsInt ==
  ASSUME NEW o \in OrderAdd
  PROVE  o.volume \in Int
<1>1. o.volume \in Volumes
  BY DEF OrderAdd
<1>2. QED
  BY <1>1, RouterAssumption, Zenon

\* The same, for the orders of the log.
LEMMA LoggedSide ==
  ASSUME TypeOK
  PROVE  \A a \in 1..Len(log) : log[a] \in OrderAdd /\ log[a].side \in Sides
<1>1. \A a \in 1..Len(log) : log[a] \in OrderAdd
  BY DEF TypeOK
<1>2. \A o \in OrderAdd : o.side \in Sides
  BY DEF OrderAdd
<1>3. QED
  BY <1>1, <1>2, Zenon

\* What the history says of an order at a place of a queue.
LEMMA QueuedRecord ==
  ASSUME TypeOK, Queued, NEW u \in INSTRUMENTS, NEW side \in Sides, NEW p \in Price,
         NEW i \in 1..Len(Queue(u, side, p)), NEW r, r = Queue(u, side, p)[i]
  PROVE  /\ r.arrival \in 1..Len(log) /\ r.arrival < NextArrival
         /\ r.arrival \notin DOMAIN cancelledBy
         /\ log[r.arrival].ticker = u /\ log[r.arrival].side = side
         /\ log[r.arrival].price = p
         /\ log[r.arrival].orderId = r.orderId /\ log[r.arrival].userId = r.userId
         /\ r.volume \in Nat \ {0}
         /\ log[r.arrival].volume = executed[r.arrival] + r.volume
<1>1. /\ Queue(u, side, p)[i] \in RestingOrder
      /\ Placed(log, executed, DOMAIN cancelledBy, NextArrival,
                u, side, p, Queue(u, side, p)[i])
  BY QueuedOrder
<1>2. /\ r \in RestingOrder
      /\ Placed(log, executed, DOMAIN cancelledBy, NextArrival, u, side, p, r)
  BY <1>1, Zenon
<1>3. r.volume \in Nat \ {0}
  BY <1>2 DEF RestingOrder
<1>4. QED
  BY <1>2, <1>3 DEF Placed

\* An order that was received before the one in progress, for a listed ticker,
\* and neither cancelled nor filled.
Open(a) ==
  /\ a \in 1..Len(log)
  /\ a < NextArrival
  /\ log[a].ticker \in INSTRUMENTS
  /\ a \notin DOMAIN cancelledBy
  /\ executed[a] < log[a].volume

\* The place of a live order.
LEMMA LivePlace ==
  ASSUME TypeOK, Queued, NEW a, Live(a)
  PROVE  /\ Open(a)
         /\ log[a].side \in Sides /\ log[a].price \in Price
         /\ \E i \in 1..Len(Queue(log[a].ticker, log[a].side, log[a].price)) :
              Queue(log[a].ticker, log[a].side, log[a].price)[i].arrival = a
<1>1. PICK u \in INSTRUMENTS, side \in Sides, p \in Price :
        \E i \in 1..Len(Queue(u, side, p)) : Queue(u, side, p)[i].arrival = a
  BY DEF Live
<1>2. PICK i \in 1..Len(Queue(u, side, p)) : Queue(u, side, p)[i].arrival = a
  BY <1>1
<1>3. PICK r : r = Queue(u, side, p)[i]
  OBVIOUS
<1>4. /\ r.arrival \in 1..Len(log) /\ r.arrival < NextArrival
      /\ r.arrival \notin DOMAIN cancelledBy
      /\ log[r.arrival].ticker = u /\ log[r.arrival].side = side
      /\ log[r.arrival].price = p
      /\ r.volume \in Nat \ {0}
      /\ log[r.arrival].volume = executed[r.arrival] + r.volume
  BY <1>3, QueuedRecord, SMTT(20)
<1>5. r.arrival = a
  BY <1>2, <1>3, Zenon
<1>6. executed[a] \in Nat
  BY <1>4, <1>5 DEF TypeOK
<1>7. Open(a)
  BY <1>4, <1>5, <1>6 DEF Open
<1>8. log[a].ticker = u /\ log[a].side = side /\ log[a].price = p
  BY <1>4, <1>5, Zenon
<1>9. QED
  BY <1>2, <1>7, <1>8

\* The open orders with their unfilled volumes, by the history.
HistoryVolumes ==
  [a \in {x \in 1..Len(log) : Open(x)} |-> log[a].volume - executed[a]]

\* They are the orders that rest, with the volumes they rest with.
LEMMA OpenIsLive ==
  ASSUME TypeOK, History, NEW a
  PROVE  Open(a) <=> Live(a)
<1>1. ASSUME Open(a) PROVE Live(a)
  <2>1. Live(a) \/ Over(a)
    BY <1>1 DEF Open, History, AllAccounted
  <2>2. ~(call # None /\ a = call.arrival)
    BY <1>1 DEF Open, NextArrival
  <2>3. executed[a] \in Nat /\ log[a].volume \in Int
    <3>1. executed[a] \in Nat /\ log[a] \in OrderAdd
      BY <1>1 DEF Open, TypeOK
    <3>2. QED
      BY <3>1, VolumeIsInt
  <2>4. ~Over(a)
    BY <1>1, <2>2, <2>3 DEF Open, Over
  <2>5. QED
    BY <2>1, <2>4
<1>2. ASSUME Live(a) PROVE Open(a)
  <2>1. Queued
    BY DEF History
  <2>2. QED
    BY <1>2, <2>1, LivePlace
<1>3. QED
  BY <1>1, <1>2

\* The open volumes are those the history determines.
LEMMA OpenVolumesByHistory == TypeOK /\ History => OpenVolumes = HistoryVolumes
<1> SUFFICES ASSUME TypeOK, History PROVE OpenVolumes = HistoryVolumes
  OBVIOUS
<1>1. LiveArrivals = {x \in 1..Len(log) : Open(x)}
  <2>1. ASSUME NEW a PROVE a \in LiveArrivals <=> Open(a)
    BY LiveIsQueued, OpenIsLive
  <2>2. ASSUME NEW a, Open(a) PROVE a \in 1..Len(log)
    BY <2>2 DEF Open
  <2>3. QED
    BY <2>1, <2>2, Zenon
<1>2. ASSUME NEW a \in LiveArrivals
      PROVE  RestingVolume(a) = log[a].volume - executed[a]
  <2>1. PICK r \in Resting : r.order.arrival = a
    BY DEF LiveArrivals
  <2> DEFINE chosen == CHOOSE q \in Resting : q.order.arrival = a
  <2>2. chosen \in Resting /\ chosen.order.arrival = a
    BY <2>1
  <2>3. RestingVolume(a) = chosen.order.volume
    BY DEF RestingVolume
  <2> HIDE DEF chosen
  <2>4. PICK u \in INSTRUMENTS, side \in Sides, p \in Price :
          \E i \in 1..Len(Queue(u, side, p)) :
            chosen = [ticker |-> u, side |-> side, price |-> p,
                      order |-> Queue(u, side, p)[i]]
    BY <2>2, RestingIsQueued
  <2>5. PICK i \in 1..Len(Queue(u, side, p)) :
          chosen = [ticker |-> u, side |-> side, price |-> p,
                    order |-> Queue(u, side, p)[i]]
    BY <2>4
  <2>6. PICK q : q = Queue(u, side, p)[i]
    OBVIOUS
  <2>7. chosen.order = q
    BY <2>5, <2>6
  <2>8. Queued
    BY DEF History
  <2>9. /\ q.arrival \in 1..Len(log) /\ q.volume \in Nat \ {0}
        /\ log[q.arrival].volume = executed[q.arrival] + q.volume
    BY <2>6, <2>8, QueuedRecord, SMTT(20)
  <2>10. q.arrival = a /\ RestingVolume(a) = q.volume
    BY <2>2, <2>3, <2>7, Zenon
  <2>11. executed[a] \in Nat
    BY <2>9, <2>10 DEF TypeOK
  <2>12. QED
    BY <2>9, <2>10, <2>11
<1>3. QED
  BY <1>1, <1>2, Zenon DEF OpenVolumes, HistoryVolumes

-----------------------------------------------------------------------------
(* The steps. *)

\* An order is received: no order opens or closes, and it is the taker if its
\* ticker is listed.
LEMMA ReceiveSubmits ==
  ASSUME TypeOK, History, OpenVolumes = HistoryVolumes, OpenVolumes' = HistoryVolumes',
         NEW o \in OrderAdd, OnOrderAdd(o) \/ DropOrderAdd(o)
  PROVE  Book!Submit(o)
<1> DEFINE n == Len(log)
<1>1. /\ n \in Nat /\ log \in Seq(OrderAdd) /\ executed \in Seq(Nat) /\ Len(executed) = n
      /\ call = None /\ log' = Append(log, o) /\ executed' = Append(executed, 0)
      /\ cancelledBy' = cancelledBy
  BY DEF TypeOK, Receive, OnOrderAdd, DropOrderAdd
<1>2. /\ Len(log') = n + 1 /\ log'[n + 1] = o
      /\ \A a \in 1..n : log'[a] = log[a] /\ executed'[a] = executed[a]
  BY <1>1, AppendProperties
<1> DEFINE added == [order |-> o, remaining |-> o.volume, arrival |-> n + 1]
<1>3. added \in Call /\ added.remaining = o.volume /\ added.arrival = n + 1
  <2>1. o.volume \in Int /\ n + 1 \in Nat \ {0}
    BY <1>1, VolumeIsInt
  <2>2. QED
    BY <2>1 DEF Call
<1>4. \/ o.ticker \in INSTRUMENTS /\ call' = added
      \/ o.ticker \notin INSTRUMENTS /\ call' = None
  BY <1>1 DEF OnOrderAdd, DropOrderAdd
<1> HIDE DEF n, added
<1>5. added # None
  BY <1>3, NoneIsNoCall
<1>6. /\ NextArrival = n + 1 /\ TakerArrival = 0 /\ TakerVolume = 0
      /\ NextArrival' = IF o.ticker \in INSTRUMENTS THEN n + 1 ELSE n + 2
      /\ TakerArrival' = IF o.ticker \in INSTRUMENTS THEN n + 1 ELSE 0
      /\ TakerVolume' = IF o.ticker \in INSTRUMENTS THEN o.volume ELSE 0
  BY <1>1, <1>2, <1>3, <1>4, <1>5 DEF NextArrival, TakerArrival, TakerVolume, n
<1>7. ASSUME NEW a PROVE a \in 1..Len(log') /\ Open(a)' <=> a \in 1..n /\ Open(a)
  BY <1>1, <1>2, <1>6 DEF Open, n
<1>8. HistoryVolumes' = HistoryVolumes
  BY <1>2, <1>7 DEF HistoryVolumes, n
<1>9. OpenVolumes' = OpenVolumes
  BY <1>8
<1>10. QED
  BY <1>1, <1>6, <1>9 DEF Book!Submit, n

\* The maker of a trade is open, with the volume it rests with, and stands
\* first among the open orders of its side.
LEMMA MakerIsFirst ==
  ASSUME TypeOK, History, Match, NEW m, m = Maker.arrival
  PROVE  /\ Open(m) /\ log[m].volume - executed[m] = Maker.volume
         /\ Maker.volume \in Nat \ {0}
         /\ \A a : Open(a) /\ log[a].ticker = call.order.ticker /\ log[a].side = MakerSide =>
              /\ log[a].price \in Price
              /\ NoWorse(MakerSide, MakerPrice, log[a].price)
              /\ log[a].price = MakerPrice => m <= a
<1>0. Queued
  BY DEF History
<1>1. PICK t \in INSTRUMENTS, side \in Sides, best \in Price :
        t = call.order.ticker /\ side = MakerSide /\ best = MakerPrice
  BY MatchQueues
<1>2. PICK level : level = Queue(t, side, best)
  OBVIOUS
<1>3. level = MakerQueue
  BY <1>1, <1>2 DEF MakerQueue
<1>4. 1 \in 1..Len(level) /\ Maker = level[1]
  BY <1>3, MakerFirst, Zenon
<1>5. PICK k \in 1..Len(Queue(t, side, best)) : k = 1
  BY <1>2, <1>4, Zenon
<1>6. PICK r : r = Queue(t, side, best)[k]
  OBVIOUS
<1>7. r = Maker
  BY <1>2, <1>4, <1>5, <1>6, Zenon
<1>8. /\ r.arrival \in 1..Len(log) /\ r.arrival < NextArrival
      /\ r.arrival \notin DOMAIN cancelledBy
      /\ log[r.arrival].ticker = t
      /\ r.volume \in Nat \ {0}
      /\ log[r.arrival].volume = executed[r.arrival] + r.volume
  BY <1>0, <1>6, QueuedRecord, SMTT(20)
<1>9. r.arrival = m
  BY <1>7, Zenon
<1>10. executed[m] \in Nat
  BY <1>8, <1>9 DEF TypeOK
<1>11. Open(m) /\ log[m].volume - executed[m] = r.volume
  BY <1>8, <1>9, <1>10 DEF Open
<1>12. ASSUME NEW a, Open(a), log[a].ticker = t, log[a].side = side
       PROVE  /\ log[a].price \in Price
              /\ NoWorse(side, best, log[a].price)
              /\ log[a].price = best => m <= a
  <2>1. Live(a)
    BY <1>12, OpenIsLive
  <2>2. PICK p : p = log[a].price
    OBVIOUS
  <2>3. /\ p \in Price
        /\ \E i \in 1..Len(Queue(t, side, p)) : Queue(t, side, p)[i].arrival = a
    BY <1>0, <1>12, <2>1, <2>2, LivePlace
  <2>4. PICK i \in 1..Len(Queue(t, side, p)) : Queue(t, side, p)[i].arrival = a
    BY <2>3
  <2>5. p \in DOMAIN book[t][side]
    <3>1. Queue(t, side, p) # << >>
      BY <2>4, EmptySeq
    <3>2. QED
      BY <3>1, QueueType
  <2>6. NoWorse(side, best, p)
    <3>1. \A q \in DOMAIN book[t][side] : NoWorse(side, best, q)
      BY <1>1, MatchQueues
    <3>2. QED
      BY <2>5, <3>1
  <2>7. ASSUME p = best PROVE m <= a
    <3>1. InOrder(level) /\ level \in Seq(RestingOrder)
      BY <1>0, <1>2, QueueType DEF Queued, QueueOK
    <3>2. i \in 1..Len(level) /\ level[i].arrival = a /\ level[1].arrival = m
      BY <1>2, <1>4, <2>4, <2>7
    <3>3. m \in Nat /\ a \in Nat
      BY <1>8, <1>9, <1>12 DEF Open
    <3>4. CASE i = 1
      BY <3>2, <3>3, <3>4
    <3>5. CASE i # 1
      <4>1. 1 < i
        BY <3>2, <3>5
      <4>2. m < a
        BY <1>4, <3>1, <3>2, <4>1 DEF InOrder
      <4>3. QED
        BY <3>3, <4>2
    <3>6. QED
      BY <3>4, <3>5
  <2>8. QED
    BY <2>2, <2>3, <2>6, <2>7
<1>13. QED
  BY <1>1, <1>7, <1>8, <1>11, <1>12

\* Match is a trade of the abstract book.
LEMMA MatchTrades ==
  ASSUME TypeOK, History, OpenVolumes = HistoryVolumes, OpenVolumes' = HistoryVolumes', Match
  PROVE  Book!Trade
<1>1. PICK m : m = Maker.arrival
  OBVIOUS
<1>2. PICK fill : fill = Fill
  OBVIOUS
<1>3. PICK t : t = call.arrival
  OBVIOUS
<1>4. /\ Open(m) /\ log[m].volume - executed[m] = Maker.volume
      /\ Maker.volume \in Nat \ {0}
      /\ \A a : Open(a) /\ log[a].ticker = call.order.ticker /\ log[a].side = MakerSide =>
           /\ log[a].price \in Price
           /\ NoWorse(MakerSide, MakerPrice, log[a].price)
           /\ log[a].price = MakerPrice => m <= a
  BY <1>1, MakerIsFirst
<1>5. /\ log[m].ticker = call.order.ticker
      /\ log[m].side = MakerSide /\ log[m].price = MakerPrice
  BY <1>1, MakerEntry
<1>6. /\ call # None /\ call' # None /\ call'.arrival = t
      /\ call'.remaining = call.remaining - fill /\ call.remaining \in Int
      /\ NextArrival = t /\ NextArrival' = t /\ m < t
      /\ log' = log /\ cancelledBy' = cancelledBy
      /\ \A a \in 1..Len(log) :
           /\ executed[a] \in Nat
           /\ executed'[a] = IF a \in {m, t} THEN executed[a] + fill ELSE executed[a]
  BY <1>1, <1>2, <1>3, MatchCounters
<1>7. /\ call \in Call /\ fill \in Nat \ {0} /\ MakerPrice \in Price
      /\ fill <= Maker.volume /\ fill <= call.remaining
  BY <1>2, MatchQueues
<1>8. t \in Nat \ {0} /\ call.order \in OrderAdd
  BY <1>3, <1>7 DEF Call
<1>9. log[t] = call.order
  BY <1>3, <1>6 DEF History, CallOK
<1>10. /\ TakerArrival = t /\ TakerArrival' = t
       /\ TakerVolume = call.remaining /\ TakerVolume' = call.remaining - fill
  BY <1>3, <1>6 DEF TakerArrival, TakerVolume
<1>11. fill = IF call.remaining <= Maker.volume THEN call.remaining ELSE Maker.volume
  BY <1>2 DEF Fill, Traded
<1>12. /\ DOMAIN OpenVolumes = {x \in 1..Len(log) : Open(x)}
       /\ \A a \in DOMAIN OpenVolumes : OpenVolumes[a] = log[a].volume - executed[a]
  BY DEF HistoryVolumes
<1>13. m \in DOMAIN OpenVolumes /\ OpenVolumes[m] = Maker.volume
  BY <1>4, <1>12 DEF Open
<1>14. \A a \in 1..Len(log) : log[a].side \in Sides
  BY LoggedSide
<1>15. /\ call.remaining > 0 /\ call.order.side \in Sides /\ call.order.price \in Price
       /\ PriceCrosses(call.order.side, call.order.price, MakerPrice)
       /\ MakerSide = IF call.order.side = "Buy" THEN "Sell" ELSE "Buy"
  <2>1. Matches(call.order, call.remaining, Opposing)
    BY DEF Match
  <2>2. PriceCrosses(call.order.side, call.order.price, MakerPrice) /\ call.remaining > 0
    BY <2>1 DEF Matches, VolumeLeft, Opposing, MakerPrice, MakerSide
  <2>3. call.order.side \in Sides /\ call.order.price \in Prices
    BY <1>8 DEF OrderAdd
  <2>4. call.order.price \in Price
    BY <2>3, RouterAssumption, Zenon
  <2>5. QED
    BY <2>2, <2>3, <2>4 DEF MakerSide, Opposite
<1>16. MakerPrice \in Int /\ call.order.price \in Int
  BY <1>7, <1>15, HalfAssumption DEF Price
<1>17. Book!Compatible(m, t)
  BY <1>5, <1>9, <1>15, <1>16 DEF Book!Compatible, PriceCrosses, Sides
<1>18. ASSUME NEW other \in Book!Counterparties PROVE Book!Precedes(m, other)
  <2>1. other \in DOMAIN OpenVolumes /\ Book!Compatible(other, t)
    BY <1>10 DEF Book!Counterparties
  <2>2. other \in 1..Len(log) /\ Open(other)
    BY <1>12, <2>1
  <2>3. log[other].ticker = call.order.ticker /\ log[other].side # call.order.side
    BY <1>9, <2>1 DEF Book!Compatible
  <2>4. log[other].side = MakerSide
    BY <1>14, <1>15, <2>2, <2>3 DEF Sides
  <2>5. /\ log[other].price \in Price
        /\ NoWorse(MakerSide, MakerPrice, log[other].price)
        /\ log[other].price = MakerPrice => m <= other
    BY <1>4, <2>2, <2>3, <2>4
  <2>6. log[other].price \in Int
    BY <2>5, HalfAssumption DEF Price
  <2>7. QED
    BY <1>5, <1>15, <1>16, <2>5, <2>6 DEF Book!Precedes, NoWorse
<1>19. OpenVolumes' =
         IF fill = OpenVolumes[m]
         THEN [a \in DOMAIN OpenVolumes \ {m} |-> OpenVolumes[a]]
         ELSE [OpenVolumes EXCEPT ![m] = @ - fill]
  <2>1. t \notin DOMAIN OpenVolumes
    BY <1>6, <1>8, <1>12 DEF Open
  <2>2. \A a \in 1..Len(log) : log[a].volume \in Int
    BY VolumeIsInt DEF TypeOK
  <2>3. ASSUME NEW a \in 1..Len(log)
        PROVE  /\ Open(a)' <=> Open(a) /\ (a = m => fill # Maker.volume)
               /\ Open(a) =>
                    log'[a].volume - executed'[a] =
                      IF a = m THEN Maker.volume - fill ELSE OpenVolumes[a]
    <3>1. executed[a] \in Nat /\ log[a].volume \in Int
      BY <1>6, <2>2
    <3>2. CASE a = m
      <4>1. executed'[a] = executed[a] + fill /\ Open(a)
        BY <1>4, <1>6, <3>2
      <4>2. executed'[a] < log[a].volume <=> fill # Maker.volume
        BY <1>4, <1>7, <3>1, <3>2, <4>1
      <4>3. Open(a)' <=> executed'[a] < log[a].volume
        BY <1>6, <4>1 DEF Open
      <4>4. log'[a].volume - executed'[a] = Maker.volume - fill
        BY <1>4, <1>6, <1>7, <3>1, <3>2, <4>1
      <4>5. QED
        BY <3>2, <4>1, <4>2, <4>3, <4>4
    <3>3. CASE a = t
      BY <1>6, <1>8, <3>2, <3>3 DEF Open
    <3>4. CASE a # m /\ a # t
      <4>1. executed'[a] = executed[a]
        BY <1>6, <3>4
      <4>2. Open(a)' <=> Open(a)
        BY <1>6, <4>1 DEF Open
      <4>3. Open(a) => OpenVolumes[a] = log[a].volume - executed[a]
        BY <1>12
      <4>4. QED
        BY <1>6, <3>4, <4>1, <4>2, <4>3
    <3>5. QED
      BY <3>2, <3>3, <3>4
  <2>4. HistoryVolumes' = [a \in {x \in 1..Len(log) : Open(x)'} |-> log'[a].volume - executed'[a]]
    BY <1>6 DEF HistoryVolumes
  <2>5. CASE fill = Maker.volume
    <3>1. {x \in 1..Len(log) : Open(x)'} = DOMAIN OpenVolumes \ {m}
      BY <1>12, <2>3, <2>5
    <3>2. \A a \in DOMAIN OpenVolumes \ {m} : log'[a].volume - executed'[a] = OpenVolumes[a]
      BY <1>12, <2>3
    <3>3. HistoryVolumes' = [a \in DOMAIN OpenVolumes \ {m} |-> OpenVolumes[a]]
      BY <2>4, <3>1, <3>2
    <3>4. QED
      BY <1>13, <2>5, <3>3
  <2>6. CASE fill # Maker.volume
    <3>1. {x \in 1..Len(log) : Open(x)'} = DOMAIN OpenVolumes
      BY <1>12, <2>3, <2>6
    <3>2. \A a \in DOMAIN OpenVolumes :
            log'[a].volume - executed'[a] = IF a = m THEN Maker.volume - fill ELSE OpenVolumes[a]
      BY <1>12, <2>3
    <3>3. HistoryVolumes' = [a \in DOMAIN OpenVolumes |->
                               IF a = m THEN Maker.volume - fill ELSE OpenVolumes[a]]
      BY <2>4, <3>1, <3>2
    <3>4. [OpenVolumes EXCEPT ![m] = @ - fill] =
            [a \in DOMAIN OpenVolumes |->
               IF a = m THEN Maker.volume - fill ELSE OpenVolumes[a]]
      BY <1>13
    <3>5. QED
      BY <1>13, <2>6, <3>3, <3>4
  <2>7. QED
    BY <2>5, <2>6
<1>20. m \in Book!Counterparties
  BY <1>10, <1>13, <1>17 DEF Book!Counterparties
<1>21. QED
  BY <1>6, <1>8, <1>10, <1>11, <1>13, <1>15, <1>18, <1>19, <1>20, Zenon DEF Book!Trade

\* When Match stops short of the whole volume, no open order is compatible
\* with what remains.
LEMMA NoCounterparty ==
  ASSUME TypeOK, History, OpenVolumes = HistoryVolumes, FinishOrderAdd, call.remaining > 0
  PROVE  Book!Counterparties = {}
<1> SUFFICES ASSUME NEW a \in Book!Counterparties PROVE FALSE
  OBVIOUS
<1>1. PICK o : o = call.order
  OBVIOUS
<1>2. /\ call # None /\ call \in Call /\ o \in OrderAdd /\ o.ticker \in INSTRUMENTS
      /\ o.side \in Sides /\ o.price \in Price
  BY <1>1, FinishQueues DEF FinishOrderAdd
<1>3. log[call.arrival] = o /\ TakerArrival = call.arrival
  BY <1>1, <1>2 DEF History, CallOK, TakerArrival
<1>4. a \in DOMAIN OpenVolumes /\ Book!Compatible(a, call.arrival)
  BY <1>3 DEF Book!Counterparties
<1>5. a \in 1..Len(log) /\ Open(a)
  BY <1>4 DEF HistoryVolumes
<1>6. log[a].ticker = o.ticker /\ log[a].side # o.side
  BY <1>3, <1>4 DEF Book!Compatible
<1>7. PICK side \in Sides : side = Opposite(o.side)
  BY <1>2 DEF Opposite, Sides
<1>8. log[a].side = side
  BY <1>2, <1>5, <1>6, <1>7, LoggedSide DEF Opposite, Sides
<1>9. PICK p : p = log[a].price
  OBVIOUS
<1>10. Live(a) /\ Queued
  BY <1>5, OpenIsLive DEF History
<1>11. /\ p \in Price
       /\ \E i \in 1..Len(Queue(o.ticker, side, p)) : Queue(o.ticker, side, p)[i].arrival = a
  BY <1>6, <1>8, <1>9, <1>10, LivePlace
<1>12. PICK i \in 1..Len(Queue(o.ticker, side, p)) : Queue(o.ticker, side, p)[i].arrival = a
  BY <1>11
<1>13. PICK levels : levels = book[o.ticker][side]
  OBVIOUS
<1>14. p \in DOMAIN levels
  <2>1. Queue(o.ticker, side, p) # << >>
    BY <1>12, EmptySeq
  <2>2. QED
    BY <1>2, <1>13, <2>1, QueueType
<1>15. DOMAIN levels \subseteq Price
  BY <1>2, <1>13, Zenon DEF TypeOK, LevelsOK
<1>16. DOMAIN levels # {} => ~PriceCrosses(o.side, o.price, BestPrice(Opposite(o.side), levels))
  BY <1>1, <1>7, <1>13 DEF FinishOrderAdd, Matches, VolumeLeft, Opposing
<1>17. IF o.side = "Buy" THEN o.price < p ELSE p < o.price
  BY <1>2, <1>14, <1>15, <1>16, NoCrossingRemainder
<1>18. o.price \in Int /\ p \in Int
  BY <1>2, <1>11, HalfAssumption DEF Price
<1>19. QED
  BY <1>2, <1>3, <1>4, <1>5, <1>6, <1>9, <1>17, <1>18, LoggedSide DEF Book!Compatible, Sides

\* FinishOrderAdd closes the matching of the taker.
LEMMA FinishCloses ==
  ASSUME TypeOK, History, OpenVolumes = HistoryVolumes, OpenVolumes' = HistoryVolumes',
         FinishOrderAdd
  PROVE  Book!Close
<1>1. PICK t : t = call.arrival
  OBVIOUS
<1>2. /\ call # None /\ call' = None
      /\ log' = log /\ executed' = executed /\ cancelledBy' = cancelledBy
  BY DEF FinishOrderAdd
<1>3. /\ t = Len(log) /\ t \in 1..Len(log) /\ log[t] = call.order
      /\ executed[t] + call.remaining = call.order.volume /\ t \notin DOMAIN cancelledBy
  BY <1>1, <1>2 DEF History, CallOK
<1>4. /\ call \in Call /\ call.order \in OrderAdd /\ call.order.ticker \in INSTRUMENTS
  BY FinishQueues
<1>5. t \in Nat \ {0} /\ call.remaining \in Int /\ executed[t] \in Nat
  BY <1>1, <1>3, <1>4 DEF Call, TypeOK
<1>6. /\ TakerArrival = t /\ TakerArrival' = 0
      /\ TakerVolume = call.remaining /\ TakerVolume' = 0
      /\ NextArrival = t /\ NextArrival' = t + 1
  BY <1>1, <1>2, <1>3 DEF TakerArrival, TakerVolume, NextArrival
<1>7. ASSUME NEW a \in 1..Len(log)
      PROVE  Open(a)' <=> Open(a) \/ (a = t /\ call.remaining > 0)
  <2>1. a \in Nat /\ Len(log) \in Nat
    BY DEF TypeOK
  <2>2. CASE a = t
    <3>1. executed[a] < log[a].volume <=> call.remaining > 0
      BY <1>3, <1>5, <2>2
    <3>2. ~Open(a) /\ (Open(a)' <=> executed[a] < log[a].volume)
      BY <1>2, <1>3, <1>4, <1>5, <1>6, <2>2 DEF Open
    <3>3. QED
      BY <2>2, <3>1, <3>2
  <2>3. CASE a # t
    <3>1. a < t
      BY <1>3, <2>1, <2>3
    <3>2. a < NextArrival /\ a < NextArrival'
      BY <1>5, <1>6, <2>1, <3>1
    <3>3. QED
      BY <1>2, <2>3, <3>2 DEF Open
  <2>4. QED
    BY <2>2, <2>3
<1>8. /\ DOMAIN OpenVolumes = {x \in 1..Len(log) : Open(x)}
      /\ \A a \in DOMAIN OpenVolumes : OpenVolumes[a] = log[a].volume - executed[a]
  BY DEF HistoryVolumes
<1>9. HistoryVolumes' = [a \in {x \in 1..Len(log) : Open(x)'} |-> log[a].volume - executed[a]]
  BY <1>2 DEF HistoryVolumes
<1>10. OpenVolumes' = IF call.remaining > 0
                      THEN [a \in DOMAIN OpenVolumes \cup {t} |->
                              IF a = t THEN call.remaining ELSE OpenVolumes[a]]
                      ELSE OpenVolumes
  <2>1. CASE call.remaining > 0
    <3>1. {x \in 1..Len(log) : Open(x)'} = DOMAIN OpenVolumes \cup {t}
      BY <1>3, <1>7, <1>8, <2>1
    <3>2. log[t].volume - executed[t] = call.remaining
      BY <1>3, <1>5
    <3>3. \A a \in DOMAIN OpenVolumes \cup {t} :
            log[a].volume - executed[a] = IF a = t THEN call.remaining ELSE OpenVolumes[a]
      BY <1>8, <3>2
    <3>4. HistoryVolumes' = [a \in DOMAIN OpenVolumes \cup {t} |->
                               IF a = t THEN call.remaining ELSE OpenVolumes[a]]
      BY <1>9, <3>1, <3>3
    <3>5. QED
      BY <2>1, <3>4
  <2>2. CASE ~(call.remaining > 0)
    <3>1. {x \in 1..Len(log) : Open(x)'} = {x \in 1..Len(log) : Open(x)}
      BY <1>7, <2>2
    <3>2. HistoryVolumes' = HistoryVolumes
      BY <1>9, <3>1 DEF HistoryVolumes
    <3>3. QED
      BY <2>2, <3>2
  <2>3. QED
    BY <2>1, <2>2
<1>11. call.remaining > 0 => Book!Counterparties = {}
  BY NoCounterparty
<1>12. QED
  BY <1>2, <1>5, <1>6, <1>10, <1>11, Zenon DEF Book!Close

\* What a cancel takes off the book: the open orders with its ticker, id and
\* user.
LEMMA ErasedAreTheirs ==
  ASSUME TypeOK, History, IndexInvariant, NEW c \in OrderCancel, OnOrderCancel(c),
         NEW a, Open(a)
  PROVE  a \in Erased(c) <=> /\ log[a].userId = c.userId /\ log[a].ticker = c.ticker
                             /\ log[a].orderId = c.orderId
<1>1. PICK at : at = orderIndex[c.ticker][c.orderId]
  OBVIOUS
<1>2. PICK level : level = Queue(c.ticker, at.side, at.price)
  OBVIOUS
<1>3. PICK kept : kept = EraseId(level, c.orderId)
  OBVIOUS
<1>4. /\ c.ticker \in INSTRUMENTS /\ at.side \in Sides /\ at.price \in Price
      /\ at.userId = c.userId
  BY <1>1, CancelQueues
<1>5. level = CancelQueue(c)
  BY <1>1, <1>2 DEF CancelQueue
<1>6. level \in Seq(RestingOrder) /\ kept \in Seq(RestingOrder)
  BY <1>3, <1>5, CancelRecords, Zenon
<1>7. Erased(c) = ArrivalsOf(level) \ ArrivalsOf(kept)
  BY <1>3, <1>5 DEF Erased
<1>8. PICK g : Shows(g, kept, level, Len(level), c.orderId)
  BY <1>3, <1>6, EraseIdOrders
<1>9. Queued /\ Live(a)
  BY OpenIsLive DEF History
<1>10. Indexed(orderIndex[c.ticker], at.side, at.price, level)
  BY <1>2, <1>4 DEF IndexInvariant
<1>11. ASSUME a \in Erased(c)
       PROVE  /\ log[a].userId = c.userId /\ log[a].ticker = c.ticker
              /\ log[a].orderId = c.orderId
  <2>1. PICK i \in 1..Len(level) : level[i].arrival = a
    BY <1>7, <1>11 DEF ArrivalsOf
  <2>2. level[i].orderId = c.orderId
    <3> SUFFICES ASSUME level[i].orderId # c.orderId PROVE FALSE
      OBVIOUS
    <3>1. PICK k \in 1..Len(kept) : g[k] = i
      BY <1>8 DEF Shows
    <3>2. kept[k].arrival = a
      BY <1>8, <2>1, <3>1, Zenon DEF Shows
    <3>3. QED
      BY <1>7, <1>11, <3>2 DEF ArrivalsOf
  <2>3. PICK r : r = level[i]
    OBVIOUS
  <2>4. i \in 1..Len(Queue(c.ticker, at.side, at.price))
        /\ r = Queue(c.ticker, at.side, at.price)[i]
    BY <1>2, <2>3
  <2>5. PICK u \in INSTRUMENTS, side \in Sides, p \in Price :
          u = c.ticker /\ side = at.side /\ p = at.price
    BY <1>4
  <2>6. i \in 1..Len(Queue(u, side, p)) /\ r = Queue(u, side, p)[i]
    BY <2>4, <2>5, Zenon
  <2>7. /\ log[r.arrival].ticker = u /\ log[r.arrival].orderId = r.orderId
        /\ log[r.arrival].userId = r.userId
    BY <1>9, <2>6, QueuedRecord, SMTT(20)
  <2>8. at = [side |-> at.side, price |-> at.price, userId |-> r.userId]
    BY <1>1, <1>10, <2>2, <2>3 DEF Indexed
  <2>9. at.userId = r.userId
    BY <2>8
  <2>10. r.arrival = a /\ r.orderId = c.orderId
    BY <2>1, <2>2, <2>3, Zenon
  <2>11. QED
    BY <1>4, <2>5, <2>7, <2>9, <2>10
<1>12. ASSUME log[a].userId = c.userId, log[a].ticker = c.ticker, log[a].orderId = c.orderId
       PROVE  a \in Erased(c)
  <2>1. PICK u \in INSTRUMENTS, side \in Sides, p \in Price :
          \E i \in 1..Len(Queue(u, side, p)) : Queue(u, side, p)[i].arrival = a
    BY <1>9 DEF Live
  <2>2. PICK i \in 1..Len(Queue(u, side, p)) : Queue(u, side, p)[i].arrival = a
    BY <2>1
  <2>3. PICK r : r = Queue(u, side, p)[i]
    OBVIOUS
  <2>4. log[r.arrival].ticker = u /\ log[r.arrival].orderId = r.orderId
    BY <1>9, <2>3, QueuedRecord, SMTT(20)
  <2>5. r.arrival = a /\ u = c.ticker /\ r.orderId = c.orderId
    BY <1>12, <2>2, <2>3, <2>4, Zenon
  <2>6. Indexed(orderIndex[u], side, p, Queue(u, side, p))
    BY DEF IndexInvariant
  <2>7. at = [side |-> side, price |-> p, userId |-> r.userId]
    BY <1>1, <2>3, <2>5, <2>6, Zenon DEF Indexed
  <2>8. at.side = side /\ at.price = p
    BY <2>7
  <2>9. i \in 1..Len(level) /\ level[i] = r
    BY <1>2, <2>3, <2>5, <2>8
  <2>10. a \in ArrivalsOf(level)
    BY <2>5, <2>9 DEF ArrivalsOf
  <2>11. ASSUME a \in ArrivalsOf(kept) PROVE FALSE
    <3>1. PICK k \in 1..Len(kept) : kept[k].arrival = a
      BY <2>11 DEF ArrivalsOf
    <3>2. g[k] \in 1..Len(level) /\ kept[k] = level[g[k]] /\ level[g[k]].orderId # c.orderId
      BY <1>8 DEF Shows
    <3>3. PICK j \in 1..Len(level) : j = g[k]
      BY <3>2
    <3>4. level[j].arrival = level[i].arrival /\ level[j].orderId # c.orderId
      BY <2>5, <2>9, <3>1, <3>2, <3>3, Zenon
    <3>5. i \in Nat /\ j \in Nat
      BY <1>6, <2>9
    <3>6. j = i
      <4>1. InOrder(level)
        BY <1>2, <1>4, <1>9 DEF Queued, QueueOK
      <4>2. level[i].arrival \in Nat
        BY <2>5, <2>9 DEF Open
      <4>3. ~(i < j) /\ ~(j < i)
        BY <2>9, <3>4, <4>1, <4>2 DEF InOrder
      <4>4. QED
        BY <3>5, <4>3
    <3>7. QED
      BY <2>5, <2>9, <3>4, <3>6
  <2>12. QED
    BY <1>7, <2>10, <2>11
<1>13. QED
  BY <1>11, <1>12

\* OnOrderCancel withdraws the orders that the abstract book would withdraw.
LEMMA CancelWithdraws ==
  ASSUME TypeOK, History, IndexInvariant,
         OpenVolumes = HistoryVolumes, OpenVolumes' = HistoryVolumes',
         NEW c \in OrderCancel, OnOrderCancel(c)
  PROVE  Book!Withdraw(c.userId, c.ticker, c.orderId)
<1>1. call = None /\ call' = None /\ log' = log /\ executed' = executed
  BY ZenonT(30) DEF OnOrderCancel
<1>2. DOMAIN cancelledBy' = DOMAIN cancelledBy \cup Erased(c)
  BY CancelRecords
<1>3. /\ TakerArrival = 0 /\ TakerArrival' = 0 /\ TakerVolume = 0 /\ TakerVolume' = 0
      /\ NextArrival' = NextArrival
  BY <1>1 DEF TakerArrival, TakerVolume, NextArrival
<1> DEFINE Theirs(a) == /\ log[a].userId = c.userId
                        /\ log[a].ticker = c.ticker
                        /\ log[a].orderId = c.orderId
<1>4. ASSUME NEW a PROVE Open(a)' <=> Open(a) /\ ~Theirs(a)
  <2>1. Open(a)' <=> Open(a) /\ a \notin Erased(c)
    BY <1>1, <1>2, <1>3 DEF Open
  <2>2. Open(a) => (a \in Erased(c) <=> Theirs(a))
    BY ErasedAreTheirs
  <2> HIDE DEF Theirs
  <2>3. QED
    BY <2>1, <2>2
<1>5. HistoryVolumes' = [a \in {x \in 1..Len(log) : Open(x)'} |-> log[a].volume - executed[a]]
  BY <1>1 DEF HistoryVolumes
<1>6. /\ DOMAIN OpenVolumes = {x \in 1..Len(log) : Open(x)}
      /\ \A a \in DOMAIN OpenVolumes : OpenVolumes[a] = log[a].volume - executed[a]
  BY DEF HistoryVolumes
<1>7. {x \in 1..Len(log) : Open(x)'} = {b \in DOMAIN OpenVolumes : ~Theirs(b)}
  <2> HIDE DEF Theirs
  <2>1. QED
    BY <1>4, <1>6
<1>8. OpenVolumes' = [a \in {b \in DOMAIN OpenVolumes : ~Theirs(b)} |-> OpenVolumes[a]]
  <2> HIDE DEF Theirs
  <2>1. QED
    BY <1>5, <1>6, <1>7
<1>9. QED
  BY <1>1, <1>3, <1>8, Zenon DEF Book!Withdraw

-----------------------------------------------------------------------------
(* The refinement. *)

\* The engines implement the abstract book, when clients do not reuse the id
\* of an order resting on the ticker: each step is a submission, a trade with
\* the first in price-time order, the close of a match or a withdrawal, or
\* changes nothing the abstract book shows.
THEOREM RouterImplementsLimitOrderBook ==
  ASSUME ~ReuseLiveIds
  PROVE  Spec => ImplementsLimitOrderBook
<1> DEFINE Same == OpenVolumes = HistoryVolumes
<1>1. Init /\ TypeOK /\ History /\ Same => Book!Init
  <2> SUFFICES ASSUME Init, Same PROVE Book!Init
    OBVIOUS
  <2>1. log = << >> /\ Len(log) = 0 /\ TakerArrival = 0 /\ TakerVolume = 0
    BY EmptySeq DEF Init, TakerArrival, TakerVolume
  <2>2. {x \in 1..Len(log) : Open(x)} = {}
    BY <2>1
  <2>3. OpenVolumes = [a \in {} |-> a]
    BY <2>2 DEF HistoryVolumes
  <2>4. QED
    BY <2>1, <2>3 DEF Book!Init
<1>2. TypeOK /\ History /\ IndexInvariant /\ Same /\ Same' /\ [Next]_vars
        => [Book!Next]_(Book!vars)
  <2> SUFFICES ASSUME TypeOK, History, IndexInvariant, Same, Same', [Next]_vars
               PROVE  Book!Next \/ UNCHANGED <<log, OpenVolumes, TakerArrival, TakerVolume>>
    BY DEF Book!vars
  <2>1. ASSUME NEW o \in OrderAdd, OnOrderAdd(o) \/ DropOrderAdd(o) PROVE Book!Next
    <3>1. Book!Submit(o)
      BY <2>1, ReceiveSubmits
    <3>2. o \in Book!Order
      BY DEF Book!Order, OrderAdd, Sides
    <3>3. QED
      BY <3>1, <3>2 DEF Book!Next
  <2>2. CASE Match
    BY <2>2, MatchTrades DEF Book!Next
  <2>3. CASE FinishOrderAdd
    BY <2>3, FinishCloses DEF Book!Next
  <2>4. ASSUME NEW c \in OrderCancel, OnOrderCancel(c) PROVE Book!Next
    <3>1. Book!Withdraw(c.userId, c.ticker, c.orderId)
      BY <2>4, CancelWithdraws
    <3>2. c.userId \in UserIds /\ c.ticker \in Tickers /\ c.orderId \in OrderIds
      BY DEF OrderCancel
    <3>3. QED
      BY <3>1, <3>2 DEF Book!Next
  <2>5. CASE UNCHANGED vars
    <3>1. log' = log /\ call' = call /\ executed' = executed /\ cancelledBy' = cancelledBy
      BY <2>5 DEF vars
    <3>2. HistoryVolumes' = HistoryVolumes
      BY <3>1 DEF HistoryVolumes, Open, NextArrival
    <3>3. QED
      BY <3>1, <3>2 DEF TakerArrival, TakerVolume
  <2>6. QED
    BY <2>1, <2>2, <2>3, <2>4, <2>5 DEF Next, RejectCancel
<1>3. TypeOK /\ History => Same
  BY OpenVolumesByHistory
<1> HIDE DEF Same
<1>4. QED
  BY <1>1, <1>2, <1>3, TypeCorrect, HistoryInvariant, IndexInvariantHolds, PTL
     DEF Spec, ImplementsLimitOrderBook, Book!Spec

-----------------------------------------------------------------------------
(* What others may rely on, by the history. *)

Sound == TypeOK /\ History /\ IndexInvariant

\* The three invariants hold initially.
LEMMA SoundInit == Init => Sound
BY TypeInit, HistoryInit, IndexInit DEF Sound

\* Every step keeps them, when ids are not reused.
LEMMA SoundStep ==
  ASSUME ~ReuseLiveIds, Sound, [Next]_vars
  PROVE  Sound'
<1>1. TypeOK /\ History /\ IndexInvariant
  BY DEF Sound
<1>2. TypeOK'
  BY <1>1, TypeStep
<1>3. History'
  BY <1>1, HistoryStep
<1>4. IndexInvariant'
  BY <1>1, IndexStep
<1>5. QED
  BY <1>2, <1>3, <1>4 DEF Sound

\* An id that no order of the log has is not the id of a resting order.
LEMMA FreshId ==
  ASSUME Sound, NEW t \in INSTRUMENTS, NEW id,
         \A a \in 1..Len(log) : log[a].orderId # id
  PROVE  id \notin LiveIds(t)
<1> SUFFICES ASSUME id \in LiveIds(t) PROVE FALSE
  OBVIOUS
<1>1. TypeOK /\ Queued
  BY DEF Sound, History
<1>2. IdRests(t, id)
  BY <1>1, LiveIdsRest
<1>3. PICK side \in Sides, p \in Price :
        \E i \in 1..Len(Queue(t, side, p)) : Queue(t, side, p)[i].orderId = id
  BY <1>2 DEF IdRests
<1>4. PICK i \in 1..Len(Queue(t, side, p)) : Queue(t, side, p)[i].orderId = id
  BY <1>3
<1>5. PICK r : r = Queue(t, side, p)[i]
  OBVIOUS
<1>6. r.arrival \in 1..Len(log) /\ log[r.arrival].orderId = r.orderId
  BY <1>1, <1>5, QueuedRecord, SMTT(20)
<1>7. QED
  BY <1>4, <1>5, <1>6

\* The orders with volume left, the one in progress included.
Unfilled ==
  {a \in 1..Len(log) : /\ log[a].ticker \in INSTRUMENTS
                       /\ a \notin DOMAIN cancelledBy
                       /\ executed[a] < log[a].volume}

\* What rests, and what the order in progress has left.
Standing ==
  {[orderId |-> r.order.orderId, ticker |-> r.ticker, side |-> r.side,
    price |-> r.price, volume |-> r.order.volume] : r \in Resting}
  \cup (IF call # None /\ call.remaining > 0
        THEN {[orderId |-> call.order.orderId, ticker |-> call.order.ticker,
               side |-> call.order.side, price |-> call.order.price,
               volume |-> call.remaining]}
        ELSE {})

\* What the log says that an order has left.
LeftOf(a) ==
  [orderId |-> log[a].orderId, ticker |-> log[a].ticker, side |-> log[a].side,
   price |-> log[a].price, volume |-> log[a].volume - executed[a]]

\* What stands in the engines is what the log says is left.
LEMMA StandingByHistory ==
  ASSUME Sound
  PROVE  Standing = {LeftOf(a) : a \in Unfilled}
<1>1. TypeOK /\ History /\ Queued
  BY DEF Sound, History
<1>2. ASSUME NEW s \in Standing PROVE \E a \in Unfilled : s = LeftOf(a)
  <2>1. CASE \E r \in Resting : s = [orderId |-> r.order.orderId, ticker |-> r.ticker,
                                     side |-> r.side, price |-> r.price,
                                     volume |-> r.order.volume]
    <3>1. PICK r \in Resting : s = [orderId |-> r.order.orderId, ticker |-> r.ticker,
                                    side |-> r.side, price |-> r.price,
                                    volume |-> r.order.volume]
      BY <2>1
    <3>2. PICK u \in INSTRUMENTS, side \in Sides, p \in Price :
            \E i \in 1..Len(Queue(u, side, p)) :
              r = [ticker |-> u, side |-> side, price |-> p, order |-> Queue(u, side, p)[i]]
      BY <1>1, RestingIsQueued
    <3>3. PICK i \in 1..Len(Queue(u, side, p)) :
            r = [ticker |-> u, side |-> side, price |-> p, order |-> Queue(u, side, p)[i]]
      BY <3>2
    <3>4. PICK q : q = Queue(u, side, p)[i]
      OBVIOUS
    <3>5. s = [orderId |-> q.orderId, ticker |-> u, side |-> side, price |-> p,
               volume |-> q.volume]
      BY <3>1, <3>3, <3>4
    <3>6. PICK a : a = q.arrival
      OBVIOUS
    <3>7. /\ a \in 1..Len(log) /\ a \notin DOMAIN cancelledBy
          /\ log[a].ticker = u /\ log[a].side = side /\ log[a].price = p
          /\ log[a].orderId = q.orderId
          /\ q.volume \in Nat \ {0} /\ log[a].volume = executed[a] + q.volume
      BY <1>1, <3>4, <3>6, QueuedRecord, SMTT(20)
    <3>8. executed[a] \in Nat
      BY <1>1, <3>7 DEF TypeOK
    <3>9. executed[a] < log[a].volume /\ log[a].volume - executed[a] = q.volume
      BY <3>7, <3>8
    <3>10. a \in Unfilled
      BY <3>7, <3>9, Zenon DEF Unfilled
    <3>11. s = LeftOf(a)
      BY <3>5, <3>7, <3>9, Zenon DEF LeftOf
    <3>12. QED
      BY <3>10, <3>11
  <2>2. CASE /\ call # None /\ call.remaining > 0
             /\ s = [orderId |-> call.order.orderId, ticker |-> call.order.ticker,
                     side |-> call.order.side, price |-> call.order.price,
                     volume |-> call.remaining]
    <3>1. PICK a, left : a = call.arrival /\ left = call.remaining
      OBVIOUS
    <3>2. /\ a \in 1..Len(log) /\ log[a] = call.order /\ a \notin DOMAIN cancelledBy
          /\ executed[a] + left = log[a].volume
      BY <1>1, <2>2, <3>1, Zenon DEF History, CallOK
    <3>3. left \in Int /\ left > 0 /\ log[a].ticker \in INSTRUMENTS
      <4>1. call \in Call /\ call.order.ticker \in INSTRUMENTS
        BY <1>1, <2>2 DEF TypeOK
      <4>2. QED
        BY <2>2, <3>1, <3>2, <4>1 DEF Call
    <3>4. executed[a] \in Nat
      BY <1>1, <3>2 DEF TypeOK
    <3>5. executed[a] < log[a].volume /\ log[a].volume - executed[a] = left
      BY <3>2, <3>3, <3>4
    <3>6. a \in Unfilled
      BY <3>2, <3>3, <3>5, Zenon DEF Unfilled
    <3>7. s = LeftOf(a)
      BY <2>2, <3>1, <3>2, <3>5, Zenon DEF LeftOf
    <3>8. QED
      BY <3>6, <3>7
  <2>3. QED
    BY <2>1, <2>2 DEF Standing
<1>3. ASSUME NEW a \in Unfilled PROVE LeftOf(a) \in Standing
  <2>1. /\ a \in 1..Len(log) /\ log[a].ticker \in INSTRUMENTS
        /\ a \notin DOMAIN cancelledBy /\ executed[a] < log[a].volume
    BY DEF Unfilled
  <2>2. CASE call # None /\ a = call.arrival
    <3>1. PICK left : left = call.remaining
      OBVIOUS
    <3>2. log[a] = call.order /\ executed[a] + left = log[a].volume
      BY <1>1, <2>2, <3>1, Zenon DEF History, CallOK
    <3>3. left \in Int
      BY <1>1, <2>2, <3>1 DEF TypeOK, Call
    <3>4. executed[a] \in Nat
      BY <1>1, <2>1 DEF TypeOK
    <3>5. left > 0 /\ log[a].volume - executed[a] = left
      BY <2>1, <3>2, <3>3, <3>4
    <3>6. LeftOf(a) = [orderId |-> call.order.orderId, ticker |-> call.order.ticker,
                       side |-> call.order.side, price |-> call.order.price,
                       volume |-> call.remaining]
      BY <3>1, <3>2, <3>5, Zenon DEF LeftOf
    <3>7. QED
      BY <2>2, <3>1, <3>5, <3>6, Zenon DEF Standing
  <2>3. CASE ~(call # None /\ a = call.arrival)
    <3>1. a < NextArrival
      <4>1. Len(log) \in Nat /\ (call # None => call.arrival = Len(log))
        BY <1>1 DEF TypeOK, History, CallOK
      <4>2. QED
        BY <2>1, <2>3, <4>1 DEF NextArrival
    <3>2. Live(a)
      <4>1. Open(a)
        BY <2>1, <3>1 DEF Open
      <4>2. QED
        BY <1>1, <4>1, OpenIsLive
    <3>3. PICK u \in INSTRUMENTS, side \in Sides, p \in Price :
            \E i \in 1..Len(Queue(u, side, p)) : Queue(u, side, p)[i].arrival = a
      BY <3>2 DEF Live
    <3>4. PICK i \in 1..Len(Queue(u, side, p)) : Queue(u, side, p)[i].arrival = a
      BY <3>3
    <3>5. PICK q : q = Queue(u, side, p)[i]
      OBVIOUS
    <3>6. /\ log[q.arrival].ticker = u /\ log[q.arrival].side = side
          /\ log[q.arrival].price = p /\ log[q.arrival].orderId = q.orderId
          /\ q.volume \in Nat \ {0}
          /\ log[q.arrival].volume = executed[q.arrival] + q.volume
      BY <1>1, <3>5, QueuedRecord, SMTT(20)
    <3>7. q.arrival = a
      BY <3>4, <3>5, Zenon
    <3>8. executed[a] \in Nat
      BY <1>1, <2>1 DEF TypeOK
    <3>9. log[a].volume - executed[a] = q.volume
      BY <3>6, <3>7, <3>8
    <3>10. LeftOf(a) = [orderId |-> q.orderId, ticker |-> u, side |-> side, price |-> p,
                        volume |-> q.volume]
      BY <3>6, <3>7, <3>9, Zenon DEF LeftOf
    <3>11. PICK r \in Resting :
             r = [ticker |-> u, side |-> side, price |-> p, order |-> q]
      BY <1>1, <3>5, RestingIsQueued, Zenon
    <3>12. LeftOf(a) = [orderId |-> r.order.orderId, ticker |-> r.ticker, side |-> r.side,
                        price |-> r.price, volume |-> r.order.volume]
      BY <3>10, <3>11
    <3>13. QED
      BY <3>12, Zenon DEF Standing
  <2>4. QED
    BY <2>2, <2>3
<1>4. QED
  BY <1>2, <1>3, Zenon

\* An order, by its number, that a cancel names with its user and ticker.
Names(c, a) == log[a].userId = c.userId /\ log[a].ticker = c.ticker /\ log[a].orderId = c.orderId

\* A cancel takes off the orders it names and no others.
LEMMA CancelTakes ==
  ASSUME Sound, NEW c \in OrderCancel, OnOrderCancel(c)
  PROVE  /\ log' = log /\ executed' = executed
         /\ Unfilled' = {a \in Unfilled : ~Names(c, a)}
<1>1. TypeOK /\ History /\ IndexInvariant
  BY DEF Sound
<1>2. call = None /\ log' = log /\ executed' = executed
  BY ZenonT(30) DEF OnOrderCancel
<1>3. DOMAIN cancelledBy' = DOMAIN cancelledBy \cup Erased(c)
  BY <1>1, CancelRecords
<1>4. ASSUME NEW a \in Unfilled PROVE a \in Erased(c) <=> Names(c, a)
  <2>1. Open(a)
    BY <1>1, <1>2 DEF TypeOK, Unfilled, Open, NextArrival
  <2>2. QED
    BY <1>1, <2>1, ErasedAreTheirs, Zenon DEF Names
<1>5. Unfilled' = {a \in Unfilled : a \notin Erased(c)}
  BY <1>2, <1>3 DEF Unfilled
<1>6. QED
  BY <1>2, <1>4, <1>5, Zenon

\* A cancel that is rejected names no order with volume left.
LEMMA RejectedNamesNone ==
  ASSUME Sound, NEW c, RejectCancel(c), NEW a \in Unfilled
  PROVE  ~Names(c, a)
<1> SUFFICES ASSUME Names(c, a) PROVE Cancellable(c)
  BY DEF RejectCancel
<1>1. TypeOK /\ History /\ Queued /\ IndexInvariant /\ call = None
  BY DEF Sound, History, RejectCancel
<1>2. Live(a)
  <2>1. Open(a)
    BY <1>1 DEF TypeOK, Unfilled, Open, NextArrival
  <2>2. QED
    BY <1>1, <2>1, OpenIsLive
<1>3. PICK u \in INSTRUMENTS, side \in Sides, p \in Price :
        \E i \in 1..Len(Queue(u, side, p)) : Queue(u, side, p)[i].arrival = a
  BY <1>2 DEF Live
<1>4. PICK i \in 1..Len(Queue(u, side, p)) : Queue(u, side, p)[i].arrival = a
  BY <1>3
<1>5. PICK q : q = Queue(u, side, p)[i]
  OBVIOUS
<1>6. /\ log[q.arrival].ticker = u /\ log[q.arrival].orderId = q.orderId
      /\ log[q.arrival].userId = q.userId
  BY <1>1, <1>5, QueuedRecord, SMTT(20)
<1>7. c.ticker = u /\ c.orderId = q.orderId /\ c.userId = q.userId
  BY <1>4, <1>5, <1>6, Zenon DEF Names
<1>8. Indexed(orderIndex[u], side, p, Queue(u, side, p))
  BY <1>1 DEF IndexInvariant
<1>9. /\ q.orderId \in DOMAIN orderIndex[u]
      /\ orderIndex[u][q.orderId] = [side |-> side, price |-> p, userId |-> q.userId]
  BY <1>5, <1>8, Zenon DEF Indexed
<1>10. QED
  BY <1>7, <1>9 DEF Cancellable

\* A trade takes its volume off two orders that have at least as much left.
LEMMA TradeTakes ==
  ASSUME Sound, Match
  PROVE  /\ NextTrade \in [maker : UserIds, taker : UserIds, makerOrderId : OrderIds,
                           takerOrderId : OrderIds, ticker : INSTRUMENTS,
                           takerSide : Sides, price : Price, volume : Nat \ {0}]
         /\ Parties(NextTrade, Maker.arrival, call.arrival)
         /\ Maker.arrival \notin DOMAIN cancelledBy /\ call.arrival \notin DOMAIN cancelledBy
         /\ log' = log /\ cancelledBy' = cancelledBy
         /\ executed' = [a \in DOMAIN executed |->
                           IF a \in {Maker.arrival, call.arrival}
                           THEN executed[a] + NextTrade.volume ELSE executed[a]]
<1>1. TypeOK /\ History /\ Queued
  BY DEF Sound, History
<1>2. call # None /\ Matches(call.order, call.remaining, Opposing)
  BY Zenon DEF Match
<1>3. /\ NextTrade \in [maker : UserIds, taker : UserIds, makerOrderId : OrderIds,
                        takerOrderId : OrderIds, ticker : INSTRUMENTS,
                        takerSide : Sides, price : Price, volume : Nat \ {0}]
      /\ Parties(NextTrade, Maker.arrival, call.arrival)
  BY <1>1, <1>2, NextTradeParties, Zenon
<1>4. call.arrival \notin DOMAIN cancelledBy
  BY <1>1, <1>2 DEF History, CallOK
<1>5. Maker.arrival \notin DOMAIN cancelledBy
  <2>1. /\ call.order.ticker \in INSTRUMENTS /\ MakerSide \in Sides /\ MakerPrice \in Price
        /\ MakerQueue = Queue(call.order.ticker, MakerSide, MakerPrice)
    BY <1>1, MatchQueues, Zenon DEF MakerQueue
  <2>2. PICK u \in INSTRUMENTS, side \in Sides, p \in Price :
          u = call.order.ticker /\ side = MakerSide /\ p = MakerPrice
    BY <2>1, Zenon
  <2>3. 1 \in 1..Len(Queue(u, side, p)) /\ Maker = Queue(u, side, p)[1]
    BY <1>1, <2>1, <2>2, MakerFirst, Zenon
  <2>4. QED
    BY <1>1, <2>3, QueuedRecord, SMTT(20)
<1>6. NextTrade.volume = Traded(call.remaining, Maker)
  BY DEF NextTrade
<1>7. /\ log' = log /\ cancelledBy' = cancelledBy
      /\ executed' = [a \in DOMAIN executed |->
                        IF a \in {Maker.arrival, call.arrival}
                        THEN executed[a] + Traded(call.remaining, Maker) ELSE executed[a]]
  BY Zenon DEF Match
<1>8. QED
  BY <1>3, <1>4, <1>5, <1>6, <1>7, Zenon

\* The history is typed.
Recorded ==
  /\ log \in Seq(OrderAdd) /\ executed \in Seq(Nat) /\ Len(executed) = Len(log)
  /\ DOMAIN cancelledBy \subseteq 1..Len(log)

\* What a cancel, accepted or rejected, does to the history.
CancelEffect(c) ==
  /\ log' = log /\ executed' = executed
  /\ Unfilled' = {a \in Unfilled : ~Names(c, a)}

\* What a trade does to it.
TradeEffect(trade) ==
  /\ trade \in [maker : UserIds, taker : UserIds, makerOrderId : OrderIds,
                takerOrderId : OrderIds, ticker : INSTRUMENTS,
                takerSide : Sides, price : Price, volume : Nat \ {0}]
  /\ \E m, t :
       /\ Parties(trade, m, t)
       /\ m \notin DOMAIN cancelledBy /\ t \notin DOMAIN cancelledBy
       /\ log' = log /\ cancelledBy' = cancelledBy
       /\ executed' = [a \in DOMAIN executed |->
                         IF a \in {m, t} THEN executed[a] + trade.volume ELSE executed[a]]

\* In a sound state the history is typed, and it says what stands.
LEMMA SoundState ==
  ASSUME Sound
  PROVE  Recorded /\ Standing = {LeftOf(a) : a \in Unfilled}
<1>1. Recorded
  BY DEF Sound, TypeOK, History, AllAccounted, Recorded
<1>2. QED
  BY <1>1, StandingByHistory, Zenon

\* An order whose id no earlier order had may be submitted.
LEMMA NewIdMaySubmit ==
  ASSUME Sound, NEW o \in OrderAdd, Len(log) < MaxOrders,
         \A a \in 1..Len(log) : log[a].orderId # o.orderId
  PROVE  MaySubmit(o)
<1>1. ASSUME o.ticker \in INSTRUMENTS PROVE o.orderId \notin LiveIds(o.ticker)
  BY <1>1, FreshId, Zenon
<1>2. QED
  BY <1>1, Zenon DEF MaySubmit

\* From a sound state, what a cancel and a trade do.
LEMMA SoundSteps ==
  ASSUME Sound
  PROVE  /\ \A c \in OrderCancel : OnOrderCancel(c) \/ RejectCancel(c) => CancelEffect(c)
         /\ Match => TradeEffect(NextTrade)
<1>1. ASSUME NEW c \in OrderCancel, OnOrderCancel(c) PROVE CancelEffect(c)
  BY <1>1, CancelTakes, Zenon DEF CancelEffect
<1>2. ASSUME NEW c \in OrderCancel, RejectCancel(c) PROVE CancelEffect(c)
  <2>1. ASSUME NEW a \in Unfilled PROVE ~Names(c, a)
    BY <1>2, RejectedNamesNone, Zenon
  <2>2. log' = log /\ executed' = executed /\ cancelledBy' = cancelledBy
    BY <1>2, Zenon DEF RejectCancel, vars
  <2>3. Unfilled' = Unfilled
    BY <2>2, Zenon DEF Unfilled
  <2>4. Unfilled = {a \in Unfilled : ~Names(c, a)}
    BY <2>1, Zenon
  <2>5. QED
    BY <2>2, <2>3, <2>4, Zenon DEF CancelEffect
<1>3. ASSUME Match PROVE TradeEffect(NextTrade)
  <2>1. /\ NextTrade \in [maker : UserIds, taker : UserIds, makerOrderId : OrderIds,
                          takerOrderId : OrderIds, ticker : INSTRUMENTS,
                          takerSide : Sides, price : Price, volume : Nat \ {0}]
        /\ Parties(NextTrade, Maker.arrival, call.arrival)
        /\ Maker.arrival \notin DOMAIN cancelledBy /\ call.arrival \notin DOMAIN cancelledBy
        /\ log' = log /\ cancelledBy' = cancelledBy
        /\ executed' = [a \in DOMAIN executed |->
                          IF a \in {Maker.arrival, call.arrival}
                          THEN executed[a] + NextTrade.volume ELSE executed[a]]
    BY <1>3, TradeTakes, Zenon
  <2>2. \E m, t :
          /\ Parties(NextTrade, m, t)
          /\ m \notin DOMAIN cancelledBy /\ t \notin DOMAIN cancelledBy
          /\ log' = log /\ cancelledBy' = cancelledBy
          /\ executed' = [a \in DOMAIN executed |->
                            IF a \in {m, t} THEN executed[a] + NextTrade.volume ELSE executed[a]]
    <3> WITNESS Maker.arrival, call.arrival
    <3>1. QED
      BY <2>1, Zenon
  <2>3. QED
    BY <2>1, <2>2, Zenon DEF TradeEffect
<1>4. QED
  BY <1>1, <1>2, <1>3, Zenon
=============================================================================
