------------------------ MODULE RouterHistoryProofs ------------------------
(***************************************************************************)
(* Theorems that relate the books of MatchingEngineRouter to their history:  *)
(* which order rests where, with what volume and behind whom.  A book is     *)
(* seen through its queues, one for every side and price, empty when the     *)
(* side has no such level.                                                  *)
(***************************************************************************)
EXTENDS MatchingEngineRouterProofs

-----------------------------------------------------------------------------
(* The queues of the router's books, and what each operation makes of them. *)

Queue(u, side, p) == LevelAt(book[u][side], p)

\* A queue holds resting orders, and is not empty where the side has a level.
LEMMA QueueType ==
  ASSUME TypeOK, NEW u \in INSTRUMENTS, NEW side \in Sides, NEW p
  PROVE  /\ Queue(u, side, p) \in Seq(RestingOrder)
         /\ Len(Queue(u, side, p)) \in Nat
         /\ Queue(u, side, p) # <<>> <=> p \in DOMAIN book[u][side]
         /\ p \in DOMAIN book[u][side] => p \in Price /\ book[u][side][p] = Queue(u, side, p)
<1>1. LevelsOK(book[u][side])
  BY DEF TypeOK
<1>2. /\ Queue(u, side, p) \in Seq(RestingOrder)
      /\ Queue(u, side, p) # <<>> <=> p \in DOMAIN book[u][side]
  BY <1>1, LevelAtOK DEF Queue
<1>3. p \in DOMAIN book[u][side] => p \in Price /\ book[u][side][p] = Queue(u, side, p)
  BY <1>1 DEF LevelsOK, Queue, LevelAt
<1>4. QED
  BY <1>2, <1>3

\* The taker's opponents: ticker and side of the book, and the best price.
MakerSide == Opposite(call.order.side)
MakerPrice == BestPrice(MakerSide, book[call.order.ticker][MakerSide])
MakerQueue == Queue(call.order.ticker, MakerSide, MakerPrice)
Fill == Traded(call.remaining, Maker)

\* Match changes the queue that the maker is the head of.
LEMMA MatchQueues ==
  ASSUME TypeOK, Match
  PROVE  /\ call \in Call /\ call.order.ticker \in INSTRUMENTS
         /\ MakerSide \in Sides /\ MakerPrice \in Price
         /\ MakerPrice \in DOMAIN book[call.order.ticker][MakerSide]
         /\ \A q \in DOMAIN book[call.order.ticker][MakerSide] :
              NoWorse(MakerSide, MakerPrice, q)
         /\ MakerQueue \in Seq(RestingOrder) /\ MakerQueue # <<>>
         /\ Maker = Head(MakerQueue) /\ Maker \in RestingOrder
         /\ Fill \in Nat \ {0} /\ Fill <= Maker.volume /\ Fill <= call.remaining
         /\ \A u \in INSTRUMENTS, side \in Sides, p \in Price :
              Queue(u, side, p)' =
                IF u = call.order.ticker /\ side = MakerSide /\ p = MakerPrice
                THEN FillFront(MakerQueue, Fill) ELSE Queue(u, side, p)
<1> DEFINE t == call.order.ticker
           s == MakerSide
           filled == FillBest(s, book[t][s], Fill)
<1>1. /\ call \in Call /\ t \in INSTRUMENTS /\ s \in Sides
      /\ LevelsOK(book[t][s]) /\ DOMAIN book[t][s] # {}
      /\ Maker = Head(book[t][s][MakerPrice])
      /\ Maker \in RestingOrder
      /\ Fill \in Nat \ {0} /\ Fill <= Maker.volume /\ Fill <= call.remaining
  BY MatchFacts, ZenonT(30) DEF Match, MakerSide, MakerPrice, Fill
<1>2. /\ MakerPrice \in Price /\ MakerPrice \in DOMAIN book[t][s]
      /\ \A q \in DOMAIN book[t][s] : NoWorse(s, MakerPrice, q)
  BY <1>1, BestPriceIsBest, ZenonT(30) DEF LevelsOK, MakerPrice
<1>3. /\ MakerQueue \in Seq(RestingOrder) /\ MakerQueue # <<>>
      /\ book[t][s][MakerPrice] = MakerQueue
  BY <1>1, <1>2, QueueType DEF MakerQueue
<1>4. book' = [book EXCEPT ![t][s] = filled]
  BY DEF Match, Fill, MakerSide
<1>5. book = [u \in INSTRUMENTS |-> [side \in Sides |-> book[u][side]]]
  BY DEF TypeOK
<1>6. \A q : LevelAt(filled, q) =
        IF q = MakerPrice THEN FillFront(LevelAt(book[t][s], q), Fill)
        ELSE LevelAt(book[t][s], q)
  <2>1. ASSUME NEW q
        PROVE  LevelAt(filled, q) =
                 IF q = BestPrice(s, book[t][s]) THEN FillFront(LevelAt(book[t][s], q), Fill)
                 ELSE LevelAt(book[t][s], q)
    BY <1>1, FillBestAt, SMTT(20)
  <2>2. QED
    BY <2>1, Zenon DEF MakerPrice
<1> HIDE DEF t, s, filled
<1>7. \A u \in INSTRUMENTS : \A side \in Sides :
        book'[u][side] = IF u = t /\ side = s THEN filled ELSE book[u][side]
  BY <1>1, <1>4, <1>5
<1>8. ASSUME NEW u \in INSTRUMENTS, NEW side \in Sides, NEW p \in Price
      PROVE  Queue(u, side, p)' =
               IF u = t /\ side = s /\ p = MakerPrice
               THEN FillFront(MakerQueue, Fill) ELSE Queue(u, side, p)
  <2>1. Queue(u, side, p)' = LevelAt(book'[u][side], p)
    BY DEF Queue, LevelAt
  <2>2. CASE u = t /\ side = s
    <3>1. LevelAt(book'[u][side], p) = LevelAt(filled, p)
      BY <1>7, <2>2
    <3>2. MakerQueue = LevelAt(book[t][s], MakerPrice) /\ Queue(u, side, p) = LevelAt(book[t][s], p)
      BY <2>2 DEF MakerQueue, Queue, t, s
    <3>3. QED
      BY <1>6, <2>1, <2>2, <3>1, <3>2
  <2>3. CASE ~(u = t /\ side = s)
    BY <1>7, <2>1, <2>3 DEF Queue
  <2>4. QED
    BY <2>2, <2>3
<1>9. QED
  BY <1>1, <1>2, <1>3, <1>8 DEF t, s

\* The order that rests at the end of a call.
Remainder == [orderId |-> call.order.orderId, userId |-> call.order.userId,
              volume |-> call.remaining, arrival |-> call.arrival]

\* FinishOrderAdd appends the remainder to the queue of its price.
LEMMA FinishQueues ==
  ASSUME TypeOK, FinishOrderAdd
  PROVE  /\ call \in Call /\ call.order \in OrderAdd
         /\ call.order.ticker \in INSTRUMENTS /\ call.order.side \in Sides
         /\ call.order.price \in Price /\ call.order.price \in Prices
         /\ call.remaining > 0 => Remainder \in RestingOrder
         /\ \A u \in INSTRUMENTS, side \in Sides, p \in Price :
              Queue(u, side, p)' =
                IF /\ call.remaining > 0 /\ u = call.order.ticker
                   /\ side = call.order.side /\ p = call.order.price
                THEN Append(Queue(u, side, p), Remainder) ELSE Queue(u, side, p)
<1> DEFINE o == call.order
           rested == Rest(book[o.ticker][o.side], o.price, Remainder)
<1>1. call \in Call /\ o \in OrderAdd /\ o.ticker \in INSTRUMENTS
  BY BookWithRemainderOK DEF FinishOrderAdd
<1>2. o.side \in Sides /\ o.price \in Price /\ o.price \in Prices
  BY <1>1, RouterAssumption DEF OrderAdd
<1>3. call.remaining > 0 => Remainder \in RestingOrder
  BY <1>1 DEF Call, OrderAdd, RestingOrder, Remainder
<1>4. book = [u \in INSTRUMENTS |-> [side \in Sides |-> book[u][side]]]
  BY DEF TypeOK
<1>5. CASE call.remaining > 0
  <2>1. book' = [book EXCEPT ![o.ticker] = [book[o.ticker] EXCEPT ![o.side] = rested]]
    BY <1>5, Zenon DEF FinishOrderAdd, BookWithRemainder, Remainder
  <2>2. ASSUME NEW q
        PROVE  LevelAt(rested, q) =
                 IF q = o.price THEN Append(LevelAt(book[o.ticker][o.side], q), Remainder)
                 ELSE LevelAt(book[o.ticker][o.side], q)
    <3> DEFINE levels == book[o.ticker][o.side]
               place == o.price
    <3> HIDE DEF levels, place
    <3>1. LevelAt(Rest(levels, place, Remainder), q) =
            IF q = place THEN Append(LevelAt(levels, q), Remainder) ELSE LevelAt(levels, q)
      BY RestAt
    <3>2. QED
      BY <3>1 DEF levels, place
  <2> HIDE DEF rested, o
  <2>3. \A u \in INSTRUMENTS : \A side \in Sides :
          book'[u][side] = IF u = o.ticker /\ side = o.side THEN rested ELSE book[u][side]
    BY <1>1, <1>2, <1>4, <2>1
  <2>4. ASSUME NEW u \in INSTRUMENTS, NEW side \in Sides, NEW p \in Price
        PROVE  Queue(u, side, p)' =
                 IF u = o.ticker /\ side = o.side /\ p = o.price
                 THEN Append(Queue(u, side, p), Remainder) ELSE Queue(u, side, p)
    <3>1. Queue(u, side, p)' = LevelAt(book'[u][side], p)
      BY DEF Queue, LevelAt
    <3>2. Queue(u, side, p) = LevelAt(book[u][side], p)
      BY DEF Queue
    <3>3. CASE u = o.ticker /\ side = o.side
      <4>1. LevelAt(book'[u][side], p) = LevelAt(rested, p)
        BY <2>3, <3>3
      <4>2. QED
        BY <2>2, <3>1, <3>2, <3>3, <4>1
    <3>4. CASE ~(u = o.ticker /\ side = o.side)
      BY <2>3, <3>1, <3>2, <3>4
    <3>5. QED
      BY <3>3, <3>4
  <2>5. QED
    BY <1>1, <1>2, <1>3, <1>5, <2>4 DEF o
<1>6. CASE ~(call.remaining > 0)
  <2>1. book' = [book EXCEPT ![o.ticker] = book[o.ticker]]
    BY <1>6, ZenonT(30) DEF FinishOrderAdd, BookWithRemainder
  <2>2. book' = book
    BY <1>1, <1>4, <2>1
  <2>3. \A u, side, p : Queue(u, side, p)' = Queue(u, side, p)
    BY <2>2 DEF Queue, LevelAt
  <2>4. QED
    BY <1>1, <1>2, <1>3, <1>6, <2>3
<1>7. QED
  BY <1>5, <1>6

\* OnOrderCancel erases the id from the queue that the index names.
LEMMA CancelQueues ==
  ASSUME TypeOK, NEW c \in OrderCancel, OnOrderCancel(c),
         NEW at, at = orderIndex[c.ticker][c.orderId]
  PROVE  /\ c.ticker \in INSTRUMENTS
         /\ c.orderId \in DOMAIN orderIndex[c.ticker]
         /\ at \in OrderLocation /\ at.side \in Sides /\ at.price \in Price
         /\ at.userId = c.userId
         /\ \A u \in INSTRUMENTS, side \in Sides, p \in Price :
              Queue(u, side, p)' =
                IF u = c.ticker /\ side = at.side /\ p = at.price
                THEN EraseId(Queue(u, side, p), c.orderId) ELSE Queue(u, side, p)
<1> DEFINE t == c.ticker
           erased == EraseFromBook(book[t][at.side], at.price, c.orderId)
<1>1. /\ t \in INSTRUMENTS /\ c.orderId \in DOMAIN orderIndex[t]
      /\ at \in OrderLocation /\ at.userId = c.userId
  BY Zenon DEF OnOrderCancel, Cancellable, TypeOK
<1>2. at.side \in Sides /\ at.price \in Price
  BY <1>1 DEF OrderLocation
<1>3. book = [u \in INSTRUMENTS |-> [side \in Sides |-> book[u][side]]]
  BY DEF TypeOK
<1>4. book' = [book EXCEPT ![t] = [book[t] EXCEPT ![at.side] = erased]]
  BY ZenonT(30) DEF OnOrderCancel
<1>5. LevelsOK(book[t][at.side])
  BY <1>1, <1>2, ZenonT(30) DEF TypeOK
<1>6. ASSUME NEW q
      PROVE  LevelAt(erased, q) =
               IF q = at.price THEN EraseId(LevelAt(book[t][at.side], q), c.orderId)
               ELSE LevelAt(book[t][at.side], q)
  <2> DEFINE levels == book[t][at.side]
             place == at.price
             id == c.orderId
  <2>1. LevelsOK(levels)
    BY <1>5
  <2> HIDE DEF levels, place, id
  <2>2. LevelAt(EraseFromBook(levels, place, id), q) =
          IF q = place THEN EraseId(LevelAt(levels, q), id) ELSE LevelAt(levels, q)
    BY <2>1, EraseFromBookAt
  <2>3. QED
    BY <2>2, Zenon DEF levels, place, id
<1> HIDE DEF t, erased
<1>7. \A u \in INSTRUMENTS : \A side \in Sides :
        book'[u][side] = IF u = t /\ side = at.side THEN erased ELSE book[u][side]
  BY <1>1, <1>2, <1>3, <1>4
<1>8. ASSUME NEW u \in INSTRUMENTS, NEW side \in Sides, NEW p \in Price
      PROVE  Queue(u, side, p)' =
               IF u = t /\ side = at.side /\ p = at.price
               THEN EraseId(Queue(u, side, p), c.orderId) ELSE Queue(u, side, p)
  <2>1. Queue(u, side, p)' = LevelAt(book'[u][side], p)
    BY DEF Queue, LevelAt
  <2>2. Queue(u, side, p) = LevelAt(book[u][side], p)
    BY DEF Queue
  <2>3. CASE u = t /\ side = at.side
    <3>1. LevelAt(book'[u][side], p) = LevelAt(erased, p)
      BY <1>7, <2>3
    <3>2. QED
      BY <1>6, <2>1, <2>2, <2>3, <3>1, ZenonT(30)
  <2>4. CASE ~(u = t /\ side = at.side)
    BY <1>7, <2>1, <2>2, <2>4
  <2>5. QED
    BY <2>3, <2>4
<1>9. QED
  BY <1>1, <1>2, <1>8 DEF t

-----------------------------------------------------------------------------
(* The inductive invariant: what a queue holds, given the history. *)

\* The resting order r is what remains of the order that was submitted for
\* that place, received before the one numbered next and never cancelled.
Placed(orders, volumes, gone, next, u, side, p, r) ==
  /\ r.arrival \in 1..Len(orders)
  /\ r.arrival < next
  /\ r.arrival \notin gone
  /\ orders[r.arrival] = [orderId |-> r.orderId, userId |-> r.userId, ticker |-> u,
                          side |-> side, price |-> p,
                          volume |-> volumes[r.arrival] + r.volume]

\* What it says of the log entry.
LEMMA PlacedEntry ==
  ASSUME NEW orders, NEW volumes, NEW gone, NEW next, NEW u, NEW side, NEW p, NEW r,
         Placed(orders, volumes, gone, next, u, side, p, r)
  PROVE  /\ r.arrival \in 1..Len(orders) /\ r.arrival < next
         /\ orders[r.arrival].ticker = u /\ orders[r.arrival].side = side
         /\ orders[r.arrival].price = p /\ orders[r.arrival].userId = r.userId
         /\ orders[r.arrival].volume = volumes[r.arrival] + r.volume
BY DEF Placed

InOrder(level) ==
  \A i, j \in 1..Len(level) : i < j => level[i].arrival < level[j].arrival

QueueOK(orders, volumes, gone, next, u, side, p, level) ==
  /\ InOrder(level)
  /\ \A i \in 1..Len(level) : Placed(orders, volumes, gone, next, u, side, p, level[i])

\* The number of the order in progress, or of the next one to arrive.
NextArrival == IF call = None THEN Len(log) + 1 ELSE call.arrival

Queued ==
  \A u \in INSTRUMENTS, side \in Sides, p \in Price :
    QueueOK(log, executed, DOMAIN cancelledBy, NextArrival, u, side, p, Queue(u, side, p))

\* The order in progress is the last one received, and what it has not
\* traded remains.
CallOK ==
  call # None =>
    /\ call.arrival = Len(log) /\ call.arrival \in 1..Len(log)
    /\ log[call.arrival] = call.order
    /\ executed[call.arrival] + call.remaining = call.order.volume
    /\ executed[call.arrival] = 0 \/ call.remaining >= 0
    /\ call.arrival \notin DOMAIN cancelledBy

Live(a) ==
  \E u \in INSTRUMENTS, side \in Sides, p \in Price :
    \E i \in 1..Len(Queue(u, side, p)) : Queue(u, side, p)[i].arrival = a

\* An order that does not rest any more, and why.
Over(a) ==
  \/ call # None /\ a = call.arrival
  \/ log[a].ticker \notin INSTRUMENTS /\ executed[a] = 0
  \/ log[a].volume <= 0 /\ executed[a] = 0
  \/ log[a].volume > 0 /\ executed[a] = log[a].volume
  \/ a \in DOMAIN cancelledBy /\ executed[a] < log[a].volume

AllAccounted ==
  /\ DOMAIN cancelledBy \subseteq 1..Len(log)
  /\ \A a \in 1..Len(log) : Live(a) \/ Over(a)

History == Queued /\ CallOK /\ AllAccounted

\* The order at a place of a queue, under the invariant.
LEMMA QueuedOrder ==
  ASSUME TypeOK, Queued, NEW u \in INSTRUMENTS, NEW side \in Sides, NEW p \in Price,
         NEW i \in 1..Len(Queue(u, side, p))
  PROVE  /\ Queue(u, side, p)[i] \in RestingOrder
         /\ Placed(log, executed, DOMAIN cancelledBy, NextArrival,
                   u, side, p, Queue(u, side, p)[i])
<1>1. Queue(u, side, p) \in Seq(RestingOrder)
  BY QueueType
<1>2. QueueOK(log, executed, DOMAIN cancelledBy, NextArrival,
              u, side, p, Queue(u, side, p))
  BY DEF Queued
<1>3. QED
  BY <1>1, <1>2 DEF QueueOK

\* What the log says of a queued order.
LEMMA QueuedEntry ==
  ASSUME TypeOK, Queued, NEW u \in INSTRUMENTS, NEW side \in Sides, NEW p \in Price,
         NEW i \in 1..Len(Queue(u, side, p))
  PROVE  LET r == Queue(u, side, p)[i]
         IN  /\ r.arrival \in 1..Len(log) /\ r.arrival < NextArrival
             /\ log[r.arrival].ticker = u /\ log[r.arrival].side = side
             /\ log[r.arrival].price = p /\ log[r.arrival].userId = r.userId
<1> DEFINE r == Queue(u, side, p)[i]
<1>1. Placed(log, executed, DOMAIN cancelledBy, NextArrival, u, side, p, r)
  BY QueuedOrder
<1> HIDE DEF r
<1>2. /\ r.arrival \in 1..Len(log) /\ r.arrival < NextArrival
      /\ log[r.arrival].ticker = u /\ log[r.arrival].side = side
      /\ log[r.arrival].price = p /\ log[r.arrival].userId = r.userId
  BY <1>1, PlacedEntry
<1>3. QED
  BY <1>2 DEF r

\* No order rests at two places.
LEMMA OnePlace ==
  ASSUME TypeOK, Queued,
         NEW u \in INSTRUMENTS, NEW side \in Sides, NEW p \in Price,
         NEW i \in 1..Len(Queue(u, side, p)),
         NEW v \in INSTRUMENTS, NEW vside \in Sides, NEW q \in Price,
         NEW j \in 1..Len(Queue(v, vside, q)),
         Queue(u, side, p)[i].arrival = Queue(v, vside, q)[j].arrival
  PROVE  u = v /\ side = vside /\ p = q /\ i = j
<1> DEFINE r == Queue(u, side, p)[i]
           w == Queue(v, vside, q)[j]
<1>1. /\ Placed(log, executed, DOMAIN cancelledBy, NextArrival, u, side, p, r)
      /\ Placed(log, executed, DOMAIN cancelledBy, NextArrival, v, vside, q, w)
      /\ r \in RestingOrder
  BY QueuedOrder
<1>2. r.arrival = w.arrival
  OBVIOUS
<1>3. u = v /\ side = vside /\ p = q
  <2> HIDE DEF r, w
  <2>1. /\ log[r.arrival].ticker = u /\ log[r.arrival].side = side
        /\ log[r.arrival].price = p
    BY <1>1 DEF Placed
  <2>2. /\ log[w.arrival].ticker = v /\ log[w.arrival].side = vside
        /\ log[w.arrival].price = q
    BY <1>1 DEF Placed
  <2>3. QED
    BY <1>2, <2>1, <2>2
<1>4. i = j
  <2>1. InOrder(Queue(u, side, p)) /\ r.arrival \in Nat
    BY <1>1 DEF Queued, QueueOK, RestingOrder
  <2>2. i \in Nat /\ j \in Nat
    BY <1>3, QueueType
  <2>3. /\ i < j => r.arrival < w.arrival
        /\ j < i => w.arrival < r.arrival
    BY <1>3, <2>1 DEF InOrder
  <2> HIDE DEF r, w
  <2>4. QED
    BY <1>2, <2>1, <2>2, <2>3
<1>5. QED
  BY <1>3, <1>4

-----------------------------------------------------------------------------
(* Every step keeps the invariant. *)

\* An order is received, for matching or to be dropped.
LEMMA ReceiveKeepsHistory ==
  ASSUME TypeOK, History, NEW o \in OrderAdd, Receive(o),
         \/ call' = [order |-> o, remaining |-> o.volume, arrival |-> Len(log) + 1]
         \/ call' = call /\ o.ticker \notin INSTRUMENTS
  PROVE  History'
<1> DEFINE n == Len(log)
<1>1. /\ n \in Nat /\ log \in Seq(OrderAdd) /\ executed \in Seq(Nat) /\ Len(executed) = n
      /\ call = None
  BY DEF TypeOK, Receive
<1>2. /\ Len(log') = n + 1 /\ log'[n + 1] = o
      /\ \A a \in 1..n : log'[a] = log[a]
  BY <1>1, AppendProperties DEF Receive
<1>3. /\ executed'[n + 1] = 0
      /\ \A a \in 1..n : executed'[a] = executed[a]
  BY <1>1, AppendProperties DEF Receive
<1>4. DOMAIN cancelledBy' = DOMAIN cancelledBy /\ DOMAIN cancelledBy \subseteq 1..n
  BY DEF Receive, History, AllAccounted
<1>5. NextArrival = n + 1 /\ NextArrival' \in {n + 1, n + 2}
  <2>1. CASE call' = None
    BY <1>1, <1>2, <2>1 DEF NextArrival
  <2>2. CASE call' # None
    BY <1>1, <2>2 DEF NextArrival
  <2>3. QED
    BY <2>1, <2>2
<1>6. \A u, side, p : Queue(u, side, p)' = Queue(u, side, p)
  BY DEF Receive, Queue, LevelAt
<1>7. Queued'
  <2> SUFFICES ASSUME NEW u \in INSTRUMENTS, NEW side \in Sides, NEW p \in Price
               PROVE  QueueOK(log', executed', DOMAIN cancelledBy', NextArrival',
                              u, side, p, Queue(u, side, p)')
    BY DEF Queued
  <2> DEFINE level == Queue(u, side, p)
  <2>1. QueueOK(log, executed, DOMAIN cancelledBy, n + 1, u, side, p, level)
    BY <1>5 DEF History, Queued
  <2>2. Queue(u, side, p)' = level
    BY <1>6
  <2> HIDE DEF n, level
  <2>3. ASSUME NEW i \in 1..Len(level)
        PROVE  Placed(log', executed', DOMAIN cancelledBy', NextArrival', u, side, p, level[i])
    <3> DEFINE r == level[i]
    <3>1. Placed(log, executed, DOMAIN cancelledBy, n + 1, u, side, p, r)
      BY <2>1 DEF QueueOK
    <3> HIDE DEF r
    <3>2. r.arrival \in 1..n
      BY <3>1 DEF Placed, n
    <3>3. log'[r.arrival] = log[r.arrival] /\ executed'[r.arrival] = executed[r.arrival]
      BY <1>2, <1>3, <3>2
    <3>4. r.arrival \in 1..Len(log') /\ r.arrival < NextArrival'
      BY <1>1, <1>2, <1>5, <3>2
    <3>5. Placed(log', executed', DOMAIN cancelledBy', NextArrival', u, side, p, r)
      BY <1>4, <3>1, <3>3, <3>4 DEF Placed
    <3>6. QED
      BY <3>5 DEF r
  <2>4. QED
    BY <2>1, <2>2, <2>3 DEF QueueOK
<1>8. CallOK'
  <2> SUFFICES ASSUME call' # None PROVE CallOK'
    BY DEF CallOK
  <2>1. call' = [order |-> o, remaining |-> o.volume, arrival |-> n + 1]
    BY <1>1
  <2>2. call'.order = o /\ call'.remaining = o.volume /\ call'.arrival = n + 1
    BY <2>1
  <2>3. o.volume \in Int
    BY RouterAssumption, Zenon DEF OrderAdd
  <2> HIDE DEF n
  <2>4. n + 1 \in 1..(n + 1) /\ n + 1 \notin 1..n
    BY <1>1
  <2>5. QED
    BY <1>2, <1>3, <1>4, <2>2, <2>3, <2>4 DEF CallOK
<1>9. AllAccounted'
  <2> SUFFICES ASSUME NEW a \in 1..(n + 1) PROVE (Live(a) \/ Over(a))'
    BY <1>1, <1>2, <1>4 DEF AllAccounted
  <2>1. CASE a \in 1..n
    <3>1. Live(a) \/ Over(a)
      BY <2>1 DEF History, AllAccounted
    <3>2. Live(a) => Live(a)'
      BY <1>6 DEF Live
    <3>3. Over(a) => Over(a)'
      BY <1>1, <1>2, <1>3, <1>4, <2>1 DEF Over
    <3>4. QED
      BY <3>1, <3>2, <3>3
  <2>2. CASE a = n + 1
    <3>1. CASE call' = [order |-> o, remaining |-> o.volume, arrival |-> n + 1]
      <4>1. call' \in Call
        <5>1. o.volume \in Int
          BY RouterAssumption, Zenon DEF OrderAdd
        <5>2. n + 1 \in Nat \ {0}
          BY <1>1
        <5>3. QED
          BY <3>1, <5>1, <5>2 DEF Call
      <4>2. call' # None /\ call'.arrival = a
        BY <2>2, <3>1, <4>1, NoneIsNoCall
      <4>3. QED
        BY <4>2 DEF Over
    <3>2. CASE o.ticker \notin INSTRUMENTS
      BY <1>2, <1>3, <2>2, <3>2 DEF Over
    <3>3. QED
      BY <3>1, <3>2
  <2>3. QED
    BY <1>1, <2>1, <2>2
<1>10. QED
  BY <1>7, <1>8, <1>9 DEF History

\* What a trade does to the counters and to the call.
LEMMA MatchCounters ==
  ASSUME TypeOK, History, Match
  PROVE  /\ call # None /\ call' # None
         /\ call'.order = call.order /\ call'.arrival = call.arrival
         /\ call'.remaining = call.remaining - Fill
         /\ call.remaining \in Int
         /\ NextArrival = call.arrival /\ NextArrival' = call.arrival
         /\ Maker.arrival < call.arrival
         /\ log' = log /\ cancelledBy' = cancelledBy
         /\ \A a \in 1..Len(log) :
              /\ executed[a] \in Nat
              /\ executed'[a] = IF a \in {Maker.arrival, call.arrival}
                                THEN executed[a] + Fill ELSE executed[a]
<1>1. call \in Call /\ call # None
  BY DEF Match, TypeOK
<1>2. /\ call' = [call EXCEPT !.remaining = call.remaining - Fill]
      /\ executed' = [a \in DOMAIN executed |->
                        IF a \in {Maker.arrival, call.arrival}
                        THEN executed[a] + Fill ELSE executed[a]]
      /\ log' = log /\ cancelledBy' = cancelledBy
  BY DEF Match, Fill
<1>3. executed \in Seq(Nat) /\ Len(executed) = Len(log)
  BY DEF TypeOK
<1>4. call.remaining \in Int /\ Fill \in Nat
  BY <1>1, MatchQueues DEF Call
<1>5. /\ call' \in Call /\ call'.order = call.order /\ call'.arrival = call.arrival
      /\ call'.remaining = call.remaining - Fill
  <2>1. \A c \in Call : \A k \in Int :
          LET d == [c EXCEPT !.remaining = k]
          IN  d \in Call /\ d.order = c.order /\ d.arrival = c.arrival /\ d.remaining = k
    BY DEF Call
  <2>2. call.remaining - Fill \in Int
    BY <1>4
  <2>3. QED
    BY <1>1, <1>2, <2>1, <2>2
<1>6. call' # None
  BY <1>5, NoneIsNoCall
<1>7. NextArrival = call.arrival /\ NextArrival' = call.arrival
  BY <1>1, <1>5, <1>6 DEF NextArrival
<1>8. Maker.arrival < call.arrival
  <2>1. /\ MakerQueue \in Seq(RestingOrder) /\ MakerQueue # <<>> /\ Maker = Head(MakerQueue)
        /\ call.order.ticker \in INSTRUMENTS /\ MakerSide \in Sides /\ MakerPrice \in Price
    BY MatchQueues
  <2>2. 1 \in 1..Len(MakerQueue) /\ Maker = MakerQueue[1]
    BY <2>1, EmptySeq
  <2>3. Placed(log, executed, DOMAIN cancelledBy, NextArrival,
               call.order.ticker, MakerSide, MakerPrice, Maker)
    BY <2>1, <2>2, QueuedOrder DEF History, MakerQueue
  <2>4. QED
    BY <1>7, <2>3 DEF Placed
<1>9. \A a \in 1..Len(log) :
        /\ executed[a] \in Nat
        /\ executed'[a] = IF a \in {Maker.arrival, call.arrival}
                          THEN executed[a] + Fill ELSE executed[a]
  BY <1>2, <1>3
<1>10. QED
  BY <1>1, <1>2, <1>4, <1>5, <1>6, <1>7, <1>8, <1>9, SMTT(20)

\* Match: the maker's queue loses its head or shrinks it, and both orders are
\* credited with what they trade.
LEMMA MatchKeepsHistory ==
  ASSUME TypeOK, History, Match
  PROVE  History'
<1> DEFINE t == call.order.ticker
           m == Maker.arrival
           c == call.arrival
           gone == DOMAIN cancelledBy
           full == Maker.volume = Fill
           filled == FillFront(MakerQueue, Fill)
<1>1. /\ call \in Call /\ t \in INSTRUMENTS /\ MakerSide \in Sides /\ MakerPrice \in Price
      /\ MakerQueue \in Seq(RestingOrder) /\ MakerQueue # <<>>
      /\ Maker = Head(MakerQueue) /\ Maker \in RestingOrder
      /\ Fill \in Nat \ {0} /\ Fill <= Maker.volume /\ Fill <= call.remaining
      /\ MakerQueue = Queue(t, MakerSide, MakerPrice)
  BY MatchQueues DEF MakerQueue
<1>2. \A u \in INSTRUMENTS, side \in Sides, p \in Price :
        Queue(u, side, p)' =
          IF u = t /\ side = MakerSide /\ p = MakerPrice THEN filled ELSE Queue(u, side, p)
  BY MatchQueues
<1>3. /\ call # None /\ call' # None /\ call'.order = call.order /\ call'.arrival = c
      /\ call'.remaining = call.remaining - Fill /\ call.remaining \in Int
      /\ NextArrival = c /\ NextArrival' = c
      /\ m < c /\ log' = log /\ cancelledBy' = cancelledBy
      /\ \A a \in 1..Len(log) :
           /\ executed[a] \in Nat
           /\ executed'[a] = IF a \in {m, c} THEN executed[a] + Fill ELSE executed[a]
  BY MatchCounters
<1>4. /\ MakerQueue[1] = Maker /\ 1 \in 1..Len(MakerQueue) /\ Len(MakerQueue) \in Nat
      /\ full => /\ Len(filled) = Len(MakerQueue) - 1
                 /\ \A i \in 1..Len(filled) : filled[i] = MakerQueue[i + 1]
      /\ ~full => /\ Len(filled) = Len(MakerQueue)
                  /\ filled[1] = [Maker EXCEPT !.volume = Maker.volume - Fill]
                  /\ \A i \in 2..Len(MakerQueue) : filled[i] = MakerQueue[i]
  <2>1. /\ MakerQueue[1] = Head(MakerQueue) /\ 1 \in 1..Len(MakerQueue)
        /\ Head(MakerQueue).volume = Fill =>
             /\ Len(filled) = Len(MakerQueue) - 1
             /\ \A i \in 1..Len(filled) : filled[i] = MakerQueue[i + 1]
        /\ Head(MakerQueue).volume # Fill =>
             /\ Len(filled) = Len(MakerQueue)
             /\ filled[1] = [MakerQueue[1] EXCEPT !.volume = MakerQueue[1].volume - Fill]
             /\ \A i \in 2..Len(MakerQueue) : filled[i] = MakerQueue[i]
    BY <1>1, FillFrontOrders
  <2>2. QED
    BY <1>1, <2>1
<1>5. /\ m \in 1..Len(log) /\ m \in Nat /\ m \notin gone
      /\ log[m] = [orderId |-> Maker.orderId, userId |-> Maker.userId, ticker |-> t,
                   side |-> MakerSide, price |-> MakerPrice,
                   volume |-> executed[m] + Maker.volume]
  <2>1. Placed(log, executed, gone, NextArrival, t, MakerSide, MakerPrice, Maker)
    BY <1>1, <1>4, QueuedOrder DEF History
  <2>2. m \in Nat
    BY <1>1 DEF RestingOrder
  <2>3. QED
    BY <2>1, <2>2 DEF Placed
<1>6. CallOK /\ c \in 1..Len(log) /\ c \in Nat
  BY <1>1, <1>3 DEF History, CallOK, Call
<1> HIDE DEF t, m, c, gone, full, filled
<1>6m. executed'[m] = executed[m] + Fill /\ executed[m] \in Nat
  BY <1>3, <1>5, Zenon
<1>6c. executed'[c] = executed[c] + Fill /\ executed[c] \in Nat
  BY <1>3, <1>6, Zenon
\* Every other resting order keeps its place and its volume.
<1>7. ASSUME NEW u \in INSTRUMENTS, NEW side \in Sides, NEW p \in Price,
             NEW i \in 1..Len(Queue(u, side, p)), Queue(u, side, p)[i].arrival # m
      PROVE  Placed(log', executed', DOMAIN cancelledBy', NextArrival',
                    u, side, p, Queue(u, side, p)[i])
  <2> DEFINE r == Queue(u, side, p)[i]
  <2>1. Placed(log, executed, gone, c, u, side, p, r) /\ r \in RestingOrder /\ r.arrival # m
    BY <1>3, <1>7, QueuedOrder DEF History, gone
  <2> HIDE DEF r
  <2>2. r.arrival \in 1..Len(log) /\ r.arrival # c
    BY <1>6, <2>1 DEF Placed
  <2>3. executed'[r.arrival] = executed[r.arrival]
    BY <1>3, <2>1, <2>2
  <2>4. log' = log /\ DOMAIN cancelledBy' = gone /\ NextArrival' = c
    BY <1>3 DEF gone
  <2>5. Placed(log', executed', DOMAIN cancelledBy', NextArrival', u, side, p, r)
    BY <2>1, <2>3, <2>4 DEF Placed
  <2>6. QED
    BY <2>5 DEF r
\* The others of the maker's queue arrived later.
<1>8. \A i \in 2..Len(MakerQueue) : i \in 1..Len(MakerQueue) /\ m < MakerQueue[i].arrival
  <2>1. InOrder(MakerQueue)
    BY <1>1 DEF History, Queued, QueueOK
  <2>2. \A i \in 2..Len(MakerQueue) : i \in 1..Len(MakerQueue) /\ 1 < i
    BY <1>4
  <2>3. QED
    BY <1>4, <2>1, <2>2 DEF InOrder, m
<1>9. \A i \in 2..Len(MakerQueue) : MakerQueue[i].arrival # m
  BY <1>5, <1>8
<1>10. QueueOK(log', executed', DOMAIN cancelledBy', NextArrival',
               t, MakerSide, MakerPrice, filled)
  <2>1. InOrder(MakerQueue)
    BY <1>1 DEF History, Queued, QueueOK
  <2>2. CASE full
    <3>1. /\ Len(filled) = Len(MakerQueue) - 1
          /\ \A i \in 1..Len(filled) : filled[i] = MakerQueue[i + 1]
      BY <1>4, <2>2
    <3>2. \A i \in 1..Len(filled) : i + 1 \in 2..Len(MakerQueue) /\ i + 1 \in 1..Len(MakerQueue)
      BY <1>4, <3>1
    <3>3. InOrder(filled)
      <4> SUFFICES ASSUME NEW i \in 1..Len(filled), NEW j \in 1..Len(filled), i < j
                   PROVE  filled[i].arrival < filled[j].arrival
        BY DEF InOrder
      <4>1. i + 1 < j + 1
        OBVIOUS
      <4>2. MakerQueue[i + 1].arrival < MakerQueue[j + 1].arrival
        BY <2>1, <3>2, <4>1 DEF InOrder
      <4>3. QED
        BY <3>1, <4>2
    <3>4. ASSUME NEW i \in 1..Len(filled)
          PROVE  Placed(log', executed', DOMAIN cancelledBy', NextArrival',
                        t, MakerSide, MakerPrice, filled[i])
      <4> DEFINE j == i + 1
      <4>1. j \in 1..Len(MakerQueue) /\ MakerQueue[j].arrival # m /\ filled[i] = MakerQueue[j]
        BY <1>9, <3>1, <3>2
      <4> HIDE DEF j
      <4>2. QED
        BY <1>1, <1>7, <4>1
    <3>5. QED
      BY <3>3, <3>4 DEF QueueOK
  <2>3. CASE ~full
    <3> DEFINE front == [Maker EXCEPT !.volume = Maker.volume - Fill]
    <3>1. /\ Len(filled) = Len(MakerQueue) /\ filled[1] = front
          /\ \A i \in 2..Len(MakerQueue) : filled[i] = MakerQueue[i]
      BY <1>4, <2>3
    <3>2. /\ front.arrival = m /\ front.orderId = Maker.orderId
          /\ front.userId = Maker.userId /\ front.volume = Maker.volume - Fill
      BY <1>1 DEF RestingOrder, m
    <3> HIDE DEF front
    <3>3. \A i \in 1..Len(filled) : i = 1 \/ i \in 2..Len(MakerQueue)
      BY <1>4, <3>1
    <3>4. \A i \in 1..Len(filled) : filled[i].arrival = MakerQueue[i].arrival
      BY <1>4, <3>1, <3>2, <3>3 DEF m
    <3>5. InOrder(filled)
      BY <2>1, <3>1, <3>4 DEF InOrder
    <3>6. Placed(log', executed', DOMAIN cancelledBy', NextArrival',
                 t, MakerSide, MakerPrice, front)
      <4>1. executed'[m] = executed[m] + Fill /\ executed[m] \in Nat
        BY <1>6m, Zenon
      <4>2. Maker.volume \in Nat /\ Fill \in Nat
        BY <1>1 DEF RestingOrder
      <4>3. executed'[m] + (Maker.volume - Fill) = executed[m] + Maker.volume
        BY <4>1, <4>2
      <4>4. log' = log /\ DOMAIN cancelledBy' = gone /\ NextArrival' = c /\ m < c
        BY <1>3 DEF gone
      <4>5. QED
        BY <1>5, <3>2, <4>3, <4>4 DEF Placed
    <3>7. ASSUME NEW i \in 1..Len(filled)
          PROVE  Placed(log', executed', DOMAIN cancelledBy', NextArrival',
                        t, MakerSide, MakerPrice, filled[i])
      <4>1. CASE i = 1
        BY <3>1, <3>6, <4>1
      <4>2. CASE i \in 2..Len(MakerQueue)
        <5>1. /\ i \in 1..Len(MakerQueue) /\ MakerQueue[i].arrival # m
              /\ filled[i] = MakerQueue[i]
          BY <1>8, <1>9, <3>1, <4>2
        <5>2. QED
          BY <1>1, <1>7, <5>1, SMTT(20)
      <4>3. QED
        BY <3>3, <4>1, <4>2
    <3>8. QED
      BY <3>5, <3>7 DEF QueueOK
  <2>4. QED
    BY <2>2, <2>3
<1>11. Queued'
  <2> SUFFICES ASSUME NEW u \in INSTRUMENTS, NEW side \in Sides, NEW p \in Price
               PROVE  QueueOK(log', executed', DOMAIN cancelledBy', NextArrival',
                              u, side, p, Queue(u, side, p)')
    BY DEF Queued
  <2>1. CASE u = t /\ side = MakerSide /\ p = MakerPrice
    BY <1>2, <1>10, <2>1
  <2>2. CASE ~(u = t /\ side = MakerSide /\ p = MakerPrice)
    <3>1. Queue(u, side, p)' = Queue(u, side, p)
      BY <1>2, <2>2
    <3>2. InOrder(Queue(u, side, p))
      BY DEF History, Queued, QueueOK
    <3>3. ASSUME NEW i \in 1..Len(Queue(u, side, p))
          PROVE  Queue(u, side, p)[i].arrival # m
      <4>1. m = Queue(t, MakerSide, MakerPrice)[1].arrival /\ 1 \in 1..Len(Queue(t, MakerSide, MakerPrice))
        BY <1>1, <1>4 DEF m
      <4>2. QED
        BY <1>1, <2>2, <4>1, OnePlace DEF History
    <3>4. QED
      BY <1>7, <3>1, <3>2, <3>3 DEF QueueOK
  <2>3. QED
    BY <2>1, <2>2
<1>12. CallOK'
  <2>1. /\ c = Len(log) /\ log[c] = call.order
        /\ executed[c] + call.remaining = call.order.volume
        /\ c \notin gone
    BY <1>3, <1>6 DEF CallOK, c, gone
  <2>2. executed'[c] = executed[c] + Fill /\ executed[c] \in Nat
    BY <1>6c, Zenon
  <2>3. Fill \in Nat /\ Fill <= call.remaining /\ call.remaining \in Int
    BY <1>1, <1>3
  <2>4. /\ executed'[c] + (call.remaining - Fill) = call.order.volume
        /\ call.remaining - Fill >= 0
    BY <2>1, <2>2, <2>3
  <2>5. QED
    BY <1>3, <1>6, <2>1, <2>4 DEF CallOK, c, gone
<1>13. AllAccounted'
  <2> SUFFICES ASSUME NEW a \in 1..Len(log) PROVE Live(a)' \/ Over(a)'
    BY <1>3 DEF History, AllAccounted
  <2>1. CASE a = c
    BY <1>3, <2>1 DEF Over
  <2>2. CASE a = m
    <3>1. CASE full
      <4>1. executed'[m] = executed[m] + Fill /\ executed[m] \in Nat
        BY <1>6m, Zenon
      <4>2. log[m].volume = executed[m] + Maker.volume
        BY <1>5
      <4>3. Maker.volume = Fill /\ Fill \in Nat \ {0}
        BY <1>1, <3>1 DEF full
      <4>4. log[m].volume > 0 /\ executed'[m] = log[m].volume
        BY <4>1, <4>2, <4>3
      <4>5. QED
        BY <1>3, <2>2, <4>4, SMTT(20) DEF Over
    <3>2. CASE ~full
      <4>1. filled[1].arrival = m /\ 1 \in 1..Len(filled)
        BY <1>1, <1>4, <3>2 DEF RestingOrder, m
      <4>2. PICK u \in INSTRUMENTS, side \in Sides, p \in Price :
              u = t /\ side = MakerSide /\ p = MakerPrice
        BY <1>1
      <4>3. Queue(u, side, p)' = filled
        BY <1>2, <4>2
      <4>4. QED
        BY <2>2, <4>1, <4>3 DEF Live
    <3>3. QED
      BY <3>1, <3>2
  <2>3. CASE a # c /\ a # m
    <3>1. executed'[a] = executed[a]
      BY <1>3, <2>3
    <3>2. Over(a) => Over(a)'
      BY <1>3, <2>3, <3>1 DEF Over, c
    <3>3. ASSUME Live(a) PROVE Live(a)'
      <4>1. PICK u \in INSTRUMENTS, side \in Sides, p \in Price :
              \E i \in 1..Len(Queue(u, side, p)) : Queue(u, side, p)[i].arrival = a
        BY <3>3 DEF Live
      <4>2. PICK i \in 1..Len(Queue(u, side, p)) : Queue(u, side, p)[i].arrival = a
        BY <4>1
      <4>3. SUFFICES \E j \in 1..Len(Queue(u, side, p)') : Queue(u, side, p)'[j].arrival = a
        BY DEF Live
      <4>4. CASE ~(u = t /\ side = MakerSide /\ p = MakerPrice)
        BY <1>2, <4>2, <4>4
      <4>5. CASE u = t /\ side = MakerSide /\ p = MakerPrice
        <5>1. Queue(u, side, p)' = filled /\ Queue(u, side, p) = MakerQueue
          BY <1>1, <1>2, <4>5
        <5>2. i \in 2..Len(MakerQueue) /\ MakerQueue[i].arrival = a
          <6>1. i \in 1..Len(MakerQueue) /\ MakerQueue[i].arrival = a
            BY <4>2, <5>1
          <6>2. i # 1
            BY <1>4, <2>3, <6>1, SMTT(20) DEF m
          <6>3. QED
            BY <1>4, <6>1, <6>2
        <5>3. CASE full
          <6>1. /\ Len(filled) = Len(MakerQueue) - 1
                /\ \A j \in 1..Len(filled) : filled[j] = MakerQueue[j + 1]
            BY <1>4, <5>3
          <6>2. i - 1 \in 1..Len(filled) /\ (i - 1) + 1 = i
            BY <1>4, <5>2, <6>1
          <6>3. filled[i - 1] = MakerQueue[i]
            BY <6>1, <6>2
          <6>4. QED
            BY <5>1, <5>2, <6>2, <6>3
        <5>4. CASE ~full
          <6>1. i \in 1..Len(filled) /\ filled[i] = MakerQueue[i]
            BY <1>4, <5>2, <5>4
          <6>2. QED
            BY <5>1, <5>2, <6>1
        <5>5. QED
          BY <5>3, <5>4
      <4>6. QED
        BY <4>4, <4>5
    <3>4. Live(a) \/ Over(a)
      BY DEF History, AllAccounted
    <3>5. QED
      BY <3>2, <3>3, <3>4
  <2>4. QED
    BY <2>1, <2>2, <2>3
<1>14. QED
  BY <1>11, <1>12, <1>13 DEF History

\* FinishOrderAdd: the remainder joins the end of its queue, as the last to
\* have arrived.
LEMMA FinishKeepsHistory ==
  ASSUME TypeOK, History, FinishOrderAdd
  PROVE  History'
<1> DEFINE o == call.order
           c == call.arrival
           gone == DOMAIN cancelledBy
           rests == call.remaining > 0
           Here(u, side, p) == rests /\ u = o.ticker /\ side = o.side /\ p = o.price
<1>1. /\ call \in Call /\ o \in OrderAdd /\ o.ticker \in INSTRUMENTS
      /\ o.side \in Sides /\ o.price \in Price
      /\ rests => Remainder \in RestingOrder
  BY FinishQueues
<1>2. \A u \in INSTRUMENTS, side \in Sides, p \in Price :
        Queue(u, side, p)' = IF Here(u, side, p) THEN Append(Queue(u, side, p), Remainder)
                             ELSE Queue(u, side, p)
  BY FinishQueues
<1>3. /\ call # None /\ call' = None
      /\ log' = log /\ executed' = executed /\ cancelledBy' = cancelledBy
  BY DEF FinishOrderAdd
<1>4. /\ c = Len(log) /\ c \in 1..Len(log) /\ log[c] = o
      /\ executed[c] + call.remaining = o.volume
      /\ executed[c] = 0 \/ call.remaining >= 0
      /\ c \notin gone
  BY <1>3 DEF History, CallOK
<1>5. c \in Nat /\ call.remaining \in Int /\ executed[c] \in Nat
  BY <1>1, <1>4 DEF Call, TypeOK
<1>6. NextArrival = c /\ NextArrival' = c + 1
  BY <1>3, <1>4 DEF NextArrival
<1>7. /\ Remainder.arrival = c /\ Remainder.orderId = o.orderId
      /\ Remainder.userId = o.userId /\ Remainder.volume = call.remaining
  BY DEF Remainder
<1> HIDE DEF o, c, gone, rests
<1>8. \A u \in INSTRUMENTS, side \in Sides, p \in Price :
        /\ Queue(u, side, p) \in Seq(RestingOrder)
        /\ QueueOK(log, executed, gone, c, u, side, p, Queue(u, side, p))
  BY <1>6, QueueType DEF History, Queued, gone
\* Whatever was placed before the call stays placed after it.
<1>9. ASSUME NEW u, NEW side, NEW p, NEW r,
             Placed(log, executed, gone, c, u, side, p, r)
      PROVE  Placed(log, executed, gone, c + 1, u, side, p, r)
  <2>1. r.arrival \in 1..Len(log) /\ r.arrival < c
    BY <1>9 DEF Placed
  <2>2. r.arrival < c + 1
    BY <1>5, <2>1
  <2>3. QED
    BY <1>9, <2>2 DEF Placed
<1>10. Queued'
  <2> SUFFICES ASSUME NEW u \in INSTRUMENTS, NEW side \in Sides, NEW p \in Price
               PROVE  QueueOK(log, executed, gone, c + 1, u, side, p, Queue(u, side, p)')
    BY <1>3, <1>6 DEF Queued, gone
  <2> DEFINE level == Queue(u, side, p)
  <2>1. level \in Seq(RestingOrder) /\ QueueOK(log, executed, gone, c, u, side, p, level)
    BY <1>8
  <2>2. Queue(u, side, p)' = IF Here(u, side, p) THEN Append(level, Remainder) ELSE level
    BY <1>2
  <2> HIDE DEF level
  <2>3. \A i \in 1..Len(level) : Placed(log, executed, gone, c + 1, u, side, p, level[i])
    BY <1>9, <2>1 DEF QueueOK
  <2>4. CASE ~Here(u, side, p)
    <3>1. QueueOK(log, executed, gone, c + 1, u, side, p, level)
      BY <2>1, <2>3 DEF QueueOK
    <3>2. QED
      BY <2>2, <2>4, <3>1
  <2>5. CASE Here(u, side, p)
    <3> DEFINE longer == Append(level, Remainder)
               n == Len(level)
    <3>1. Remainder \in RestingOrder
      BY <1>1, <2>5
    <3>2. /\ Len(longer) = n + 1 /\ longer[n + 1] = Remainder /\ n \in Nat
          /\ \A i \in 1..n : longer[i] = level[i]
      BY <2>1, <3>1, AppendProperties
    <3>3. \A i \in 1..(n + 1) : i = n + 1 \/ i \in 1..n
      BY <3>2
    <3>4. \A i \in 1..n : level[i].arrival < c
      BY <2>1, Zenon DEF QueueOK, Placed
    <3>5. InOrder(level)
      BY <2>1 DEF QueueOK
    <3>6. Queue(u, side, p)' = longer
      BY <2>2, <2>5
    <3> HIDE DEF longer, n
    <3>7. InOrder(longer)
      <4> SUFFICES ASSUME NEW i \in 1..(n + 1), NEW j \in 1..(n + 1), i < j
                   PROVE  longer[i].arrival < longer[j].arrival
        BY <3>2 DEF InOrder
      <4>1. i \in 1..n
        BY <3>2
      <4>2. CASE j = n + 1
        BY <1>7, <3>2, <3>4, <4>1, <4>2
      <4>3. CASE j \in 1..n
        BY <3>2, <3>5, <4>1, <4>3 DEF InOrder, n
      <4>4. QED
        BY <3>3, <4>2, <4>3
    <3>8. Placed(log, executed, gone, c + 1, u, side, p, Remainder)
      <4>1. o = [orderId |-> o.orderId, userId |-> o.userId, ticker |-> o.ticker,
                 side |-> o.side, price |-> o.price, volume |-> o.volume]
        BY <1>1 DEF OrderAdd
      <4>2. c < c + 1
        BY <1>5
      <4>3. u = o.ticker /\ side = o.side /\ p = o.price
        BY <2>5
      <4>4. QED
        BY <1>4, <1>7, <4>1, <4>2, <4>3 DEF Placed
    <3>9. \A i \in 1..(n + 1) : Placed(log, executed, gone, c + 1, u, side, p, longer[i])
      BY <2>3, <3>2, <3>3, <3>8 DEF n
    <3>10. QED
      BY <3>2, <3>6, <3>7, <3>9 DEF QueueOK
  <2>6. QED
    BY <2>4, <2>5
<1>11. CallOK'
  BY <1>3 DEF CallOK
<1>12. AllAccounted'
  <2> SUFFICES ASSUME NEW a \in 1..Len(log) PROVE Live(a)' \/ Over(a)'
    BY <1>3 DEF History, AllAccounted
  <2>1. CASE a = c
    <3>1. CASE rests
      <4>1. PICK u \in INSTRUMENTS, side \in Sides, p \in Price : Here(u, side, p)
        BY <1>1, <3>1
      <4> DEFINE level == Queue(u, side, p)
      <4>2. level \in Seq(RestingOrder) /\ Remainder \in RestingOrder
        BY <1>1, <1>8, <3>1
      <4>3. Queue(u, side, p)' = Append(level, Remainder)
        BY <1>2, <4>1
      <4> HIDE DEF level
      <4>4. /\ Len(level) + 1 \in 1..Len(Append(level, Remainder))
            /\ Append(level, Remainder)[Len(level) + 1] = Remainder
        BY <4>2, AppendProperties
      <4>5. QED
        BY <1>7, <2>1, <4>3, <4>4 DEF Live
    <3>2. CASE ~rests
      <4>1. call.remaining <= 0
        BY <1>5, <3>2 DEF rests
      <4>2. o.volume \in Int
        BY <1>1, RouterAssumption, Zenon DEF OrderAdd
      <4>3. \/ o.volume <= 0 /\ executed[c] = 0
            \/ o.volume > 0 /\ executed[c] = o.volume
        BY <1>4, <1>5, <4>1, <4>2
      <4>4. QED
        BY <1>3, <1>4, <2>1, <4>3 DEF Over
    <3>3. QED
      BY <3>1, <3>2
  <2>2. CASE a # c
    <3>1. Live(a) \/ Over(a)
      BY DEF History, AllAccounted
    <3>2. Over(a) => Over(a)'
      BY <1>3, <2>2 DEF Over, c
    <3>3. ASSUME Live(a) PROVE Live(a)'
      <4>1. PICK u \in INSTRUMENTS, side \in Sides, p \in Price :
              \E i \in 1..Len(Queue(u, side, p)) : Queue(u, side, p)[i].arrival = a
        BY <3>3 DEF Live
      <4> DEFINE level == Queue(u, side, p)
      <4>2. PICK i \in 1..Len(level) : level[i].arrival = a
        BY <4>1
      <4>3. CASE Here(u, side, p)
        <5>1. Queue(u, side, p)' = Append(level, Remainder)
          BY <1>2, <4>3
        <5>2. level \in Seq(RestingOrder) /\ Remainder \in RestingOrder
          BY <1>1, <1>8, <4>3
        <5> HIDE DEF level
        <5>3. i \in 1..Len(Append(level, Remainder)) /\ Append(level, Remainder)[i] = level[i]
          BY <5>2, AppendProperties
        <5>4. QED
          BY <4>2, <5>1, <5>3 DEF Live
      <4>4. CASE ~Here(u, side, p)
        <5>1. Queue(u, side, p)' = level
          BY <1>2, <4>4
        <5>2. QED
          BY <4>2, <5>1 DEF Live
      <4>5. QED
        BY <4>3, <4>4
    <3>4. QED
      BY <3>1, <3>2, <3>3
  <2>3. QED
    BY <2>1, <2>2
<1>13. QED
  BY <1>10, <1>11, <1>12 DEF History

ArrivalsOf(level) == {level[i].arrival : i \in 1..Len(level)}

\* The queue that a cancel erases from, and the orders it takes off it.
CancelQueue(c) ==
  LET at == orderIndex[c.ticker][c.orderId] IN Queue(c.ticker, at.side, at.price)

Erased(c) == ArrivalsOf(CancelQueue(c)) \ ArrivalsOf(EraseId(CancelQueue(c), c.orderId))

\* The history of a cancel: who is recorded for what it takes off the book.
LEMMA CancelRecords ==
  ASSUME TypeOK, NEW c \in OrderCancel, OnOrderCancel(c)
  PROVE  /\ CancelQueue(c) \in Seq(RestingOrder)
         /\ EraseId(CancelQueue(c), c.orderId) \in Seq(RestingOrder)
         /\ DOMAIN cancelledBy' = DOMAIN cancelledBy \cup Erased(c)
         /\ \A a \in DOMAIN cancelledBy' :
              cancelledBy'[a] = IF a \in Erased(c) THEN c.userId ELSE cancelledBy[a]
<1>0. PICK at : at = orderIndex[c.ticker][c.orderId]
  OBVIOUS
<1> DEFINE level == CancelQueue(c)
           erased == Erased(c)
<1> DEFINE before == book[c.ticker][at.side]
           after == EraseFromBook(before, at.price, c.orderId)
<1>1. c.ticker \in INSTRUMENTS /\ at.side \in Sides
  BY <1>0, CancelQueues
<1>2. LevelsOK(before)
  BY <1>1 DEF TypeOK
<1>3. level = Queue(c.ticker, at.side, at.price) /\ level \in Seq(RestingOrder)
  BY <1>0, <1>1, QueueType DEF CancelQueue
<1>4. EraseId(level, c.orderId) \in Seq(RestingOrder)
  BY <1>3, EraseIdType
<1>5. cancelledBy' =
        [a \in DOMAIN cancelledBy \cup (Arrivals(before, at.price) \ Arrivals(after, at.price)) |->
           IF a \in Arrivals(before, at.price) \ Arrivals(after, at.price)
           THEN c.userId ELSE cancelledBy[a]]
  BY <1>0, ZenonT(30) DEF OnOrderCancel
<1>6. LevelAt(before, at.price) = level
  BY <1>3 DEF Queue
<1> HIDE DEF before, level, erased
<1>7. LevelsOK(after)
  BY <1>2, EraseFromBookOK
<1>8. LevelAt(after, at.price) = EraseId(level, c.orderId)
  BY <1>2, <1>6, EraseFromBookAt
<1> HIDE DEF after
<1>9. ASSUME NEW levels, LevelsOK(levels), NEW p
      PROVE  Arrivals(levels, p) = ArrivalsOf(LevelAt(levels, p))
  <2>1. CASE p \in DOMAIN levels
    <3>1. DOMAIN levels[p] = 1..Len(levels[p])
      BY <1>9, <2>1 DEF LevelsOK
    <3>2. QED
      BY <2>1, <3>1 DEF Arrivals, ArrivalsOf, LevelAt
  <2>2. CASE p \notin DOMAIN levels
    <3>1. 1..Len(<< >>) = {}
      BY EmptySeq
    <3>2. ArrivalsOf(<< >>) = {}
      BY <3>1, Zenon DEF ArrivalsOf
    <3>3. QED
      BY <2>2, <3>2 DEF Arrivals, LevelAt
  <2>3. QED
    BY <2>1, <2>2
<1>10. Arrivals(before, at.price) \ Arrivals(after, at.price) = erased
  BY <1>2, <1>6, <1>7, <1>8, <1>9, SMTT(20) DEF erased, Erased, level
<1>11. cancelledBy' = [a \in DOMAIN cancelledBy \cup erased |->
                         IF a \in erased THEN c.userId ELSE cancelledBy[a]]
  BY <1>5, <1>10
<1>12. QED
  BY <1>3, <1>4, <1>11 DEF level, erased

\* OnOrderCancel: what leaves the book is recorded as cancelled, and nothing
\* else.
LEMMA CancelKeepsHistory ==
  ASSUME TypeOK, History, NEW c \in OrderCancel, OnOrderCancel(c)
  PROVE  History'
<1> DEFINE gone == DOMAIN cancelledBy
<1>1. PICK at : at = orderIndex[c.ticker][c.orderId]
  OBVIOUS
<1>2. PICK level : level = Queue(c.ticker, at.side, at.price)
  OBVIOUS
<1>3. PICK kept : kept = EraseId(level, c.orderId)
  OBVIOUS
<1>4. PICK erased : erased = ArrivalsOf(level) \ ArrivalsOf(kept)
  BY Zenon
<1>5. c.ticker \in INSTRUMENTS /\ at.side \in Sides /\ at.price \in Price
  BY <1>1, CancelQueues
<1>6. \A u \in INSTRUMENTS, side \in Sides, p \in Price :
        Queue(u, side, p)' = IF u = c.ticker /\ side = at.side /\ p = at.price
                             THEN kept ELSE Queue(u, side, p)
  <2>1. \A u \in INSTRUMENTS, side \in Sides, p \in Price :
          Queue(u, side, p)' = IF u = c.ticker /\ side = at.side /\ p = at.price
                               THEN EraseId(Queue(u, side, p), c.orderId)
                               ELSE Queue(u, side, p)
    BY <1>1, CancelQueues, SMTT(20)
  <2>2. QED
    BY <1>2, <1>3, <2>1, Zenon
<1>7. /\ level \in Seq(RestingOrder) /\ kept \in Seq(RestingOrder)
      /\ DOMAIN cancelledBy' = gone \cup erased
  <2>1. level = CancelQueue(c)
    BY <1>1, <1>2 DEF CancelQueue
  <2>2. erased = Erased(c)
    BY <1>3, <1>4, <2>1 DEF Erased
  <2>3. QED
    BY <1>3, <2>1, <2>2, CancelRecords, Zenon
<1>8. call = None /\ call' = None /\ log' = log /\ executed' = executed
  BY Zenon DEF OnOrderCancel
<1>9. NextArrival' = NextArrival
  BY <1>8 DEF NextArrival
<1>10. PICK g : Shows(g, kept, level, Len(level), c.orderId)
  BY <1>3, <1>7, EraseIdOrders, SMTT(20)
<1>11. \A i \in 1..Len(kept) : g[i] \in 1..Len(level) /\ kept[i] = level[g[i]]
  BY <1>10 DEF Shows
<1> HIDE DEF gone
<1>12. QueueOK(log, executed, gone, NextArrival, c.ticker, at.side, at.price, level)
  BY <1>2, <1>5, SMTT(20) DEF History, Queued, gone
<1>13. ASSUME NEW u, NEW side, NEW p, NEW r,
              Placed(log, executed, gone, NextArrival, u, side, p, r), r.arrival \notin erased
       PROVE  Placed(log, executed, gone \cup erased, NextArrival, u, side, p, r)
  BY <1>13 DEF Placed
<1>14. QueueOK(log, executed, gone \cup erased, NextArrival, c.ticker, at.side, at.price, kept)
  <2>1. InOrder(kept)
    <3> SUFFICES ASSUME NEW i \in 1..Len(kept), NEW j \in 1..Len(kept), i < j
                 PROVE  kept[i].arrival < kept[j].arrival
      BY DEF InOrder
    <3>1. g[i] < g[j]
      BY <1>10 DEF Shows
    <3>2. QED
      BY <1>11, <1>12, <3>1, SMTT(20) DEF QueueOK, InOrder
  <2>2. ASSUME NEW i \in 1..Len(kept)
        PROVE  Placed(log, executed, gone \cup erased, NextArrival,
                      c.ticker, at.side, at.price, kept[i])
    <3>1. Placed(log, executed, gone, NextArrival, c.ticker, at.side, at.price, kept[i])
      BY <1>11, <1>12 DEF QueueOK
    <3>2. kept[i].arrival \notin erased
      BY <1>4 DEF ArrivalsOf
    <3>3. QED
      BY <1>13, <3>1, <3>2, Zenon
  <2>3. QED
    BY <2>1, <2>2, Zenon DEF QueueOK
<1>15. Queued'
  <2> SUFFICES ASSUME NEW u \in INSTRUMENTS, NEW side \in Sides, NEW p \in Price
               PROVE  QueueOK(log, executed, gone \cup erased, NextArrival,
                              u, side, p, Queue(u, side, p)')
    BY <1>7, <1>8, <1>9, Zenon DEF Queued
  <2>1. CASE u = c.ticker /\ side = at.side /\ p = at.price
    BY <1>6, <1>14, <2>1
  <2>2. CASE ~(u = c.ticker /\ side = at.side /\ p = at.price)
    <3>1. Queue(u, side, p)' = Queue(u, side, p)
      BY <1>6, <2>2
    <3>2. QueueOK(log, executed, gone, NextArrival, u, side, p, Queue(u, side, p))
      BY DEF History, Queued, gone
    <3>3. ASSUME NEW i \in 1..Len(Queue(u, side, p))
          PROVE  Queue(u, side, p)[i].arrival \notin erased
      <4> SUFFICES ASSUME Queue(u, side, p)[i].arrival \in erased PROVE FALSE
        OBVIOUS
      <4>1. PICK j \in 1..Len(level) : Queue(u, side, p)[i].arrival = level[j].arrival
        BY <1>4 DEF ArrivalsOf
      <4>2. QED
        BY <1>2, <1>5, <2>2, <4>1, OnePlace DEF History
    <3>4. QED
      BY <1>13, <3>1, <3>2, <3>3, Zenon DEF QueueOK
  <2>3. QED
    BY <2>1, <2>2
<1>16. CallOK'
  BY <1>8 DEF CallOK
<1>17. \A i \in 1..Len(level) :
         level[i].arrival \in 1..Len(log) /\ executed[level[i].arrival] < log[level[i].arrival].volume
  <2> SUFFICES ASSUME NEW i \in 1..Len(level)
               PROVE  /\ level[i].arrival \in 1..Len(log)
                      /\ executed[level[i].arrival] < log[level[i].arrival].volume
    OBVIOUS
  <2> DEFINE r == level[i]
  <2>1. Placed(log, executed, gone, NextArrival, c.ticker, at.side, at.price, r)
    BY <1>12 DEF QueueOK
  <2>2. r \in RestingOrder
    BY <1>7
  <2> HIDE DEF r
  <2>3. r.arrival \in 1..Len(log) /\ log[r.arrival].volume = executed[r.arrival] + r.volume
    BY <2>1, PlacedEntry
  <2>4. executed[r.arrival] \in Nat
    BY <2>3 DEF TypeOK
  <2>5. r.volume \in Nat \ {0}
    BY <2>2 DEF RestingOrder
  <2>6. executed[r.arrival] < log[r.arrival].volume
    BY <2>3, <2>4, <2>5
  <2>7. QED
    BY <2>3, <2>6 DEF r
<1>18. AllAccounted'
  <2>1. gone \subseteq 1..Len(log) /\ \A a \in 1..Len(log) : Live(a) \/ Over(a)
    BY DEF History, AllAccounted, gone
  <2>2. erased \subseteq 1..Len(log)
    BY <1>4, <1>17 DEF ArrivalsOf
  <2>3. ASSUME NEW a \in 1..Len(log) PROVE Live(a)' \/ Over(a)'
    <3>1. Over(a) => Over(a)'
      BY <1>7, <1>8 DEF Over, gone
    <3>2. ASSUME Live(a) PROVE Live(a)' \/ Over(a)'
      <4>1. PICK u \in INSTRUMENTS, side \in Sides, p \in Price :
              \E i \in 1..Len(Queue(u, side, p)) : Queue(u, side, p)[i].arrival = a
        BY <3>2 DEF Live
      <4>2. CASE ~(u = c.ticker /\ side = at.side /\ p = at.price)
        <5>1. Queue(u, side, p)' = Queue(u, side, p)
          BY <1>6, <4>2
        <5>2. QED
          BY <4>1, <5>1 DEF Live
      <4>3. CASE u = c.ticker /\ side = at.side /\ p = at.price
        <5>1. Queue(u, side, p)' = kept /\ Queue(u, side, p) = level
          BY <1>2, <1>6, <4>3
        <5>2. PICK i \in 1..Len(level) : level[i].arrival = a
          BY <4>1, <5>1
        <5>3. CASE a \in erased
          <6>1. a \in DOMAIN cancelledBy' /\ executed'[a] < log'[a].volume
            BY <1>7, <1>8, <1>17, <5>2, <5>3, SMTT(20)
          <6>2. QED
            BY <6>1 DEF Over
        <5>4. CASE a \notin erased
          <6>1. PICK j \in 1..Len(kept) : kept[j].arrival = a
            BY <1>4, <5>2, <5>4 DEF ArrivalsOf
          <6>2. QED
            BY <5>1, <6>1, SMTT(20) DEF Live
        <5>5. QED
          BY <5>3, <5>4
      <4>4. QED
        BY <4>2, <4>3
    <3>3. QED
      BY <2>1, <3>1, <3>2
  <2>4. QED
    BY <1>7, <1>8, <2>1, <2>2, <2>3 DEF AllAccounted
<1>19. QED
  BY <1>15, <1>16, <1>18 DEF History

\* The history invariant holds initially.
LEMMA HistoryInit == Init => History
<1> SUFFICES ASSUME Init PROVE History
  OBVIOUS
<1>1. Len(log) = 0 /\ DOMAIN cancelledBy = {} /\ call = None
  BY EmptySeq DEF Init, EmptyMap
<1>2. \A u \in INSTRUMENTS, side \in Sides, p \in Price : Len(Queue(u, side, p)) = 0
  BY EmptySeq DEF Init, EmptyMap, Queue, LevelAt
<1>3. ASSUME NEW level, Len(level) = 0, NEW i \in 1..Len(level) PROVE FALSE
  BY <1>3
<1>4. Queued
  BY <1>2, <1>3, Zenon DEF Queued, QueueOK, InOrder
<1>5. QED
  BY <1>1, <1>4 DEF History, CallOK, AllAccounted

\* Every operation keeps it.
LEMMA HistoryStep == TypeOK /\ History /\ [Next]_vars => History'
<1> SUFFICES ASSUME TypeOK, History, [Next]_vars PROVE History'
  OBVIOUS
<1>1. ASSUME NEW o \in OrderAdd, OnOrderAdd(o) PROVE History'
  BY <1>1, ReceiveKeepsHistory DEF OnOrderAdd
<1>2. ASSUME NEW o \in OrderAdd, DropOrderAdd(o) PROVE History'
  BY <1>2, ReceiveKeepsHistory DEF DropOrderAdd
<1>3. CASE Match
  BY <1>3, MatchKeepsHistory
<1>4. CASE FinishOrderAdd
  BY <1>4, FinishKeepsHistory
<1>5. ASSUME NEW c \in OrderCancel, OnOrderCancel(c) PROVE History'
  BY <1>5, CancelKeepsHistory
<1>6. CASE UNCHANGED vars
  <2>1. /\ call' = call /\ log' = log /\ executed' = executed /\ cancelledBy' = cancelledBy
        /\ book' = book
    BY <1>6 DEF vars
  <2>2. \A u, side, p : Queue(u, side, p)' = Queue(u, side, p)
    BY <2>1 DEF Queue, LevelAt
  <2>3. Queued'
    BY <2>1, <2>2 DEF History, Queued, NextArrival
  <2>4. CallOK'
    BY <2>1 DEF History, CallOK
  <2>5. AllAccounted'
    BY <2>1, <2>2 DEF History, AllAccounted, Live, Over
  <2>6. QED
    BY <2>3, <2>4, <2>5 DEF History
<1>7. QED
  BY <1>1, <1>2, <1>3, <1>4, <1>5, <1>6 DEF Next, RejectCancel

\* The history invariant holds in every reachable state.
LEMMA HistoryInvariant == Spec => []History
BY HistoryInit, HistoryStep, TypeCorrect, PTL DEF Spec

-----------------------------------------------------------------------------
(* What follows from it. *)

\* Resting lists the orders of the queues.
LEMMA RestingIsQueued ==
  ASSUME TypeOK
  PROVE  /\ \A r \in Resting :
              \E u \in INSTRUMENTS, side \in Sides, p \in Price :
                \E i \in 1..Len(Queue(u, side, p)) :
                  r = [ticker |-> u, side |-> side, price |-> p, order |-> Queue(u, side, p)[i]]
         /\ \A u \in INSTRUMENTS, side \in Sides, p \in Price :
              \A i \in 1..Len(Queue(u, side, p)) :
                [ticker |-> u, side |-> side, price |-> p, order |-> Queue(u, side, p)[i]]
                  \in Resting
<1>1. ASSUME NEW u \in INSTRUMENTS, NEW side \in Sides, NEW p \in DOMAIN book[u][side]
      PROVE  /\ p \in Price /\ book[u][side][p] = Queue(u, side, p)
             /\ DOMAIN book[u][side][p] = 1..Len(Queue(u, side, p))
  <2>1. p \in Price /\ book[u][side][p] = Queue(u, side, p)
    BY QueueType
  <2>2. Queue(u, side, p) \in Seq(RestingOrder)
    BY QueueType
  <2>3. QED
    BY <2>1, <2>2
<1>2. ASSUME NEW r \in Resting
      PROVE  \E u \in INSTRUMENTS, side \in Sides, p \in Price :
               \E i \in 1..Len(Queue(u, side, p)) :
                 r = [ticker |-> u, side |-> side, price |-> p, order |-> Queue(u, side, p)[i]]
  <2>1. PICK u \in INSTRUMENTS, side \in Sides :
          r \in UNION {{[ticker |-> u, side |-> side, price |-> p,
                         order |-> book[u][side][p][i]] :
                          i \in DOMAIN book[u][side][p]} : p \in DOMAIN book[u][side]}
    BY DEF Resting
  <2>2. PICK p \in DOMAIN book[u][side] :
          r \in {[ticker |-> u, side |-> side, price |-> p, order |-> book[u][side][p][i]] :
                   i \in DOMAIN book[u][side][p]}
    BY <2>1
  <2>3. PICK i \in DOMAIN book[u][side][p] :
          r = [ticker |-> u, side |-> side, price |-> p, order |-> book[u][side][p][i]]
    BY <2>2
  <2>4. QED
    BY <1>1, <2>3, SMTT(20)
<1>3. ASSUME NEW u \in INSTRUMENTS, NEW side \in Sides, NEW p \in Price,
             NEW i \in 1..Len(Queue(u, side, p))
      PROVE  [ticker |-> u, side |-> side, price |-> p, order |-> Queue(u, side, p)[i]] \in Resting
  <2>1. p \in DOMAIN book[u][side]
    BY QueueType, EmptySeq
  <2>2. book[u][side][p] = Queue(u, side, p) /\ i \in DOMAIN book[u][side][p]
    BY <1>1, <2>1
  <2> DEFINE r == [ticker |-> u, side |-> side, price |-> p, order |-> book[u][side][p][i]]
             atPrice == {[ticker |-> u, side |-> side, price |-> p,
                          order |-> book[u][side][p][k]] : k \in DOMAIN book[u][side][p]}
             OnSide(v, w) == UNION {{[ticker |-> v, side |-> w, price |-> q,
                                      order |-> book[v][w][q][k]] :
                                       k \in DOMAIN book[v][w][q]} : q \in DOMAIN book[v][w]}
  <2>3. r \in atPrice
    BY <2>2
  <2>4. r \in OnSide(u, side)
    BY <2>1, <2>3
  <2>5. Resting = UNION {OnSide(v, w) : v \in INSTRUMENTS, w \in Sides}
    BY DEF Resting
  <2> HIDE DEF OnSide, r
  <2>6. r \in Resting
    BY <2>4, <2>5
  <2>7. QED
    BY <2>2, <2>6 DEF r
<1>4. QED
  BY <1>2, <1>3

\* The live orders are those that stand in a queue.
LEMMA LiveIsQueued ==
  ASSUME TypeOK, NEW a
  PROVE  a \in LiveArrivals <=> Live(a)
<1>1. ASSUME a \in LiveArrivals PROVE Live(a)
  <2>1. PICK r \in Resting : a = r.order.arrival
    BY <1>1 DEF LiveArrivals
  <2>2. PICK u \in INSTRUMENTS, side \in Sides, p \in Price :
          \E i \in 1..Len(Queue(u, side, p)) :
            r = [ticker |-> u, side |-> side, price |-> p, order |-> Queue(u, side, p)[i]]
    BY RestingIsQueued
  <2>3. QED
    BY <2>1, <2>2 DEF Live
<1>2. ASSUME Live(a) PROVE a \in LiveArrivals
  <2>1. PICK u \in INSTRUMENTS, side \in Sides, p \in Price :
          \E i \in 1..Len(Queue(u, side, p)) : Queue(u, side, p)[i].arrival = a
    BY <1>2 DEF Live
  <2>2. PICK i \in 1..Len(Queue(u, side, p)) : Queue(u, side, p)[i].arrival = a
    BY <2>1
  <2> DEFINE r == [ticker |-> u, side |-> side, price |-> p, order |-> Queue(u, side, p)[i]]
  <2>3. r \in Resting /\ r.order.arrival = a
    BY <2>2, RestingIsQueued
  <2>4. QED
    BY <2>3 DEF LiveArrivals
<1>3. QED
  BY <1>1, <1>2

\* Not one lot is lost or traded twice, in any reachable state: every order
\* received rests with what it has not traded, is in progress, or ended in
\* one of the ways the code knows.
THEOREM VolumeIsConserved == Spec => []VolumeConserved
<1>1. TypeOK /\ History => VolumeConserved
  <2> SUFFICES ASSUME TypeOK, History PROVE VolumeConserved
    OBVIOUS
  <2>1. DOMAIN log = 1..Len(log)
    BY DEF TypeOK
  <2>2. ASSUME NEW r \in Resting
        PROVE  /\ r.order.arrival \in DOMAIN log
               /\ log[r.order.arrival] =
                    [orderId |-> r.order.orderId, userId |-> r.order.userId,
                     ticker |-> r.ticker, side |-> r.side, price |-> r.price,
                     volume |-> executed[r.order.arrival] + r.order.volume]
               /\ r.order.arrival \notin DOMAIN cancelledBy
    <3>1. PICK u \in INSTRUMENTS, side \in Sides, p \in Price :
            \E i \in 1..Len(Queue(u, side, p)) :
              r = [ticker |-> u, side |-> side, price |-> p, order |-> Queue(u, side, p)[i]]
      BY RestingIsQueued
    <3>2. PICK i \in 1..Len(Queue(u, side, p)) :
            r = [ticker |-> u, side |-> side, price |-> p, order |-> Queue(u, side, p)[i]]
      BY <3>1
    <3> DEFINE q == Queue(u, side, p)[i]
    <3>3. Placed(log, executed, DOMAIN cancelledBy, NextArrival, u, side, p, q)
      BY QueuedOrder DEF History
    <3>4. r.order = q /\ r.ticker = u /\ r.side = side /\ r.price = p
      BY <3>2
    <3> HIDE DEF q
    <3>5. QED
      BY <2>1, <3>3, <3>4 DEF Placed
  <2>3. call # None => executed[call.arrival] + call.remaining = call.order.volume
    BY DEF History, CallOK
  <2>4. ASSUME NEW a \in DOMAIN log
        PROVE  \/ a \in LiveArrivals
               \/ call # None /\ a = call.arrival /\ call.order = log[a]
               \/ log[a].ticker \notin INSTRUMENTS /\ executed[a] = 0
               \/ log[a].volume <= 0 /\ executed[a] = 0
               \/ log[a].volume > 0 /\ executed[a] = log[a].volume
               \/ a \in DOMAIN cancelledBy /\ executed[a] < log[a].volume
    <3>1. Live(a) \/ Over(a)
      BY <2>1 DEF History, AllAccounted
    <3>2. Live(a) => a \in LiveArrivals
      BY LiveIsQueued
    <3>3. QED
      BY <3>1, <3>2 DEF Over, History, CallOK
  <2>5. QED
    BY <2>2, <2>3, <2>4 DEF VolumeConserved
<1>2. QED
  BY <1>1, TypeCorrect, HistoryInvariant, PTL

\* The order that Match trades with is the first of its queue.
LEMMA MakerFirst ==
  ASSUME TypeOK, Match
  PROVE  1 \in 1..Len(MakerQueue) /\ Maker = MakerQueue[1]
<1>1. ASSUME NEW q \in Seq(RestingOrder), q # << >>
      PROVE  1 \in 1..Len(q) /\ Head(q) = q[1]
  BY <1>1, EmptySeq, SMTT(20)
<1>2. MakerQueue \in Seq(RestingOrder) /\ MakerQueue # << >> /\ Maker = Head(MakerQueue)
  BY MatchQueues
<1>3. QED
  BY <1>1, <1>2, Zenon

\* The maker of a trade stands in the queue that its log entry names.
LEMMA MakerEntry ==
  ASSUME TypeOK, History, Match
  PROVE  /\ log[Maker.arrival].ticker = call.order.ticker
         /\ log[Maker.arrival].side = MakerSide /\ log[Maker.arrival].price = MakerPrice
<1>1. /\ call.order.ticker \in INSTRUMENTS /\ MakerSide \in Sides /\ MakerPrice \in Price
      /\ MakerQueue = Queue(call.order.ticker, MakerSide, MakerPrice)
      /\ MakerQueue \in Seq(RestingOrder) /\ MakerQueue # <<>> /\ Maker = Head(MakerQueue)
  BY MatchQueues DEF MakerQueue
<1>2. 1 \in 1..Len(MakerQueue) /\ Maker = MakerQueue[1]
  BY MakerFirst
<1>3. PICK u \in INSTRUMENTS, side \in Sides, p \in Price :
        u = call.order.ticker /\ side = MakerSide /\ p = MakerPrice
  BY <1>1
<1>4. 1 \in 1..Len(Queue(u, side, p)) /\ Maker = Queue(u, side, p)[1]
  BY <1>1, <1>2, <1>3, Zenon
<1>5. /\ log[Maker.arrival].ticker = u /\ log[Maker.arrival].side = side
      /\ log[Maker.arrival].price = p
  <2>1. Queued
    BY Zenon DEF History
  <2>2. LET r == Queue(u, side, p)[1]
        IN  /\ log[r.arrival].ticker = u /\ log[r.arrival].side = side
            /\ log[r.arrival].price = p
    BY <1>4, <2>1, QueuedEntry, SMTT(20)
  <2>3. QED
    BY <1>4, <2>2, Zenon
<1>6. QED
  BY <1>3, <1>5

\* The order that trades stands first: of two live orders, the one behind
\* does not trade in this step.
LEMMA MatchKeepsPriority ==
  ASSUME TypeOK, History, Match,
         NEW a \in LiveArrivals, NEW b \in LiveArrivals, a # b, Before(a, b)
  PROVE  executed'[b] = executed[b]
<1> DEFINE t == call.order.ticker
<1>1. /\ t \in INSTRUMENTS /\ MakerSide \in Sides /\ MakerPrice \in Price
      /\ \A q \in DOMAIN book[t][MakerSide] : NoWorse(MakerSide, MakerPrice, q)
      /\ MakerQueue = Queue(t, MakerSide, MakerPrice)
      /\ MakerQueue \in Seq(RestingOrder) /\ MakerQueue # <<>> /\ Maker = Head(MakerQueue)
  BY MatchQueues DEF MakerQueue
<1>2. 1 \in 1..Len(MakerQueue) /\ Maker = MakerQueue[1]
  BY MakerFirst
<1> HIDE DEF t
\* A live order stands in the queue that its log entry names.
<1>3. ASSUME NEW x \in LiveArrivals
      PROVE  /\ x \in 1..Len(log) /\ x < call.arrival
             /\ log[x].ticker \in INSTRUMENTS /\ log[x].side \in Sides /\ log[x].price \in Price
             /\ \E i \in 1..Len(Queue(log[x].ticker, log[x].side, log[x].price)) :
                  Queue(log[x].ticker, log[x].side, log[x].price)[i].arrival = x
  <2>1. Live(x)
    BY <1>3, LiveIsQueued
  <2>2. PICK u \in INSTRUMENTS, side \in Sides, p \in Price :
          \E i \in 1..Len(Queue(u, side, p)) : Queue(u, side, p)[i].arrival = x
    BY <2>1 DEF Live
  <2>3. PICK i \in 1..Len(Queue(u, side, p)) : Queue(u, side, p)[i].arrival = x
    BY <2>2
  <2>4. /\ x \in 1..Len(log) /\ x < NextArrival
        /\ log[x].ticker = u /\ log[x].side = side /\ log[x].price = p
    <3>1. Queued
      BY Zenon DEF History
    <3>2. LET r == Queue(u, side, p)[i]
          IN  /\ r.arrival \in 1..Len(log) /\ r.arrival < NextArrival
              /\ log[r.arrival].ticker = u /\ log[r.arrival].side = side
              /\ log[r.arrival].price = p
      BY <3>1, QueuedEntry, SMTT(20)
    <3>3. QED
      BY <2>3, <3>2, Zenon
  <2>5. NextArrival = call.arrival
    BY MatchCounters
  <2>6. QED
    BY <2>3, <2>4, <2>5
<1>4. SUFFICES ASSUME b = Maker.arrival PROVE FALSE
  <2>1. b \in 1..Len(log) /\ b < call.arrival
    BY <1>3
  <2>2. call.arrival \in Nat
    BY MatchQueues DEF Call
  <2>3. b # call.arrival
    BY <2>1, <2>2
  <2>4. QED
    BY <2>1, <2>3, MatchCounters
<1>5. log[b].ticker = t /\ log[b].side = MakerSide /\ log[b].price = MakerPrice
  BY <1>4, MakerEntry, SMTT(20) DEF t
<1> DEFINE p == log[a].price
<1>6. /\ log[a].ticker = t /\ log[a].side = MakerSide /\ p \in Price
      /\ NoWorse(MakerSide, p, MakerPrice)
      /\ p = MakerPrice => a < b
  BY <1>3, <1>5, SMTT(20) DEF Before
<1>7. PICK i \in 1..Len(Queue(t, MakerSide, p)) : Queue(t, MakerSide, p)[i].arrival = a
  BY <1>3, <1>6, SMTT(20)
<1>8. p \in DOMAIN book[t][MakerSide]
  <2>1. Len(Queue(t, MakerSide, p)) # 0
    BY <1>7
  <2>2. Queue(t, MakerSide, p) # << >>
    BY <2>1, EmptySeq
  <2>3. QED
    BY <1>1, <2>2, QueueType
<1>9. p = MakerPrice
  <2>1. NoWorse(MakerSide, MakerPrice, p)
    BY <1>1, <1>8
  <2>2. p \in Int /\ MakerPrice \in Int
    BY <1>1, <1>6, HalfAssumption, SMTT(20) DEF Price
  <2> HIDE DEF p
  <2>3. QED
    BY <1>6, <2>1, <2>2 DEF NoWorse
<1>10. i \in 1..Len(MakerQueue) /\ MakerQueue[i].arrival = a
  BY <1>1, <1>7, <1>9
<1>11. InOrder(MakerQueue)
  BY <1>1 DEF History, Queued, QueueOK
<1>12. a \in Nat /\ b \in Nat /\ a < b
  BY <1>3, <1>6, <1>9
<1>13. i # 1
  BY <1>2, <1>4, <1>10
<1>14. 1 < i
  BY <1>10, <1>13
<1>15. b < a
  BY <1>2, <1>4, <1>10, <1>11, <1>14 DEF InOrder
<1>16. QED
  BY <1>12, <1>15, SMTT(20)

\* Price-time priority, for every book: no step trades a resting order while
\* one that stands before it still rests.
THEOREM PriceTimePriorityHolds == Spec => PriceTimePriority
<1> DEFINE Step == \A a, b \in LiveArrivals :
                     a # b /\ Before(a, b) => executed'[b] = executed[b]
<1>1. TypeOK /\ History /\ [Next]_vars => [Step]_vars
  <2> SUFFICES ASSUME TypeOK, History, Next PROVE Step
    OBVIOUS
  <2> SUFFICES ASSUME NEW a \in LiveArrivals, NEW b \in LiveArrivals, a # b, Before(a, b)
               PROVE  executed'[b] = executed[b]
    OBVIOUS
  <2>1. ASSUME NEW o \in OrderAdd, Receive(o) PROVE executed'[b] = executed[b]
    <3>1. Live(b)
      BY LiveIsQueued
    <3>2. PICK u \in INSTRUMENTS, side \in Sides, p \in Price :
            \E i \in 1..Len(Queue(u, side, p)) : Queue(u, side, p)[i].arrival = b
      BY <3>1 DEF Live
    <3>3. PICK i \in 1..Len(Queue(u, side, p)) : Queue(u, side, p)[i].arrival = b
      BY <3>2
    <3>4. b \in 1..Len(log)
      <4>1. Queued
        BY Zenon DEF History
      <4>2. Queue(u, side, p)[i].arrival \in 1..Len(log)
        BY <4>1, QueuedEntry, SMTT(20)
      <4>3. QED
        BY <3>3, <4>2, Zenon
    <3>5. executed' = Append(executed, 0) /\ executed \in Seq(Nat) /\ Len(executed) = Len(log)
      BY <2>1 DEF Receive, TypeOK
    <3>6. QED
      BY <3>4, <3>5, AppendProperties
  <2>2. CASE Match
    BY <2>2, MatchKeepsPriority
  <2>3. CASE executed' = executed
    BY <2>3
  <2>4. QED
    BY <2>1, <2>2, <2>3, ZenonT(30)
       DEF Next, OnOrderAdd, DropOrderAdd, FinishOrderAdd, OnOrderCancel, RejectCancel, vars
<1>2. QED
  BY <1>1, TypeCorrect, HistoryInvariant, PTL DEF Spec, PriceTimePriority

-----------------------------------------------------------------------------
(* The mid price of an instrument that trades. *)

\* The inductive invariant: a book that holds an order has a mid price, and so
\* has the instrument of every order that has traded.
MidKnown ==
  /\ \A u \in INSTRUMENTS : \A s \in Sides : DOMAIN book[u][s] # {} => midPrice[u] # None
  /\ \A a \in 1..Len(log) :
       executed[a] > 0 => log[a].ticker \in INSTRUMENTS /\ midPrice[log[a].ticker] # None

\* UpdateMidPrice publishes a price for a book that holds an order, and never
\* withdraws one.
LEMMA MidUpdatedKeepsKnown ==
  ASSUME MidKnown, NEW t, NEW after, MidUpdated(t, after),
         log' = log, executed' = executed
  PROVE  MidKnown'
<1> DEFINE mid == UpdateMidPrice(after["Buy"], after["Sell"], midPrice[t])
<1>1. LevelsOK(after["Buy"]) /\ LevelsOK(after["Sell"])
  BY DEF MidUpdated, Sides
<1>2. /\ mid \in Price \cup {midPrice[t]}
      /\ DOMAIN after["Buy"] # {} \/ DOMAIN after["Sell"] # {} => mid \in Price
  BY <1>1, UpdateMidPriceOK, SMTT(20)
<1>3. midPrice'[t] = mid
  BY DEF MidUpdated
<1> HIDE DEF mid
<1>4. \A s \in Sides : DOMAIN after[s] # {} => midPrice'[t] # None
  BY <1>2, <1>3, NoneIsNoPrice, SMTT(20) DEF Sides
<1>5. \A u \in INSTRUMENTS : midPrice[u] # None => midPrice'[u] # None
  BY <1>2, <1>3, NoneIsNoPrice, SMTT(20) DEF MidUpdated
<1>6. \A u \in INSTRUMENTS : \A s \in Sides : DOMAIN book'[u][s] # {} => midPrice'[u] # None
  BY <1>4 DEF MidUpdated, MidKnown
<1>7. QED
  BY <1>5, <1>6 DEF MidKnown

\* An instrument that has ever traded has a mid price, already during the call
\* that trades: the maker's book was published with one when it rested.
THEOREM TradedInstrumentsHaveMid == Spec => []MidKnownOnceTraded
<1>1. Init => MidKnown
  BY EmptySeq DEF Init, MidKnown, EmptyMap
<1>2. TypeOK /\ History /\ MidKnown /\ [Next]_vars => MidKnown'
  <2> SUFFICES ASSUME TypeOK, History, MidKnown, [Next]_vars PROVE MidKnown'
    BY SMTT(20)
  <2>1. ASSUME NEW o \in OrderAdd, Receive(o) PROVE MidKnown'
    <3> DEFINE n == Len(log)
    <3>1. n \in Nat /\ log \in Seq(OrderAdd) /\ executed \in Seq(Nat) /\ Len(executed) = n
      BY DEF TypeOK
    <3>2. Len(log') = n + 1 /\ \A a \in 1..n : log'[a] = log[a]
      BY <2>1, <3>1, AppendProperties DEF Receive
    <3>3. executed'[n + 1] = 0 /\ \A a \in 1..n : executed'[a] = executed[a]
      BY <2>1, <3>1, AppendProperties DEF Receive
    <3>4. book' = book /\ midPrice' = midPrice
      BY <2>1 DEF Receive
    <3>5. \A a \in 1..(n + 1) : a = n + 1 \/ a \in 1..n
      BY <3>1
    <3>6. \A a \in 1..n :
            executed[a] > 0 => log[a].ticker \in INSTRUMENTS /\ midPrice[log[a].ticker] # None
      BY DEF MidKnown
    <3> HIDE DEF n
    <3>7. \A a \in 1..(n + 1) :
            executed'[a] > 0 => log'[a].ticker \in INSTRUMENTS /\ midPrice'[log'[a].ticker] # None
      BY <3>2, <3>3, <3>4, <3>5, <3>6, SMTT(20)
    <3>8. QED
      BY <3>2, <3>4, <3>7 DEF MidKnown
  <2>2. CASE Match
    <3> DEFINE t == call.order.ticker
               m == Maker.arrival
               c == call.arrival
    <3>1. /\ t \in INSTRUMENTS /\ MakerSide \in Sides /\ MakerPrice \in Price
          /\ MakerPrice \in DOMAIN book[t][MakerSide]
          /\ MakerQueue = Queue(t, MakerSide, MakerPrice)
          /\ MakerQueue \in Seq(RestingOrder) /\ MakerQueue # <<>> /\ Maker = Head(MakerQueue)
      BY <2>2, MatchQueues DEF MakerQueue
    <3>2. midPrice[t] # None
      BY <3>1 DEF MidKnown
    <3>3. log[m].ticker = t
      BY <2>2, MakerEntry, SMTT(20)
    <3>4. call # None /\ log[c].ticker = t
      BY <2>2, MatchCounters, Zenon DEF History, CallOK
    <3>5. /\ log' = log /\ midPrice' = midPrice
          /\ \A a \in 1..Len(log) :
               executed'[a] = IF a \in {m, c} THEN executed[a] + Fill ELSE executed[a]
      BY <2>2, MatchCounters, ZenonT(30) DEF Match
    <3>6. \A u \in INSTRUMENTS : \A side \in Sides :
            DOMAIN book'[u][side] # {} => DOMAIN book[u][side] # {}
      <4> DEFINE s == Opposite(call.order.side)
                 filled == FillBest(s, book[t][s], Traded(call.remaining, Maker))
      <4>1. t \in INSTRUMENTS /\ s \in Sides /\ DOMAIN filled \subseteq DOMAIN book[t][s]
        BY <2>2, MatchFacts, FillBestOK, Zenon DEF Match
      <4>2. book' = [book EXCEPT ![t][s] = filled]
        BY <2>2 DEF Match
      <4>3. book = [u \in INSTRUMENTS |-> [side \in Sides |-> book[u][side]]]
        BY DEF TypeOK
      <4> HIDE DEF t, s, filled
      <4>4. \A u \in INSTRUMENTS : \A side \in Sides :
              book'[u][side] = IF u = t /\ side = s THEN filled ELSE book[u][side]
        BY <4>1, <4>2, <4>3
      <4>5. QED
        BY <4>1, <4>4
    <3> HIDE DEF t, m, c
    <3>7. ASSUME NEW a \in 1..Len(log), executed'[a] > 0
          PROVE  log[a].ticker \in INSTRUMENTS /\ midPrice[log[a].ticker] # None
      <4>1. CASE a \in {m, c}
        BY <3>1, <3>2, <3>3, <3>4, <4>1, SMTT(20)
      <4>2. CASE a \notin {m, c}
        BY <3>5, <3>7, <4>2 DEF MidKnown
      <4>3. QED
        BY <4>1, <4>2
    <3>8. QED
      BY <3>5, <3>6, <3>7, SMTT(20) DEF MidKnown
  <2>3. CASE FinishOrderAdd
    <3>1. log' = log /\ executed' = executed
      BY <2>3 DEF FinishOrderAdd
    <3>2. QED
      BY <2>3, <3>1, FinishUpdatesMid, MidUpdatedKeepsKnown, SMTT(20)
  <2>4. ASSUME NEW c \in OrderCancel, OnOrderCancel(c) PROVE MidKnown'
    <3>1. log' = log /\ executed' = executed
      BY <2>4, ZenonT(30) DEF OnOrderCancel
    <3>2. PICK after : MidUpdated(c.ticker, after)
      BY <2>4, CancelUpdatesMid
    <3>3. QED
      BY <3>1, <3>2, MidUpdatedKeepsKnown
  <2>5. CASE UNCHANGED vars
    BY <2>5, ZenonT(30) DEF vars, MidKnown
  <2>6. QED
    BY <2>1, <2>2, <2>3, <2>4, <2>5 DEF Next, OnOrderAdd, DropOrderAdd, RejectCancel
<1>3. TypeOK /\ MidKnown => MidKnownOnceTraded
  <2> SUFFICES ASSUME TypeOK, MidKnown PROVE MidKnownOnceTraded
    OBVIOUS
  <2>1. DOMAIN log = 1..Len(log)
    BY DEF TypeOK
  <2>2. QED
    BY <2>1, Zenon DEF MidKnown, MidKnownOnceTraded
<1>4. QED
  BY <1>1, <1>2, <1>3, TypeCorrect, HistoryInvariant, PTL DEF Spec

-----------------------------------------------------------------------------
(* The two parties of a trade, in terms of the history alone. *)

\* A trade whose maker and taker are the orders numbered m and c, each of
\* which has at least the traded volume left.
Parties(trade, m, c) ==
  /\ m \in 1..Len(log) /\ c \in 1..Len(log) /\ m # c
  /\ log[m].userId = trade.maker /\ log[m].orderId = trade.makerOrderId
  /\ log[m].ticker = trade.ticker /\ log[m].side = Opposite(trade.takerSide)
  /\ log[c].userId = trade.taker /\ log[c].orderId = trade.takerOrderId
  /\ log[c].ticker = trade.ticker /\ log[c].side = trade.takerSide
  /\ executed[m] + trade.volume <= log[m].volume
  /\ executed[c] + trade.volume <= log[c].volume

\* The trade that Match hands to onTrade is between the front order of the
\* best level and the order of the call.
LEMMA NextTradeParties ==
  ASSUME TypeOK, History, call # None, Matches(call.order, call.remaining, Opposing)
  PROVE  /\ NextTrade \in [maker : UserIds, taker : UserIds, makerOrderId : OrderIds,
                           takerOrderId : OrderIds, ticker : INSTRUMENTS,
                           takerSide : Sides, price : Price, volume : Nat \ {0}]
         /\ Parties(NextTrade, Maker.arrival, call.arrival)
<1> DEFINE t == call.order.ticker
           s == Opposite(call.order.side)
           best == BestPrice(s, book[t][s])
           traded == Traded(call.remaining, Maker)
<1>1. /\ call \in Call /\ t \in INSTRUMENTS /\ s \in Sides
      /\ Opposing = book[t][s]
      /\ LevelsOK(book[t][s]) /\ DOMAIN book[t][s] # {}
      /\ Maker = Head(book[t][s][best]) /\ Maker \in RestingOrder
      /\ traded \in Nat \ {0} /\ traded <= Maker.volume /\ traded <= call.remaining
  BY MatchFacts, Zenon
<1>2. best \in DOMAIN book[t][s] /\ best \in Price
  BY <1>1, BestPriceIsBest, ZenonT(30) DEF LevelsOK
<1>3. /\ Queue(t, s, best) \in Seq(RestingOrder) /\ Queue(t, s, best) # <<>>
      /\ book[t][s][best] = Queue(t, s, best)
  BY <1>1, <1>2, QueueType, Zenon
<1>4. ASSUME NEW q \in Seq(RestingOrder), q # << >>
      PROVE  1 \in 1..Len(q) /\ Head(q) = q[1]
  BY <1>4, EmptySeq
<1>5. 1 \in 1..Len(Queue(t, s, best)) /\ Maker = Queue(t, s, best)[1]
  BY <1>1, <1>3, <1>4, Zenon
<1>6. Placed(log, executed, DOMAIN cancelledBy, NextArrival, t, s, best, Maker)
  <2>1. Queued
    BY DEF History
  <2>2. PICK u \in INSTRUMENTS, side \in Sides, p \in Price : u = t /\ side = s /\ p = best
    BY <1>1, <1>2, Zenon
  <2>3. PICK k \in 1..Len(Queue(u, side, p)) : k = 1
    BY <1>5, <2>2, Zenon
  <2>4. Placed(log, executed, DOMAIN cancelledBy, NextArrival, u, side, p,
               Queue(u, side, p)[k])
    BY <2>1, QueuedOrder, SMTT(20)
  <2>5. QED
    BY <1>5, <2>2, <2>3, <2>4, Zenon
<1>7. /\ call.arrival \in 1..Len(log) /\ log[call.arrival] = call.order
      /\ executed[call.arrival] + call.remaining = call.order.volume
  BY Zenon DEF History, CallOK
<1>8. call.order \in OrderAdd /\ call.remaining \in Int /\ call.arrival \in Nat
  BY <1>1, ZenonT(20) DEF Call
<1>9. /\ NextTrade.maker = Maker.userId /\ NextTrade.taker = call.order.userId
      /\ NextTrade.makerOrderId = Maker.orderId
      /\ NextTrade.takerOrderId = call.order.orderId
      /\ NextTrade.ticker = t /\ NextTrade.takerSide = call.order.side
      /\ NextTrade.price = best /\ NextTrade.volume = traded
  BY <1>1, ZenonT(20) DEF NextTrade
<1>10. NextTrade \in [maker : UserIds, taker : UserIds, makerOrderId : OrderIds,
                      takerOrderId : OrderIds, ticker : INSTRUMENTS,
                      takerSide : Sides, price : Price, volume : Nat \ {0}]
  BY <1>1, <1>2, <1>8, ZenonT(20) DEF NextTrade, RestingOrder, OrderAdd
<1>11. Maker.arrival < call.arrival
  BY <1>6 DEF Placed, NextArrival
<1>12. /\ executed \in Seq(Nat) /\ Len(executed) = Len(log)
       /\ Maker.arrival \in 1..Len(log) /\ Maker.volume \in Nat
  BY <1>1, <1>6, ZenonT(20) DEF TypeOK, Placed, RestingOrder
<1>13. executed[Maker.arrival] \in Nat /\ executed[call.arrival] \in Nat
  BY <1>7, <1>12, SMTT(20)
<1> HIDE DEF t, s, best, traded
<1>14. /\ log[Maker.arrival].userId = Maker.userId
       /\ log[Maker.arrival].orderId = Maker.orderId
       /\ log[Maker.arrival].ticker = t /\ log[Maker.arrival].side = s
       /\ log[Maker.arrival].volume = executed[Maker.arrival] + Maker.volume
  BY <1>6 DEF Placed
<1>15. /\ executed[Maker.arrival] + traded <= log[Maker.arrival].volume
       /\ executed[call.arrival] + traded <= log[call.arrival].volume
  <2>1. traded \in Nat /\ traded <= Maker.volume /\ traded <= call.remaining
    BY <1>1, Zenon
  <2>2. executed[Maker.arrival] + traded <= executed[Maker.arrival] + Maker.volume
    BY <1>12, <1>13, <2>1
  <2>3. executed[call.arrival] + traded <= executed[call.arrival] + call.remaining
    BY <1>8, <1>13, <2>1
  <2>4. QED
    BY <1>7, <1>14, <2>2, <2>3, Zenon
<1>16. Maker.arrival # call.arrival
  BY <1>8, <1>11, <1>12
<1>17. Parties(NextTrade, Maker.arrival, call.arrival)
  BY <1>7, <1>9, <1>12, <1>14, <1>15, <1>16, Zenon DEF Parties, t, s
<1>18. QED
  BY <1>10, <1>17
=============================================================================
