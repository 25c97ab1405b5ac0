------------------------ MODULE MatchingEngineRouter ------------------------
(***************************************************************************)
(* MatchingEngineRouter of src/common/engine and the engines it owns: one    *)
(* book, order index and published mid price per listed instrument.         *)
(*                                                                         *)
(* The object belongs to one thread, so one call runs at a time.  OnOrderAdd *)
(* hands every trade to its caller through onTrade, and that callback blocks *)
(* on full queues: the call is therefore modelled as the steps between two   *)
(* callbacks (OnOrderAdd, Match once per trade, FinishOrderAdd), each of     *)
(* which sees the mid price the previous call published.  OnOrderCancel has  *)
(* no callback and is one step.                                             *)
(*                                                                         *)
(* log, executed and cancelledBy are history: the orders received, the       *)
(* volume each has traded, and who cancelled it.                            *)
(***************************************************************************)
EXTENDS MatchingEngine

CONSTANTS
  Tickers,       \* the tickers that messages name
  INSTRUMENTS,   \* the listed ones
  Prices,        \* the prices clients submit
  Volumes,       \* the volumes clients submit, zero and negative ones included
  MaxOrders,     \* bound: how many orders arrive
  ReuseLiveIds   \* may an order carry the id of an order resting on its ticker?

ASSUME RouterAssumption ==
  /\ INSTRUMENTS \subseteq Tickers
  /\ Prices \subseteq Price
  /\ Volumes \subseteq Int
  /\ ReuseLiveIds \in BOOLEAN

OrderAdd == [orderId : OrderIds, userId : UserIds, ticker : Tickers,
             side : Sides, price : Prices, volume : Volumes]

OrderCancel == [orderId : OrderIds, userId : UserIds, ticker : Tickers]

\* An OnOrderAdd between two callbacks: the order and its unfilled volume.
Call == [order : OrderAdd, remaining : Int, arrival : Nat \ {0}]

ASSUME NoneIsNoCall == None \notin Call

VARIABLES
  book,          \* bids_ and asks_ of every engine
  orderIndex,    \* orderIndex_ of every engine
  midPrice,      \* the value each engine's seqlock holds
  call,          \* the OnOrderAdd in progress, or None
  log, executed, cancelledBy

engineVars == <<book, orderIndex, midPrice>>
vars == <<book, orderIndex, midPrice, call, log, executed, cancelledBy>>

EmptyMap == [x \in {} |-> x]

Init ==
  /\ book = [t \in INSTRUMENTS |-> [s \in Sides |-> EmptyMap]]
  /\ orderIndex = [t \in INSTRUMENTS |-> EmptyMap]
  /\ midPrice = [t \in INSTRUMENTS |-> None]
  /\ call = None
  /\ log = <<>>
  /\ executed = <<>>
  /\ cancelledBy = EmptyMap

-----------------------------------------------------------------------------
(* The operations. *)

Receive(o) ==
  /\ call = None
  /\ log' = Append(log, o)
  /\ executed' = Append(executed, 0)
  /\ UNCHANGED <<book, orderIndex, midPrice, cancelledBy>>

\* OnOrderAdd of a listed ticker enters the engine's Match.
OnOrderAdd(o) ==
  /\ o.ticker \in INSTRUMENTS
  /\ Receive(o)
  /\ call' = [order |-> o, remaining |-> o.volume, arrival |-> Len(log) + 1]

\* The router drops an order for an unlisted ticker.
DropOrderAdd(o) ==
  /\ o.ticker \notin INSTRUMENTS
  /\ Receive(o)
  /\ UNCHANGED call

\* The opposite side that the order of the call in progress is matched with.
Opposing == book[call.order.ticker][Opposite(call.order.side)]

\* The resting order at the front of the best opposing level.
Maker == Head(Opposing[BestPrice(Opposite(call.order.side), Opposing)])

\* The trade that Match passes to onTrade, at the maker's price.
NextTrade ==
  [maker |-> Maker.userId, taker |-> call.order.userId,
   makerOrderId |-> Maker.orderId, takerOrderId |-> call.order.orderId,
   ticker |-> call.order.ticker, takerSide |-> call.order.side,
   price |-> BestPrice(Opposite(call.order.side), Opposing),
   volume |-> Traded(call.remaining, Maker)]

\* Match's loops reach onTrade: one trade with the maker.
Match ==
  /\ call # None
  /\ Matches(call.order, call.remaining, Opposing)
  /\ LET t == call.order.ticker
         s == Opposite(call.order.side)
         traded == Traded(call.remaining, Maker)
     IN  /\ book' = [book EXCEPT ![t][s] = FillBest(s, @, traded)]
         /\ orderIndex' = IF Maker.volume = traded
                          THEN [orderIndex EXCEPT ![t] = WithoutKey(@, Maker.orderId)]
                          ELSE orderIndex
         /\ call' = [call EXCEPT !.remaining = @ - traded]
         /\ executed' = [a \in DOMAIN executed |->
                            IF a \in {Maker.arrival, call.arrival}
                            THEN executed[a] + traded ELSE executed[a]]
  /\ UNCHANGED <<midPrice, log, cancelledBy>>

\* The book of a ticker after the remainder of the call's order rests.
BookWithRemainder ==
  LET o == call.order
      resting == [orderId |-> o.orderId, userId |-> o.userId,
                  volume |-> call.remaining, arrival |-> call.arrival]
  IN  IF call.remaining > 0
      THEN [book[o.ticker] EXCEPT ![o.side] = Rest(@, o.price, resting)]
      ELSE book[o.ticker]

\* Match is over: rest the remainder, if any, and publish the mid price.
FinishOrderAdd ==
  /\ call # None
  /\ ~Matches(call.order, call.remaining, Opposing)
  /\ LET o == call.order
         t == o.ticker
     IN  /\ book' = [book EXCEPT ![t] = BookWithRemainder]
         /\ orderIndex' =
              IF call.remaining > 0
              THEN [orderIndex EXCEPT ![t] =
                      WithKey(@, o.orderId, [side |-> o.side, price |-> o.price,
                                             userId |-> o.userId])]
              ELSE orderIndex
         /\ midPrice' =
              [midPrice EXCEPT ![t] =
                 UpdateMidPrice(BookWithRemainder["Buy"], BookWithRemainder["Sell"], @)]
  /\ call' = None
  /\ UNCHANGED <<log, executed, cancelledBy>>

\* Mutant: the owner is not compared.
CancellableByAnyone(c) ==
  /\ c.ticker \in INSTRUMENTS
  /\ c.orderId \in DOMAIN orderIndex[c.ticker]

\* The engine finds the order in its index and the requester owns it.
Cancellable(c) ==
  /\ c.ticker \in INSTRUMENTS
  /\ c.orderId \in DOMAIN orderIndex[c.ticker]
  /\ orderIndex[c.ticker][c.orderId].userId = c.userId

\* The arrivals that a level holds.
Arrivals(levels, p) ==
  IF p \in DOMAIN levels
  THEN {levels[p][i].arrival : i \in DOMAIN levels[p]}
  ELSE {}

OnOrderCancel(c) ==
  /\ call = None
  /\ Cancellable(c)
  /\ LET t == c.ticker
         at == orderIndex[t][c.orderId]
         before == book[t][at.side]
         after == EraseFromBook(before, at.price, c.orderId)
         erased == Arrivals(before, at.price) \ Arrivals(after, at.price)
         cancelled == [book[t] EXCEPT ![at.side] = after]
     IN  /\ book' = [book EXCEPT ![t] = cancelled]
         /\ orderIndex' = [orderIndex EXCEPT ![t] = WithoutKey(@, c.orderId)]
         /\ midPrice' = [midPrice EXCEPT ![t] =
                           UpdateMidPrice(cancelled["Buy"], cancelled["Sell"], @)]
         /\ cancelledBy' = [a \in DOMAIN cancelledBy \cup erased |->
                              IF a \in erased THEN c.userId ELSE cancelledBy[a]]
  /\ UNCHANGED <<call, log, executed>>

\* Unlisted ticker, unknown order or somebody else's order: nothing happens.
RejectCancel(c) ==
  /\ call = None
  /\ ~Cancellable(c)
  /\ UNCHANGED vars

-----------------------------------------------------------------------------
(* The clients: at most MaxOrders orders, with ids that are free on their    *)
(* ticker unless ReuseLiveIds.                                              *)

LiveIds(t) ==
  {i \in OrderIds : \E s \in Sides : \E p \in DOMAIN book[t][s] :
     \E k \in DOMAIN book[t][s][p] : book[t][s][p][k].orderId = i}

MaySubmit(o) ==
  /\ Len(log) < MaxOrders
  /\ ~ReuseLiveIds /\ o.ticker \in INSTRUMENTS => o.orderId \notin LiveIds(o.ticker)

Next ==
  \/ \E o \in OrderAdd : MaySubmit(o) /\ OnOrderAdd(o)
  \/ \E o \in OrderAdd : MaySubmit(o) /\ DropOrderAdd(o)
  \/ Match
  \/ FinishOrderAdd
  \/ \E c \in OrderCancel : OnOrderCancel(c)
  \/ \E c \in OrderCancel : RejectCancel(c)

Spec == Init /\ [][Next]_vars

\* A thread inside OnOrderAdd keeps running.
FairSpec == Spec /\ WF_vars(Match \/ FinishOrderAdd)

-----------------------------------------------------------------------------
(* Properties. *)

\* Type invariant: every map has only prices, ids and instruments of its
\* types, and a level that exists holds at least one resting order
\* (Match and EraseFromBook erase the levels they empty).
TypeOK ==
  /\ book = [t \in INSTRUMENTS |-> [s \in Sides |-> book[t][s]]]
  /\ \A t \in INSTRUMENTS : \A s \in Sides : LevelsOK(book[t][s])
  /\ orderIndex = [t \in INSTRUMENTS |->
                     [i \in DOMAIN orderIndex[t] |-> orderIndex[t][i]]]
  /\ \A t \in INSTRUMENTS :
       /\ DOMAIN orderIndex[t] \subseteq OrderIds
       /\ \A i \in DOMAIN orderIndex[t] : orderIndex[t][i] \in OrderLocation
  /\ midPrice \in [INSTRUMENTS -> Price \cup {None}]
  /\ call \in Call \cup {None}
  /\ call # None => call.order.ticker \in INSTRUMENTS
  /\ log \in Seq(OrderAdd)
  /\ executed \in Seq(Nat)
  /\ Len(executed) = Len(log)
  /\ cancelledBy = [a \in DOMAIN cancelledBy |-> cancelledBy[a]]
  /\ \A a \in DOMAIN cancelledBy : cancelledBy[a] \in UserIds

\* No bid is at or above an ask of the same instrument, not even while an
\* order is being matched: what could trade has traded before anything rests.
NeverCrossed ==
  \A t \in INSTRUMENTS :
    \A bid \in DOMAIN book[t]["Buy"], ask \in DOMAIN book[t]["Sell"] : bid < ask

\* Every resting order, as [ticker, side, price, order].
Resting ==
  UNION {UNION {{[ticker |-> t, side |-> s, price |-> p, order |-> book[t][s][p][i]] :
                   i \in DOMAIN book[t][s][p]} : p \in DOMAIN book[t][s]} :
           t \in INSTRUMENTS, s \in Sides}

LiveArrivals == {r.order.arrival : r \in Resting}

\* Not one lot of an order is lost or traded twice.  What rests is where and
\* whose it was submitted, with the submitted volume less what it traded; an
\* order that neither rests nor is being matched was dropped at the router,
\* came without volume, traded in full or was cancelled; none trades more
\* than it asked for.
VolumeConserved ==
  /\ \A r \in Resting :
       LET o == log[r.order.arrival]
       IN  /\ r.order.arrival \in DOMAIN log
           /\ o = [orderId |-> r.order.orderId, userId |-> r.order.userId,
                   ticker |-> r.ticker, side |-> r.side, price |-> r.price,
                   volume |-> executed[r.order.arrival] + r.order.volume]
           /\ r.order.arrival \notin DOMAIN cancelledBy
  /\ call # None => executed[call.arrival] + call.remaining = call.order.volume
  /\ \A a \in DOMAIN log :
       \/ a \in LiveArrivals
       \/ call # None /\ a = call.arrival /\ call.order = log[a]
       \/ log[a].ticker \notin INSTRUMENTS /\ executed[a] = 0
       \/ log[a].volume <= 0 /\ executed[a] = 0
       \/ log[a].volume > 0 /\ executed[a] = log[a].volume
       \/ a \in DOMAIN cancelledBy /\ executed[a] < log[a].volume

\* a stands before b in the book's queue: better price, or equal and earlier.
Before(a, b) ==
  /\ log[a].ticker = log[b].ticker
  /\ log[a].side = log[b].side
  /\ NoWorse(log[a].side, log[a].price, log[b].price)
  /\ log[a].price = log[b].price => a < b

\* Price-time priority: no step trades a resting order while an order that
\* stands before it is still resting (Match takes the front of the best
\* level; Rest, EraseFromBook and the fills keep levels in arrival order).
PriceTimePriority ==
  [][\A a, b \in LiveArrivals :
       a # b /\ Before(a, b) => executed'[b] = executed[b]]_vars

\* OrderCancel, messages.hpp: "Only the owning user may cancel it."  Every
\* order a cancel took off the book belonged to the user who sent the cancel.
OnlyOwnerCancels ==
  \A a \in DOMAIN cancelledBy : cancelledBy[a] = log[a].userId

\* orderIndex_ knows exactly the resting orders, at their side, price and
\* owner, so that every resting order can be cancelled by its owner and
\* nothing else can.  The taker is not in it while it is matched.
IndexExact ==
  \A t \in INSTRUMENTS :
    /\ DOMAIN orderIndex[t] = LiveIds(t)
    /\ \A r \in {q \in Resting : q.ticker = t} :
         orderIndex[t][r.order.orderId] =
           [side |-> r.side, price |-> r.price, userId |-> r.order.userId]

\* Between calls the published mid price lies between the best bid and the
\* best ask, and equals the best price of the only side that has one.
MidWithinSpread ==
  call = None =>
    \A t \in INSTRUMENTS :
      LET bids == DOMAIN book[t]["Buy"]
          asks == DOMAIN book[t]["Sell"]
      IN  bids \cup asks # {} =>
            /\ midPrice[t] # None
            /\ \A b \in bids : b <= midPrice[t]
            /\ \A a \in asks : midPrice[t] <= a
            /\ asks = {} => midPrice[t] \in bids
            /\ bids = {} => midPrice[t] \in asks

\* An instrument that has ever traded has a mid price, already while the
\* call that trades is in progress: the inventory thread, which settles a
\* trade as soon as it is published, always finds one to value it at.
MidKnownOnceTraded ==
  \A a \in DOMAIN log : executed[a] > 0 => midPrice[log[a].ticker] # None

\* Match's loops end: every order received is matched to the end.
OrderAddReturns == call # None ~> call = None

RestingVolume(a) == (CHOOSE r \in Resting : r.order.arrival = a).order.volume

\* What the abstract book sees: the open orders and the one being matched.
OpenVolumes == [a \in LiveArrivals |-> RestingVolume(a)]
TakerArrival == IF call = None THEN 0 ELSE call.arrival
TakerVolume == IF call = None THEN 0 ELSE call.remaining

Book == INSTANCE LimitOrderBook WITH
          orders <- log, open <- OpenVolumes,
          taker <- TakerArrival, left <- TakerVolume

\* The levels, the index and the early exits of the engines implement the
\* open orders, price-time choice and withdrawals of LimitOrderBook: the
\* resting orders are the open ones and the call in progress is the taker.
ImplementsLimitOrderBook == Book!Spec
=============================================================================
