-------------------------------- MODULE Feed --------------------------------
(***************************************************************************)
(* The market data feed from end to end: encoded orders reach the matching   *)
(* engine, its events go out as datagrams, and a listener rebuilds the books *)
(* from those that reach it (src/tools/orderbook_listener.py).  The orders   *)
(* come from src/tools/dummy_order_generator.py or from any users.           *)
(*                                                                         *)
(* Queues, threads and shutdown are those of module Exchange; here the path  *)
(* to the engine and the path from it are one FIFO each.  The datagrams stay *)
(* on one host (Local is true) and are not reordered, but any of them may be *)
(* lost: sendto fails, which the publisher only logs, the listener's socket  *)
(* overflows, or the listener has not joined the group yet.                 *)
(***************************************************************************)
EXTENDS Wire

CONSTANTS
  Half, OrderIds, UserIds, None,
  INSTRUMENTS,    \* the listed tickers, which wire.py knows too
  Prices, Volumes,
  USER_ID,        \* the generator's user
  MaxOrders,      \* bound: how many orders are sent
  MaxInbound      \* bound: how many messages are on their way to the engine

ASSUME FeedAssumption ==
  /\ MaxOrders \in Nat
  /\ OrderIds = 1..MaxOrders
  /\ INSTRUMENTS \subseteq Ticker
  /\ UserIds \subseteq Int
  /\ USER_ID \in UserIds

VARIABLES
  book, orderIndex, midPrice, call, log, executed, cancelledBy,   \* the router
  next_order_id, own_orders,   \* the generator: the next id, ids to tickers
  inbound,                     \* messages on their way to the engine
  channel,                     \* datagrams neither received nor lost yet
  open_orders,                 \* the listener's OrderBook
  missed                       \* history: the order ids that lost datagrams name

routerVars == <<book, orderIndex, midPrice, call, log, executed, cancelledBy>>
clientVars == <<next_order_id, own_orders>>
listenerVars == <<open_orders, missed>>
vars == <<routerVars, clientVars, inbound, channel, listenerVars>>

Router == INSTANCE MatchingEngineRouter WITH
            Tickers <- INSTRUMENTS, ReuseLiveIds <- FALSE

ASSUME FeedRouterAssumption ==
  /\ Half \in Nat \ {0}
  /\ None \notin Router!Price \cup Router!Call
  /\ Prices \subseteq Router!Price
  /\ Volumes \subseteq Int

Init ==
  /\ Router!Init
  /\ next_order_id = 1
  /\ own_orders = Router!EmptyMap
  /\ inbound = <<>>
  /\ channel = <<>>
  /\ open_orders = Router!EmptyMap
  /\ missed = {}

-----------------------------------------------------------------------------
(* The clients. *)

Send(message) ==
  /\ Len(inbound) < MaxInbound
  /\ inbound' = Append(inbound, message)
  /\ UNCHANGED <<routerVars, channel, listenerVars>>

\* random_order_add, for a user; the generator remembers the ticker.
SendOrderAdd(user) ==
  /\ next_order_id <= MaxOrders
  /\ \E t \in INSTRUMENTS, s \in Router!Sides, p \in Prices, v \in Volumes :
       /\ Fits(t)
       /\ Send(encode_order_add([orderId |-> next_order_id, userId |-> user, ticker |-> t,
                                 side |-> s, price |-> p, volume |-> v]))
       /\ own_orders' = Router!WithKey(own_orders, next_order_id, t)
  /\ next_order_id' = next_order_id + 1

\* The generator cancels one of the orders it has not cancelled yet; it does
\* not know which of them have traded.
SendOrderCancel ==
  \E id \in DOMAIN own_orders :
    /\ Send(encode_order_cancel([orderId |-> id, userId |-> USER_ID,
                                 ticker |-> own_orders[id]]))
    /\ own_orders' = Router!WithoutKey(own_orders, id)
    /\ UNCHANGED next_order_id

\* Users other than the generator may name any order and any ticker.
SendAnyCancel ==
  /\ \E c \in Router!OrderCancel : Send(encode_order_cancel(c))
  /\ UNCHANGED clientVars

-----------------------------------------------------------------------------
(* The exchange: the matching engine thread publishes every order before it  *)
(* hands it to the router, every trade from onTrade, and every cancel after  *)
(* the router has handled it.                                               *)

Publish(event) ==
  /\ channel' = Append(channel, event)
  /\ UNCHANGED <<clientVars, listenerVars>>

Command == DecodeInboundMessage(Head(inbound))

ExecuteOrderAdd ==
  /\ inbound # <<>>
  /\ Command.type = "OrderAdd"
  /\ Router!OnOrderAdd(Command.value)
  /\ Publish(EncodeOrderAddEvent(Command.value))
  /\ inbound' = Tail(inbound)

ExecuteOrderCancel ==
  /\ inbound # <<>>
  /\ Command.type = "OrderCancel"
  /\ Router!OnOrderCancel(Command.value) \/ Router!RejectCancel(Command.value)
  /\ Publish(EncodeOrderCancelEvent(Command.value))
  /\ inbound' = Tail(inbound)

Trade ==
  /\ Router!Match
  /\ Publish(EncodeTradeEvent(Router!NextTrade))
  /\ UNCHANGED inbound

Finish ==
  /\ Router!FinishOrderAdd
  /\ UNCHANGED <<clientVars, inbound, channel, listenerVars>>

-----------------------------------------------------------------------------
(* The listener. *)

\* A trade of so much volume takes it off one resting order, if known.
Shrink(orders, id, volume) ==
  IF id \notin DOMAIN orders THEN orders
  ELSE IF orders[id].volume - volume <= 0 THEN Router!WithoutKey(orders, id)
  ELSE [orders EXCEPT ![id].volume = @ - volume]

\* Mutant: only the maker's order is taken to rest.
ShrinkMaker(orders, trade) == Shrink(orders, trade.makerOrderId, trade.volume)

ShrinkBoth(orders, trade) ==
  Shrink(Shrink(orders, trade.makerOrderId, trade.volume), trade.takerOrderId, trade.volume)

\* OrderBook.apply
apply(orders, event) ==
  CASE event.type = "OrderAdd" ->
         Router!WithKey(orders, event.orderId,
                        [ticker |-> event.ticker, side |-> event.side,
                         price |-> event.price, volume |-> event.volume])
    [] event.type = "OrderCancel" -> Router!WithoutKey(orders, event.orderId)
    [] event.type = "Trade" -> ShrinkBoth(orders, event)
    [] OTHER -> orders

Receive ==
  /\ channel # <<>>
  /\ open_orders' = apply(open_orders, decode_market_data(Head(channel)))
  /\ channel' = Tail(channel)
  /\ UNCHANGED <<routerVars, clientVars, inbound, missed>>

\* The orders that an event is about.
Named(event) ==
  IF event.type = "Trade" THEN {event.makerOrderId, event.takerOrderId} ELSE {event.orderId}

Lose ==
  /\ channel # <<>>
  /\ missed' = missed \cup Named(decode_market_data(Head(channel)))
  /\ channel' = Tail(channel)
  /\ UNCHANGED <<routerVars, clientVars, inbound, open_orders>>

FeedStep == ExecuteOrderAdd \/ ExecuteOrderCancel \/ Trade \/ Finish \/ Receive \/ Lose

\* The generator is the only client.
GeneratorNext == SendOrderAdd(USER_ID) \/ SendOrderCancel \/ FeedStep
GeneratorSpec == Init /\ [][GeneratorNext]_vars

\* Any users, who choose fresh order ids but cancel what they like.
UsersNext == (\E u \in UserIds : SendOrderAdd(u)) \/ SendAnyCancel \/ FeedStep
UsersSpec == Init /\ [][UsersNext]_vars

-----------------------------------------------------------------------------
(* Properties. *)

\* What rests in the engine, the unfilled part of the order being matched
\* included.
EngineOrders ==
  {[orderId |-> r.order.orderId, ticker |-> r.ticker, side |-> r.side,
    price |-> r.price, volume |-> r.order.volume] : r \in Router!Resting}
  \cup (IF call # None /\ call.remaining > 0
        THEN {[orderId |-> call.order.orderId, ticker |-> call.order.ticker,
               side |-> call.order.side, price |-> call.order.price,
               volume |-> call.remaining]}
        ELSE {})

\* What becomes of the orders when the datagrams are received in turn.
AfterAll(orders, datagrams) ==
  LET after[i \in 0..Len(datagrams)] ==
        IF i = 0 THEN orders ELSE apply(after[i - 1], decode_market_data(datagrams[i]))
  IN  after[Len(datagrams)]

\* What the listener shows once it has received the datagrams on their way.
ListenerOrders ==
  LET orders == AfterAll(open_orders, channel)
  IN  {[orderId |-> id, ticker |-> orders[id].ticker, side |-> orders[id].side,
        price |-> orders[id].price, volume |-> orders[id].volume] : id \in DOMAIN orders}

Complete(orders) == {o \in orders : o.orderId \notin missed}

\* orderbook_listener.py: the OrderBook "mirrors what the exchange does
\* internally".  The datagrams on their way bring the listener to exactly the
\* orders, sides, prices and volumes of the engine's books; a lost datagram
\* spoils no order but the ones it names.
BookMirrored == Complete(ListenerOrders) = Complete(EngineOrders)

\* Every order that the generator has cancelled is off the book once the
\* cancel is executed, whatever the order has traded meanwhile: id, owner and
\* ticker come out of the wire as they went in.
CancelledOrdersLeave ==
  \A o \in EngineOrders :
    \/ o.orderId \in DOMAIN own_orders
    \/ \E i \in DOMAIN inbound :
         LET m == DecodeInboundMessage(inbound[i])
         IN  m.type = "OrderCancel" /\ m.value.orderId = o.orderId
=============================================================================
