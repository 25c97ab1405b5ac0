--------------------------- MODULE LimitOrderBook ---------------------------
(***************************************************************************)
(* What the matching engines promise, without levels, queues or an index:    *)
(* a set of open orders from which the one first in price-time order trades, *)
(* and from which an owner may withdraw.  MatchingEngineRouter implements    *)
(* this specification.                                                      *)
(***************************************************************************)
EXTENDS Integers, Sequences

CONSTANTS
  OrderIds, UserIds, Tickers, INSTRUMENTS, Prices, Volumes

VARIABLES
  orders,   \* every order received, in order of arrival
  open,     \* the unfilled volume of the open orders, by arrival number
  taker,    \* the arrival number of the order being matched, or 0
  left      \* its unfilled volume

vars == <<orders, open, taker, left>>

Order == [orderId : OrderIds, userId : UserIds, ticker : Tickers,
          side : {"Buy", "Sell"}, price : Prices, volume : Volumes]

Init ==
  /\ orders = <<>>
  /\ open = [a \in {} |-> a]
  /\ taker = 0
  /\ left = 0

Submit(o) ==
  /\ taker = 0
  /\ orders' = Append(orders, o)
  /\ IF o.ticker \in INSTRUMENTS
     THEN taker' = Len(orders) + 1 /\ left' = o.volume
     ELSE UNCHANGED <<taker, left>>
  /\ UNCHANGED open

\* Two orders of the same instrument that agree on a price.
Compatible(a, b) ==
  LET buy  == IF orders[a].side = "Buy" THEN a ELSE b
      sell == IF orders[a].side = "Buy" THEN b ELSE a
  IN  /\ orders[a].ticker = orders[b].ticker
      /\ orders[a].side # orders[b].side
      /\ orders[buy].price >= orders[sell].price

\* Price-time order among orders of one side.
Precedes(a, b) ==
  \/ orders[a].price = orders[b].price /\ a <= b
  \/ orders[a].side = "Buy" /\ orders[a].price > orders[b].price
  \/ orders[a].side = "Sell" /\ orders[a].price < orders[b].price

Counterparties == {a \in DOMAIN open : Compatible(a, taker)}

\* The taker trades with the counterparty that precedes all others, until
\* one of the two is filled.
Trade ==
  /\ taker # 0
  /\ left > 0
  /\ \E maker \in Counterparties :
       LET volume == IF left <= open[maker] THEN left ELSE open[maker]
       IN  /\ \A other \in Counterparties : Precedes(maker, other)
           /\ open' = IF volume = open[maker]
                      THEN [a \in DOMAIN open \ {maker} |-> open[a]]
                      ELSE [open EXCEPT ![maker] = @ - volume]
           /\ left' = left - volume
  /\ UNCHANGED <<orders, taker>>

\* Nothing is left to trade: the remainder, if any, stays open.
Close ==
  /\ taker # 0
  /\ left > 0 => Counterparties = {}
  /\ open' = IF left > 0
             THEN [a \in DOMAIN open \cup {taker} |->
                     IF a = taker THEN left ELSE open[a]]
             ELSE open
  /\ taker' = 0
  /\ left' = 0
  /\ UNCHANGED orders

\* A user withdraws the open order with this id, if it is theirs.
Withdraw(user, ticker, orderId) ==
  /\ taker = 0
  /\ open' = [a \in {b \in DOMAIN open :
                       ~ /\ orders[b].userId = user
                         /\ orders[b].ticker = ticker
                         /\ orders[b].orderId = orderId} |-> open[a]]
  /\ UNCHANGED <<orders, taker, left>>

Next ==
  \/ \E o \in Order : Submit(o)
  \/ Trade
  \/ Close
  \/ \E user \in UserIds, ticker \in Tickers, orderId \in OrderIds :
       Withdraw(user, ticker, orderId)

Spec == Init /\ [][Next]_vars
=============================================================================
