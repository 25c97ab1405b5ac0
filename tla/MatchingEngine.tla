--------------------------- MODULE MatchingEngine ---------------------------
(***************************************************************************)
(* The class MatchingEngine of src/common/engine: the data of one           *)
(* instrument's order book and what each private member function computes   *)
(* from it.  The module has no variables; MatchingEngineRouter keeps one    *)
(* book per instrument and turns these functions into steps.                *)
(*                                                                         *)
(* One side of a book (Bids or Asks, a flat_map from price to deque) is a   *)
(* function from the prices that have a level to the level, a sequence      *)
(* whose head is the oldest order.  orderIndex_ is a function from order    *)
(* ids to locations.                                                        *)
(***************************************************************************)
EXTENDS Integers, Sequences

CONSTANTS
  Half,        \* prices are the integers of [-Half, Half): 2^63 in the code
  OrderIds,
  UserIds,
  None         \* std::nullopt, and the absence of a call in progress

ASSUME HalfAssumption == Half \in Nat \ {0}

Price == (-Half)..(Half - 1)

ASSUME NoneIsNoPrice == None \notin Price

Sides == {"Buy", "Sell"}

Opposite(side) == IF side = "Buy" THEN "Sell" ELSE "Buy"

\* RestingOrder.  The field arrival is not in the code: it numbers the order
\* among all orders received, so that time priority can be stated.
RestingOrder ==
  [orderId : OrderIds, userId : UserIds, volume : Nat \ {0}, arrival : Nat \ {0}]

\* One side of a book: a level that exists holds at least one order.
LevelsOK(levels) ==
  /\ DOMAIN levels \subseteq Price
  /\ levels = [p \in DOMAIN levels |-> levels[p]]
  /\ \A p \in DOMAIN levels : levels[p] \in Seq(RestingOrder) /\ levels[p] # <<>>

OrderLocation == [side : Sides, price : Price, userId : UserIds]

\* The two maps' comparators: std::greater for bids, std::less for asks.
NoWorse(side, p, q) == IF side = "Buy" THEN p >= q ELSE p <= q

\* book.begin()->first
BestPrice(side, levels) ==
  CHOOSE p \in DOMAIN levels : \A q \in DOMAIN levels : NoWorse(side, p, q)

\* Mutant: equal prices do not cross.
PriceCrossesStrictly(side, price, levelPrice) ==
  IF side = "Buy" THEN price > levelPrice ELSE price < levelPrice

\* The lambdas that OnOrderAdd passes to Match as priceCrosses.
PriceCrosses(side, price, levelPrice) ==
  IF side = "Buy" THEN price >= levelPrice ELSE price <= levelPrice

\* Mutant: the loops stop at a volume of zero only.
SomeVolume(remaining) == remaining # 0

\* remaining > Volume(0), the condition of both loops.
VolumeLeft(remaining) == remaining > 0

\* Match runs its inner loop once more against this opposite side.
Matches(order, remaining, levels) ==
  /\ VolumeLeft(remaining)
  /\ DOMAIN levels # {}
  /\ PriceCrosses(order.side, order.price, BestPrice(Opposite(order.side), levels))

\* Mutant: the maker is always filled.
TradedMakerVolume(remaining, resting) == resting.volume

\* std::min(remaining, resting.volume_)
Traded(remaining, resting) ==
  IF remaining <= resting.volume THEN remaining ELSE resting.volume

\* A map without one of its keys, and a map with a key set.
WithoutKey(f, k) == [x \in DOMAIN f \ {k} |-> f[x]]
WithKey(f, k, v) == [x \in DOMAIN f \cup {k} |-> IF x = k THEN v ELSE f[x]]

\* Mutant: an empty level stays in the map.
PutLevelEvenEmpty(levels, p, level) == [levels EXCEPT ![p] = level]

\* A level is put back, or its entry erased once it is empty.
PutLevel(levels, p, level) ==
  IF level = <<>> THEN WithoutKey(levels, p) ELSE [levels EXCEPT ![p] = level]

\* Mutant: a filled order stays at the front.
FillFrontNoPop(level, traded) == [level EXCEPT ![1].volume = @ - traded]

\* Mutant: a partly filled order goes to the back of its level.
FillFrontRequeue(level, traded) ==
  IF Head(level).volume = traded
  THEN Tail(level)
  ELSE Append(Tail(level), [Head(level) EXCEPT !.volume = @ - traded])

\* The front order of a level loses what it traded, and leaves when filled.
FillFront(level, traded) ==
  IF Head(level).volume = traded
  THEN Tail(level)
  ELSE [level EXCEPT ![1].volume = @ - traded]

\* The same for the side of the book whose best level is matched.
FillBest(side, levels, traded) ==
  LET p == BestPrice(side, levels)
  IN  PutLevel(levels, p, FillFront(levels[p], traded))

\* Mutant: push_front.
RestInFront(levels, p, resting) ==
  WithKey(levels, p,
          <<resting>> \o (IF p \in DOMAIN levels THEN levels[p] ELSE <<>>))

\* Rest: push_back onto the level of that price, created when absent.
Rest(levels, p, resting) ==
  WithKey(levels, p,
          Append(IF p \in DOMAIN levels THEN levels[p] ELSE <<>>, resting))

\* Mutant: the front order is erased, whichever it is.
EraseFrontOrder(level, orderId) == Tail(level)

\* std::erase_if of every order with this id, whoever owns it.
EraseId(level, orderId) ==
  LET kept[i \in 0..Len(level)] ==
        IF i = 0 THEN <<>>
        ELSE IF level[i].orderId = orderId THEN kept[i - 1]
        ELSE Append(kept[i - 1], level[i])
  IN  kept[Len(level)]

EraseFromBook(levels, p, orderId) ==
  IF p \in DOMAIN levels
  THEN PutLevel(levels, p, EraseId(levels[p], orderId))
  ELSE levels

\* Signed 64-bit addition as the build compiles it, and C++ division by two,
\* which rounds towards zero.
Wrap(n) == ((n + Half) % (2 * Half)) - Half
HalfOf(n) == IF n >= 0 THEN n \div 2 ELSE -((-n) \div 2)

\* Mutant: a one-sided book leaves the mid price alone.
MidOfTwoSidesOnly(bids, asks, midPrice) ==
  IF DOMAIN bids # {} /\ DOMAIN asks # {}
  THEN HalfOf(Wrap(BestPrice("Buy", bids) + BestPrice("Sell", asks)))
  ELSE midPrice

\* Mutant: a one-sided book leaves a mid price that is known alone.
MidUnlessKnown(bids, asks, midPrice) ==
  CASE DOMAIN bids # {} /\ DOMAIN asks # {} ->
         HalfOf(Wrap(BestPrice("Buy", bids) + BestPrice("Sell", asks)))
    [] DOMAIN bids # {} /\ DOMAIN asks = {} /\ midPrice = None -> BestPrice("Buy", bids)
    [] DOMAIN bids = {} /\ DOMAIN asks # {} /\ midPrice = None -> BestPrice("Sell", asks)
    [] OTHER -> midPrice

\* UpdateMidPrice: the value midPrice_ holds after it.
UpdateMidPrice(bids, asks, midPrice) ==
  CASE DOMAIN bids # {} /\ DOMAIN asks # {} ->
         HalfOf(Wrap(BestPrice("Buy", bids) + BestPrice("Sell", asks)))
    [] DOMAIN bids # {} /\ DOMAIN asks = {} -> BestPrice("Buy", bids)
    [] DOMAIN bids = {} /\ DOMAIN asks # {} -> BestPrice("Sell", asks)
    [] OTHER -> midPrice
=============================================================================
