--------------------------- MODULE ExchangeProofs ---------------------------
(***************************************************************************)
(* The theorems about Exchange, for every number of clients, orders and      *)
(* instruments and every queue capacity.  ExchangeStepProofs shows what the  *)
(* steps of the threads preserve; here follow the two things it assumes.     *)
(* The laws of sums and fills are those of AccountsProofs, and what the      *)
(* router guarantees is taken from RouterHistoryProofs.                      *)
(***************************************************************************)
EXTENDS ExchangeStepProofs

-----------------------------------------------------------------------------
(* The laws of sums and fills, from AccountsProofs.  They do not depend on    *)
(* who trades there, so nobody does.                                        *)

AP == INSTANCE AccountsProofs WITH
        Participants <- {}, Prices <- {0}, Volumes <- {1}, MaxTrades <- 0,
        terminated <- FALSE, settled <- 0, cash <- <<>>, marked <- <<>>

\* The instance satisfies the assumptions of Accounts.
LEMMA AccountsInstance == AP!AccountsAssumption
<1>1. AP!Cardinality({}) = 0
  <2> DEFINE P(f) == f = [T \in SUBSET {} |-> IF T = {} THEN 0 ELSE 1 + f[T \ {CHOOSE x : x \in T}]]
  <2>1. P([T \in SUBSET {} |-> 0])
    OBVIOUS
  <2>2. P(CHOOSE f : P(f))
    BY <2>1, Zenon
  <2>3. QED
    BY <2>2, Zenon DEF AP!Cardinality
<1>2. AP!ExistsBijection(1..0, {})
  <2>1. [x \in {} |-> x] \in AP!Bijection({}, {})
    BY DEF AP!Bijection, AP!Injection, AP!Surjection, AP!IsInjective
  <2>2. 1..0 = {}
    OBVIOUS
  <2>3. QED
    BY <2>1, <2>2, SMTT(20) DEF AP!ExistsBijection
<1>3. QED
  BY <1>1, <1>2 DEF AP!AccountsAssumption

\* The sums of the two modules are the same.
LEMMA TotalSame == \A s : AP!Total(s) = Total(s)
BY Zenon DEF AP!Total, Total

\* Two changes are one change after another.
LEMMA TwoChangesSum ==
  ASSUME NEW s, NEW r, NEW m, NEW dm, NEW c, NEW dc, TwoChanges(s, r, m, dm, c, dc)
  PROVE  Total(r) = Total(s) + (dm + dc)
<1>1. /\ s \in Seq(Int) /\ r \in Seq(Int) /\ Len(r) = Len(s) /\ Len(s) \in Nat
      /\ m \in 1..Len(s) /\ c \in 1..Len(s) /\ m # c /\ dm \in Int /\ dc \in Int
      /\ r[m] = s[m] + dm /\ r[c] = s[c] + dc
      /\ \A i \in 1..Len(s) : i # m /\ i # c => r[i] = s[i]
  BY DEF TwoChanges
<1>2. PICK q : q = [i \in 1..Len(s) |-> IF i = m THEN s[i] + dm ELSE s[i]]
  BY Zenon
<1>3. \A i \in 1..Len(s) : s[i] \in Int /\ q[i] \in Int
  BY <1>1, <1>2, SMTT(20)
<1>4. q = [i \in 1..Len(s) |-> q[i]]
  BY <1>2, SMTT(20)
<1>5. q \in Seq(Int) /\ Len(q) = Len(s)
  BY <1>1, <1>3, <1>4, IntegerSequence
<1>6. AP!Changed(s, q, m, dm)
  BY <1>2 DEF AP!Changed
<1>7. AP!Changed(q, r, c, dc)
  BY <1>1, <1>2, <1>3, <1>5, Zenon DEF AP!Changed
<1>8. Total(q) = Total(s) + dm
  BY <1>1, <1>5, <1>6, AP!TotalChange, AccountsInstance, TotalSame, ZenonT(30)
<1>9. Total(r) = Total(q) + dc
  BY <1>1, <1>5, <1>7, AP!TotalChange, AccountsInstance, TotalSame, ZenonT(30)
<1>10. Total(s) \in Int
  BY <1>1, AP!TotalInt, AccountsInstance, TotalSame
<1>11. QED
  BY <1>1, <1>8, <1>9, <1>10

\* The laws of sums.
LEMMA SumLawsHold == SumLaws
<1>1. ASSUME NEW s \in Seq(Int)
      PROVE  /\ Total(s) \in Int
             /\ Len(s) = 0 => Total(s) = 0
             /\ (\A i \in 1..Len(s) : s[i] >= 0) => Total(s) >= 0
  <2>1. Total(s) \in Int
    BY AP!TotalInt, AccountsInstance, TotalSame
  <2>2. Len(s) = 0 => Total(s) = 0
    BY AP!TotalEmpty, AccountsInstance, TotalSame, ZenonT(30)
  <2>3. (\A i \in 1..Len(s) : s[i] >= 0) => Total(s) >= 0
    BY AP!TotalAtLeast, AccountsInstance, TotalSame
  <2>4. QED
    BY <2>1, <2>2, <2>3
<1>2. ASSUME NEW s, NEW r, NEW x, OneMore(s, r, x)
      PROVE  Total(r) = Total(s) + x
  <2>1. /\ s \in Seq(Int) /\ r \in Seq(Int) /\ Len(r) = Len(s) + 1 /\ r[Len(r)] = x
        /\ \A i \in 1..Len(s) : r[i] = s[i]
    BY <1>2 DEF OneMore
  <2>2. QED
    BY <2>1, AP!TotalAppend, AccountsInstance, TotalSame, SMTT(20)
<1>3. ASSUME NEW s, NEW r, NEW x, OneLess(s, r, x)
      PROVE  Total(s) = x + Total(r)
  <2>1. /\ s \in Seq(Int) /\ r \in Seq(Int) /\ Len(s) = Len(r) + 1 /\ s[1] = x
        /\ \A i \in 1..Len(r) : r[i] = s[i + 1]
    BY <1>3 DEF OneLess
  <2>2. QED
    BY <2>1, AP!TotalTail, AccountsInstance, TotalSame, ZenonT(30)
<1>4. QED
  BY <1>1, <1>2, <1>3, TwoChangesSum, Zenon DEF SumLaws

\* Most of the steps that follow are first-order; those with arithmetic name SMT.
USE ZenonT(30)

\* The fractions of the two instances.
LEMMA SameFractions ==
  /\ \A n : AP!Whole(n) = Registry!Whole(n)
  /\ \A n : AP!Abs(n) = Registry!Abs(n)
  /\ \A S : AP!Min(S) = Registry!Min(S)
  /\ \A x, y : AP!Plus(x, y) = Registry!Plus(x, y)
  /\ \A x, y : AP!Minus(x, y) = Registry!Minus(x, y)
  /\ \A x, n : AP!Scaled(x, n) = Registry!Scaled(x, n)
  /\ \A x, n : AP!Over(x, n) = Registry!Over(x, n)
<1>1. \A S : AP!Min(S) = Registry!Min(S)
  BY DEF AP!Min, Registry!Min
<1>2. \A n, d : AP!Frac(n, d) = Registry!Frac(n, d)
  BY <1>1 DEF AP!Frac, Registry!Frac
<1>3. \A n : AP!Whole(n) = Registry!Whole(n)
  BY DEF AP!Whole, Registry!Whole
<1>4. \A n : AP!Abs(n) = Registry!Abs(n)
  BY DEF AP!Abs, Registry!Abs
<1>5. /\ \A x, y : AP!Plus(x, y) = Registry!Plus(x, y)
      /\ \A x, y : AP!Minus(x, y) = Registry!Minus(x, y)
      /\ \A x, n : AP!Scaled(x, n) = Registry!Scaled(x, n)
      /\ \A x, n : AP!Over(x, n) = Registry!Over(x, n)
  BY <1>2 DEF AP!Plus, Registry!Plus, AP!Minus, Registry!Minus, AP!Scaled,
                     Registry!Scaled, AP!Over, Registry!Over
<1>6. QED
  BY <1>1, <1>3, <1>4, <1>5

\* The fills of the two instances.
LEMMA SameFills ==
  /\ \A accounts, trade : AP!BothFilled(accounts, trade) = Registry!BothFilled(accounts, trade)
  /\ \A accounts, trade, mid :
       AP!BothMarked(accounts, trade, mid) = Registry!BothMarked(accounts, trade, mid)
  /\ \A stock, t : AP!HoldingOf(stock, t) = Registry!HoldingOf(stock, t)
  /\ \A side, v : AP!Signed(side, v) = Registry!Signed(side, v)
  /\ \A trade : AP!MakerSide(trade) = Registry!MakerSide(trade)
<1>1. \A side, v : AP!Signed(side, v) = Registry!Signed(side, v)
  BY DEF AP!Signed, Registry!Signed
<1>2. /\ \A h, p, d : AP!RolledCost(h, p, d) = Registry!RolledCost(h, p, d)
      /\ \A h, p, d : AP!ClosedPnl(h, p, d) = Registry!ClosedPnl(h, p, d)
  BY SameFractions DEF AP!RolledCost, Registry!RolledCost, AP!ClosedPnl,
                              Registry!ClosedPnl
<1>3. /\ \A v, d : AP!SameDirection(v, d) = Registry!SameDirection(v, d)
      /\ \A v, d : AP!Flipped(v, d) = Registry!Flipped(v, d)
  BY DEF AP!SameDirection, Registry!SameDirection, AP!Flipped, Registry!Flipped
<1>4. \A h, p, d : AP!CostAfter(h, p, d) = Registry!CostAfter(h, p, d)
  BY <1>2, <1>3, SameFractions DEF AP!CostAfter, Registry!CostAfter
<1>5. ASSUME NEW h, NEW side, NEW p, NEW v
      PROVE  AP!ApplyFill(h, side, p, v) = Registry!ApplyFill(h, side, p, v)
  <2>1. PICK d, cost, closed, r : /\ d = Registry!Signed(side, v)
                                  /\ cost = Registry!CostAfter(h, p, d)
                                  /\ closed = Registry!ClosedPnl(h, p, d)
                                  /\ r = IF Registry!SameDirection(h.volume, d) THEN h.realizedPnl
                                         ELSE Registry!Plus(h.realizedPnl, closed)
    BY SMT
  <2>2. /\ d = AP!Signed(side, v) /\ cost = AP!CostAfter(h, p, d)
        /\ closed = AP!ClosedPnl(h, p, d)
        /\ r = IF AP!SameDirection(h.volume, d) THEN h.realizedPnl
               ELSE AP!Plus(h.realizedPnl, closed)
    BY <1>1, <1>2, <1>3, <1>4, <2>1, SameFractions
  <2>3. Registry!ApplyFill(h, side, p, v) =
          [h EXCEPT !.volume = @ + d, !.realizedPnl = r, !.avgCost = cost]
    BY <2>1 DEF Registry!ApplyFill
  <2>4. AP!ApplyFill(h, side, p, v) =
          [h EXCEPT !.volume = @ + d, !.realizedPnl = r, !.avgCost = cost]
    BY <2>2 DEF AP!ApplyFill
  <2>5. QED
    BY <2>3, <2>4, SMT
<1>6. \A stock, t : AP!HoldingOf(stock, t) = Registry!HoldingOf(stock, t)
  BY SameFractions DEF AP!HoldingOf, Registry!HoldingOf, AP!EmptyHolding,
                              Registry!EmptyHolding
<1>7. \A stock, t, h : AP!WithHolding(stock, t, h) = Registry!WithHolding(stock, t, h)
  BY DEF AP!WithHolding, Registry!WithHolding
<1>8. \A accounts, u, trade, side :
        AP!Filled(accounts, u, trade, side) = Registry!Filled(accounts, u, trade, side)
  BY <1>5, <1>6, <1>7 DEF AP!Filled, Registry!Filled
<1>9. \A trade : AP!MakerSide(trade) = Registry!MakerSide(trade)
  BY DEF AP!MakerSide, Registry!MakerSide
<1>10. \A accounts, trade : AP!BothFilled(accounts, trade) = Registry!BothFilled(accounts, trade)
  BY <1>8, <1>9 DEF AP!BothFilled, Registry!BothFilled
<1>11. \A h, mid : AP!RefreshUnrealizedPnl(h, mid) = Registry!RefreshUnrealizedPnl(h, mid)
  BY SameFractions DEF AP!RefreshUnrealizedPnl, Registry!RefreshUnrealizedPnl
<1>12. ASSUME NEW accounts, NEW trade, NEW mid
       PROVE  AP!BothMarked(accounts, trade, mid) = Registry!BothMarked(accounts, trade, mid)
  <2>1. ASSUME NEW u \in DOMAIN accounts
        PROVE  AP!WithHolding(accounts[u], trade.ticker,
                              AP!RefreshUnrealizedPnl(accounts[u][trade.ticker], mid)) =
               Registry!WithHolding(accounts[u], trade.ticker,
                              Registry!RefreshUnrealizedPnl(accounts[u][trade.ticker], mid))
    BY <1>7, <1>11
  <2>2. CASE mid = None
    BY <2>2 DEF AP!BothMarked, Registry!BothMarked
  <2>3. CASE mid # None
    BY <2>1, <2>3, SMT DEF AP!BothMarked, Registry!BothMarked
  <2>4. QED
    BY <2>2, <2>3, SMTT(20)
<1>13. QED
  BY <1>1, <1>6, <1>9, <1>10, <1>12

\* What AccountsProofs calls a registry of entries.
LEMMA KeptRegistered ==
  ASSUME NEW accounts
  PROVE  Kept(accounts) <=>
           /\ AP!Registered(accounts, UserIds, INSTRUMENTS)
           /\ \A u \in UserIds : \A t \in INSTRUMENTS : AP!Entry(AP!HoldingOf(accounts[u], t))
BY SameFills DEF Kept, Holds, AP!Registered, AP!IsFunction, AP!Entry

\* What a trade moves is what it adds to the positions of its parties.
LEMMA MovedIsNet ==
  ASSUME NEW trade \in Trade, NEW u, NEW t
  PROVE  AP!Moved(trade, u, t) = NetOf(trade, u, t)
<1>1. trade.volume \in Int
  BY TradeFields
<1>2. PICK d \in Int, e \in Int : /\ d = Registry!Signed(trade.takerSide, trade.volume)
                                 /\ e = Registry!Signed(Registry!MakerSide(trade), trade.volume)
  BY <1>1, SignedSum
<1>3. /\ d = AP!Signed(trade.takerSide, trade.volume)
      /\ e = AP!Signed(AP!MakerSide(trade), trade.volume)
  BY <1>2, SameFills
<1>4. PICK x \in Int : x = IF trade.ticker = t /\ trade.taker = u THEN d ELSE 0
  BY SMT
<1>5. PICK y \in Int : y = IF trade.ticker = t /\ trade.maker = u THEN e ELSE 0
  BY SMT
<1>6. NetOf(trade, u, t) = x + y
  BY <1>2, <1>4, <1>5 DEF NetOf
<1>7. AP!Moved(trade, u, t) = y + x
  BY <1>3, <1>4, <1>5 DEF AP!Moved
<1>8. QED
  BY <1>6, <1>7, SMT

\* The laws of fills.
LEMMA FillLawsHold == FillLaws
<1> SUFFICES ASSUME NEW accounts, NEW trade \in Trade, Kept(accounts)
             PROVE  /\ FilledBy(accounts, Registry!BothFilled(accounts, trade), trade)
                    /\ Touched(accounts, trade) =>
                         \A mid : MarkedAs(accounts, Registry!BothMarked(accounts, trade, mid))
  BY DEF FillLaws
<1>1. /\ AP!Registered(accounts, UserIds, INSTRUMENTS)
      /\ \A u \in UserIds : \A t \in INSTRUMENTS : AP!Entry(AP!HoldingOf(accounts[u], t))
  BY KeptRegistered, SMTT(20)
<1>2. /\ trade.maker \in UserIds /\ trade.taker \in UserIds /\ trade.ticker \in INSTRUMENTS
      /\ trade.volume \in AP!Positive
  BY TradeFields, SMT DEF AP!Positive
<1>3. FilledBy(accounts, Registry!BothFilled(accounts, trade), trade)
  <2>1. PICK after : after = Registry!BothFilled(accounts, trade)
    BY SMT
  <2>2. after = AP!BothFilled(accounts, trade)
    BY <2>1, SameFills
  <2>3. AP!FillsMoved(accounts, after, UserIds, INSTRUMENTS, trade)
    BY <1>1, <1>2, <2>2, AP!BothFilledPositions, AccountsInstance
  <2>4. Kept(after)
    BY <2>3, KeptRegistered DEF AP!FillsMoved
  <2>5. ASSUME NEW u \in UserIds, NEW t \in INSTRUMENTS
        PROVE  Registry!Position(after[u], t) = Registry!Position(accounts[u], t) + NetOf(trade, u, t)
    BY <2>3, SameFills, MovedIsNet DEF AP!FillsMoved, Registry!Position
  <2>6. QED
    BY <2>1, <2>3, <2>4, <2>5 DEF AP!FillsMoved, FilledBy, Touched
<1>4. ASSUME Touched(accounts, trade), NEW mid
      PROVE  MarkedAs(accounts, Registry!BothMarked(accounts, trade, mid))
  <2>1. PICK after : after = Registry!BothMarked(accounts, trade, mid)
    BY SMT
  <2>2. after = AP!BothMarked(accounts, trade, mid)
    BY <2>1, SameFills
  <2>3. \A u \in UserIds \cap {trade.maker, trade.taker} : trade.ticker \in DOMAIN accounts[u]
    BY <1>4 DEF Touched
  <2>4. /\ AP!Registered(after, UserIds, INSTRUMENTS)
        /\ AP!MarkChange(accounts, after, UserIds, trade, mid)
    BY <1>1, <1>2, <2>2, <2>3, AP!MarkedHolding, AccountsInstance
  <2>5. ASSUME NEW u \in UserIds, NEW t \in INSTRUMENTS
        PROVE  /\ AP!Entry(AP!HoldingOf(after[u], t))
               /\ AP!HoldingOf(after[u], t).volume = AP!HoldingOf(accounts[u], t).volume
    <3>1. PICK h, g : h = AP!HoldingOf(accounts[u], t) /\ g = AP!HoldingOf(after[u], t)
      BY SMTT(20)
    <3>2. AP!Entry(h)
      BY <1>1, <3>1
    <3>3. g = h \/ g = AP!RefreshUnrealizedPnl(h, mid)
      BY <2>4, <3>1 DEF AP!MarkChange
    <3>4. AP!Entry(AP!RefreshUnrealizedPnl(h, mid)) /\ AP!RefreshUnrealizedPnl(h, mid).volume = h.volume
      <4>1. PICK x : AP!RefreshUnrealizedPnl(h, mid) = [h EXCEPT !.unrealizedPnl = x]
        BY DEF AP!RefreshUnrealizedPnl
      <4>2. PICK v, k, l, z : /\ h = [volume |-> v, avgCost |-> k, realizedPnl |-> l,
                                     unrealizedPnl |-> z]
                              /\ v \in Int
        BY <3>2, SMT DEF AP!Entry
      <4>3. [h EXCEPT !.unrealizedPnl = x] =
              [volume |-> v, avgCost |-> k, realizedPnl |-> l, unrealizedPnl |-> x]
        BY <4>2, SMT
      <4>4. QED
        BY <4>1, <4>2, <4>3, SMTT(20) DEF AP!Entry
    <3>5. QED
      BY <3>1, <3>2, <3>3, <3>4
  <2>6. Kept(after)
    BY <2>4, <2>5, KeptRegistered
  <2>7. \A u \in UserIds, t \in INSTRUMENTS :
          Registry!Position(after[u], t) = Registry!Position(accounts[u], t)
    BY <2>5, SameFills DEF Registry!Position
  <2>8. QED
    BY <2>1, <2>6, <2>7 DEF MarkedAs
<1>5. QED
  BY <1>3, <1>4

-----------------------------------------------------------------------------
(* What the router guarantees, from RouterHistoryProofs.                     *)

RP == INSTANCE RouterHistoryProofs WITH
        ReuseLiveIds <- TRUE, MaxOrders <- MaxOrders + MaxCancels

\* The assumptions of the router hold here.
LEMMA RouterInstance ==
  RP!HalfAssumption /\ RP!NoneIsNoPrice /\ RP!RouterAssumption /\ RP!NoneIsNoCall
BY ExchangeRouterAssumption
   DEF RP!HalfAssumption, RP!NoneIsNoPrice, RP!RouterAssumption, RP!NoneIsNoCall, RP!Price,
       RP!Call, RP!OrderAdd, RP!Sides, Router!Price, Router!Call, Router!OrderAdd, Router!Sides

\* The two instances of the router say the same, for more orders in all.
LEMMA SameRouter ==
  /\ Router!Init => RP!Init
  /\ RP!TypeOK => Router!TypeOK
  /\ RP!MidKnownOnceTraded => Router!MidKnownOnceTraded
  /\ RP!vars = Router!vars
<1>1. Router!Init => RP!Init
  BY DEF RP!Init, Router!Init, RP!Sides, Router!Sides, RP!EmptyMap, Router!EmptyMap
<1>2. RP!TypeOK => Router!TypeOK
  BY DEF RP!TypeOK, Router!TypeOK, RP!LevelsOK, Router!LevelsOK, RP!OrderLocation,
       Router!OrderLocation, RP!Price, RP!Call, RP!OrderAdd, RP!Sides, RP!RestingOrder,
       Router!RestingOrder, Router!Price, Router!Call, Router!OrderAdd, Router!Sides
<1>3. RP!MidKnownOnceTraded => Router!MidKnownOnceTraded
  BY DEF RP!MidKnownOnceTraded, Router!MidKnownOnceTraded
<1>4. RP!vars = Router!vars
  BY DEF RP!vars, Router!vars
<1>5. QED
  BY <1>1, <1>2, <1>3, <1>4, SMT

\* The same trade.
LEMMA SameMatch == Router!Match => RP!Match
BY DEF RP!Match, Router!Match, RP!Matches, Router!Matches, RP!VolumeLeft,
   Router!VolumeLeft, RP!PriceCrosses, Router!PriceCrosses, RP!BestPrice, Router!BestPrice,
   RP!NoWorse, Router!NoWorse, RP!Opposite, Router!Opposite, RP!Opposing, Router!Opposing,
   RP!Maker, Router!Maker, RP!Traded, Router!Traded, RP!FillBest, Router!FillBest, RP!PutLevel,
   Router!PutLevel, RP!WithoutKey, Router!WithoutKey, RP!FillFront, Router!FillFront

\* The same end of a call.
LEMMA SameFinish == Router!FinishOrderAdd => RP!FinishOrderAdd
BY DEF RP!FinishOrderAdd, Router!FinishOrderAdd, RP!Matches, Router!Matches,
   RP!VolumeLeft, Router!VolumeLeft, RP!PriceCrosses, Router!PriceCrosses, RP!BestPrice,
   Router!BestPrice, RP!NoWorse, Router!NoWorse, RP!Opposite, Router!Opposite, RP!Opposing,
   Router!Opposing, RP!BookWithRemainder, Router!BookWithRemainder, RP!Rest, Router!Rest,
   RP!WithKey, Router!WithKey, RP!UpdateMidPrice, Router!UpdateMidPrice, RP!HalfOf, Router!HalfOf,
   RP!Wrap, Router!Wrap

\* The same cancel.
LEMMA SameCancel == ASSUME NEW c PROVE Router!OnOrderCancel(c) => RP!OnOrderCancel(c)
BY DEF RP!OnOrderCancel, Router!OnOrderCancel, RP!Cancellable, Router!Cancellable,
   RP!EraseFromBook, Router!EraseFromBook, RP!EraseId, Router!EraseId, RP!Arrivals,
   Router!Arrivals, RP!PutLevel, Router!PutLevel, RP!WithoutKey, Router!WithoutKey, RP!BestPrice,
   Router!BestPrice, RP!NoWorse, Router!NoWorse, RP!UpdateMidPrice, Router!UpdateMidPrice,
   RP!HalfOf, Router!HalfOf, RP!Wrap, Router!Wrap

\* The same orders and rejected cancels.
LEMMA SameOthers == ASSUME NEW o PROVE
  /\ Router!OnOrderAdd(o) => RP!OnOrderAdd(o)
  /\ Router!DropOrderAdd(o) => RP!DropOrderAdd(o)
  /\ Router!RejectCancel(o) => RP!RejectCancel(o)
BY DEF RP!OnOrderAdd, Router!OnOrderAdd, RP!DropOrderAdd, Router!DropOrderAdd,
   RP!RejectCancel, Router!RejectCancel, RP!Receive, Router!Receive, RP!Cancellable,
   Router!Cancellable, RP!vars, Router!vars

\* A step of the exchange's router is a step of the router.
LEMMA RouterStepRefines == RouterStep => [RP!Next]_(RP!vars)
<1>1. CASE \E o \in Router!OrderAdd : /\ Len(log) < MaxOrders + MaxCancels
                                      /\ Router!OnOrderAdd(o) \/ Router!DropOrderAdd(o)
  <2>1. PICK o \in Router!OrderAdd : /\ Len(log) < MaxOrders + MaxCancels
                                     /\ Router!OnOrderAdd(o) \/ Router!DropOrderAdd(o)
    BY <1>1, SMTT(20)
  <2>2. o \in RP!OrderAdd
    BY DEF RP!OrderAdd, Router!OrderAdd, RP!Sides, Router!Sides
  <2>3. RP!MaySubmit(o)
    BY <2>1 DEF RP!MaySubmit
  <2>4. QED
    BY <2>1, <2>2, <2>3, SameOthers DEF RP!Next
<1>2. CASE \E c \in Router!OrderCancel : Router!OnOrderCancel(c) \/ Router!RejectCancel(c)
  <2>1. PICK c \in Router!OrderCancel : Router!OnOrderCancel(c) \/ Router!RejectCancel(c)
    BY <1>2, SMTT(20)
  <2>2. c \in RP!OrderCancel
    BY DEF RP!OrderCancel, Router!OrderCancel
  <2>3. QED
    BY <2>1, <2>2, SameOthers, SameCancel DEF RP!Next
<1>3. CASE Router!Match \/ Router!FinishOrderAdd
  BY <1>3, SameMatch, SameFinish DEF RP!Next
<1>4. CASE UNCHANGED routerVars
  BY <1>4 DEF routerVars, RP!vars
<1>5. QED
  BY <1>1, <1>2, <1>3, <1>4 DEF RouterStep

\* The invariants of the router alone.
LEMMA RouterInvariants ==
  /\ RP!Spec => []RP!TypeOK
  /\ RP!Spec => []RP!History
  /\ RP!Spec => []RP!MidKnownOnceTraded
<1>1. RP!Spec => []RP!TypeOK
  BY RP!TypeCorrect, RouterInstance, SMTT(20)
<1>2. RP!Spec => []RP!History
  BY RP!HistoryInvariant, RouterInstance, SMT
<1>3. RP!Spec => []RP!MidKnownOnceTraded
  BY RP!TradedInstrumentsHaveMid, RouterInstance, SMT
<1>4. QED
  BY <1>1, <1>2, <1>3, SMTT(20)

\* They are what the threads around it rely on.
LEMMA RouterIsSound ==
  ASSUME RP!TypeOK, RP!History, RP!MidKnownOnceTraded
  PROVE  RouterSound
<1>1. Router!TypeOK /\ Router!MidKnownOnceTraded
  BY SameRouter, SMT
<1>2. ASSUME TradeDue
      PROVE  /\ Router!NextTrade \in Trade
             /\ Parties(Router!NextTrade, Router!Maker.arrival, call.arrival)
  <2>1. call # None /\ RP!Matches(call.order, call.remaining, RP!Opposing)
    BY <1>2 DEF TradeDue, RP!Matches, Router!Matches, RP!VolumeLeft, Router!VolumeLeft,
         RP!PriceCrosses, Router!PriceCrosses, RP!BestPrice, Router!BestPrice, RP!NoWorse,
         Router!NoWorse, RP!Opposite, Router!Opposite, RP!Opposing, Router!Opposing
  <2>2. /\ RP!NextTrade \in [maker : UserIds, taker : UserIds, makerOrderId : OrderIds,
                             takerOrderId : OrderIds, ticker : INSTRUMENTS,
                             takerSide : RP!Sides, price : RP!Price, volume : Nat \ {0}]
        /\ RP!Parties(RP!NextTrade, RP!Maker.arrival, call.arrival)
    BY <2>1, RP!NextTradeParties, RouterInstance
  <2>3. RP!NextTrade = Router!NextTrade /\ RP!Maker = Router!Maker
    BY DEF RP!NextTrade, Router!NextTrade, RP!Maker, Router!Maker, RP!Opposing,
         Router!Opposing, RP!Opposite, Router!Opposite, RP!BestPrice, Router!BestPrice,
         RP!NoWorse, Router!NoWorse, RP!Traded, Router!Traded
  <2>4. RP!Sides = Router!Sides /\ RP!Price = Router!Price
    BY DEF RP!Sides, Router!Sides, RP!Price, Router!Price
  <2>5. ASSUME NEW trade, NEW m, NEW c, RP!Parties(trade, m, c)
        PROVE  Parties(trade, m, c)
    BY <2>5 DEF RP!Parties, Parties, RP!Opposite, Router!Opposite
  <2>6. QED
    BY <2>2, <2>3, <2>4, <2>5 DEF Trade
<1>3. QED
  BY <1>1, <1>2 DEF RouterSound

\* The router inside the exchange behaves as the router alone: its
\* guarantees hold while the other threads run.
THEOREM RouterStaysSound == Spec => []RouterSound
<1>1. Init => CommandFlow /\ RP!Init
  BY FlowInit, SameRouter DEF Init
<1>2. CommandFlow /\ [Next]_vars => CommandFlow' /\ [RP!Next]_(RP!vars)
  BY CommandFlowInductive, RouterSteps, RouterStepRefines
<1>3. RP!TypeOK /\ RP!History /\ RP!MidKnownOnceTraded => RouterSound
  BY RouterIsSound
<1>4. QED
  BY <1>1, <1>2, <1>3, RouterInvariants, PTL DEF Spec, RP!Spec

-----------------------------------------------------------------------------
(* The theorems.                                                            *)

\* The invariant of ExchangeStepProofs holds in every reachable state.
THEOREM ExchangeInvariant == Spec => []ExchangeInv
BY SumLawsHold, FillLawsHold, StartsInvariant, StaysInvariant, RouterStaysSound, PTL DEF Spec

\* Every queue of the exchange holds messages of its kind, within its
\* capacity, whatever the threads do.
THEOREM TypeCorrect == Spec => []TypeOK
BY InvariantSuffices, RouterStaysSound, ExchangeInvariant, PTL

\* The accounts and the trades on their way to them add up to what the engines
\* executed: the matching and inventory threads lose and repeat no trade.
THEOREM AccountsReconcile == Spec => []PositionsReconcile
BY InvariantSuffices, RouterStaysSound, ExchangeInvariant, PTL

\* The trades announced to the feed are the ones executed, but for the trade
\* between the two pushes of onTrade.
THEOREM FeedIsReconciled == Spec => []FeedReconciles
BY InvariantSuffices, RouterStaysSound, ExchangeInvariant, PTL

\* The inventory thread always finds a mid price to value a trade at.
THEOREM SettlementFindsMid == Spec => []MidKnownAtSettlement
BY InvariantSuffices, RouterStaysSound, ExchangeInvariant, PTL

\* The feed announces an order before any trade of it.
THEOREM OrdersComeFirst == Spec => []TradesFollowTheirOrders
BY SumLawsHold, StartsInvariant, StaysCovered, StaysFollowing, RouterStaysSound,
   ExchangeInvariant, PTL DEF Spec
=============================================================================
