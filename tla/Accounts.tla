------------------------------ MODULE Accounts ------------------------------
(***************************************************************************)
(* User and UserRegistry of src/common/engine, and the inventory thread's    *)
(* settlement of one trade: positions, average cost, realized and            *)
(* unrealized profit of every participant.                                  *)
(*                                                                         *)
(* Money is counted in the units of Price; ToUsd only divides by             *)
(* PRICE_MULTIPLIER, and every formula below is linear in it.               *)
(***************************************************************************)
EXTENDS Rational, Totals

CONSTANTS
  Participants,   \* the user ids the registry holds
  UserIds,        \* the user ids that trades carry
  Tickers,
  Prices,
  Volumes,
  None,           \* std::nullopt: the instrument has no mid price
  MaxTrades       \* bound: how many trades are settled

\* The users can be numbered; a Price is a 64-bit integer, so there is a least
\* and a greatest one; the engine reports no trade without volume.
ASSUME AccountsAssumption ==
  /\ Cardinality(Participants) \in Nat
  /\ ExistsBijection(1..Cardinality(Participants), Participants)
  /\ Prices \subseteq Int
  /\ \E lo, hi \in Prices : \A p \in Prices : lo <= p /\ p <= hi
  /\ Volumes \subseteq Nat \ {0}

EmptyHolding ==
  [volume |-> 0, avgCost |-> Whole(0), realizedPnl |-> Whole(0), unrealizedPnl |-> Whole(0)]

Signed(side, volume) == IF side = "Buy" THEN volume ELSE -volume

\* Flat, or extending a position in its own direction.
SameDirection(old, delta) == old = 0 \/ ((old > 0) <=> (delta > 0))

\* The average cost rolled forward by a fill in the same direction.
RolledCost(h, price, delta) ==
  Over(Plus(Scaled(h.avgCost, Abs(h.volume)), Whole(price * Abs(delta))),
       Abs(h.volume) + Abs(delta))

\* Mutant: the part of a fill that reverses the position earns as well.
ClosedPnlOfWholeFill(h, price, delta) ==
  Scaled(IF h.volume > 0 THEN Minus(Whole(price), h.avgCost)
                         ELSE Minus(h.avgCost, Whole(price)), Abs(delta))

\* What closing part of the position earns.
ClosedPnl(h, price, delta) ==
  LET perUnit == IF h.volume > 0 THEN Minus(Whole(price), h.avgCost)
                                 ELSE Minus(h.avgCost, Whole(price))
  IN  Scaled(perUnit, Min({Abs(h.volume), Abs(delta)}))

\* The fill takes the position through zero to the other side.
Flipped(old, new) == (old > 0 /\ new < 0) \/ (old < 0 /\ new > 0)

\* Mutant: a flat holding keeps its cost basis.
CostAfterNoReset(h, price, delta) ==
  CASE SameDirection(h.volume, delta) -> RolledCost(h, price, delta)
    [] Flipped(h.volume, h.volume + delta) -> Whole(price)
    [] OTHER -> h.avgCost

\* The cost basis after a fill: rolled forward, reset to the price of a fill
\* that reverses the position, reset to zero when flat, or kept.  A fill has
\* volume, so one in the same direction does not end flat.
CostAfter(h, price, delta) ==
  CASE SameDirection(h.volume, delta) -> RolledCost(h, price, delta)
    [] Flipped(h.volume, h.volume + delta) -> Whole(price)
    [] h.volume + delta = 0 -> Whole(0)
    [] OTHER -> h.avgCost

\* ApplyFill, for the holding of the fill's ticker.
ApplyFill(h, side, price, volume) ==
  LET delta == Signed(side, volume)
  IN  [h EXCEPT
         !.volume = @ + delta,
         !.realizedPnl = IF SameDirection(h.volume, delta) THEN @
                         ELSE Plus(@, ClosedPnl(h, price, delta)),
         !.avgCost = CostAfter(h, price, delta)]

\* Mutant: a short position is valued as a long one.
RefreshUnrealizedPnlUnsigned(h, mid) ==
  [h EXCEPT !.unrealizedPnl = Scaled(Minus(Whole(mid), h.avgCost), Abs(h.volume))]

\* RefreshUnrealizedPnl, for a holding that exists.
RefreshUnrealizedPnl(h, mid) ==
  [h EXCEPT !.unrealizedPnl = Scaled(Minus(Whole(mid), h.avgCost), h.volume)]

\* inventory_[ticker], which creates the holding when it is not there.
HoldingOf(inventory, ticker) ==
  IF ticker \in DOMAIN inventory THEN inventory[ticker] ELSE EmptyHolding

\* The getters: zero for a ticker the user never traded.
Position(inventory, ticker) == HoldingOf(inventory, ticker).volume
RealizedPnl(inventory, ticker) == HoldingOf(inventory, ticker).realizedPnl
UnrealizedPnl(inventory, ticker) == HoldingOf(inventory, ticker).unrealizedPnl

WithHolding(inventory, ticker, h) ==
  [t \in DOMAIN inventory \cup {ticker} |-> IF t = ticker THEN h ELSE inventory[t]]

\* One fill of one user.
Filled(accounts, user, trade, side) ==
  [accounts EXCEPT ![user] =
     WithHolding(@, trade.ticker,
                 ApplyFill(HoldingOf(@, trade.ticker), side, trade.price, trade.volume))]

\* Mutant: both parties take the taker's side.
MakerOnTakerSide(trade) == trade.takerSide

MakerSide(trade) == IF trade.takerSide = "Buy" THEN "Sell" ELSE "Buy"

\* Mutant: the maker's fill is forgotten.
TakerFilled(accounts, trade) == Filled(accounts, trade.taker, trade, trade.takerSide)

\* The maker's fill, then the taker's; they may be the same user.
BothFilled(accounts, trade) ==
  Filled(Filled(accounts, trade.maker, trade, MakerSide(trade)),
         trade.taker, trade, trade.takerSide)

\* Both sides of a trade marked to the mid price, if there is one.
BothMarked(accounts, trade, mid) ==
  IF mid = None THEN accounts ELSE
  [u \in DOMAIN accounts |->
     IF u \in {trade.maker, trade.taker}
     THEN WithHolding(accounts[u], trade.ticker,
                      RefreshUnrealizedPnl(accounts[u][trade.ticker], mid))
     ELSE accounts[u]]

\* WriteSnapshot: a row for every holding that was ever touched.
Rows(accounts) ==
  UNION {{[userId |-> u, ticker |-> t, holding |-> accounts[u][t]] :
            t \in DOMAIN accounts[u]} : u \in DOMAIN accounts}

NoHoldings == [u \in Participants |-> [t \in {} |-> EmptyHolding]]

-----------------------------------------------------------------------------
(* Settlement of a stream of trades, in isolation. *)

Trade == [maker : UserIds, taker : UserIds, ticker : Tickers,
          takerSide : {"Buy", "Sell"}, price : Prices, volume : Volumes]

VARIABLES
  users,        \* users_ of the registry: each user's inventory
  terminated,   \* an exception left the thread and ended the process
  settled,      \* history: how many trades were settled
  cash,         \* history: what each user's fills paid in, less what they cost
  marked        \* history: the users, ticker and mid price of the last marks

vars == <<users, terminated, settled, cash, marked>>

Init ==
  /\ users = NoHoldings
  /\ terminated = FALSE
  /\ settled = 0
  /\ cash = [u \in Participants |-> [t \in Tickers |-> 0]]
  /\ marked = <<>>

\* registry.Get of both users, both fills, then both marks.
Settle(trade, mid) ==
  /\ ~terminated
  /\ {trade.maker, trade.taker} \subseteq Participants
  /\ users' = BothMarked(BothFilled(users, trade), trade, mid)
  /\ cash' = IF trade.maker = trade.taker THEN cash
             ELSE [cash EXCEPT
                     ![trade.maker][trade.ticker] =
                        @ - Signed(MakerSide(trade), trade.volume) * trade.price,
                     ![trade.taker][trade.ticker] =
                        @ - Signed(trade.takerSide, trade.volume) * trade.price]
  /\ settled' = settled + 1
  /\ marked' = IF mid = None THEN <<>>
               ELSE <<[users |-> {trade.maker, trade.taker}, ticker |-> trade.ticker,
                       mid |-> mid]>>
  /\ UNCHANGED terminated

\* Mutant: users_[] creates the user.
CreateUser(trade) ==
  /\ ~terminated
  /\ users' = [u \in DOMAIN users \cup {trade.maker, trade.taker} |->
                 IF u \in DOMAIN users THEN users[u] ELSE [t \in {} |-> EmptyHolding]]
  /\ UNCHANGED <<terminated, settled, cash, marked>>

\* users_.at throws for a user id outside the registry, before any fill.
UnknownUser(trade) ==
  /\ ~terminated
  /\ ~({trade.maker, trade.taker} \subseteq Participants)
  /\ terminated' = TRUE
  /\ UNCHANGED <<users, settled, cash, marked>>

Next ==
  \/ \E trade \in Trade, mid \in Prices \cup {None} : settled < MaxTrades /\ Settle(trade, mid)
  \/ \E trade \in Trade : UnknownUser(trade)

Spec == Init /\ [][Next]_vars

-----------------------------------------------------------------------------
(* Properties. *)

\* Type invariant.
TypeOK ==
  /\ DOMAIN users = Participants
  /\ \A u \in Participants : \A t \in DOMAIN users[u] :
       /\ t \in Tickers
       /\ users[u][t].volume \in Int
       /\ {users[u][t].avgCost, users[u][t].realizedPnl, users[u][t].unrealizedPnl}
            \subseteq Fraction
  /\ terminated \in BOOLEAN

\* Every unit of profit is accounted for: what a user has realized is the cash
\* their fills brought in plus the cost basis of what they still hold, through
\* any sequence of extending, reducing, closing and reversing fills.
RealizedMatchesCash ==
  \A u \in Participants : \A t \in DOMAIN users[u] :
    LET h == users[u][t]
    IN  h.realizedPnl = Plus(Whole(cash[u][t]), Scaled(h.avgCost, h.volume))

\* Right after a trade both its parties are worth their cash plus their
\* position at the mid price, split into realized and unrealized.
EquityMarkedToMid ==
  \A i \in DOMAIN marked :
    LET t == marked[i].ticker
    IN  \A u \in marked[i].users :
          Plus(RealizedPnl(users[u], t), UnrealizedPnl(users[u], t)) =
            Whole(cash[u][t] + Position(users[u], t) * marked[i].mid)

\* The participants in some order.
Everyone == CHOOSE s \in Bijection(1..Cardinality(Participants), Participants) : TRUE

\* What a user was paid for the holding: the profit realized, less the cost of
\* what is still held.
Received(inventory, t) ==
  Minus(RealizedPnl(inventory, t),
        Scaled(HoldingOf(inventory, t).avgCost, Position(inventory, t)))

\* Positions and money are only exchanged: over all participants positions sum
\* to zero, also when an unknown user id ended the process, and so do realized
\* profits less the cost of what is held, each of which is a whole amount.
PositionsSumToZero ==
  \A t \in Tickers :
    /\ Total([i \in DOMAIN Everyone |-> Position(users[Everyone[i]], t)]) = 0
    /\ \A u \in Participants : Received(users[u], t).den = 1
    /\ Total([i \in DOMAIN Everyone |-> Received(users[Everyone[i]], t).num]) = 0

\* The cost basis of an open position is an average of prices that were
\* traded, never outside their range, and a flat holding has none.
CostWithinTradedPrices ==
  \A u \in Participants : \A t \in DOMAIN users[u] :
    LET h == users[u][t]
    IN  IF h.volume = 0 THEN h.avgCost = Whole(0)
        ELSE /\ AtMost(Whole(Min(Prices)), h.avgCost)
             /\ AtMost(h.avgCost, Whole(Max(Prices)))
=============================================================================
