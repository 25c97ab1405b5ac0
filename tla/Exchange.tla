------------------------------ MODULE Exchange ------------------------------
(***************************************************************************)
(* The exchange process: the threads that main starts, the bounded queues    *)
(* between them, and the ordered shutdown.                                  *)
(*                                                                         *)
(*   gateway --inboundQueue--> matching --tradeQueue------> inventory        *)
(*                                      --marketDataQueue-> market data      *)
(*                                                                         *)
(* A worker whose pop finds its queue empty then loads the flag that says     *)
(* its producer is finished: two steps, between which other threads run.     *)
(* A push to a full queue waits.  The steps of the router are those of       *)
(* MatchingEngineRouter, the fills those of Accounts; a mid price is read    *)
(* and written in one step, as Seqlock shows.                               *)
(***************************************************************************)
EXTENDS Integers, Sequences, Totals

CONSTANTS
  Half, OrderIds, UserIds, None, Tickers, INSTRUMENTS, Prices, Volumes,
  QUEUE_CAPACITY,
  MaxOrders,     \* bound: how many orders clients send
  MaxCancels     \* bound: how many cancels clients send

\* user_registry.hpp: every userId_ is in the registry.
Participants == UserIds

ASSUME ExchangeAssumption ==
  /\ QUEUE_CAPACITY \in Nat \ {0}
  /\ MaxOrders \in Nat
  /\ MaxCancels \in Nat

VARIABLES
  book, orderIndex, midPrice, call, log, executed, cancelledBy,   \* the router
  users,                                             \* the registry
  inboundQueue, tradeQueue, marketDataQueue,
  gateway, inHand,              \* the gateway thread, the command it dispatches
  running,                      \* Gateway::running_
  matching, command,            \* the matching thread, the command it executes
  inventory, settling,          \* the inventory thread, the trade it settles
  marketData,                   \* the market data thread
  main, shutdownRequested,
  gatewayFinished, matchingEngineFinished,
  snapshot,                     \* the rows that WriteSnapshot wrote
  published,                    \* history: the events sent
  ordersSent, cancelsSent       \* history: how many orders and cancels arrived

routerVars == <<book, orderIndex, midPrice, call, log, executed, cancelledBy>>
gatewayVars == <<gateway, inHand, ordersSent, cancelsSent>>
matchingVars == <<matching, command>>
inventoryVars == <<inventory, settling, users>>
marketDataVars == <<marketData, published>>
mainVars == <<main, shutdownRequested, running, gatewayFinished,
              matchingEngineFinished, snapshot>>
queueVars == <<inboundQueue, tradeQueue, marketDataQueue>>
vars == <<routerVars, gatewayVars, matchingVars, inventoryVars, marketDataVars,
          mainVars, queueVars>>

\* Clients choose any order ids here.
Router == INSTANCE MatchingEngineRouter WITH ReuseLiveIds <- TRUE

\* The assumptions of the router, for the values given here.
ASSUME ExchangeRouterAssumption ==
  /\ Half \in Nat \ {0}
  /\ None \notin Router!Price \cup Router!Call
  /\ INSTRUMENTS \subseteq Tickers
  /\ Prices \subseteq Router!Price
  /\ Volumes \subseteq Int

\* The accounts' own history variables are not used here.
Registry == INSTANCE Accounts WITH
  MaxTrades <- 0, terminated <- FALSE, settled <- 0, cash <- <<>>, marked <- <<>>

AddCommand(o) == [kind |-> "add", body |-> o]
CancelCommand(c) == [kind |-> "cancel", body |-> c]
NoCommand == [kind |-> "none"]

Event(kind, body) == [kind |-> kind, body |-> body]

Init ==
  /\ Router!Init
  /\ users = Registry!NoHoldings
  /\ inboundQueue = <<>> /\ tradeQueue = <<>> /\ marketDataQueue = <<>>
  /\ gateway = "running" /\ inHand = NoCommand
  /\ ordersSent = 0 /\ cancelsSent = 0
  /\ matching = "pop" /\ command = NoCommand
  /\ inventory = "pop" /\ settling = <<>>
  /\ marketData = "pop" /\ published = <<>>
  /\ main = "running" /\ shutdownRequested = FALSE /\ running = TRUE
  /\ gatewayFinished = FALSE /\ matchingEngineFinished = FALSE
  /\ snapshot = {}

\* Mutant: one element too many.
HasRoomOffByOne(queue) == Len(queue) <= QUEUE_CAPACITY

HasRoom(queue) == Len(queue) < QUEUE_CAPACITY

\* A worker that found its queue empty loads the flag of its producer.
AfterFlag(finished) == IF finished THEN "stopped" ELSE "pop"

-----------------------------------------------------------------------------
(* The gateway thread.  Run leaves its loop only between two batches of      *)
(* socket events, so a message may still be decoded after Stop.  Module      *)
(* Gateway has the sockets and the framing.                                 *)

\* Dispatch decodes a message of some client.
Decode(cmd) ==
  /\ gateway = "running"
  /\ inHand = NoCommand
  /\ inHand' = cmd
  /\ UNCHANGED <<gateway, inboundQueue>>

DecodeOrder ==
  /\ ordersSent < MaxOrders
  /\ \E o \in Router!OrderAdd : Decode(AddCommand(o))
  /\ ordersSent' = ordersSent + 1
  /\ UNCHANGED cancelsSent

DecodeCancel ==
  /\ cancelsSent < MaxCancels
  /\ \E c \in Router!OrderCancel : Decode(CancelCommand(c))
  /\ cancelsSent' = cancelsSent + 1
  /\ UNCHANGED ordersSent

\* Dispatch spins until the push succeeds.
Dispatch ==
  /\ inHand # NoCommand
  /\ HasRoom(inboundQueue)
  /\ inboundQueue' = Append(inboundQueue, inHand)
  /\ inHand' = NoCommand
  /\ UNCHANGED <<gateway, ordersSent, cancelsSent>>

\* running_ is false: Run closes its sockets and the thread ends.
GatewayStops ==
  /\ gateway = "running"
  /\ ~running
  /\ inHand = NoCommand
  /\ gateway' = "stopped"
  /\ UNCHANGED <<inHand, ordersSent, cancelsSent, inboundQueue>>

GatewayFrame ==
  UNCHANGED <<routerVars, matchingVars, inventoryVars, marketDataVars, mainVars,
              tradeQueue, marketDataQueue>>

ClientStep == (DecodeOrder \/ DecodeCancel) /\ GatewayFrame
GatewayStep == (Dispatch \/ GatewayStops) /\ GatewayFrame

-----------------------------------------------------------------------------
(* The matching engine thread. *)

MatchingPop ==
  /\ matching = "pop"
  /\ inboundQueue # <<>>
  /\ command' = Head(inboundQueue)
  /\ inboundQueue' = Tail(inboundQueue)
  /\ matching' = IF Head(inboundQueue).kind = "add" THEN "announce" ELSE "cancel"
  /\ UNCHANGED <<routerVars, tradeQueue, marketDataQueue>>

MatchingFindsEmpty ==
  /\ matching = "pop"
  /\ inboundQueue = <<>>
  /\ matching' = "check"
  /\ UNCHANGED <<command, routerVars, queueVars>>

\* Mutants: the gateway's own flag, and the flag of the stage after.
GatewayAskedToStop == ~running
MatchingFinished == matchingEngineFinished

\* The flag that the matching thread loads.
InputFinished == gatewayFinished

MatchingChecksFlag ==
  /\ matching = "check"
  /\ matching' = AfterFlag(InputFinished)
  /\ UNCHANGED <<command, routerVars, queueVars>>

\* Mutant: the event is skipped when the queue is full.
PublishIfRoom(event) ==
  marketDataQueue' = IF HasRoom(marketDataQueue) THEN Append(marketDataQueue, event)
                                                 ELSE marketDataQueue

\* PushBlocking of an event.
Publish(event) ==
  /\ HasRoom(marketDataQueue)
  /\ marketDataQueue' = Append(marketDataQueue, event)

\* The OrderAdd event goes out before the order is matched, whatever happens
\* to it, and the call into the router begins.
AnnounceOrder ==
  /\ matching = "announce"
  /\ Publish(Event("add", command.body))
  /\ \/ Router!OnOrderAdd(command.body) /\ matching' = "match" /\ UNCHANGED command
     \/ Router!DropOrderAdd(command.body) /\ matching' = "pop" /\ command' = NoCommand
  /\ UNCHANGED <<inboundQueue, tradeQueue>>

\* onTrade, first push: the trade event.
AnnounceTrade ==
  /\ matching = "match"
  /\ Router!Matches(call.order, call.remaining, Router!Opposing)
  /\ Publish(Event("trade", Router!NextTrade))
  /\ matching' = "trade"
  /\ UNCHANGED <<command, routerVars, inboundQueue, tradeQueue>>

\* onTrade, second push: the trade itself; then Match applies it.
HandOverTrade ==
  /\ matching = "trade"
  /\ HasRoom(tradeQueue)
  /\ tradeQueue' = Append(tradeQueue, Router!NextTrade)
  /\ Router!Match
  /\ matching' = "match"
  /\ UNCHANGED <<command, inboundQueue, marketDataQueue>>

FinishOrder ==
  /\ matching = "match"
  /\ Router!FinishOrderAdd
  /\ matching' = "pop"
  /\ command' = NoCommand
  /\ UNCHANGED queueVars

CancelOrder ==
  /\ matching = "cancel"
  /\ Router!OnOrderCancel(command.body) \/ Router!RejectCancel(command.body)
  /\ matching' = "cancelled"
  /\ UNCHANGED <<command, queueVars>>

\* The cancel event goes out whether or not anything was cancelled.
AnnounceCancel ==
  /\ matching = "cancelled"
  /\ Publish(Event("cancel", command.body))
  /\ matching' = "pop"
  /\ command' = NoCommand
  /\ UNCHANGED <<routerVars, inboundQueue, tradeQueue>>

MatchingStep ==
  /\ \/ MatchingPop \/ MatchingFindsEmpty \/ MatchingChecksFlag
     \/ AnnounceOrder \/ AnnounceTrade \/ HandOverTrade \/ FinishOrder
     \/ CancelOrder \/ AnnounceCancel
  /\ UNCHANGED <<gatewayVars, inventoryVars, marketDataVars, mainVars>>

-----------------------------------------------------------------------------
(* The inventory thread. *)

\* Pop a trade and apply both fills.
SettleTrade ==
  /\ inventory = "pop"
  /\ tradeQueue # <<>>
  /\ tradeQueue' = Tail(tradeQueue)
  /\ settling' = <<Head(tradeQueue)>>
  /\ users' = Registry!BothFilled(users, Head(tradeQueue))
  /\ inventory' = "mark"

\* Load the mid price, which the matching thread may have moved meanwhile,
\* and mark both parties to it.
MarkToMid ==
  /\ inventory = "mark"
  /\ users' = Registry!BothMarked(users, settling[1], midPrice[settling[1].ticker])
  /\ inventory' = "pop"
  /\ settling' = <<>>
  /\ UNCHANGED tradeQueue

InventoryFindsEmpty ==
  /\ inventory = "pop"
  /\ tradeQueue = <<>>
  /\ inventory' = "check"
  /\ UNCHANGED <<settling, users, tradeQueue>>

\* Mutant: an empty queue is reason enough to stop.
NoMoreTrades == TRUE

\* The flag that the inventory thread loads.
TradesFinished == matchingEngineFinished

InventoryChecksFlag ==
  /\ inventory = "check"
  /\ inventory' = AfterFlag(TradesFinished)
  /\ UNCHANGED <<settling, users, tradeQueue>>

InventoryStep ==
  /\ SettleTrade \/ MarkToMid \/ InventoryFindsEmpty \/ InventoryChecksFlag
  /\ UNCHANGED <<routerVars, gatewayVars, matchingVars, marketDataVars, mainVars,
                 inboundQueue, marketDataQueue>>

-----------------------------------------------------------------------------
(* The market data thread. *)

\* Pop an event and hand it to sendto; module Feed has what becomes of it.
SendEvent ==
  /\ marketData = "pop"
  /\ marketDataQueue # <<>>
  /\ published' = Append(published, Head(marketDataQueue))
  /\ marketDataQueue' = Tail(marketDataQueue)
  /\ UNCHANGED marketData

MarketDataFindsEmpty ==
  /\ marketData = "pop"
  /\ marketDataQueue = <<>>
  /\ marketData' = "check"
  /\ UNCHANGED <<published, marketDataQueue>>

MarketDataChecksFlag ==
  /\ marketData = "check"
  /\ marketData' = AfterFlag(matchingEngineFinished)
  /\ UNCHANGED <<published, marketDataQueue>>

MarketDataStep ==
  /\ SendEvent \/ MarketDataFindsEmpty \/ MarketDataChecksFlag
  /\ UNCHANGED <<routerVars, gatewayVars, matchingVars, inventoryVars, mainVars,
                 inboundQueue, tradeQueue>>

-----------------------------------------------------------------------------
(* The main thread. *)

\* SIGINT or SIGTERM.
HandleShutdownSignal ==
  /\ ~shutdownRequested
  /\ shutdownRequested' = TRUE
  /\ UNCHANGED <<main, running, gatewayFinished, matchingEngineFinished, snapshot>>

StopGateway ==
  /\ main = "running"
  /\ shutdownRequested
  /\ running' = FALSE
  /\ main' = "join gateway"
  /\ UNCHANGED <<shutdownRequested, gatewayFinished, matchingEngineFinished, snapshot>>

JoinGateway ==
  /\ main = "join gateway"
  /\ gateway = "stopped"
  /\ gatewayFinished' = TRUE
  /\ main' = "join matching"
  /\ UNCHANGED <<shutdownRequested, running, matchingEngineFinished, snapshot>>

JoinMatching ==
  /\ main = "join matching"
  /\ matching = "stopped"
  /\ matchingEngineFinished' = TRUE
  /\ main' = "join consumers"
  /\ UNCHANGED <<shutdownRequested, running, gatewayFinished, snapshot>>

\* Both remaining threads are joined, then WriteSnapshot writes one row for
\* every holding that was ever touched.
WriteSnapshot ==
  /\ main = "join consumers"
  /\ inventory = "stopped"
  /\ marketData = "stopped"
  /\ snapshot' = Registry!Rows(users)
  /\ main' = "done"
  /\ UNCHANGED <<shutdownRequested, running, gatewayFinished, matchingEngineFinished>>

MainFrame ==
  UNCHANGED <<routerVars, gatewayVars, matchingVars, inventoryVars, marketDataVars,
              queueVars>>

SignalStep == HandleShutdownSignal /\ MainFrame
MainStep == (StopGateway \/ JoinGateway \/ JoinMatching \/ WriteSnapshot) /\ MainFrame

\* The process has ended.
Exited == main = "done" /\ UNCHANGED vars

Next ==
  \/ ClientStep \/ GatewayStep \/ MatchingStep \/ InventoryStep \/ MarketDataStep
  \/ SignalStep \/ MainStep \/ Exited

Spec == Init /\ [][Next]_vars

\* The scheduler runs every thread; clients and signals need not come.
FairSpec ==
  /\ Spec
  /\ WF_vars(GatewayStep)
  /\ WF_vars(MatchingStep)
  /\ WF_vars(InventoryStep)
  /\ WF_vars(MarketDataStep)
  /\ WF_vars(MainStep)

-----------------------------------------------------------------------------
(* Properties. *)

Trade == [maker : UserIds, taker : UserIds, makerOrderId : OrderIds, takerOrderId : OrderIds,
          ticker : INSTRUMENTS, takerSide : Router!Sides, price : Router!Price,
          volume : Nat \ {0}]

Command == [kind : {"add"}, body : Router!OrderAdd]
             \cup [kind : {"cancel"}, body : Router!OrderCancel]

MarketEvent == Command \cup [kind : {"trade"}, body : Trade]

\* Type invariant: every queue holds messages of its kind, within its capacity.
TypeOK ==
  /\ Router!TypeOK
  /\ inboundQueue \in Seq(Command) /\ tradeQueue \in Seq(Trade)
  /\ marketDataQueue \in Seq(MarketEvent) /\ published \in Seq(MarketEvent)
  /\ \A q \in {inboundQueue, tradeQueue, marketDataQueue} : Len(q) <= QUEUE_CAPACITY
  /\ gateway \in {"running", "stopped"}
  /\ inHand \in Command \cup {NoCommand}
  /\ matching \in {"pop", "check", "announce", "match", "trade", "cancel",
                   "cancelled", "stopped"}
  /\ matching = "announce" => command \in Command /\ command.kind = "add"
  /\ matching \in {"cancel", "cancelled"} => command \in Command /\ command.kind = "cancel"
  /\ inventory \in {"pop", "check", "mark", "stopped"}
  /\ inventory = "mark" => settling \in Seq(Trade) /\ Len(settling) = 1
  /\ marketData \in {"pop", "check", "stopped"}
  /\ main \in {"running", "join gateway", "join matching", "join consumers", "done"}
  /\ {running, shutdownRequested, gatewayFinished, matchingEngineFinished}
       \subseteq BOOLEAN

\* What a trade adds to a user's position in an instrument.
NetOf(trade, u, t) ==
  (IF trade.ticker = t /\ trade.taker = u
   THEN Registry!Signed(trade.takerSide, trade.volume) ELSE 0)
  + (IF trade.ticker = t /\ trade.maker = u
     THEN Registry!Signed(Registry!MakerSide(trade), trade.volume) ELSE 0)

\* A user's net volume in the trades on their way to the inventory thread.
NetQueued(u, t) == Total([i \in DOMAIN tradeQueue |-> NetOf(tradeQueue[i], u, t)])

\* A user's net volume in what the engines have executed.
NetExecuted(u, t) ==
  Total([a \in DOMAIN log |-> IF log[a].userId = u /\ log[a].ticker = t
                              THEN Registry!Signed(log[a].side, executed[a]) ELSE 0])

\* No trade is lost, settled twice or settled for somebody else: every
\* account's position and the trades still on their way to the inventory
\* thread add up to what the engines executed for that user.
PositionsReconcile ==
  \A u \in UserIds, t \in INSTRUMENTS :
    Registry!Position(users[u], t) + NetQueued(u, t) = NetExecuted(u, t)

\* What listeners have received and what is still queued for them.
EventStream == published \o marketDataQueue

\* A user's net volume in the trades that a sequence of events announces.
NetAnnounced(events, u, t) ==
  Total([k \in DOMAIN events |-> IF events[k].kind = "trade" THEN NetOf(events[k].body, u, t)
                                                             ELSE 0])

\* The trade events, sent or queued, are exactly the executions, so a trade is
\* announced before it can be settled; only the trade between its two pushes
\* is announced and not yet executed.
FeedReconciles ==
  \A u \in UserIds, t \in INSTRUMENTS :
    NetAnnounced(EventStream, u, t) =
      NetExecuted(u, t) + (IF matching = "trade" THEN NetOf(Router!NextTrade, u, t) ELSE 0)

\* What an event adds to the volume that is announced under an id and not yet
\* traded.
UntradedIn(e, id, t, side) ==
  CASE /\ e.kind = "add" /\ e.body.volume > 0
       /\ <<e.body.orderId, e.body.ticker, e.body.side>> = <<id, t, side>>
         -> e.body.volume
    [] /\ e.kind = "trade" /\ e.body.ticker = t
       /\ id = IF e.body.takerSide = side THEN e.body.takerOrderId ELSE e.body.makerOrderId
         -> -e.body.volume
    [] OTHER -> 0

\* The volume that events announce under an id, less what they trade.
UntradedVolume(events, id, t, side) ==
  Total([k \in DOMAIN events |-> UntradedIn(events[k], id, t, side)])

\* The matching thread announces an order before it matches it: at no point of
\* the feed has an order traded volume that was not announced before.
TradesFollowTheirOrders ==
  \A k \in DOMAIN EventStream, id \in OrderIds, t \in Tickers, side \in Router!Sides :
    UntradedVolume(SubSeq(EventStream, 1, k), id, t, side) >= 0

\* main: "close off each stage's input before letting the next stage decide
\* it's allowed to stop".  A thread has stopped only if the one that feeds it
\* has, so no push waits for a consumer that is gone, and the snapshot is of
\* accounts that no longer change.
OrderlyStop ==
  /\ matching = "stopped" => gateway = "stopped" /\ inHand = NoCommand
  /\ inventory = "stopped" \/ marketData = "stopped" => matching = "stopped" /\ call = None
  /\ main = "done" => /\ inventory = "stopped" /\ marketData = "stopped"
                     /\ snapshot = Registry!Rows(users)

\* Whenever the inventory thread loads the mid price to value a trade there
\* is one, although the call that made the trade publishes its own later.
MidKnownAtSettlement ==
  inventory = "mark" => midPrice[settling[1].ticker] # None

\* A requested shutdown ends with the snapshot: no thread waits for ever on a
\* full queue, an empty queue or another thread.
ShutdownCompletes == shutdownRequested ~> main = "done"

\* While the exchange runs, everything accepted is matched, settled and sent
\* once clients pause.
WorkDrains ==
  []~shutdownRequested =>
    <>[](inboundQueue = <<>> /\ tradeQueue = <<>> /\ marketDataQueue = <<>>
         /\ call = None /\ settling = <<>>)

\* main: "a shutdown never drops in-flight work".  A worker that has stopped
\* has left nothing in its queue: accepted commands are executed, trades
\* settled and events sent.
StoppedDrained ==
  /\ matching = "stopped" => inboundQueue = <<>>
  /\ inventory = "stopped" => tradeQueue = <<>>
  /\ marketData = "stopped" => marketDataQueue = <<>>
=============================================================================
