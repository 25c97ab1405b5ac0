------------------------- MODULE ExchangeStepProofs -------------------------
(***************************************************************************)
(* What the steps of the threads of Exchange preserve, for every number of   *)
(* clients, orders and instruments and every queue capacity: the ordered     *)
(* shutdown first, then one invariant of the commands, calls, queues and     *)
(* accounts, under which accounts and feed reconcile with what the engines   *)
(* executed.  The laws of sums and fills and the soundness of the router are *)
(* hypotheses here; ExchangeProofs discharges them.                          *)
(***************************************************************************)
EXTENDS Exchange, TLAPS

\* The inductive invariant behind OrderlyStop.  The two flags that main sets
\* after a join say that the joined thread has stopped; a thread that has
\* stopped does nothing more; and the matching thread is inside a call to the
\* router only between its announcement and its end.
StopOrder ==
  /\ gatewayFinished => gateway = "stopped"
  /\ gateway = "stopped" => inHand = NoCommand
  /\ matching = "stopped" => gateway = "stopped"
  /\ matchingEngineFinished => matching = "stopped"
  /\ call # None => matching \in {"match", "trade"}
  /\ inventory = "stopped" \/ marketData = "stopped" => matching = "stopped"
  /\ main = "done" => /\ inventory = "stopped" /\ marketData = "stopped"
                     /\ snapshot = Registry!Rows(users)

\* It includes OrderlyStop.
LEMMA StopOrderSuffices == StopOrder => OrderlyStop
BY DEF StopOrder, OrderlyStop

\* Every step keeps the order in which threads stop.
LEMMA StopOrderInductive == StopOrder /\ [Next]_vars => StopOrder'
<1> SUFFICES ASSUME StopOrder, [Next]_vars
             PROVE  StopOrder'
  OBVIOUS
<1> USE DEF StopOrder
<1>1. CASE ClientStep
  BY <1>1 DEF ClientStep, GatewayFrame, DecodeOrder, DecodeCancel, Decode, routerVars,
              matchingVars, inventoryVars, marketDataVars, mainVars
<1>2. CASE GatewayStep
  BY <1>2 DEF GatewayStep, GatewayFrame, Dispatch, GatewayStops, routerVars,
              matchingVars, inventoryVars, marketDataVars, mainVars
<1>3. CASE MatchingStep
  <2>1. UNCHANGED <<gatewayVars, inventoryVars, marketDataVars, mainVars>>
    BY <1>3 DEF MatchingStep
  <2> USE <2>1 DEF gatewayVars, inventoryVars, marketDataVars, mainVars
  <2>2. CASE MatchingPop
    BY <2>2 DEF MatchingPop, routerVars
  <2>3. CASE MatchingFindsEmpty
    BY <2>3 DEF MatchingFindsEmpty, routerVars
  <2>4. CASE MatchingChecksFlag
    BY <2>4 DEF MatchingChecksFlag, AfterFlag, InputFinished, routerVars
  <2>5. CASE AnnounceOrder
    BY <2>5 DEF AnnounceOrder, Router!OnOrderAdd, Router!DropOrderAdd, Router!Receive
  <2>6. CASE AnnounceTrade
    BY <2>6 DEF AnnounceTrade, routerVars
  <2>7. CASE HandOverTrade
    BY <2>7 DEF HandOverTrade
  <2>8. CASE FinishOrder
    BY <2>8 DEF FinishOrder, Router!FinishOrderAdd
  <2>9. CASE CancelOrder
    <3>1. UNCHANGED call
      BY <2>9, Zenon DEF CancelOrder, Router!OnOrderCancel, Router!RejectCancel, Router!vars
    <3>2. QED
      BY <2>9, <3>1, SMTT(20) DEF CancelOrder
  <2>10. CASE AnnounceCancel
    BY <2>10 DEF AnnounceCancel, routerVars
  <2>11. QED
    BY <1>3, <2>2, <2>3, <2>4, <2>5, <2>6, <2>7, <2>8, <2>9, <2>10 DEF MatchingStep
<1>4. CASE InventoryStep
  <2>1. UNCHANGED <<routerVars, gatewayVars, matchingVars, marketDataVars, mainVars>>
    BY <1>4 DEF InventoryStep
  <2> USE <2>1 DEF routerVars, gatewayVars, matchingVars, marketDataVars, mainVars
  <2>2. CASE SettleTrade
    BY <2>2 DEF SettleTrade
  <2>3. CASE MarkToMid
    BY <2>3 DEF MarkToMid
  <2>4. CASE InventoryFindsEmpty
    BY <2>4 DEF InventoryFindsEmpty
  <2>5. CASE InventoryChecksFlag
    BY <2>5 DEF InventoryChecksFlag, AfterFlag, TradesFinished
  <2>6. QED
    BY <1>4, <2>2, <2>3, <2>4, <2>5 DEF InventoryStep
<1>5. CASE MarketDataStep
  <2>1. UNCHANGED <<routerVars, gatewayVars, matchingVars, inventoryVars, mainVars>>
    BY <1>5 DEF MarketDataStep
  <2> USE <2>1 DEF routerVars, gatewayVars, matchingVars, inventoryVars, mainVars
  <2>2. CASE SendEvent
    BY <2>2 DEF SendEvent
  <2>3. CASE MarketDataFindsEmpty
    BY <2>3 DEF MarketDataFindsEmpty
  <2>4. CASE MarketDataChecksFlag
    BY <2>4 DEF MarketDataChecksFlag, AfterFlag
  <2>5. QED
    BY <1>5, <2>2, <2>3, <2>4 DEF MarketDataStep
<1>6. CASE SignalStep
  BY <1>6 DEF SignalStep, MainFrame, HandleShutdownSignal, routerVars, gatewayVars,
              matchingVars, inventoryVars, marketDataVars
<1>7. CASE MainStep
  <2>1. MainFrame
    BY <1>7 DEF MainStep
  <2> USE <2>1 DEF MainFrame, routerVars, gatewayVars, matchingVars, inventoryVars,
                  marketDataVars
  <2>2. CASE StopGateway
    BY <2>2, Zenon DEF StopGateway
  <2>3. CASE JoinGateway
    BY <2>3, Zenon DEF JoinGateway
  <2>4. CASE JoinMatching
    BY <2>4, Zenon DEF JoinMatching
  <2>5. CASE WriteSnapshot
    BY <2>5, Zenon DEF WriteSnapshot
  <2>6. QED
    BY <1>7, <2>2, <2>3, <2>4, <2>5 DEF MainStep
<1>8. CASE UNCHANGED vars
  BY <1>8 DEF vars, routerVars, gatewayVars, matchingVars, inventoryVars,
              marketDataVars, mainVars
<1>9. QED
  BY <1>1, <1>2, <1>3, <1>4, <1>5, <1>6, <1>7, <1>8 DEF Next, Exited

\* The threads stop in the order of the pipeline, no matter when the signal
\* arrives: the consumer of a queue outlives its producer, no call is in
\* progress when the consumers of trades and events stop, and the snapshot is
\* of the final accounts.
THEOREM StopsInOrder == Spec => []OrderlyStop
<1>1. Init => StopOrder
  BY DEF Init, Router!Init, StopOrder
<1>2. QED
  BY <1>1, StopOrderInductive, StopOrderSuffices, PTL DEF Spec

-----------------------------------------------------------------------------
(* The commands on their way to the router.                                 *)

\* Where the commands are that were decoded and not yet taken by the router.
InDispatch == IF inHand = NoCommand THEN 0 ELSE 1
InAnnouncement == IF matching = "announce" THEN 1 ELSE 0

\* The commands are well formed wherever they are, and no more orders reach
\* the router than messages were decoded.
CommandFlow ==
  /\ inboundQueue \in Seq(Command)
  /\ inHand \in Command \cup {NoCommand}
  /\ matching \in {"pop", "check", "announce", "match", "trade", "cancel",
                   "cancelled", "stopped"}
  /\ matching = "announce" => command \in Command /\ command.kind = "add"
  /\ matching \in {"cancel", "cancelled"} => command \in Command /\ command.kind = "cancel"
  /\ ordersSent \in 0..MaxOrders /\ cancelsSent \in 0..MaxCancels
  /\ Len(log) \in Nat
  /\ Len(log) + Len(inboundQueue) + InDispatch + InAnnouncement <= ordersSent + cancelsSent

\* The two kinds of command.
LEMMA CommandKinds ==
  /\ \A o \in Router!OrderAdd : AddCommand(o) \in Command
  /\ \A c \in Router!OrderCancel : CancelCommand(c) \in Command
  /\ \A cmd \in Command :
       /\ cmd # NoCommand
       /\ cmd.kind \in {"add", "cancel"}
       /\ cmd.kind = "add" => cmd.body \in Router!OrderAdd
       /\ cmd.kind = "cancel" => cmd.body \in Router!OrderCancel
<1>1. \A o \in Router!OrderAdd : AddCommand(o) \in Command
  BY DEF AddCommand, Command
<1>2. \A c \in Router!OrderCancel : CancelCommand(c) \in Command
  BY DEF CancelCommand, Command
<1>3. ASSUME NEW cmd \in Command
      PROVE  /\ cmd.kind \in {"add", "cancel"}
             /\ cmd.kind = "add" => cmd.body \in Router!OrderAdd
             /\ cmd.kind = "cancel" => cmd.body \in Router!OrderCancel
  BY <1>3 DEF Command
<1>4. ASSUME NEW cmd \in Command
      PROVE  cmd # NoCommand
  BY <1>3 DEF NoCommand
<1>5. QED
  BY <1>1, <1>2, <1>3, <1>4

\* Appending to a queue and taking its head.
LEMMA QueueAppend ==
  ASSUME NEW S, NEW q \in Seq(S), NEW x \in S
  PROVE  /\ Append(q, x) \in Seq(S) /\ Len(Append(q, x)) = Len(q) + 1
         /\ Append(q, x)[Len(q) + 1] = x
         /\ \A i \in 1..Len(q) : Append(q, x)[i] = q[i]
OBVIOUS

\* A pop takes the first element of a queue.
LEMMA QueueTail ==
  ASSUME NEW S, NEW q \in Seq(S), q # <<>>
  PROVE  /\ Head(q) \in S /\ Head(q) = q[1] /\ Len(q) \in Nat \ {0}
         /\ Tail(q) \in Seq(S) /\ Len(Tail(q)) = Len(q) - 1
         /\ \A i \in 1..Len(q) - 1 : Tail(q)[i] = q[i + 1]
OBVIOUS

\* Every step keeps the flow of commands.
LEMMA CommandFlowInductive == CommandFlow /\ [Next]_vars => CommandFlow'
<1> SUFFICES ASSUME CommandFlow, [Next]_vars
             PROVE  CommandFlow'
  OBVIOUS
<1>0. /\ MaxOrders \in Nat /\ MaxCancels \in Nat
      /\ Len(inboundQueue) \in Nat /\ ordersSent \in Nat /\ cancelsSent \in Nat
      /\ InDispatch \in {0, 1} /\ InAnnouncement \in {0, 1}
  BY ExchangeAssumption DEF CommandFlow, InDispatch, InAnnouncement
<1>1. CASE ClientStep
  <2>1. /\ inHand = NoCommand /\ inHand' \in Command
        /\ inboundQueue' = inboundQueue
        /\ matching' = matching /\ command' = command /\ log' = log
        /\ \/ ordersSent' = ordersSent + 1 /\ ordersSent < MaxOrders /\ cancelsSent' = cancelsSent
           \/ cancelsSent' = cancelsSent + 1 /\ cancelsSent < MaxCancels /\ ordersSent' = ordersSent
    BY <1>1, CommandKinds, Zenon
       DEF ClientStep, DecodeOrder, DecodeCancel, Decode, GatewayFrame, routerVars, matchingVars
  <2>2. inHand' # NoCommand
    BY <2>1, CommandKinds, Zenon
  <2>3. InDispatch = 0 /\ InDispatch' = 1 /\ InAnnouncement' = InAnnouncement
    BY <2>1, <2>2 DEF InDispatch, InAnnouncement
  <2>4. QED
    BY <1>0, <2>1, <2>3 DEF CommandFlow
<1>2. CASE GatewayStep
  <2>1. matching' = matching /\ command' = command /\ log' = log
        /\ ordersSent' = ordersSent /\ cancelsSent' = cancelsSent
    BY <1>2 DEF GatewayStep, Dispatch, GatewayStops, GatewayFrame, routerVars, matchingVars
  <2>2. InAnnouncement' = InAnnouncement
    BY <2>1 DEF InAnnouncement
  <2>3. CASE Dispatch
    <3>1. inHand \in Command /\ inHand' = NoCommand /\ inboundQueue' = Append(inboundQueue, inHand)
      BY <2>3 DEF Dispatch, CommandFlow
    <3>2. InDispatch = 1 /\ InDispatch' = 0
      BY <2>3, <3>1 DEF InDispatch, Dispatch
    <3>3. inboundQueue' \in Seq(Command) /\ Len(inboundQueue') = Len(inboundQueue) + 1
      BY <3>1, QueueAppend DEF CommandFlow
    <3>4. QED
      BY <1>0, <2>1, <2>2, <3>1, <3>2, <3>3 DEF CommandFlow
  <2>4. CASE GatewayStops
    <3>1. inHand' = inHand /\ inboundQueue' = inboundQueue
      BY <2>4 DEF GatewayStops
    <3>2. QED
      BY <2>1, <3>1 DEF CommandFlow, InDispatch, InAnnouncement
  <2>5. QED
    BY <1>2, <2>3, <2>4 DEF GatewayStep
<1>3. CASE MatchingStep
  <2>1. inHand' = inHand /\ ordersSent' = ordersSent /\ cancelsSent' = cancelsSent
    BY <1>3 DEF MatchingStep, gatewayVars
  <2>2. InDispatch' = InDispatch
    BY <2>1 DEF InDispatch
  <2>3. CASE MatchingPop
    <3>1. /\ matching = "pop" /\ inboundQueue # <<>>
          /\ command' = Head(inboundQueue) /\ inboundQueue' = Tail(inboundQueue)
          /\ matching' = IF Head(inboundQueue).kind = "add" THEN "announce" ELSE "cancel"
          /\ log' = log
      BY <2>3 DEF MatchingPop, routerVars
    <3>2. /\ command' \in Command /\ inboundQueue' \in Seq(Command)
          /\ Len(inboundQueue') = Len(inboundQueue) - 1
      BY <3>1, QueueTail DEF CommandFlow
    <3>3. /\ matching' \in {"announce", "cancel"}
          /\ matching' = "announce" => command'.kind = "add"
          /\ matching' = "cancel" => command'.kind = "cancel"
      BY <3>1, <3>2, CommandKinds
    <3>4. InAnnouncement = 0 /\ InAnnouncement' \in {0, 1}
      BY <3>1 DEF InAnnouncement
    <3>5. QED
      BY <1>0, <2>1, <2>2, <3>1, <3>2, <3>3, <3>4 DEF CommandFlow
  <2>4. CASE AnnounceOrder
    <3>1. /\ matching = "announce" /\ matching' \in {"match", "pop"}
          /\ inboundQueue' = inboundQueue
          /\ log' = Append(log, command.body)
      BY <2>4 DEF AnnounceOrder, Router!OnOrderAdd, Router!DropOrderAdd, Router!Receive
    <3>2. InAnnouncement = 1 /\ InAnnouncement' = 0
      BY <3>1 DEF InAnnouncement
    <3>3. Len(log') = Len(log) + 1
      BY <3>1
    <3>4. QED
      BY <1>0, <2>1, <2>2, <3>1, <3>2, <3>3 DEF CommandFlow
  <2>5. CASE MatchingFindsEmpty \/ MatchingChecksFlag \/ AnnounceTrade \/ HandOverTrade
             \/ FinishOrder \/ CancelOrder \/ AnnounceCancel
    <3>1. /\ matching \notin {"announce"} /\ inboundQueue' = inboundQueue /\ log' = log
          /\ matching' \in {"pop", "check", "match", "trade", "cancelled", "stopped"}
      <4>1. CASE MatchingFindsEmpty \/ MatchingChecksFlag \/ AnnounceTrade \/ AnnounceCancel
        BY <4>1 DEF MatchingFindsEmpty, MatchingChecksFlag, AnnounceTrade, AnnounceCancel,
                    AfterFlag, routerVars, queueVars
      <4>2. CASE HandOverTrade
        BY <4>2 DEF HandOverTrade, Router!Match
      <4>3. CASE FinishOrder
        BY <4>3 DEF FinishOrder, Router!FinishOrderAdd, queueVars
      <4>4. CASE CancelOrder
        <5>1. log' = log
          BY <4>4, Zenon DEF CancelOrder, Router!OnOrderCancel, Router!RejectCancel, Router!vars
        <5>2. QED
          BY <4>4, <5>1 DEF CancelOrder, queueVars
      <4>5. QED
        BY <2>5, <4>1, <4>2, <4>3, <4>4
    <3>2. matching' = "cancelled" => matching = "cancel" /\ command' = command
      BY <2>5, Zenon DEF MatchingFindsEmpty, MatchingChecksFlag, AnnounceTrade, HandOverTrade,
                         FinishOrder, CancelOrder, AnnounceCancel, AfterFlag
    <3>3. InAnnouncement = 0 /\ InAnnouncement' = 0
      BY <3>1 DEF InAnnouncement
    <3>4. QED
      BY <1>0, <2>1, <2>2, <3>1, <3>2, <3>3 DEF CommandFlow
  <2>6. QED
    BY <1>3, <2>3, <2>4, <2>5 DEF MatchingStep
<1>4. CASE InventoryStep \/ MarketDataStep \/ SignalStep \/ MainStep \/ UNCHANGED vars
  <2>1. UNCHANGED <<inboundQueue, inHand, ordersSent, cancelsSent, matching, command, log>>
    BY <1>4 DEF InventoryStep, MarketDataStep, SignalStep, MainStep, MainFrame, vars,
                routerVars, gatewayVars, matchingVars, queueVars
  <2>2. QED
    BY <2>1 DEF CommandFlow, InDispatch, InAnnouncement
<1>5. QED
  BY <1>1, <1>2, <1>3, <1>4 DEF Next, Exited

-----------------------------------------------------------------------------
(* The calls into the router, the trades they make and the queues.           *)

\* A trade whose maker and taker are the orders numbered m and c, each of
\* which has at least the traded volume left.
Parties(trade, m, c) ==
  /\ m \in 1..Len(log) /\ c \in 1..Len(log) /\ m # c
  /\ log[m].userId = trade.maker /\ log[m].orderId = trade.makerOrderId
  /\ log[m].ticker = trade.ticker /\ log[m].side = Router!Opposite(trade.takerSide)
  /\ log[c].userId = trade.taker /\ log[c].orderId = trade.takerOrderId
  /\ log[c].ticker = trade.ticker /\ log[c].side = trade.takerSide
  /\ executed[m] + trade.volume <= log[m].volume
  /\ executed[c] + trade.volume <= log[c].volume

\* The call in progress is about to trade.
TradeDue == call # None /\ Router!Matches(call.order, call.remaining, Router!Opposing)

\* What the router guarantees the threads around it.
RouterSound ==
  /\ Router!TypeOK
  /\ Router!MidKnownOnceTraded
  /\ TradeDue => /\ Router!NextTrade \in Trade
                 /\ Parties(Router!NextTrade, Router!Maker.arrival, call.arrival)

\* The matching thread is between its two pushes of a trade only while the
\* router has that trade to make.
CallState ==
  /\ call # None <=> matching \in {"match", "trade"}
  /\ matching = "trade" => TradeDue

\* A step of another thread leaves the router alone.
LEMMA RouterUntouched ==
  ASSUME UNCHANGED routerVars
  PROVE  /\ UNCHANGED <<book, orderIndex, midPrice, call, log, executed, cancelledBy>>
         /\ TradeDue' = TradeDue /\ Router!NextTrade' = Router!NextTrade
         /\ Router!Maker' = Router!Maker
<1>1. UNCHANGED <<book, orderIndex, midPrice, call, log, executed, cancelledBy>>
  BY DEF routerVars
<1>2. Router!Opposing' = Router!Opposing
  BY <1>1 DEF Router!Opposing
<1>3. Router!Maker' = Router!Maker
  BY <1>1, <1>2 DEF Router!Maker
<1>4. QED
  BY <1>1, <1>2, <1>3, Zenon DEF TradeDue, Router!NextTrade

\* The call after a trade is the same call with less volume.
LEMMA CallContinues ==
  ASSUME RouterSound, Router!Match
  PROVE  call' # None
<1>1. TradeDue
  BY DEF Router!Match, TradeDue
<1>2. Router!NextTrade.volume \in Nat
  BY <1>1 DEF RouterSound, Trade
<1>3. call' = [call EXCEPT !.remaining = @ - Router!NextTrade.volume]
  BY Zenon DEF Router!Match, Router!NextTrade
<1>4. call \in Router!Call
  BY <1>1 DEF RouterSound, Router!TypeOK, TradeDue
<1>5. call' \in Router!Call
  BY <1>2, <1>3, <1>4 DEF Router!Call
<1>6. QED
  BY <1>5, ExchangeRouterAssumption

\* Every step keeps the matching thread's view of the call.
LEMMA CallStateInductive ==
  ASSUME CommandFlow, RouterSound, CallState, [Next]_vars
  PROVE  CallState'
<1>1. CASE UNCHANGED routerVars /\ matching' = matching
  BY <1>1, RouterUntouched, Zenon DEF CallState
<1>2. CASE MatchingStep
  <2>1. CASE MatchingPop \/ MatchingFindsEmpty \/ MatchingChecksFlag \/ AnnounceCancel
    <3>1. UNCHANGED routerVars
      BY <2>1 DEF MatchingPop, MatchingFindsEmpty, MatchingChecksFlag, AnnounceCancel
    <3>2. matching \notin {"match", "trade"} /\ matching' \notin {"match", "trade"}
      BY <2>1 DEF MatchingPop, MatchingFindsEmpty, MatchingChecksFlag, AnnounceCancel, AfterFlag
    <3>3. QED
      BY <3>1, <3>2, RouterUntouched DEF CallState
  <2>2. CASE AnnounceOrder
    <3>1. CASE Router!OnOrderAdd(command.body) /\ matching' = "match"
      <4>1. command.body \in Router!OrderAdd
        BY <2>2, CommandKinds DEF CommandFlow, AnnounceOrder
      <4>2. command.body.volume \in Int /\ Len(log) + 1 \in Nat \ {0}
        <5>1. command.body.volume \in Volumes
          BY <4>1 DEF Router!OrderAdd
        <5>2. Volumes \subseteq Int
          BY ExchangeRouterAssumption
        <5>3. Len(log) + 1 \in Nat \ {0}
          BY DEF CommandFlow
        <5>4. QED
          BY <5>1, <5>2, <5>3, Zenon
      <4>3. call' = [order |-> command.body, remaining |-> command.body.volume,
                     arrival |-> Len(log) + 1]
        BY <3>1 DEF Router!OnOrderAdd
      <4>4. call' \in Router!Call
        BY <4>1, <4>2, <4>3 DEF Router!Call
      <4>5. QED
        BY <3>1, <4>4, ExchangeRouterAssumption DEF CallState
    <3>2. CASE Router!DropOrderAdd(command.body) /\ matching' = "pop"
      BY <3>2 DEF CallState, Router!DropOrderAdd, Router!Receive
    <3>3. QED
      BY <2>2, <3>1, <3>2 DEF AnnounceOrder
  <2>3. CASE AnnounceTrade
    <3>1. UNCHANGED routerVars /\ matching = "match" /\ matching' = "trade" /\ TradeDue
      BY <2>3 DEF AnnounceTrade, CallState, TradeDue
    <3>2. QED
      BY <3>1, RouterUntouched DEF CallState
  <2>4. CASE HandOverTrade
    <3>1. Router!Match /\ matching' = "match"
      BY <2>4 DEF HandOverTrade
    <3>2. QED
      BY <3>1, CallContinues DEF CallState
  <2>5. CASE FinishOrder
    BY <2>5 DEF FinishOrder, Router!FinishOrderAdd, CallState
  <2>6. CASE CancelOrder
    <3>1. call = None /\ call' = call
      BY <2>6, Zenon DEF CancelOrder, Router!OnOrderCancel, Router!RejectCancel, Router!vars
    <3>2. QED
      BY <2>6, <3>1 DEF CancelOrder, CallState
  <2>7. QED
    BY <1>2, <2>1, <2>2, <2>3, <2>4, <2>5, <2>6 DEF MatchingStep
<1>3. CASE ClientStep \/ GatewayStep
  BY <1>1, <1>3 DEF ClientStep, GatewayStep, GatewayFrame, matchingVars
<1>4. CASE InventoryStep \/ MarketDataStep
  BY <1>1, <1>4 DEF InventoryStep, MarketDataStep, matchingVars
<1>5. CASE SignalStep \/ MainStep
  BY <1>1, <1>5 DEF SignalStep, MainStep, MainFrame, matchingVars
<1>6. CASE UNCHANGED vars
  BY <1>1, <1>6 DEF vars, matchingVars
<1>7. QED
  BY <1>2, <1>3, <1>4, <1>5, <1>6 DEF Next, Exited

\* The queues hold messages of their kind, within their capacity, and the
\* inventory thread values the one trade it took.
QueuesOK ==
  /\ tradeQueue \in Seq(Trade)
  /\ marketDataQueue \in Seq(MarketEvent) /\ published \in Seq(MarketEvent)
  /\ Len(inboundQueue) <= QUEUE_CAPACITY
  /\ Len(tradeQueue) <= QUEUE_CAPACITY
  /\ Len(marketDataQueue) <= QUEUE_CAPACITY
  /\ inventory = "mark" => settling \in Seq(Trade) /\ Len(settling) = 1

\* The three kinds of event.
LEMMA EventKinds ==
  /\ \A o \in Router!OrderAdd : Event("add", o) \in MarketEvent
  /\ \A c \in Router!OrderCancel : Event("cancel", c) \in MarketEvent
  /\ \A trade \in Trade : Event("trade", trade) \in MarketEvent
  /\ \A e \in MarketEvent :
       /\ e.kind = "add" => e.body \in Router!OrderAdd
       /\ e.kind = "trade" => e.body \in Trade
       /\ e.kind \in {"add", "cancel", "trade"}
<1>1. \A o \in Router!OrderAdd : Event("add", o) \in MarketEvent
  BY DEF Event, MarketEvent, Command
<1>2. \A c \in Router!OrderCancel : Event("cancel", c) \in MarketEvent
  BY DEF Event, MarketEvent, Command
<1>3. \A trade \in Trade : Event("trade", trade) \in MarketEvent
  BY DEF Event, MarketEvent
<1>4. ASSUME NEW e \in MarketEvent
      PROVE  /\ e.kind = "add" => e.body \in Router!OrderAdd
             /\ e.kind = "trade" => e.body \in Trade
             /\ e.kind \in {"add", "cancel", "trade"}
  BY <1>4 DEF MarketEvent, Command
<1>5. QED
  BY <1>1, <1>2, <1>3, <1>4

\* A push of an event leaves the queue within its capacity.
LEMMA PublishOK ==
  ASSUME QueuesOK, NEW e \in MarketEvent, Publish(e)
  PROVE  marketDataQueue' \in Seq(MarketEvent) /\ Len(marketDataQueue') <= QUEUE_CAPACITY
<1>1. marketDataQueue' = Append(marketDataQueue, e) /\ Len(marketDataQueue) < QUEUE_CAPACITY
  BY DEF Publish, HasRoom
<1>2. /\ marketDataQueue' \in Seq(MarketEvent)
      /\ Len(marketDataQueue') = Len(marketDataQueue) + 1
  BY <1>1, QueueAppend DEF QueuesOK
<1>3. Len(marketDataQueue) \in Nat /\ QUEUE_CAPACITY \in Nat
  BY ExchangeAssumption DEF QueuesOK
<1>4. QED
  BY <1>1, <1>2, <1>3

\* What a step of the matching thread does to the queues of events and trades.
MatchingPushes ==
  /\ UNCHANGED <<inboundQueue, settling, inventory, published>>
  /\ \/ \E e \in MarketEvent : Publish(e) /\ tradeQueue' = tradeQueue
     \/ /\ TradeDue /\ HasRoom(tradeQueue)
        /\ tradeQueue' = Append(tradeQueue, Router!NextTrade)
        /\ marketDataQueue' = marketDataQueue
     \/ UNCHANGED <<tradeQueue, marketDataQueue>>

\* Such a step pushes nothing, an event or the trade that is due.
LEMMA MatchingPushesOne ==
  ASSUME CommandFlow, RouterSound, CallState, MatchingStep, ~MatchingPop
  PROVE  MatchingPushes
<1>1. UNCHANGED <<settling, inventory, published>>
  BY DEF MatchingStep, inventoryVars, marketDataVars
<1>2. CASE MatchingFindsEmpty \/ MatchingChecksFlag \/ FinishOrder \/ CancelOrder
  BY <1>1, <1>2 DEF MatchingFindsEmpty, MatchingChecksFlag, FinishOrder, CancelOrder,
                    queueVars, MatchingPushes
<1>3. CASE AnnounceOrder
  <2>1. command.body \in Router!OrderAdd
    BY <1>3, CommandKinds DEF CommandFlow, AnnounceOrder
  <2>2. QED
    BY <1>1, <1>3, <2>1, EventKinds, Zenon DEF AnnounceOrder, MatchingPushes
<1>4. CASE AnnounceTrade
  <2>1. TradeDue
    BY <1>4 DEF AnnounceTrade, CallState, TradeDue
  <2>2. Router!NextTrade \in Trade
    BY <2>1 DEF RouterSound
  <2>3. QED
    BY <1>1, <1>4, <2>2, EventKinds, Zenon DEF AnnounceTrade, MatchingPushes
<1>5. CASE HandOverTrade
  <2>1. TradeDue
    BY <1>5 DEF HandOverTrade, Router!Match, TradeDue
  <2>2. QED
    BY <1>1, <1>5, <2>1, Zenon DEF HandOverTrade, MatchingPushes
<1>6. CASE AnnounceCancel
  <2>1. command.body \in Router!OrderCancel
    BY <1>6, CommandKinds DEF CommandFlow, AnnounceCancel
  <2>2. QED
    BY <1>1, <1>6, <2>1, EventKinds, Zenon DEF AnnounceCancel, MatchingPushes
<1>7. QED
  BY <1>2, <1>3, <1>4, <1>5, <1>6 DEF MatchingStep

\* Every step keeps the queues typed and within their capacity.
LEMMA QueuesInductive ==
  ASSUME CommandFlow, RouterSound, CallState, QueuesOK, [Next]_vars
  PROVE  QueuesOK'
<1>0. /\ QUEUE_CAPACITY \in Nat /\ inboundQueue \in Seq(Command)
      /\ Len(inboundQueue) \in Nat /\ Len(tradeQueue) \in Nat /\ Len(marketDataQueue) \in Nat
  BY ExchangeAssumption DEF CommandFlow, QueuesOK
<1>1. CASE Dispatch /\ GatewayFrame
  <2>1. /\ inboundQueue' = Append(inboundQueue, inHand) /\ inHand \in Command
        /\ Len(inboundQueue) < QUEUE_CAPACITY
    BY <1>1 DEF Dispatch, HasRoom, CommandFlow
  <2>2. Len(inboundQueue') <= QUEUE_CAPACITY
    BY <1>0, <2>1, QueueAppend
  <2>3. UNCHANGED <<tradeQueue, marketDataQueue, published, inventory, settling>>
    BY <1>1 DEF GatewayFrame, inventoryVars, marketDataVars
  <2>4. QED
    BY <2>2, <2>3 DEF QueuesOK
<1>2. CASE MatchingPop /\ MatchingStep
  <2>1. Len(inboundQueue') <= QUEUE_CAPACITY
    <3>1. inboundQueue # <<>> /\ inboundQueue' = Tail(inboundQueue)
      BY <1>2 DEF MatchingPop
    <3>2. Len(inboundQueue') = Len(inboundQueue) - 1
      BY <1>0, <3>1, QueueTail, Zenon
    <3>3. QED
      BY <1>0, <3>2 DEF QueuesOK
  <2>2. UNCHANGED <<tradeQueue, marketDataQueue, published, inventory, settling>>
    BY <1>2 DEF MatchingPop, MatchingStep, inventoryVars, marketDataVars
  <2>3. QED
    BY <2>1, <2>2 DEF QueuesOK
<1>3. CASE MatchingStep /\ ~MatchingPop
  <2>1. MatchingPushes
    BY <1>3, MatchingPushesOne
  <2>2. CASE \E e \in MarketEvent : Publish(e) /\ tradeQueue' = tradeQueue
    BY <2>1, <2>2, PublishOK DEF MatchingPushes, QueuesOK
  <2>3. CASE /\ TradeDue /\ HasRoom(tradeQueue)
             /\ tradeQueue' = Append(tradeQueue, Router!NextTrade)
             /\ marketDataQueue' = marketDataQueue
    <3>1. Router!NextTrade \in Trade
      BY <2>3 DEF RouterSound
    <3>2. tradeQueue' \in Seq(Trade) /\ Len(tradeQueue') = Len(tradeQueue) + 1
      BY <2>3, <3>1, QueueAppend DEF QueuesOK
    <3>3. Len(tradeQueue') <= QUEUE_CAPACITY
      BY <1>0, <2>3, <3>2 DEF HasRoom
    <3>4. QED
      BY <2>1, <2>3, <3>2, <3>3 DEF MatchingPushes, QueuesOK
  <2>4. CASE UNCHANGED <<tradeQueue, marketDataQueue>>
    BY <2>1, <2>4 DEF MatchingPushes, QueuesOK
  <2>5. QED
    BY <2>1, <2>2, <2>3, <2>4 DEF MatchingPushes
<1>4. CASE InventoryStep
  <2>1. UNCHANGED <<inboundQueue, marketDataQueue, published>>
    BY <1>4 DEF InventoryStep, marketDataVars
  <2>2. CASE SettleTrade
    <3>1. /\ tradeQueue # <<>> /\ tradeQueue' = Tail(tradeQueue)
          /\ settling' = <<Head(tradeQueue)>>
      BY <2>2 DEF SettleTrade
    <3>2. Head(tradeQueue) \in Trade /\ tradeQueue' \in Seq(Trade)
          /\ Len(tradeQueue') <= QUEUE_CAPACITY
      BY <1>0, <3>1, QueueTail DEF QueuesOK
    <3>3. settling' \in Seq(Trade) /\ Len(settling') = 1
      BY <3>1, <3>2
    <3>4. QED
      BY <2>1, <3>2, <3>3 DEF QueuesOK
  <2>3. CASE MarkToMid \/ InventoryFindsEmpty \/ InventoryChecksFlag
    BY <2>1, <2>3 DEF MarkToMid, InventoryFindsEmpty, InventoryChecksFlag, AfterFlag, QueuesOK
  <2>4. QED
    BY <1>4, <2>2, <2>3 DEF InventoryStep
<1>5. CASE MarketDataStep
  <2>1. UNCHANGED <<inboundQueue, tradeQueue, inventory, settling>>
    BY <1>5 DEF MarketDataStep, inventoryVars
  <2>2. CASE SendEvent
    <3>1. /\ marketDataQueue # <<>> /\ marketDataQueue' = Tail(marketDataQueue)
          /\ published' = Append(published, Head(marketDataQueue))
      BY <2>2 DEF SendEvent
    <3>2. /\ Head(marketDataQueue) \in MarketEvent /\ marketDataQueue' \in Seq(MarketEvent)
          /\ Len(marketDataQueue') <= QUEUE_CAPACITY
      BY <1>0, <3>1, QueueTail DEF QueuesOK
    <3>3. published' \in Seq(MarketEvent)
      BY <3>1, <3>2, QueueAppend DEF QueuesOK
    <3>4. QED
      BY <2>1, <3>2, <3>3 DEF QueuesOK
  <2>3. CASE MarketDataFindsEmpty \/ MarketDataChecksFlag
    BY <2>1, <2>3 DEF MarketDataFindsEmpty, MarketDataChecksFlag, QueuesOK
  <2>4. QED
    BY <1>5, <2>2, <2>3 DEF MarketDataStep
<1>6. CASE ClientStep \/ (GatewayStops /\ GatewayFrame) \/ SignalStep \/ MainStep
           \/ UNCHANGED vars
  <2>1. UNCHANGED <<inboundQueue, tradeQueue, marketDataQueue, published, inventory, settling>>
    BY <1>6 DEF ClientStep, DecodeOrder, DecodeCancel, Decode, GatewayStops, GatewayFrame,
                SignalStep, MainStep, MainFrame, vars, inventoryVars, marketDataVars, queueVars
  <2>2. QED
    BY <2>1, SMTT(20) DEF QueuesOK
<1>7. QED
  BY <1>1, <1>2, <1>3, <1>4, <1>5, <1>6 DEF Next, Exited, GatewayStep

\* The states of the threads and the flags.
ThreadStates ==
  /\ gateway \in {"running", "stopped"}
  /\ inventory \in {"pop", "check", "mark", "stopped"}
  /\ marketData \in {"pop", "check", "stopped"}
  /\ main \in {"running", "join gateway", "join matching", "join consumers", "done"}
  /\ running \in BOOLEAN /\ shutdownRequested \in BOOLEAN
  /\ gatewayFinished \in BOOLEAN /\ matchingEngineFinished \in BOOLEAN

\* Every thread stays at one of its steps.
LEMMA ThreadStatesInductive == ThreadStates /\ [Next]_vars => ThreadStates'
<1> SUFFICES ASSUME ThreadStates, [Next]_vars
             PROVE  ThreadStates'
  OBVIOUS
<1> USE DEF ThreadStates
<1>1. CASE ClientStep \/ GatewayStep
  BY <1>1, Zenon DEF ClientStep, GatewayStep, GatewayFrame, DecodeOrder, DecodeCancel, Decode,
              Dispatch, GatewayStops, inventoryVars, marketDataVars, mainVars
<1>2. CASE MatchingStep
  BY <1>2, Zenon DEF MatchingStep, gatewayVars, inventoryVars, marketDataVars, mainVars
<1>3. CASE InventoryStep
  BY <1>3, Zenon DEF InventoryStep, SettleTrade, MarkToMid, InventoryFindsEmpty, InventoryChecksFlag,
              AfterFlag, gatewayVars, marketDataVars, mainVars
<1>4. CASE MarketDataStep
  BY <1>4, ZenonT(30) DEF MarketDataStep, SendEvent, MarketDataFindsEmpty, MarketDataChecksFlag,
              AfterFlag, gatewayVars, inventoryVars, mainVars
<1>5. CASE SignalStep \/ MainStep
  BY <1>5, Zenon DEF SignalStep, MainStep, MainFrame, HandleShutdownSignal, StopGateway, JoinGateway,
              JoinMatching, WriteSnapshot, gatewayVars, inventoryVars, marketDataVars
<1>6. CASE UNCHANGED vars
  BY <1>6, ZenonT(30) DEF vars, gatewayVars, inventoryVars, marketDataVars, mainVars
<1>7. QED
  BY <1>1, <1>2, <1>3, <1>4, <1>5, <1>6, Zenon DEF Next, Exited

\* All of them together are the type invariant.
LEMMA TypesSuffice ==
  RouterSound /\ CommandFlow /\ QueuesOK /\ ThreadStates => TypeOK
<1> SUFFICES ASSUME RouterSound, CommandFlow, QueuesOK, ThreadStates
             PROVE  TypeOK
  OBVIOUS
<1>1. \A q \in {inboundQueue, tradeQueue, marketDataQueue} : Len(q) <= QUEUE_CAPACITY
  BY DEF QueuesOK
<1>2. {running, shutdownRequested, gatewayFinished, matchingEngineFinished} \subseteq BOOLEAN
  BY Zenon DEF ThreadStates
<1>3. QED
  BY <1>1, <1>2, Zenon DEF TypeOK, RouterSound, CommandFlow, QueuesOK, ThreadStates

\* The initial state.
LEMMA FlowInit == Init => CommandFlow /\ CallState /\ QueuesOK /\ ThreadStates
<1> SUFFICES ASSUME Init
             PROVE  CommandFlow /\ CallState /\ QueuesOK /\ ThreadStates
  OBVIOUS
<1>1. log = <<>> /\ call = None
  BY DEF Init, Router!Init
<1>2. CommandFlow
  BY <1>1, ExchangeAssumption DEF Init, CommandFlow, InDispatch, InAnnouncement, NoCommand
<1>3. CallState
  BY <1>1 DEF Init, CallState
<1>4. QueuesOK
  BY ExchangeAssumption DEF Init, QueuesOK
<1>5. ThreadStates
  BY Zenon DEF Init, ThreadStates
<1>6. QED
  BY <1>2, <1>3, <1>4, <1>5

-----------------------------------------------------------------------------
(* What the orders have executed.                                           *)

\* The executed volumes once the trade that is due has been made.
Credited ==
  [a \in 1..Len(log) |-> IF a \in {Router!Maker.arrival, call.arrival}
                         THEN executed[a] + Router!NextTrade.volume ELSE executed[a]]

\* Somebody has traded this instrument.
HasTraded(t) == \E a \in 1..Len(log) : log[a].ticker = t /\ executed[a] > 0

\* What an order asks for: one without volume asks for nothing.
Asked(o) == IF o.volume > 0 THEN o.volume ELSE 0

\* No order executes more than it asked for, and every trade on its way to the
\* accounts has been executed.
Executions ==
  /\ \A a \in 1..Len(log) : executed[a] <= Asked(log[a])
  /\ \A i \in 1..Len(tradeQueue) : HasTraded(tradeQueue[i].ticker)
  /\ inventory = "mark" => HasTraded(settling[1].ticker)

\* An order asks for a number of lots.
LEMMA AskedNat ==
  ASSUME NEW o \in Router!OrderAdd
  PROVE  o.volume \in Int /\ Asked(o) \in Nat
<1>1. o.volume \in Volumes
  BY DEF Router!OrderAdd
<1>2. Volumes \subseteq Int
  BY ExchangeRouterAssumption
<1>3. o.volume \in Int
  BY <1>1, <1>2, Zenon
<1>4. QED
  BY <1>3 DEF Asked

\* The types of the history variables.
LEMMA HistoryTypes ==
  ASSUME Router!TypeOK
  PROVE  /\ log \in Seq(Router!OrderAdd) /\ executed \in Seq(Nat) /\ Len(executed) = Len(log)
         /\ Len(log) \in Nat /\ DOMAIN log = 1..Len(log) /\ DOMAIN executed = 1..Len(log)
         /\ \A a \in 1..Len(log) :
              /\ executed[a] \in Nat /\ log[a] \in Router!OrderAdd
              /\ log[a].volume \in Int /\ Asked(log[a]) \in Nat
<1>1. log \in Seq(Router!OrderAdd) /\ executed \in Seq(Nat) /\ Len(executed) = Len(log)
  BY DEF Router!TypeOK
<1>2. /\ Len(log) \in Nat /\ DOMAIN log = 1..Len(log) /\ DOMAIN executed = 1..Len(log)
      /\ \A a \in 1..Len(log) : executed[a] \in Nat /\ log[a] \in Router!OrderAdd
  BY <1>1
<1>3. QED
  BY <1>1, <1>2, AskedNat

\* What a trade has.
LEMMA TradeFields ==
  ASSUME NEW trade \in Trade
  PROVE  /\ trade.maker \in UserIds /\ trade.taker \in UserIds
         /\ trade.ticker \in INSTRUMENTS /\ trade.takerSide \in {"Buy", "Sell"}
         /\ trade.volume \in Nat \ {0} /\ trade.volume \in Nat /\ trade.volume \in Int
BY DEF Trade, Router!Sides

\* The trade that is due credits its two parties, within what they asked for.
LEMMA DueIsCredited ==
  ASSUME RouterSound, TradeDue
  PROVE  /\ Router!NextTrade \in Trade
         /\ Parties(Router!NextTrade, Router!Maker.arrival, call.arrival)
         /\ Credited \in Seq(Nat) /\ Len(Credited) = Len(log)
<1>1. /\ Router!NextTrade \in Trade
      /\ Parties(Router!NextTrade, Router!Maker.arrival, call.arrival)
      /\ Router!TypeOK
  BY DEF RouterSound
<1>2. Router!NextTrade.volume \in Nat
  BY <1>1, TradeFields
<1>3. \A a \in 1..Len(log) : Credited[a] \in Nat
  BY <1>1, <1>2, HistoryTypes DEF Credited
<1>4. Credited = [a \in 1..Len(log) |-> Credited[a]]
  BY DEF Credited
<1>5. Len(log) \in Nat
  BY <1>1, HistoryTypes
<1>6. ASSUME NEW n \in Nat, NEW f, f = [a \in 1..n |-> f[a]], \A a \in 1..n : f[a] \in Nat
      PROVE  f \in Seq(Nat) /\ Len(f) = n
  BY <1>6
<1>7. QED
  BY <1>1, <1>3, <1>4, <1>5, <1>6

\* HandOverTrade makes exactly that trade.
LEMMA HandOverCredits ==
  ASSUME RouterSound, HandOverTrade
  PROVE  TradeDue /\ log' = log /\ executed' = Credited /\ midPrice' = midPrice
<1>1. Router!Match
  BY DEF HandOverTrade
<1>2. TradeDue /\ log' = log /\ midPrice' = midPrice
  BY <1>1, Zenon DEF Router!Match, TradeDue
<1>3. executed' = [a \in DOMAIN executed |->
                     IF a \in {Router!Maker.arrival, call.arrival}
                     THEN executed[a] + Router!NextTrade.volume ELSE executed[a]]
  BY <1>1, Zenon DEF Router!Match, Router!NextTrade
<1>4. DOMAIN executed = 1..Len(log)
  BY HistoryTypes DEF RouterSound
<1>5. QED
  BY <1>2, <1>3, <1>4, Zenon DEF Credited

\* An announced order is received with nothing executed.
LEMMA AnnouncedIsReceived ==
  ASSUME CommandFlow, AnnounceOrder
  PROVE  /\ command.body \in Router!OrderAdd
         /\ log' = Append(log, command.body) /\ executed' = Append(executed, 0)
<1>1. command.body \in Router!OrderAdd
  BY CommandKinds DEF CommandFlow, AnnounceOrder
<1>2. log' = Append(log, command.body) /\ executed' = Append(executed, 0)
  BY Zenon DEF AnnounceOrder, Router!OnOrderAdd, Router!DropOrderAdd, Router!Receive
<1>3. QED
  BY <1>1, <1>2

\* No other step changes the history of the orders.
LEMMA OthersLeaveHistory ==
  ASSUME [Next]_vars, ~AnnounceOrder, ~HandOverTrade
  PROVE  log' = log /\ executed' = executed
<1>1. CASE UNCHANGED routerVars
  BY <1>1 DEF routerVars
<1>2. CASE MatchingStep
  <2>1. CASE FinishOrder
    BY <2>1 DEF FinishOrder, Router!FinishOrderAdd
  <2>2. CASE CancelOrder
    BY <2>2, Zenon DEF CancelOrder, Router!OnOrderCancel, Router!RejectCancel, Router!vars
  <2>3. CASE MatchingPop \/ MatchingFindsEmpty \/ MatchingChecksFlag \/ AnnounceTrade
             \/ AnnounceCancel
    BY <1>1, <2>3 DEF MatchingPop, MatchingFindsEmpty, MatchingChecksFlag, AnnounceTrade,
                      AnnounceCancel
  <2>4. QED
    BY <1>2, <2>1, <2>2, <2>3, Zenon DEF MatchingStep
<1>3. CASE \/ ClientStep \/ GatewayStep \/ InventoryStep \/ MarketDataStep \/ SignalStep
           \/ MainStep \/ UNCHANGED vars
  BY <1>1, <1>3, Zenon DEF ClientStep, GatewayStep, GatewayFrame, InventoryStep, MarketDataStep,
                    SignalStep, MainStep, MainFrame, vars
<1>4. QED
  BY <1>2, <1>3, Zenon DEF Next, Exited

\* A received order has executed nothing, which is within what it asks for,
\* and a trade executes what its parties have left.
LEMMA ExecutionsInductive ==
  ASSUME CommandFlow, RouterSound, RouterSound', CallState, QueuesOK, Executions, [Next]_vars
  PROVE  Executions'
<1>0. /\ Router!TypeOK /\ (Router!TypeOK)'
      /\ tradeQueue \in Seq(Trade) /\ Len(tradeQueue) \in Nat
  BY DEF RouterSound, QueuesOK
<1>1. (\A a \in 1..Len(log) : executed[a] <= Asked(log[a]))'
  <2>1. CASE AnnounceOrder
    <3>1. /\ log' = Append(log, command.body) /\ executed' = Append(executed, 0)
          /\ command.body \in Router!OrderAdd
      BY <2>1, AnnouncedIsReceived, SMTT(20)
    <3>2. /\ Len(log') = Len(log) + 1 /\ log'[Len(log) + 1] = command.body
          /\ \A a \in 1..Len(log) : log'[a] = log[a]
      <4>1. log \in Seq(Router!OrderAdd)
        BY <1>0, HistoryTypes
      <4>2. QED
        BY <3>1, <4>1, QueueAppend
    <3>3. /\ executed'[Len(log) + 1] = 0
          /\ \A a \in 1..Len(log) : executed'[a] = executed[a]
      <4>1. executed \in Seq(Nat) /\ Len(executed) = Len(log) /\ 0 \in Nat
        BY <1>0, HistoryTypes
      <4>2. QED
        BY <3>1, <4>1, QueueAppend
    <3>4. Asked(log'[Len(log) + 1]) \in Nat
      BY <3>1, <3>2, AskedNat
    <3>5. ASSUME NEW a \in 1..Len(log')
          PROVE  executed'[a] <= Asked(log'[a])
      <4>1. a \in 1..Len(log) \/ a = Len(log) + 1
        BY <1>0, <3>2, HistoryTypes
      <4>2. CASE a \in 1..Len(log)
        BY <3>2, <3>3, <4>2 DEF Executions
      <4>3. CASE a = Len(log) + 1
        BY <3>3, <3>4, <4>3
      <4>4. QED
        BY <4>1, <4>2, <4>3
    <3>6. QED
      BY <3>5, Zenon DEF Asked
  <2>2. CASE HandOverTrade
    <3>1. TradeDue /\ log' = log /\ executed' = Credited
      BY <2>2, HandOverCredits
    <3>2. /\ Parties(Router!NextTrade, Router!Maker.arrival, call.arrival)
          /\ Router!NextTrade.volume \in Nat \ {0}
      BY <3>1, DueIsCredited, TradeFields
    <3>3. ASSUME NEW a \in 1..Len(log)
          PROVE  Credited[a] <= Asked(log[a])
      <4>1. executed[a] \in Nat /\ log[a].volume \in Int /\ executed[a] <= Asked(log[a])
        BY <1>0, HistoryTypes, SMTT(20) DEF Executions
      <4>2. CASE a \in {Router!Maker.arrival, call.arrival}
        <5>1. executed[a] + Router!NextTrade.volume <= log[a].volume
          BY <3>2, <4>2 DEF Parties
        <5>2. Credited[a] = executed[a] + Router!NextTrade.volume
          BY <4>2 DEF Credited
        <5>3. QED
          BY <3>2, <4>1, <5>1, <5>2 DEF Asked
      <4>3. CASE a \notin {Router!Maker.arrival, call.arrival}
        BY <4>1, <4>3 DEF Credited
      <4>4. QED
        BY <4>2, <4>3
    <3>4. QED
      BY <3>1, <3>3 DEF Asked
  <2>3. CASE ~AnnounceOrder /\ ~HandOverTrade
    BY <2>3, OthersLeaveHistory DEF Executions, Asked
  <2>4. QED
    BY <2>1, <2>2, <2>3
<1>2. ASSUME NEW t, HasTraded(t)
      PROVE  HasTraded(t)'
  <2>1. PICK a \in 1..Len(log) : log[a].ticker = t /\ executed[a] > 0
    BY <1>2 DEF HasTraded
  <2>2. CASE AnnounceOrder
    <3>1. /\ log' = Append(log, command.body) /\ executed' = Append(executed, 0)
          /\ log \in Seq(Router!OrderAdd) /\ executed \in Seq(Nat) /\ Len(executed) = Len(log)
          /\ command.body \in Router!OrderAdd
      BY <1>0, <2>2, AnnouncedIsReceived, HistoryTypes
    <3>2. a \in 1..Len(log') /\ log'[a] = log[a] /\ executed'[a] = executed[a]
      BY <3>1
    <3>3. QED
      BY <2>1, <3>2 DEF HasTraded
  <2>3. CASE HandOverTrade
    <3>1. TradeDue /\ log' = log /\ executed' = Credited
      BY <2>3, HandOverCredits
    <3>2. Router!NextTrade.volume \in Nat /\ executed[a] \in Nat
      BY <1>0, <3>1, DueIsCredited, TradeFields, HistoryTypes
    <3>3. Credited[a] > 0
      BY <2>1, <3>2 DEF Credited
    <3>4. QED
      BY <2>1, <3>1, <3>3 DEF HasTraded
  <2>4. CASE ~AnnounceOrder /\ ~HandOverTrade
    BY <1>2, <2>4, OthersLeaveHistory DEF HasTraded
  <2>5. QED
    BY <2>2, <2>3, <2>4
<1>3. (\A i \in 1..Len(tradeQueue) : HasTraded(tradeQueue[i].ticker))'
  <2>1. CASE HandOverTrade
    <3>1. /\ TradeDue /\ log' = log /\ executed' = Credited
          /\ tradeQueue' = Append(tradeQueue, Router!NextTrade)
      BY <2>1, HandOverCredits DEF HandOverTrade
    <3>2. /\ Router!NextTrade \in Trade /\ Router!NextTrade.volume \in Nat \ {0}
          /\ Parties(Router!NextTrade, Router!Maker.arrival, call.arrival)
      BY <3>1, DueIsCredited, TradeFields
    <3>3. PICK trade \in Trade : trade = Router!NextTrade
      BY <3>2
    <3>4. HasTraded(trade.ticker)'
      <4>1. PICK a \in 1..Len(log) : a = call.arrival /\ log[a].ticker = trade.ticker
        BY <3>2, <3>3 DEF Parties
      <4>2. executed[a] \in Nat
        BY <1>0, HistoryTypes
      <4>3. Credited[a] = executed[a] + Router!NextTrade.volume
        BY <4>1 DEF Credited
      <4>4. executed'[a] > 0
        BY <3>1, <3>2, <4>2, <4>3
      <4>5. QED
        BY <3>1, <4>1, <4>4 DEF HasTraded
    <3>5. /\ Len(tradeQueue') = Len(tradeQueue) + 1 /\ tradeQueue'[Len(tradeQueue) + 1] = trade
          /\ \A i \in 1..Len(tradeQueue) : tradeQueue'[i] = tradeQueue[i]
      BY <1>0, <3>1, <3>3, QueueAppend
    <3>6. ASSUME NEW i \in 1..Len(tradeQueue')
          PROVE  HasTraded(tradeQueue[i].ticker)'
      <4>1. i \in 1..Len(tradeQueue) \/ i = Len(tradeQueue) + 1
        BY <1>0, <3>5
      <4>2. CASE i \in 1..Len(tradeQueue)
        <5>1. PICK t : t = tradeQueue[i].ticker
          OBVIOUS
        <5>2. HasTraded(t)'
          BY <1>2, <4>2, <5>1 DEF Executions
        <5>3. QED
          BY <3>5, <4>2, <5>1, <5>2 DEF HasTraded
      <4>3. CASE i = Len(tradeQueue) + 1
        BY <3>4, <3>5, <4>3, SMTT(20) DEF HasTraded
      <4>4. QED
        BY <4>1, <4>2, <4>3
    <3>7. QED
      BY <3>6, Zenon
  <2>2. CASE SettleTrade
    <3>1. tradeQueue # <<>> /\ tradeQueue' = Tail(tradeQueue)
      BY <2>2 DEF SettleTrade
    <3>2. /\ Len(tradeQueue) \in Nat \ {0} /\ Len(tradeQueue') = Len(tradeQueue) - 1
          /\ \A i \in 1..Len(tradeQueue) - 1 : tradeQueue'[i] = tradeQueue[i + 1]
      BY <1>0, <3>1, QueueTail, Zenon
    <3>3. ASSUME NEW i \in 1..Len(tradeQueue')
          PROVE  HasTraded(tradeQueue'[i].ticker)
      <4>1. i + 1 \in 1..Len(tradeQueue) /\ tradeQueue'[i] = tradeQueue[i + 1]
        BY <3>2
      <4>2. QED
        BY <4>1, Zenon DEF Executions
    <3>4. QED
      BY <1>2, <3>3
  <2>3. CASE tradeQueue' = tradeQueue
    BY <1>2, <2>3 DEF Executions
  <2>4. QED
    <3>1. tradeQueue' = tradeQueue \/ HandOverTrade \/ SettleTrade
      BY Zenon DEF Next, Exited, ClientStep, GatewayStep, GatewayFrame, MatchingStep, MatchingPop,
             MatchingFindsEmpty, MatchingChecksFlag, AnnounceOrder, AnnounceTrade, FinishOrder,
             CancelOrder, AnnounceCancel, InventoryStep, MarkToMid, InventoryFindsEmpty,
             InventoryChecksFlag, MarketDataStep, SignalStep, MainStep, MainFrame, vars, queueVars
    <3>2. QED
      BY <2>1, <2>2, <2>3, <3>1
<1>4. (inventory = "mark" => HasTraded(settling[1].ticker))'
  <2>1. CASE SettleTrade
    <3>1. tradeQueue # <<>> /\ settling' = <<Head(tradeQueue)>>
      BY <2>1 DEF SettleTrade
    <3>2. 1 \in 1..Len(tradeQueue) /\ settling'[1] = tradeQueue[1]
      BY <1>0, <3>1
    <3>3. HasTraded(tradeQueue[1].ticker)
      BY <3>2 DEF Executions
    <3>4. QED
      BY <1>2, <3>2, <3>3
  <2>2. CASE inventory' = inventory /\ settling' = settling
    BY <1>2, <2>2 DEF Executions
  <2>3. CASE inventory' # "mark"
    BY <2>3
  <2>4. QED
    <3>1. \/ inventory' = inventory /\ settling' = settling
          \/ SettleTrade \/ inventory' # "mark"
      <4>1. CASE InventoryStep
        BY <4>1 DEF InventoryStep, MarkToMid, InventoryFindsEmpty, InventoryChecksFlag, AfterFlag
      <4>2. CASE ~InventoryStep
        BY <4>2 DEF Next, Exited, ClientStep, GatewayStep, GatewayFrame, MatchingStep,
                    MarketDataStep, SignalStep, MainStep, MainFrame, vars, inventoryVars
      <4>3. QED
        BY <4>1, <4>2
    <3>2. QED
      BY <2>1, <2>2, <2>3, <3>1
<1>5. QED
  BY <1>1, <1>3, <1>4, Zenon DEF Executions

\* The trade being valued has been executed, so its instrument has a mid price.
LEMMA ExecutionsSuffice ==
  RouterSound /\ QueuesOK /\ Executions => MidKnownAtSettlement
<1> SUFFICES ASSUME RouterSound, QueuesOK, Executions, inventory = "mark"
             PROVE  midPrice[settling[1].ticker] # None
  BY DEF MidKnownAtSettlement
<1>1. PICK a \in 1..Len(log) : log[a].ticker = settling[1].ticker /\ executed[a] > 0
  BY DEF Executions, HasTraded
<1>2. a \in DOMAIN log
  BY <1>1, HistoryTypes DEF RouterSound
<1>3. QED
  BY <1>1, <1>2, Zenon DEF RouterSound, Router!MidKnownOnceTraded

-----------------------------------------------------------------------------
(* The sequences whose sums the properties compare.                         *)

\* What each order contributes to a user's net volume in an instrument, with
\* the volumes ex executed.
Nets(ex, u, t) ==
  [a \in DOMAIN log |-> IF log[a].userId = u /\ log[a].ticker = t
                        THEN Registry!Signed(log[a].side, ex[a]) ELSE 0]

\* What each order has left under an id, with the volumes ex executed.
Lefts(ex, id, t, side) ==
  [a \in DOMAIN log |-> IF <<log[a].orderId, log[a].ticker, log[a].side>> = <<id, t, side>>
                        THEN Asked(log[a]) - ex[a] ELSE 0]

\* What each event contributes to the volumes announced.
Announced(events, u, t) ==
  [k \in DOMAIN events |-> IF events[k].kind = "trade" THEN NetOf(events[k].body, u, t) ELSE 0]
Untraded(events, id, t, side) == [k \in DOMAIN events |-> UntradedIn(events[k], id, t, side)]

\* What each trade in the queue contributes.
Queued(u, t) == [i \in DOMAIN tradeQueue |-> NetOf(tradeQueue[i], u, t)]

\* r is s but for two elements, which grow by dm and dc.
TwoChanges(s, r, m, dm, c, dc) ==
  /\ s \in Seq(Int) /\ r \in Seq(Int) /\ Len(r) = Len(s)
  /\ m \in 1..Len(s) /\ c \in 1..Len(s) /\ m # c /\ dm \in Int /\ dc \in Int
  /\ r[m] = s[m] + dm /\ r[c] = s[c] + dc
  /\ \A a \in 1..Len(s) : a # m /\ a # c => r[a] = s[a]

\* r is s with one more element.
OneMore(s, r, x) ==
  /\ s \in Seq(Int) /\ r \in Seq(Int) /\ Len(r) = Len(s) + 1 /\ r[Len(r)] = x
  /\ \A a \in 1..Len(s) : r[a] = s[a]

\* A function of the first n positions is a sequence.
LEMMA IntegerSequence ==
  ASSUME NEW n \in Nat, NEW f, f = [a \in 1..n |-> f[a]], \A a \in 1..n : f[a] \in Int
  PROVE  f \in Seq(Int) /\ Len(f) = n
OBVIOUS

\* Signed volumes add up.
LEMMA SignedSum ==
  ASSUME NEW side, NEW x \in Int, NEW y \in Int
  PROVE  /\ Registry!Signed(side, x) \in Int
         /\ Registry!Signed(side, x + y) = Registry!Signed(side, x) + Registry!Signed(side, y)
BY DEF Registry!Signed

\* What a trade adds is an integer.
LEMMA NetOfInt ==
  ASSUME NEW trade \in Trade, NEW u, NEW t
  PROVE  NetOf(trade, u, t) \in Int
<1>1. trade.volume \in Int
  BY TradeFields, Zenon
<1>2. PICK d \in Int, e \in Int : /\ d = Registry!Signed(trade.takerSide, trade.volume)
                                 /\ e = Registry!Signed(Registry!MakerSide(trade), trade.volume)
  BY <1>1, SignedSum, Zenon
<1>3. QED
  BY <1>2, SMTT(20) DEF NetOf

\* What an event announces or takes is an integer.
LEMMA UntradedInt ==
  ASSUME NEW e \in MarketEvent, NEW id, NEW t, NEW side
  PROVE  UntradedIn(e, id, t, side) \in Int
<1>1. e.kind = "add" => e.body.volume \in Int
  BY EventKinds, AskedNat
<1>2. e.kind = "trade" => e.body.volume \in Int
  BY EventKinds, TradeFields
<1>3. QED
  BY <1>1, <1>2 DEF UntradedIn

\* The elements of the sequences over the orders.
AreNets(s, ex, u, t) ==
  /\ s \in Seq(Int) /\ Len(s) = Len(log)
  /\ \A a \in 1..Len(log) :
       /\ log[a].userId = u /\ log[a].ticker = t => s[a] = Registry!Signed(log[a].side, ex[a])
       /\ ~(log[a].userId = u /\ log[a].ticker = t) => s[a] = 0

Under(a, id, t, side) == log[a].orderId = id /\ log[a].ticker = t /\ log[a].side = side

AreLefts(s, ex, id, t, side) ==
  /\ s \in Seq(Int) /\ Len(s) = Len(log)
  /\ \A a \in 1..Len(log) : /\ Under(a, id, t, side) => s[a] = Asked(log[a]) - ex[a]
                            /\ ~Under(a, id, t, side) => s[a] = 0

\* Nets is a sequence of integers with these elements.
LEMMA NetsElements ==
  ASSUME Router!TypeOK, NEW ex \in Seq(Nat), Len(ex) = Len(log), NEW u, NEW t
  PROVE  AreNets(Nets(ex, u, t), ex, u, t)
<1>0. /\ Len(log) \in Nat /\ DOMAIN log = 1..Len(log)
      /\ \A a \in 1..Len(log) : ex[a] \in Nat
  BY HistoryTypes
<1>1. ASSUME NEW a \in 1..Len(log)
      PROVE  /\ log[a].userId = u /\ log[a].ticker = t =>
                  Nets(ex, u, t)[a] = Registry!Signed(log[a].side, ex[a])
             /\ ~(log[a].userId = u /\ log[a].ticker = t) => Nets(ex, u, t)[a] = 0
  BY <1>0 DEF Nets
<1>2. ASSUME NEW a \in 1..Len(log)
      PROVE  Nets(ex, u, t)[a] \in Int
  <2>1. Registry!Signed(log[a].side, ex[a]) \in Int
    BY <1>0, SignedSum
  <2>2. QED
    BY <1>1, <2>1
<1>3. Nets(ex, u, t) = [a \in 1..Len(log) |-> Nets(ex, u, t)[a]]
  BY <1>0 DEF Nets
<1>4. Nets(ex, u, t) \in Seq(Int) /\ Len(Nets(ex, u, t)) = Len(log)
  BY <1>0, <1>2, <1>3, IntegerSequence
<1>5. QED
  BY <1>1, <1>4, Zenon DEF AreNets

\* Lefts is a sequence of integers with these elements.
LEMMA LeftsElements ==
  ASSUME Router!TypeOK, NEW ex \in Seq(Nat), Len(ex) = Len(log), NEW id, NEW t, NEW side
  PROVE  AreLefts(Lefts(ex, id, t, side), ex, id, t, side)
<1>0. /\ Len(log) \in Nat /\ DOMAIN log = 1..Len(log)
      /\ \A a \in 1..Len(log) : Asked(log[a]) \in Nat /\ ex[a] \in Nat
  BY HistoryTypes
<1>1. ASSUME NEW a \in 1..Len(log)
      PROVE  /\ Under(a, id, t, side) => Lefts(ex, id, t, side)[a] = Asked(log[a]) - ex[a]
             /\ ~Under(a, id, t, side) => Lefts(ex, id, t, side)[a] = 0
  BY <1>0 DEF Lefts, Under
<1>2. ASSUME NEW a \in 1..Len(log)
      PROVE  Lefts(ex, id, t, side)[a] \in Int
  BY <1>0, <1>1
<1>3. Lefts(ex, id, t, side) = [a \in 1..Len(log) |-> Lefts(ex, id, t, side)[a]]
  BY <1>0 DEF Lefts
<1>4. Lefts(ex, id, t, side) \in Seq(Int) /\ Len(Lefts(ex, id, t, side)) = Len(log)
  BY <1>0, <1>2, <1>3, IntegerSequence
<1>5. QED
  BY <1>1, <1>4, Zenon DEF AreLefts

\* The trade that is due changes its two parties' contributions.
LEMMA DueNets ==
  ASSUME RouterSound, TradeDue, NEW u, NEW t
  PROVE  \E m, dm, c, dc : /\ TwoChanges(Nets(executed, u, t), Nets(Credited, u, t), m, dm, c, dc)
                           /\ NetOf(Router!NextTrade, u, t) = dm + dc
<1>1. PICK trade \in Trade : trade = Router!NextTrade
  BY DueIsCredited
<1>2. PICK m, c : /\ m = Router!Maker.arrival /\ c = call.arrival
                  /\ Parties(trade, m, c)
  BY <1>1, DueIsCredited
<1>3. /\ Router!TypeOK /\ executed \in Seq(Nat) /\ Len(executed) = Len(log)
      /\ Credited \in Seq(Nat) /\ Len(Credited) = Len(log) /\ Len(log) \in Nat
  BY DueIsCredited, HistoryTypes DEF RouterSound
<1>4. PICK v \in Nat : v = trade.volume
  BY TradeFields, Zenon
<1>5. /\ m \in 1..Len(log) /\ c \in 1..Len(log) /\ m # c
      /\ Credited[m] = executed[m] + v /\ Credited[c] = executed[c] + v
      /\ \A a \in 1..Len(log) : a # m /\ a # c => Credited[a] = executed[a]
  BY <1>1, <1>2, <1>4, Zenon DEF Credited, Parties
<1>6. PICK s, r : s = Nets(executed, u, t) /\ r = Nets(Credited, u, t)
  OBVIOUS
<1>7. AreNets(s, executed, u, t)
  BY <1>3, <1>6, NetsElements
<1>8. AreNets(r, Credited, u, t)
  BY <1>3, <1>6, NetsElements
<1>9. ASSUME NEW a \in 1..Len(log), Credited[a] = executed[a] + v
      PROVE  \E d \in Int :
               /\ r[a] = s[a] + d
               /\ log[a].userId = u /\ log[a].ticker = t =>
                    d = Registry!Signed(log[a].side, v)
               /\ ~(log[a].userId = u /\ log[a].ticker = t) => d = 0
  <2>1. CASE log[a].userId = u /\ log[a].ticker = t
    <3>1. /\ Registry!Signed(log[a].side, v) \in Int
          /\ Registry!Signed(log[a].side, executed[a] + v) =
               Registry!Signed(log[a].side, executed[a]) + Registry!Signed(log[a].side, v)
      <4>1. executed[a] \in Int /\ v \in Int
        BY <1>3, <1>9
      <4>2. QED
        BY <4>1, SignedSum, Zenon
    <3>2. r[a] = s[a] + Registry!Signed(log[a].side, v)
      BY <1>7, <1>8, <1>9, <2>1, <3>1, Zenon DEF AreNets
    <3>3. QED
      BY <2>1, <3>1, <3>2, Zenon
  <2>2. CASE ~(log[a].userId = u /\ log[a].ticker = t)
    <3>1. s[a] = 0 /\ r[a] = 0
      BY <1>7, <1>8, <2>2, Zenon DEF AreNets
    <3>2. 0 \in Int /\ 0 = 0 + 0
      OBVIOUS
    <3>3. QED
      BY <2>2, <3>1, <3>2, Zenon
  <2>3. QED
    BY <2>1, <2>2
<1>10. PICK dm \in Int : /\ r[m] = s[m] + dm
                         /\ log[m].userId = u /\ log[m].ticker = t =>
                              dm = Registry!Signed(log[m].side, v)
                         /\ ~(log[m].userId = u /\ log[m].ticker = t) => dm = 0
  BY <1>5, <1>9, Zenon
<1>11. PICK dc \in Int : /\ r[c] = s[c] + dc
                         /\ log[c].userId = u /\ log[c].ticker = t =>
                              dc = Registry!Signed(log[c].side, v)
                         /\ ~(log[c].userId = u /\ log[c].ticker = t) => dc = 0
  BY <1>5, <1>9, Zenon
<1>12. ASSUME NEW a \in 1..Len(log), a # m, a # c
       PROVE  r[a] = s[a]
  <2>1. Credited[a] = executed[a]
    BY <1>5, <1>12, Zenon
  <2>2. QED
    BY <1>7, <1>8, <2>1, Zenon DEF AreNets
<1>13. TwoChanges(s, r, m, dm, c, dc)
  BY <1>5, <1>7, <1>8, <1>10, <1>11, <1>12, Zenon DEF TwoChanges, AreNets
<1>14. NetOf(trade, u, t) = dm + dc
  <2>1. /\ log[m].userId = trade.maker /\ log[m].ticker = trade.ticker
        /\ log[m].side = Registry!MakerSide(trade)
        /\ log[c].userId = trade.taker /\ log[c].ticker = trade.ticker
        /\ log[c].side = trade.takerSide
    BY <1>2, Zenon DEF Parties, Router!Opposite, Registry!MakerSide
  <2>2. dm = IF trade.ticker = t /\ trade.maker = u
             THEN Registry!Signed(Registry!MakerSide(trade), trade.volume) ELSE 0
    BY <1>4, <1>10, <2>1, Zenon
  <2>3. dc = IF trade.ticker = t /\ trade.taker = u
             THEN Registry!Signed(trade.takerSide, trade.volume) ELSE 0
    BY <1>4, <1>11, <2>1, Zenon
  <2>4. NetOf(trade, u, t) = dc + dm
    BY <2>2, <2>3, Zenon DEF NetOf
  <2>5. QED
    BY <2>4
<1>15. QED
  BY <1>1, <1>6, <1>13, <1>14, Zenon

\* The trade that is due takes its volume from what its parties have left,
\* and leaves no order with less than nothing.
LEMMA DueLefts ==
  ASSUME RouterSound, TradeDue, Executions, NEW id, NEW t, NEW side \in Router!Sides
  PROVE  /\ \E m, dm, c, dc :
              /\ TwoChanges(Lefts(executed, id, t, side), Lefts(Credited, id, t, side), m, dm, c, dc)
              /\ UntradedIn(Event("trade", Router!NextTrade), id, t, side) = dm + dc
         /\ \A a \in 1..Len(log) : Lefts(Credited, id, t, side)[a] >= 0
<1>1. PICK trade \in Trade : trade = Router!NextTrade
  BY DueIsCredited
<1>2. PICK m, c : /\ m = Router!Maker.arrival /\ c = call.arrival
                  /\ Parties(trade, m, c)
  BY <1>1, DueIsCredited
<1>3. /\ Router!TypeOK /\ executed \in Seq(Nat) /\ Len(executed) = Len(log)
      /\ Credited \in Seq(Nat) /\ Len(Credited) = Len(log) /\ Len(log) \in Nat
  BY DueIsCredited, HistoryTypes DEF RouterSound
<1>4. PICK v \in Nat : v = trade.volume
  BY TradeFields
<1>5. /\ m \in 1..Len(log) /\ c \in 1..Len(log) /\ m # c
      /\ Credited[m] = executed[m] + v /\ Credited[c] = executed[c] + v
      /\ \A a \in 1..Len(log) : a # m /\ a # c => Credited[a] = executed[a]
  BY <1>1, <1>2, <1>4 DEF Credited, Parties
<1> DEFINE Mine(a) == Under(a, id, t, side)
<1>6. PICK s, r : s = Lefts(executed, id, t, side) /\ r = Lefts(Credited, id, t, side)
  OBVIOUS
<1>7. AreLefts(s, executed, id, t, side)
  BY <1>3, <1>6, LeftsElements
<1>8. AreLefts(r, Credited, id, t, side)
  BY <1>3, <1>6, LeftsElements
<1>9. \A a \in 1..Len(log) : Asked(log[a]) \in Nat /\ executed[a] \in Nat /\ Credited[a] \in Nat
  BY <1>3, HistoryTypes
<1> HIDE DEF Mine
<1>10. ASSUME NEW a \in 1..Len(log), Credited[a] = executed[a] + v
       PROVE  \E d \in Int : /\ r[a] = s[a] + d
                             /\ Mine(a) => d = -v
                             /\ ~Mine(a) => d = 0
  <2>1. CASE Mine(a)
    <3>1. r[a] = Asked(log[a]) - Credited[a] /\ s[a] = Asked(log[a]) - executed[a]
      BY <1>7, <1>8, <2>1, Zenon DEF AreLefts, Mine
    <3>2. Asked(log[a]) \in Int /\ executed[a] \in Int /\ v \in Int
      BY <1>9
    <3>3. r[a] = s[a] + (-v) /\ -v \in Int
      BY <1>10, <3>1, <3>2
    <3>4. QED
      BY <2>1, <3>3, Zenon
  <2>2. CASE ~Mine(a)
    <3>1. r[a] = 0 /\ s[a] = 0
      BY <1>7, <1>8, <2>2, Zenon DEF AreLefts, Mine
    <3>2. r[a] = s[a] + 0 /\ 0 \in Int
      BY <3>1
    <3>3. QED
      BY <2>2, <3>2, Zenon
  <2>3. QED
    BY <2>1, <2>2
<1>11. PICK dm \in Int : r[m] = s[m] + dm /\ (Mine(m) => dm = -v) /\ (~Mine(m) => dm = 0)
  BY <1>5, <1>10, Zenon
<1>12. PICK dc \in Int : r[c] = s[c] + dc /\ (Mine(c) => dc = -v) /\ (~Mine(c) => dc = 0)
  BY <1>5, <1>10, Zenon
<1>13. ASSUME NEW a \in 1..Len(log), a # m, a # c
       PROVE  r[a] = s[a]
  <2>1. Credited[a] = executed[a]
    BY <1>5, <1>13, Zenon
  <2>2. QED
    BY <1>7, <1>8, <2>1, Zenon DEF AreLefts
<1>14. TwoChanges(s, r, m, dm, c, dc)
  BY <1>5, <1>7, <1>8, <1>11, <1>12, <1>13, Zenon DEF TwoChanges, AreLefts
<1>15. UntradedIn(Event("trade", trade), id, t, side) = dm + dc
  <2>1. PICK e \in MarketEvent : e = Event("trade", trade) /\ e.kind = "trade" /\ e.body = trade
    BY EventKinds, ZenonT(30) DEF Event
  <2>2. trade.takerSide \in {"Buy", "Sell"} /\ side \in {"Buy", "Sell"}
    BY TradeFields DEF Router!Sides
  <2>3. /\ log[m].orderId = trade.makerOrderId /\ log[m].ticker = trade.ticker
        /\ log[m].side = Router!Opposite(trade.takerSide)
        /\ log[c].orderId = trade.takerOrderId /\ log[c].ticker = trade.ticker
        /\ log[c].side = trade.takerSide
    BY <1>2, Zenon DEF Parties
  <2>4. CASE trade.takerSide = side
    <3>1. ~Mine(m) /\ (Mine(c) <=> trade.takerOrderId = id /\ trade.ticker = t)
      BY <2>2, <2>3, <2>4 DEF Mine, Under, Router!Opposite
    <3>2. UntradedIn(e, id, t, side) =
            IF trade.takerOrderId = id /\ trade.ticker = t THEN -v ELSE 0
      BY <1>4, <2>1, <2>4 DEF UntradedIn
    <3>3. QED
      BY <1>4, <1>11, <1>12, <2>1, <3>1, <3>2, SMTT(20)
  <2>5. CASE trade.takerSide # side
    <3>1. ~Mine(c) /\ (Mine(m) <=> trade.makerOrderId = id /\ trade.ticker = t)
      BY <2>2, <2>3, <2>5 DEF Mine, Under, Router!Opposite
    <3>2. UntradedIn(e, id, t, side) =
            IF trade.makerOrderId = id /\ trade.ticker = t THEN -v ELSE 0
      BY <1>4, <2>1, <2>5 DEF UntradedIn
    <3>3. QED
      BY <1>4, <1>11, <1>12, <2>1, <3>1, <3>2
  <2>6. QED
    BY <2>4, <2>5
<1>16. ASSUME NEW a \in 1..Len(log)
       PROVE  r[a] >= 0
  <2>1. Credited[a] <= Asked(log[a])
    <3>1. CASE a \in {m, c}
      <4>1. Credited[a] <= log[a].volume /\ log[a].volume \in Int
        BY <1>2, <1>3, <1>4, <1>5, <3>1, HistoryTypes, Zenon DEF Parties
      <4>2. QED
        BY <1>9, <4>1 DEF Asked
    <3>2. CASE a \notin {m, c}
      BY <1>5, <3>2 DEF Executions
    <3>3. QED
      BY <3>1, <3>2
  <2>2. Asked(log[a]) - Credited[a] >= 0
    BY <1>9, <2>1
  <2>3. r[a] = 0 \/ r[a] = Asked(log[a]) - Credited[a]
    BY <1>8, Zenon DEF AreLefts
  <2>4. QED
    BY <2>2, <2>3
<1>17. QED
  BY <1>1, <1>6, <1>14, <1>15, <1>16, Zenon

\* A received order contributes nothing to what was executed, and what it asks
\* for to what is left: exactly what its event announces.
LEMMA ReceivedNets ==
  ASSUME CommandFlow, RouterSound, RouterSound', AnnounceOrder, NEW u, NEW t
  PROVE  OneMore(Nets(executed, u, t), Nets(executed, u, t)', 0)
<1>1. PICK o \in Router!OrderAdd : /\ o = command.body
                                   /\ log' = Append(log, o) /\ executed' = Append(executed, 0)
  BY AnnouncedIsReceived
<1>2. /\ Router!TypeOK /\ (Router!TypeOK)' /\ log \in Seq(Router!OrderAdd)
      /\ executed \in Seq(Nat) /\ Len(executed) = Len(log) /\ Len(log) \in Nat
  BY HistoryTypes DEF RouterSound
<1>3. /\ Len(log') = Len(log) + 1 /\ log'[Len(log) + 1] = o /\ executed'[Len(log) + 1] = 0
      /\ executed' \in Seq(Nat) /\ Len(executed') = Len(log')
      /\ \A a \in 1..Len(log) : log'[a] = log[a] /\ executed'[a] = executed[a]
  BY <1>1, <1>2, QueueAppend
<1>4. PICK s, r : s = Nets(executed, u, t) /\ r = Nets(executed, u, t)'
  OBVIOUS
<1>5. AreNets(s, executed, u, t)
  BY <1>2, <1>4, NetsElements, SMTT(20)
<1>6. /\ r = [a \in DOMAIN log' |-> IF log'[a].userId = u /\ log'[a].ticker = t
                                    THEN Registry!Signed(log'[a].side, executed'[a]) ELSE 0]
      /\ DOMAIN log' = 1..Len(log) + 1
  BY <1>1, <1>2, <1>4, QueueAppend DEF Nets
<1>7. ASSUME NEW a \in 1..Len(log)
      PROVE  r[a] = s[a] /\ r[a] \in Int
  <2>1. r[a] = IF log[a].userId = u /\ log[a].ticker = t
               THEN Registry!Signed(log[a].side, executed[a]) ELSE 0
    BY <1>2, <1>3, <1>6
  <2>2. r[a] = s[a]
    BY <1>5, <2>1, Zenon DEF AreNets
  <2>3. QED
    BY <1>5, <2>2 DEF AreNets
<1>8. r[Len(log) + 1] = 0
  <2>1. Registry!Signed(log'[Len(log) + 1].side, 0) = 0
    <3>1. PICK d \in Int : d = Registry!Signed(log'[Len(log) + 1].side, 0)
      BY SignedSum
    <3>2. Registry!Signed(log'[Len(log) + 1].side, 0 + 0) = d + d
      BY <3>1, SignedSum
    <3>3. 0 + 0 = 0
      OBVIOUS
    <3>4. d = d + d
      BY <3>1, <3>2, <3>3, Zenon
    <3>5. QED
      BY <3>1, <3>4
  <2>2. Len(log) + 1 \in DOMAIN log'
    BY <1>2, <1>6
  <2>3. r[Len(log) + 1] =
          IF log'[Len(log) + 1].userId = u /\ log'[Len(log) + 1].ticker = t
          THEN Registry!Signed(log'[Len(log) + 1].side, 0) ELSE 0
    BY <1>3, <1>6, <2>2, Zenon
  <2>4. QED
    BY <2>1, <2>3, Zenon
<1>9. \A a \in 1..Len(log) + 1 : r[a] \in Int
  BY <1>2, <1>7, <1>8
<1>10. r = [a \in 1..Len(log) + 1 |-> r[a]]
  BY <1>6
<1>11. r \in Seq(Int) /\ Len(r) = Len(log) + 1
  <2>1. Len(log) + 1 \in Nat
    BY <1>2
  <2>2. QED
    BY <1>9, <1>10, <2>1, IntegerSequence
<1>12. s \in Seq(Int) /\ Len(s) = Len(log)
  BY <1>5, Zenon DEF AreNets
<1>13. QED
  BY <1>4, <1>7, <1>8, <1>11, <1>12, Zenon DEF OneMore

\* An order received adds what it asks for to what orders have left.
LEMMA ReceivedLefts ==
  ASSUME CommandFlow, RouterSound, RouterSound', AnnounceOrder, NEW id, NEW t, NEW side
  PROVE  OneMore(Lefts(executed, id, t, side), Lefts(executed, id, t, side)',
                 UntradedIn(Event("add", command.body), id, t, side))
<1>1. PICK o \in Router!OrderAdd : /\ o = command.body
                                   /\ log' = Append(log, o) /\ executed' = Append(executed, 0)
  BY AnnouncedIsReceived
<1>2. /\ Router!TypeOK /\ (Router!TypeOK)' /\ log \in Seq(Router!OrderAdd)
      /\ executed \in Seq(Nat) /\ Len(executed) = Len(log) /\ Len(log) \in Nat
  BY HistoryTypes DEF RouterSound
<1>3. /\ Len(log') = Len(log) + 1 /\ log'[Len(log) + 1] = o /\ executed'[Len(log) + 1] = 0
      /\ executed' \in Seq(Nat) /\ Len(executed') = Len(log')
      /\ \A a \in 1..Len(log) : log'[a] = log[a] /\ executed'[a] = executed[a]
  BY <1>1, <1>2, QueueAppend
<1>4. PICK s, r : s = Lefts(executed, id, t, side) /\ r = Lefts(executed, id, t, side)'
  OBVIOUS
<1>5. AreLefts(s, executed, id, t, side)
  BY <1>2, <1>4, LeftsElements
<1>6. /\ r = [a \in DOMAIN log' |->
                IF <<log'[a].orderId, log'[a].ticker, log'[a].side>> = <<id, t, side>>
                THEN Asked(log'[a]) - executed'[a] ELSE 0]
      /\ DOMAIN log' = 1..Len(log) + 1
  BY <1>1, <1>2, <1>4, QueueAppend DEF Lefts, Asked
<1>7. ASSUME NEW a \in 1..Len(log)
      PROVE  r[a] = s[a] /\ r[a] \in Int
  <2>1. r[a] = IF Under(a, id, t, side) THEN Asked(log[a]) - executed[a] ELSE 0
    BY <1>2, <1>3, <1>6, SMTT(20) DEF Under
  <2>2. r[a] = s[a]
    BY <1>5, <2>1, Zenon DEF AreLefts
  <2>3. QED
    BY <1>5, <2>2 DEF AreLefts
<1>8. r[Len(log) + 1] = UntradedIn(Event("add", o), id, t, side) /\ r[Len(log) + 1] \in Int
  <2>1. o.volume \in Int /\ Asked(o) \in Nat
    BY AskedNat
  <2>2. Len(log) + 1 \in DOMAIN log'
    BY <1>2, <1>6
  <2>3. r[Len(log) + 1] = IF <<o.orderId, o.ticker, o.side>> = <<id, t, side>>
                          THEN Asked(o) - 0 ELSE 0
    BY <1>3, <1>6, <2>2
  <2>4. PICK e \in MarketEvent : e = Event("add", o) /\ e.kind = "add" /\ e.body = o
    BY EventKinds, Zenon DEF Event
  <2>5. UntradedIn(e, id, t, side) =
          IF o.volume > 0 /\ <<o.orderId, o.ticker, o.side>> = <<id, t, side>>
          THEN o.volume ELSE 0
    BY <2>4 DEF UntradedIn
  <2>6. QED
    BY <2>1, <2>3, <2>4, <2>5 DEF Asked
<1>9. \A a \in 1..Len(log) + 1 : r[a] \in Int
  BY <1>2, <1>7, <1>8
<1>10. r = [a \in 1..Len(log) + 1 |-> r[a]]
  BY <1>6
<1>11. r \in Seq(Int) /\ Len(r) = Len(log) + 1
  <2>1. Len(log) + 1 \in Nat
    BY <1>2
  <2>2. QED
    BY <1>9, <1>10, <2>1, IntegerSequence
<1>12. s \in Seq(Int) /\ Len(s) = Len(log)
  BY <1>5, Zenon DEF AreLefts
<1>13. QED
  BY <1>1, <1>4, <1>7, <1>8, <1>11, <1>12, Zenon DEF OneMore

\* The same, for the sequences over a sequence of events.
LEMMA EventNets ==
  ASSUME NEW events \in Seq(MarketEvent), NEW e \in MarketEvent, NEW u, NEW t
  PROVE  OneMore(Announced(events, u, t), Announced(Append(events, e), u, t),
                 IF e.kind = "trade" THEN NetOf(e.body, u, t) ELSE 0)
<1>1. ASSUME NEW x \in MarketEvent
      PROVE  (IF x.kind = "trade" THEN NetOf(x.body, u, t) ELSE 0) \in Int
  BY EventKinds, NetOfInt
<1>2. PICK s, r, more : /\ s = Announced(events, u, t) /\ r = Announced(more, u, t)
                        /\ more = Append(events, e)
  BY Zenon
<1>3. /\ more \in Seq(MarketEvent) /\ Len(more) = Len(events) + 1 /\ more[Len(events) + 1] = e
      /\ \A k \in 1..Len(events) : more[k] = events[k]
      /\ Len(events) \in Nat /\ DOMAIN events = 1..Len(events) /\ DOMAIN more = 1..Len(more)
  BY <1>2, QueueAppend
<1>4. /\ s = [k \in 1..Len(events) |-> s[k]] /\ r = [k \in 1..Len(more) |-> r[k]]
      /\ \A k \in 1..Len(events) :
           s[k] = IF events[k].kind = "trade" THEN NetOf(events[k].body, u, t) ELSE 0
      /\ \A k \in 1..Len(more) :
           r[k] = IF more[k].kind = "trade" THEN NetOf(more[k].body, u, t) ELSE 0
  BY <1>2, <1>3, Zenon DEF Announced
<1>5. /\ \A k \in 1..Len(events) : events[k] \in MarketEvent
      /\ \A k \in 1..Len(more) : more[k] \in MarketEvent
  BY <1>3
<1>6. s \in Seq(Int) /\ Len(s) = Len(events)
  <2>1. \A k \in 1..Len(events) : s[k] \in Int
    BY <1>1, <1>4, <1>5, Zenon
  <2>2. QED
    BY <1>3, <1>4, <2>1, IntegerSequence
<1>7. r \in Seq(Int) /\ Len(r) = Len(more)
  <2>1. \A k \in 1..Len(more) : r[k] \in Int
    BY <1>1, <1>4, <1>5, Zenon
  <2>2. Len(more) \in Nat
    BY <1>3
  <2>3. QED
    BY <1>4, <2>1, <2>2, IntegerSequence
<1>8. /\ Len(more) \in 1..Len(more) /\ more[Len(more)] = e
      /\ \A k \in 1..Len(events) : k \in 1..Len(more)
  BY <1>3
<1>9. /\ r[Len(r)] = IF e.kind = "trade" THEN NetOf(e.body, u, t) ELSE 0
      /\ \A k \in 1..Len(events) : r[k] = s[k]
  BY <1>3, <1>4, <1>7, <1>8, ZenonT(30)
<1>10. QED
  BY <1>2, <1>3, <1>6, <1>7, <1>9, Zenon DEF OneMore

\* An event more adds what it announces or takes.
LEMMA EventUntraded ==
  ASSUME NEW events \in Seq(MarketEvent), NEW e \in MarketEvent, NEW id, NEW t, NEW side
  PROVE  OneMore(Untraded(events, id, t, side), Untraded(Append(events, e), id, t, side),
                 UntradedIn(e, id, t, side))
<1>1. PICK s, r, more : /\ s = Untraded(events, id, t, side)
                        /\ r = Untraded(more, id, t, side)
                        /\ more = Append(events, e)
  BY Zenon
<1>2. /\ more \in Seq(MarketEvent) /\ Len(more) = Len(events) + 1 /\ more[Len(events) + 1] = e
      /\ \A k \in 1..Len(events) : more[k] = events[k]
      /\ Len(events) \in Nat /\ DOMAIN events = 1..Len(events) /\ DOMAIN more = 1..Len(more)
  BY <1>1, QueueAppend
<1>3. /\ s = [k \in 1..Len(events) |-> s[k]] /\ r = [k \in 1..Len(more) |-> r[k]]
      /\ \A k \in 1..Len(events) : s[k] = UntradedIn(events[k], id, t, side)
      /\ \A k \in 1..Len(more) : r[k] = UntradedIn(more[k], id, t, side)
  BY <1>1, <1>2, Zenon DEF Untraded
<1>4. /\ \A k \in 1..Len(events) : events[k] \in MarketEvent
      /\ \A k \in 1..Len(more) : more[k] \in MarketEvent
  BY <1>2
<1>5. s \in Seq(Int) /\ Len(s) = Len(events)
  <2>1. ASSUME NEW k \in 1..Len(events)
        PROVE  s[k] \in Int
    <3>1. s[k] = UntradedIn(events[k], id, t, side) /\ events[k] \in MarketEvent
      BY <1>3, <1>4, Zenon
    <3>2. QED
      BY <3>1, UntradedInt
  <2>2. QED
    BY <1>2, <1>3, <2>1, IntegerSequence
<1>6. r \in Seq(Int) /\ Len(r) = Len(more)
  <2>1. ASSUME NEW k \in 1..Len(more)
        PROVE  r[k] \in Int
    <3>1. r[k] = UntradedIn(more[k], id, t, side) /\ more[k] \in MarketEvent
      BY <1>3, <1>4, Zenon
    <3>2. QED
      BY <3>1, UntradedInt
  <2>2. Len(more) \in Nat
    BY <1>2
  <2>3. QED
    BY <1>3, <2>1, <2>2, IntegerSequence
<1>7. /\ Len(more) \in 1..Len(more) /\ more[Len(more)] = e
      /\ \A k \in 1..Len(events) : k \in 1..Len(more)
  BY <1>2
<1>8. /\ r[Len(r)] = UntradedIn(e, id, t, side)
      /\ \A k \in 1..Len(events) : r[k] = s[k]
  BY <1>2, <1>3, <1>6, <1>7, Zenon
<1>9. QED
  BY <1>1, <1>2, <1>5, <1>6, <1>8, Zenon DEF OneMore

-----------------------------------------------------------------------------
(* The stream of events and the queue of trades.                            *)

\* An event that is pushed comes last.
LEMMA StreamGrows ==
  ASSUME QueuesOK, NEW e \in MarketEvent, marketDataQueue' = Append(marketDataQueue, e),
         published' = published
  PROVE  EventStream' = Append(EventStream, e)
<1>1. PICK p, q, n, m : /\ p = published /\ q = marketDataQueue /\ n = Len(p) /\ m = Len(q)
                        /\ p \in Seq(MarketEvent) /\ q \in Seq(MarketEvent)
                        /\ n \in Nat /\ m \in Nat
  <2>1. published \in Seq(MarketEvent) /\ marketDataQueue \in Seq(MarketEvent)
    BY DEF QueuesOK
  <2>2. Len(published) \in Nat /\ Len(marketDataQueue) \in Nat
    BY <2>1
  <2>3. QED
    BY <2>1, <2>2, Zenon
<1>2. p \o Append(q, e) = Append(p \o q, e)
  <2>1. p \o q \in Seq(MarketEvent) /\ Len(p \o q) = n + m
    BY <1>1
  <2>2. /\ Append(q, e) \in Seq(MarketEvent) /\ Len(Append(q, e)) = m + 1
        /\ Append(q, e)[m + 1] = e /\ \A i \in 1..m : Append(q, e)[i] = q[i]
    BY <1>1, QueueAppend
  <2>3. /\ p \o Append(q, e) \in Seq(MarketEvent) /\ Len(p \o Append(q, e)) = n + m + 1
    BY <1>1, <2>2
  <2>4. /\ Append(p \o q, e) \in Seq(MarketEvent) /\ Len(Append(p \o q, e)) = n + m + 1
        /\ Append(p \o q, e)[n + m + 1] = e
        /\ \A i \in 1..n + m : Append(p \o q, e)[i] = (p \o q)[i]
    BY <2>1, QueueAppend
  <2>5. ASSUME NEW i \in 1..n + m + 1
        PROVE  (p \o Append(q, e))[i] = Append(p \o q, e)[i]
    <3>1. CASE i <= n
      BY <1>1, <2>2, <2>4, <3>1, SMTT(20)
    <3>2. CASE i > n /\ i <= n + m
      BY <1>1, <2>2, <2>4, <3>2, SMTT(20)
    <3>3. CASE i = n + m + 1
      BY <1>1, <2>2, <2>4, <3>3
    <3>4. QED
      BY <1>1, <3>1, <3>2, <3>3, SMTT(20)
  <2>6. ASSUME NEW s \in Seq(MarketEvent), NEW r \in Seq(MarketEvent), Len(s) = Len(r),
               \A i \in 1..Len(r) : s[i] = r[i]
        PROVE  s = r
    BY <2>6
  <2>7. QED
    BY <2>3, <2>4, <2>5, <2>6
<1>3. QED
  BY <1>1, <1>2 DEF EventStream

\* Sending an event moves it from the queue to the listeners.
LEMMA StreamMoves ==
  ASSUME QueuesOK, marketDataQueue # <<>>, marketDataQueue' = Tail(marketDataQueue),
         published' = Append(published, Head(marketDataQueue))
  PROVE  EventStream' = EventStream
<1>1. PICK p, q, n, m : /\ p = published /\ q = marketDataQueue /\ n = Len(p) /\ m = Len(q)
                        /\ p \in Seq(MarketEvent) /\ q \in Seq(MarketEvent) /\ q # <<>>
                        /\ n \in Nat /\ m \in Nat
  <2>1. published \in Seq(MarketEvent) /\ marketDataQueue \in Seq(MarketEvent)
    BY DEF QueuesOK
  <2>2. Len(published) \in Nat /\ Len(marketDataQueue) \in Nat
    BY <2>1
  <2>3. QED
    BY <2>1, <2>2, Zenon
<1>2. Append(p, Head(q)) \o Tail(q) = p \o q
  <2>1. /\ Head(q) \in MarketEvent /\ Head(q) = q[1] /\ m >= 1
        /\ Tail(q) \in Seq(MarketEvent) /\ Len(Tail(q)) = m - 1
        /\ \A i \in 1..m - 1 : Tail(q)[i] = q[i + 1]
    BY <1>1, QueueTail
  <2>2. /\ Append(p, Head(q)) \in Seq(MarketEvent) /\ Len(Append(p, Head(q))) = n + 1
        /\ Append(p, Head(q))[n + 1] = Head(q)
        /\ \A i \in 1..n : Append(p, Head(q))[i] = p[i]
    BY <1>1, <2>1, QueueAppend
  <2>3. PICK p1, q1 : p1 = Append(p, Head(q)) /\ q1 = Tail(q)
    BY Zenon
  <2>4. p1 \o q1 \in Seq(MarketEvent) /\ Len(p1 \o q1) = n + m
    BY <1>1, <2>1, <2>2, <2>3
  <2>5. p \o q \in Seq(MarketEvent) /\ Len(p \o q) = n + m
    BY <1>1
  <2>6. ASSUME NEW i \in 1..n + m
        PROVE  (p1 \o q1)[i] = (p \o q)[i]
    <3>1. CASE i <= n
      BY <1>1, <2>1, <2>2, <2>3, <3>1
    <3>2. CASE i = n + 1
      BY <1>1, <2>1, <2>2, <2>3, <3>2
    <3>3. CASE i > n + 1
      <4>1. i - (n + 1) \in 1..m - 1 /\ (i - (n + 1)) + 1 = i - n
        BY <1>1, <3>3
      <4>2. q1[i - (n + 1)] = q[i - n]
        BY <2>1, <2>3, <4>1
      <4>3. (p1 \o q1)[i] = q1[i - (n + 1)]
        <5>1. /\ p1 \in Seq(MarketEvent) /\ q1 \in Seq(MarketEvent)
              /\ Len(p1) = n + 1 /\ Len(q1) = m - 1
          BY <2>1, <2>2, <2>3, Zenon
        <5>2. QED
          BY <1>1, <3>3, <5>1
      <4>4. (p \o q)[i] = q[i - n]
        BY <1>1, <3>3
      <4>5. QED
        BY <4>2, <4>3, <4>4, Zenon
    <3>4. i <= n \/ i = n + 1 \/ i > n + 1
      BY <1>1
    <3>5. QED
      BY <3>1, <3>2, <3>3, <3>4, Zenon
  <2>7. ASSUME NEW s \in Seq(MarketEvent), NEW r \in Seq(MarketEvent), Len(s) = Len(r),
               \A i \in 1..Len(r) : s[i] = r[i]
        PROVE  s = r
    BY <2>7
  <2>8. QED
    BY <2>3, <2>4, <2>5, <2>6, <2>7
<1>3. QED
  BY <1>1, <1>2 DEF EventStream

\* The start of a sequence that has grown.
LEMMA GrownPrefix ==
  ASSUME NEW events \in Seq(MarketEvent), NEW e \in MarketEvent, NEW more,
         more = Append(events, e), NEW k \in DOMAIN more
  PROVE  \/ k \in DOMAIN events /\ SubSeq(more, 1, k) = SubSeq(events, 1, k)
         \/ SubSeq(more, 1, k) = more
<1>1. /\ more \in Seq(MarketEvent) /\ Len(more) = Len(events) + 1
      /\ \A i \in 1..Len(events) : more[i] = events[i]
      /\ Len(events) \in Nat /\ DOMAIN events = 1..Len(events) /\ DOMAIN more = 1..Len(more)
  BY QueueAppend
<1>2. CASE k <= Len(events)
  <2>1. /\ SubSeq(more, 1, k) \in Seq(MarketEvent) /\ Len(SubSeq(more, 1, k)) = k
        /\ \A i \in 1..k : SubSeq(more, 1, k)[i] = more[i]
    BY <1>1
  <2>2. /\ SubSeq(events, 1, k) \in Seq(MarketEvent) /\ Len(SubSeq(events, 1, k)) = k
        /\ \A i \in 1..k : SubSeq(events, 1, k)[i] = events[i]
    BY <1>1, <1>2
  <2>3. \A i \in 1..k : more[i] = events[i]
    BY <1>1, <1>2
  <2>4. SubSeq(more, 1, k) = SubSeq(events, 1, k)
    BY <1>1, <2>1, <2>2, <2>3
  <2>5. QED
    BY <1>1, <1>2, <2>4
<1>3. CASE k = Len(events) + 1
  <2>1. /\ SubSeq(more, 1, k) \in Seq(MarketEvent) /\ Len(SubSeq(more, 1, k)) = k
        /\ \A i \in 1..k : SubSeq(more, 1, k)[i] = more[i]
    BY <1>1
  <2>2. SubSeq(more, 1, k) = more
    BY <1>1, <1>3, <2>1
  <2>3. QED
    BY <2>2
<1>4. QED
  BY <1>1, <1>2, <1>3

\* A step of the matching thread that pushes an event extends the stream with
\* it; one of the market data thread moves it; no other step touches it.
StreamStep ==
  \/ \E e \in MarketEvent : /\ EventStream' = Append(EventStream, e)
                            /\ \/ AnnounceOrder /\ e = Event("add", command.body)
                               \/ AnnounceTrade /\ e = Event("trade", Router!NextTrade)
                               \/ AnnounceCancel /\ e = Event("cancel", command.body)
  \/ /\ EventStream' = EventStream
     /\ ~AnnounceOrder /\ ~AnnounceTrade /\ ~AnnounceCancel

\* Every step appends at most one event, and says which.
LEMMA StreamSteps ==
  ASSUME CommandFlow, RouterSound, CallState, QueuesOK, [Next]_vars
  PROVE  StreamStep
<1>1. CASE AnnounceOrder /\ MatchingStep
  <2>1. command.body \in Router!OrderAdd
    BY <1>1, AnnouncedIsReceived
  <2>2. PICK e \in MarketEvent : e = Event("add", command.body)
    BY <2>1, EventKinds
  <2>3. marketDataQueue' = Append(marketDataQueue, e) /\ published' = published
    BY <1>1, <2>2 DEF AnnounceOrder, Publish, MatchingStep, marketDataVars
  <2>4. QED
    BY <1>1, <2>2, <2>3, StreamGrows, Zenon DEF StreamStep
<1>2. CASE AnnounceTrade /\ MatchingStep
  <2>1. TradeDue
    BY <1>2 DEF AnnounceTrade, CallState, TradeDue
  <2>2. PICK e \in MarketEvent : e = Event("trade", Router!NextTrade)
    BY <2>1, DueIsCredited, EventKinds
  <2>3. marketDataQueue' = Append(marketDataQueue, e) /\ published' = published
    BY <1>2, <2>2 DEF AnnounceTrade, Publish, MatchingStep, marketDataVars
  <2>4. QED
    BY <1>2, <2>2, <2>3, StreamGrows, Zenon DEF StreamStep
<1>3. CASE AnnounceCancel /\ MatchingStep
  <2>1. command.body \in Router!OrderCancel
    BY <1>3, CommandKinds DEF CommandFlow, AnnounceCancel
  <2>2. PICK e \in MarketEvent : e = Event("cancel", command.body)
    BY <2>1, EventKinds
  <2>3. marketDataQueue' = Append(marketDataQueue, e) /\ published' = published
    BY <1>3, <2>2 DEF AnnounceCancel, Publish, MatchingStep, marketDataVars
  <2>4. QED
    BY <1>3, <2>2, <2>3, StreamGrows, Zenon DEF StreamStep
<1>4. CASE UNCHANGED <<marketDataQueue, published>> \/ SendEvent
  <2>1. EventStream' = EventStream
    BY <1>4, StreamMoves DEF EventStream, SendEvent
  <2>2. Len(marketDataQueue) \in Nat /\ Len(marketDataQueue') <= Len(marketDataQueue)
    BY <1>4, QueueTail DEF QueuesOK, SendEvent
  <2>3. ~AnnounceOrder /\ ~AnnounceTrade /\ ~AnnounceCancel
    <3>1. ASSUME NEW e, Publish(e) PROVE FALSE
      BY <2>2, <3>1 DEF Publish, QueuesOK
    <3>2. QED
      BY <3>1, Zenon DEF AnnounceOrder, AnnounceTrade, AnnounceCancel
  <2>4. QED
    BY <2>1, <2>3 DEF StreamStep
<1>5. CASE MatchingStep /\ ~AnnounceOrder /\ ~AnnounceTrade /\ ~AnnounceCancel
  <2>1. UNCHANGED <<marketDataQueue, published>>
    BY <1>5, Zenon DEF MatchingStep, MatchingPop, MatchingFindsEmpty, MatchingChecksFlag,
              HandOverTrade, FinishOrder, CancelOrder, queueVars, marketDataVars
  <2>2. QED
    BY <1>4, <2>1
<1>6. CASE MarketDataStep
  BY <1>4, <1>6, Zenon DEF MarketDataStep, MarketDataFindsEmpty, MarketDataChecksFlag
<1>7. CASE \/ ClientStep \/ GatewayStep \/ InventoryStep \/ SignalStep \/ MainStep
           \/ UNCHANGED vars
  BY <1>4, <1>7, Zenon DEF ClientStep, GatewayStep, GatewayFrame, InventoryStep, SignalStep,
                    MainStep, MainFrame, vars, queueVars, marketDataVars
<1>8. QED
  BY <1>1, <1>2, <1>3, <1>5, <1>6, <1>7, Zenon DEF Next, Exited

\* The elements over the queue of trades.
LEMMA QueuedElements ==
  ASSUME QueuesOK, NEW u, NEW t
  PROVE  /\ Queued(u, t) \in Seq(Int) /\ Len(Queued(u, t)) = Len(tradeQueue)
         /\ \A i \in 1..Len(tradeQueue) : Queued(u, t)[i] = NetOf(tradeQueue[i], u, t)
<1>1. /\ tradeQueue \in Seq(Trade) /\ Len(tradeQueue) \in Nat
      /\ DOMAIN tradeQueue = 1..Len(tradeQueue)
  BY DEF QueuesOK
<1>2. /\ Queued(u, t) = [i \in 1..Len(tradeQueue) |-> Queued(u, t)[i]]
      /\ \A i \in 1..Len(tradeQueue) : Queued(u, t)[i] = NetOf(tradeQueue[i], u, t)
  BY <1>1, Zenon DEF Queued
<1>3. ASSUME NEW i \in 1..Len(tradeQueue)
      PROVE  Queued(u, t)[i] \in Int
  <2>1. tradeQueue[i] \in Trade
    BY <1>1
  <2>2. QED
    BY <1>2, <2>1, NetOfInt
<1>4. QED
  BY <1>1, <1>2, <1>3, IntegerSequence

\* r is s without its first element x.
OneLess(s, r, x) ==
  /\ s \in Seq(Int) /\ r \in Seq(Int) /\ Len(s) = Len(r) + 1 /\ s[1] = x
  /\ \A i \in 1..Len(r) : r[i] = s[i + 1]

\* A trade that is handed over comes last.
LEMMA HandedOver ==
  ASSUME RouterSound, QueuesOK, QueuesOK', HandOverTrade, NEW u, NEW t,
         NEW trade, trade = Router!NextTrade
  PROVE  OneMore(Queued(u, t), Queued(u, t)', NetOf(trade, u, t))
<1>1. trade \in Trade /\ tradeQueue' = Append(tradeQueue, trade)
  BY HandOverCredits, DueIsCredited DEF HandOverTrade
<1>2. PICK s, r : s = Queued(u, t) /\ r = Queued(u, t)'
  BY Zenon
<1>3. /\ s \in Seq(Int) /\ Len(s) = Len(tradeQueue)
      /\ \A i \in 1..Len(tradeQueue) : s[i] = NetOf(tradeQueue[i], u, t)
  BY <1>2, QueuedElements
<1>4. /\ tradeQueue \in Seq(Trade) /\ tradeQueue' \in Seq(Trade) /\ Len(tradeQueue) \in Nat
      /\ Len(tradeQueue') = Len(tradeQueue) + 1 /\ tradeQueue'[Len(tradeQueue) + 1] = trade
      /\ \A i \in 1..Len(tradeQueue) : tradeQueue'[i] = tradeQueue[i]
  <2>1. tradeQueue \in Seq(Trade)
    BY DEF QueuesOK
  <2>2. QED
    BY <1>1, <2>1, QueueAppend
<1>5. DOMAIN tradeQueue' = 1..Len(tradeQueue) + 1
  BY <1>4
<1>6. /\ r = [i \in 1..Len(tradeQueue) + 1 |-> r[i]]
      /\ \A i \in 1..Len(tradeQueue) + 1 : r[i] = NetOf(tradeQueue'[i], u, t)
  <2>1. r = [i \in DOMAIN tradeQueue' |-> NetOf(tradeQueue'[i], u, t)]
    BY <1>2, Zenon DEF Queued, NetOf, Registry!Signed, Registry!MakerSide
  <2>2. QED
    BY <1>5, <2>1, Zenon
<1>7. ASSUME NEW i \in 1..Len(tradeQueue)
      PROVE  i \in 1..Len(tradeQueue) + 1 /\ r[i] = s[i]
  <2>1. i \in 1..Len(tradeQueue) + 1
    BY <1>4
  <2>2. QED
    BY <1>3, <1>4, <1>6, <2>1, Zenon
<1>8. Len(tradeQueue) + 1 \in 1..Len(tradeQueue) + 1 /\ Len(tradeQueue) + 1 \in Nat
  BY <1>4
<1>9. r[Len(tradeQueue) + 1] = NetOf(trade, u, t)
  BY <1>4, <1>6, <1>8, Zenon
<1>10. ASSUME NEW i \in 1..Len(tradeQueue) + 1
       PROVE  r[i] \in Int
  <2>1. tradeQueue'[i] \in Trade
    BY <1>4, <1>5
  <2>2. NetOf(tradeQueue'[i], u, t) \in Int
    BY <2>1, NetOfInt
  <2>3. QED
    BY <1>6, <2>2, Zenon
<1>11. r \in Seq(Int) /\ Len(r) = Len(tradeQueue) + 1
  BY <1>6, <1>8, <1>10, IntegerSequence
<1>12. QED
  BY <1>2, <1>3, <1>7, <1>9, <1>11, Zenon DEF OneMore

\* A trade that is settled came first.
LEMMA TakenFirst ==
  ASSUME QueuesOK, QueuesOK', SettleTrade, NEW u, NEW t, NEW trade, trade = Head(tradeQueue)
  PROVE  trade \in Trade /\ OneLess(Queued(u, t), Queued(u, t)', NetOf(trade, u, t))
<1>1. tradeQueue # <<>> /\ tradeQueue' = Tail(tradeQueue)
  BY DEF SettleTrade
<1>2. PICK s, r : s = Queued(u, t) /\ r = Queued(u, t)'
  BY Zenon
<1>3. /\ s \in Seq(Int) /\ Len(s) = Len(tradeQueue)
      /\ \A i \in 1..Len(tradeQueue) : s[i] = NetOf(tradeQueue[i], u, t)
  BY <1>2, QueuedElements
<1>4. /\ tradeQueue \in Seq(Trade) /\ tradeQueue' \in Seq(Trade)
      /\ Len(tradeQueue) \in Nat \ {0} /\ Len(tradeQueue') = Len(tradeQueue) - 1
      /\ tradeQueue[1] = trade /\ trade \in Trade
      /\ \A i \in 1..Len(tradeQueue) - 1 : tradeQueue'[i] = tradeQueue[i + 1]
  <2>1. tradeQueue \in Seq(Trade)
    BY DEF QueuesOK
  <2>2. QED
    BY <1>1, <2>1, QueueTail
<1>5. DOMAIN tradeQueue' = 1..Len(tradeQueue) - 1
  BY <1>4
<1>6. /\ r = [i \in 1..Len(tradeQueue) - 1 |-> r[i]]
      /\ \A i \in 1..Len(tradeQueue) - 1 : r[i] = NetOf(tradeQueue'[i], u, t)
  <2>1. r = [i \in DOMAIN tradeQueue' |-> NetOf(tradeQueue'[i], u, t)]
    BY <1>2, Zenon DEF Queued, NetOf, Registry!Signed, Registry!MakerSide
  <2>2. QED
    BY <1>5, <2>1, Zenon
<1>7. ASSUME NEW i \in 1..Len(tradeQueue) - 1
      PROVE  r[i] = s[i + 1] /\ r[i] \in Int
  <2>1. i + 1 \in 1..Len(tradeQueue)
    BY <1>4
  <2>2. r[i] = s[i + 1]
    BY <1>3, <1>4, <1>6, <2>1, Zenon
  <2>3. QED
    BY <1>3, <2>1, <2>2
<1>8. 1 \in 1..Len(tradeQueue) /\ Len(tradeQueue) - 1 \in Nat
  BY <1>4
<1>9. s[1] = NetOf(trade, u, t)
  BY <1>3, <1>4, <1>8, Zenon
<1>10. r \in Seq(Int) /\ Len(r) = Len(tradeQueue) - 1
  BY <1>6, <1>7, <1>8, IntegerSequence
<1>11. Len(s) = Len(r) + 1
  BY <1>3, <1>4, <1>10
<1>12. QED
  BY <1>2, <1>3, <1>4, <1>7, <1>9, <1>10, <1>11, Zenon DEF OneLess

-----------------------------------------------------------------------------
(* The accounts against the executions.  The facts about sums and fills that  *)
(* this takes are stated here and proved at the end, from AccountsProofs.     *)

\* How sums of sequences behave.
SumLaws ==
  /\ \A s \in Seq(Int) : /\ Total(s) \in Int
                         /\ Len(s) = 0 => Total(s) = 0
                         /\ (\A i \in 1..Len(s) : s[i] >= 0) => Total(s) >= 0
  /\ \A s, r, x : OneMore(s, r, x) => Total(r) = Total(s) + x
  /\ \A s, r, x : OneLess(s, r, x) => Total(s) = x + Total(r)
  /\ \A s, r, m, dm, c, dc : TwoChanges(s, r, m, dm, c, dc) => Total(r) = Total(s) + (dm + dc)

\* What a holding is, whatever the amounts of money in it.
Holds(h) ==
  /\ h = [volume |-> h.volume, avgCost |-> h.avgCost, realizedPnl |-> h.realizedPnl,
          unrealizedPnl |-> h.unrealizedPnl]
  /\ h.volume \in Int

\* Every user has an inventory, of listed instruments.
Kept(accounts) ==
  /\ accounts = [u \in UserIds |-> accounts[u]]
  /\ \A u \in UserIds :
       /\ accounts[u] = [t \in DOMAIN accounts[u] |-> accounts[u][t]]
       /\ DOMAIN accounts[u] \subseteq INSTRUMENTS
       /\ \A t \in INSTRUMENTS : Holds(Registry!HoldingOf(accounts[u], t))

\* Both parties to a trade have a holding of its instrument.
Touched(accounts, trade) ==
  /\ trade.ticker \in DOMAIN accounts[trade.maker]
  /\ trade.ticker \in DOMAIN accounts[trade.taker]

\* What the two steps of a settlement do to the positions.
FilledBy(before, after, trade) ==
  /\ Kept(after) /\ Touched(after, trade)
  /\ \A u \in UserIds, t \in INSTRUMENTS :
       Registry!Position(after[u], t) = Registry!Position(before[u], t) + NetOf(trade, u, t)
MarkedAs(before, after) ==
  /\ Kept(after)
  /\ \A u \in UserIds, t \in INSTRUMENTS :
       Registry!Position(after[u], t) = Registry!Position(before[u], t)
FillLaws ==
  \A accounts : \A trade \in Trade : Kept(accounts) =>
    /\ FilledBy(accounts, Registry!BothFilled(accounts, trade), trade)
    /\ Touched(accounts, trade) =>
         \A mid : MarkedAs(accounts, Registry!BothMarked(accounts, trade, mid))

\* The accounts, and what the inventory thread may rely on when it marks them.
Inventories ==
  /\ Kept(users)
  /\ inventory = "mark" => Touched(users, settling[1])

\* The steps that move positions, queued trades or executions.
SettlementStep ==
  \/ HandOverTrade /\ UNCHANGED <<users, settling, inventory>>
  \/ AnnounceOrder /\ UNCHANGED <<users, settling, inventory, tradeQueue>>
  \/ SettleTrade /\ UNCHANGED <<log, executed>>
  \/ MarkToMid /\ UNCHANGED <<log, executed, tradeQueue>>
  \/ /\ UNCHANGED <<users, log, executed, tradeQueue>>
     /\ UNCHANGED <<settling, inventory>> \/ (inventory # "mark" /\ inventory' # "mark")

\* There are no others.
LEMMA SettlementSteps ==
  ASSUME [Next]_vars
  PROVE  SettlementStep
<1>1. CASE MatchingStep /\ (AnnounceOrder \/ HandOverTrade)
  BY <1>1, Zenon DEF MatchingStep, inventoryVars, AnnounceOrder, SettlementStep
<1>2. CASE MatchingStep /\ ~AnnounceOrder /\ ~HandOverTrade
  <2>1. log' = log /\ executed' = executed
    BY <1>2, OthersLeaveHistory
  <2>2. tradeQueue' = tradeQueue
    BY <1>2, Zenon DEF MatchingStep, MatchingPop, MatchingFindsEmpty, MatchingChecksFlag,
              AnnounceTrade, FinishOrder, CancelOrder, AnnounceCancel, queueVars
  <2>3. QED
    BY <1>2, <2>1, <2>2, Zenon DEF MatchingStep, inventoryVars, SettlementStep
<1>3. CASE InventoryStep
  <2>1. log' = log /\ executed' = executed
    BY <1>3 DEF InventoryStep, routerVars
  <2>2. CASE SettleTrade \/ MarkToMid
    BY <2>1, <2>2, Zenon DEF MarkToMid, SettlementStep
  <2>3. CASE InventoryFindsEmpty \/ InventoryChecksFlag
    BY <2>1, <2>3 DEF InventoryFindsEmpty, InventoryChecksFlag, AfterFlag, SettlementStep
  <2>4. QED
    BY <1>3, <2>2, <2>3, Zenon DEF InventoryStep
<1>4. CASE \/ ClientStep \/ GatewayStep \/ MarketDataStep \/ SignalStep \/ MainStep
           \/ UNCHANGED vars
  <2>1. UNCHANGED <<users, settling, inventory, tradeQueue>> /\ UNCHANGED routerVars
    BY <1>4, Zenon DEF ClientStep, GatewayStep, GatewayFrame, MarketDataStep, SignalStep,
              MainStep, MainFrame, vars, inventoryVars, queueVars
  <2>2. QED
    BY <2>1, RouterUntouched, Zenon DEF SettlementStep
<1>5. QED
  BY <1>1, <1>2, <1>3, <1>4, Zenon DEF Next, Exited

\* The accounts stay well formed, and between the two steps of a settlement
\* both parties have a holding to mark.
LEMMA InventoriesInductive ==
  ASSUME FillLaws, QueuesOK, Inventories, [Next]_vars
  PROVE  Inventories'
<1>1. CASE SettleTrade
  <2>1. PICK trade \in Trade : trade = Head(tradeQueue)
    BY <1>1, QueueTail DEF SettleTrade, QueuesOK
  <2>2. users' = Registry!BothFilled(users, trade) /\ settling' = <<trade>>
    BY <1>1, <2>1, Zenon DEF SettleTrade
  <2>3. Kept(users') /\ Touched(users', trade)
    BY <2>2, Zenon DEF FillLaws, FilledBy, Inventories
  <2>4. settling'[1] = trade
    BY <2>2
  <2>5. QED
    BY <2>3, <2>4, Zenon DEF Inventories, Kept, Touched
<1>2. CASE MarkToMid
  <2>0. settling \in Seq(Trade) /\ Len(settling) = 1
    BY <1>2, Zenon DEF MarkToMid, QueuesOK
  <2>1. PICK trade \in Trade : trade = settling[1]
    BY <2>0
  <2>2. PICK mid : users' = Registry!BothMarked(users, trade, mid)
    BY <1>2, <2>1, Zenon DEF MarkToMid
  <2>3. Kept(users')
    BY <1>2, <2>1, <2>2, Zenon DEF FillLaws, MarkedAs, Inventories, MarkToMid
  <2>4. inventory' # "mark"
    BY <1>2 DEF MarkToMid
  <2>5. QED
    BY <2>3, <2>4, Zenon DEF Inventories, Kept
<1>3. CASE UNCHANGED <<users, settling, inventory>>
  BY <1>3, Zenon DEF Inventories, Kept, Touched
<1>4. CASE users' = users /\ inventory' # "mark"
  BY <1>4, Zenon DEF Inventories, Kept
<1>5. QED
  BY <1>1, <1>2, <1>3, <1>4, SettlementSteps, Zenon DEF SettlementStep

\* The sum after one more element.
LEMMA SumMore ==
  ASSUME SumLaws, NEW s, NEW r, NEW x, OneMore(s, r, x)
  PROVE  Total(r) = Total(s) + x
BY DEF SumLaws

\* The sum after two changes.
LEMMA SumTwo ==
  ASSUME SumLaws, NEW s, NEW r, NEW m, NEW dm, NEW c, NEW dc, NEW d,
         TwoChanges(s, r, m, dm, c, dc), d = dm + dc
  PROVE  Total(r) = Total(s) + d
BY SMTT(20) DEF SumLaws

\* The same orders contribute the same.
LEMMA SameNets ==
  ASSUME NEW u, NEW t, log' = log, NEW ex, executed' = ex
  PROVE  Nets(executed, u, t)' = Nets(ex, u, t)
BY Zenon DEF Nets, Registry!Signed

\* The same trades contribute the same.
LEMMA SameQueued ==
  ASSUME NEW u, NEW t, tradeQueue' = tradeQueue
  PROVE  Queued(u, t)' = Queued(u, t)
BY Zenon DEF Queued, NetOf, Registry!Signed, Registry!MakerSide

\* A position is an integer.
LEMMA PositionInt ==
  ASSUME Inventories, NEW u \in UserIds, NEW t \in INSTRUMENTS
  PROVE  Registry!Position(users[u], t) \in Int
BY Zenon DEF Inventories, Kept, Holds, Registry!Position

\* The contributions of the executions are integers.
LEMMA NetsInt ==
  ASSUME RouterSound, NEW u, NEW t
  PROVE  Nets(executed, u, t) \in Seq(Int)
<1>1. Router!TypeOK /\ executed \in Seq(Nat) /\ Len(executed) = Len(log)
  BY HistoryTypes, Zenon DEF RouterSound
<1>2. QED
  BY <1>1, NetsElements, SMTT(20) DEF AreNets

\* What a trade that is handed over adds to the executions.
LEMMA ExecutedMore ==
  ASSUME SumLaws, RouterSound, HandOverTrade, NEW u, NEW t
  PROVE  Total(Nets(executed, u, t)') =
           Total(Nets(executed, u, t)) + NetOf(Router!NextTrade, u, t)
<1>1. TradeDue /\ Nets(executed, u, t)' = Nets(Credited, u, t)
  BY HandOverCredits, SameNets, Zenon
<1>2. PICK m, dm, c, dc :
        /\ TwoChanges(Nets(executed, u, t), Nets(Credited, u, t), m, dm, c, dc)
        /\ NetOf(Router!NextTrade, u, t) = dm + dc
  BY <1>1, DueNets, Zenon
<1>3. PICK s, r : s = Nets(executed, u, t) /\ r = Nets(Credited, u, t)
  OBVIOUS
<1>4. Total(r) = Total(s) + NetOf(Router!NextTrade, u, t)
  BY <1>2, <1>3, SumTwo
<1>5. QED
  BY <1>1, <1>3, <1>4, Zenon

\* Every step keeps the accounts reconciled: a trade that is handed over is
\* executed and queued, one that is settled leaves the queue for the accounts.
LEMMA PositionsReconcileInductive ==
  ASSUME SumLaws, FillLaws, CommandFlow, RouterSound, RouterSound', QueuesOK, QueuesOK',
         Inventories, PositionsReconcile, [Next]_vars
  PROVE  PositionsReconcile'
<1> SUFFICES ASSUME NEW u \in UserIds, NEW t \in INSTRUMENTS
             PROVE  (Registry!Position(users[u], t))' + Total(Queued(u, t)') =
                      Total(Nets(executed, u, t)')
  BY Zenon DEF PositionsReconcile, NetQueued, NetExecuted, Queued, Nets
<1>1. PICK p, q, n : /\ p = Registry!Position(users[u], t)
                     /\ q = Total(Queued(u, t)) /\ n = Total(Nets(executed, u, t))
  OBVIOUS
<1>2. p + q = n
  BY <1>1, Zenon DEF PositionsReconcile, NetQueued, NetExecuted, Queued, Nets
<1>3. p \in Int /\ q \in Int /\ n \in Int
  <2>1. Queued(u, t) \in Seq(Int) /\ Nets(executed, u, t) \in Seq(Int)
    BY QueuedElements, NetsInt
  <2>2. QED
    BY <1>1, <2>1, PositionInt, Zenon DEF SumLaws
<1>4. ASSUME users' = users PROVE (Registry!Position(users[u], t))' = p
  BY <1>1, <1>4, Zenon DEF Registry!Position, Registry!HoldingOf
<1>5. CASE HandOverTrade /\ users' = users
  <2>1. PICK trade \in Trade : trade = Router!NextTrade
    BY <1>5, HandOverCredits, DueIsCredited
  <2>2. PICK d \in Int : d = NetOf(trade, u, t)
    BY NetOfInt
  <2>3. Total(Queued(u, t)') = q + d
    <3>1. OneMore(Queued(u, t), Queued(u, t)', d)
      BY <1>5, <2>1, <2>2, HandedOver, Zenon
    <3>2. QED
      BY <1>1, <3>1, SumMore, Zenon
  <2>4. Total(Nets(executed, u, t)') = n + d
    BY <1>1, <1>5, <2>1, <2>2, ExecutedMore, Zenon
  <2>5. QED
    BY <1>2, <1>3, <1>4, <1>5, <2>3, <2>4
<1>6. CASE AnnounceOrder /\ users' = users /\ tradeQueue' = tradeQueue
  <2>1. Queued(u, t)' = Queued(u, t)
    BY <1>6, SameQueued
  <2>2. Total(Nets(executed, u, t)') = n + 0
    <3>1. OneMore(Nets(executed, u, t), Nets(executed, u, t)', 0)
      BY <1>6, ReceivedNets, Zenon
    <3>2. QED
      BY <1>1, <3>1, SumMore, Zenon
  <2>3. QED
    BY <1>1, <1>2, <1>3, <1>4, <1>6, <2>1, <2>2, SMTT(20)
<1>7. CASE SettleTrade /\ UNCHANGED <<log, executed>>
  <2>1. PICK trade : trade = Head(tradeQueue)
    OBVIOUS
  <2>2. trade \in Trade /\ OneLess(Queued(u, t), Queued(u, t)', NetOf(trade, u, t))
    BY <1>7, <2>1, TakenFirst
  <2>3. PICK d \in Int : d = NetOf(trade, u, t)
    BY <2>2, NetOfInt
  <2>4. q = d + Total(Queued(u, t)')
    BY <1>1, <2>2, <2>3, Zenon DEF SumLaws
  <2>5. Queued(u, t)' \in Seq(Int)
    BY <2>2 DEF OneLess
  <2>6. Total(Queued(u, t)') \in Int
    BY <2>5, Zenon DEF SumLaws
  <2>7. users' = Registry!BothFilled(users, trade)
    BY <1>7, <2>1, Zenon DEF SettleTrade
  <2>8. Registry!Position(users'[u], t) = p + d
    BY <1>1, <2>2, <2>3, <2>7, Zenon DEF FillLaws, FilledBy, Inventories
  <2>9. (Registry!Position(users[u], t))' = p + d
    BY <2>8, Zenon DEF Registry!Position, Registry!HoldingOf
  <2>10. Total(Nets(executed, u, t)') = n
    BY <1>1, <1>7, SameNets, Zenon
  <2>11. QED
    BY <1>2, <1>3, <2>3, <2>4, <2>6, <2>9, <2>10
<1>8. CASE MarkToMid /\ UNCHANGED <<log, executed, tradeQueue>>
  <2>0. settling \in Seq(Trade) /\ Len(settling) = 1
    BY <1>8, Zenon DEF MarkToMid, QueuesOK
  <2>1. PICK trade \in Trade : trade = settling[1]
    BY <2>0
  <2>2. PICK mid : users' = Registry!BothMarked(users, trade, mid)
    BY <1>8, <2>1, Zenon DEF MarkToMid
  <2>3. Registry!Position(users'[u], t) = p
    <3>1. Kept(users) /\ Touched(users, trade)
      BY <1>8, <2>1, Zenon DEF Inventories, MarkToMid
    <3>2. MarkedAs(users, users')
      BY <2>2, <3>1, Zenon DEF FillLaws
    <3>3. QED
      BY <1>1, <3>2, Zenon DEF MarkedAs
  <2>4. (Registry!Position(users[u], t))' = p
    BY <2>3, Zenon DEF Registry!Position, Registry!HoldingOf
  <2>5. Queued(u, t)' = Queued(u, t) /\ Nets(executed, u, t)' = Nets(executed, u, t)
    BY <1>8, SameQueued, SameNets, Zenon
  <2>6. QED
    BY <1>1, <1>2, <2>4, <2>5, Zenon
<1>9. CASE UNCHANGED <<users, log, executed, tradeQueue>>
  <2>1. Queued(u, t)' = Queued(u, t) /\ Nets(executed, u, t)' = Nets(executed, u, t)
    BY <1>9, SameQueued, SameNets, Zenon
  <2>2. QED
    BY <1>1, <1>2, <1>4, <1>9, <2>1, Zenon
<1>10. QED
  BY <1>5, <1>6, <1>7, <1>8, <1>9, SettlementSteps, Zenon DEF SettlementStep

-----------------------------------------------------------------------------
(* The feed against the executions.                                         *)

\* What the trade between its two pushes, which only the feed has, contributes.
PendingNet(u, t) == IF matching = "trade" THEN NetOf(Router!NextTrade, u, t) ELSE 0
PendingLeft(id, t, side) ==
  IF matching = "trade" THEN UntradedIn(Event("trade", Router!NextTrade), id, t, side) ELSE 0

\* The volume announced under an id and not traded in the feed is what the
\* orders with that id have left, but for the trade between its two pushes.
LeftsReconcile ==
  \A id \in OrderIds, t \in Tickers, side \in Router!Sides :
    Total(Untraded(EventStream, id, t, side)) =
      Total(Lefts(executed, id, t, side)) + PendingLeft(id, t, side)

\* The steps that add to the feed or to the executions.
FeedStep ==
  \/ /\ AnnounceOrder /\ EventStream' = Append(EventStream, Event("add", command.body))
     /\ Event("add", command.body) \in MarketEvent
     /\ matching # "trade" /\ matching' # "trade"
  \/ /\ AnnounceTrade /\ EventStream' = Append(EventStream, Event("trade", Router!NextTrade))
     /\ Event("trade", Router!NextTrade) \in MarketEvent
     /\ matching # "trade" /\ matching' = "trade" /\ UNCHANGED routerVars
  \/ /\ AnnounceCancel /\ EventStream' = Append(EventStream, Event("cancel", command.body))
     /\ Event("cancel", command.body) \in MarketEvent
     /\ matching # "trade" /\ matching' # "trade" /\ UNCHANGED <<log, executed>>
  \/ /\ HandOverTrade /\ EventStream' = EventStream /\ matching = "trade" /\ matching' # "trade"
  \/ /\ EventStream' = EventStream /\ UNCHANGED <<log, executed>>
     /\ \/ UNCHANGED routerVars /\ matching' = matching
        \/ matching # "trade" /\ matching' # "trade"

\* There are no others.
LEMMA FeedSteps ==
  ASSUME CommandFlow, RouterSound, CallState, QueuesOK, [Next]_vars
  PROVE  FeedStep
<1>1. CASE MatchingStep
  <2>1. CASE AnnounceOrder
    <3>1. matching # "trade" /\ matching' # "trade"
      BY <2>1 DEF AnnounceOrder
    <3>2. ~AnnounceTrade /\ ~AnnounceCancel
      BY <2>1 DEF AnnounceOrder, AnnounceTrade, AnnounceCancel
    <3>3. QED
      BY <2>1, <3>1, <3>2, StreamSteps, Zenon DEF StreamStep, FeedStep
  <2>2. CASE AnnounceTrade
    <3>1. matching # "trade" /\ matching' = "trade" /\ UNCHANGED routerVars
      BY <2>2, SMTT(20) DEF AnnounceTrade
    <3>2. ~AnnounceOrder /\ ~AnnounceCancel
      BY <2>2, Zenon DEF AnnounceOrder, AnnounceTrade, AnnounceCancel
    <3>3. QED
      BY <2>2, <3>1, <3>2, StreamSteps, Zenon DEF StreamStep, FeedStep
  <2>3. CASE AnnounceCancel
    <3>1. matching # "trade" /\ matching' # "trade" /\ UNCHANGED <<log, executed>>
      BY <2>3 DEF AnnounceCancel, routerVars
    <3>2. ~AnnounceOrder /\ ~AnnounceTrade
      BY <2>3 DEF AnnounceOrder, AnnounceTrade, AnnounceCancel
    <3>3. QED
      BY <2>3, <3>1, <3>2, StreamSteps, Zenon DEF StreamStep, FeedStep
  <2>4. CASE HandOverTrade
    <3>1. matching = "trade" /\ matching' # "trade"
      BY <2>4 DEF HandOverTrade
    <3>2. ~AnnounceOrder /\ ~AnnounceTrade /\ ~AnnounceCancel
      BY <3>1 DEF AnnounceOrder, AnnounceTrade, AnnounceCancel
    <3>3. QED
      BY <2>4, <3>1, <3>2, StreamSteps, Zenon DEF StreamStep, FeedStep
  <2>5. CASE ~AnnounceOrder /\ ~AnnounceTrade /\ ~AnnounceCancel /\ ~HandOverTrade
    <3>1. log' = log /\ executed' = executed
      BY <2>5, OthersLeaveHistory
    <3>2. matching # "trade" /\ matching' # "trade"
      BY <1>1, <2>5 DEF MatchingStep, MatchingPop, MatchingFindsEmpty, MatchingChecksFlag,
                        FinishOrder, CancelOrder, AfterFlag
    <3>3. QED
      BY <2>5, <3>1, <3>2, StreamSteps, Zenon DEF StreamStep, FeedStep
  <2>6. QED
    BY <2>1, <2>2, <2>3, <2>4, <2>5, Zenon
<1>2. CASE UNCHANGED routerVars /\ matching' = matching
  <2>1. ~AnnounceOrder
    <3>1. Len(log) \in Nat /\ log \in Seq(Router!OrderAdd)
      BY HistoryTypes DEF RouterSound
    <3>2. ASSUME AnnounceOrder PROVE FALSE
      <4>1. log' = Append(log, command.body)
        BY <3>2, AnnouncedIsReceived
      <4>2. Len(log') = Len(log) + 1
        BY <3>1, <4>1
      <4>3. QED
        BY <1>2, <3>1, <4>2, RouterUntouched
    <3>3. QED
      BY <3>2
  <2>2. ~AnnounceTrade /\ ~AnnounceCancel
    BY <1>2 DEF AnnounceTrade, AnnounceCancel
  <2>3. log' = log /\ executed' = executed
    BY <1>2, RouterUntouched
  <2>4. QED
    BY <1>2, <2>1, <2>2, <2>3, StreamSteps, Zenon DEF StreamStep, FeedStep
<1>3. CASE \/ ClientStep \/ GatewayStep \/ InventoryStep \/ MarketDataStep \/ SignalStep
           \/ MainStep \/ UNCHANGED vars
  <2>1. UNCHANGED routerVars /\ matching' = matching
    BY <1>3, Zenon DEF ClientStep, GatewayStep, GatewayFrame, InventoryStep, MarketDataStep,
              SignalStep, MainStep, MainFrame, vars, matchingVars
  <2>2. QED
    BY <1>2, <2>1
<1>4. QED
  BY <1>1, <1>3, Zenon DEF Next, Exited

\* The stream is a sequence of events.
LEMMA StreamType ==
  ASSUME QueuesOK
  PROVE  EventStream \in Seq(MarketEvent)
<1>1. published \in Seq(MarketEvent) /\ marketDataQueue \in Seq(MarketEvent)
  BY DEF QueuesOK
<1>2. QED
  BY <1>1 DEF EventStream

\* What the announcement of an event adds to the feed.
LEMMA AnnouncedMore ==
  ASSUME SumLaws, QueuesOK, NEW e \in MarketEvent, EventStream' = Append(EventStream, e),
         NEW u, NEW t, NEW x, x = IF e.kind = "trade" THEN NetOf(e.body, u, t) ELSE 0
  PROVE  Total(Announced(EventStream', u, t)) = Total(Announced(EventStream, u, t)) + x
<1>1. PICK events \in Seq(MarketEvent) : events = EventStream
  BY StreamType
<1>2. OneMore(Announced(events, u, t), Announced(Append(events, e), u, t), x)
  BY EventNets
<1>3. QED
  BY <1>1, <1>2, SumMore, Zenon

\* The same, for the untraded volume.
LEMMA UntradedMore ==
  ASSUME SumLaws, QueuesOK, NEW e \in MarketEvent, EventStream' = Append(EventStream, e),
         NEW id, NEW t, NEW side
  PROVE  Total(Untraded(EventStream', id, t, side)) =
           Total(Untraded(EventStream, id, t, side)) + UntradedIn(e, id, t, side)
<1>1. PICK events \in Seq(MarketEvent) : events = EventStream
  BY StreamType
<1>2. OneMore(Untraded(events, id, t, side), Untraded(Append(events, e), id, t, side),
              UntradedIn(e, id, t, side))
  BY EventUntraded
<1>3. QED
  BY <1>1, <1>2, SumMore, Zenon

\* Every step keeps the feed reconciled with the executions.
LEMMA FeedReconcilesInductive ==
  ASSUME SumLaws, CommandFlow, RouterSound, RouterSound', CallState, QueuesOK,
         FeedReconciles, [Next]_vars
  PROVE  FeedReconciles'
<1> SUFFICES ASSUME NEW u \in UserIds, NEW t \in INSTRUMENTS
             PROVE  Total(Announced(EventStream', u, t)) =
                      Total(Nets(executed, u, t)') + PendingNet(u, t)'
  BY Zenon DEF FeedReconciles, NetAnnounced, NetExecuted, Announced, Nets, PendingNet, NetOf,
               Registry!Signed, Registry!MakerSide
<1>1. PICK a, n, p : /\ a = Total(Announced(EventStream, u, t))
                     /\ n = Total(Nets(executed, u, t)) /\ p = PendingNet(u, t)
  OBVIOUS
<1>2. a = n + p
  BY <1>1, Zenon DEF FeedReconciles, NetAnnounced, NetExecuted, Announced, Nets, PendingNet
<1>3. n \in Int
  BY <1>1, NetsInt, Zenon DEF SumLaws
<1>4. matching # "trade" => p = 0
  BY <1>1 DEF PendingNet
<1>5. matching' # "trade" => PendingNet(u, t)' = 0
  BY DEF PendingNet
<1>6. CASE /\ AnnounceOrder /\ EventStream' = Append(EventStream, Event("add", command.body))
           /\ Event("add", command.body) \in MarketEvent
           /\ matching # "trade" /\ matching' # "trade"
  <2>1. PICK e \in MarketEvent : e = Event("add", command.body)
    BY <1>6
  <2>2. (IF e.kind = "trade" THEN NetOf(e.body, u, t) ELSE 0) = 0
    BY <2>1 DEF Event
  <2>3. Total(Announced(EventStream', u, t)) = a + 0
    BY <1>1, <1>6, <2>1, <2>2, AnnouncedMore
  <2>4. Total(Nets(executed, u, t)') = n + 0
    <3>1. OneMore(Nets(executed, u, t), Nets(executed, u, t)', 0)
      BY <1>6, ReceivedNets, Zenon
    <3>2. QED
      BY <1>1, <3>1, SumMore, Zenon
  <2>5. QED
    BY <1>2, <1>3, <1>4, <1>5, <1>6, <2>3, <2>4, SMTT(20)
<1>7. CASE /\ AnnounceTrade /\ EventStream' = Append(EventStream, Event("trade", Router!NextTrade))
           /\ Event("trade", Router!NextTrade) \in MarketEvent
           /\ matching # "trade" /\ matching' = "trade" /\ UNCHANGED routerVars
  <2>1. PICK e \in MarketEvent : e = Event("trade", Router!NextTrade)
    BY <1>7
  <2>2. PICK d : d = NetOf(Router!NextTrade, u, t)
    OBVIOUS
  <2>3. d = IF e.kind = "trade" THEN NetOf(e.body, u, t) ELSE 0
    <3>1. e.kind = "trade" /\ e.body = Router!NextTrade
      BY <2>1, SMTT(20) DEF Event
    <3>2. QED
      BY <2>2, <3>1, Zenon
  <2>4. Total(Announced(EventStream', u, t)) = a + d
    BY <1>1, <1>7, <2>1, <2>3, AnnouncedMore, SMTT(20)
  <2>5. log' = log /\ executed' = executed /\ Router!NextTrade' = Router!NextTrade
    BY <1>7, RouterUntouched
  <2>6. PendingNet(u, t)' = d
    BY <1>7, <2>2, <2>5, Zenon DEF PendingNet, NetOf, Registry!Signed, Registry!MakerSide
  <2>7. Nets(executed, u, t)' = Nets(executed, u, t)
    BY <2>5, SameNets
  <2>8. QED
    BY <1>1, <1>2, <1>3, <1>4, <1>7, <2>4, <2>6, <2>7, SMTT(20)
<1>8. CASE /\ AnnounceCancel /\ EventStream' = Append(EventStream, Event("cancel", command.body))
           /\ Event("cancel", command.body) \in MarketEvent
           /\ matching # "trade" /\ matching' # "trade" /\ UNCHANGED <<log, executed>>
  <2>1. PICK e \in MarketEvent : e = Event("cancel", command.body)
    BY <1>8
  <2>2. (IF e.kind = "trade" THEN NetOf(e.body, u, t) ELSE 0) = 0
    BY <2>1 DEF Event
  <2>3. Total(Announced(EventStream', u, t)) = a + 0
    BY <1>1, <1>8, <2>1, <2>2, AnnouncedMore, SMTT(20)
  <2>4. Nets(executed, u, t)' = Nets(executed, u, t)
    BY <1>8, SameNets
  <2>5. QED
    BY <1>1, <1>2, <1>3, <1>4, <1>5, <1>8, <2>3, <2>4, SMTT(20)
<1>9. CASE HandOverTrade /\ EventStream' = EventStream /\ matching = "trade" /\ matching' # "trade"
  <2>1. PICK d : d = NetOf(Router!NextTrade, u, t)
    OBVIOUS
  <2>2. Total(Nets(executed, u, t)') = n + d
    BY <1>1, <1>9, <2>1, ExecutedMore, Zenon
  <2>3. p = d
    BY <1>1, <1>9, <2>1 DEF PendingNet
  <2>4. d \in Int
    <3>1. PICK trade \in Trade : trade = Router!NextTrade
      BY <1>9, HandOverCredits, DueIsCredited
    <3>2. QED
      BY <2>1, <3>1, NetOfInt
  <2>5. Total(Announced(EventStream', u, t)) = a /\ PendingNet(u, t)' = 0
    BY <1>1, <1>5, <1>9, Zenon
  <2>6. QED
    BY <1>2, <1>3, <2>2, <2>3, <2>4, <2>5, SMTT(20)
<1>10. CASE /\ EventStream' = EventStream /\ UNCHANGED <<log, executed>>
            /\ \/ UNCHANGED routerVars /\ matching' = matching
               \/ matching # "trade" /\ matching' # "trade"
  <2>1. Nets(executed, u, t)' = Nets(executed, u, t)
    BY <1>10, SameNets
  <2>2. PendingNet(u, t)' = p
    <3>1. CASE UNCHANGED routerVars /\ matching' = matching
      BY <1>1, <3>1, RouterUntouched, Zenon DEF PendingNet, NetOf, Registry!Signed,
                                              Registry!MakerSide
    <3>2. CASE matching # "trade" /\ matching' # "trade"
      BY <1>4, <1>5, <3>2
    <3>3. QED
      BY <1>10, <3>1, <3>2
  <2>3. QED
    BY <1>1, <1>2, <1>10, <2>1, <2>2, Zenon
<1>11. QED
  BY <1>6, <1>7, <1>8, <1>9, <1>10, FeedSteps, Zenon DEF FeedStep

\* The same orders have the same left.
LEMMA SameLefts ==
  ASSUME NEW id, NEW t, NEW side, log' = log, NEW ex, executed' = ex
  PROVE  Lefts(executed, id, t, side)' = Lefts(ex, id, t, side)
BY Zenon DEF Lefts, Asked

\* What the orders have left are integers.
LEMMA LeftsInt ==
  ASSUME RouterSound, NEW id, NEW t, NEW side
  PROVE  Lefts(executed, id, t, side) \in Seq(Int)
<1>1. Router!TypeOK /\ executed \in Seq(Nat) /\ Len(executed) = Len(log)
  BY HistoryTypes, Zenon DEF RouterSound
<1>2. QED
  BY <1>1, LeftsElements DEF AreLefts

\* What the trade that is due takes from what the orders have left.
LEMMA LeftsLess ==
  ASSUME SumLaws, RouterSound, TradeDue, Executions, NEW id, NEW t, NEW side \in Router!Sides
  PROVE  Total(Lefts(Credited, id, t, side)) =
           Total(Lefts(executed, id, t, side))
             + UntradedIn(Event("trade", Router!NextTrade), id, t, side)
<1>1. PICK m, dm, c, dc :
        /\ TwoChanges(Lefts(executed, id, t, side), Lefts(Credited, id, t, side), m, dm, c, dc)
        /\ UntradedIn(Event("trade", Router!NextTrade), id, t, side) = dm + dc
  BY DueLefts, Zenon
<1>2. PICK s, r : s = Lefts(executed, id, t, side) /\ r = Lefts(Credited, id, t, side)
  OBVIOUS
<1>3. Total(r) = Total(s) + UntradedIn(Event("trade", Router!NextTrade), id, t, side)
  BY <1>1, <1>2, SumTwo
<1>4. QED
  BY <1>2, <1>3, Zenon

\* Every step keeps the untraded volume of the feed reconciled with the orders.
LEMMA LeftsReconcileInductive ==
  ASSUME SumLaws, CommandFlow, RouterSound, RouterSound', CallState, QueuesOK, Executions,
         LeftsReconcile, [Next]_vars
  PROVE  LeftsReconcile'
<1> SUFFICES ASSUME NEW id \in OrderIds, NEW t \in Tickers, NEW side \in Router!Sides
             PROVE  Total(Untraded(EventStream', id, t, side)) =
                      Total(Lefts(executed, id, t, side)') + PendingLeft(id, t, side)'
  BY Zenon DEF LeftsReconcile, Untraded, UntradedIn, Lefts, Asked, Router!Sides
<1>1. PICK a, n, p : /\ a = Total(Untraded(EventStream, id, t, side))
                     /\ n = Total(Lefts(executed, id, t, side))
                     /\ p = PendingLeft(id, t, side)
  OBVIOUS
<1>2. a = n + p
  BY <1>1, Zenon DEF LeftsReconcile
<1>3. n \in Int
  BY <1>1, LeftsInt, Zenon DEF SumLaws
<1>4. matching # "trade" => p = 0
  BY <1>1 DEF PendingLeft
<1>5. matching' # "trade" => PendingLeft(id, t, side)' = 0
  BY DEF PendingLeft
<1>6. CASE /\ AnnounceOrder /\ EventStream' = Append(EventStream, Event("add", command.body))
           /\ Event("add", command.body) \in MarketEvent
           /\ matching # "trade" /\ matching' # "trade"
  <2>1. PICK e \in MarketEvent : e = Event("add", command.body)
    BY <1>6
  <2>2. PICK d \in Int : d = UntradedIn(e, id, t, side)
    BY UntradedInt
  <2>3. Total(Untraded(EventStream', id, t, side)) = a + d
    <3>1. EventStream' = Append(EventStream, e)
      BY <1>6, <2>1, Zenon
    <3>2. Total(Untraded(EventStream', id, t, side)) =
            Total(Untraded(EventStream, id, t, side)) + UntradedIn(e, id, t, side)
      BY <3>1, UntradedMore, Zenon
    <3>3. QED
      BY <1>1, <2>2, <3>2, Zenon
  <2>4. Total(Lefts(executed, id, t, side)') = n + d
    <3>1. OneMore(Lefts(executed, id, t, side), Lefts(executed, id, t, side)', d)
      BY <1>6, <2>1, <2>2, ReceivedLefts, Zenon
    <3>2. QED
      BY <1>1, <3>1, SumMore, Zenon
  <2>5. p = 0 /\ PendingLeft(id, t, side)' = 0
    BY <1>4, <1>5, <1>6, Zenon
  <2>6. QED
    BY <1>2, <1>3, <2>2, <2>3, <2>4, <2>5, SMTT(20)
<1>7. CASE /\ AnnounceTrade /\ EventStream' = Append(EventStream, Event("trade", Router!NextTrade))
           /\ Event("trade", Router!NextTrade) \in MarketEvent
           /\ matching # "trade" /\ matching' = "trade" /\ UNCHANGED routerVars
  <2>1. PICK e \in MarketEvent : e = Event("trade", Router!NextTrade)
    BY <1>7
  <2>2. PICK d \in Int : d = UntradedIn(e, id, t, side)
    BY UntradedInt
  <2>3. Total(Untraded(EventStream', id, t, side)) = a + d
    <3>1. EventStream' = Append(EventStream, e)
      BY <1>7, <2>1, Zenon
    <3>2. Total(Untraded(EventStream', id, t, side)) =
            Total(Untraded(EventStream, id, t, side)) + UntradedIn(e, id, t, side)
      BY <3>1, UntradedMore, Zenon
    <3>3. QED
      BY <1>1, <2>2, <3>2, Zenon
  <2>4. log' = log /\ executed' = executed /\ Router!NextTrade' = Router!NextTrade
    BY <1>7, RouterUntouched
  <2>5. PendingLeft(id, t, side)' = d
    <3>1. Event("trade", Router!NextTrade)' = e
      BY <2>1, <2>4, Zenon DEF Event
    <3>2. PendingLeft(id, t, side)' = UntradedIn(Event("trade", Router!NextTrade)', id, t, side)
      BY <1>7, Zenon DEF PendingLeft, UntradedIn
    <3>3. QED
      BY <2>2, <3>1, <3>2, Zenon
  <2>6. Lefts(executed, id, t, side)' = Lefts(executed, id, t, side)
    BY <2>4, SameLefts
  <2>7. p = 0 /\ Total(Lefts(executed, id, t, side)') = n
    BY <1>1, <1>4, <1>7, <2>6, Zenon
  <2>8. QED
    BY <1>2, <1>3, <2>2, <2>3, <2>5, <2>7, SMTT(20)
<1>8. CASE /\ AnnounceCancel /\ EventStream' = Append(EventStream, Event("cancel", command.body))
           /\ Event("cancel", command.body) \in MarketEvent
           /\ matching # "trade" /\ matching' # "trade" /\ UNCHANGED <<log, executed>>
  <2>1. PICK e \in MarketEvent : e = Event("cancel", command.body)
    BY <1>8
  <2>2. UntradedIn(e, id, t, side) = 0
    BY <2>1 DEF Event, UntradedIn
  <2>3. Total(Untraded(EventStream', id, t, side)) = a + 0
    <3>1. EventStream' = Append(EventStream, e)
      BY <1>8, <2>1, Zenon
    <3>2. Total(Untraded(EventStream', id, t, side)) =
            Total(Untraded(EventStream, id, t, side)) + UntradedIn(e, id, t, side)
      BY <3>1, UntradedMore, Zenon
    <3>3. QED
      BY <1>1, <2>2, <3>2, Zenon
  <2>4. Lefts(executed, id, t, side)' = Lefts(executed, id, t, side)
    BY <1>8, SameLefts
  <2>5. /\ p = 0 /\ PendingLeft(id, t, side)' = 0
        /\ Total(Lefts(executed, id, t, side)') = n
    BY <1>1, <1>4, <1>5, <1>8, <2>4, Zenon
  <2>6. QED
    BY <1>2, <1>3, <2>3, <2>5, SMTT(20)
<1>9. CASE HandOverTrade /\ EventStream' = EventStream /\ matching = "trade" /\ matching' # "trade"
  <2>1. PICK d : d = UntradedIn(Event("trade", Router!NextTrade), id, t, side)
    OBVIOUS
  <2>2. TradeDue /\ Lefts(executed, id, t, side)' = Lefts(Credited, id, t, side)
    BY <1>9, HandOverCredits, SameLefts, Zenon
  <2>3. Total(Lefts(executed, id, t, side)') = n + d
    BY <1>1, <2>1, <2>2, LeftsLess, Zenon
  <2>4. p = d
    BY <1>1, <1>9, <2>1 DEF PendingLeft
  <2>5. d \in Int
    <3>1. PICK e \in MarketEvent : e = Event("trade", Router!NextTrade)
      BY <2>2, DueIsCredited, EventKinds
    <3>2. QED
      BY <2>1, <3>1, UntradedInt
  <2>6. Total(Untraded(EventStream', id, t, side)) = a /\ PendingLeft(id, t, side)' = 0
    BY <1>1, <1>5, <1>9, Zenon
  <2>7. QED
    BY <1>2, <1>3, <2>3, <2>4, <2>5, <2>6, SMTT(20)
<1>10. CASE /\ EventStream' = EventStream /\ UNCHANGED <<log, executed>>
            /\ \/ UNCHANGED routerVars /\ matching' = matching
               \/ matching # "trade" /\ matching' # "trade"
  <2>1. Lefts(executed, id, t, side)' = Lefts(executed, id, t, side)
    BY <1>10, SameLefts
  <2>2. PendingLeft(id, t, side)' = p
    <3>1. CASE UNCHANGED routerVars /\ matching' = matching
      BY <1>1, <3>1, RouterUntouched, Zenon DEF PendingLeft, UntradedIn, Event
    <3>2. CASE matching # "trade" /\ matching' # "trade"
      BY <1>4, <1>5, <3>2
    <3>3. QED
      BY <1>10, <3>1, <3>2
  <2>3. QED
    BY <1>1, <1>2, <1>10, <2>1, <2>2, Zenon
<1>11. QED
  BY <1>6, <1>7, <1>8, <1>9, <1>10, FeedSteps, Zenon DEF FeedStep

\* No order has traded more of what the feed announces than it announces.
StreamCovered ==
  \A id \in OrderIds, t \in Tickers, side \in Router!Sides :
    Total(Untraded(EventStream, id, t, side)) >= 0

\* It follows from what the orders have left, which is never negative.
LEMMA LeftsCover ==
  ASSUME SumLaws, RouterSound, CallState, Executions, LeftsReconcile
  PROVE  StreamCovered
<1> SUFFICES ASSUME NEW id \in OrderIds, NEW t \in Tickers, NEW side \in Router!Sides
             PROVE  Total(Untraded(EventStream, id, t, side)) >= 0
  BY Zenon DEF StreamCovered
<1>1. PICK n : n = Total(Lefts(executed, id, t, side))
  OBVIOUS
<1>2. Total(Untraded(EventStream, id, t, side)) = n + PendingLeft(id, t, side)
  BY <1>1, Zenon DEF LeftsReconcile
<1>3. CASE matching = "trade"
  <2>1. TradeDue
    BY <1>3 DEF CallState
  <2>2. PICK r : r = Lefts(Credited, id, t, side)
    OBVIOUS
  <2>3. r \in Seq(Int) /\ Len(r) = Len(log)
    <3>1. Router!TypeOK /\ Credited \in Seq(Nat) /\ Len(Credited) = Len(log)
      BY <2>1, DueIsCredited DEF RouterSound
    <3>2. QED
      BY <2>2, <3>1, LeftsElements DEF AreLefts
  <2>4. \A a \in 1..Len(log) : r[a] >= 0
    BY <2>1, <2>2, DueLefts, SMTT(20)
  <2>5. Total(r) >= 0
    BY <2>3, <2>4 DEF SumLaws
  <2>6. Total(r) = n + PendingLeft(id, t, side)
    <3>1. PendingLeft(id, t, side) = UntradedIn(Event("trade", Router!NextTrade), id, t, side)
      BY <1>3, Zenon DEF PendingLeft
    <3>2. QED
      BY <1>1, <2>1, <2>2, <3>1, LeftsLess, Zenon
  <2>7. QED
    BY <1>2, <2>5, <2>6, Zenon
<1>4. CASE matching # "trade"
  <2>1. PICK s : s = Lefts(executed, id, t, side)
    OBVIOUS
  <2>2. /\ Router!TypeOK /\ executed \in Seq(Nat) /\ Len(executed) = Len(log)
        /\ \A a \in 1..Len(log) : executed[a] \in Nat /\ Asked(log[a]) \in Nat
    BY HistoryTypes DEF RouterSound
  <2>3. AreLefts(s, executed, id, t, side)
    BY <2>1, <2>2, LeftsElements
  <2>4. s \in Seq(Int) /\ Len(s) = Len(log)
    BY <2>3 DEF AreLefts
  <2>5. ASSUME NEW a \in 1..Len(log)
        PROVE  s[a] >= 0
    <3>1. executed[a] <= Asked(log[a])
      BY DEF Executions
    <3>2. s[a] = Asked(log[a]) - executed[a] \/ s[a] = 0
      BY <2>3, Zenon DEF AreLefts
    <3>3. QED
      BY <2>2, <3>1, <3>2, SMTT(20)
  <2>6. Total(s) >= 0 /\ Total(s) \in Int
    BY <2>4, <2>5 DEF SumLaws
  <2>7. PendingLeft(id, t, side) = 0
    BY <1>4 DEF PendingLeft
  <2>8. QED
    BY <1>1, <1>2, <2>1, <2>6, <2>7
<1>5. QED
  BY <1>3, <1>4

\* The stream only grows at its end, so its prefixes stay covered.
LEMMA TradesFollowInductive ==
  ASSUME CommandFlow, RouterSound, CallState, QueuesOK, TradesFollowTheirOrders,
         StreamCovered', [Next]_vars
  PROVE  TradesFollowTheirOrders'
<1> SUFFICES ASSUME NEW k \in DOMAIN EventStream', NEW id \in OrderIds, NEW t \in Tickers,
                    NEW side \in Router!Sides
             PROVE  Total(Untraded(SubSeq(EventStream', 1, k), id, t, side)) >= 0
  BY Zenon DEF TradesFollowTheirOrders, UntradedVolume, Untraded, UntradedIn, Router!Sides
<1>1. ASSUME NEW j \in DOMAIN EventStream
      PROVE  Total(Untraded(SubSeq(EventStream, 1, j), id, t, side)) >= 0
  BY Zenon DEF TradesFollowTheirOrders, UntradedVolume, Untraded
<1>2. CASE EventStream' = EventStream
  BY <1>1, <1>2, Zenon
<1>3. ASSUME NEW e \in MarketEvent, EventStream' = Append(EventStream, e)
      PROVE  Total(Untraded(SubSeq(EventStream', 1, k), id, t, side)) >= 0
  <2>1. PICK events \in Seq(MarketEvent) : events = EventStream
    BY StreamType
  <2>2. PICK more : more = Append(events, e) /\ more = EventStream'
    BY <1>3, <2>1
  <2>3. CASE k \in DOMAIN events /\ SubSeq(more, 1, k) = SubSeq(events, 1, k)
    BY <1>1, <2>1, <2>2, <2>3, Zenon
  <2>4. CASE SubSeq(more, 1, k) = more
    <3>1. Total(Untraded(EventStream', id, t, side)) >= 0
      BY Zenon DEF StreamCovered, Untraded, UntradedIn, Router!Sides
    <3>2. QED
      BY <2>2, <2>4, <3>1, Zenon
  <2>5. QED
    BY <2>2, <2>3, <2>4, GrownPrefix, Zenon
<1>4. QED
  BY <1>2, <1>3, StreamSteps, Zenon DEF StreamStep

-----------------------------------------------------------------------------
(* The inductive invariant.                                                 *)

ExchangeInv ==
  /\ CommandFlow /\ CallState /\ QueuesOK /\ ThreadStates /\ Executions /\ Inventories
  /\ PositionsReconcile /\ FeedReconciles /\ LeftsReconcile

\* A sum over nothing.
LEMMA SumOfNone ==
  ASSUME SumLaws, NEW s, NEW f, s = <<>>, DOMAIN f = DOMAIN s, f = [i \in DOMAIN f |-> f[i]]
  PROVE  Total(f) = 0
<1>1. f \in Seq(Int) /\ Len(f) = 0
  OBVIOUS
<1>2. QED
  BY <1>1, Zenon DEF SumLaws

\* Nobody holds anything when the process starts.
LEMMA InventoriesInit ==
  ASSUME Init
  PROVE  /\ Inventories
         /\ \A u \in UserIds, t \in INSTRUMENTS : Registry!Position(users[u], t) = 0
<1>1. users = [u \in UserIds |-> [t \in {} |-> Registry!EmptyHolding]] /\ inventory = "pop"
  BY Zenon DEF Init, Registry!NoHoldings, Participants
<1>2. PICK none : none = [t \in {} |-> Registry!EmptyHolding]
  OBVIOUS
<1>3. \A u \in UserIds : users[u] = none
  BY <1>1, <1>2
<1>4. DOMAIN none = {} /\ none = [t \in DOMAIN none |-> none[t]]
  BY <1>2
<1>5. ASSUME NEW t
      PROVE  Registry!HoldingOf(none, t) = Registry!EmptyHolding
  BY <1>4, Zenon DEF Registry!HoldingOf
<1>6. Holds(Registry!EmptyHolding) /\ Registry!EmptyHolding.volume = 0
  BY DEF Holds, Registry!EmptyHolding
<1>7. users = [u \in UserIds |-> users[u]]
  BY <1>1
<1>8. Kept(users)
  BY <1>3, <1>4, <1>5, <1>6, <1>7, Zenon DEF Kept
<1>9. QED
  BY <1>1, <1>3, <1>5, <1>6, <1>8 DEF Inventories, Registry!Position

\* The invariant holds when the process starts.
LEMMA ExchangeInvInit ==
  ASSUME SumLaws, Init
  PROVE  ExchangeInv /\ TradesFollowTheirOrders
<1>1. /\ log = <<>> /\ executed = <<>> /\ tradeQueue = <<>> /\ EventStream = <<>>
      /\ inventory = "pop" /\ matching = "pop"
  <2>1. /\ log = <<>> /\ executed = <<>> /\ tradeQueue = <<>> /\ published = <<>>
        /\ marketDataQueue = <<>> /\ inventory = "pop" /\ matching = "pop"
    BY Zenon DEF Init, Router!Init
  <2>2. QED
    BY <2>1 DEF EventStream
<1>2. CommandFlow /\ CallState /\ QueuesOK /\ ThreadStates
  BY FlowInit
<1>3. Executions
  BY <1>1 DEF Executions
<1>4. ASSUME NEW u, NEW t
      PROVE  Total(Queued(u, t)) = 0 /\ Total(Nets(executed, u, t)) = 0
  <2>1. PICK f : f = Queued(u, t)
    OBVIOUS
  <2>2. DOMAIN f = DOMAIN tradeQueue /\ f = [i \in DOMAIN f |-> f[i]]
    BY <2>1 DEF Queued
  <2>3. PICK g : g = Nets(executed, u, t)
    OBVIOUS
  <2>4. DOMAIN g = DOMAIN log /\ g = [i \in DOMAIN g |-> g[i]]
    BY <2>3 DEF Nets
  <2>5. Total(f) = 0
    BY <1>1, <2>2, SumOfNone, Zenon
  <2>6. Total(g) = 0
    BY <1>1, <2>4, SumOfNone, Zenon
  <2>7. QED
    BY <2>1, <2>3, <2>5, <2>6, Zenon
<1>5. PositionsReconcile
  <2>1. ASSUME NEW u \in UserIds, NEW t \in INSTRUMENTS
        PROVE  /\ Registry!Position(users[u], t) = 0 /\ NetQueued(u, t) = 0
               /\ NetExecuted(u, t) = 0
    <3>1. NetQueued(u, t) = Total(Queued(u, t)) /\ NetExecuted(u, t) = Total(Nets(executed, u, t))
      BY Zenon DEF NetQueued, NetExecuted, Queued, Nets
    <3>2. QED
      BY <1>4, <3>1, InventoriesInit, Zenon
  <2>2. QED
    BY <2>1 DEF PositionsReconcile
<1>6. FeedReconciles
  <2>1. ASSUME NEW u, NEW t
        PROVE  NetAnnounced(EventStream, u, t) = 0 /\ NetExecuted(u, t) = 0
    <3>1. PICK f : f = Announced(EventStream, u, t)
      BY Zenon
    <3>2. DOMAIN f = DOMAIN EventStream /\ f = [i \in DOMAIN f |-> f[i]]
      BY <3>1 DEF Announced
    <3>3. Total(f) = 0
      BY <1>1, <3>2, SumOfNone, Zenon
    <3>4. /\ NetAnnounced(EventStream, u, t) = Total(f)
          /\ NetExecuted(u, t) = Total(Nets(executed, u, t))
      BY <3>1, Zenon DEF NetAnnounced, NetExecuted, Announced, Nets
    <3>5. QED
      BY <1>4, <3>3, <3>4, Zenon
  <2>2. QED
    BY <1>1, <2>1 DEF FeedReconciles
<1>7. LeftsReconcile
  <2>1. ASSUME NEW id, NEW t, NEW side
        PROVE  /\ Total(Untraded(EventStream, id, t, side)) = 0
               /\ Total(Lefts(executed, id, t, side)) = 0
    <3>1. PICK f : f = Untraded(EventStream, id, t, side)
      OBVIOUS
    <3>2. DOMAIN f = DOMAIN EventStream /\ f = [i \in DOMAIN f |-> f[i]]
      BY <3>1 DEF Untraded
    <3>3. PICK g : g = Lefts(executed, id, t, side)
      OBVIOUS
    <3>4. DOMAIN g = DOMAIN log /\ g = [i \in DOMAIN g |-> g[i]]
      BY <3>3, SMTT(20) DEF Lefts
    <3>5. Total(f) = 0
      BY <1>1, <3>2, SumOfNone, Zenon
    <3>6. Total(g) = 0
      BY <1>1, <3>4, SumOfNone, Zenon
    <3>7. QED
      BY <3>1, <3>3, <3>5, <3>6, Zenon
  <2>2. QED
    BY <1>1, <2>1 DEF LeftsReconcile, PendingLeft
<1>8. TradesFollowTheirOrders
  BY <1>1 DEF TradesFollowTheirOrders
<1>9. QED
  BY <1>2, <1>3, <1>5, <1>6, <1>7, <1>8, InventoriesInit, Zenon DEF ExchangeInv

\* Every step keeps the invariant, given what the router guarantees.
LEMMA ExchangeInvInductive ==
  ASSUME SumLaws, FillLaws, RouterSound, RouterSound', ExchangeInv, [Next]_vars
  PROVE  ExchangeInv'
<1>1. /\ CommandFlow /\ CallState /\ QueuesOK /\ ThreadStates /\ Executions /\ Inventories
      /\ PositionsReconcile /\ FeedReconciles /\ LeftsReconcile
  BY DEF ExchangeInv
<1>2. CommandFlow' /\ CallState' /\ QueuesOK' /\ ThreadStates'
  BY <1>1, CommandFlowInductive, CallStateInductive, QueuesInductive, ThreadStatesInductive
<1>3. Executions' /\ Inventories'
  BY <1>1, ExecutionsInductive, InventoriesInductive
<1>4. PositionsReconcile'
  BY <1>1, <1>2, PositionsReconcileInductive
<1>5. FeedReconciles' /\ LeftsReconcile'
  BY <1>1, FeedReconcilesInductive, LeftsReconcileInductive
<1>6. QED
  BY <1>2, <1>3, <1>4, <1>5 DEF ExchangeInv

-----------------------------------------------------------------------------
(* The router.                                                              *)

\* What a step of the router is, for as many orders as clients send messages.
RouterStep ==
  \/ \E o \in Router!OrderAdd : /\ Len(log) < MaxOrders + MaxCancels
                                /\ Router!OnOrderAdd(o) \/ Router!DropOrderAdd(o)
  \/ Router!Match
  \/ Router!FinishOrderAdd
  \/ \E c \in Router!OrderCancel : Router!OnOrderCancel(c) \/ Router!RejectCancel(c)
  \/ UNCHANGED routerVars

\* Whatever the threads do, the router only takes its own steps.
LEMMA RouterSteps ==
  ASSUME CommandFlow, [Next]_vars
  PROVE  RouterStep
<1>1. CASE AnnounceOrder
  <2>1. command.body \in Router!OrderAdd
    BY <1>1, CommandKinds DEF CommandFlow, AnnounceOrder
  <2>2. Len(log) < MaxOrders + MaxCancels
    <3>1. /\ ordersSent \in 0..MaxOrders /\ cancelsSent \in 0..MaxCancels /\ Len(log) \in Nat
          /\ inboundQueue \in Seq(Command) /\ InAnnouncement = 1
          /\ Len(log) + Len(inboundQueue) + InDispatch + InAnnouncement <= ordersSent + cancelsSent
      BY <1>1 DEF CommandFlow, AnnounceOrder, InAnnouncement
    <3>2. Len(inboundQueue) \in Nat /\ InDispatch \in Nat
      BY <3>1 DEF InDispatch
    <3>3. MaxOrders \in Nat /\ MaxCancels \in Nat
      BY ExchangeAssumption
    <3>4. QED
      BY <3>1, <3>2, <3>3, SMTT(20)
  <2>3. QED
    BY <1>1, <2>1, <2>2, Zenon DEF AnnounceOrder, RouterStep
<1>2. CASE CancelOrder
  <2>1. command.body \in Router!OrderCancel
    BY <1>2, CommandKinds DEF CommandFlow, CancelOrder
  <2>2. QED
    BY <1>2, <2>1, Zenon DEF CancelOrder, RouterStep
<1>3. CASE HandOverTrade \/ FinishOrder
  BY <1>3, Zenon DEF HandOverTrade, FinishOrder, RouterStep
<1>4. CASE UNCHANGED routerVars
  BY <1>4 DEF RouterStep
<1>5. CASE MatchingPop \/ MatchingFindsEmpty \/ MatchingChecksFlag \/ AnnounceTrade \/ AnnounceCancel
  BY <1>4, <1>5, Zenon DEF MatchingPop, MatchingFindsEmpty, MatchingChecksFlag, AnnounceTrade,
                           AnnounceCancel
<1>6. CASE \/ ClientStep \/ GatewayStep \/ InventoryStep \/ MarketDataStep \/ SignalStep
           \/ MainStep \/ UNCHANGED vars
  BY <1>4, <1>6, Zenon DEF ClientStep, GatewayStep, GatewayFrame, InventoryStep, MarketDataStep,
                    SignalStep, MainStep, MainFrame, vars
<1>7. QED
  BY <1>1, <1>2, <1>3, <1>5, <1>6, Zenon DEF Next, Exited, MatchingStep

-----------------------------------------------------------------------------
(* Summary, in the form the temporal proofs use.                            *)

\* The initial state satisfies the invariant.
LEMMA StartsInvariant == SumLaws /\ Init => ExchangeInv /\ TradesFollowTheirOrders
BY ExchangeInvInit, Zenon

\* Every step keeps it, of a sound router.
LEMMA StaysInvariant ==
  SumLaws /\ FillLaws /\ RouterSound /\ RouterSound' /\ ExchangeInv /\ [Next]_vars => ExchangeInv'
BY ExchangeInvInductive, Zenon

\* The invariant includes these properties.
LEMMA InvariantSuffices ==
  RouterSound /\ ExchangeInv => /\ TypeOK /\ MidKnownAtSettlement
                                /\ PositionsReconcile /\ FeedReconciles
BY TypesSuffice, ExecutionsSuffice, Zenon DEF ExchangeInv

\* No event takes more than was announced.
LEMMA StaysCovered == SumLaws /\ RouterSound /\ ExchangeInv => StreamCovered
BY LeftsCover, Zenon DEF ExchangeInv

\* So every prefix of the feed announces what it trades.
LEMMA StaysFollowing ==
  RouterSound /\ ExchangeInv /\ StreamCovered' /\ TradesFollowTheirOrders /\ [Next]_vars
    => TradesFollowTheirOrders'
BY TradesFollowInductive, Zenon DEF ExchangeInv
=============================================================================
