-------------------------------- MODULE Wire --------------------------------
(***************************************************************************)
(* The messages of src/common/net/wire.hpp and their mirror in               *)
(* src/tools/wire.py: the packed structs as sequences of cells, where an     *)
(* integer of any width is one cell, a ticker field is WIRE_TICKER_SIZE      *)
(* cells, and a union is as long as its longest member.  The C++ side        *)
(* decodes inbound messages and encodes events; the Python side does the     *)
(* opposite.                                                                *)
(***************************************************************************)
EXTENDS Integers, Sequences

CONSTANT MAX_TICKER_LENGTH

ASSUME WireAssumption == MAX_TICKER_LENGTH \in Nat

WIRE_TICKER_SIZE == MAX_TICKER_LENGTH + 1

NUL == 0
Ticker == {t \in Seq(1..127) : Len(t) <= MAX_TICKER_LENGTH}

\* InboundWireType and MarketEventType, which has Trade as well.
TypeOrderAdd == 0
TypeOrderCancel == 1
TypeTrade == 2

\* The sizes of the unions, those of their longest members, and of the
\* messages, which a type cell precedes.
INBOUND_UNION_SIZE == WIRE_TICKER_SIZE + 5
MARKET_DATA_UNION_SIZE == WIRE_TICKER_SIZE + 7
INBOUND_MESSAGE_SIZE == 1 + INBOUND_UNION_SIZE
MARKET_DATA_MESSAGE_SIZE == 1 + MARKET_DATA_UNION_SIZE

\* cells followed by zeros: a value-initialised union, ljust.
Padded(cells, size) == [i \in 1..size |-> IF i <= Len(cells) THEN cells[i] ELSE 0]

\* The cells before the first NUL: strnlen, split(b"\0", 1)[0].
UpToNul(cells) ==
  LET n == CHOOSE k \in 0..Len(cells) :
             /\ \A i \in 1..k : cells[i] # NUL
             /\ k < Len(cells) => cells[k + 1] = NUL
  IN  SubSeq(cells, 1, n)

-----------------------------------------------------------------------------
(* wire.hpp *)

EncodeTicker(ticker) == Padded(ticker, WIRE_TICKER_SIZE)

\* A field that ends in a NUL, as wire.py writes it, fits a Ticker.
DecodeTicker(cells) == UpToNul(cells)

EncodeSide(side) == IF side = "Buy" THEN 0 ELSE 1
DecodeSide(cell) == IF cell = 0 THEN "Buy" ELSE "Sell"

DecodeOrderAdd(w) ==
  [orderId |-> w[1], userId |-> w[2],
   ticker |-> DecodeTicker(SubSeq(w, 3, 2 + WIRE_TICKER_SIZE)),
   side |-> DecodeSide(w[3 + WIRE_TICKER_SIZE]),
   price |-> w[4 + WIRE_TICKER_SIZE], volume |-> w[5 + WIRE_TICKER_SIZE]]

DecodeOrderCancel(w) ==
  [orderId |-> w[1], userId |-> w[2],
   ticker |-> DecodeTicker(SubSeq(w, 3, 2 + WIRE_TICKER_SIZE))]

\* The InboundCommand that a message holds: anything but OrderAdd is OrderCancel.
DecodeInboundMessage(message) ==
  IF message[1] = TypeOrderAdd
  THEN [type |-> "OrderAdd", value |-> DecodeOrderAdd(Tail(message))]
  ELSE [type |-> "OrderCancel", value |-> DecodeOrderCancel(Tail(message))]

EncodeOrderAddEvent(order) ==
  <<TypeOrderAdd>> \o Padded(<<order.orderId, order.userId>> \o EncodeTicker(order.ticker)
                               \o <<EncodeSide(order.side), order.price, order.volume>>,
                             MARKET_DATA_UNION_SIZE)

EncodeOrderCancelEvent(cancel) ==
  <<TypeOrderCancel>> \o Padded(<<cancel.orderId, cancel.userId>>
                                  \o EncodeTicker(cancel.ticker),
                                MARKET_DATA_UNION_SIZE)

EncodeTradeEvent(trade) ==
  <<TypeTrade>> \o Padded(<<trade.maker, trade.taker, trade.makerOrderId, trade.takerOrderId>>
                            \o EncodeTicker(trade.ticker)
                            \o <<EncodeSide(trade.takerSide), trade.price, trade.volume>>,
                          MARKET_DATA_UNION_SIZE)

-----------------------------------------------------------------------------
(* wire.py; encode_ticker raises when the ticker does not fit. *)

Fits(ticker) == Len(ticker) < WIRE_TICKER_SIZE

encode_ticker(ticker) == Padded(ticker, WIRE_TICKER_SIZE)
decode_ticker(raw) == UpToNul(raw)

encode_order_add(order) ==
  <<TypeOrderAdd>> \o Padded(<<order.orderId, order.userId>> \o encode_ticker(order.ticker)
                               \o <<EncodeSide(order.side), order.price, order.volume>>,
                             INBOUND_UNION_SIZE)

\* Mutant: user and order change places.
EncodeCancelUserFirst(cancel) ==
  <<TypeOrderCancel>> \o Padded(<<cancel.userId, cancel.orderId>>
                                  \o encode_ticker(cancel.ticker),
                                INBOUND_UNION_SIZE)

encode_order_cancel(cancel) ==
  <<TypeOrderCancel>> \o Padded(<<cancel.orderId, cancel.userId>>
                                  \o encode_ticker(cancel.ticker),
                                INBOUND_UNION_SIZE)

\* The three branches of decode_market_data, each on the payload of its type.
UnpackOrderAdd(payload) ==
  [type |-> "OrderAdd", orderId |-> payload[1], userId |-> payload[2],
   ticker |-> decode_ticker(SubSeq(payload, 3, 2 + WIRE_TICKER_SIZE)),
   side |-> DecodeSide(payload[3 + WIRE_TICKER_SIZE]),
   price |-> payload[4 + WIRE_TICKER_SIZE], volume |-> payload[5 + WIRE_TICKER_SIZE]]

UnpackOrderCancel(payload) ==
  [type |-> "OrderCancel", orderId |-> payload[1], userId |-> payload[2],
   ticker |-> decode_ticker(SubSeq(payload, 3, 2 + WIRE_TICKER_SIZE))]

UnpackTrade(payload) ==
  [type |-> "Trade", maker |-> payload[1], taker |-> payload[2],
   makerOrderId |-> payload[3], takerOrderId |-> payload[4],
   ticker |-> decode_ticker(SubSeq(payload, 5, 4 + WIRE_TICKER_SIZE)),
   takerSide |-> DecodeSide(payload[5 + WIRE_TICKER_SIZE]),
   price |-> payload[6 + WIRE_TICKER_SIZE], volume |-> payload[7 + WIRE_TICKER_SIZE]]

\* The event that a datagram holds; one of another length raises ValueError.
decode_market_data(data) ==
  IF Len(data) # MARKET_DATA_MESSAGE_SIZE THEN [type |-> "ValueError"]
  ELSE IF data[1] = TypeOrderAdd THEN UnpackOrderAdd(Tail(data))
  ELSE IF data[1] = TypeOrderCancel THEN UnpackOrderCancel(Tail(data))
  ELSE IF data[1] = TypeTrade THEN UnpackTrade(Tail(data))
  ELSE [type |-> "Unknown"]
=============================================================================
