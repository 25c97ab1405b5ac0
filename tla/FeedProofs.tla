----------------------------- MODULE FeedProofs -----------------------------
(***************************************************************************)
(* Proofs about Wire and Feed, for all tickers, ids, prices, volumes and any *)
(* number of orders.                                                        *)
(*                                                                         *)
(* The two codecs agree: what wire.py encodes wire.hpp decodes and the other *)
(* way round.                                                               *)
(*                                                                         *)
(* With the generator as the only client, the listener mirrors the engines'  *)
(* books and cancelled orders leave them.  The state of the engines is seen  *)
(* through the history of the router: which orders have volume left.  What   *)
(* its steps do to that history is a hypothesis of the lemmas; the section   *)
(* before the theorems takes it from RouterIndexProofs.                     *)
(***************************************************************************)
EXTENDS Feed, WellFoundedInduction, TLAPS

-----------------------------------------------------------------------------
(* Facts about sequences. *)

\* A sequence over a set is one over any larger set.
LEMMA SeqMonotonic ==
  ASSUME NEW S, NEW T, NEW seq \in Seq(S), S \subseteq T
  PROVE  seq \in Seq(T)
OBVIOUS

\* The elements and the length of a sequence.
LEMMA ElementOfSeq ==
  ASSUME NEW S, NEW seq \in Seq(S), NEW n \in 1..Len(seq)
  PROVE  seq[n] \in S
OBVIOUS

LEMMA LenProperties ==
  ASSUME NEW S, NEW seq \in Seq(S)
  PROVE  Len(seq) \in Nat /\ seq \in [1..Len(seq) -> S] /\ DOMAIN seq = 1..Len(seq)
OBVIOUS

\* Sequences are equal when they are so at every place.
LEMMA SeqEqual ==
  ASSUME NEW S, NEW s \in Seq(S), NEW t \in Seq(S), Len(s) = Len(t),
         \A i \in 1..Len(s) : s[i] = t[i]
  PROVE  s = t
OBVIOUS

\* Two sequences one after the other.
LEMMA ConcatProperties ==
  ASSUME NEW S, NEW s1 \in Seq(S), NEW s2 \in Seq(S)
  PROVE  /\ s1 \o s2 \in Seq(S) /\ Len(s1 \o s2) = Len(s1) + Len(s2)
         /\ \A i \in 1..(Len(s1) + Len(s2)) :
              (s1 \o s2)[i] = IF i <= Len(s1) THEN s1[i] ELSE s2[i - Len(s1)]
OBVIOUS

\* Nothing before or after a sequence.
LEMMA ConcatEmptySeq ==
  ASSUME NEW S, NEW seq \in Seq(S)
  PROVE  seq \o <<>> = seq /\ <<>> \o seq = seq
OBVIOUS

\* A part of a sequence.
LEMMA SubSeqProperties ==
  ASSUME NEW S, NEW s, NEW m \in Int, NEW n \in Int, \A i \in m..n : s[i] \in S
  PROVE  /\ SubSeq(s, m, n) \in Seq(S)
         /\ Len(SubSeq(s, m, n)) = IF m <= n THEN n - m + 1 ELSE 0
         /\ \A i \in 1..(n - m + 1) : SubSeq(s, m, n)[i] = s[m + i - 1]
OBVIOUS

\* The first element of a sequence, and the others.
LEMMA HeadTailProperties ==
  ASSUME NEW S, NEW s \in Seq(S), s # <<>>
  PROVE  /\ Head(s) \in S /\ Tail(s) \in Seq(S) /\ Len(Tail(s)) = Len(s) - 1
         /\ \A i \in 1..Len(Tail(s)) : Tail(s)[i] = s[i + 1]
OBVIOUS

-----------------------------------------------------------------------------
(* The wire codecs. *)

\* The fields of the messages, as both codecs take them.
OrderAddMessage ==
  [orderId : Int, userId : Int, ticker : Ticker, side : {"Buy", "Sell"},
   price : Int, volume : Int]
OrderCancelMessage == [orderId : Int, userId : Int, ticker : Ticker]
TradeMessage ==
  [maker : Int, taker : Int, makerOrderId : Int, takerOrderId : Int, ticker : Ticker,
   takerSide : {"Buy", "Sell"}, price : Int, volume : Int]

-----------------------------------------------------------------------------
\* Padding keeps the cells and reaches the size.
LEMMA PaddedCells ==
  ASSUME NEW c \in Seq(Int), NEW size \in Nat, Len(c) <= size
  PROVE  /\ Padded(c, size) \in Seq(Int)
         /\ Len(Padded(c, size)) = size
         /\ \A i \in 1..Len(c) : Padded(c, size)[i] = c[i]
         /\ \A i \in (Len(c) + 1)..size : Padded(c, size)[i] = 0
<1>1. Len(c) \in Nat /\ \A i \in 1..Len(c) : c[i] \in Int
  BY ElementOfSeq, LenProperties
<1>2. Padded(c, size) \in [1..size -> Int]
  BY <1>1 DEF Padded
<1>3. Padded(c, size) \in Seq(Int)
  BY <1>2
<1>4. Len(Padded(c, size)) = size
  BY <1>2, <1>3
<1> QED
  BY <1>1, <1>3, <1>4 DEF Padded

\* A struct with a field f, the cells before it and the cells after it.
Packed(h, f, r, size) == Padded(h \o f \o r, size)

IsPacked(c, h, f, r, size) ==
  /\ c \in Seq(Int) /\ Len(c) = size
  /\ \A i \in 1..Len(h) : c[i] = h[i]
  /\ \A i \in 1..Len(f) : c[Len(h) + i] = f[i]
  /\ \A i \in 1..Len(r) : c[Len(h) + Len(f) + i] = r[i]

\* The same where the field is that of a ticker t.
IsStruct(c, h, t, r, size) ==
  /\ c \in Seq(Int) /\ Len(c) = size
  /\ \A i \in 1..Len(h) : c[i] = h[i]
  /\ UpToNul(SubSeq(c, Len(h) + 1, Len(h) + WIRE_TICKER_SIZE)) = t
  /\ \A i \in 1..Len(r) : c[Len(h) + WIRE_TICKER_SIZE + i] = r[i]

\* Cells that stand before, in and after a field keep their places in a
\* padded struct.
LEMMA PackedCells ==
  ASSUME NEW h \in Seq(Int), NEW f \in Seq(Int), NEW r \in Seq(Int), NEW size \in Nat,
         Len(h) + Len(f) + Len(r) <= size
  PROVE  IsPacked(Packed(h, f, r, size), h, f, r, size)
<1> DEFINE hf == h \o f
           s == hf \o r
           c == Padded(s, size)
<1>1. Len(h) \in Nat /\ Len(f) \in Nat /\ Len(r) \in Nat
  BY LenProperties
<1>2. /\ hf \in Seq(Int)
      /\ Len(hf) = Len(h) + Len(f)
      /\ \A i \in 1..(Len(h) + Len(f)) :
           hf[i] = IF i <= Len(h) THEN h[i] ELSE f[i - Len(h)]
  BY ConcatProperties
<1> HIDE DEF hf
<1>3. /\ s \in Seq(Int)
      /\ Len(s) = Len(hf) + Len(r)
      /\ \A i \in 1..(Len(hf) + Len(r)) :
           s[i] = IF i <= Len(hf) THEN hf[i] ELSE r[i - Len(hf)]
  <2>1. hf \in Seq(Int)
    BY <1>2
  <2> QED
    BY <2>1, ConcatProperties
<1> HIDE DEF s
<1>8. /\ Len(hf) = Len(h) + Len(f) /\ Len(s) = Len(h) + Len(f) + Len(r)
  BY <1>1, <1>2, <1>3
<1>9. Len(s) <= size
  BY <1>8
<1>4. c \in Seq(Int) /\ Len(c) = size /\ \A i \in 1..Len(s) : c[i] = s[i]
  BY <1>3, <1>9, PaddedCells, Zenon
<1> HIDE DEF c
<1>5. ASSUME NEW i \in 1..Len(h) PROVE c[i] = h[i]
  <2>1. i \in 1..Len(s) /\ i \in 1..(Len(hf) + Len(r)) /\ i <= Len(hf) /\ i <= Len(h)
        /\ i \in 1..(Len(h) + Len(f))
    BY <1>1, <1>8
  <2>2. c[i] = s[i] /\ s[i] = hf[i]
    BY <2>1, <1>3, <1>4
  <2> QED
    BY <2>1, <2>2, <1>2
<1>6. ASSUME NEW i \in 1..Len(f) PROVE c[Len(h) + i] = f[i]
  <2> DEFINE k == Len(h) + i
  <2>1. k \in 1..(Len(h) + Len(f)) /\ ~(k <= Len(h)) /\ k - Len(h) = i
    BY <1>1
  <2>4. k \in 1..Len(s) /\ k \in 1..(Len(hf) + Len(r)) /\ k <= Len(hf)
    BY <1>1, <1>8
  <2> HIDE DEF k
  <2>2. c[k] = s[k] /\ s[k] = hf[k]
    BY <2>4, <1>3, <1>4, Zenon
  <2>3. hf[k] = f[i]
    BY <2>1, <1>2, Zenon
  <2> QED
    BY <2>2, <2>3 DEF k
<1>7. ASSUME NEW i \in 1..Len(r) PROVE c[Len(h) + Len(f) + i] = r[i]
  <2> DEFINE k == Len(h) + Len(f) + i
  <2>1. k \in 1..Len(s) /\ k \in 1..(Len(hf) + Len(r)) /\ ~(k <= Len(hf)) /\ k - Len(hf) = i
    BY <1>1, <1>8
  <2> HIDE DEF k
  <2>2. c[k] = s[k] /\ s[k] = r[i]
    BY <2>1, <1>3, <1>4, Zenon
  <2> QED
    BY <2>2 DEF k
<1> QED
  BY <1>4, <1>5, <1>6, <1>7 DEF IsPacked, Packed, hf, s, c

-----------------------------------------------------------------------------
\* A padded ticker reads back as the ticker: padding leaves a NUL behind it, and
\* a ticker holds none.
LEMMA TickerRoundTrip ==
  ASSUME NEW t \in Ticker
  PROVE  /\ t \in Seq(Int)
         /\ Padded(t, WIRE_TICKER_SIZE) \in Seq(Int)
         /\ Len(Padded(t, WIRE_TICKER_SIZE)) = WIRE_TICKER_SIZE
         /\ UpToNul(Padded(t, WIRE_TICKER_SIZE)) = t
<1> DEFINE n == WIRE_TICKER_SIZE
           c == Padded(t, n)
           Ends(k) == /\ \A i \in 1..k : c[i] # NUL
                      /\ k < Len(c) => c[k + 1] = NUL
<1>1. n \in Nat /\ t \in Seq(1..127) /\ Len(t) \in Nat /\ Len(t) < n
  BY WireAssumption DEF Ticker, WIRE_TICKER_SIZE
<1>2. t \in Seq(Int)
  <2>1. 1..127 \subseteq Int
    OBVIOUS
  <2> QED
    BY <2>1, <1>1, SeqMonotonic, Zenon
<1>3. /\ c \in Seq(Int) /\ Len(c) = n
      /\ \A i \in 1..Len(t) : c[i] = t[i]
      /\ \A i \in (Len(t) + 1)..n : c[i] = 0
  BY <1>1, <1>2, PaddedCells
<1>4. ASSUME NEW i \in 1..Len(t) PROVE t[i] # 0
  <2>1. t[i] \in 1..127
    BY <1>1, ElementOfSeq
  <2>2. \A x \in 1..127 : x # 0
    OBVIOUS
  <2> QED
    BY <2>1, <2>2, Zenon
<1> HIDE DEF n, c
<1>5. Len(t) \in 0..Len(c) /\ Ends(Len(t))
  BY <1>1, <1>3, <1>4 DEF NUL
<1>6. ASSUME NEW k \in 0..Len(c), Ends(k) PROVE k = Len(t)
  <2>1. CASE k < Len(t)
    <3>1. k < Len(c) /\ k + 1 \in 1..Len(t)
      BY <2>1, <1>1, <1>3
    <3>2. c[k + 1] = 0
      BY <3>1, <1>6 DEF NUL
    <3> QED
      BY <3>1, <3>2, <1>3, <1>4
  <2>2. CASE k > Len(t)
    <3>1. Len(t) + 1 \in 1..k /\ Len(t) + 1 \in (Len(t) + 1)..n
      BY <2>2, <1>1, <1>3
    <3> QED
      BY <3>1, <1>6, <1>3 DEF NUL
  <2> QED
    BY <2>1, <2>2, <1>1, <1>3
<1>7. (CHOOSE k \in 0..Len(c) : Ends(k)) = Len(t)
  BY <1>5, <1>6
<1>8. UpToNul(c) = SubSeq(c, 1, Len(t))
  BY <1>7, Zenon DEF UpToNul
<1>9. SubSeq(c, 1, Len(t)) = t
  <2>1. \A i \in 1..Len(t) : c[i] \in Int
    BY <1>2, <1>3, ElementOfSeq
  <2>2. /\ SubSeq(c, 1, Len(t)) \in Seq(Int)
        /\ Len(SubSeq(c, 1, Len(t))) = Len(t)
        /\ \A i \in 1..Len(t) : SubSeq(c, 1, Len(t))[i] = c[i]
    BY <2>1, <1>1, SubSeqProperties
  <2> QED
    BY <2>2, <1>2, <1>3, SeqEqual
<1> QED
  BY <1>2, <1>3, <1>8, <1>9 DEF n, c

\* The field of a ticker anywhere in a message, cut out and read.
LEMMA TickerField ==
  ASSUME NEW t \in Ticker, NEW c \in Seq(Int), NEW a \in Nat, a + WIRE_TICKER_SIZE <= Len(c),
         \A i \in 1..WIRE_TICKER_SIZE : c[a + i] = Padded(t, WIRE_TICKER_SIZE)[i]
  PROVE  UpToNul(SubSeq(c, a + 1, a + WIRE_TICKER_SIZE)) = t
<1> DEFINE n == WIRE_TICKER_SIZE
           f == Padded(t, n)
           g == SubSeq(c, a + 1, a + n)
<1>1. n \in Nat \ {0}
  BY WireAssumption DEF WIRE_TICKER_SIZE
<1>2. f \in Seq(Int) /\ Len(f) = n /\ UpToNul(f) = t
  BY TickerRoundTrip
<1>3. \A i \in (a + 1)..(a + n) : c[i] \in Int
  BY <1>1, ElementOfSeq
<1>4. /\ g \in Seq(Int) /\ Len(g) = n
      /\ \A i \in 1..n : g[i] = c[a + i]
  <2> HIDE DEF n
  <2>1. a + 1 \in Int /\ a + n \in Int /\ a + 1 <= a + n /\ (a + n) - (a + 1) + 1 = n
    BY <1>1
  <2>2. /\ g \in Seq(Int)
        /\ Len(g) = IF a + 1 <= a + n THEN (a + n) - (a + 1) + 1 ELSE 0
        /\ \A i \in 1..((a + n) - (a + 1) + 1) : g[i] = c[(a + 1) + i - 1]
    BY <2>1, <1>3, SubSeqProperties
  <2>3. \A i \in 1..n : (a + 1) + i - 1 = a + i
    BY <1>1
  <2> QED
    BY <2>1, <2>2, <2>3
<1> HIDE DEF f, g, n
<1>5. g = f
  <2>1. \A i \in 1..Len(g) : g[i] = f[i]
    BY <1>4, Zenon DEF f, n
  <2> QED
    BY <2>1, <1>2, <1>4, SeqEqual
<1> QED
  BY <1>2, <1>5, Zenon DEF g, f, n

\* Sides survive their encoding as a byte.
LEMMA SideRoundTrip ==
  ASSUME NEW side \in {"Buy", "Sell"}
  PROVE  EncodeSide(side) \in Int /\ DecodeSide(EncodeSide(side)) = side
  BY DEF EncodeSide, DecodeSide

\* A struct that holds a ticker, padded to the size of its union.
LEMMA StructCells ==
  ASSUME NEW h \in Seq(Int), NEW t \in Ticker, NEW r \in Seq(Int), NEW size \in Nat,
         Len(h) + WIRE_TICKER_SIZE + Len(r) <= size
  PROVE  IsStruct(Packed(h, Padded(t, WIRE_TICKER_SIZE), r, size), h, t, r, size)
<1> DEFINE n == WIRE_TICKER_SIZE
           f == Padded(t, n)
           w == Packed(h, f, r, size)
<1>1. n \in Nat /\ Len(h) \in Nat /\ Len(r) \in Nat
  BY WireAssumption, LenProperties DEF WIRE_TICKER_SIZE
<1>2. f \in Seq(Int) /\ Len(f) = n
  BY TickerRoundTrip
<1> HIDE DEF f
<1>3. /\ w \in Seq(Int) /\ Len(w) = size
      /\ \A i \in 1..Len(h) : w[i] = h[i]
      /\ \A i \in 1..Len(f) : w[Len(h) + i] = f[i]
      /\ \A i \in 1..Len(r) : w[Len(h) + Len(f) + i] = r[i]
  <2>1. Len(h) + Len(f) + Len(r) <= size
    BY <1>2
  <2>2. IsPacked(w, h, f, r, size)
    BY <2>1, <1>2, PackedCells
  <2> HIDE DEF w
  <2> QED
    BY <2>2 DEF IsPacked
<1> HIDE DEF w
<1>4. Len(h) + n <= Len(w)
  BY <1>1, <1>3
<1>5. \A i \in 1..n : w[Len(h) + i] = Padded(t, n)[i]
  BY <1>2, <1>3 DEF f
<1>6. UpToNul(SubSeq(w, Len(h) + 1, Len(h) + n)) = t
  BY <1>1, <1>3, <1>4, <1>5, TickerField, Zenon
<1> QED
  BY <1>2, <1>3, <1>6 DEF IsStruct, w, f

IsFramed(m, type, w) == Len(m) = 1 + Len(w) /\ m[1] = type /\ Tail(m) = w

\* The type cell in front of a union is read first, and the union is the rest.
LEMMA FramedCells ==
  ASSUME NEW type \in Int, NEW w \in Seq(Int)
  PROVE  IsFramed(<<type>> \o w, type, w)
<1> DEFINE m == <<type>> \o w
<1>1. <<type>> \in Seq(Int) /\ Len(<<type>>) = 1 /\ <<type>>[1] = type /\ Len(w) \in Nat
  OBVIOUS
<1>2. m \in Seq(Int) /\ Len(m) = 1 + Len(w) /\ m[1] = type
  BY <1>1, ConcatProperties
<1>3. \A i \in 1..Len(w) : m[i + 1] = w[i]
  BY <1>1
<1> HIDE DEF m
<1>4. Tail(m) \in Seq(Int) /\ Len(Tail(m)) = Len(w)
      /\ \A i \in 1..Len(w) : Tail(m)[i] = m[i + 1]
  BY <1>1, <1>2, HeadTailProperties
<1>5. Tail(m) = w
  BY <1>3, <1>4, SeqEqual, Zenon
<1> QED
  BY <1>2, <1>5 DEF IsFramed, m

\* The struct of an order in a union: every field reads back.
LEMMA OrderAddStruct ==
  ASSUME NEW o \in OrderAddMessage, NEW size \in Nat, WIRE_TICKER_SIZE + 5 <= size
  PROVE  LET n == WIRE_TICKER_SIZE
             w == Padded(<<o.orderId, o.userId>> \o Padded(o.ticker, n)
                           \o <<EncodeSide(o.side), o.price, o.volume>>, size)
         IN  /\ w \in Seq(Int) /\ Len(w) = size
             /\ w[1] = o.orderId /\ w[2] = o.userId
             /\ UpToNul(SubSeq(w, 3, 2 + n)) = o.ticker
             /\ DecodeSide(w[3 + n]) = o.side /\ w[4 + n] = o.price /\ w[5 + n] = o.volume
<1> DEFINE n == WIRE_TICKER_SIZE
           h == <<o.orderId, o.userId>>
           r == <<EncodeSide(o.side), o.price, o.volume>>
           w == Packed(h, Padded(o.ticker, n), r, size)
<1>1. /\ o.orderId \in Int /\ o.userId \in Int /\ o.price \in Int /\ o.volume \in Int
      /\ o.ticker \in Ticker /\ o.side \in {"Buy", "Sell"} /\ n \in Nat
  BY WireAssumption DEF OrderAddMessage, WIRE_TICKER_SIZE
<1>2. EncodeSide(o.side) \in Int /\ DecodeSide(EncodeSide(o.side)) = o.side
  BY <1>1, SideRoundTrip
<1>3. h \in Seq(Int) /\ r \in Seq(Int) /\ Len(h) = 2 /\ Len(r) = 3
  BY <1>1, <1>2
<1>4. h[1] = o.orderId /\ h[2] = o.userId
      /\ r[1] = EncodeSide(o.side) /\ r[2] = o.price /\ r[3] = o.volume
  OBVIOUS
<1> HIDE DEF n, h, r
<1>5. Len(h) + n + Len(r) <= size
  BY <1>1, <1>3 DEF n
<1>6. /\ w \in Seq(Int) /\ Len(w) = size
      /\ \A i \in 1..Len(h) : w[i] = h[i]
      /\ UpToNul(SubSeq(w, Len(h) + 1, Len(h) + n)) = o.ticker
      /\ \A i \in 1..Len(r) : w[Len(h) + n + i] = r[i]
  <2>1. IsStruct(w, h, o.ticker, r, size)
    BY <1>1, <1>3, <1>5, StructCells, Zenon DEF n
  <2> HIDE DEF w
  <2> QED
    BY <2>1 DEF IsStruct, n
<1> HIDE DEF w
<1>7. w[1] = h[1] /\ w[2] = h[2]
  BY <1>3, <1>6
<1>8. w[2 + n + 1] = r[1] /\ w[2 + n + 2] = r[2] /\ w[2 + n + 3] = r[3]
  BY <1>3, <1>6
<1>9. 2 + n + 1 = 3 + n /\ 2 + n + 2 = 4 + n /\ 2 + n + 3 = 5 + n /\ 2 + 1 = 3
  BY <1>1
<1>10. UpToNul(SubSeq(w, 3, 2 + n)) = o.ticker
  BY <1>3, <1>6, <1>9
<1> QED
  BY <1>2, <1>4, <1>6, <1>7, <1>8, <1>9, <1>10 DEF Packed, w, h, r, n

\* The struct of a cancel in a union: every field reads back.
LEMMA OrderCancelStruct ==
  ASSUME NEW o \in OrderCancelMessage, NEW size \in Nat, WIRE_TICKER_SIZE + 2 <= size
  PROVE  LET n == WIRE_TICKER_SIZE
             w == Padded(<<o.orderId, o.userId>> \o Padded(o.ticker, n), size)
         IN  /\ w \in Seq(Int) /\ Len(w) = size
             /\ w[1] = o.orderId /\ w[2] = o.userId
             /\ UpToNul(SubSeq(w, 3, 2 + n)) = o.ticker
<1> DEFINE n == WIRE_TICKER_SIZE
           h == <<o.orderId, o.userId>>
           f == Padded(o.ticker, n)
           w == Packed(h, f, <<>>, size)
<1>1. o.orderId \in Int /\ o.userId \in Int /\ o.ticker \in Ticker /\ n \in Nat
  BY WireAssumption DEF OrderCancelMessage, WIRE_TICKER_SIZE
<1>2. h \in Seq(Int) /\ Len(h) = 2 /\ h[1] = o.orderId /\ h[2] = o.userId
  BY <1>1
<1>3. <<>> \in Seq(Int) /\ Len(<<>>) = 0
  OBVIOUS
<1> HIDE DEF n, h
<1>4. Len(h) + n + Len(<<>>) <= size
  BY <1>1, <1>2, <1>3 DEF n
<1>5. /\ w \in Seq(Int) /\ Len(w) = size
      /\ \A i \in 1..Len(h) : w[i] = h[i]
      /\ UpToNul(SubSeq(w, Len(h) + 1, Len(h) + n)) = o.ticker
  <2>1. IsStruct(w, h, o.ticker, <<>>, size)
    BY <1>1, <1>2, <1>3, <1>4, StructCells, Zenon DEF n
  <2> HIDE DEF w
  <2> QED
    BY <2>1 DEF IsStruct, n
<1>6. w = Padded(h \o f, size)
  <2>1. f \in Seq(Int)
    BY <1>1, TickerRoundTrip DEF n
  <2>2. h \o f \in Seq(Int)
    BY <1>2, <2>1, ConcatProperties
  <2>3. (h \o f) \o <<>> = h \o f
    BY <2>2, ConcatEmptySeq
  <2> QED
    BY <2>3 DEF Packed
<1> HIDE DEF w
<1>7. w[1] = h[1] /\ w[2] = h[2]
  BY <1>2, <1>5
<1>8. UpToNul(SubSeq(w, 3, 2 + n)) = o.ticker
  BY <1>2, <1>5
<1> QED
  BY <1>2, <1>5, <1>6, <1>7, <1>8 DEF f, h, n

\* The struct of a trade in a union: every field reads back.
LEMMA TradeStruct ==
  ASSUME NEW o \in TradeMessage, NEW size \in Nat, WIRE_TICKER_SIZE + 7 <= size
  PROVE  LET n == WIRE_TICKER_SIZE
             w == Padded(<<o.maker, o.taker, o.makerOrderId, o.takerOrderId>>
                           \o Padded(o.ticker, n)
                           \o <<EncodeSide(o.takerSide), o.price, o.volume>>, size)
         IN  /\ w \in Seq(Int) /\ Len(w) = size
             /\ w[1] = o.maker /\ w[2] = o.taker
             /\ w[3] = o.makerOrderId /\ w[4] = o.takerOrderId
             /\ UpToNul(SubSeq(w, 5, 4 + n)) = o.ticker
             /\ DecodeSide(w[5 + n]) = o.takerSide /\ w[6 + n] = o.price /\ w[7 + n] = o.volume
<1> DEFINE n == WIRE_TICKER_SIZE
           h == <<o.maker, o.taker, o.makerOrderId, o.takerOrderId>>
           r == <<EncodeSide(o.takerSide), o.price, o.volume>>
           w == Packed(h, Padded(o.ticker, n), r, size)
<1>1. /\ o.maker \in Int /\ o.taker \in Int /\ o.makerOrderId \in Int /\ o.takerOrderId \in Int
      /\ o.price \in Int /\ o.volume \in Int
      /\ o.ticker \in Ticker /\ o.takerSide \in {"Buy", "Sell"} /\ n \in Nat
  BY WireAssumption DEF TradeMessage, WIRE_TICKER_SIZE
<1>2. EncodeSide(o.takerSide) \in Int /\ DecodeSide(EncodeSide(o.takerSide)) = o.takerSide
  BY <1>1, SideRoundTrip
<1>3. h \in Seq(Int) /\ r \in Seq(Int) /\ Len(h) = 4 /\ Len(r) = 3
  BY <1>1, <1>2
<1>4. h[1] = o.maker /\ h[2] = o.taker /\ h[3] = o.makerOrderId /\ h[4] = o.takerOrderId
      /\ r[1] = EncodeSide(o.takerSide) /\ r[2] = o.price /\ r[3] = o.volume
  OBVIOUS
<1> HIDE DEF n, h, r
<1>5. Len(h) + n + Len(r) <= size
  BY <1>1, <1>3 DEF n
<1>6. /\ w \in Seq(Int) /\ Len(w) = size
      /\ \A i \in 1..Len(h) : w[i] = h[i]
      /\ UpToNul(SubSeq(w, Len(h) + 1, Len(h) + n)) = o.ticker
      /\ \A i \in 1..Len(r) : w[Len(h) + n + i] = r[i]
  <2>1. IsStruct(w, h, o.ticker, r, size)
    BY <1>1, <1>3, <1>5, StructCells, Zenon DEF n
  <2> HIDE DEF w
  <2> QED
    BY <2>1 DEF IsStruct, n
<1> HIDE DEF w
<1>7. w[1] = h[1] /\ w[2] = h[2] /\ w[3] = h[3] /\ w[4] = h[4]
  BY <1>3, <1>6
<1>8. w[4 + n + 1] = r[1] /\ w[4 + n + 2] = r[2] /\ w[4 + n + 3] = r[3]
  BY <1>3, <1>6
<1>9. 4 + n + 1 = 5 + n /\ 4 + n + 2 = 6 + n /\ 4 + n + 3 = 7 + n /\ 4 + 1 = 5
  BY <1>1
<1>10. UpToNul(SubSeq(w, 5, 4 + n)) = o.ticker
  BY <1>3, <1>6, <1>9
<1> QED
  BY <1>2, <1>4, <1>6, <1>7, <1>8, <1>9, <1>10 DEF Packed, w, h, r, n

-----------------------------------------------------------------------------
\* What encode_order_add of wire.py writes, DecodeInboundMessage of wire.hpp
\* reads back as the same order, for every order whose ticker fits.
THEOREM OrderAddArrives ==
  ASSUME NEW o \in OrderAddMessage
  PROVE  /\ Len(encode_order_add(o)) = INBOUND_MESSAGE_SIZE
         /\ DecodeInboundMessage(encode_order_add(o)) = [type |-> "OrderAdd", value |-> o]
<1> DEFINE n == WIRE_TICKER_SIZE
           w == Padded(<<o.orderId, o.userId>> \o Padded(o.ticker, n)
                         \o <<EncodeSide(o.side), o.price, o.volume>>, INBOUND_UNION_SIZE)
           m == <<TypeOrderAdd>> \o w
<1>1. INBOUND_UNION_SIZE \in Nat /\ n + 5 <= INBOUND_UNION_SIZE
  BY WireAssumption DEF WIRE_TICKER_SIZE, INBOUND_UNION_SIZE
<1>2. /\ w \in Seq(Int) /\ Len(w) = INBOUND_UNION_SIZE
      /\ w[1] = o.orderId /\ w[2] = o.userId
      /\ UpToNul(SubSeq(w, 3, 2 + n)) = o.ticker
      /\ DecodeSide(w[3 + n]) = o.side /\ w[4 + n] = o.price /\ w[5 + n] = o.volume
  BY <1>1, OrderAddStruct
<1>3. encode_order_add(o) = m
  BY DEF encode_order_add, encode_ticker
<1> HIDE DEF w
<1>4. Len(m) = 1 + Len(w) /\ m[1] = TypeOrderAdd /\ Tail(m) = w
  <2>1. TypeOrderAdd \in Int
    BY DEF TypeOrderAdd
  <2>2. IsFramed(m, TypeOrderAdd, w)
    BY <2>1, <1>2, FramedCells
  <2> QED
    BY <2>2, Zenon DEF IsFramed
<1> HIDE DEF m
<1>5. DecodeOrderAdd(w) = o
  <2>1. DecodeOrderAdd(w) = [orderId |-> o.orderId, userId |-> o.userId, ticker |-> o.ticker,
                             side |-> o.side, price |-> o.price, volume |-> o.volume]
    BY <1>2 DEF DecodeOrderAdd, DecodeTicker
  <2> QED
    BY <2>1 DEF OrderAddMessage
<1> QED
  BY <1>2, <1>3, <1>4, <1>5, Zenon DEF DecodeInboundMessage, INBOUND_MESSAGE_SIZE

\* The same of a cancel, encode_order_cancel and DecodeOrderCancel.
THEOREM OrderCancelArrives ==
  ASSUME NEW o \in OrderCancelMessage
  PROVE  /\ Len(encode_order_cancel(o)) = INBOUND_MESSAGE_SIZE
         /\ DecodeInboundMessage(encode_order_cancel(o)) = [type |-> "OrderCancel", value |-> o]
<1> DEFINE n == WIRE_TICKER_SIZE
           w == Padded(<<o.orderId, o.userId>> \o Padded(o.ticker, n), INBOUND_UNION_SIZE)
           m == <<TypeOrderCancel>> \o w
<1>1. INBOUND_UNION_SIZE \in Nat /\ n + 2 <= INBOUND_UNION_SIZE
  BY WireAssumption DEF WIRE_TICKER_SIZE, INBOUND_UNION_SIZE
<1>2. /\ w \in Seq(Int) /\ Len(w) = INBOUND_UNION_SIZE
      /\ w[1] = o.orderId /\ w[2] = o.userId
      /\ UpToNul(SubSeq(w, 3, 2 + n)) = o.ticker
  BY <1>1, OrderCancelStruct
<1>3. encode_order_cancel(o) = m
  BY DEF encode_order_cancel, encode_ticker
<1> HIDE DEF w
<1>4. Len(m) = 1 + Len(w) /\ m[1] = TypeOrderCancel /\ Tail(m) = w
  <2>1. TypeOrderCancel \in Int
    BY DEF TypeOrderCancel
  <2>2. IsFramed(m, TypeOrderCancel, w)
    BY <2>1, <1>2, FramedCells
  <2> QED
    BY <2>2, Zenon DEF IsFramed
<1> HIDE DEF m
<1>5. DecodeOrderCancel(w) = o
  <2>1. DecodeOrderCancel(w)
          = [orderId |-> o.orderId, userId |-> o.userId, ticker |-> o.ticker]
    BY <1>2 DEF DecodeOrderCancel, DecodeTicker
  <2> QED
    BY <2>1 DEF OrderCancelMessage
<1>6. m[1] # TypeOrderAdd
  BY <1>4 DEF TypeOrderAdd, TypeOrderCancel
<1> QED
  BY <1>2, <1>3, <1>4, <1>5, <1>6, Zenon DEF DecodeInboundMessage, INBOUND_MESSAGE_SIZE

\* decode_market_data of wire.py reads the event that wire.hpp encoded for an
\* order: same type and same fields, ticker and side included.
THEOREM OrderAddEventArrives ==
  ASSUME NEW o \in OrderAddMessage
  PROVE  decode_market_data(EncodeOrderAddEvent(o)) =
           [type |-> "OrderAdd", orderId |-> o.orderId, userId |-> o.userId,
            ticker |-> o.ticker, side |-> o.side, price |-> o.price, volume |-> o.volume]
<1> DEFINE n == WIRE_TICKER_SIZE
           w == Padded(<<o.orderId, o.userId>> \o Padded(o.ticker, n)
                         \o <<EncodeSide(o.side), o.price, o.volume>>, MARKET_DATA_UNION_SIZE)
           m == <<TypeOrderAdd>> \o w
<1>1. MARKET_DATA_UNION_SIZE \in Nat /\ n + 5 <= MARKET_DATA_UNION_SIZE
  BY WireAssumption DEF WIRE_TICKER_SIZE, MARKET_DATA_UNION_SIZE
<1>2. /\ w \in Seq(Int) /\ Len(w) = MARKET_DATA_UNION_SIZE
      /\ w[1] = o.orderId /\ w[2] = o.userId
      /\ UpToNul(SubSeq(w, 3, 2 + n)) = o.ticker
      /\ DecodeSide(w[3 + n]) = o.side /\ w[4 + n] = o.price /\ w[5 + n] = o.volume
  BY <1>1, OrderAddStruct
<1>3. EncodeOrderAddEvent(o) = m
  BY DEF EncodeOrderAddEvent, EncodeTicker
<1> HIDE DEF w
<1>4. Len(m) = 1 + Len(w) /\ m[1] = TypeOrderAdd /\ Tail(m) = w
  <2>1. TypeOrderAdd \in Int
    BY DEF TypeOrderAdd
  <2>2. IsFramed(m, TypeOrderAdd, w)
    BY <2>1, <1>2, FramedCells
  <2> QED
    BY <2>2, Zenon DEF IsFramed
<1>5. Len(m) = MARKET_DATA_MESSAGE_SIZE
  BY <1>2, <1>4 DEF MARKET_DATA_MESSAGE_SIZE
<1> HIDE DEF m
<1>6. decode_market_data(m) = UnpackOrderAdd(w)
  <2>1. TypeOrderAdd # TypeOrderCancel /\ TypeTrade # TypeOrderAdd /\ TypeTrade # TypeOrderCancel
    BY DEF TypeOrderAdd, TypeOrderCancel, TypeTrade
  <2> QED
    BY <2>1, <1>4, <1>5, Zenon DEF decode_market_data
<1> QED
  BY <1>2, <1>3, <1>6 DEF UnpackOrderAdd, decode_ticker

\* The same of the event for a cancel.
THEOREM OrderCancelEventArrives ==
  ASSUME NEW o \in OrderCancelMessage
  PROVE  decode_market_data(EncodeOrderCancelEvent(o)) =
           [type |-> "OrderCancel", orderId |-> o.orderId, userId |-> o.userId,
            ticker |-> o.ticker]
<1> DEFINE n == WIRE_TICKER_SIZE
           w == Padded(<<o.orderId, o.userId>> \o Padded(o.ticker, n), MARKET_DATA_UNION_SIZE)
           m == <<TypeOrderCancel>> \o w
<1>1. MARKET_DATA_UNION_SIZE \in Nat /\ n + 2 <= MARKET_DATA_UNION_SIZE
  BY WireAssumption DEF WIRE_TICKER_SIZE, MARKET_DATA_UNION_SIZE
<1>2. /\ w \in Seq(Int) /\ Len(w) = MARKET_DATA_UNION_SIZE
      /\ w[1] = o.orderId /\ w[2] = o.userId
      /\ UpToNul(SubSeq(w, 3, 2 + n)) = o.ticker
  BY <1>1, OrderCancelStruct
<1>3. EncodeOrderCancelEvent(o) = m
  BY DEF EncodeOrderCancelEvent, EncodeTicker
<1> HIDE DEF w
<1>4. Len(m) = 1 + Len(w) /\ m[1] = TypeOrderCancel /\ Tail(m) = w
  <2>1. TypeOrderCancel \in Int
    BY DEF TypeOrderCancel
  <2>2. IsFramed(m, TypeOrderCancel, w)
    BY <2>1, <1>2, FramedCells
  <2> QED
    BY <2>2, Zenon DEF IsFramed
<1>5. Len(m) = MARKET_DATA_MESSAGE_SIZE
  BY <1>2, <1>4 DEF MARKET_DATA_MESSAGE_SIZE
<1> HIDE DEF m
<1>6. decode_market_data(m) = UnpackOrderCancel(w)
  <2>1. TypeOrderAdd # TypeOrderCancel /\ TypeTrade # TypeOrderAdd /\ TypeTrade # TypeOrderCancel
    BY DEF TypeOrderAdd, TypeOrderCancel, TypeTrade
  <2> QED
    BY <2>1, <1>4, <1>5, Zenon DEF decode_market_data
<1> QED
  BY <1>2, <1>3, <1>6 DEF UnpackOrderCancel, decode_ticker

\* The same of the event for a trade.
THEOREM TradeEventArrives ==
  ASSUME NEW o \in TradeMessage
  PROVE  decode_market_data(EncodeTradeEvent(o)) =
           [type |-> "Trade", maker |-> o.maker, taker |-> o.taker,
            makerOrderId |-> o.makerOrderId, takerOrderId |-> o.takerOrderId,
            ticker |-> o.ticker, takerSide |-> o.takerSide,
            price |-> o.price, volume |-> o.volume]
<1> DEFINE n == WIRE_TICKER_SIZE
           w == Padded(<<o.maker, o.taker, o.makerOrderId, o.takerOrderId>>
                         \o Padded(o.ticker, n)
                         \o <<EncodeSide(o.takerSide), o.price, o.volume>>,
                       MARKET_DATA_UNION_SIZE)
           m == <<TypeTrade>> \o w
<1>1. MARKET_DATA_UNION_SIZE \in Nat /\ n + 7 <= MARKET_DATA_UNION_SIZE
  BY WireAssumption DEF WIRE_TICKER_SIZE, MARKET_DATA_UNION_SIZE
<1>2. /\ w \in Seq(Int) /\ Len(w) = MARKET_DATA_UNION_SIZE
      /\ w[1] = o.maker /\ w[2] = o.taker
      /\ w[3] = o.makerOrderId /\ w[4] = o.takerOrderId
      /\ UpToNul(SubSeq(w, 5, 4 + n)) = o.ticker
      /\ DecodeSide(w[5 + n]) = o.takerSide /\ w[6 + n] = o.price /\ w[7 + n] = o.volume
  BY <1>1, TradeStruct
<1>3. EncodeTradeEvent(o) = m
  BY DEF EncodeTradeEvent, EncodeTicker
<1> HIDE DEF w
<1>4. Len(m) = 1 + Len(w) /\ m[1] = TypeTrade /\ Tail(m) = w
  <2>1. TypeTrade \in Int
    BY DEF TypeTrade
  <2>2. IsFramed(m, TypeTrade, w)
    BY <2>1, <1>2, FramedCells
  <2> QED
    BY <2>2, Zenon DEF IsFramed
<1>5. Len(m) = MARKET_DATA_MESSAGE_SIZE
  BY <1>2, <1>4 DEF MARKET_DATA_MESSAGE_SIZE
<1> HIDE DEF m
<1>6. decode_market_data(m) = UnpackTrade(w)
  <2>1. TypeOrderAdd # TypeOrderCancel /\ TypeTrade # TypeOrderAdd /\ TypeTrade # TypeOrderCancel
    BY DEF TypeOrderAdd, TypeOrderCancel, TypeTrade
  <2> QED
    BY <2>1, <1>4, <1>5, Zenon DEF decode_market_data
<1> QED
  BY <1>2, <1>3, <1>6 DEF UnpackTrade, decode_ticker

-----------------------------------------------------------------------------
(* What the listener makes of a sequence of datagrams. *)

\* Every nonempty set of naturals has a least element: the induction principle
\* of the lemmas below.
LEMMA LeastElement ==
  ASSUME NEW T, T \subseteq Nat, T # {}
  PROVE  \E x \in T : \A y \in T : x <= y
<1>1. PICK x \in T : \A y \in T : ~ (<<y, x>> \in OpToRel(<, Nat))
  BY NatLessThanWellFounded, WFMin, Zenon
<1>2. \A y \in T : ~(y < x)
  BY <1>1, Zenon DEF OpToRel
<1>3. QED
  BY <1>2

\* Two maps of orders agree on an id.
SameAt(f, g, k) ==
  /\ k \in DOMAIN f <=> k \in DOMAIN g
  /\ k \in DOMAIN f => f[k] = g[k]

\* Setting and removing an entry changes no other.
LEMMA KeyChanges ==
  ASSUME NEW f, NEW id, NEW e
  PROVE  /\ id \in DOMAIN Router!WithKey(f, id, e) /\ Router!WithKey(f, id, e)[id] = e
         /\ id \notin DOMAIN Router!WithoutKey(f, id)
         /\ \A k : k # id => /\ SameAt(Router!WithKey(f, id, e), f, k)
                             /\ SameAt(Router!WithoutKey(f, id), f, k)
BY DEF Router!WithKey, Router!WithoutKey, SameAt

\* A trade takes its volume off the order with the id, and off no other.
LEMMA ShrinkAt ==
  ASSUME NEW f, NEW id, NEW v
  PROVE  /\ \A k : k # id => SameAt(Shrink(f, id, v), f, k)
         /\ id \notin DOMAIN f => id \notin DOMAIN Shrink(f, id, v)
         /\ id \in DOMAIN f /\ f[id].volume - v <= 0 => id \notin DOMAIN Shrink(f, id, v)
         /\ id \in DOMAIN f /\ ~(f[id].volume - v <= 0) =>
              /\ id \in DOMAIN Shrink(f, id, v)
              /\ Shrink(f, id, v)[id] = [f[id] EXCEPT !.volume = f[id].volume - v]
<1>1. CASE id \notin DOMAIN f
  BY <1>1 DEF Shrink, SameAt
<1>2. CASE id \in DOMAIN f /\ f[id].volume - v <= 0
  <2>1. Shrink(f, id, v) = Router!WithoutKey(f, id)
    BY <1>2 DEF Shrink
  <2>2. QED
    BY <1>2, <2>1, KeyChanges, Zenon
<1>3. CASE id \in DOMAIN f /\ ~(f[id].volume - v <= 0)
  <2>1. Shrink(f, id, v) = [f EXCEPT ![id] = [f[id] EXCEPT !.volume = f[id].volume - v]]
    BY <1>3, Zenon DEF Shrink
  <2>2. PICK e : e = [f[id] EXCEPT !.volume = f[id].volume - v]
    BY Zenon
  <2>3. Shrink(f, id, v) = [f EXCEPT ![id] = e]
    BY <2>1, <2>2, Zenon
  <2>4. /\ \A k : k # id => SameAt([f EXCEPT ![id] = e], f, k)
        /\ id \in DOMAIN [f EXCEPT ![id] = e] /\ [f EXCEPT ![id] = e][id] = e
    BY <1>3 DEF SameAt
  <2>5. QED
    BY <1>3, <2>2, <2>3, <2>4, Zenon
<1>4. QED
  BY <1>1, <1>2, <1>3

\* What becomes of an entry depends on that entry alone.
LEMMA ShrinkLocal ==
  ASSUME NEW f, NEW g, NEW k, SameAt(f, g, k), NEW id, NEW v
  PROVE  SameAt(Shrink(f, id, v), Shrink(g, id, v), k)
<1> USE Zenon
<1>1. CASE k # id
  BY <1>1, ShrinkAt DEF SameAt
<1>2. CASE k = id
  <2>1. CASE id \notin DOMAIN f
    BY <1>2, <2>1, ShrinkAt DEF SameAt
  <2>2. CASE id \in DOMAIN f
    <3>1. id \in DOMAIN g /\ f[id] = g[id]
      BY <1>2, <2>2 DEF SameAt
    <3>2. CASE f[id].volume - v <= 0
      <4>1. id \notin DOMAIN Shrink(f, id, v)
        BY <2>2, <3>2, ShrinkAt
      <4>2. id \notin DOMAIN Shrink(g, id, v)
        BY <3>1, <3>2, ShrinkAt
      <4>3. QED
        BY <1>2, <4>1, <4>2 DEF SameAt
    <3>3. CASE ~(f[id].volume - v <= 0)
      <4>1. /\ id \in DOMAIN Shrink(f, id, v)
            /\ Shrink(f, id, v)[id] = [f[id] EXCEPT !.volume = f[id].volume - v]
        BY <2>2, <3>3, ShrinkAt
      <4>2. /\ id \in DOMAIN Shrink(g, id, v)
            /\ Shrink(g, id, v)[id] = [g[id] EXCEPT !.volume = g[id].volume - v]
        BY <3>1, <3>3, ShrinkAt
      <4>3. QED
        BY <1>2, <3>1, <4>1, <4>2 DEF SameAt
    <3>4. QED
      BY <3>2, <3>3
  <2>3. QED
    BY <2>1, <2>2, SMT
<1>3. QED
  BY <1>1, <1>2, SMT

\* The cases of apply.
LEMMA ApplyCases ==
  ASSUME NEW orders, NEW event
  PROVE  /\ event.type = "OrderAdd" =>
              apply(orders, event) =
                Router!WithKey(orders, event.orderId,
                               [ticker |-> event.ticker, side |-> event.side,
                                price |-> event.price, volume |-> event.volume])
         /\ event.type = "OrderCancel" =>
              apply(orders, event) = Router!WithoutKey(orders, event.orderId)
         /\ event.type = "Trade" => apply(orders, event) = ShrinkBoth(orders, event)
         /\ event.type \notin {"OrderAdd", "OrderCancel", "Trade"} => apply(orders, event) = orders
BY DEF apply

\* The same of every event.
LEMMA ApplyLocal ==
  ASSUME NEW f, NEW g, NEW k, SameAt(f, g, k), NEW event
  PROVE  SameAt(apply(f, event), apply(g, event), k)
<1>1. CASE event.type = "OrderAdd"
  <2>1. PICK id, e : id = event.orderId
                     /\ e = [ticker |-> event.ticker, side |-> event.side,
                             price |-> event.price, volume |-> event.volume]
    BY Zenon
  <2>2. apply(f, event) = Router!WithKey(f, id, e) /\ apply(g, event) = Router!WithKey(g, id, e)
    BY <1>1, <2>1, ApplyCases, Zenon
  <2>3. SameAt(Router!WithKey(f, id, e), Router!WithKey(g, id, e), k)
    BY DEF SameAt, Router!WithKey
  <2>4. QED
    BY <2>2, <2>3
<1>2. CASE event.type = "OrderCancel"
  <2>1. PICK id : id = event.orderId
    OBVIOUS
  <2>2. apply(f, event) = Router!WithoutKey(f, id) /\ apply(g, event) = Router!WithoutKey(g, id)
    BY <1>2, <2>1, ApplyCases, Zenon
  <2>3. SameAt(Router!WithoutKey(f, id), Router!WithoutKey(g, id), k)
    BY DEF SameAt, Router!WithoutKey
  <2>4. QED
    BY <2>2, <2>3
<1>3. CASE event.type = "Trade"
  <2>1. apply(f, event) = ShrinkBoth(f, event) /\ apply(g, event) = ShrinkBoth(g, event)
    BY <1>3, ApplyCases, Zenon
  <2>2. PICK m, t, v : m = event.makerOrderId /\ t = event.takerOrderId /\ v = event.volume
    OBVIOUS
  <2>3. SameAt(Shrink(Shrink(f, m, v), t, v), Shrink(Shrink(g, m, v), t, v), k)
    BY ShrinkLocal, Zenon
  <2>4. QED
    BY <2>1, <2>2, <2>3, Zenon DEF ShrinkBoth
<1>4. CASE event.type \notin {"OrderAdd", "OrderCancel", "Trade"}
  BY <1>4, ApplyCases, Zenon
<1>5. QED
  BY <1>1, <1>2, <1>3, <1>4

\* An event changes only the orders it is about.
LEMMA ApplyNamed ==
  ASSUME NEW f, NEW event, NEW k, k \notin Named(event)
  PROVE  SameAt(apply(f, event), f, k)
<1>1. CASE event.type = "OrderAdd"
  <2>1. k # event.orderId
    BY <1>1 DEF Named
  <2>2. PICK id, e : id = event.orderId
                     /\ e = [ticker |-> event.ticker, side |-> event.side,
                             price |-> event.price, volume |-> event.volume]
    BY Zenon
  <2>3. apply(f, event) = Router!WithKey(f, id, e)
    BY <1>1, <2>2, ApplyCases, Zenon
  <2>4. SameAt(Router!WithKey(f, id, e), f, k)
    BY <2>1, <2>2, KeyChanges, Zenon
  <2>5. QED
    BY <2>3, <2>4
<1>2. CASE event.type = "OrderCancel"
  <2>1. k # event.orderId
    BY <1>2 DEF Named
  <2>2. PICK id : id = event.orderId
    OBVIOUS
  <2>3. apply(f, event) = Router!WithoutKey(f, id)
    BY <1>2, <2>2, ApplyCases, Zenon
  <2>4. SameAt(Router!WithoutKey(f, id), f, k)
    BY <2>1, <2>2, KeyChanges, Zenon
  <2>5. QED
    BY <2>3, <2>4
<1>3. CASE event.type = "Trade"
  <2>1. k # event.makerOrderId /\ k # event.takerOrderId
    BY <1>3 DEF Named
  <2>2. PICK h : h = Shrink(f, event.makerOrderId, event.volume)
    OBVIOUS
  <2>3. SameAt(h, f, k) /\ SameAt(Shrink(h, event.takerOrderId, event.volume), h, k)
    BY <2>1, <2>2, ShrinkAt, Zenon
  <2>4. apply(f, event) = Shrink(h, event.takerOrderId, event.volume)
    BY <1>3, <2>2, ApplyCases, Zenon DEF ShrinkBoth
  <2>5. QED
    BY <2>3, <2>4, Zenon DEF SameAt
<1>4. CASE event.type \notin {"OrderAdd", "OrderCancel", "Trade"}
  BY <1>4, ApplyCases, Zenon DEF SameAt
<1>5. QED
  BY <1>1, <1>2, <1>3, <1>4


\* One step of the recursion that defines AfterAll, and its solution.
AfterStep(orders, ds, f, i) ==
  IF i = 0 THEN orders ELSE apply(f[i - 1], decode_market_data(ds[i]))
Afters(orders, ds) == CHOOSE f : f = [i \in 0..Len(ds) |-> AfterStep(orders, ds, f, i)]

\* The recursion has a solution, so the one chosen satisfies it.
LEMMA AftersExist ==
  ASSUME NEW ds, Len(ds) \in Nat, NEW orders, NEW n \in Nat, n <= Len(ds)
  PROVE  \E f : f = [i \in 0..n |-> AfterStep(orders, ds, f, i)]
<1> DEFINE Solvable(m) == \E f : f = [i \in 0..m |-> AfterStep(orders, ds, f, i)]
           T == {m \in Nat : m <= Len(ds) /\ ~Solvable(m)}
<1>1. SUFFICES ASSUME T # {} PROVE FALSE
  OBVIOUS
<1>2. PICK m \in T : \A y \in T : m <= y
  BY <1>1, LeastElement, Zenon
<1>3. CASE m = 0
  <2> DEFINE g == [i \in 0..0 |-> orders]
  <2>1. g = [i \in 0..0 |-> AfterStep(orders, ds, g, i)]
    BY DEF AfterStep
  <2>2. QED
    BY <2>1, <1>2, <1>3
<1>4. CASE m # 0
  <2>1. m - 1 \in Nat /\ m - 1 <= Len(ds) /\ m - 1 \notin T
    BY <1>2, <1>4
  <2>2. PICK f : f = [i \in 0..(m - 1) |-> AfterStep(orders, ds, f, i)]
    BY <2>1
  <2> DEFINE g == [i \in 0..m |-> IF i = m THEN AfterStep(orders, ds, f, m) ELSE f[i]]
  <2>3. ASSUME NEW i \in 0..m PROVE g[i] = AfterStep(orders, ds, g, i)
    <3>1. CASE i = m
      <4>1. g[m] = AfterStep(orders, ds, f, m) /\ g[m - 1] = f[m - 1]
        BY <1>2, <1>4
      <4>2. QED
        BY <1>4, <3>1, <4>1 DEF AfterStep
    <3>2. CASE i # m
      <4>1. i \in 0..(m - 1) /\ g[i] = f[i]
        BY <1>2, <3>2
      <4>2. f[i] = AfterStep(orders, ds, f, i)
        BY <2>2, <4>1, Zenon
      <4>3. i # 0 => g[i - 1] = f[i - 1]
        BY <1>2, <4>1
      <4>4. QED
        BY <4>1, <4>2, <4>3 DEF AfterStep
    <3>3. QED
      BY <3>1, <3>2
  <2>4. g = [i \in 0..m |-> AfterStep(orders, ds, g, i)]
    BY <2>3
  <2>5. QED
    BY <1>2, <2>4, Zenon
<1>5. QED
  BY <1>3, <1>4

\* What the first i datagrams make of the orders.
After(orders, ds, i) == Afters(orders, ds)[i]

\* Nothing happens at 0, and one more datagram is applied at each step.
LEMMA AfterRecursion ==
  ASSUME NEW ds, Len(ds) \in Nat, NEW orders
  PROVE  /\ AfterAll(orders, ds) = After(orders, ds, Len(ds))
         /\ After(orders, ds, 0) = orders
         /\ \A i \in 1..Len(ds) :
              After(orders, ds, i) =
                apply(After(orders, ds, i - 1), decode_market_data(ds[i]))
<1> DEFINE k == Afters(orders, ds)
<1>2. \E f : f = [i \in 0..Len(ds) |-> AfterStep(orders, ds, f, i)]
  <2>1. PICK n \in Nat : n = Len(ds) /\ n <= Len(ds)
    OBVIOUS
  <2>2. \E f : f = [i \in 0..n |-> AfterStep(orders, ds, f, i)]
    BY <2>1, AftersExist
  <2>3. QED
    BY <2>1, <2>2, Zenon
<1>3. k = [i \in 0..Len(ds) |-> AfterStep(orders, ds, k, i)]
  BY <1>2, Zenon DEF Afters
<1>4. AfterAll(orders, ds) = k[Len(ds)]
  BY Zenon DEF AfterAll, Afters, AfterStep
<1> HIDE DEF k
<1>5. \A i \in 0..Len(ds) : k[i] = AfterStep(orders, ds, k, i)
  BY <1>3
<1>6. k[0] = orders
  BY <1>5 DEF AfterStep
<1>7. \A i \in 1..Len(ds) : k[i] = apply(k[i - 1], decode_market_data(ds[i]))
  BY <1>5 DEF AfterStep
<1>8. QED
  BY <1>4, <1>6, <1>7 DEF k, After

\* The last part of it, for one datagram.
LEMMA AfterNext ==
  ASSUME NEW ds, Len(ds) \in Nat, NEW orders, NEW i \in 1..Len(ds)
  PROVE  After(orders, ds, i) = apply(After(orders, ds, i - 1), decode_market_data(ds[i]))
BY AfterRecursion

\* The first n of one sequence and the n after position d of another, from
\* maps of orders that agree on an id, leave maps that agree on it.
LEMMA AfterSame ==
  ASSUME NEW ds, Len(ds) \in Nat, NEW es, Len(es) \in Nat, NEW d \in Nat,
         NEW N \in Nat, N <= Len(ds), N + d <= Len(es),
         \A i \in 1..N : es[i + d] = ds[i],
         NEW f, NEW g, NEW k, SameAt(f, After(g, es, d), k),
         NEW n \in 0..N
  PROVE  SameAt(After(f, ds, n), After(g, es, n + d), k)
<1> DEFINE T == {m \in Nat : m <= N /\ ~SameAt(After(f, ds, m), After(g, es, m + d), k)}
<1>1. SUFFICES ASSUME T # {} PROVE FALSE
  OBVIOUS
<1>2. PICK m \in T : \A y \in T : m <= y
  BY <1>1, LeastElement, Zenon
<1>3. After(f, ds, 0) = f
  BY AfterRecursion
<1>4. m # 0
  <2>1. 0 + d = d
    OBVIOUS
  <2>2. QED
    BY <1>2, <1>3, <2>1
<1>5. /\ m - 1 \in Nat /\ m - 1 <= N /\ m - 1 \notin T
      /\ m \in 1..N /\ m \in 1..Len(ds) /\ m + d \in 1..Len(es) /\ (m + d) - 1 = (m - 1) + d
  BY <1>2, <1>4
<1>6. SameAt(After(f, ds, m - 1), After(g, es, (m - 1) + d), k)
  BY <1>5
<1>7. /\ After(f, ds, m) = apply(After(f, ds, m - 1), decode_market_data(ds[m]))
      /\ After(g, es, m + d) = apply(After(g, es, (m - 1) + d), decode_market_data(es[m + d]))
      /\ es[m + d] = ds[m]
  <2>1. After(f, ds, m) = apply(After(f, ds, m - 1), decode_market_data(ds[m]))
    BY <1>5, AfterNext, Zenon
  <2>2. After(g, es, m + d) = apply(After(g, es, (m + d) - 1), decode_market_data(es[m + d]))
    BY <1>5, AfterNext, Zenon
  <2>3. QED
    BY <1>5, <2>1, <2>2, Zenon
<1>8. SameAt(After(f, ds, m), After(g, es, m + d), k)
  BY <1>6, <1>7, ApplyLocal, Zenon
<1>9. QED
  BY <1>2, <1>8

\* Receiving the first datagram leaves the same to come.
LEMMA ReceiveFirst ==
  ASSUME NEW S, NEW ds \in Seq(S), ds # <<>>, NEW orders, NEW k
  PROVE  SameAt(AfterAll(apply(orders, decode_market_data(Head(ds))), Tail(ds)),
                AfterAll(orders, ds), k)
<1> USE Zenon
<1>1. PICK es, f, n, d : /\ es = Tail(ds) /\ n = Len(es) /\ d = 1
                         /\ f = apply(orders, decode_market_data(Head(ds)))
  OBVIOUS
<1>2. Len(es) \in Nat /\ Len(ds) \in Nat
  BY <1>1, SMT
<1>3. n + d = Len(ds) /\ Head(ds) = ds[d] /\ d \in 1..Len(ds) /\ d - 1 = 0
  BY <1>1, SMT
<1>4. n \in Nat /\ d \in Nat /\ n \in 0..n /\ n <= Len(es) /\ n + d <= Len(ds)
  BY <1>1, <1>2, <1>3, SMT
<1>5. \A i \in 1..n : ds[i + d] = es[i]
  BY <1>1, SMT
<1>6. After(orders, ds, d) = f
  <2>1. After(orders, ds, 0) = orders
    BY <1>2, AfterRecursion, SMT
  <2>2. After(orders, ds, d) = apply(After(orders, ds, d - 1), decode_market_data(ds[d]))
    BY <1>2, <1>3, AfterNext
  <2>3. QED
    BY <1>1, <1>3, <2>1, <2>2
<1>7. SameAt(f, After(orders, ds, d), k)
  BY <1>6 DEF SameAt
<1>8. SameAt(After(f, es, n), After(orders, ds, n + d), k)
  BY <1>2, <1>4, <1>5, <1>7, AfterSame
<1>9. AfterAll(f, es) = After(f, es, n) /\ AfterAll(orders, ds) = After(orders, ds, n + d)
  <2>1. AfterAll(orders, ds) = After(orders, ds, Len(ds))
    BY <1>2, AfterRecursion
  <2>2. AfterAll(f, es) = After(f, es, Len(es))
    BY <1>2, AfterRecursion
  <2>3. QED
    BY <1>1, <1>3, <2>1, <2>2
<1>10. QED
  BY <1>1, <1>8, <1>9

\* One more datagram is applied to what the others make of the orders.
LEMMA ReceiveLast ==
  ASSUME NEW S, NEW ds \in Seq(S), NEW e \in S, NEW orders, NEW k
  PROVE  SameAt(AfterAll(orders, Append(ds, e)),
                apply(AfterAll(orders, ds), decode_market_data(e)), k)
<1>1. PICK es, n, m, d : es = Append(ds, e) /\ n = Len(ds) /\ m = Len(es) /\ d = 0
  BY Zenon
<1>2. Len(es) \in Nat /\ Len(ds) \in Nat
  BY <1>1
<1>3. m \in 1..Len(es) /\ m - 1 = n /\ es[m] = e /\ n + d = n
  BY <1>1
<1>4. n \in Nat /\ d \in Nat /\ n \in 0..n /\ n <= Len(ds) /\ n + d <= Len(es)
  BY <1>1
<1>5. \A i \in 1..n : es[i + d] = ds[i]
  BY <1>1
<1>6. SameAt(orders, After(orders, es, d), k)
  <2>1. After(orders, es, d) = orders
    BY <1>1, <1>2, AfterRecursion
  <2>2. QED
    BY <2>1, Zenon DEF SameAt
<1>7. SameAt(After(orders, ds, n), After(orders, es, n + d), k)
  BY <1>2, <1>4, <1>5, <1>6, AfterSame, Zenon
<1>8. AfterAll(orders, ds) = After(orders, ds, n) /\ AfterAll(orders, es) = After(orders, es, m)
  BY <1>1, <1>2, AfterRecursion, Zenon
<1>9. After(orders, es, m) = apply(After(orders, es, m - 1), decode_market_data(es[m]))
  BY <1>2, <1>3, AfterNext, Zenon
<1>10. SameAt(apply(After(orders, ds, n), decode_market_data(e)),
              apply(After(orders, es, n), decode_market_data(e)), k)
  BY <1>3, <1>7, ApplyLocal, Zenon
<1>11. QED
  BY <1>1, <1>3, <1>8, <1>9, <1>10, Zenon DEF SameAt

\* Losing the first datagram changes only the orders that it names.
LEMMA LoseFirst ==
  ASSUME NEW S, NEW ds \in Seq(S), ds # <<>>, NEW orders,
         NEW k, k \notin Named(decode_market_data(Head(ds)))
  PROVE  SameAt(AfterAll(orders, Tail(ds)), AfterAll(orders, ds), k)
<1> USE Zenon
<1>1. PICK es, f, n, d : /\ es = Tail(ds) /\ n = Len(es) /\ d = 0
                         /\ f = apply(orders, decode_market_data(Head(ds)))
  OBVIOUS
<1>2. Len(es) \in Nat
  BY <1>1, SMT
<1>3. n \in Nat /\ d \in Nat /\ n \in 0..n /\ n <= Len(es) /\ n + d <= Len(es) /\ n + d = n
  BY <1>1, SMT
<1>4. \A i \in 1..n : es[i + d] = es[i]
  BY <1>1, SMT
<1>5. SameAt(orders, After(f, es, d), k)
  <2>1. After(f, es, d) = f
    BY <1>1, <1>2, AfterRecursion
  <2>2. SameAt(f, orders, k)
    BY <1>1, ApplyNamed
  <2>3. QED
    BY <2>1, <2>2 DEF SameAt
<1>6. SameAt(After(orders, es, n), After(f, es, n + d), k)
  BY <1>2, <1>3, <1>4, <1>5, AfterSame
<1>7. AfterAll(f, es) = After(f, es, n) /\ AfterAll(orders, es) = After(orders, es, n)
  BY <1>1, <1>2, AfterRecursion
<1>8. SameAt(AfterAll(f, es), AfterAll(orders, ds), k)
  BY <1>1, ReceiveFirst
<1>9. SameAt(AfterAll(orders, es), AfterAll(f, es), k)
  BY <1>3, <1>6, <1>7
<1>10. QED
  BY <1>1, <1>8, <1>9 DEF SameAt

-----------------------------------------------------------------------------
(* The messages on their way to the engine, when the generator sends them. *)

Adds(cm) == {i \in 1..Len(cm) : cm[i].type = "OrderAdd"}
Cancels(cm) == {i \in 1..Len(cm) : cm[i].type = "OrderCancel"}
IdAt(cm, i) == cm[i].value.orderId

\* The generator has an id for every order it has not cancelled.
Known(next, own) ==
  /\ next \in 1..(MaxOrders + 1)
  /\ \A k \in DOMAIN own : k \in 1..(next - 1) /\ own[k] \in INSTRUMENTS

\* An order of the generator's: what it remembers of it and the cancel it
\* has sent carry the ticker of the order.
Sent(o, own, cm) ==
  /\ o.userId = USER_ID
  /\ o.orderId \in DOMAIN own => own[o.orderId] = o.ticker
  /\ \A j \in Cancels(cm) : IdAt(cm, j) = o.orderId => cm[j].value.ticker = o.ticker

\* The orders that the engine has received are numbered by their ids.
LogSent(own, lg, cm) == \A a \in 1..Len(lg) : lg[a].orderId = a /\ Sent(lg[a], own, cm)

\* The orders on their way have the ids that follow, in order, and none is
\* missing.
AddsSent(next, own, n, cm) ==
  \A i \in Adds(cm) : Sent(cm[i].value, own, cm) /\ IdAt(cm, i) \in (n + 1)..(next - 1)
AddsInOrder(cm) == \A i, j \in Adds(cm) : i < j => IdAt(cm, i) < IdAt(cm, j)
AddsAll(next, n, cm) == \A k \in (n + 1)..(next - 1) : \E i \in Adds(cm) : IdAt(cm, i) = k

CancelsSent(next, cm) ==
  \A j \in Cancels(cm) : cm[j].value.userId = USER_ID /\ IdAt(cm, j) \in 1..(next - 1)

Flow(next, own, lg, cm) ==
  /\ Known(next, own) /\ LogSent(own, lg, cm)
  /\ AddsSent(next, own, Len(lg), cm) /\ AddsInOrder(cm) /\ AddsAll(next, Len(lg), cm)
  /\ CancelsSent(next, cm)
  /\ Len(lg) < next

\* The orders with volume left, by their numbers, and those on their way
\* are still known to the generator, or a cancel follows them.
Leaving(own, cm, open) ==
  /\ \A a \in open : a \in DOMAIN own \/ \E j \in Cancels(cm) : IdAt(cm, j) = a
  /\ \A i \in Adds(cm) : \/ IdAt(cm, i) \in DOMAIN own
                         \/ \E j \in Cancels(cm) : i < j /\ IdAt(cm, j) = IdAt(cm, i)

\* The commands after one more is sent, and after the first is taken.
Longer(cm, es, m) ==
  /\ Len(es) = Len(cm) + 1
  /\ \A i \in 1..Len(cm) : es[i] = cm[i]
  /\ es[Len(cm) + 1] = m
Shorter(cm, es, m) ==
  /\ Len(cm) = Len(es) + 1
  /\ \A i \in 1..Len(es) : es[i] = cm[i + 1]
  /\ cm[1] = m

\* The orders and the cancels among the commands after one more is sent.
LEMMA LongerParts ==
  ASSUME NEW cm, Len(cm) \in Nat, NEW es, NEW m, Longer(cm, es, m), 
         m.type \in {"OrderAdd", "OrderCancel"}
  PROVE  /\ \A i \in Adds(cm) : i \in Adds(es) /\ es[i] = cm[i] /\ i < Len(es)
         /\ \A i \in Cancels(cm) : i \in Cancels(es) /\ es[i] = cm[i] /\ i < Len(es)
         /\ \A i \in Adds(es) : \/ i \in Adds(cm) /\ es[i] = cm[i] /\ i < Len(es)
                                \/ m.type = "OrderAdd" /\ i = Len(es) /\ es[i] = m
         /\ \A i \in Cancels(es) : \/ i \in Cancels(cm) /\ es[i] = cm[i] /\ i < Len(es)
                                   \/ m.type = "OrderCancel" /\ i = Len(es) /\ es[i] = m
         /\ m.type = "OrderAdd" => Len(es) \in Adds(es) /\ es[Len(es)] = m
         /\ m.type = "OrderCancel" => Len(es) \in Cancels(es) /\ es[Len(es)] = m
BY DEF Longer, Adds, Cancels

\* The same after the first is taken.
LEMMA ShorterParts ==
  ASSUME NEW es, Len(es) \in Nat, NEW cm, NEW m, Shorter(cm, es, m)
  PROVE  /\ \A i \in Adds(es) : i + 1 \in Adds(cm) /\ es[i] = cm[i + 1] /\ i \in Nat \ {0}
         /\ \A i \in Cancels(es) : i + 1 \in Cancels(cm) /\ es[i] = cm[i + 1] /\ i \in Nat \ {0}
         /\ \A i \in Adds(cm) : \/ i = 1 /\ cm[i] = m /\ m.type = "OrderAdd"
                                \/ i - 1 \in Adds(es) /\ es[i - 1] = cm[i] /\ i - 1 \in Nat
         /\ \A i \in Cancels(cm) : \/ i = 1 /\ cm[i] = m /\ m.type = "OrderCancel"
                                   \/ i - 1 \in Cancels(es) /\ es[i - 1] = cm[i] /\ i - 1 \in Nat
         /\ m.type = "OrderAdd" => 1 \in Adds(cm)
         /\ m.type = "OrderCancel" => 1 \in Cancels(cm)
         /\ \A i \in Adds(cm) : 1 <= i
BY DEF Shorter, Adds, Cancels

\* Sending an order keeps the flow: its id is the next one.
LEMMA FlowAdd ==
  ASSUME NEW next, NEW own, NEW lg, Len(lg) \in Nat, NEW cm, Len(cm) \in Nat,
         Flow(next, own, lg, cm), next <= MaxOrders,
         NEW o, o.orderId = next, o.userId = USER_ID, o.ticker \in INSTRUMENTS,
         NEW m, m.type = "OrderAdd", m.value = o, NEW es, Longer(cm, es, m),
         NEW ow, ow = Router!WithKey(own, next, o.ticker)
  PROVE  Flow(next + 1, ow, lg, es)
<1>1. next \in Nat \ {0} /\ MaxOrders \in Nat /\ Len(lg) < next
  BY FeedAssumption DEF Flow, Known
<1>2. /\ DOMAIN ow = DOMAIN own \cup {next} /\ ow[next] = o.ticker
      /\ \A k \in DOMAIN own : k # next => ow[k] = own[k]
  BY DEF Router!WithKey
<1>3. Known(next + 1, ow)
  BY <1>1, <1>2 DEF Flow, Known
<1>4. ASSUME NEW p, Sent(p, own, cm), p.orderId \in Int, p.orderId < next
      PROVE  Sent(p, ow, es)
  <2>1. \A j \in Cancels(es) : j \in Cancels(cm) /\ es[j] = cm[j]
    BY LongerParts
  <2>2. \A j \in Cancels(es) : IdAt(es, j) = p.orderId => es[j].value.ticker = p.ticker
    BY <1>4, <2>1, Zenon DEF Sent, IdAt
  <2>3. p.orderId # next
    BY <1>1, <1>4
  <2>4. QED
    BY <1>2, <1>4, <2>2, <2>3, Zenon DEF Sent
<1>5. LogSent(ow, lg, es)
  BY <1>1, <1>4 DEF Flow, LogSent
<1>6. Sent(o, ow, es)
  <2>1. \A j \in Cancels(es) : IdAt(es, j) # next
    BY <1>1, LongerParts DEF Flow, CancelsSent, IdAt
  <2>2. QED
    BY <1>2, <2>1, Zenon DEF Sent
<1>7. AddsSent(next + 1, ow, Len(lg), es)
  <2> SUFFICES ASSUME NEW i \in Adds(es)
               PROVE  /\ Sent(es[i].value, ow, es)
                      /\ IdAt(es, i) \in (Len(lg) + 1)..((next + 1) - 1)
    BY Zenon DEF AddsSent
  <2>1. CASE i \in Adds(cm) /\ es[i] = cm[i]
    <3>1. Sent(es[i].value, own, cm) /\ es[i].value.orderId \in (Len(lg) + 1)..(next - 1)
      BY <2>1, Zenon DEF Flow, AddsSent, IdAt
    <3>2. es[i].value.orderId \in Int /\ es[i].value.orderId < next
      BY <1>1, <3>1
    <3>3. QED
      BY <1>1, <1>4, <3>1, <3>2 DEF IdAt
  <2>2. CASE es[i] = m
    BY <1>1, <1>6, <2>2 DEF IdAt
  <2>3. QED
    BY <2>1, <2>2, LongerParts
<1>8. AddsInOrder(es)
  <2> SUFFICES ASSUME NEW i \in Adds(es), NEW j \in Adds(es), i < j
               PROVE  IdAt(es, i) < IdAt(es, j)
    BY Zenon DEF AddsInOrder
  <2>1. i \in Adds(cm) /\ es[i] = cm[i]
    BY LongerParts DEF Longer, Adds
  <2>2. CASE j \in Adds(cm) /\ es[j] = cm[j]
    BY <2>1, <2>2, Zenon DEF Flow, AddsInOrder, IdAt
  <2>3. CASE es[j] = m
    BY <1>1, <2>1, <2>3 DEF Flow, AddsSent, IdAt
  <2>4. QED
    BY <2>2, <2>3, LongerParts
<1>9. AddsAll(next + 1, Len(lg), es)
  <2> SUFFICES ASSUME NEW k \in (Len(lg) + 1)..((next + 1) - 1)
               PROVE  \E i \in Adds(es) : IdAt(es, i) = k
    BY Zenon DEF AddsAll
  <2>1. CASE k = next
    <3>1. Len(es) \in Adds(es) /\ es[Len(es)] = m
      BY LongerParts
    <3>2. QED
      BY <2>1, <3>1, Zenon DEF IdAt
  <2>2. CASE k \in (Len(lg) + 1)..(next - 1)
    <3>1. PICK i \in Adds(cm) : IdAt(cm, i) = k
      BY <2>2, Zenon DEF Flow, AddsAll
    <3>2. i \in Adds(es) /\ es[i] = cm[i]
      BY LongerParts
    <3>3. QED
      BY <3>1, <3>2, Zenon DEF IdAt
  <2>3. QED
    BY <1>1, <2>1, <2>2
<1>10. CancelsSent(next + 1, es)
  <2>1. \A j \in Cancels(es) : j \in Cancels(cm) /\ es[j] = cm[j]
    BY LongerParts
  <2>2. QED
    BY <1>1, <2>1 DEF Flow, CancelsSent, IdAt
<1>11. Len(lg) < next + 1
  BY <1>1
<1>12. QED
  BY <1>3, <1>5, <1>7, <1>8, <1>9, <1>10, <1>11, Zenon DEF Flow

\* Sending a cancel of an order that the generator remembers keeps the flow.
LEMMA FlowCancel ==
  ASSUME NEW next, NEW own, NEW lg, Len(lg) \in Nat, NEW cm, Len(cm) \in Nat,
         Flow(next, own, lg, cm),
         NEW id \in DOMAIN own,
         NEW m, m.type = "OrderCancel", m.value.orderId = id,
         m.value.userId = USER_ID, m.value.ticker = own[id],
         NEW es, Longer(cm, es, m), NEW ow, ow = Router!WithoutKey(own, id)
  PROVE  Flow(next, ow, lg, es)
<1> USE Zenon
<1>1. next \in Nat \ {0} /\ MaxOrders \in Nat /\ id \in 1..(next - 1)
  BY FeedAssumption, SMT DEF Flow, Known
<1>2. /\ DOMAIN ow = DOMAIN own \ {id}
      /\ \A k \in DOMAIN ow : ow[k] = own[k]
  BY SMT DEF Router!WithoutKey
<1>3. Known(next, ow)
  BY <1>2 DEF Flow, Known
<1>4. ASSUME NEW p, Sent(p, own, cm)
      PROVE  Sent(p, ow, es)
  <2> SUFFICES ASSUME NEW j \in Cancels(es), IdAt(es, j) = p.orderId
               PROVE  es[j].value.ticker = p.ticker
    BY <1>2, <1>4 DEF Sent
  <2>1. CASE j \in Cancels(cm) /\ es[j] = cm[j]
    BY <1>4, <2>1 DEF Sent, IdAt
  <2>2. CASE es[j] = m
    BY <1>4, <2>2 DEF Sent, IdAt
  <2>3. QED
    BY <2>1, <2>2, LongerParts, SMT
<1>5. LogSent(ow, lg, es)
  BY <1>4 DEF Flow, LogSent
<1>6. \A i \in Adds(es) : i \in Adds(cm) /\ es[i] = cm[i]
  BY LongerParts, SMT
<1>7. AddsSent(next, ow, Len(lg), es)
  BY <1>4, <1>6 DEF Flow, AddsSent, IdAt
<1>8. AddsInOrder(es)
  BY <1>6 DEF Flow, AddsInOrder, IdAt
<1>9. AddsAll(next, Len(lg), es)
  <2>1. \A i \in Adds(cm) : i \in Adds(es) /\ es[i] = cm[i]
    BY LongerParts, SMT
  <2>2. QED
    BY <2>1 DEF Flow, AddsAll, IdAt
<1>10. CancelsSent(next, es)
  <2> SUFFICES ASSUME NEW j \in Cancels(es)
               PROVE  es[j].value.userId = USER_ID /\ IdAt(es, j) \in 1..(next - 1)
    BY DEF CancelsSent
  <2>1. CASE j \in Cancels(cm) /\ es[j] = cm[j]
    BY <2>1 DEF Flow, CancelsSent, IdAt
  <2>2. CASE es[j] = m
    BY <1>1, <2>2 DEF IdAt
  <2>3. QED
    BY <2>1, <2>2, LongerParts, SMT
<1>11. QED
  BY <1>3, <1>5, <1>7, <1>8, <1>9, <1>10 DEF Flow

\* The first order on its way has the id after the last that the engine has
\* received; receiving it keeps the flow.
LEMMA FlowReceive ==
  ASSUME NEW next, NEW own, NEW lg, Len(lg) \in Nat, NEW cm, NEW es, Len(es) \in Nat,
         Flow(next, own, lg, cm),
         NEW m, m.type = "OrderAdd", Shorter(cm, es, m),
         NEW ls, Len(ls) = Len(lg) + 1, \A a \in 1..Len(lg) : ls[a] = lg[a],
         ls[Len(lg) + 1] = m.value
  PROVE  /\ m.value.orderId = Len(lg) + 1 /\ Len(lg) < MaxOrders
         /\ Flow(next, own, ls, es)
<1> USE Zenon
<1>1. next \in 1..(MaxOrders + 1) /\ MaxOrders \in Nat /\ Len(lg) < next
  BY FeedAssumption, SMT DEF Flow, Known
<1>2. 1 \in Adds(cm) /\ cm[1] = m
  BY SMT DEF Shorter, Adds
<1>3. PICK id : id = m.value.orderId
  BY SMT
<1>4. IdAt(cm, 1) = id
  BY <1>2, <1>3 DEF IdAt
<1>5. id \in (Len(lg) + 1)..(next - 1) /\ Sent(m.value, own, cm)
  BY <1>2, <1>4 DEF Flow, AddsSent
<1>6. \A i \in Adds(cm) : IdAt(cm, i) \in (Len(lg) + 1)..(next - 1)
  BY DEF Flow, AddsSent
<1>7. id = Len(lg) + 1
  <2>1. Len(lg) + 1 \in (Len(lg) + 1)..(next - 1)
    BY <1>1, <1>5, SMT
  <2>2. PICK i \in Adds(cm) : IdAt(cm, i) = Len(lg) + 1
    BY <2>1 DEF Flow, AddsAll
  <2>3. i = 1 \/ 1 < i
    BY SMT DEF Adds
  <2>4. 1 < i => id < Len(lg) + 1
    BY <1>2, <1>4, <2>2 DEF Flow, AddsInOrder
  <2>5. QED
    BY <1>1, <1>4, <1>5, <2>2, <2>3, <2>4, SMT
<1>8. Len(lg) < MaxOrders /\ Len(ls) < next
  BY <1>1, <1>5, <1>7, SMT
<1>9. ASSUME NEW p, Sent(p, own, cm)
      PROVE  Sent(p, own, es)
  <2>1. \A j \in Cancels(es) : j + 1 \in Cancels(cm) /\ es[j] = cm[j + 1]
    BY SMT DEF Shorter, Cancels
  <2>2. QED
    BY <1>9, <2>1 DEF Sent, IdAt
<1>10. LogSent(own, ls, es)
  <2> SUFFICES ASSUME NEW a \in 1..Len(ls) PROVE ls[a].orderId = a /\ Sent(ls[a], own, es)
    BY DEF LogSent
  <2>1. CASE a \in 1..Len(lg)
    BY <1>9, <2>1 DEF Flow, LogSent
  <2>2. CASE a = Len(lg) + 1
    BY <1>3, <1>5, <1>7, <1>9, <2>2
  <2>3. QED
    BY <2>1, <2>2, SMT
<1>11. \A i \in Adds(es) : i + 1 \in Adds(cm) /\ es[i] = cm[i + 1] /\ 1 < i + 1
  BY ShorterParts, SMT
<1>12. AddsSent(next, own, Len(ls), es)
  <2> SUFFICES ASSUME NEW i \in Adds(es)
               PROVE  Sent(es[i].value, own, es) /\ IdAt(es, i) \in (Len(ls) + 1)..(next - 1)
    BY DEF AddsSent
  <2>1. i + 1 \in Adds(cm) /\ IdAt(es, i) = IdAt(cm, i + 1) /\ es[i].value = cm[i + 1].value
    BY <1>11 DEF IdAt
  <2>2. id < IdAt(cm, i + 1)
    BY <1>2, <1>4, <1>11 DEF Flow, AddsInOrder
  <2>3. IdAt(es, i) \in (Len(ls) + 1)..(next - 1)
    BY <1>1, <1>6, <1>7, <2>1, <2>2, SMT
  <2>4. Sent(es[i].value, own, es)
    BY <1>9, <2>1 DEF Flow, AddsSent
  <2>5. QED
    BY <2>3, <2>4, SMT
<1>13. AddsInOrder(es)
  <2> SUFFICES ASSUME NEW i \in Adds(es), NEW j \in Adds(es), i < j
               PROVE  IdAt(es, i) < IdAt(es, j)
    BY DEF AddsInOrder
  <2>1. i + 1 < j + 1
    BY SMT DEF Adds
  <2>2. QED
    BY <1>11, <2>1 DEF Flow, AddsInOrder, IdAt
<1>14. AddsAll(next, Len(ls), es)
  <2> SUFFICES ASSUME NEW k \in (Len(ls) + 1)..(next - 1)
               PROVE  \E i \in Adds(es) : IdAt(es, i) = k
    BY DEF AddsAll
  <2>1. k \in (Len(lg) + 1)..(next - 1) /\ k # id
    BY <1>1, <1>7, SMT
  <2>2. PICK i \in Adds(cm) : IdAt(cm, i) = k
    BY <2>1 DEF Flow, AddsAll
  <2>3. i - 1 \in Adds(es) /\ es[i - 1] = cm[i]
    <3>1. i # 1
      BY <1>4, <2>1, <2>2
    <3>2. QED
      BY <3>1, SMT DEF Shorter, Adds
  <2>4. QED
    BY <2>2, <2>3 DEF IdAt
<1>15. CancelsSent(next, es)
  <2>1. \A j \in Cancels(es) : j + 1 \in Cancels(cm) /\ es[j] = cm[j + 1]
    BY SMT DEF Shorter, Cancels
  <2>2. QED
    BY <2>1 DEF Flow, CancelsSent, IdAt
<1>16. Known(next, own)
  BY DEF Flow
<1>17. Flow(next, own, ls, es)
  BY <1>8, <1>10, <1>12, <1>13, <1>14, <1>15, <1>16 DEF Flow
<1>18. QED
  BY <1>3, <1>7, <1>8, <1>17, SMT

\* The orders are numbered by their ids, and the cancel names the one that
\* has its id.
Theirs(lg, c) ==
  /\ c.userId = USER_ID
  /\ \A a \in 1..Len(lg) : /\ lg[a].orderId = a /\ lg[a].userId = USER_ID
                           /\ c.orderId = a => lg[a].ticker = c.ticker

\* Receiving a cancel keeps the flow, and it names the order that has its id.
LEMMA FlowLeave ==
  ASSUME NEW next, NEW own, NEW lg, Len(lg) \in Nat, NEW cm, NEW es, Len(es) \in Nat,
         Flow(next, own, lg, cm),
         NEW m, m.type = "OrderCancel", Shorter(cm, es, m)
  PROVE  Flow(next, own, lg, es) /\ Theirs(lg, m.value)
<1> USE Zenon
<1>1. 1 \in Cancels(cm) /\ cm[1] = m
  BY SMT DEF Shorter, Cancels
<1>2. \A j \in Cancels(es) : j + 1 \in Cancels(cm) /\ es[j] = cm[j + 1]
  BY ShorterParts, SMT
<1>3. \A i \in Adds(es) : i + 1 \in Adds(cm) /\ es[i] = cm[i + 1]
  BY ShorterParts, SMT
<1>4. ASSUME NEW p, Sent(p, own, cm)
      PROVE  Sent(p, own, es)
  BY <1>2, <1>4 DEF Sent, IdAt
<1>5. LogSent(own, lg, es)
  BY <1>4 DEF Flow, LogSent
<1>6. AddsSent(next, own, Len(lg), es)
  BY <1>3, <1>4 DEF Flow, AddsSent, IdAt
<1>7. AddsInOrder(es)
  <2> SUFFICES ASSUME NEW i \in Adds(es), NEW j \in Adds(es), i < j
               PROVE  IdAt(es, i) < IdAt(es, j)
    BY DEF AddsInOrder
  <2>1. i + 1 < j + 1
    BY SMT DEF Adds
  <2>2. QED
    BY <1>3, <2>1 DEF Flow, AddsInOrder, IdAt
<1>8. AddsAll(next, Len(lg), es)
  <2> SUFFICES ASSUME NEW k \in (Len(lg) + 1)..(next - 1)
               PROVE  \E i \in Adds(es) : IdAt(es, i) = k
    BY DEF AddsAll
  <2>1. PICK i \in Adds(cm) : IdAt(cm, i) = k
    BY DEF Flow, AddsAll
  <2>2. i - 1 \in Adds(es) /\ es[i - 1] = cm[i]
    BY ShorterParts, SMT
  <2>3. QED
    BY <2>1, <2>2 DEF IdAt
<1>9. CancelsSent(next, es)
  BY <1>2 DEF Flow, CancelsSent, IdAt
<1>10. Flow(next, own, lg, es)
  BY <1>5, <1>6, <1>7, <1>8, <1>9 DEF Flow
<1>11. m.value.userId = USER_ID
  BY <1>1 DEF Flow, CancelsSent
<1>12. ASSUME NEW a \in 1..Len(lg)
       PROVE  /\ lg[a].orderId = a /\ lg[a].userId = USER_ID
              /\ m.value.orderId = a => lg[a].ticker = m.value.ticker
  BY <1>1 DEF Flow, LogSent, Sent, IdAt
<1>13. QED
  BY <1>10, <1>11, <1>12 DEF Theirs

\* What the generator remembers after it has sent a message.
Remembers(own, ow, m) ==
  \/ m.type = "OrderAdd" /\ DOMAIN ow = DOMAIN own \cup {m.value.orderId}
  \/ m.type = "OrderCancel" /\ DOMAIN ow = DOMAIN own \ {m.value.orderId}

\* An order that is sent is remembered, and one that is forgotten has its
\* cancel sent after it.
LEMMA LeavingSent ==
  ASSUME NEW own, NEW cm, Len(cm) \in Nat, NEW open, Leaving(own, cm, open),
         NEW m, NEW es, Longer(cm, es, m), NEW ow, Remembers(own, ow, m)
  PROVE  Leaving(ow, es, open)
<1> USE DEF Remembers
<1>1. \A k \in DOMAIN own : \/ k \in DOMAIN ow
                            \/ m.type = "OrderCancel" /\ m.value.orderId = k
  OBVIOUS
<1>2. \A k \in DOMAIN own :
        \/ k \in DOMAIN ow
        \/ Len(es) \in Cancels(es) /\ IdAt(es, Len(es)) = k
  <2>1. m.type = "OrderCancel" => Len(es) \in Cancels(es) /\ es[Len(es)] = m
    BY LongerParts
  <2>2. QED
    BY <1>1, <2>1, Zenon DEF IdAt
<1>3. \A j \in Cancels(cm) : j \in Cancels(es) /\ IdAt(es, j) = IdAt(cm, j)
  <2>1. \A j \in Cancels(cm) : j \in Cancels(es) /\ es[j] = cm[j]
    BY LongerParts
  <2>2. QED
    BY <2>1, Zenon DEF IdAt
<1>4. ASSUME NEW a \in open
      PROVE  a \in DOMAIN ow \/ \E j \in Cancels(es) : IdAt(es, j) = a
  BY <1>2, <1>3, Zenon DEF Leaving
<1>5. ASSUME NEW i \in Adds(es)
      PROVE  \/ IdAt(es, i) \in DOMAIN ow
             \/ \E j \in Cancels(es) : i < j /\ IdAt(es, j) = IdAt(es, i)
  <2>1. CASE i \in Adds(cm) /\ es[i] = cm[i] /\ i < Len(es)
    <3>1. IdAt(es, i) = IdAt(cm, i)
      BY <2>1, Zenon DEF IdAt
    <3>2. QED
      BY <1>2, <1>3, <2>1, <3>1, Zenon DEF Leaving
  <2>2. CASE m.type = "OrderAdd" /\ es[i] = m
    BY <2>2, Zenon DEF IdAt
  <2>3. QED
    BY <2>1, <2>2, LongerParts
<1>6. QED
  BY <1>4, <1>5, Zenon DEF Leaving

\* An order that is received is remembered or has its cancel after it, and a
\* cancel that is received takes the order it names.
LEMMA LeavingReceived ==
  ASSUME NEW own, NEW cm, NEW es, Len(es) \in Nat, NEW open, Leaving(own, cm, open),
         NEW m, Shorter(cm, es, m), NEW left,
         m.type = "OrderAdd" => left \subseteq open \cup {m.value.orderId},
         m.type # "OrderAdd" => left \subseteq open \ {m.value.orderId}
  PROVE  Leaving(own, es, left)
<1>1. \A j \in Cancels(cm) :
        \/ m.type = "OrderCancel" /\ j = 1 /\ IdAt(cm, j) = m.value.orderId
        \/ j - 1 \in Cancels(es) /\ IdAt(es, j - 1) = IdAt(cm, j)
  <2>1. \A j \in Cancels(cm) : \/ m.type = "OrderCancel" /\ j = 1 /\ cm[j] = m
                               \/ j - 1 \in Cancels(es) /\ es[j - 1] = cm[j]
    BY DEF Shorter, Cancels
  <2>2. QED
    BY <2>1, Zenon DEF IdAt
<1>2. ASSUME NEW a \in left
      PROVE  a \in DOMAIN own \/ \E j \in Cancels(es) : IdAt(es, j) = a
  <2>1. CASE a \in open
    <3>1. m.type # "OrderAdd" => a # m.value.orderId
      OBVIOUS
    <3>2. CASE \E j \in Cancels(cm) : IdAt(cm, j) = a
      <4>1. PICK j \in Cancels(cm) : IdAt(cm, j) = a
        BY <3>2
      <4>2. j - 1 \in Cancels(es) /\ IdAt(es, j - 1) = a
        BY <1>1, <3>1, <4>1, "OrderCancel" # "OrderAdd", Zenon
      <4>3. QED
        BY <4>2, Zenon
    <3>3. QED
      BY <2>1, <3>2, Zenon DEF Leaving
  <2>2. CASE m.type = "OrderAdd" /\ a = m.value.orderId
    <3>1. 1 \in Adds(cm) /\ cm[1] = m
      BY <2>2 DEF Shorter, Adds
    <3>2. CASE \E j \in Cancels(cm) : 1 < j /\ IdAt(cm, j) = a
      <4>1. PICK j \in Cancels(cm) : 1 < j /\ IdAt(cm, j) = a
        BY <3>2
      <4>2. j - 1 \in Cancels(es) /\ IdAt(es, j - 1) = a
        BY <1>1, <2>2, <4>1, "OrderCancel" # "OrderAdd", Zenon
      <4>3. QED
        BY <4>2, Zenon
    <3>3. QED
      BY <2>2, <3>1, <3>2, Zenon DEF Leaving, IdAt
  <2>3. QED
    BY <2>1, <2>2
<1>3. ASSUME NEW i \in Adds(es)
      PROVE  \/ IdAt(es, i) \in DOMAIN own
             \/ \E j \in Cancels(es) : i < j /\ IdAt(es, j) = IdAt(es, i)
  <2>1. i + 1 \in Adds(cm) /\ es[i] = cm[i + 1] /\ i \in Nat /\ 1 < i + 1
    BY DEF Shorter, Adds
  <2>2. IdAt(es, i) = IdAt(cm, i + 1)
    BY <2>1, Zenon DEF IdAt
  <2>3. CASE \E j \in Cancels(cm) : i + 1 < j /\ IdAt(cm, j) = IdAt(cm, i + 1)
    <3>1. PICK j \in Cancels(cm) : i + 1 < j /\ IdAt(cm, j) = IdAt(cm, i + 1)
      BY <2>3
    <3>2. j # 1 /\ i < j - 1
      BY <2>1, <3>1 DEF Cancels
    <3>3. j - 1 \in Cancels(es) /\ IdAt(es, j - 1) = IdAt(es, i)
      BY <1>1, <2>2, <3>1, <3>2, Zenon
    <3>4. QED
      BY <3>2, <3>3, Zenon
  <2>4. QED
    BY <2>1, <2>2, <2>3, Zenon DEF Leaving
<1>4. QED
  BY <1>2, <1>3, Zenon DEF Leaving

-----------------------------------------------------------------------------
(* What the listener should show, by the router's history. *)

\* The orders with volume left, by their numbers in the log.
Unfilled ==
  {a \in 1..Len(log) : /\ log[a].ticker \in INSTRUMENTS
                       /\ a \notin DOMAIN cancelledBy
                       /\ executed[a] < log[a].volume}

Entry(a) == [ticker |-> log[a].ticker, side |-> log[a].side, price |-> log[a].price,
             volume |-> log[a].volume - executed[a]]
Expected == [a \in Unfilled |-> Entry(a)]

\* The types of the history.
HistoryOK ==
  /\ log \in Seq(Router!OrderAdd) /\ executed \in Seq(Nat) /\ Len(executed) = Len(log)
  /\ DOMAIN cancelledBy \subseteq 1..Len(log)

\* The fields of an order of the log.
LEMMA LogEntry ==
  ASSUME HistoryOK, NEW a \in 1..Len(log)
  PROVE  /\ log[a] \in Router!OrderAdd /\ log[a].ticker \in INSTRUMENTS
         /\ log[a].volume \in Int /\ executed[a] \in Nat
<1>1. log[a] \in Router!OrderAdd /\ executed[a] \in Nat
  BY DEF HistoryOK
<1>2. Volumes \subseteq Int
  BY FeedRouterAssumption
<1>3. log[a].ticker \in INSTRUMENTS /\ log[a].volume \in Volumes
  BY <1>1, Zenon DEF Router!OrderAdd
<1>4. QED
  BY <1>1, <1>2, <1>3, Zenon

\* A new order is the last of the log, with nothing executed.
LEMMA OrderReceived ==
  ASSUME HistoryOK, NEW o \in Router!OrderAdd, Router!OnOrderAdd(o)
  PROVE  /\ Len(log') = Len(log) + 1 /\ Len(log) \in Nat
         /\ \A a \in 1..Len(log) : log'[a] = log[a]
         /\ log'[Len(log) + 1] = o
         /\ Unfilled' = Unfilled \cup {a \in {Len(log) + 1} : 0 < o.volume}
         /\ \A a \in Unfilled : Entry(a)' = Entry(a)
<1>1. log' = Append(log, o) /\ executed' = Append(executed, 0) /\ cancelledBy' = cancelledBy
  BY Zenon DEF Router!OnOrderAdd, Router!Receive
<1>2. PICK n \in Nat : n = Len(log)
  BY DEF HistoryOK
<1>3. /\ Len(log') = n + 1 /\ log'[n + 1] = o
      /\ \A a \in 1..n : log'[a] = log[a]
  BY <1>1, <1>2 DEF HistoryOK
<1>4. executed'[n + 1] = 0 /\ \A a \in 1..n : executed'[a] = executed[a]
  BY <1>1, <1>2 DEF HistoryOK
<1>5. o.ticker \in INSTRUMENTS /\ n + 1 \notin DOMAIN cancelledBy
  BY <1>2 DEF HistoryOK, Router!OrderAdd
<1>6. ASSUME NEW a \in Unfilled PROVE Entry(a)' = Entry(a)
  <2>1. a \in 1..n
    BY <1>2 DEF Unfilled
  <2>2. log'[a] = log[a] /\ executed'[a] = executed[a]
    BY <1>3, <1>4, <2>1, Zenon
  <2>3. QED
    BY <2>2, Zenon DEF Entry
<1>7. Unfilled' = Unfilled \cup {a \in {n + 1} : 0 < o.volume}
  <2>1. 1..(n + 1) = (1..n) \cup {n + 1}
    OBVIOUS
  <2>2. ASSUME NEW a \in 1..n PROVE a \in Unfilled' <=> a \in Unfilled
    BY <1>1, <1>2, <1>3, <1>4, <2>1, <2>2, Zenon DEF Unfilled
  <2>3. n + 1 \in Unfilled' <=> 0 < o.volume
    BY <1>1, <1>3, <1>4, <1>5, <2>1, Zenon DEF Unfilled
  <2>4. Unfilled \subseteq 1..n /\ Unfilled' \subseteq (1..n) \cup {n + 1}
    BY <1>2, <1>3, <2>1, Zenon DEF Unfilled
  <2>5. QED
    BY <2>2, <2>3, <2>4, Zenon
<1>8. QED
  BY <1>2, <1>3, <1>6, <1>7, Zenon

\* The event of a new order brings the listener to what it should show.
LEMMA AddTracked ==
  ASSUME HistoryOK, NEW o \in Router!OrderAdd, Router!OnOrderAdd(o),
         o.orderId = Len(log) + 1, 0 < o.volume,
         NEW e, e.type = "OrderAdd", e.orderId = o.orderId, e.ticker = o.ticker,
         e.side = o.side, e.price = o.price, e.volume = o.volume, NEW k
  PROVE  SameAt(Expected', apply(Expected, e), k)
<1> USE Zenon
<1>1. PICK n : n = o.orderId /\ n = e.orderId
  BY SMT
<1>2. /\ Unfilled' = Unfilled \cup {n} /\ log'[n] = o
      /\ \A a \in Unfilled : Entry(a)' = Entry(a)
  BY <1>1, OrderReceived, SMT
<1>3. PICK entry : entry = [ticker |-> e.ticker, side |-> e.side,
                            price |-> e.price, volume |-> e.volume]
  OBVIOUS
<1>4. apply(Expected, e) = Router!WithKey(Expected, n, entry)
  <2>1. apply(Expected, e) =
          Router!WithKey(Expected, e.orderId, [ticker |-> e.ticker, side |-> e.side,
                                               price |-> e.price, volume |-> e.volume])
    BY DEF apply
  <2>2. QED
    BY <1>1, <1>3, <2>1
<1>5. executed'[n] = 0
  <2>1. executed' = Append(executed, 0)
    BY DEF Router!OnOrderAdd, Router!Receive
  <2>2. QED
    BY <1>1, <2>1, SMT DEF HistoryOK
<1>6. Entry(n)' = entry
  <2>1. o.volume - 0 = o.volume
    <3>1. o.volume \in Volumes /\ Volumes \subseteq Int
      BY FeedRouterAssumption DEF Router!OrderAdd
    <3>2. PICK v \in Int : v = o.volume
      BY <3>1
    <3>3. v - 0 = v
      BY SMT
    <3>4. QED
      BY <3>2, <3>3
  <2>2. QED
    BY <1>2, <1>3, <1>5, <2>1 DEF Entry
<1>7. DOMAIN Expected = Unfilled /\ DOMAIN Expected' = Unfilled'
  BY DEF Expected
<1>8. CASE k = n
  <2>1. k \in DOMAIN Expected' /\ Expected'[k] = entry
    BY <1>2, <1>6, <1>8 DEF Expected
  <2>2. k \in DOMAIN Router!WithKey(Expected, n, entry)
        /\ Router!WithKey(Expected, n, entry)[k] = entry
    BY <1>8, KeyChanges, SMT
  <2>3. QED
    BY <1>4, <2>1, <2>2 DEF SameAt
<1>9. CASE k # n
  <2>1. SameAt(Router!WithKey(Expected, n, entry), Expected, k)
    BY <1>9, KeyChanges
  <2>2. k \in DOMAIN Expected' <=> k \in DOMAIN Expected
    BY <1>2, <1>7, <1>9
  <2>3. k \in DOMAIN Expected => Expected'[k] = Expected[k]
    BY <1>2 DEF Expected
  <2>4. QED
    BY <1>4, <2>1, <2>2, <2>3 DEF SameAt
<1>10. QED
  BY <1>8, <1>9, SMT

\* So does the event of a cancel.
LEMMA CancelTracked ==
  ASSUME NEW id, log' = log, executed' = executed, Unfilled' = Unfilled \ {id},
         NEW e, e.type = "OrderCancel", e.orderId = id, NEW k
  PROVE  SameAt(Expected', apply(Expected, e), k)
<1>1. apply(Expected, e) = Router!WithoutKey(Expected, id)
  BY ApplyCases, Zenon
<1>2. \A a : Entry(a)' = Entry(a)
  BY Zenon DEF Entry
<1>3. QED
  BY <1>1, <1>2 DEF SameAt, Expected, Router!WithoutKey

\* One party of a trade: its entry shrinks as its volume left does.
LEMMA PartyTracked ==
  ASSUME HistoryOK, NEW a \in 1..Len(log), a \notin DOMAIN cancelledBy,
         NEW v \in Nat \ {0}, executed[a] + v <= log[a].volume,
         log' = log, cancelledBy' = cancelledBy, executed'[a] = executed[a] + v,
         NEW g, SameAt(g, Expected, a)
  PROVE  SameAt(Expected', Shrink(g, a, v), a)
<1> USE Zenon
<1>1. log[a].ticker \in INSTRUMENTS /\ log[a].volume \in Int /\ executed[a] \in Nat
  BY LogEntry
<1>2. PICK left \in Int : left = log[a].volume - executed[a]
  BY <1>1, SMT
<1>3. executed[a] < log[a].volume /\ (left - v <= 0 <=> ~(executed[a] + v < log[a].volume))
      /\ left - v = log[a].volume - (executed[a] + v)
  BY <1>1, <1>2, SMT
<1>4. a \in Unfilled
  BY <1>1, <1>3 DEF Unfilled
<1>5. a \in DOMAIN g /\ g[a] = Entry(a)
  BY <1>4 DEF SameAt, Expected
<1>6. g[a].volume = left
  BY <1>2, <1>5, SMT DEF Entry
<1>7. a \in Unfilled' <=> ~(g[a].volume - v <= 0)
  BY <1>1, <1>3, <1>6 DEF Unfilled
<1>8. CASE g[a].volume - v <= 0
  <2>1. a \notin DOMAIN Shrink(g, a, v)
    BY <1>5, <1>8, ShrinkAt
  <2>2. a \notin DOMAIN Expected'
    BY <1>7, <1>8 DEF Expected
  <2>3. QED
    BY <2>1, <2>2 DEF SameAt
<1>9. CASE ~(g[a].volume - v <= 0)
  <2>1. /\ a \in DOMAIN Shrink(g, a, v)
        /\ Shrink(g, a, v)[a] = [g[a] EXCEPT !.volume = g[a].volume - v]
    BY <1>5, <1>9, ShrinkAt
  <2>2. a \in DOMAIN Expected' /\ Expected'[a] = Entry(a)'
    BY <1>7, <1>9 DEF Expected
  <2>3. PICK e : e = g[a]
    BY SMT
  <2>4. e = [ticker |-> log[a].ticker, side |-> log[a].side, price |-> log[a].price,
             volume |-> left]
    BY <1>2, <1>5, <2>3 DEF Entry
  <2>5. [e EXCEPT !.volume = left - v] =
          [ticker |-> log[a].ticker, side |-> log[a].side, price |-> log[a].price,
           volume |-> left - v]
    BY <2>4, SMT
  <2>6. Entry(a)' = [ticker |-> log[a].ticker, side |-> log[a].side,
                     price |-> log[a].price, volume |-> left - v]
    BY <1>3 DEF Entry
  <2>7. [g[a] EXCEPT !.volume = g[a].volume - v] = Entry(a)'
    BY <1>6, <2>3, <2>5, <2>6
  <2>8. QED
    BY <2>1, <2>2, <2>7 DEF SameAt
<1>10. QED
  BY <1>8, <1>9, SMT

\* What a trade between two orders of the log does to the history.
Trades(m, t, v) ==
  /\ m \in 1..Len(log) /\ t \in 1..Len(log) /\ m # t /\ v \in Nat \ {0}
  /\ m \notin DOMAIN cancelledBy /\ t \notin DOMAIN cancelledBy
  /\ executed[m] + v <= log[m].volume /\ executed[t] + v <= log[t].volume
  /\ log' = log /\ cancelledBy' = cancelledBy
  /\ executed' = [a \in DOMAIN executed |->
                    IF a \in {m, t} THEN executed[a] + v ELSE executed[a]]

\* A trade leaves no order with volume that had none.
LEMMA TradeUnfilled ==
  ASSUME HistoryOK, NEW m, NEW t, NEW v, Trades(m, t, v)
  PROVE  Unfilled' \subseteq Unfilled
<1> SUFFICES ASSUME NEW a \in Unfilled' PROVE a \in Unfilled
  OBVIOUS
<1>1. /\ a \in 1..Len(log) /\ a \notin DOMAIN cancelledBy /\ log[a].ticker \in INSTRUMENTS
      /\ executed'[a] < log[a].volume
  BY Zenon DEF Unfilled, Trades
<1>2. log[a].volume \in Int /\ executed[a] \in Nat
  BY <1>1, LogEntry, Zenon
<1>3. v \in Nat /\ (executed'[a] = executed[a] + v \/ executed'[a] = executed[a])
  BY <1>1 DEF Trades, HistoryOK
<1>4. executed[a] < log[a].volume
  BY <1>1, <1>2, <1>3
<1>5. QED
  BY <1>1, <1>4, Zenon DEF Unfilled

\* So does the event of a trade.
LEMMA TradeTracked ==
  ASSUME HistoryOK, NEW m, NEW t, NEW v, Trades(m, t, v),
         NEW e, e.type = "Trade", e.makerOrderId = m, e.takerOrderId = t, e.volume = v, NEW k
  PROVE  SameAt(Expected', apply(Expected, e), k)
<1> USE Zenon
<1>1. PICK g, h : g = Shrink(Expected, m, v) /\ h = Shrink(g, t, v)
  OBVIOUS
<1>2. apply(Expected, e) = h
  <2>1. apply(Expected, e) = ShrinkBoth(Expected, e)
    BY ApplyCases
  <2>2. QED
    BY <1>1, <2>1 DEF ShrinkBoth
<1>3. /\ m \in 1..Len(log) /\ t \in 1..Len(log) /\ m # t /\ v \in Nat \ {0}
      /\ m \notin DOMAIN cancelledBy /\ t \notin DOMAIN cancelledBy
      /\ executed[m] + v <= log[m].volume /\ executed[t] + v <= log[t].volume
      /\ log' = log /\ cancelledBy' = cancelledBy
  BY DEF Trades
<1>4. /\ executed'[m] = executed[m] + v /\ executed'[t] = executed[t] + v
      /\ \A a \in 1..Len(log) : a \notin {m, t} => executed'[a] = executed[a]
  BY SMT DEF Trades, HistoryOK
<1>5. CASE k = m
  <2>1. SameAt(Expected, Expected, m)
    BY DEF SameAt
  <2>2. SameAt(Expected', g, m)
    BY <1>1, <1>3, <1>4, <2>1, PartyTracked
  <2>3. SameAt(h, g, m)
    BY <1>1, <1>3, ShrinkAt
  <2>4. QED
    BY <1>2, <1>5, <2>2, <2>3 DEF SameAt
<1>6. CASE k = t
  <2>1. SameAt(g, Expected, t)
    BY <1>1, <1>3, ShrinkAt
  <2>2. SameAt(Expected', h, t)
    BY <1>1, <1>3, <1>4, <2>1, PartyTracked
  <2>3. QED
    BY <1>2, <1>6, <2>2
<1>7. CASE k # m /\ k # t
  <2>1. SameAt(g, Expected, k) /\ SameAt(h, g, k)
    BY <1>1, <1>7, ShrinkAt
  <2>2. k \in Unfilled' <=> k \in Unfilled
    BY <1>3, <1>4, <1>7 DEF Unfilled
  <2>3. k \in Unfilled => Entry(k)' = Entry(k)
    BY <1>3, <1>4, <1>7 DEF Entry, Unfilled
  <2>4. SameAt(Expected', Expected, k)
    BY <2>2, <2>3 DEF SameAt, Expected
  <2>5. QED
    BY <1>2, <2>1, <2>4 DEF SameAt
<1>8. QED
  BY <1>5, <1>6, <1>7, SMT

-----------------------------------------------------------------------------
(* The steps of the feed. *)

InboundMessage ==
  {encode_order_add(o) : o \in Router!OrderAdd}
    \cup {encode_order_cancel(c) : c \in Router!OrderCancel}
Datagram ==
  {EncodeOrderAddEvent(o) : o \in OrderAddMessage}
    \cup {EncodeOrderCancelEvent(c) : c \in OrderCancelMessage}
    \cup {EncodeTradeEvent(t) : t \in TradeMessage}
Wired == inbound \in Seq(InboundMessage) /\ channel \in Seq(Datagram)

\* What the engine reads of the messages on their way to it.
Commands == [i \in 1..Len(inbound) |-> DecodeInboundMessage(inbound[i])]

\* The inductive invariant of the messages and the generator.
FeedInv ==
  /\ Wired
  /\ Flow(next_order_id, own_orders, log, Commands)
  /\ Leaving(own_orders, Commands, Unfilled)

\* The inductive invariant of the listener: the datagrams on their way bring
\* every order that no lost datagram names to what it should show.
Mirrored == \A k : k \notin missed => SameAt(AfterAll(open_orders, channel), Expected, k)

\* The router's messages fit the wire.
LEMMA MessagesFit ==
  /\ Router!OrderAdd \subseteq OrderAddMessage
  /\ Router!OrderCancel \subseteq OrderCancelMessage
<1>1. OrderIds \subseteq Int /\ UserIds \subseteq Int /\ INSTRUMENTS \subseteq Ticker
  BY FeedAssumption
<1>2. Prices \subseteq Int /\ Volumes \subseteq Int
  BY FeedRouterAssumption DEF Router!Price
<1>3. Router!Sides = {"Buy", "Sell"}
  BY DEF Router!Sides
<1>4. Router!OrderAdd \subseteq OrderAddMessage
  BY <1>1, <1>2, <1>3, Zenon DEF Router!OrderAdd, OrderAddMessage
<1>5. Router!OrderCancel \subseteq OrderCancelMessage
  BY <1>1, Zenon DEF Router!OrderCancel, OrderCancelMessage
<1>6. QED
  BY <1>4, <1>5

\* The engine reads what the generator wrote.
LEMMA CommandRead ==
  /\ \A o \in Router!OrderAdd :
       DecodeInboundMessage(encode_order_add(o)) = [type |-> "OrderAdd", value |-> o]
  /\ \A c \in Router!OrderCancel :
       DecodeInboundMessage(encode_order_cancel(c)) = [type |-> "OrderCancel", value |-> c]
<1>1. ASSUME NEW o \in Router!OrderAdd
      PROVE  DecodeInboundMessage(encode_order_add(o)) = [type |-> "OrderAdd", value |-> o]
  <2>1. o \in OrderAddMessage
    BY MessagesFit
  <2>2. QED
    BY <2>1, OrderAddArrives, Zenon
<1>2. ASSUME NEW c \in Router!OrderCancel
      PROVE  DecodeInboundMessage(encode_order_cancel(c)) = [type |-> "OrderCancel", value |-> c]
  <2>1. c \in OrderCancelMessage
    BY MessagesFit
  <2>2. QED
    BY <2>1, OrderCancelArrives, Zenon
<1>3. QED
  BY <1>1, <1>2

\* What the engine reads is an order or a cancel.
LEMMA CommandTyped ==
  ASSUME NEW w \in InboundMessage
  PROVE  LET m == DecodeInboundMessage(w)
         IN  \/ m.type = "OrderAdd" /\ m.value \in Router!OrderAdd
             \/ m.type = "OrderCancel" /\ m.value \in Router!OrderCancel
<1>1. CASE \E o \in Router!OrderAdd : w = encode_order_add(o)
  BY <1>1, CommandRead
<1>2. CASE \E c \in Router!OrderCancel : w = encode_order_cancel(c)
  BY <1>2, CommandRead
<1>3. QED
  BY <1>1, <1>2, Zenon DEF InboundMessage

\* Sending a message adds its command.
LEMMA SendLonger ==
  ASSUME Wired, NEW w \in InboundMessage, inbound' = Append(inbound, w)
  PROVE  /\ inbound' \in Seq(InboundMessage)
         /\ Len(Commands) \in Nat
         /\ Longer(Commands, Commands', DecodeInboundMessage(w))
<1>1. inbound \in Seq(InboundMessage)
  BY DEF Wired
<1>2. inbound' \in Seq(InboundMessage) /\ Len(inbound) \in Nat /\ Len(inbound') = Len(inbound) + 1
  BY <1>1
<1>3. /\ \A i \in 1..Len(inbound) : inbound'[i] = inbound[i]
      /\ inbound'[Len(inbound) + 1] = w
  BY <1>1
<1>4. Len(Commands) = Len(inbound) /\ Len(Commands') = Len(inbound')
  BY <1>2 DEF Commands
<1>5. \A i \in 1..Len(inbound) : Commands'[i] = Commands[i]
  BY <1>2, <1>3 DEF Commands
<1>6. Commands'[Len(inbound) + 1] = DecodeInboundMessage(w)
  BY <1>2, <1>3 DEF Commands
<1>7. QED
  BY <1>2, <1>4, <1>5, <1>6, Zenon DEF Longer

\* Taking a message takes its command.
LEMMA TakeShorter ==
  ASSUME Wired, inbound # <<>>, inbound' = Tail(inbound)
  PROVE  /\ inbound' \in Seq(InboundMessage)
         /\ Len(Commands') \in Nat
         /\ Head(inbound) \in InboundMessage
         /\ Shorter(Commands, Commands', Command)
<1>1. inbound \in Seq(InboundMessage)
  BY DEF Wired
<1>2. /\ inbound' \in Seq(InboundMessage) /\ Len(inbound') \in Nat
      /\ Len(inbound) = Len(inbound') + 1
  BY <1>1
<1>3. /\ \A i \in 1..Len(inbound') : inbound'[i] = inbound[i + 1]
      /\ Head(inbound) = inbound[1] /\ inbound[1] \in InboundMessage
  BY <1>1
<1>4. Len(Commands) = Len(inbound) /\ Len(Commands') = Len(inbound')
  BY <1>2 DEF Commands
<1>5. \A i \in 1..Len(inbound') : Commands'[i] = Commands[i + 1]
  BY <1>2, <1>3 DEF Commands
<1>6. Commands[1] = Command
  BY <1>2, <1>3 DEF Commands, Command
<1>7. QED
  BY <1>2, <1>3, <1>4, <1>5, <1>6, Zenon DEF Shorter

\* Most of the steps that follow are first-order; those with arithmetic name SMT.
USE ZenonT(30)

\* A step that leaves the history alone leaves what it says alone.
LEMMA SameHistory ==
  ASSUME log' = log, executed' = executed, cancelledBy' = cancelledBy
  PROVE  Unfilled' = Unfilled /\ Expected' = Expected
BY DEF Unfilled, Expected, Entry

\* The generator sends an order.
LEMMA SendAddKeeps ==
  ASSUME HistoryOK, FeedInv, SendOrderAdd(USER_ID)
  PROVE  FeedInv'
<1>1. Wired /\ Flow(next_order_id, own_orders, log, Commands)
      /\ Leaving(own_orders, Commands, Unfilled)
  BY DEF FeedInv
<1>2. next_order_id <= MaxOrders /\ next_order_id' = next_order_id + 1
  BY DEF SendOrderAdd
<1>3. PICK t \in INSTRUMENTS, s \in Router!Sides, p \in Prices, v \in Volumes :
        /\ Send(encode_order_add([orderId |-> next_order_id, userId |-> USER_ID, ticker |-> t,
                                  side |-> s, price |-> p, volume |-> v]))
        /\ own_orders' = Router!WithKey(own_orders, next_order_id, t)
  BY DEF SendOrderAdd
<1>4. PICK o : o = [orderId |-> next_order_id, userId |-> USER_ID, ticker |-> t,
                    side |-> s, price |-> p, volume |-> v]
  OBVIOUS
<1>5. o.orderId = next_order_id /\ o.userId = USER_ID /\ o.ticker = t
  BY <1>4, SMT
<1>6. o \in Router!OrderAdd
  <2>1. next_order_id \in OrderIds /\ USER_ID \in UserIds
    BY <1>1, <1>2, FeedAssumption, SMT DEF Flow, Known
  <2>2. QED
    BY <1>4, <2>1 DEF Router!OrderAdd
<1>7. PICK w : w = encode_order_add(o)
  OBVIOUS
<1>8. w \in InboundMessage /\ DecodeInboundMessage(w) = [type |-> "OrderAdd", value |-> o]
  BY <1>6, <1>7, CommandRead DEF InboundMessage
<1>9. /\ inbound' = Append(inbound, w) /\ channel' = channel
      /\ log' = log /\ executed' = executed /\ cancelledBy' = cancelledBy
  BY <1>3, <1>4, <1>7 DEF Send, routerVars
<1>10. PICK m : m = [type |-> "OrderAdd", value |-> o]
  OBVIOUS
<1>11. m.type = "OrderAdd" /\ m.value = o
  BY <1>10, SMT
<1>12. /\ inbound' \in Seq(InboundMessage) /\ Len(Commands) \in Nat
       /\ Longer(Commands, Commands', m)
  BY <1>1, <1>8, <1>9, <1>10, SendLonger
<1>13. Len(log) \in Nat
  BY SMT DEF HistoryOK
<1>14. Flow(next_order_id + 1, own_orders', log, Commands')
  BY <1>1, <1>2, <1>3, <1>5, <1>11, <1>12, <1>13, FlowAdd
<1>15. Leaving(own_orders', Commands', Unfilled)
  <2>1. DOMAIN own_orders' = DOMAIN own_orders \cup {m.value.orderId}
    BY <1>3, <1>5, <1>11 DEF Router!WithKey
  <2>2. Remembers(own_orders, own_orders', m)
    BY <1>11, <2>1 DEF Remembers
  <2>3. QED
    BY <1>1, <1>12, <2>2, LeavingSent
<1>16. Unfilled' = Unfilled
  BY <1>9, SameHistory
<1>17. QED
  BY <1>1, <1>2, <1>9, <1>12, <1>14, <1>15, <1>16 DEF FeedInv, Wired

\* The generator sends a cancel.
LEMMA SendCancelKeeps ==
  ASSUME HistoryOK, FeedInv, SendOrderCancel
  PROVE  FeedInv'
<1>1. Wired /\ Flow(next_order_id, own_orders, log, Commands)
      /\ Leaving(own_orders, Commands, Unfilled)
  BY DEF FeedInv
<1>2. PICK id \in DOMAIN own_orders :
        /\ Send(encode_order_cancel([orderId |-> id, userId |-> USER_ID,
                                     ticker |-> own_orders[id]]))
        /\ own_orders' = Router!WithoutKey(own_orders, id)
        /\ next_order_id' = next_order_id
  BY DEF SendOrderCancel
<1>3. PICK c : c = [orderId |-> id, userId |-> USER_ID, ticker |-> own_orders[id]]
  OBVIOUS
<1>4. c.orderId = id /\ c.userId = USER_ID /\ c.ticker = own_orders[id]
  BY <1>3, SMT
<1>5. c \in Router!OrderCancel
  <2>1. id \in OrderIds /\ USER_ID \in UserIds /\ own_orders[id] \in INSTRUMENTS
    BY <1>1, FeedAssumption, SMT DEF Flow, Known
  <2>2. QED
    BY <1>3, <2>1 DEF Router!OrderCancel
<1>6. PICK w : w = encode_order_cancel(c)
  OBVIOUS
<1>7. w \in InboundMessage /\ DecodeInboundMessage(w) = [type |-> "OrderCancel", value |-> c]
  BY <1>5, <1>6, CommandRead DEF InboundMessage
<1>8. /\ inbound' = Append(inbound, w) /\ channel' = channel
      /\ log' = log /\ executed' = executed /\ cancelledBy' = cancelledBy
  BY <1>2, <1>3, <1>6 DEF Send, routerVars
<1>9. PICK m : m = [type |-> "OrderCancel", value |-> c]
  OBVIOUS
<1>10. m.type = "OrderCancel" /\ m.value = c
  BY <1>9, SMT
<1>11. /\ inbound' \in Seq(InboundMessage) /\ Len(Commands) \in Nat
       /\ Longer(Commands, Commands', m)
  BY <1>1, <1>7, <1>8, <1>9, SendLonger
<1>12. Len(log) \in Nat
  BY SMT DEF HistoryOK
<1>13. Flow(next_order_id, own_orders', log, Commands')
  BY <1>1, <1>2, <1>4, <1>10, <1>11, <1>12, FlowCancel
<1>14. Leaving(own_orders', Commands', Unfilled)
  <2>1. DOMAIN own_orders' = DOMAIN own_orders \ {m.value.orderId}
    BY <1>2, <1>4, <1>10 DEF Router!WithoutKey
  <2>2. Remembers(own_orders, own_orders', m)
    BY <1>10, <2>1 DEF Remembers
  <2>3. QED
    BY <1>1, <1>11, <2>2, LeavingSent
<1>15. Unfilled' = Unfilled
  BY <1>8, SameHistory
<1>16. QED
  BY <1>1, <1>2, <1>8, <1>11, <1>13, <1>14, <1>15 DEF FeedInv, Wired

\* The order that the engine executes has the next number as its id, and its
\* router is entitled to it.
LEMMA ExecuteAddKeeps ==
  ASSUME HistoryOK, FeedInv, ExecuteOrderAdd
  PROVE  /\ Command.value \in Router!OrderAdd
         /\ Command.value.orderId = Len(log) + 1 /\ Len(log) < MaxOrders
         /\ channel' = Append(channel, EncodeOrderAddEvent(Command.value))
         /\ FeedInv'
<1>1. Wired /\ Flow(next_order_id, own_orders, log, Commands)
      /\ Leaving(own_orders, Commands, Unfilled)
  BY DEF FeedInv
<1>2. /\ inbound # <<>> /\ Command.type = "OrderAdd" /\ Router!OnOrderAdd(Command.value)
      /\ channel' = Append(channel, EncodeOrderAddEvent(Command.value))
      /\ next_order_id' = next_order_id /\ own_orders' = own_orders
      /\ inbound' = Tail(inbound)
  BY DEF ExecuteOrderAdd, Publish, clientVars
<1>3. PICK m : m = Command
  OBVIOUS
<1>4. /\ inbound' \in Seq(InboundMessage) /\ Len(Commands') \in Nat
      /\ Head(inbound) \in InboundMessage /\ Shorter(Commands, Commands', m)
  BY <1>1, <1>2, <1>3, TakeShorter
<1>5. m.value \in Router!OrderAdd
  <2>1. "OrderAdd" # "OrderCancel"
    BY SMT
  <2>2. QED
    BY <1>2, <1>3, <1>4, <2>1, CommandTyped DEF Command
<1>6. PICK o \in Router!OrderAdd : o = m.value
  BY <1>5, SMT
<1>7. /\ Len(log') = Len(log) + 1 /\ Len(log) \in Nat
      /\ \A a \in 1..Len(log) : log'[a] = log[a]
      /\ log'[Len(log) + 1] = o
      /\ Unfilled' = Unfilled \cup {a \in {Len(log) + 1} : 0 < o.volume}
  BY <1>2, <1>3, <1>6, OrderReceived
<1>8. /\ m.value.orderId = Len(log) + 1 /\ Len(log) < MaxOrders
      /\ Flow(next_order_id, own_orders, log', Commands')
  <2>1. m.type = "OrderAdd" /\ log'[Len(log) + 1] = m.value
    BY <1>2, <1>3, <1>6, <1>7
  <2>2. QED
    BY <1>1, <1>4, <1>7, <2>1, FlowReceive
<1>9. Leaving(own_orders, Commands', Unfilled')
  <2>1. Unfilled' \subseteq Unfilled \cup {m.value.orderId}
    BY <1>7, <1>8
  <2>2. m.type = "OrderAdd"
    BY <1>2, <1>3, SMT
  <2>3. QED
    BY <1>1, <1>4, <2>1, <2>2, LeavingReceived
<1>10. channel' \in Seq(Datagram)
  <2>1. EncodeOrderAddEvent(Command.value) \in Datagram
    BY <1>3, <1>5, MessagesFit DEF Datagram
  <2>2. QED
    BY <1>1, <1>2, <2>1, SMT DEF Wired
<1>11. FeedInv'
  BY <1>2, <1>4, <1>8, <1>9, <1>10 DEF FeedInv, Wired
<1>12. QED
  BY <1>2, <1>3, <1>5, <1>8, <1>11

\* The cancel that the engine executes is one of the router's.
LEMMA CancelIsTyped ==
  ASSUME Wired, ExecuteOrderCancel
  PROVE  Command.value \in Router!OrderCancel
<1>1. inbound # <<>> /\ Command.type = "OrderCancel" /\ inbound' = Tail(inbound)
  BY DEF ExecuteOrderCancel
<1>2. Head(inbound) \in InboundMessage
  BY <1>1, TakeShorter
<1>3. "OrderAdd" # "OrderCancel"
  BY SMT
<1>4. QED
  BY <1>1, <1>2, <1>3, CommandTyped DEF Command

\* An order, by its number, that a cancel names with its user and ticker.
Names(c, a) == log[a].userId = c.userId /\ log[a].ticker = c.ticker /\ log[a].orderId = c.orderId

\* What the router does with a cancel.
CancelTakesNamed(c) ==
  /\ log' = log /\ executed' = executed
  /\ Unfilled' = {a \in Unfilled : ~Names(c, a)}

\* The cancel that the engine executes takes the order that has its id.
LEMMA ExecuteCancelKeeps ==
  ASSUME HistoryOK, FeedInv, ExecuteOrderCancel, CancelTakesNamed(Command.value)
  PROVE  /\ Command.value \in Router!OrderCancel
         /\ Unfilled' = Unfilled \ {Command.value.orderId}
         /\ channel' = Append(channel, EncodeOrderCancelEvent(Command.value))
         /\ FeedInv'
<1>1. Wired /\ Flow(next_order_id, own_orders, log, Commands)
      /\ Leaving(own_orders, Commands, Unfilled)
  BY DEF FeedInv
<1>2. /\ inbound # <<>> /\ Command.type = "OrderCancel"
      /\ channel' = Append(channel, EncodeOrderCancelEvent(Command.value))
      /\ next_order_id' = next_order_id /\ own_orders' = own_orders
      /\ inbound' = Tail(inbound)
  BY DEF ExecuteOrderCancel, Publish, clientVars
<1>3. PICK m : m = Command
  OBVIOUS
<1>4. /\ inbound' \in Seq(InboundMessage) /\ Len(Commands') \in Nat
      /\ Head(inbound) \in InboundMessage /\ Shorter(Commands, Commands', m)
  BY <1>1, <1>2, <1>3, TakeShorter
<1>5. m.value \in Router!OrderCancel
  BY <1>1, <1>3, CancelIsTyped
<1>6. Len(log) \in Nat
  BY SMT DEF HistoryOK
<1>7. Flow(next_order_id, own_orders, log, Commands') /\ Theirs(log, m.value)
  <2>1. m.type = "OrderCancel"
    BY <1>2, <1>3
  <2>2. QED
    BY <1>1, <1>4, <1>6, <2>1, FlowLeave
<1>8. ASSUME NEW a \in Unfilled PROVE Names(m.value, a) <=> a = m.value.orderId
  <2>1. a \in 1..Len(log)
    BY DEF Unfilled
  <2>2. QED
    BY <1>7, <2>1 DEF Names, Theirs
<1>9. log' = log /\ Unfilled' = {a \in Unfilled : ~Names(m.value, a)}
  BY <1>3 DEF CancelTakesNamed
<1>10. Unfilled' = Unfilled \ {m.value.orderId}
  BY <1>8, <1>9
<1>11. Leaving(own_orders, Commands', Unfilled')
  <2>1. m.type # "OrderAdd"
    BY <1>2, <1>3, SMT
  <2>2. Unfilled' \subseteq Unfilled \ {m.value.orderId}
    BY <1>10
  <2>3. QED
    BY <1>1, <1>4, <2>1, <2>2, LeavingReceived
<1>12. channel' \in Seq(Datagram)
  <2>1. EncodeOrderCancelEvent(Command.value) \in Datagram
    BY <1>3, <1>5, MessagesFit DEF Datagram
  <2>2. QED
    BY <1>1, <1>2, <2>1, SMT DEF Wired
<1>13. FeedInv'
  BY <1>2, <1>4, <1>7, <1>9, <1>11, <1>12 DEF FeedInv, Wired
<1>14. QED
  BY <1>2, <1>3, <1>5, <1>10, <1>13

\* Steps that leave the messages, the generator and the log alone.
LEMMA FeedSame ==
  ASSUME FeedInv, inbound' = inbound, UNCHANGED clientVars, log' = log,
         channel' \in Seq(Datagram), Unfilled' \subseteq Unfilled
  PROVE  FeedInv'
<1>1. Commands' = Commands /\ next_order_id' = next_order_id /\ own_orders' = own_orders
  BY DEF Commands, clientVars
<1>2. Leaving(own_orders, Commands, Unfilled')
  BY DEF FeedInv, Leaving
<1>3. QED
  BY <1>1, <1>2 DEF FeedInv, Wired

\* What the router does with a trade.
TradeTakesBoth ==
  /\ Router!NextTrade \in TradeMessage
  /\ \E m, t : /\ Trades(m, t, Router!NextTrade.volume)
               /\ log[m].orderId = Router!NextTrade.makerOrderId
               /\ log[t].orderId = Router!NextTrade.takerOrderId

\* The engine trades.
LEMMA TradeKeeps ==
  ASSUME HistoryOK, FeedInv, Trade, TradeTakesBoth
  PROVE  FeedInv'
<1>1. PICK m, t : Trades(m, t, Router!NextTrade.volume)
  BY DEF TradeTakesBoth
<1>2. Unfilled' \subseteq Unfilled /\ log' = log
  BY <1>1, TradeUnfilled DEF Trades
<1>3. /\ channel' = Append(channel, EncodeTradeEvent(Router!NextTrade))
      /\ inbound' = inbound /\ UNCHANGED clientVars
  BY DEF Trade, Publish
<1>4. channel' \in Seq(Datagram)
  <2>1. EncodeTradeEvent(Router!NextTrade) \in Datagram
    BY DEF TradeTakesBoth, Datagram
  <2>2. channel \in Seq(Datagram)
    BY DEF FeedInv, Wired
  <2>3. PICK d \in Datagram : d = EncodeTradeEvent(Router!NextTrade)
    BY <2>1
  <2>4. Append(channel, d) \in Seq(Datagram)
    BY <2>2, SMT
  <2>5. QED
    BY <1>3, <2>3, <2>4
<1>5. QED
  BY <1>2, <1>3, <1>4, FeedSame

\* The other steps: the end of OnOrderAdd, the listener's, and stuttering.
LEMMA OthersKeep ==
  ASSUME HistoryOK, FeedInv, Finish \/ Receive \/ Lose \/ UNCHANGED vars
  PROVE  FeedInv' /\ log' = log /\ Expected' = Expected
<1>1. /\ log' = log /\ executed' = executed /\ cancelledBy' = cancelledBy
      /\ inbound' = inbound /\ UNCHANGED clientVars
  <2>1. CASE Finish
    <3>1. log' = log /\ executed' = executed /\ cancelledBy' = cancelledBy
      BY <2>1 DEF Finish, Router!FinishOrderAdd
    <3>2. QED
      BY <2>1, <3>1 DEF Finish
  <2>2. CASE Receive
    BY <2>2 DEF Receive, routerVars
  <2>3. CASE Lose
    BY <2>3 DEF Lose, routerVars
  <2>4. CASE UNCHANGED vars
    BY <2>4 DEF vars, routerVars
  <2>5. QED
    BY <2>1, <2>2, <2>3, <2>4, SMT
<1>2. channel' \in Seq(Datagram)
  <2>1. channel \in Seq(Datagram)
    BY DEF FeedInv, Wired
  <2>2. channel' = channel \/ (channel # <<>> /\ channel' = Tail(channel))
    BY DEF Finish, Receive, Lose, vars
  <2>3. QED
    BY <2>1, <2>2, SMT
<1>3. Unfilled' = Unfilled /\ Expected' = Expected
  BY <1>1, SameHistory
<1>4. FeedInv'
  BY <1>1, <1>2, <1>3, FeedSame
<1>5. QED
  BY <1>1, <1>3, <1>4, SMT

\* A datagram that tracks what the engine did keeps the listener's invariant.
LEMMA EventMirrors ==
  ASSUME Wired, Mirrored, NEW d \in Datagram, channel' = Append(channel, d),
         UNCHANGED listenerVars, NEW e, e = decode_market_data(d),
         \A k : SameAt(Expected', apply(Expected, e), k)
  PROVE  Mirrored'
<1>1. channel \in Seq(Datagram) /\ open_orders' = open_orders /\ missed' = missed
  BY DEF Wired, listenerVars
<1>2. SUFFICES ASSUME NEW k, k \notin missed
               PROVE  SameAt(AfterAll(open_orders, Append(channel, d)), Expected', k)
  BY <1>1 DEF Mirrored
<1>3. SameAt(AfterAll(open_orders, Append(channel, d)),
             apply(AfterAll(open_orders, channel), e), k)
  BY <1>1, ReceiveLast
<1>4. SameAt(AfterAll(open_orders, channel), Expected, k)
  BY <1>2 DEF Mirrored
<1>5. SameAt(apply(AfterAll(open_orders, channel), e), apply(Expected, e), k)
  BY <1>4, ApplyLocal
<1>6. SameAt(Expected', apply(Expected, e), k)
  OBVIOUS
<1>7. QED
  BY <1>3, <1>5, <1>6 DEF SameAt

\* So do the listener's steps, and those that do not concern it.
LEMMA ReceiveMirrors ==
  ASSUME Wired, Mirrored, Receive, Expected' = Expected
  PROVE  Mirrored'
<1>1. channel \in Seq(Datagram) /\ channel # <<>> /\ missed' = missed
  BY DEF Wired, Receive
<1>2. /\ open_orders' = apply(open_orders, decode_market_data(Head(channel)))
      /\ channel' = Tail(channel)
  BY DEF Receive
<1>3. SUFFICES ASSUME NEW k, k \notin missed
               PROVE  SameAt(AfterAll(open_orders', channel'), Expected, k)
  BY <1>1 DEF Mirrored
<1>4. SameAt(AfterAll(open_orders', channel'), AfterAll(open_orders, channel), k)
  BY <1>1, <1>2, ReceiveFirst
<1>5. SameAt(AfterAll(open_orders, channel), Expected, k)
  BY <1>3 DEF Mirrored
<1>6. QED
  BY <1>4, <1>5 DEF SameAt

\* A lost datagram spoils only the orders that it names.
LEMMA LoseMirrors ==
  ASSUME Wired, Mirrored, Lose, Expected' = Expected
  PROVE  Mirrored'
<1>1. channel \in Seq(Datagram) /\ channel # <<>> /\ open_orders' = open_orders
  BY DEF Wired, Lose
<1>2. /\ missed' = missed \cup Named(decode_market_data(Head(channel)))
      /\ channel' = Tail(channel)
  BY DEF Lose
<1>3. SUFFICES ASSUME NEW k, k \notin missed'
               PROVE  SameAt(AfterAll(open_orders, channel'), Expected, k)
  BY <1>1 DEF Mirrored
<1>4. k \notin missed /\ k \notin Named(decode_market_data(Head(channel)))
  BY <1>2, <1>3
<1>5. SameAt(AfterAll(open_orders, channel'), AfterAll(open_orders, channel), k)
  BY <1>1, <1>2, <1>4, LoseFirst
<1>6. SameAt(AfterAll(open_orders, channel), Expected, k)
  BY <1>4 DEF Mirrored
<1>7. QED
  BY <1>5, <1>6 DEF SameAt

\* What the router does, as the two invariants need it: this is what
\* RouterIndexProofs says of it.
RouterDoes ==
  /\ ExecuteOrderCancel => CancelTakesNamed(Command.value)
  /\ Trade => TradeTakesBoth

\* Every step of the generator, the exchange and the listener keeps the
\* invariant of the messages.
LEMMA FeedStepKeeps ==
  ASSUME HistoryOK, FeedInv, RouterDoes, [GeneratorNext]_vars
  PROVE  FeedInv'
<1>1. CASE SendOrderAdd(USER_ID)
  BY <1>1, SendAddKeeps
<1>2. CASE SendOrderCancel
  BY <1>2, SendCancelKeeps
<1>3. CASE ExecuteOrderAdd
  BY <1>3, ExecuteAddKeeps
<1>4. CASE ExecuteOrderCancel
  BY <1>4, ExecuteCancelKeeps DEF RouterDoes
<1>5. CASE Trade
  BY <1>5, TradeKeeps DEF RouterDoes
<1>6. CASE Finish \/ Receive \/ Lose \/ UNCHANGED vars
  BY <1>6, OthersKeep
<1>7. QED
  BY <1>1, <1>2, <1>3, <1>4, <1>5, <1>6 DEF GeneratorNext, FeedStep

\* And the invariant of the listener, when no order comes without volume.
LEMMA MirrorStepKeeps ==
  ASSUME HistoryOK, FeedInv, Mirrored, RouterDoes, [GeneratorNext]_vars,
         Volumes \subseteq Nat \ {0}
  PROVE  Mirrored'
<1>1. Wired
  BY DEF FeedInv
<1>2. CASE SendOrderAdd(USER_ID) \/ SendOrderCancel
  <2>1. PICK w : Send(w)
    BY <1>2 DEF SendOrderAdd, SendOrderCancel
  <2>2. /\ log' = log /\ executed' = executed /\ cancelledBy' = cancelledBy
        /\ channel' = channel /\ open_orders' = open_orders /\ missed' = missed
    BY <2>1 DEF Send, routerVars, listenerVars
  <2>3. Expected' = Expected
    BY <2>2, SameHistory
  <2>4. QED
    BY <2>2, <2>3 DEF Mirrored
<1>3. CASE ExecuteOrderAdd
  <2>1. /\ Command.value \in Router!OrderAdd /\ Command.value.orderId = Len(log) + 1
        /\ channel' = Append(channel, EncodeOrderAddEvent(Command.value))
    BY <1>3, ExecuteAddKeeps
  <2>2. PICK o \in Router!OrderAdd : o = Command.value
    BY <2>1
  <2>3. Router!OnOrderAdd(o) /\ UNCHANGED listenerVars
    BY <1>3, <2>2 DEF ExecuteOrderAdd, Publish
  <2>4. 0 < o.volume
    <3>1. o.volume \in Volumes
      BY DEF Router!OrderAdd
    <3>2. PICK v \in Nat \ {0} : v = o.volume
      BY <3>1
    <3>3. 0 < v
      BY SMT
    <3>4. QED
      BY <3>2, <3>3
  <2>5. PICK e : e = decode_market_data(EncodeOrderAddEvent(o))
    OBVIOUS
  <2>6. o \in OrderAddMessage
    BY MessagesFit, SMT
  <2>7. e = [type |-> "OrderAdd", orderId |-> o.orderId, userId |-> o.userId,
             ticker |-> o.ticker, side |-> o.side, price |-> o.price, volume |-> o.volume]
    BY <2>5, <2>6, OrderAddEventArrives
  <2>8. /\ e.type = "OrderAdd" /\ e.orderId = o.orderId /\ e.ticker = o.ticker
        /\ e.side = o.side /\ e.price = o.price /\ e.volume = o.volume
    BY <2>7, SMT
  <2>9. ASSUME NEW k PROVE SameAt(Expected', apply(Expected, e), k)
    BY <2>1, <2>2, <2>3, <2>4, <2>8, AddTracked
  <2>10. PICK d \in Datagram : d = EncodeOrderAddEvent(o)
    BY <2>6 DEF Datagram
  <2>11. QED
    BY <1>1, <2>1, <2>2, <2>3, <2>5, <2>9, <2>10, EventMirrors
<1>4. CASE ExecuteOrderCancel
  <2>1. CancelTakesNamed(Command.value)
    BY <1>4 DEF RouterDoes
  <2>2. /\ Command.value \in Router!OrderCancel
        /\ Unfilled' = Unfilled \ {Command.value.orderId}
        /\ channel' = Append(channel, EncodeOrderCancelEvent(Command.value))
    BY <1>4, <2>1, ExecuteCancelKeeps
  <2>3. PICK c \in Router!OrderCancel : c = Command.value
    BY <2>2
  <2>4. log' = log /\ executed' = executed /\ UNCHANGED listenerVars
    BY <1>4, <2>1 DEF CancelTakesNamed, ExecuteOrderCancel, Publish
  <2>5. PICK e : e = decode_market_data(EncodeOrderCancelEvent(c))
    OBVIOUS
  <2>6. c \in OrderCancelMessage
    BY MessagesFit, SMT
  <2>7. e = [type |-> "OrderCancel", orderId |-> c.orderId, userId |-> c.userId,
             ticker |-> c.ticker]
    BY <2>5, <2>6, OrderCancelEventArrives
  <2>8. e.type = "OrderCancel" /\ e.orderId = c.orderId
    BY <2>7, SMT
  <2>9. PICK id : id = c.orderId
    BY SMT
  <2>10. Unfilled' = Unfilled \ {id} /\ e.orderId = id
    BY <2>2, <2>3, <2>8, <2>9
  <2>11. ASSUME NEW k PROVE SameAt(Expected', apply(Expected, e), k)
    BY <2>4, <2>8, <2>10, CancelTracked
  <2>12. PICK d \in Datagram : d = EncodeOrderCancelEvent(c)
    BY <2>6 DEF Datagram
  <2>13. QED
    BY <1>1, <2>2, <2>3, <2>4, <2>5, <2>11, <2>12, EventMirrors
<1>5. CASE Trade
  <2>1. TradeTakesBoth
    BY <1>5 DEF RouterDoes
  <2>2. PICK o \in TradeMessage : o = Router!NextTrade
    BY <2>1 DEF TradeTakesBoth
  <2>3. PICK m, t : /\ Trades(m, t, o.volume)
                    /\ log[m].orderId = o.makerOrderId /\ log[t].orderId = o.takerOrderId
    BY <2>1, <2>2 DEF TradeTakesBoth
  <2>4. m = o.makerOrderId /\ t = o.takerOrderId
    BY <2>3 DEF Trades, FeedInv, Flow, LogSent
  <2>5. /\ channel' = Append(channel, EncodeTradeEvent(o))
        /\ UNCHANGED listenerVars
    BY <1>5, <2>2 DEF Trade, Publish
  <2>6. PICK e : e = decode_market_data(EncodeTradeEvent(o))
    OBVIOUS
  <2>7. e = [type |-> "Trade", maker |-> o.maker, taker |-> o.taker,
             makerOrderId |-> o.makerOrderId, takerOrderId |-> o.takerOrderId,
             ticker |-> o.ticker, takerSide |-> o.takerSide,
             price |-> o.price, volume |-> o.volume]
    BY <2>6, TradeEventArrives
  <2>8. /\ e.type = "Trade" /\ e.makerOrderId = m /\ e.takerOrderId = t
        /\ e.volume = o.volume
    BY <2>4, <2>7, SMT
  <2>9. PICK v : v = o.volume
    BY SMT
  <2>10. ASSUME NEW k PROVE SameAt(Expected', apply(Expected, e), k)
    BY <2>3, <2>8, <2>9, TradeTracked
  <2>11. PICK d \in Datagram : d = EncodeTradeEvent(o)
    BY DEF Datagram
  <2>12. QED
    BY <1>1, <2>5, <2>6, <2>10, <2>11, EventMirrors
<1>6. CASE Receive
  BY <1>1, <1>6, OthersKeep, ReceiveMirrors
<1>7. CASE Lose
  BY <1>1, <1>7, OthersKeep, LoseMirrors
<1>8. CASE Finish \/ UNCHANGED vars
  <2>1. Expected' = Expected
    BY <1>8, OthersKeep
  <2>2. channel' = channel /\ open_orders' = open_orders /\ missed' = missed
    BY <1>8 DEF Finish, vars, listenerVars
  <2>3. QED
    BY <2>1, <2>2 DEF Mirrored
<1>9. QED
  BY <1>2, <1>3, <1>4, <1>5, <1>6, <1>7, <1>8 DEF GeneratorNext, FeedStep

\* Both hold initially.
LEMMA FeedInit ==
  ASSUME Init
  PROVE  FeedInv /\ Mirrored
<1>1. /\ next_order_id = 1 /\ own_orders = Router!EmptyMap /\ inbound = <<>> /\ channel = <<>>
      /\ open_orders = Router!EmptyMap
  BY DEF Init
<1>2. log = <<>>
  BY DEF Init, Router!Init
<1>3. Wired /\ Len(log) = 0 /\ Len(inbound) = 0 /\ Len(channel) = 0 /\ Len(channel) \in Nat
  BY <1>1, <1>2, SMT DEF Wired
<1>4. Len(Commands) = 0 /\ Adds(Commands) = {} /\ Cancels(Commands) = {}
  BY <1>3, SMT DEF Commands, Adds, Cancels
<1>5. Unfilled = {} /\ DOMAIN own_orders = {}
  BY <1>1, <1>3, SMT DEF Unfilled, Router!EmptyMap
<1>6. Flow(next_order_id, own_orders, log, Commands)
  BY <1>1, <1>3, <1>4, <1>5, FeedAssumption, SMT
     DEF Flow, Known, LogSent, AddsSent, AddsInOrder, AddsAll, CancelsSent
<1>7. Leaving(own_orders, Commands, Unfilled)
  BY <1>4, <1>5 DEF Leaving
<1>8. Mirrored
  <2>1. AfterAll(open_orders, channel) = open_orders
    BY <1>3, AfterRecursion, SMT
  <2>2. DOMAIN open_orders = {} /\ DOMAIN Expected = {}
    BY <1>1, <1>5, SMT DEF Router!EmptyMap, Expected
  <2>3. QED
    BY <2>1, <2>2 DEF Mirrored, SameAt
<1>9. QED
  BY <1>3, <1>6, <1>7, <1>8 DEF FeedInv

\* What the log says that an order has left.
LeftOf(a) ==
  [orderId |-> log[a].orderId, ticker |-> log[a].ticker, side |-> log[a].side,
   price |-> log[a].price, volume |-> log[a].volume - executed[a]]

\* The engines hold what the log says is left.
EngineByHistory == EngineOrders = {LeftOf(a) : a \in Unfilled}

\* The messages on their way see every cancelled order off the book.
LEMMA LeavingIsEnough ==
  ASSUME FeedInv, EngineByHistory
  PROVE  CancelledOrdersLeave
<1> SUFFICES ASSUME NEW o \in EngineOrders
             PROVE  \/ o.orderId \in DOMAIN own_orders
                    \/ \E i \in DOMAIN inbound :
                         /\ DecodeInboundMessage(inbound[i]).type = "OrderCancel"
                         /\ DecodeInboundMessage(inbound[i]).value.orderId = o.orderId
  BY DEF CancelledOrdersLeave
<1>1. PICK a \in Unfilled : o = LeftOf(a)
  BY DEF EngineByHistory
<1>2. o.orderId = log[a].orderId
  BY <1>1, SMT DEF LeftOf
<1>3. a \in 1..Len(log)
  BY DEF Unfilled
<1>4. o.orderId = a
  BY <1>2, <1>3 DEF FeedInv, Flow, LogSent
<1>5. CASE \E j \in Cancels(Commands) : IdAt(Commands, j) = a
  <2>1. PICK j \in Cancels(Commands) : IdAt(Commands, j) = a
    BY <1>5, SMT
  <2>2. inbound \in Seq(InboundMessage)
    BY DEF FeedInv, Wired
  <2>3. DOMAIN inbound = 1..Len(inbound) /\ Len(Commands) = Len(inbound)
    BY <2>2, SMT DEF Commands
  <2>4. j \in 1..Len(inbound) /\ Commands[j].type = "OrderCancel"
    BY <2>3 DEF Cancels
  <2>5. Commands[j] = DecodeInboundMessage(inbound[j])
    BY <2>4 DEF Commands
  <2>6. QED
    BY <1>4, <2>1, <2>3, <2>4, <2>5 DEF IdAt
<1>6. QED
  BY <1>4, <1>5 DEF FeedInv, Leaving

\* What the listener will show is what the engines hold.
LEMMA MirrorIsEnough ==
  ASSUME FeedInv, Mirrored, EngineByHistory
  PROVE  BookMirrored
<1>1. PICK s : s = AfterAll(open_orders, channel)
  OBVIOUS
<1> DEFINE Shown(id) == [orderId |-> id, ticker |-> s[id].ticker, side |-> s[id].side,
                         price |-> s[id].price, volume |-> s[id].volume]
<1>2. ListenerOrders = {Shown(id) : id \in DOMAIN s}
  BY <1>1 DEF ListenerOrders
<1>3. ASSUME NEW a \in Unfilled PROVE LeftOf(a).orderId = a /\ log[a].orderId = a
  <2>1. a \in 1..Len(log)
    BY DEF Unfilled
  <2>2. log[a].orderId = a
    BY <2>1 DEF FeedInv, Flow, LogSent
  <2>3. QED
    BY <2>2, SMT DEF LeftOf
<1>4. ASSUME NEW k, k \notin missed
      PROVE  /\ k \in DOMAIN s <=> k \in Unfilled
             /\ k \in Unfilled => Shown(k) = LeftOf(k)
  <2>1. SameAt(s, Expected, k)
    BY <1>1, <1>4 DEF Mirrored
  <2>2. DOMAIN Expected = Unfilled
    BY DEF Expected
  <2>3. k \in DOMAIN s <=> k \in Unfilled
    BY <2>1, <2>2 DEF SameAt
  <2>4. ASSUME k \in Unfilled PROVE Shown(k) = LeftOf(k)
    <3>1. s[k] = Entry(k)
      BY <2>1, <2>3, <2>4 DEF SameAt, Expected
    <3>2. PICK e : e = s[k]
      BY SMT
    <3>3. e = [ticker |-> log[k].ticker, side |-> log[k].side, price |-> log[k].price,
               volume |-> log[k].volume - executed[k]]
      BY <3>1, <3>2 DEF Entry
    <3>4. /\ e.ticker = log[k].ticker /\ e.side = log[k].side /\ e.price = log[k].price
          /\ e.volume = log[k].volume - executed[k]
      BY <3>3, SMT
    <3>5. log[k].orderId = k
      BY <1>3, <2>4
    <3>6. QED
      BY <3>2, <3>4, <3>5 DEF LeftOf
  <2>5. QED
    BY <2>3, <2>4
<1>5. \A k : Shown(k).orderId = k
  BY SMT
<1> HIDE DEF Shown
<1>6. ASSUME NEW o \in ListenerOrders, o.orderId \notin missed PROVE o \in EngineOrders
  <2>1. PICK k \in DOMAIN s : o = Shown(k)
    BY <1>2
  <2>2. k \notin missed
    BY <1>5, <1>6, <2>1
  <2>3. k \in Unfilled /\ o = LeftOf(k)
    BY <1>4, <2>1, <2>2
  <2>4. QED
    BY <2>3 DEF EngineByHistory
<1>7. ASSUME NEW o \in EngineOrders, o.orderId \notin missed PROVE o \in ListenerOrders
  <2>1. PICK k \in Unfilled : o = LeftOf(k)
    BY DEF EngineByHistory
  <2>2. k \notin missed
    BY <1>3, <1>7, <2>1
  <2>3. k \in DOMAIN s /\ o = Shown(k)
    BY <1>4, <2>1, <2>2
  <2>4. QED
    BY <1>2, <2>3
<1>8. QED
  BY <1>6, <1>7 DEF BookMirrored, Complete

\* What a step of the feed is to the router: an order with a new id, a
\* cancel, a step of the call in progress, or nothing.
RouterMoves ==
  \/ \E o \in Router!OrderAdd : /\ Len(log) < MaxOrders
                                /\ \A a \in 1..Len(log) : log[a].orderId # o.orderId
                                /\ Router!OnOrderAdd(o)
  \/ \E c \in Router!OrderCancel : Router!OnOrderCancel(c) \/ Router!RejectCancel(c)
  \/ Router!Match
  \/ Router!FinishOrderAdd
  \/ UNCHANGED routerVars

\* Every step is one of these.
LEMMA StepMovesRouter ==
  ASSUME HistoryOK, FeedInv, [GeneratorNext]_vars
  PROVE  RouterMoves
<1>1. CASE SendOrderAdd(USER_ID) \/ SendOrderCancel
  BY <1>1 DEF SendOrderAdd, SendOrderCancel, Send, RouterMoves
<1>2. CASE ExecuteOrderAdd
  <2>1. /\ Command.value \in Router!OrderAdd /\ Command.value.orderId = Len(log) + 1
        /\ Len(log) < MaxOrders
    BY <1>2, ExecuteAddKeeps
  <2>2. PICK o \in Router!OrderAdd : o = Command.value
    BY <2>1
  <2>3. Router!OnOrderAdd(o)
    BY <1>2, <2>2 DEF ExecuteOrderAdd
  <2>4. ASSUME NEW a \in 1..Len(log) PROVE log[a].orderId # o.orderId
    <3>1. log[a].orderId = a
      BY DEF FeedInv, Flow, LogSent
    <3>2. Len(log) \in Nat
      BY SMT DEF HistoryOK
    <3>3. a # Len(log) + 1
      BY <3>2, SMT
    <3>4. QED
      BY <2>1, <2>2, <3>1, <3>3
  <2>5. QED
    BY <2>1, <2>3, <2>4 DEF RouterMoves
<1>3. CASE ExecuteOrderCancel
  <2>1. Command.value \in Router!OrderCancel
    BY <1>3, CancelIsTyped DEF FeedInv
  <2>2. QED
    BY <1>3, <2>1 DEF ExecuteOrderCancel, RouterMoves
<1>4. CASE Trade \/ Finish
  BY <1>4 DEF Trade, Finish, RouterMoves
<1>5. CASE Receive \/ Lose \/ UNCHANGED vars
  BY <1>5 DEF Receive, Lose, vars, RouterMoves
<1>6. QED
  BY <1>1, <1>2, <1>3, <1>4, <1>5 DEF GeneratorNext, FeedStep

\* A trade of the router's fits the wire.
LEMMA TradeFits ==
  ASSUME NEW trade \in [maker : UserIds, taker : UserIds, makerOrderId : OrderIds,
                        takerOrderId : OrderIds, ticker : INSTRUMENTS,
                        takerSide : {"Buy", "Sell"}, price : Router!Price,
                        volume : Nat \ {0}]
  PROVE  trade \in TradeMessage
<1>1. OrderIds \subseteq Int /\ UserIds \subseteq Int /\ INSTRUMENTS \subseteq Ticker
  BY FeedAssumption, SMT
<1>2. Router!Price \subseteq Int /\ Nat \ {0} \subseteq Int
  BY FeedRouterAssumption, SMT DEF Router!Price
<1>3. QED
  BY <1>1, <1>2 DEF TradeMessage

\* A trade between two live orders with enough left, and no other change.
TradedAlone(trade) ==
  /\ trade \in [maker : UserIds, taker : UserIds, makerOrderId : OrderIds,
                takerOrderId : OrderIds, ticker : INSTRUMENTS,
                takerSide : {"Buy", "Sell"}, price : Router!Price, volume : Nat \ {0}]
  /\ \E m, t :
       /\ m \in 1..Len(log) /\ t \in 1..Len(log) /\ m # t
       /\ log[m].orderId = trade.makerOrderId /\ log[t].orderId = trade.takerOrderId
       /\ executed[m] + trade.volume <= log[m].volume
       /\ executed[t] + trade.volume <= log[t].volume
       /\ m \notin DOMAIN cancelledBy /\ t \notin DOMAIN cancelledBy
       /\ log' = log /\ cancelledBy' = cancelledBy
       /\ executed' = [a \in DOMAIN executed |->
                         IF a \in {m, t} THEN executed[a] + trade.volume ELSE executed[a]]

\* Such a trade is what the listener expects.
LEMMA TradeAlone ==
  ASSUME NEW trade, trade = Router!NextTrade, TradedAlone(trade)
  PROVE  TradeTakesBoth
<1>1. trade.volume \in Nat \ {0} /\ trade \in TradeMessage
  BY TradeFits DEF TradedAlone
<1>2. \E m, t : /\ Trades(m, t, trade.volume)
                /\ log[m].orderId = trade.makerOrderId
                /\ log[t].orderId = trade.takerOrderId
  BY <1>1 DEF TradedAlone, Trades
<1>3. QED
  BY <1>1, <1>2 DEF TradeTakesBoth

-----------------------------------------------------------------------------
(* The router inside the feed, from RouterIndexProofs. *)

RI == INSTANCE RouterIndexProofs WITH Tickers <- INSTRUMENTS, ReuseLiveIds <- FALSE

\* The assumptions of the router hold here.
LEMMA RouterInstance ==
  RI!HalfAssumption /\ RI!NoneIsNoPrice /\ RI!RouterAssumption /\ RI!NoneIsNoCall
BY FeedRouterAssumption
   DEF RI!HalfAssumption, RI!NoneIsNoPrice, RI!RouterAssumption, RI!NoneIsNoCall, RI!Price,
       RI!Call, RI!OrderAdd, RI!Sides, Router!Price, Router!Call, Router!OrderAdd, Router!Sides

\* The facts taken from the router rest on them.
USE RouterInstance

\* The two instances of the router say the same.
LEMMA SameStart ==
  /\ Router!Init => RI!Init
  /\ RI!vars = routerVars /\ Router!vars = routerVars
  /\ RI!OrderAdd = Router!OrderAdd /\ RI!OrderCancel = Router!OrderCancel
BY DEF RI!Init, Router!Init, RI!Sides, Router!Sides, RI!EmptyMap, Router!EmptyMap,
   RI!vars, Router!vars, routerVars, RI!OrderAdd, Router!OrderAdd, RI!OrderCancel,
   Router!OrderCancel

\* The same trade.
LEMMA SameMatch == Router!Match => RI!Match
BY DEF RI!Match, Router!Match, RI!Matches, Router!Matches, RI!VolumeLeft,
   Router!VolumeLeft, RI!PriceCrosses, Router!PriceCrosses, RI!BestPrice, Router!BestPrice,
   RI!NoWorse, Router!NoWorse, RI!Opposite, Router!Opposite, RI!Opposing, Router!Opposing,
   RI!Maker, Router!Maker, RI!Traded, Router!Traded, RI!FillBest, Router!FillBest, RI!PutLevel,
   Router!PutLevel, RI!WithoutKey, Router!WithoutKey, RI!FillFront, Router!FillFront

\* The same end of a call.
LEMMA SameFinish == Router!FinishOrderAdd => RI!FinishOrderAdd
BY DEF RI!FinishOrderAdd, Router!FinishOrderAdd, RI!Matches, Router!Matches,
   RI!VolumeLeft, Router!VolumeLeft, RI!PriceCrosses, Router!PriceCrosses, RI!BestPrice,
   Router!BestPrice, RI!NoWorse, Router!NoWorse, RI!Opposite, Router!Opposite, RI!Opposing,
   Router!Opposing, RI!BookWithRemainder, Router!BookWithRemainder, RI!Rest, Router!Rest,
   RI!WithKey, Router!WithKey, RI!UpdateMidPrice, Router!UpdateMidPrice, RI!HalfOf, Router!HalfOf,
   RI!Wrap, Router!Wrap

\* The same cancels.
LEMMA SameCancel == ASSUME NEW c PROVE
  /\ Router!OnOrderCancel(c) => RI!OnOrderCancel(c)
  /\ Router!RejectCancel(c) => RI!RejectCancel(c)
BY DEF RI!OnOrderCancel, Router!OnOrderCancel, RI!RejectCancel, Router!RejectCancel,
   RI!vars, Router!vars, RI!Cancellable, Router!Cancellable, RI!EraseFromBook,
   Router!EraseFromBook, RI!EraseId, Router!EraseId, RI!Arrivals, Router!Arrivals, RI!PutLevel,
   Router!PutLevel, RI!WithoutKey, Router!WithoutKey, RI!BestPrice, Router!BestPrice,
   RI!NoWorse, Router!NoWorse, RI!UpdateMidPrice, Router!UpdateMidPrice, RI!HalfOf,
   Router!HalfOf, RI!Wrap, Router!Wrap

\* The same order, which both may submit or neither.
LEMMA SameOrder == ASSUME NEW o PROVE
  /\ Router!OnOrderAdd(o) => RI!OnOrderAdd(o)
  /\ RI!MaySubmit(o) => Router!MaySubmit(o)
BY DEF RI!OnOrderAdd, Router!OnOrderAdd, RI!Receive, Router!Receive,
   RI!MaySubmit, Router!MaySubmit, RI!LiveIds, Router!LiveIds, RI!Sides, Router!Sides

\* The same history.
LEMMA SameRecord ==
  /\ RI!Recorded => HistoryOK
  /\ RI!Unfilled = Unfilled
  /\ \A a : RI!LeftOf(a) = LeftOf(a)
BY DEF RI!Recorded, HistoryOK, RI!OrderAdd, Router!OrderAdd, RI!Sides, Router!Sides,
   RI!Unfilled, Unfilled, RI!LeftOf, LeftOf

\* The same orders in the engine.
LEMMA SameStanding == RI!Standing = EngineOrders
<1>1. RI!Resting = Router!Resting
  BY SMTT(30) DEF RI!Resting, Router!Resting, RI!Sides, Router!Sides
<1>2. QED
  BY <1>1, SMTT(30) DEF RI!Standing, EngineOrders

\* The same effect of a cancel, and the same trade.
LEMMA SameEffects ==
  /\ \A c : RI!CancelEffect(c) => CancelTakesNamed(c)
  /\ RI!NextTrade = Router!NextTrade
BY DEF RI!CancelEffect, CancelTakesNamed, RI!Unfilled, Unfilled, RI!Names, Names,
   RI!NextTrade, Router!NextTrade, RI!Maker, Router!Maker, RI!Opposing, Router!Opposing,
   RI!Opposite, Router!Opposite, RI!BestPrice, Router!BestPrice, RI!NoWorse, Router!NoWorse,
   RI!Traded, Router!Traded

\* The same effect of a trade.
LEMMA SameTrade ==
  ASSUME NEW trade, RI!TradeEffect(trade)
  PROVE  TradedAlone(trade)
BY SMTT(60) DEF RI!TradeEffect, RI!Parties, RI!Sides, RI!Price, Router!Price, TradedAlone

\* From a sound state the router does what the feed relies on.
LEMMA SoundFeed ==
  ASSUME RI!Sound
  PROVE  HistoryOK /\ EngineByHistory
<1>1. RI!Recorded /\ RI!Standing = {RI!LeftOf(a) : a \in RI!Unfilled}
  BY RI!SoundState
<1>2. QED
  BY <1>1, SameRecord, SameStanding DEF EngineByHistory

\* A step of the feed is a step of the router.
LEMMA SoundMoves ==
  ASSUME RI!Sound, RouterMoves
  PROVE  [Router!Next]_(Router!vars) /\ [RI!Next]_(RI!vars)
<1>1. ASSUME NEW o \in Router!OrderAdd, Len(log) < MaxOrders, Router!OnOrderAdd(o),
             \A a \in 1..Len(log) : log[a].orderId # o.orderId
      PROVE  Router!Next /\ RI!Next
  <2>1. o \in RI!OrderAdd /\ RI!MaySubmit(o)
    BY <1>1, SameStart, RI!NewIdMaySubmit
  <2>2. QED
    BY <1>1, <2>1, SameOrder DEF RI!Next, Router!Next
<1>2. QED
  BY <1>1, SameStart, SameCancel, SameMatch, SameFinish
     DEF RouterMoves, RI!Next, Router!Next, routerVars, RI!vars, Router!vars

\* And it keeps the router sound.
LEMMA SoundStays ==
  ASSUME RI!Sound, RouterMoves
  PROVE  RI!Sound'
BY SoundMoves, RI!SoundStep

\* What the feed relies on in a step.
LEMMA SoundDoes ==
  ASSUME RI!Sound, FeedInv
  PROVE  RouterDoes
<1>1. /\ \A c \in RI!OrderCancel : RI!OnOrderCancel(c) \/ RI!RejectCancel(c) => RI!CancelEffect(c)
      /\ RI!Match => RI!TradeEffect(RI!NextTrade)
  BY RI!SoundSteps
<1>2. ASSUME ExecuteOrderCancel PROVE CancelTakesNamed(Command.value)
  <2>1. Command.value \in RI!OrderCancel
    BY <1>2, CancelIsTyped, SameStart DEF FeedInv
  <2>2. PICK c \in RI!OrderCancel : c = Command.value
    BY <2>1
  <2>3. QED
    BY <1>1, <1>2, <2>2, SameCancel, SameEffects DEF ExecuteOrderCancel
<1>3. ASSUME Trade PROVE TradeTakesBoth
  BY <1>1, <1>3, SameMatch, SameEffects, SameTrade, TradeAlone DEF Trade
<1>4. QED
  BY <1>2, <1>3 DEF RouterDoes

\* Router, messages and generator start in their invariants and keep them.
LEMMA FeedStarts == Init => RI!Sound /\ FeedInv /\ Mirrored /\ Router!Init
<1>1. RI!Init => RI!Sound
  BY RI!SoundInit
<1>2. QED
  BY <1>1, SameStart, FeedInit DEF Init

\* The step of the joint induction.
LEMMA FeedSteps ==
  RI!Sound /\ FeedInv /\ [GeneratorNext]_vars
    => RI!Sound' /\ FeedInv' /\ [Router!Next]_(Router!vars)
<1> SUFFICES ASSUME RI!Sound, FeedInv, [GeneratorNext]_vars
             PROVE  RI!Sound' /\ FeedInv' /\ [Router!Next]_(Router!vars)
  OBVIOUS
<1>1. HistoryOK /\ RouterDoes
  BY SoundFeed, SoundDoes
<1>2. RouterMoves
  BY <1>1, StepMovesRouter
<1>3. QED
  BY <1>1, <1>2, FeedStepKeeps, SoundStays, SoundMoves

\* The listener's step.
LEMMA MirrorSteps ==
  ASSUME Volumes \subseteq Nat \ {0}
  PROVE  RI!Sound /\ FeedInv /\ Mirrored /\ [GeneratorNext]_vars => Mirrored'
BY SoundFeed, SoundDoes, MirrorStepKeeps

\* The generator gives every order a new id, so the engine inside the feed
\* runs as the router of which RouterIndexProofs speaks: every resting order
\* can be cancelled by its owner, and the books are abstract order books.
THEOREM FeedRunsTheRouter == GeneratorSpec => Router!Spec
BY FeedStarts, FeedSteps, PTL DEF GeneratorSpec, Router!Spec

\* Every order that the generator has cancelled is off the book once the
\* cancel is executed, for any tickers, prices, volumes and number of orders.
THEOREM CancelsTakeEffect == GeneratorSpec => []CancelledOrdersLeave
<1>1. RI!Sound /\ FeedInv => CancelledOrdersLeave
  BY SoundFeed, LeavingIsEnough
<1>2. QED
  BY <1>1, FeedStarts, FeedSteps, PTL DEF GeneratorSpec

\* The OrderBook of orderbook_listener.py "mirrors what the exchange does
\* internally": the datagrams on their way bring it to the engine's books, and
\* a lost datagram spoils only the orders it names.  The volumes are those of
\* random_order_add, which are at least 1: an order without volume never rests,
\* but the listener shows it.
THEOREM ListenerMirrorsBook ==
  ASSUME Volumes \subseteq Nat \ {0}
  PROVE  GeneratorSpec => []BookMirrored
<1>1. RI!Sound /\ FeedInv /\ Mirrored => BookMirrored
  BY SoundFeed, MirrorIsEnough
<1>2. QED
  BY <1>1, FeedStarts, FeedSteps, MirrorSteps, PTL DEF GeneratorSpec
=============================================================================
