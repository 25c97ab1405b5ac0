-------------------------- MODULE StandaloneProofs --------------------------
(***************************************************************************)
(* Theorems about the two parts of the exchange that use no other part.      *)
(*                                                                         *)
(* Gateway: type correctness, bookkeeping and framing, for any number of     *)
(* clients and descriptors, any message size and any queue capacity.         *)
(*                                                                         *)
(* Seqlock: in program order the seqlock is an atomic register, for any      *)
(* number of readers, any words, values and number of stores.               *)
(***************************************************************************)
EXTENDS Gateway, Seqlock, TLAPS

\* The thread reads from and dispatches for a connection that it knows.
Bookkeeping ==
  /\ ConnectionsMatchSockets
  /\ thread \in {"read", "dispatch"} => current \in DOMAIN connections

\* The fields of a connection.
LEMMA ConnType ==
  ASSUME TypeOK, NEW f \in DOMAIN connections
  PROVE  /\ f \in Fds
         /\ connections[f] \in [peer : Clients, buffer : Buffer, filled : 0..MESSAGE_SIZE]
         /\ connections[f].peer \in Clients
         /\ connections[f].buffer \in Buffer
         /\ connections[f].filled \in 0..MESSAGE_SIZE
  BY DEF TypeOK

\* A read takes at least one byte, none that has not arrived, and no more than
\* the buffer has room for.
LEMMA ReadCountBounds ==
  ASSUME TypeOK, current \in DOMAIN connections
  PROVE  /\ ReadCount \in Nat
         /\ Conn.filled + ReadCount <= MESSAGE_SIZE
         /\ taken[Conn.peer] + ReadCount <= arrived[Conn.peer]
<1>1. Conn.peer \in Clients /\ Conn.filled \in 0..MESSAGE_SIZE
  BY ConnType DEF Conn
<1>2. arrived[Conn.peer] \in Nat /\ taken[Conn.peer] \in Nat
      /\ taken[Conn.peer] <= arrived[Conn.peer]
  BY <1>1 DEF TypeOK
<1> QED
  BY <1>1, <1>2, GatewayAssumption DEF ReadCount, Unread

\* What a read leaves in the buffer is bytes of the client.
LEMMA BufferAfterType ==
  ASSUME TypeOK, current \in DOMAIN connections
  PROVE  BufferAfter(ReadCount) \in Buffer
<1>1. Conn.peer \in Clients /\ Conn.buffer \in Buffer /\ Conn.filled \in 0..MESSAGE_SIZE
  BY ConnType DEF Conn
<1>2. taken[Conn.peer] \in Nat /\ MESSAGE_SIZE \in Nat
  BY <1>1, GatewayAssumption DEF TypeOK
<1>3. ASSUME NEW i \in 1..MESSAGE_SIZE, Conn.filled < i
      PROVE  Byte(Conn.peer, taken[Conn.peer] + i - Conn.filled) \in Clients \X Nat
  <2>1. taken[Conn.peer] + i - Conn.filled \in Nat
    BY <1>1, <1>2, <1>3
  <2> QED
    BY <2>1, <1>1 DEF Byte
<1>4. \A i \in 1..MESSAGE_SIZE : Conn.buffer[i] \in {<<>>} \cup (Clients \X Nat)
  BY <1>1, Zenon DEF Buffer
<1> QED
  BY <1>3, <1>4 DEF BufferAfter, Buffer

\* A new connection is a connection.
LEMMA NewConnectionType ==
  ASSUME NEW c \in Clients
  PROVE  NewConnection(c) \in [peer : Clients, buffer : Buffer, filled : 0..MESSAGE_SIZE]
  BY GatewayAssumption DEF NewConnection, Buffer

-----------------------------------------------------------------------------
\* The types hold at the start.
LEMMA InitTypeOK == Init => TypeOK
  BY GatewayAssumption DEF Init, TypeOK

\* Every step keeps the types.
LEMMA TypeStep == TypeOK /\ Bookkeeping /\ [Next]_vars => TypeOK'
<1> SUFFICES ASSUME TypeOK, Bookkeeping, [Next]_vars PROVE TypeOK'
  OBVIOUS
<1> USE GatewayAssumption
<1>1. ASSUME NEW c \in Clients, Connect(c), UNCHANGED <<connections, loopVars, running, queueVars>>
      PROVE  TypeOK'
  BY <1>1, Zenon DEF TypeOK, Connect, loopVars, queueVars
<1>2. ASSUME NEW c \in Clients, NEW n \in 1..MaxSegment, Arrive(c, n),
             UNCHANGED <<connections, loopVars, running, queueVars>>
      PROVE  TypeOK'
  <2>1. arrived' = [arrived EXCEPT ![c] = @ + n] /\ n \in Nat
    BY <1>2 DEF Arrive
  <2>2. arrived' \in [Clients -> Nat] /\ \A d \in Clients : arrived[d] <= arrived'[d]
    BY <2>1, SMTT(20) DEF TypeOK
  <2>3. \A d \in Clients : taken[d] \in Nat /\ arrived[d] \in Nat /\ arrived'[d] \in Nat
                           /\ taken[d] <= arrived[d]
    BY <2>2 DEF TypeOK
  <2>4. \A d \in Clients : taken[d] <= arrived'[d]
    BY <2>2, <2>3
  <2> QED
    BY <1>2, <2>2, <2>4, Zenon DEF TypeOK, Arrive, loopVars, queueVars
<1>3. ASSUME NEW c \in Clients, NEW how \in {"fin", "reset"}, End(c, how),
             UNCHANGED <<connections, loopVars, running, queueVars>>
      PROVE  TypeOK'
  BY <1>3, Zenon DEF TypeOK, End, loopVars, queueVars
<1>4. CASE Setup /\ UNCHANGED running
  BY <1>4, SMTT(20) DEF TypeOK, Setup, socketVars, queueVars
<1>5. CASE CheckRunning /\ UNCHANGED running
  BY <1>5 DEF TypeOK, CheckRunning, socketVars, queueVars
<1>6. CASE Wait /\ UNCHANGED running
  <2>1. PICK n \in 1..Cardinality(Ready) : events' \in [1..n -> Ready]
    BY <1>6 DEF Wait
  <2>2. Ready \subseteq Fds \cup {Listen}
    BY DEF Ready, TypeOK
  <2>3. n \in Nat
    BY <2>1
  <2>4. events' \in [1..n -> Fds \cup {Listen}]
    BY <2>1, <2>2
  <2>5. events' \in Seq(Fds \cup {Listen})
    BY <2>3, <2>4
  <2> QED
    BY <1>6, <2>5, SMTT(20) DEF TypeOK, Wait, socketVars, queueVars
<1>7. CASE WaitTimesOut /\ UNCHANGED running
  BY <1>7 DEF TypeOK, WaitTimesOut, socketVars, queueVars
<1>8. CASE NextEvent /\ UNCHANGED running
  <2>1. events \in Seq(Fds \cup {Listen}) /\ events # <<>>
    BY <1>8 DEF TypeOK, NextEvent
  <2>2. Head(events) \in Fds \cup {Listen} /\ Tail(events) \in Seq(Fds \cup {Listen})
    BY <2>1
  <2>3. thread' \in {"accept", "read", "events"}
    BY <1>8 DEF NextEvent
  <2> QED
    BY <1>8, <2>2, <2>3, SMTT(20) DEF TypeOK, NextEvent, socketVars, queueVars
<1>9. CASE EndBatch /\ UNCHANGED running
  BY <1>9 DEF TypeOK, EndBatch, socketVars, queueVars
<1>10. CASE CloseAllConnections /\ UNCHANGED running
  <2>1. phase' \in [Clients -> {"new", "pending", "open", "done"}]
    BY <1>10 DEF CloseAllConnections, AfterCloseAll
  <2>2. DOMAIN connections' = {}
    BY <1>10 DEF CloseAllConnections
  <2>3. connections' \in [DOMAIN connections' ->
                            [peer : Clients, buffer : Buffer, filled : 0..MESSAGE_SIZE]]
    BY <1>10, <2>2 DEF CloseAllConnections
  <2> QED
    BY <1>10, <2>1, <2>2, <2>3 DEF TypeOK, CloseAllConnections, queueVars
<1>11. CASE AcceptFails /\ UNCHANGED running
  BY <1>11 DEF TypeOK, AcceptFails, socketVars, queueVars
<1>12. ASSUME NEW c \in Clients, NEW f \in Fds, AcceptConnection(c, f), UNCHANGED running
       PROVE  TypeOK'
  <2>1. /\ DOMAIN connections' = DOMAIN connections \cup {f}
        /\ \A g \in DOMAIN connections' :
             connections'[g] = IF g = f THEN NewConnection(c) ELSE connections[g]
    BY <1>12 DEF AcceptConnection
  <2>2. \A g \in DOMAIN connections' :
          connections'[g] \in [peer : Clients, buffer : Buffer, filled : 0..MESSAGE_SIZE]
    BY <2>1, ConnType, NewConnectionType
  <2>3. connections' \in [DOMAIN connections' ->
                            [peer : Clients, buffer : Buffer, filled : 0..MESSAGE_SIZE]]
    <3>1. connections' = [g \in DOMAIN connections' |-> connections'[g]]
      BY <1>12 DEF AcceptConnection
    <3> QED
      BY <2>2, <3>1
  <2>4. phase' \in [Clients -> {"new", "pending", "open", "done"}]
    BY <1>12 DEF AcceptConnection, TypeOK
  <2> QED
    BY <1>12, <2>1, <2>3, <2>4 DEF TypeOK, AcceptConnection, loopVars, queueVars
<1>13. CASE Read /\ UNCHANGED running
  <2>1. current \in DOMAIN connections
    BY <1>13 DEF Bookkeeping, Read
  <2>2. /\ ReadCount \in Nat /\ Conn.filled + ReadCount <= MESSAGE_SIZE
        /\ taken[Conn.peer] + ReadCount <= arrived[Conn.peer]
    BY <2>1, ReadCountBounds
  <2>3. Conn.peer \in Clients /\ Conn.filled \in 0..MESSAGE_SIZE
    BY <2>1, ConnType DEF Conn
  <2> DEFINE new == [peer |-> Conn.peer, buffer |-> BufferAfter(ReadCount),
                     filled |-> Conn.filled + ReadCount]
  <2>4. new \in [peer : Clients, buffer : Buffer, filled : 0..MESSAGE_SIZE]
    <3>1. Conn.filled + ReadCount \in 0..MESSAGE_SIZE
      BY <2>2, <2>3
    <3> QED
      BY <3>1, <2>1, <2>3, BufferAfterType
  <2>5. connections' = [connections EXCEPT ![current] = new]
    BY <1>13 DEF Read
  <2> HIDE DEF new
  <2>6. /\ DOMAIN connections' = DOMAIN connections
        /\ connections' \in [DOMAIN connections ->
                               [peer : Clients, buffer : Buffer, filled : 0..MESSAGE_SIZE]]
    BY <2>1, <2>4, <2>5 DEF TypeOK
  <2>7. taken' \in [Clients -> Nat] /\ \A c \in Clients : taken'[c] <= arrived[c]
    <3>1. taken[Conn.peer] + ReadCount \in Nat
      <4>1. taken[Conn.peer] \in Nat
        BY <2>3 DEF TypeOK
      <4> QED
        BY <4>1, <2>2
    <3>2. taken' = [taken EXCEPT ![Conn.peer] = taken[Conn.peer] + ReadCount]
      BY <1>13 DEF Read
    <3> QED
      BY <3>1, <3>2, <2>2, <2>3, SMTT(20) DEF TypeOK
  <2>8. thread' \in {"dispatch", "events"}
    BY <1>13 DEF Read
  <2> QED
    BY <1>13, <2>6, <2>7, <2>8, Zenon DEF TypeOK, Read, queueVars
<1>14. CASE Dispatch /\ UNCHANGED running
  <2>1. current \in DOMAIN connections
    BY <1>14 DEF Bookkeeping, Dispatch
  <2>2. /\ Conn \in [peer : Clients, buffer : Buffer, filled : 0..MESSAGE_SIZE]
        /\ Conn.peer \in Clients /\ Conn.buffer \in Buffer
    BY <2>1, ConnType DEF Conn
  <2> DEFINE new == [Conn EXCEPT !.filled = 0]
  <2>3. new \in [peer : Clients, buffer : Buffer, filled : 0..MESSAGE_SIZE]
    BY <2>2
  <2>4. connections' = [connections EXCEPT ![current] = new]
    BY <1>14 DEF Dispatch
  <2> HIDE DEF new
  <2>5. /\ DOMAIN connections' = DOMAIN connections
        /\ connections' \in [DOMAIN connections ->
                               [peer : Clients, buffer : Buffer, filled : 0..MESSAGE_SIZE]]
    BY <2>1, <2>3, <2>4 DEF TypeOK
  <2>6. outbound' \in Seq(Buffer) /\ Len(outbound') <= QUEUE_CAPACITY
    BY <1>14, <2>2 DEF TypeOK, Dispatch, HasRoom
  <2>7. delivered' \in [Clients -> Seq(Buffer)]
    <3>1. Append(delivered[Conn.peer], Conn.buffer) \in Seq(Buffer)
      BY <2>2 DEF TypeOK
    <3> QED
      BY <1>14, <2>2, <3>1 DEF TypeOK, Dispatch
  <2> QED
    BY <1>14, <2>5, <2>6, <2>7, Zenon DEF TypeOK, Dispatch, socketVars
<1>15. CASE CloseConnection /\ UNCHANGED running
  <2>1. current \in DOMAIN connections
    BY <1>15 DEF Bookkeeping, CloseConnection
  <2>2. /\ DOMAIN connections' = DOMAIN connections \ {current}
        /\ connections' = [f \in DOMAIN connections \ {current} |-> connections[f]]
    BY <1>15 DEF CloseConnection
  <2>3. phase' \in [Clients -> {"new", "pending", "open", "done"}]
    BY <1>15, Zenon DEF CloseConnection, TypeOK
  <2>4. connections' \in [DOMAIN connections' ->
                            [peer : Clients, buffer : Buffer, filled : 0..MESSAGE_SIZE]]
    BY <2>2, ConnType
  <2>5. DOMAIN connections' \subseteq Fds
    BY <2>2, ConnType
  <2> QED
    BY <1>15, <2>3, <2>4, <2>5, SMTT(20) DEF TypeOK, CloseConnection, queueVars
<1>16. CASE ReadWouldBlock /\ UNCHANGED running
  BY <1>16, SMTT(20) DEF TypeOK, ReadWouldBlock, socketVars, queueVars
<1>17. CASE Stop
  BY <1>17, Zenon DEF TypeOK, Stop, socketVars, loopVars, queueVars
<1>18. CASE Pop
  <2>1. outbound' \in Seq(Buffer) /\ Len(outbound') <= QUEUE_CAPACITY
    BY <1>18 DEF TypeOK, Pop
  <2> QED
    BY <1>18, <2>1 DEF TypeOK, Pop, socketVars, loopVars
<1>19. CASE UNCHANGED vars
  BY <1>19, SMTT(20) DEF TypeOK, vars, socketVars, loopVars, queueVars
<1> QED
  BY <1>1, <1>2, <1>3, <1>4, <1>5, <1>6, <1>7, <1>8, <1>9, <1>10, <1>11, <1>12, <1>13,
     <1>14, <1>15, <1>16, <1>17, <1>18, <1>19
  DEF Next, ClientStep, RunStep

-----------------------------------------------------------------------------
\* At the start nothing is known or read.
LEMMA InitBookkeeping == Init => Bookkeeping
  BY DEF Init, Bookkeeping, ConnectionsMatchSockets, Pending

\* Every step keeps connections_ and the open sockets in step.
LEMMA BookkeepingStep == TypeOK /\ Bookkeeping /\ [Next]_vars => Bookkeeping'
<1> SUFFICES ASSUME TypeOK, Bookkeeping, [Next]_vars PROVE Bookkeeping'
  OBVIOUS
<1> USE DEF Bookkeeping, ConnectionsMatchSockets, Pending
<1>1. ASSUME NEW c \in Clients, Connect(c), UNCHANGED <<connections, loopVars, running, queueVars>>
      PROVE  Bookkeeping'
  <2>1. \A d \in Clients : phase'[d] = IF d = c THEN "pending" ELSE phase[d]
    BY <1>1 DEF Connect, TypeOK
  <2>2. phase[c] = "new" /\ thread # "stopped"
    BY <1>1 DEF Connect
  <2> QED
    BY <1>1, <2>1, <2>2 DEF Connect, loopVars
<1>2. ASSUME NEW c \in Clients, NEW n \in 1..MaxSegment, Arrive(c, n),
             UNCHANGED <<connections, loopVars, running, queueVars>>
      PROVE  Bookkeeping'
  BY <1>2 DEF Arrive, loopVars
<1>3. ASSUME NEW c \in Clients, NEW how \in {"fin", "reset"}, End(c, how),
             UNCHANGED <<connections, loopVars, running, queueVars>>
      PROVE  Bookkeeping'
  <2>1. \A d \in Clients : ended[d] # "no" => ended'[d] # "no"
    BY <1>3 DEF End, TypeOK
  <2> QED
    BY <1>3, <2>1 DEF End, loopVars
<1>4. CASE Setup /\ UNCHANGED running
  BY <1>4 DEF Setup, socketVars
<1>5. CASE CheckRunning /\ UNCHANGED running
  BY <1>5 DEF CheckRunning, socketVars
<1>6. CASE Wait /\ UNCHANGED running
  BY <1>6 DEF Wait, socketVars
<1>7. CASE WaitTimesOut /\ UNCHANGED running
  BY <1>7 DEF WaitTimesOut, socketVars
<1>8. CASE NextEvent /\ UNCHANGED running
  <2>1. thread' # "stopped" /\ thread' # "dispatch"
        /\ (thread' = "read" => current' \in DOMAIN connections)
    BY <1>8 DEF NextEvent
  <2> QED
    BY <1>8, <2>1 DEF NextEvent, socketVars
<1>9. CASE EndBatch /\ UNCHANGED running
  BY <1>9 DEF EndBatch, socketVars
<1>10. CASE CloseAllConnections /\ UNCHANGED running
  <2>1. \A c \in Clients : phase'[c] \in {"new", "done"}
    BY <1>10 DEF CloseAllConnections, AfterCloseAll
  <2>2. DOMAIN connections' = {} /\ ~running' /\ thread' = "stopped"
    BY <1>10 DEF CloseAllConnections
  <2> QED
    BY <2>1, <2>2
<1>11. CASE AcceptFails /\ UNCHANGED running
  BY <1>11 DEF AcceptFails, socketVars
<1>12. ASSUME NEW c \in Clients, NEW f \in Fds, AcceptConnection(c, f), UNCHANGED running
       PROVE  Bookkeeping'
  <2>1. /\ DOMAIN connections' = DOMAIN connections \cup {f}
        /\ f \notin DOMAIN connections
        /\ connections'[f].peer = c
        /\ \A g \in DOMAIN connections : connections'[g].peer = connections[g].peer
    BY <1>12 DEF AcceptConnection, NewConnection, Free
  <2>2. /\ phase[c] = "pending"
        /\ \A d \in Clients : phase'[d] = IF d = c THEN "open" ELSE phase[d]
    BY <1>12 DEF AcceptConnection, TypeOK
  <2>3. \A g \in DOMAIN connections : connections[g].peer # c
    BY <2>2
  <2>4. \A d \in Clients : phase'[d] = "open" <=>
          \E g \in DOMAIN connections' : connections'[g].peer = d
    BY <2>1, <2>2
  <2>5. \A g, h \in DOMAIN connections' :
          connections'[g].peer = connections'[h].peer => g = h
    BY <2>1, <2>3
  <2>6. thread' = "accept" /\ ended' = ended /\ running' = running
    BY <1>12 DEF AcceptConnection, loopVars
  <2> QED
    BY <2>2, <2>4, <2>5, <2>6
<1>13. CASE Read /\ UNCHANGED running
  <2>1. current \in DOMAIN connections
    BY <1>13 DEF Read
  <2>2. /\ DOMAIN connections' = DOMAIN connections
        /\ \A f \in DOMAIN connections : connections'[f].peer = connections[f].peer
    BY <1>13, <2>1 DEF Read, Conn, TypeOK
  <2>3. phase' = phase /\ ended' = ended /\ current' = current
        /\ thread' \in {"dispatch", "events"}
    BY <1>13 DEF Read
  <2> QED
    BY <1>13, <2>1, <2>2, <2>3
<1>14. CASE Dispatch /\ UNCHANGED running
  <2>1. current \in DOMAIN connections
    BY <1>14 DEF Dispatch
  <2>2. Conn \in [peer : Clients, buffer : Buffer, filled : 0..MESSAGE_SIZE]
    BY <2>1, ConnType DEF Conn
  <2> DEFINE new == [Conn EXCEPT !.filled = 0]
  <2>3. new.peer = connections[current].peer
    BY <2>2 DEF Conn
  <2>4. connections' = [connections EXCEPT ![current] = new]
    BY <1>14 DEF Dispatch
  <2> HIDE DEF new
  <2>5. /\ DOMAIN connections' = DOMAIN connections
        /\ \A f \in DOMAIN connections : connections'[f].peer = connections[f].peer
    BY <2>1, <2>3, <2>4 DEF TypeOK
  <2>6. phase' = phase /\ ended' = ended /\ current' = current /\ thread' = "read"
    BY <1>14 DEF Dispatch, socketVars
  <2> QED
    BY <1>14, <2>1, <2>5, <2>6
<1>15. CASE CloseConnection /\ UNCHANGED running
  <2> DEFINE c == Conn.peer
  <2>1. current \in DOMAIN connections /\ c \in Clients /\ c = connections[current].peer
    BY <1>15, ConnType DEF CloseConnection, Conn
  <2>2. ended[c] # "no"
    BY <1>15 DEF CloseConnection, ReadEnds
  <2>3. \A d \in Clients : phase'[d] = IF d = c THEN "done" ELSE phase[d]
    BY <1>15 DEF CloseConnection, TypeOK
  <2>4. /\ DOMAIN connections' = DOMAIN connections \ {current}
        /\ \A f \in DOMAIN connections' : connections'[f] = connections[f]
    BY <1>15 DEF CloseConnection
  <2>5. thread' = "events" /\ ended' = ended /\ running' = running
    BY <1>15 DEF CloseConnection
  <2> HIDE DEF c
  <2>6. \A d \in Clients : phase'[d] = "open" <=>
          \E f \in DOMAIN connections' : connections'[f].peer = d
    BY <2>1, <2>3, <2>4
  <2> QED
    BY <2>2, <2>3, <2>4, <2>5, <2>6
<1>16. CASE ReadWouldBlock /\ UNCHANGED running
  BY <1>16 DEF ReadWouldBlock, socketVars
<1>17. CASE Stop
  BY <1>17 DEF Stop, socketVars, loopVars
<1>18. CASE Pop
  BY <1>18 DEF Pop, socketVars, loopVars
<1>19. CASE UNCHANGED vars
  BY <1>19 DEF vars, socketVars, loopVars
<1> QED
  BY <1>1, <1>2, <1>3, <1>4, <1>5, <1>6, <1>7, <1>8, <1>9, <1>10, <1>11, <1>12, <1>13, Zenon,
     <1>14, <1>15, <1>16, <1>17, <1>18, <1>19
  DEF Next, ClientStep, RunStep

-----------------------------------------------------------------------------
\* The bytes taken from the client behind f are those of the messages pushed for
\* it and, in the buffer, those of the message that comes next.
Framed(f) ==
  LET c == connections[f].peer
      base == Len(delivered[c]) * MESSAGE_SIZE
  IN  /\ taken[c] = base + connections[f].filled
      /\ \A i \in 1..connections[f].filled : connections[f].buffer[i] = Byte(c, base + i)

\* FramesInOrder is not inductive alone: what is pushed next is in the buffer.
Framing ==
  /\ \A c \in Clients : phase[c] \in {"new", "pending"} => taken[c] = 0 /\ delivered[c] = <<>>
  /\ \A f \in DOMAIN connections : Framed(f)
  /\ thread = "dispatch" => connections[current].filled = MESSAGE_SIZE
  /\ FramesInOrder

\* At the start nothing was taken or pushed.
LEMMA InitFraming == Init => Framing
  BY DEF Init, Framing, FramesInOrder

\* What does not touch connections, streams and messages keeps the framing.
LEMMA FramingKept ==
  ASSUME Framing, UNCHANGED <<connections, taken, delivered>>,
         \A c \in Clients : phase'[c] \in {"new", "pending"} => phase[c] \in {"new", "pending"},
         thread' = "dispatch" => thread = "dispatch" /\ current' = current
  PROVE  Framing'
<1>1. \A f \in DOMAIN connections' : Framed(f)'
  BY DEF Framing, Framed
<1>2. FramesInOrder'
  BY DEF Framing, FramesInOrder, Message
<1> QED
  BY <1>1, <1>2 DEF Framing

\* A read appends the next bytes of the stream to the buffer.
LEMMA ReadFraming == TypeOK /\ Bookkeeping /\ Framing /\ Read => Framing'
<1> SUFFICES ASSUME TypeOK, Bookkeeping, Framing, Read PROVE Framing'
  OBVIOUS
<1> DEFINE c == Conn.peer
           k == Conn.filled
           n == ReadCount
           base == Len(delivered[c]) * MESSAGE_SIZE
<1>1. current \in DOMAIN connections
  BY DEF Read, Bookkeeping
<1>2. /\ c \in Clients /\ k \in 0..MESSAGE_SIZE
      /\ MESSAGE_SIZE \in Nat /\ n \in Nat /\ k + n <= MESSAGE_SIZE
  BY <1>1, ConnType, ReadCountBounds, GatewayAssumption DEF Conn
<1>3. base \in Nat
  BY <1>2 DEF TypeOK
<1>4. taken[c] = base + k /\ \A i \in 1..k : Conn.buffer[i] = Byte(c, base + i)
  BY <1>1 DEF Framing, Framed, Conn
<1>5. /\ delivered' = delivered /\ phase' = phase /\ current' = current
      /\ taken' = [taken EXCEPT ![c] = taken[c] + n]
      /\ connections' = [connections EXCEPT ![current] =
                           [peer |-> c, buffer |-> BufferAfter(n), filled |-> k + n]]
      /\ thread' = IF k + n = MESSAGE_SIZE THEN "dispatch" ELSE "events"
  BY DEF Read, queueVars
<1>6. /\ DOMAIN connections' = DOMAIN connections
      /\ connections'[current] = [peer |-> c, buffer |-> BufferAfter(n), filled |-> k + n]
      /\ \A f \in DOMAIN connections : f # current => connections'[f] = connections[f]
  BY <1>1, <1>5 DEF TypeOK
<1>7. /\ taken'[c] = taken[c] + n
      /\ \A d \in Clients : d # c => taken'[d] = taken[d]
  BY <1>2, <1>5 DEF TypeOK
<1>8. \A f \in DOMAIN connections : f # current => connections[f].peer # c
  BY <1>1 DEF Bookkeeping, ConnectionsMatchSockets, Conn
<1>9. phase[c] = "open"
  BY <1>1, <1>2 DEF Bookkeeping, ConnectionsMatchSockets, Conn
<1>10. ASSUME NEW i \in 1..(k + n) PROVE BufferAfter(n)[i] = Byte(c, base + i)
  <2>1. i \in 1..MESSAGE_SIZE
    BY <1>2
  <2>2. BufferAfter(n)[i] = IF k < i /\ i <= k + n THEN Byte(c, taken[c] + i - k)
                            ELSE Conn.buffer[i]
    BY <2>1 DEF BufferAfter
  <2>3. CASE i <= k
    <3>1. i \in 1..k /\ ~(k < i)
      BY <2>3, <1>2
    <3> QED
      BY <3>1, <2>2, <1>4
  <2>4. CASE ~(i <= k)
    <3>1. k < i /\ i <= k + n /\ taken[c] + i - k = base + i
      BY <2>4, <1>2, <1>3, <1>4
    <3> QED
      BY <3>1, <2>2
  <2> QED
    BY <2>3, <2>4
<1> HIDE DEF c, k, n
<1>11. Framed(current)'
  <2>1. taken'[c] = base + (k + n)
    <3>1. taken'[c] = base + k + n /\ k \in Nat /\ n \in Nat
      BY <1>2, <1>4, <1>7
    <3> HIDE DEF base
    <3> QED
      BY <3>1, <1>3
  <2>2. /\ connections'[current].peer = c
        /\ connections'[current].buffer = BufferAfter(n)
        /\ connections'[current].filled = k + n
    BY <1>6
  <2>3. current' = current /\ delivered' = delivered
    BY <1>5
  <2> QED
    BY <2>1, <2>2, <2>3, <1>10 DEF Framed
<1>12. ASSUME NEW f \in DOMAIN connections, f # current PROVE Framed(f)'
  <2>1. Framed(f) /\ connections'[f] = connections[f] /\ delivered' = delivered
    BY <1>12, <1>5, <1>6 DEF Framing
  <2>2. taken'[connections[f].peer] = taken[connections[f].peer]
    BY <1>12, <1>7, <1>8, ConnType
  <2> QED
    BY <2>1, <2>2 DEF Framed
<1>13. \A f \in DOMAIN connections' : Framed(f)'
  <2>1. current' = current
    BY <1>5
  <2> QED
    BY <2>1, <1>6, <1>11, <1>12
<1>14. \A d \in Clients : phase'[d] \in {"new", "pending"} => taken'[d] = 0 /\ delivered'[d] = <<>>
  BY <1>5, <1>7, <1>9 DEF Framing
<1>15. thread' = "dispatch" => connections'[current'].filled = MESSAGE_SIZE
  BY <1>5, <1>6
<1>16. FramesInOrder'
  BY <1>5 DEF Framing, FramesInOrder, Message
<1> QED
  BY <1>13, <1>14, <1>15, <1>16 DEF Framing

\* A full buffer is the next message of its client.
LEMMA DispatchFraming == TypeOK /\ Bookkeeping /\ Framing /\ Dispatch => Framing'
<1> SUFFICES ASSUME TypeOK, Bookkeeping, Framing, Dispatch PROVE Framing'
  OBVIOUS
<1> DEFINE c == Conn.peer
           len == Len(delivered[c])
           new == [Conn EXCEPT !.filled = 0]
<1>1. current \in DOMAIN connections
  BY DEF Dispatch, Bookkeeping
<1>2. /\ Conn \in [peer : Clients, buffer : Buffer, filled : 0..MESSAGE_SIZE]
      /\ c \in Clients /\ Conn.buffer \in Buffer /\ MESSAGE_SIZE \in Nat
  BY <1>1, ConnType, GatewayAssumption DEF Conn
<1>3. delivered[c] \in Seq(Buffer) /\ len \in Nat
  BY <1>2 DEF TypeOK
<1>4. Conn.filled = MESSAGE_SIZE
  BY DEF Framing, Dispatch, Conn
<1>5. /\ taken[c] = len * MESSAGE_SIZE + MESSAGE_SIZE
      /\ \A i \in 1..MESSAGE_SIZE : Conn.buffer[i] = Byte(c, len * MESSAGE_SIZE + i)
  BY <1>1, <1>4 DEF Framing, Framed, Conn
<1>6. new.peer = c /\ new.filled = 0
  BY <1>2
<1>7. /\ taken' = taken /\ phase' = phase /\ current' = current /\ thread' = "read"
      /\ delivered' = [delivered EXCEPT ![c] = Append(delivered[c], Conn.buffer)]
      /\ connections' = [connections EXCEPT ![current] = new]
  BY DEF Dispatch, socketVars
<1> HIDE DEF new
<1>8. /\ DOMAIN connections' = DOMAIN connections
      /\ connections'[current] = new
      /\ \A f \in DOMAIN connections : f # current => connections'[f] = connections[f]
  BY <1>1, <1>7 DEF TypeOK
<1>9. /\ delivered'[c] = Append(delivered[c], Conn.buffer)
      /\ \A d \in Clients : d # c => delivered'[d] = delivered[d]
  BY <1>2, <1>7 DEF TypeOK
<1>10. /\ Len(delivered'[c]) = len + 1
       /\ delivered'[c][len + 1] = Conn.buffer
       /\ \A i \in 1..len : delivered'[c][i] = delivered[c][i]
       /\ DOMAIN delivered'[c] = 1..(len + 1)
  BY <1>2, <1>3, <1>9
<1>11. \A f \in DOMAIN connections : f # current => connections[f].peer # c
  BY <1>1 DEF Bookkeeping, ConnectionsMatchSockets, Conn
<1>12. phase[c] = "open"
  BY <1>1, <1>2 DEF Bookkeeping, ConnectionsMatchSockets, Conn
<1>13. Conn.buffer = Message(c, len + 1)
  <2>1. (len + 1) - 1 = len
    BY <1>3
  <2>2. \A i \in 1..MESSAGE_SIZE : Conn.buffer[i] = Message(c, len + 1)[i]
    BY <2>1, <1>5 DEF Message
  <2>3. Conn.buffer = [i \in 1..MESSAGE_SIZE |-> Conn.buffer[i]]
    BY <1>2 DEF Buffer
  <2>4. Message(c, len + 1) = [i \in 1..MESSAGE_SIZE |-> Message(c, len + 1)[i]]
    BY DEF Message
  <2> QED
    BY <2>2, <2>3, <2>4, Zenon
<1> HIDE DEF c
<1>14. Framed(current)'
  <2>1. taken'[c] = (len + 1) * MESSAGE_SIZE + 0
    BY <1>2, <1>3, <1>5, <1>7
  <2>2. connections'[current].peer = c /\ connections'[current].filled = 0
    BY <1>6, <1>8
  <2>3. current' = current /\ Len(delivered'[c]) = len + 1
    BY <1>7, <1>10
  <2> QED
    BY <2>1, <2>2, <2>3 DEF Framed
<1>15. ASSUME NEW f \in DOMAIN connections, f # current PROVE Framed(f)'
  <2>1. Framed(f) /\ connections'[f] = connections[f] /\ taken' = taken
    BY <1>15, <1>7, <1>8 DEF Framing
  <2>2. delivered'[connections[f].peer] = delivered[connections[f].peer]
    BY <1>15, <1>9, <1>11, ConnType
  <2> QED
    BY <2>1, <2>2 DEF Framed
<1>16. \A f \in DOMAIN connections' : Framed(f)'
  <2>1. current' = current
    BY <1>7
  <2> QED
    BY <2>1, <1>8, <1>14, <1>15
<1>17. \A d \in Clients : phase'[d] \in {"new", "pending"} => taken'[d] = 0 /\ delivered'[d] = <<>>
  BY <1>7, <1>9, <1>12 DEF Framing
<1>18. ASSUME NEW d \in Clients, NEW i \in DOMAIN delivered'[d]
       PROVE  delivered'[d][i] = Message(d, i)
  <2>1. CASE d = c
    <3>1. CASE i = len + 1
      BY <2>1, <3>1, <1>10, <1>13
    <3>2. CASE i # len + 1
      <4>1. i \in 1..len /\ i \in DOMAIN delivered[c]
        BY <2>1, <3>2, <1>3, <1>10
      <4>2. delivered[c][i] = Message(c, i)
        BY <4>1, <1>2 DEF Framing, FramesInOrder, c
      <4> QED
        BY <2>1, <4>1, <4>2, <1>10
    <3> QED
      BY <3>1, <3>2
  <2>2. CASE d # c
    BY <2>2, <1>9 DEF Framing, FramesInOrder
  <2> QED
    BY <2>1, <2>2
<1>19. FramesInOrder'
  BY <1>18 DEF FramesInOrder, Message
<1> QED
  BY <1>7, <1>16, <1>17, <1>19 DEF Framing

\* A new connection starts with an empty buffer and an unread stream.
LEMMA AcceptFraming ==
  ASSUME NEW c \in Clients, NEW f \in Fds, TypeOK, Bookkeeping, Framing, AcceptConnection(c, f)
  PROVE  Framing'
<1>1. /\ taken' = taken /\ delivered' = delivered /\ thread' = "accept"
      /\ phase[c] = "pending" /\ f \notin DOMAIN connections
  BY DEF AcceptConnection, loopVars, queueVars, Pending, Free
<1>2. /\ DOMAIN connections' = DOMAIN connections \cup {f}
      /\ connections'[f] = NewConnection(c)
      /\ \A g \in DOMAIN connections : connections'[g] = connections[g]
  BY <1>1 DEF AcceptConnection
<1>3. \A d \in Clients : phase'[d] = IF d = c THEN "open" ELSE phase[d]
  BY DEF AcceptConnection, TypeOK
<1>4. taken[c] = 0 /\ delivered[c] = <<>>
  BY <1>1 DEF Framing
<1>5. connections'[f].peer = c /\ connections'[f].filled = 0
  BY <1>2 DEF NewConnection
<1>6. taken'[c] = Len(delivered'[c]) * MESSAGE_SIZE + 0
  BY <1>1, <1>4, GatewayAssumption
<1>7. /\ taken'[connections'[f].peer]
           = Len(delivered'[connections'[f].peer]) * MESSAGE_SIZE + connections'[f].filled
      /\ 1..connections'[f].filled = {}
  BY <1>5, <1>6
<1>8. ASSUME NEW g \in DOMAIN connections PROVE Framed(g)'
  BY <1>1, <1>2 DEF Framing, Framed
<1>9. \A g \in DOMAIN connections' : Framed(g)'
  BY <1>2, <1>7, <1>8 DEF Framed
<1>10. FramesInOrder'
  BY <1>1 DEF Framing, FramesInOrder, Message
<1> QED
  BY <1>1, <1>3, <1>9, <1>10 DEF Framing

\* Every step keeps the framing.
LEMMA FramingStep == TypeOK /\ Bookkeeping /\ Framing /\ [Next]_vars => Framing'
<1> SUFFICES ASSUME TypeOK, Bookkeeping, Framing, [Next]_vars PROVE Framing'
  OBVIOUS
<1>1. ASSUME NEW c \in Clients, Connect(c), UNCHANGED <<connections, loopVars, running, queueVars>>
      PROVE  Framing'
  <2>1. \A d \in Clients : phase'[d] \in {"new", "pending"} => phase[d] \in {"new", "pending"}
    BY <1>1 DEF Connect, TypeOK
  <2> QED
    BY <1>1, <2>1, FramingKept DEF Connect, loopVars, queueVars
<1>2. ASSUME NEW c \in Clients, NEW n \in 1..MaxSegment, Arrive(c, n),
             UNCHANGED <<connections, loopVars, running, queueVars>>
      PROVE  Framing'
  BY <1>2, FramingKept DEF Arrive, loopVars, queueVars
<1>3. ASSUME NEW c \in Clients, NEW how \in {"fin", "reset"}, End(c, how),
             UNCHANGED <<connections, loopVars, running, queueVars>>
      PROVE  Framing'
  BY <1>3, FramingKept DEF End, loopVars, queueVars
<1>4. CASE Setup
  BY <1>4, FramingKept DEF Setup, socketVars, queueVars
<1>5. CASE CheckRunning
  BY <1>5, FramingKept DEF CheckRunning, socketVars, queueVars
<1>6. CASE Wait
  BY <1>6, FramingKept DEF Wait, socketVars, queueVars
<1>7. CASE WaitTimesOut
  BY <1>7, FramingKept DEF WaitTimesOut, socketVars, queueVars
<1>8. CASE NextEvent
  <2>1. thread' # "dispatch"
    BY <1>8 DEF NextEvent
  <2> QED
    BY <1>8, <2>1, FramingKept DEF NextEvent, socketVars, queueVars
<1>9. CASE EndBatch
  BY <1>9, FramingKept DEF EndBatch, socketVars, queueVars
<1>10. CASE CloseAllConnections
  <2>1. \A c \in Clients : phase'[c] \in {"new", "pending"} => phase[c] \in {"new", "pending"}
    BY <1>10 DEF CloseAllConnections, AfterCloseAll
  <2>2. DOMAIN connections' = {} /\ thread' = "stopped" /\ UNCHANGED <<taken, delivered>>
    BY <1>10 DEF CloseAllConnections, queueVars
  <2>3. FramesInOrder'
    BY <2>2 DEF Framing, FramesInOrder, Message
  <2> QED
    BY <2>1, <2>2, <2>3 DEF Framing
<1>11. CASE AcceptFails
  BY <1>11, FramingKept DEF AcceptFails, socketVars, queueVars
<1>12. ASSUME NEW c \in Clients, NEW f \in Fds, AcceptConnection(c, f) PROVE Framing'
  BY <1>12, AcceptFraming
<1>13. CASE Read
  BY <1>13, ReadFraming
<1>14. CASE Dispatch
  BY <1>14, DispatchFraming
<1>15. CASE CloseConnection
  <2>1. \A d \in Clients : phase'[d] \in {"new", "pending"} => phase[d] \in {"new", "pending"}
    BY <1>15 DEF CloseConnection, TypeOK
  <2>2. /\ DOMAIN connections' \subseteq DOMAIN connections
        /\ \A f \in DOMAIN connections' : connections'[f] = connections[f]
        /\ thread' = "events" /\ taken' = taken /\ delivered' = delivered
    BY <1>15 DEF CloseConnection, queueVars
  <2>3. \A f \in DOMAIN connections' : Framed(f)'
    BY <2>2 DEF Framing, Framed
  <2>4. FramesInOrder'
    BY <2>2 DEF Framing, FramesInOrder, Message
  <2> QED
    BY <2>1, <2>2, <2>3, <2>4 DEF Framing
<1>16. CASE ReadWouldBlock
  BY <1>16, FramingKept DEF ReadWouldBlock, socketVars, queueVars
<1>17. CASE Stop
  BY <1>17, FramingKept DEF Stop, socketVars, loopVars, queueVars
<1>18. CASE Pop
  BY <1>18, FramingKept DEF Pop, socketVars, loopVars
<1>19. CASE UNCHANGED vars
  BY <1>19, FramingKept DEF vars, socketVars, loopVars, queueVars
<1> QED
  BY <1>1, <1>2, <1>3, <1>4, <1>5, <1>6, <1>7, <1>8, <1>9, <1>10, <1>11, <1>12, <1>13,
     <1>14, <1>15, <1>16, <1>17, <1>18, <1>19
  DEF Next, ClientStep, RunStep

-----------------------------------------------------------------------------
\* The three together are an invariant.
LEMMA GatewayInvariant == Spec => [](TypeOK /\ Bookkeeping /\ Framing)
<1>1. Init => TypeOK /\ Bookkeeping /\ Framing
  BY InitTypeOK, InitBookkeeping, InitFraming
<1>2. TypeOK /\ Bookkeeping /\ Framing /\ [Next]_vars => (TypeOK /\ Bookkeeping /\ Framing)'
  BY TypeStep, BookkeepingStep, FramingStep
<1> QED
  BY <1>1, <1>2, PTL DEF Spec

\* The types and bounds of the gateway's state: buffers, reads and the queue
\* never exceed their sizes.
THEOREM TypeCorrect == Spec => []TypeOK
  BY GatewayInvariant, PTL

\* connections_ is at all times the map of the open accepted sockets, through
\* reuse of descriptors and CloseAllConnections.
THEOREM NoConnectionLeaks == Spec => []ConnectionsMatchSockets
<1>1. Bookkeeping => ConnectionsMatchSockets
  BY DEF Bookkeeping
<1> QED
  BY GatewayInvariant, <1>1, PTL

\* ReadFrom and Dispatch hand over the messages of every connection whole and in
\* order, however its bytes are split and mixed with others.
THEOREM FramingCorrect == Spec => []FramesInOrder
<1>1. Framing => FramesInOrder
  BY DEF Framing
<1> QED
  BY GatewayInvariant, <1>1, PTL

-----------------------------------------------------------------------------
(* The seqlock. *)

\* The type invariant of Store and Load's state.
THEOREM SeqlockTypeCorrect == SeqlockSpec => []SeqlockTypeOK
<1>1. SeqlockInit => SeqlockTypeOK
  BY SeqlockAssumption, SMTT(20) DEF SeqlockInit, SeqlockTypeOK, Values
<1>2. SeqlockTypeOK /\ [SeqlockNext]_seqlockVars => SeqlockTypeOK'
  <2> SUFFICES ASSUME SeqlockTypeOK, [SeqlockNext]_seqlockVars
               PROVE  SeqlockTypeOK'
    OBVIOUS
  <2> USE SeqlockAssumption DEF SeqlockTypeOK
  <2>1. ASSUME NEW v \in Storable, BeginStore(v) PROVE SeqlockTypeOK'
    BY <2>1 DEF BeginStore, readerVars
  <2>2. CASE StoreOdd
    BY <2>2 DEF StoreOdd, Incremented, readerVars
  <2>3. ASSUME NEW w \in Words, WriteWord(w) PROVE SeqlockTypeOK'
    BY <2>3 DEF WriteWord, MayWrite, readerVars, Values
  <2>4. CASE StoreEven
    BY <2>4 DEF StoreEven, Incremented, readerVars
  <2>5. ASSUME NEW r \in Readers, BeginLoad(r) PROVE SeqlockTypeOK'
    BY <2>5 DEF BeginLoad, shared, writerVars
  <2>6. ASSUME NEW r \in Readers, LoadBefore(r) PROVE SeqlockTypeOK'
    BY <2>6 DEF LoadBefore, shared, writerVars
  <2>7. ASSUME NEW r \in Readers, NEW w \in Words, ReadWord(r, w) PROVE SeqlockTypeOK'
    BY <2>7 DEF ReadWord, shared, writerVars, Values
  <2>8. ASSUME NEW r \in Readers, LoadAfter(r) PROVE SeqlockTypeOK'
    BY <2>8 DEF LoadAfter, shared, writerVars
  <2>9. ASSUME NEW r \in Readers, ReturnLoad(r) PROVE SeqlockTypeOK'
    BY <2>9 DEF ReturnLoad, shared, writerVars
  <2>10. ASSUME NEW r \in Readers, RetryLoad(r) PROVE SeqlockTypeOK'
    BY <2>10 DEF RetryLoad, LoopStart, shared, writerVars
  <2>11. CASE UNCHANGED seqlockVars
    BY <2>11 DEF seqlockVars
  <2>12. QED
    BY <2>1, <2>2, <2>3, <2>4, <2>5, <2>6, <2>7, <2>8, <2>9, <2>10, <2>11
       DEF SeqlockNext, WriterStep, ReaderStep
<1>3. QED
  BY <1>1, <1>2, PTL DEF SeqlockSpec

\* The protocol that Store and Load follow in program order is inductive.
THEOREM ProtocolCorrect ==
  ASSUME InOrder
  PROVE  SeqlockSpec => []SequenceProtocol
<1>1. SeqlockInit => SequenceProtocol
  BY SeqlockAssumption DEF SeqlockInit, SequenceProtocol
<1>2. SeqlockTypeOK /\ SequenceProtocol /\ [SeqlockNext]_seqlockVars => SequenceProtocol'
  <2> SUFFICES ASSUME SeqlockTypeOK, SequenceProtocol, [SeqlockNext]_seqlockVars
               PROVE  SequenceProtocol'
    OBVIOUS
  <2> USE SeqlockAssumption DEF SeqlockTypeOK, SequenceProtocol
  <2>1. ASSUME NEW v \in Storable, BeginStore(v) PROVE SequenceProtocol'
    BY <2>1 DEF BeginStore, readerVars
  <2>2. CASE StoreOdd
    BY <2>2 DEF StoreOdd, Incremented, readerVars
  <2>3. ASSUME NEW w \in Words, WriteWord(w) PROVE SequenceProtocol'
    BY <2>3, SMTT(20) DEF WriteWord, MayWrite, readerVars, Values
  <2>4. CASE StoreEven
    <3>1. value' = committed'
      BY <2>4 DEF StoreEven, Incremented, Values
    <3>2. sequence' % 2 = 0
      BY <2>4 DEF StoreEven, Incremented
    <3>3. \A r \in Readers : reader'[r] = "copying" => before'[r] < sequence'
      BY <2>4 DEF StoreEven, Incremented, readerVars
    <3>4. QED
      BY <2>4, <3>1, <3>2, <3>3 DEF StoreEven, Incremented, readerVars
  <2>5. ASSUME NEW r \in Readers, BeginLoad(r) PROVE SequenceProtocol'
    BY <2>5 DEF BeginLoad, shared, writerVars
  <2>6. ASSUME NEW r \in Readers, LoadBefore(r) PROVE SequenceProtocol'
    BY <2>6 DEF LoadBefore, shared, writerVars
  <2>7. ASSUME NEW r \in Readers, NEW w \in Words, ReadWord(r, w) PROVE SequenceProtocol'
    BY <2>7 DEF ReadWord, shared, writerVars, Values
  <2>8. ASSUME NEW r \in Readers, LoadAfter(r) PROVE SequenceProtocol'
    BY <2>8, SMTT(20) DEF LoadAfter, shared, writerVars
  <2>9. ASSUME NEW r \in Readers, ReturnLoad(r) PROVE SequenceProtocol'
    BY <2>9 DEF ReturnLoad, shared, writerVars
  <2>10. ASSUME NEW r \in Readers, RetryLoad(r) PROVE SequenceProtocol'
    BY <2>10, SMTT(20) DEF RetryLoad, LoopStart, shared, writerVars
  <2>11. CASE UNCHANGED seqlockVars
    BY <2>11 DEF seqlockVars
  <2>12. QED
    BY <2>1, <2>2, <2>3, <2>4, <2>5, <2>6, <2>7, <2>8, <2>9, <2>10, <2>11, Zenon
       DEF SeqlockNext, WriterStep, ReaderStep
<1>3. QED
  BY <1>1, <1>2, SeqlockTypeCorrect, PTL DEF SeqlockSpec

\* In program order a Load takes effect at its second load of sequence_ and a
\* Store at its second store: the seqlock implements an atomic register.
THEOREM SeqlockIsAtomicRegister ==
  ASSUME InOrder
  PROVE  SeqlockSpec => ImplementsAtomicRegister
<1>1. SeqlockInit => Register!Init
  BY SMTT(20) DEF SeqlockInit, Register!Init, LoadedSoFar
<1>2. SeqlockTypeOK /\ SequenceProtocol /\ [SeqlockNext]_seqlockVars => [Register!Next]_(Register!vars)
  <2> SUFFICES ASSUME SeqlockTypeOK, SequenceProtocol, [SeqlockNext]_seqlockVars
               PROVE  Register!Next \/ UNCHANGED <<committed, LoadedSoFar>>
    BY DEF Register!vars
  <2> USE DEF SeqlockTypeOK
  <2>1. ASSUME NEW v \in Storable, BeginStore(v)
        PROVE  UNCHANGED <<committed, LoadedSoFar>>
    BY <2>1 DEF BeginStore, readerVars, LoadedSoFar, Settled
  <2>2. ASSUME StoreOdd PROVE UNCHANGED <<committed, LoadedSoFar>>
    BY <2>2 DEF StoreOdd, Incremented, readerVars, LoadedSoFar, Settled
  <2>3. ASSUME NEW w \in Words, WriteWord(w)
        PROVE  UNCHANGED <<committed, LoadedSoFar>>
    BY <2>3 DEF WriteWord, MayWrite, readerVars, LoadedSoFar, Settled
  <2>4. ASSUME StoreEven PROVE Register!Next
    <3>1. committed' = stored /\ stored \in Storable /\ UNCHANGED LoadedSoFar
      BY <2>4 DEF StoreEven, Incremented, readerVars, LoadedSoFar, Settled
    <3>2. QED
      BY <3>1 DEF Register!Next, Register!Store
  <2>5. ASSUME NEW r \in Readers, BeginLoad(r)
        PROVE  UNCHANGED <<committed, LoadedSoFar>>
    BY <2>5 DEF BeginLoad, shared, writerVars, LoadedSoFar, Settled
  <2>6. ASSUME NEW r \in Readers, LoadBefore(r)
        PROVE  UNCHANGED <<committed, LoadedSoFar>>
    BY <2>6 DEF LoadBefore, shared, writerVars, LoadedSoFar, Settled
  <2>7. ASSUME NEW r \in Readers, NEW w \in Words, ReadWord(r, w)
        PROVE  UNCHANGED <<committed, LoadedSoFar>>
    BY <2>7 DEF ReadWord, shared, writerVars, LoadedSoFar, Settled
  <2>8. ASSUME NEW r \in Readers, LoadAfter(r)
        PROVE  Register!Next \/ UNCHANGED <<committed, LoadedSoFar>>
    <3>1. /\ UNCHANGED committed
          /\ LoadedSoFar[r] = loaded[r]
          /\ unread'[r] = {} /\ reader'[r] = "deciding" /\ reader[r] = "copying"
      BY <2>8 DEF LoadAfter, writerVars, LoadedSoFar
    <3>2. \A q \in Readers \ {r} : LoadedSoFar'[q] = LoadedSoFar[q]
      BY <2>8 DEF LoadAfter, LoadedSoFar, Settled
    <3>3. CASE Settled(r)'
      <4>1. before[r] = sequence /\ sequence % 2 = 0 /\ unread[r] = {}
        BY <2>8, <3>3, SMTT(20) DEF LoadAfter, Settled
      <4>2. result[r] = committed
        BY <3>1, <4>1, SeqlockAssumption DEF SequenceProtocol, Values
      <4>3. LoadedSoFar'[r] = committed
        BY <2>8, <3>1, <3>3, <4>2 DEF LoadAfter, LoadedSoFar
      <4>4. LoadedSoFar' = [LoadedSoFar EXCEPT ![r] = committed]
        BY <3>2, <4>3, Zenon DEF LoadedSoFar
      <4>5. QED
        BY <3>1, <4>4, Zenon DEF Register!Next, Register!Load
    <3>4. CASE ~Settled(r)'
      <4>1. LoadedSoFar'[r] = LoadedSoFar[r]
        BY <2>8, <3>1, <3>4 DEF LoadAfter, LoadedSoFar
      <4>2. QED
        BY <3>1, <3>2, <4>1, Zenon DEF LoadedSoFar
    <3>5. QED
      BY <3>3, <3>4
  <2>9. ASSUME NEW r \in Readers, ReturnLoad(r)
        PROVE  UNCHANGED <<committed, LoadedSoFar>>
    BY <2>9 DEF ReturnLoad, shared, writerVars, LoadedSoFar, Settled
  <2>10. ASSUME NEW r \in Readers, RetryLoad(r)
         PROVE  UNCHANGED <<committed, LoadedSoFar>>
    BY <2>10 DEF RetryLoad, LoopStart, shared, writerVars, LoadedSoFar, Settled
  <2>11. ASSUME UNCHANGED seqlockVars PROVE UNCHANGED <<committed, LoadedSoFar>>
    BY <2>11 DEF seqlockVars, LoadedSoFar, Settled
  <2>12. QED
    BY <2>1, <2>2, <2>3, <2>4, <2>5, <2>6, <2>7, <2>8, <2>9, <2>10, <2>11
       DEF SeqlockNext, WriterStep, ReaderStep
<1>3. QED
  BY <1>1, <1>2, SeqlockTypeCorrect, ProtocolCorrect, PTL
     DEF SeqlockSpec, ImplementsAtomicRegister, Register!Spec
=============================================================================
