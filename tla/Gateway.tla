------------------------------ MODULE Gateway -------------------------------
(***************************************************************************)
(* Gateway of src/common/net: the epoll loop that accepts connections, puts  *)
(* the fixed-size messages of each together from whatever its reads return,  *)
(* and pushes them onto the inbound queue, until Stop.                      *)
(*                                                                         *)
(* TCP is external: it delivers the bytes of a connection in order, in       *)
(* pieces of any size, then possibly its end or a reset.  Byte(c, k) is the  *)
(* k-th byte that client c sent, so a message is known by its bytes and      *)
(* decoding it (module Wire) is left to the reader of the queue.            *)
(***************************************************************************)
EXTENDS Integers, Sequences, FiniteSets, Functions

CONSTANTS
  Clients,          \* each opens one connection
  Fds,              \* the descriptors the kernel hands out, reused after close
  Listen,           \* listenFd_
  MESSAGE_SIZE,     \* sizeof(InboundWireMessage)
  QUEUE_CAPACITY,
  MAX_EVENTS,       \* the size of Run's events array
  MaxSegment,       \* bound: how many bytes arrive at once
  MaxBytes          \* bound: how many bytes the clients send

ASSUME GatewayAssumption ==
  /\ MESSAGE_SIZE \in Nat \ {0}
  /\ MAX_EVENTS \in Nat \ {0}
  /\ QUEUE_CAPACITY \in Nat
  /\ MaxSegment \in Nat
  /\ Listen \notin Fds

VARIABLES
  phase, arrived, taken, ended,   \* the clients' sockets: bytes received, bytes read
  connections,                    \* connections_, with the client behind each fd
  thread, events, current,        \* Run's step, the rest of its batch, the fd it reads
  running,                        \* running_
  outbound,                       \* outbound_
  delivered                       \* history: what was pushed for each client

socketVars == <<phase, arrived, taken, ended>>
loopVars == <<thread, events, current>>
queueVars == <<outbound, delivered>>
vars == <<socketVars, connections, loopVars, running, queueVars>>

Byte(c, k) == <<c, k>>
\* Connection{}
NewConnection(c) ==
  [peer |-> c, buffer |-> [i \in 1..MESSAGE_SIZE |-> <<>>], filled |-> 0]

Init ==
  /\ phase = [c \in Clients |-> "new"]
  /\ arrived = [c \in Clients |-> 0]
  /\ taken = [c \in Clients |-> 0]
  /\ ended = [c \in Clients |-> "no"]
  /\ connections = [f \in {} |-> f]
  /\ thread = "setup"
  /\ events = <<>>
  /\ current = Listen
  /\ running = TRUE
  /\ outbound = <<>>
  /\ delivered = [c \in Clients |-> <<>>]

-----------------------------------------------------------------------------
(* The clients' side of TCP. *)

\* A connection waits to be accepted from the moment the port is open.
Connect(c) ==
  /\ thread \notin {"setup", "stopped", "failed"}
  /\ phase[c] = "new"
  /\ phase' = [phase EXCEPT ![c] = "pending"]
  /\ UNCHANGED <<arrived, taken, ended>>

BytesSent == FoldFunction(+, 0, arrived)

Arrive(c, n) ==
  /\ phase[c] \in {"pending", "open"}
  /\ ended[c] = "no"
  /\ BytesSent + n <= MaxBytes
  /\ arrived' = [arrived EXCEPT ![c] = @ + n]
  /\ UNCHANGED <<phase, taken, ended>>

\* The client closes, or its connection breaks.
End(c, how) ==
  /\ phase[c] \in {"pending", "open"}
  /\ ended[c] = "no"
  /\ ended' = [ended EXCEPT ![c] = how]
  /\ UNCHANGED <<phase, arrived, taken>>

ClientStep ==
  /\ \E c \in Clients :
       \/ Connect(c)
       \/ \E n \in 1..MaxSegment : Arrive(c, n)
       \/ \E how \in {"fin", "reset"} : End(c, how)
  /\ UNCHANGED <<connections, loopVars, running, queueVars>>

-----------------------------------------------------------------------------
(* Run. *)

\* socket, bind, listen and epoll_create1, any of which may fail: the
\* exception then leaves the thread.
Setup ==
  /\ thread = "setup"
  /\ thread' \in {"check", "failed"}
  /\ UNCHANGED <<socketVars, connections, events, current, queueVars>>

Pending == {c \in Clients : phase[c] = "pending"}
Free == Fds \ DOMAIN connections
Unread(c) == arrived[c] - taken[c]

\* What epoll, level-triggered, reports.
Ready ==
  {f \in DOMAIN connections : Unread(connections[f].peer) > 0 \/ ended[connections[f].peer] # "no"}
    \cup (IF Pending = {} THEN {} ELSE {Listen})

CheckRunning ==
  /\ thread = "check"
  /\ running
  /\ thread' = "wait"
  /\ UNCHANGED <<socketVars, connections, events, current, queueVars>>

\* epoll_wait returns ready descriptors, as many as fit, in any order.
Wait ==
  /\ thread = "wait"
  /\ Ready # {}
  /\ \E n \in 1..Cardinality(Ready) :
       /\ n = MAX_EVENTS \/ (n < MAX_EVENTS /\ n = Cardinality(Ready))
       /\ events' \in {batch \in [1..n -> Ready] :
                         \A i, j \in 1..n : i # j => batch[i] # batch[j]}
  /\ thread' = "events"
  /\ UNCHANGED <<socketVars, connections, current, queueVars>>

\* Mutant: epoll_wait without a timeout.
NoTimeout == FALSE

\* 100 ms have passed and nothing is ready.
TimedOut == Ready = {}

WaitTimesOut ==
  /\ thread = "wait"
  /\ TimedOut
  /\ thread' = "check"
  /\ UNCHANGED <<socketVars, connections, events, current, queueVars>>

\* The next event of the batch, or the end of the batch.  ReadFrom returns at
\* once when it does not know the descriptor.
NextEvent ==
  /\ thread = "events"
  /\ events # <<>>
  /\ current' = Head(events)
  /\ events' = Tail(events)
  /\ thread' = CASE Head(events) = Listen -> "accept"
                 [] Head(events) \in DOMAIN connections -> "read"
                 [] OTHER -> "events"
  /\ UNCHANGED <<socketVars, connections, queueVars>>

EndBatch ==
  /\ thread = "events"
  /\ events = <<>>
  /\ thread' = "check"
  /\ UNCHANGED <<socketVars, connections, events, current, queueVars>>

\* Mutant: the map is cleared, the sockets stay open.
LeaveOpen(c) == phase[c]

\* CloseAllConnections closes every accepted socket; closing listenFd_ ends
\* the connections that wait to be accepted.
AfterCloseAll(c) == IF phase[c] = "new" THEN "new" ELSE "done"

\* The loop ends.
CloseAllConnections ==
  /\ thread = "check"
  /\ ~running
  /\ phase' = [c \in Clients |-> AfterCloseAll(c)]
  /\ connections' = [f \in {} |-> f]
  /\ thread' = "stopped"
  /\ UNCHANGED <<arrived, taken, ended, events, current, queueVars>>

-----------------------------------------------------------------------------
(* AcceptConnections: accept4 until it fails.                                *)

AcceptConnection(c, f) ==
  /\ thread = "accept"
  /\ c \in Pending
  /\ f \in Free
  /\ phase' = [phase EXCEPT ![c] = "open"]
  /\ connections' = [g \in DOMAIN connections \cup {f} |->
                       IF g = f THEN NewConnection(c) ELSE connections[g]]
  /\ UNCHANGED <<arrived, taken, ended, loopVars, queueVars>>

\* No connection waits, the process has no descriptor left, or any other error.
AcceptFails ==
  /\ thread = "accept"
  /\ thread' = "events"
  /\ UNCHANGED <<socketVars, connections, events, current, queueVars>>

-----------------------------------------------------------------------------
(* ReadFrom. *)

Conn == connections[current]

\* What one read returns: no more than is there and than the buffer takes.
ReadCount ==
  LET remaining == MESSAGE_SIZE - Conn.filled
  IN  IF Unread(Conn.peer) < remaining THEN Unread(Conn.peer) ELSE remaining

\* Mutant: every read starts at the front of the buffer.
BufferFromStart(n) ==
  [i \in 1..MESSAGE_SIZE |-> IF i <= n THEN Byte(Conn.peer, taken[Conn.peer] + i)
                             ELSE Conn.buffer[i]]

\* The buffer after n bytes are read behind the filled ones.
BufferAfter(n) ==
  [i \in 1..MESSAGE_SIZE |->
     IF Conn.filled < i /\ i <= Conn.filled + n
     THEN Byte(Conn.peer, taken[Conn.peer] + i - Conn.filled)
     ELSE Conn.buffer[i]]

\* read returns bytes: a full buffer is dispatched, a short read ends the
\* loop, as the socket is drained for now.
Read ==
  /\ thread = "read"
  /\ Unread(Conn.peer) > 0
  /\ connections' = [connections EXCEPT ![current] =
                       [peer |-> Conn.peer, buffer |-> BufferAfter(ReadCount),
                        filled |-> Conn.filled + ReadCount]]
  /\ taken' = [taken EXCEPT ![Conn.peer] = @ + ReadCount]
  /\ thread' = IF Conn.filled + ReadCount = MESSAGE_SIZE THEN "dispatch" ELSE "events"
  /\ UNCHANGED <<phase, arrived, ended, events, current, queueVars>>

\* Mutant: the push does not wait for room.
AlwaysRoom == TRUE

HasRoom == Len(outbound) < QUEUE_CAPACITY

\* Dispatch pushes the message once there is room; the buffer starts again.
Dispatch ==
  /\ thread = "dispatch"
  /\ HasRoom
  /\ outbound' = Append(outbound, Conn.buffer)
  /\ delivered' = [delivered EXCEPT ![Conn.peer] = Append(@, Conn.buffer)]
  /\ connections' = [connections EXCEPT ![current] = [Conn EXCEPT !.filled = 0]]
  /\ thread' = "read"
  /\ UNCHANGED <<socketVars, events, current>>

\* Mutant: a client that hung up is closed before its last bytes are read.
HungUp(c) == ended[c] # "no"

\* read returns 0 after the last byte, or an error other than EAGAIN.
ReadEnds(c) == ended[c] = "reset" \/ (ended[c] = "fin" /\ Unread(c) = 0)

CloseConnection ==
  /\ thread = "read"
  /\ ReadEnds(Conn.peer)
  /\ phase' = [phase EXCEPT ![Conn.peer] = "done"]
  /\ connections' = [f \in DOMAIN connections \ {current} |-> connections[f]]
  /\ thread' = "events"
  /\ UNCHANGED <<arrived, taken, ended, events, current, queueVars>>

\* EAGAIN.
ReadWouldBlock ==
  /\ thread = "read"
  /\ Unread(Conn.peer) = 0
  /\ ended[Conn.peer] = "no"
  /\ thread' = "events"
  /\ UNCHANGED <<socketVars, connections, events, current, queueVars>>

RunStep ==
  /\ \/ Setup \/ CheckRunning \/ Wait \/ WaitTimesOut \/ NextEvent \/ EndBatch
     \/ CloseAllConnections \/ AcceptFails \/ Read \/ Dispatch \/ CloseConnection
     \/ ReadWouldBlock
     \/ \E c \in Clients, f \in Fds : AcceptConnection(c, f)
  /\ UNCHANGED running

-----------------------------------------------------------------------------
(* The other threads. *)

Stop ==
  /\ running
  /\ running' = FALSE
  /\ UNCHANGED <<socketVars, connections, loopVars, queueVars>>

\* The matching engine thread takes a command.
Pop ==
  /\ outbound # <<>>
  /\ outbound' = Tail(outbound)
  /\ UNCHANGED <<socketVars, connections, loopVars, running, delivered>>

Next == ClientStep \/ RunStep \/ Stop \/ Pop

Spec == Init /\ [][Next]_vars

\* The threads of the process keep running.  Nobody has to connect, send or
\* call Stop.
FairSpec == Spec /\ WF_vars(RunStep) /\ WF_vars(Pop)

-----------------------------------------------------------------------------
(* Properties. *)

Buffer == [1..MESSAGE_SIZE -> {<<>>} \cup (Clients \X Nat)]

\* Types and bounds: no buffer holds more than one message, no read takes a
\* byte that has not arrived, and the queue keeps to its capacity.
TypeOK ==
  /\ phase \in [Clients -> {"new", "pending", "open", "done"}]
  /\ arrived \in [Clients -> Nat]
  /\ taken \in [Clients -> Nat]
  /\ \A c \in Clients : taken[c] <= arrived[c]
  /\ ended \in [Clients -> {"no", "fin", "reset"}]
  /\ DOMAIN connections \subseteq Fds
  /\ connections \in [DOMAIN connections ->
                        [peer : Clients, buffer : Buffer, filled : 0..MESSAGE_SIZE]]
  /\ thread \in {"setup", "check", "wait", "events", "accept", "read", "dispatch",
                 "stopped", "failed"}
  /\ events \in Seq(Fds \cup {Listen})
  /\ current \in Fds \cup {Listen}
  /\ running \in BOOLEAN
  /\ outbound \in Seq(Buffer)
  /\ Len(outbound) <= QUEUE_CAPACITY
  /\ delivered \in [Clients -> Seq(Buffer)]

\* The n-th message of a client.
Message(c, n) == [i \in 1..MESSAGE_SIZE |-> Byte(c, (n - 1) * MESSAGE_SIZE + i)]

\* gateway.hpp: "messages on one connection are processed strictly in the
\* order they were sent [...], so per-connection framing is FIFO".  However
\* the bytes arrive, what is pushed for a client is its first message, its
\* second and so on, each whole: no byte is lost, repeated, taken from another
\* connection or left over from the descriptor's previous one.
FramesInOrder ==
  \A c \in Clients : \A n \in DOMAIN delivered[c] : delivered[c][n] = Message(c, n)

\* connections_ has one entry for every accepted socket that is open and none
\* else, also after Run has returned (main.cpp: "TCP connections are now
\* closed"), so no descriptor leaks and none is read after its close.  The
\* gateway closes only what its client ended, until Stop.
ConnectionsMatchSockets ==
  /\ \A c \in Clients : phase[c] = "open" <=>
       \E f \in DOMAIN connections : connections[f].peer = c
  /\ \A f, g \in DOMAIN connections :
       connections[f].peer = connections[g].peer => f = g
  /\ \A c \in Clients : phase[c] = "done" => ended[c] # "no" \/ ~running
  /\ thread = "stopped" => DOMAIN connections = {} /\ Pending = {}

\* A message that has arrived whole on an accepted connection is pushed, also
\* when its client closes right behind it, unless the exchange is stopped or
\* the connection is reset first.
WholeMessagesPushed ==
  \A c \in Clients : \A n \in 1..(MaxBytes \div MESSAGE_SIZE) :
    phase[c] = "open" /\ arrived[c] >= n * MESSAGE_SIZE
      ~> Len(delivered[c]) >= n \/ ~running \/ ended[c] = "reset"

\* gateway.hpp: Stop "unblocks a concurrent Run()".  After Stop the thread
\* ends, though it may be waiting in epoll_wait, for room in the queue or in
\* the middle of a batch, once clients pause: they send at most MaxBytes.
StopEndsRun == ~running ~> thread \in {"stopped", "failed"}
=============================================================================
