----------------------------- MODULE Connection -----------------------------
(* A connection and its protocol: connection.cpp, protocol.cpp, server.cpp.  *)
(*                                                                           *)
(* Two threads share it. The I/O thread runs the completion handlers of the  *)
(* asynchronous operations; the dispatcher runs the tasks the handlers       *)
(* queue, and anything in the game may send to the peer or close. Handlers   *)
(* hold connectionLock throughout, so each is one step, but for two places:  *)
(* a message is encoded with the lock released, and the task that            *)
(* parsePacket queues can run, and call resumeWork, which takes no lock,     *)
(* while parsePacket is still on its way to its end.                         *)
(*                                                                           *)
(* The peer and the network are the environment: a pending read or write     *)
(* ends well or in error whenever they please, or not at all.                *)
EXTENDS Naturals, Sequences, FiniteSets

CONSTANTS
  MaxPackets,   \* bound: packets the peer sends
  MaxOutputs    \* bound: messages the server sends

ASSUME ConnectionAssumption == MaxPackets \in Nat /\ MaxOutputs \in Nat

VARIABLES
  conn,      \* the Connection object
  io,        \* where the I/O thread is inside a handler of this connection
  tasks,     \* the tasks of this connection in the dispatcher's queue
  running,   \* the parse task the dispatcher is executing, if any
  release,   \* what became of the event that releases the protocol
  peer,      \* packets the peer has sent completely
  taken,     \* the packets handed over to the dispatcher, in order
  handled,   \* the packets parsePacket was given, in order
  sent,      \* messages accepted by send
  written    \* messages that reached the peer, in order

connVars == <<conn, io, tasks, running, release, peer, taken, handled, sent, written>>

ReadOps == {"identification", "header", "body"}
Timers == {"read", "write"}
Tasks == {"challenge", "parse", "release"}
NoTask == "none"

----------------------------------------------------------------------------
(* Init: ServicePort::onAccept. The game service has a protocol from the     *)
(* start and waits for a proxy's identification; the others wait for the     *)
(* first message to tell the protocol.                                       *)

Fresh(single) ==
  [state |-> IF single THEN "identifying" ELSE "open",
   socket |-> "open",
   protocol |-> single,
   receivedFirst |-> FALSE,
   msg |-> 0,                                            \* the packet in m_msg
   reads |-> <<[op |-> IF single THEN "identification" ELSE "header", end |-> "pending"]>>,
   write |-> "none",
   queue |-> <<>>,                                       \* messageQueue
   armed |-> {"read"},
   fired |-> {}]                                         \* expired, handler not yet run

ConnInit ==
  /\ \E single \in BOOLEAN :
       /\ conn = Fresh(single)
       /\ tasks = IF single THEN <<"challenge">> ELSE <<>>
  /\ io = "idle"
  /\ running = NoTask
  /\ release = "none"
  /\ peer = 0
  /\ taken = <<>>
  /\ handled = <<>>
  /\ sent = 0
  /\ written = <<>>

----------------------------------------------------------------------------
(* What the handlers do to the object.                                       *)

\* The object lives while the manager or a handler refers to it.
Alive == \/ conn.state # "closed" \/ conn.reads # <<>> \/ conn.write # "none"
         \/ io # "idle" \/ running # NoTask

\* An operation started on a socket that is not open ends in error.
EndOf(c) == IF c.socket = "open" THEN "pending" ELSE "error"

\* Mutant: nothing times the read.
StartReadUntimed(c, op) == [c EXCEPT !.reads = Append(@, [op |-> op, end |-> EndOf(c)])]

\* Arm the read timer and read into m_msg.
StartRead(c, op) ==
  [c EXCEPT !.armed = @ \union {"read"}, !.reads = Append(@, [op |-> op, end |-> EndOf(c)])]

\* Pending operations are cancelled: their handlers run with an error.
Aborted(c) ==
  [c EXCEPT !.reads = [i \in DOMAIN @ |-> IF @[i].end = "pending" THEN [@[i] EXCEPT !.end = "error"] ELSE @[i]],
            !.write = IF @ = "pending" THEN "error" ELSE @]

CloseSocket(c) ==
  IF c.socket = "closed" THEN c
  ELSE [Aborted(c) EXCEPT !.socket = "closed", !.armed = {}]

Close(c, force) ==
  IF c.state = "closed" THEN c
  ELSE LET d == [c EXCEPT !.state = "closed"]
       IN IF c.queue = <<>> \/ force THEN CloseSocket(d) ELSE d

\* Mutant: a close does not look whether the connection is closed already.
OwesAgain(c, d) == d.state = "closed" /\ d.protocol

\* The first close of a connection with a protocol queues its release.
Owes(c, d) == c.state # "closed" /\ d.state = "closed" /\ d.protocol
ReleaseOf(c, d) == IF Owes(c, d) THEN <<"release">> ELSE <<>>

Accepts(c) == c.state # "closed"

\* Mutant: every message posts a write, whether or not one is under way.
SendPosting(c, output) ==
  IF ~Accepts(c) THEN c ELSE [c EXCEPT !.queue = Append(@, output), !.write = "posted"]

\* Mutant: the newest message is written first.
SendNewest(c, output) ==
  IF ~Accepts(c) THEN c
  ELSE [c EXCEPT !.queue = <<output>> \o @, !.write = IF c.queue = <<>> THEN "posted" ELSE @]

Send(c, output) ==
  IF ~Accepts(c) THEN c
  ELSE LET d == [c EXCEPT !.queue = Append(@, output)]
       IN IF c.queue # <<>> THEN d
          ELSE IF c.socket = "closed" THEN Close(d, TRUE)
          ELSE [d EXCEPT !.write = "posted"]

\* The object becomes d, and a close on the way queues the release.
Becomes(d) ==
  /\ conn' = d
  /\ tasks' = tasks \o ReleaseOf(conn, d)

----------------------------------------------------------------------------
(* The I/O thread: reading.                                                  *)

\* The object when the handler of its i-th read starts.
InHandler(i) ==
  [conn EXCEPT !.reads = SubSeq(@, 1, i - 1) \o SubSeq(@, i + 1, Len(@)), !.armed = @ \ {"read"}]

Completed(op) == {i \in DOMAIN conn.reads : conn.reads[i].op = op /\ conn.reads[i].end # "pending"}

\* The outcomes of parseHeader without an error: too many packets, a size
\* out of range, or the body is read.
HeaderOutcomes(c) ==
  IF c.state = "closed" THEN {c}
  ELSE {Close(c, FALSE), Close(c, TRUE), StartRead(c, "body")}

ParseHeader ==
  /\ io = "idle"
  /\ \E i \in Completed("header") :
       IF conn.reads[i].end = "error"
       THEN Becomes(Close(InHandler(i), TRUE))
       ELSE \E d \in HeaderOutcomes(InHandler(i)) : Becomes(d)
  /\ UNCHANGED <<io, running, release, peer, taken, handled, sent, written>>

\* The two bytes may be a packet's length, the start of a proxy's
\* identification, its remainder, or neither.
IdentificationOutcomes(c) ==
  IF c.state = "identifying"
  THEN HeaderOutcomes([c EXCEPT !.state = "open"])
         \union {StartRead([c EXCEPT !.state = "readings"], "identification"),
                 StartRead([c EXCEPT !.state = "open"], "header")}
  ELSE {StartRead([c EXCEPT !.state = "open"], "header"), Close(c, TRUE)}

ParseProxyIdentification ==
  /\ io = "idle"
  /\ \E i \in Completed("identification") :
       IF conn.reads[i].end = "error" \/ conn.state = "closed"
       THEN Becomes(Close(InHandler(i), TRUE))
       ELSE \E d \in IdentificationOutcomes(InHandler(i)) : Becomes(d)
  /\ UNCHANGED <<io, running, release, peer, taken, handled, sent, written>>

ParsePacketFails ==
  /\ io = "idle"
  /\ \E i \in Completed("body") :
       /\ conn.reads[i].end = "error" \/ conn.state = "closed"
       /\ Becomes(Close(InHandler(i), TRUE))
  /\ UNCHANGED <<io, running, release, peer, taken, handled, sent, written>>

\* The first message is given to the protocol on this thread. No protocol may
\* fit it; the protocol may refuse the client: it sends why and disconnects.
ParseFirstPacket ==
  /\ io = "idle"
  /\ ~conn.receivedFirst
  /\ conn.state # "closed"
  /\ \E i \in Completed("body") :
       LET c == [InHandler(i) EXCEPT !.receivedFirst = TRUE]
           known == [c EXCEPT !.protocol = TRUE]
       IN /\ conn.reads[i].end = "ok"
          /\ \/ ~c.protocol /\ Becomes(Close(c, TRUE)) /\ UNCHANGED sent
             \/ Becomes(StartRead(known, "header")) /\ UNCHANGED sent
             \/ /\ sent < MaxOutputs
                /\ Becomes(StartRead(Close(Send(known, sent + 1), FALSE), "header"))
                /\ sent' = sent + 1
  /\ UNCHANGED <<io, running, release, peer, taken, handled, written>>

\* onRecvMessage drops the packet: a ping, a wrong checksum or sequence
\* number, or it cannot be decrypted.
SkipPacket ==
  /\ io = "idle"
  /\ conn.receivedFirst
  /\ conn.state # "closed"
  /\ \E i \in Completed("body") :
       /\ conn.reads[i].end = "ok"
       /\ Becomes(StartRead(InHandler(i), "header"))
  /\ UNCHANGED <<io, running, release, peer, taken, handled, sent, written>>

\* sendRecvMessageCallback: a task that refers to m_msg. parsePacket does not
\* read the next packet: resumeWork will.
QueuePacket ==
  /\ io = "idle"
  /\ conn.receivedFirst
  /\ conn.state # "closed"
  /\ \E i \in Completed("body") :
       /\ conn.reads[i].end = "ok"
       /\ conn' = InHandler(i)
  /\ tasks' = Append(tasks, "parse")
  /\ taken' = Append(taken, conn.msg)
  /\ io' = "queued"
  /\ UNCHANGED <<running, release, peer, handled, sent, written>>

\* Mutant: what onRecvMessage returned is ignored, the next packet is read.
EndParsePacketReads ==
  /\ io = "queued"
  /\ conn' = StartRead(conn, "header")
  /\ io' = "idle"
  /\ UNCHANGED <<tasks, running, release, peer, taken, handled, sent, written>>

\* The end of parsePacket, the lock still held: the read timer is armed.
EndParsePacket ==
  /\ io = "queued"
  /\ conn' = [conn EXCEPT !.armed = @ \union {"read"}]
  /\ io' = "idle"
  /\ UNCHANGED <<tasks, running, release, peer, taken, handled, sent, written>>

\* Connection::handleTimeout. An expired timer's handler is not stopped by a
\* later cancel.
HandleTimeout ==
  /\ io = "idle"
  /\ \E t \in conn.fired : Becomes(Close([conn EXCEPT !.fired = @ \ {t}], TRUE))
  /\ UNCHANGED <<io, running, release, peer, taken, handled, sent, written>>

----------------------------------------------------------------------------
(* The I/O thread: writing. One write is under way at a time, the one of the *)
(* first message of the queue.                                               *)

\* Mutant: the close that waited for the queue is forgotten.
ContinueForgetful(c) == conn' = c /\ io' = IF c.queue # <<>> THEN "encoding" ELSE "idle"

\* internalWorker, and the end of onWriteOperation: encode the next message
\* with the lock released, or finish a close that waited for the queue.
Continue(c) ==
  IF c.queue # <<>>
  THEN conn' = c /\ io' = "encoding"
  ELSE conn' = (IF c.state = "closed" THEN CloseSocket(c) ELSE c) /\ io' = "idle"

InternalWorker ==
  /\ io = "idle"
  /\ conn.write = "posted"
  /\ Continue([conn EXCEPT !.write = "none"])
  /\ UNCHANGED <<tasks, running, release, peer, taken, handled, sent, written>>

\* onSendMessage has encoded the message; internalSend writes it.
InternalSend ==
  /\ io = "encoding"
  /\ conn' = [conn EXCEPT !.armed = @ \union {"write"}, !.write = EndOf(conn)]
  /\ io' = "idle"
  /\ UNCHANGED <<tasks, running, release, peer, taken, handled, sent, written>>

OnWriteOperation ==
  /\ io = "idle"
  /\ conn.write \in {"ok", "error"}
  /\ LET c == [conn EXCEPT !.write = "none", !.armed = @ \ {"write"}]
     IN IF conn.write = "error"
        THEN Becomes(Close([c EXCEPT !.queue = <<>>], TRUE)) /\ UNCHANGED io
        ELSE Continue([c EXCEPT !.queue = Tail(@)]) /\ UNCHANGED tasks
  /\ UNCHANGED <<running, release, peer, taken, handled, sent, written>>

----------------------------------------------------------------------------
(* The dispatcher. send and close take the lock, which parsePacket holds     *)
(* until its end; resumeWork does not.                                       *)

\* The next task of this connection, if it is not a packet's. A release or a
\* challenge expires when the dispatcher comes to it too late.
ExecuteTask ==
  /\ running = NoTask
  /\ tasks # <<>>
  /\ Head(tasks) # "parse"
  /\ io # "queued"
  /\ \E late \in BOOLEAN :
       LET challenged == Head(tasks) = "challenge" /\ ~late /\ Alive /\ sent < MaxOutputs
           d == IF challenged THEN Send(conn, sent + 1) ELSE conn
       IN /\ conn' = d
          /\ sent' = IF challenged /\ Accepts(conn) THEN sent + 1 ELSE sent
          /\ tasks' = Tail(tasks) \o ReleaseOf(conn, d)
          /\ release' = IF Head(tasks) # "release" THEN release ELSE IF late THEN "expired" ELSE "done"
  /\ UNCHANGED <<io, running, peer, taken, handled, written>>

\* The task of a packet does nothing when the connection is gone.
ParsePacketBegins ==
  /\ running = NoTask
  /\ tasks # <<>>
  /\ Head(tasks) = "parse"
  /\ tasks' = Tail(tasks)
  /\ IF Alive
     THEN running' = "parse" /\ handled' = Append(handled, conn.msg)
     ELSE UNCHANGED <<running, handled>>
  /\ UNCHANGED <<conn, io, release, peer, taken, sent, written>>

ResumeWork ==
  /\ running = "parse"
  /\ conn' = StartRead(conn, "header")
  /\ running' = NoTask
  /\ UNCHANGED <<io, tasks, release, peer, taken, handled, sent, written>>

\* Protocol::send, by the packet being parsed or by anything in the game.
ProtocolSend ==
  /\ io # "queued"
  /\ conn.protocol
  /\ Accepts(conn)
  /\ sent < MaxOutputs
  /\ Becomes(Send(conn, sent + 1))
  /\ sent' = sent + 1
  /\ UNCHANGED <<io, running, release, peer, taken, handled, written>>

\* Protocol::disconnect: what is queued is written first.
Disconnect ==
  /\ io # "queued"
  /\ conn.protocol
  /\ conn.state # "closed"
  /\ Becomes(Close(conn, FALSE))
  /\ UNCHANGED <<io, running, release, peer, taken, handled, sent, written>>

\* ConnectionManager::closeAll, at the shutdown, without the lock.
CloseAll ==
  /\ conn.state # "closed"
  /\ conn.socket = "open"
  /\ conn' = [Aborted(conn) EXCEPT !.socket = "down"]
  /\ UNCHANGED <<io, tasks, running, release, peer, taken, handled, sent, written>>

----------------------------------------------------------------------------
(* The environment: the peer, the network and the clock.                     *)

\* What was read is in m_msg: a header alone is no packet.
ReadCompletes ==
  /\ \E i \in DOMAIN conn.reads, end \in {"ok", "error"} :
       LET body == end = "ok" /\ conn.reads[i].op = "body"
       IN /\ conn.reads[i].end = "pending"
          /\ end = "ok" => peer < MaxPackets
          /\ peer' = IF body THEN peer + 1 ELSE peer
          /\ conn' = [conn EXCEPT !.reads[i].end = end, !.msg = IF body THEN peer + 1 ELSE 0]
  /\ UNCHANGED <<io, tasks, running, release, taken, handled, sent, written>>

\* A write fails when the connection is down: a pending read fails with it.
WriteCompletes ==
  /\ conn.write = "pending"
  /\ \/ conn' = [conn EXCEPT !.write = "ok"] /\ written' = Append(written, Head(conn.queue))
     \/ conn' = [Aborted(conn) EXCEPT !.socket = "down"] /\ UNCHANGED written
  /\ UNCHANGED <<io, tasks, running, release, peer, taken, handled, sent>>

TimerExpires ==
  /\ \E t \in conn.armed : conn' = [conn EXCEPT !.armed = @ \ {t}, !.fired = @ \union {t}]
  /\ UNCHANGED <<io, tasks, running, release, peer, taken, handled, sent, written>>

----------------------------------------------------------------------------

Reading == ParseHeader \/ ParseProxyIdentification \/ ParsePacketFails \/ ParseFirstPacket
             \/ SkipPacket \/ QueuePacket \/ EndParsePacket
Writing == InternalWorker \/ InternalSend \/ OnWriteOperation
Dispatching == ExecuteTask \/ ParsePacketBegins \/ ResumeWork
Game == ProtocolSend \/ Disconnect \/ CloseAll

ConnNext == Reading \/ Writing \/ HandleTimeout \/ Dispatching \/ Game
              \/ ReadCompletes \/ WriteCompletes \/ TimerExpires

ConnSpec == ConnInit /\ [][ConnNext]_connVars

(* The I/O thread and the dispatcher go on, and a timer expires in the end.  *)
(* Nothing is assumed of the peer, neither that it sends nor that it takes   *)
(* what is written.                                                          *)
ConnFairness ==
  /\ WF_connVars(Reading)
  /\ WF_connVars(Writing)
  /\ WF_connVars(HandleTimeout)
  /\ WF_connVars(Dispatching)
  /\ WF_connVars(TimerExpires)

ConnFairSpec == ConnSpec /\ ConnFairness

----------------------------------------------------------------------------
(* Properties.                                                               *)

Connections ==
  [state : {"identifying", "readings", "open", "closed"},
   socket : {"open", "down", "closed"},
   protocol : BOOLEAN,
   receivedFirst : BOOLEAN,
   msg : 0..MaxPackets,
   reads : Seq([op : ReadOps, end : {"pending", "ok", "error"}]),
   write : {"none", "posted", "pending", "ok", "error"},
   queue : Seq(1..MaxOutputs),
   armed : SUBSET Timers,
   fired : SUBSET Timers]

\* The type invariant. In particular only whole packets are ever handed over
\* or handled (taken and handled hold no 0), and a message is popped only
\* from a queue that has one.
ConnTypeOK ==
  /\ conn \in Connections
  /\ io \in {"idle", "queued", "encoding"}
  /\ tasks \in Seq(Tasks)
  /\ running \in {NoTask, "parse"}
  /\ release \in {"none", "done", "expired"}
  /\ peer \in 0..MaxPackets /\ sent \in 0..MaxOutputs
  /\ taken \in Seq(1..MaxPackets) /\ handled \in Seq(1..MaxPackets)
  /\ written \in Seq(1..MaxOutputs)

Queued(t) == {i \in DOMAIN tasks : tasks[i] = t}

\* m_msg has one user: the one read into it, or the one task that parses it,
\* queued or running. sendRecvMessageCallback captures it by reference.
BufferHasOneUser ==
  /\ Len(conn.reads) <= 1
  /\ \A i, j \in Queued("parse") : i = j
  /\ conn.reads # <<>> => Queued("parse") = {} /\ running = NoTask
  /\ running = "parse" => Queued("parse") = {}

\* At most one write loop runs, and one runs exactly while a message waits:
\* send starts it only when it finds the queue empty.
OneWriteLoop ==
  /\ conn.queue # <<>> <=> conn.write # "none" \/ io = "encoding"
  /\ io = "encoding" => conn.write = "none"

\* A closed connection's protocol is released by exactly one event, however
\* many handlers, timers and tasks close it, and an open one's by none.
ReleaseOwed ==
  Cardinality(Queued("release")) + (IF release = "none" THEN 0 ELSE 1)
    = IF conn.state = "closed" /\ conn.protocol THEN 1 ELSE 0

\* What the connection promises (see PacketFlow).
Flow == INSTANCE PacketFlow WITH
          Packets <- 1..MaxPackets,
          accepted <- sent,
          delivered <- written,
          shut <- conn.state = "closed"

FlowKept == Flow!FlowSpec

\* A peer that falls silent is timed out, wherever the connection is in its
\* protocol: some timer is armed on every path.
SilentPeerIsClosed == <>(conn.state = "closed")

\* The peer does not take what is written to a connection that was closed
\* before its queue was empty. Nothing ends that: the write timer's close
\* finds the connection closed already, and leaves the socket alone.
Stalled == conn.state = "closed" /\ conn.write = "pending"

\* A message that was accepted is written, or given up with the socket: a
\* queue is never left with nobody to write it, and a peer that does not read
\* is given up by an open connection, though not by a closed one.
QueueDrains == conn.queue # <<>> ~> conn.queue = <<>> \/ []Stalled

\* A closed connection gives its socket back, at once or when its last
\* message is written, or with the object.
SocketReturned == conn.state = "closed" ~> conn.socket = "closed" \/ ~Alive \/ []Stalled

\* What was accepted, and then the socket, comes to an end, but for a peer
\* that stops reading for good after a close.
OutputEnds == QueueDrains /\ SocketReturned
=============================================================================
