---------------------------- MODULE ServerProofs ----------------------------
(***************************************************************************)
(* Proofs about the components that MCServer runs side by side, for any    *)
(* number of packets, outputs, clients, Player objects, players, traders   *)
(* and offers, and about the composition.                                  *)
(***************************************************************************)
EXTENDS MCServer, FiniteSums

-----------------------------------------------------------------------------
(* Connection. *)
Read == [op : ReadOps, end : {"pending", "ok", "error"}]

\* What closing, or cancelling, leaves as it is: d is what becomes of c.
Alike(c, d) ==
  /\ d \in Connections
  /\ d.queue = c.queue /\ d.msg = c.msg /\ d.protocol = c.protocol
  /\ d.write = "none" <=> c.write = "none"
  /\ d.write = "ok" <=> c.write = "ok"
  /\ d.reads \in Seq(Read) /\ Len(d.reads) = Len(c.reads)
  /\ \A i \in DOMAIN c.reads :
       d.reads[i].op = c.reads[i].op /\ (d.reads[i].end = "ok" <=> c.reads[i].end = "ok")

\* The socket goes with the connection.
Sound(c) == c \in Connections /\ (c.socket = "closed" => c.state = "closed")

\* The rest of a queue.
LEMMA TailFacts ==
  ASSUME NEW S, NEW q \in Seq(S), q # <<>>
  PROVE  /\ Tail(q) \in Seq(S) /\ Len(Tail(q)) = Len(q) - 1
         /\ \A k \in 1..Len(Tail(q)) : k + 1 \in 1..Len(q) /\ Tail(q)[k] = q[k + 1]
         /\ Len(q) \in Nat /\ Len(q) > 0 /\ Head(q) = q[1]
<1>1. Len(q) \in Nat /\ Len(q) > 0 /\ Head(q) = q[1]
  OBVIOUS
<1>2. Tail(q) \in Seq(S) /\ Len(Tail(q)) = Len(q) - 1
  BY <1>1
<1>3. ASSUME NEW k \in 1..Len(Tail(q)) PROVE k + 1 \in 1..Len(q) /\ Tail(q)[k] = q[k + 1]
  BY <1>1, <1>2
<1> QED
  BY <1>1, <1>2, <1>3

LEMMA ShortSequence ==
  ASSUME NEW S, NEW q \in Seq(S), Len(q) <= 1
  PROVE  q = <<>> \/ Len(q) = 1
<1>1. Len(q) \in Nat /\ (Len(q) = 0 => q = <<>>)
  OBVIOUS
<1>2. \A n \in Nat : n <= 1 => n = 0 \/ n = 1
  OBVIOUS
<1> QED
  BY <1>1, <1>2

LEMMA AlikeSelf ==
  ASSUME NEW c \in Connections PROVE Alike(c, c)
  BY DEF Alike, Connections, Read

LEMMA AbortedAlike ==
  ASSUME NEW c \in Connections
  PROVE  /\ Alike(c, Aborted(c))
         /\ Aborted(c).state = c.state /\ Aborted(c).socket = c.socket
         /\ Aborted(c) = [c EXCEPT !.reads = Aborted(c).reads, !.write = Aborted(c).write]
<1> DEFINE rs == [i \in DOMAIN c.reads |-> IF c.reads[i].end = "pending" THEN [c.reads[i] EXCEPT !.end = "error"] ELSE c.reads[i]]
<1> DEFINE wr == IF c.write = "pending" THEN "error" ELSE c.write
<1>1. Aborted(c) = [c EXCEPT !.reads = rs, !.write = wr]
  BY DEF Aborted, Connections
<1>2. c.reads \in Seq(Read) /\ DOMAIN c.reads = 1..Len(c.reads) /\ Len(c.reads) \in Nat
  BY DEF Connections, Read
<1>3. \A i \in 1..Len(c.reads) : /\ rs[i] \in Read /\ rs[i].op = c.reads[i].op
                                 /\ rs[i].end = "ok" <=> c.reads[i].end = "ok"
  <2> SUFFICES ASSUME NEW i \in 1..Len(c.reads)
               PROVE  rs[i] \in Read /\ rs[i].op = c.reads[i].op /\ (rs[i].end = "ok" <=> c.reads[i].end = "ok")
    OBVIOUS
  <2>1. c.reads[i] \in Read
    BY <1>2
  <2>2. rs[i] = IF c.reads[i].end = "pending" THEN [c.reads[i] EXCEPT !.end = "error"] ELSE c.reads[i]
    BY <1>2
  <2> HIDE DEF rs
  <2>3. CASE c.reads[i].end = "pending"
    <3>1. rs[i] = [op |-> c.reads[i].op, end |-> "error"]
      BY <2>1, <2>2, <2>3 DEF Read
    <3> QED
      BY <3>1, <2>1, <2>3 DEF Read
  <2>4. CASE c.reads[i].end # "pending"
    BY <2>1, <2>2, <2>4
  <2> QED
    BY <2>3, <2>4
<1>4. rs \in Seq(Read) /\ Len(rs) = Len(c.reads)
  <2>1. rs \in [1..Len(c.reads) -> Read]
    <3>1. rs = [i \in 1..Len(c.reads) |-> rs[i]]
      BY <1>2
    <3> QED
      BY <3>1, <1>3
  <2> QED
    BY <2>1, <1>2
<1>5. wr \in {"none", "posted", "pending", "ok", "error"}
      /\ (wr = "none" <=> c.write = "none") /\ (wr = "ok" <=> c.write = "ok")
  BY DEF Connections
<1> HIDE DEF rs, wr
<1>6. [c EXCEPT !.reads = rs, !.write = wr] \in Connections
  BY <1>4, <1>5 DEF Connections, Read
<1> QED
  BY <1>1, <1>2, <1>3, <1>4, <1>5, <1>6 DEF Alike, Connections

LEMMA CloseSocketAlike ==
  ASSUME NEW c \in Connections
  PROVE  Alike(c, CloseSocket(c)) /\ CloseSocket(c).state = c.state /\ CloseSocket(c).socket = "closed"
<1>1. CASE c.socket = "closed"
  BY <1>1, AlikeSelf DEF CloseSocket
<1>2. CASE c.socket # "closed"
  <2>1. CloseSocket(c) = [Aborted(c) EXCEPT !.socket = "closed", !.armed = {}]
    BY <1>2 DEF CloseSocket
  <2> DEFINE a == Aborted(c)
  <2>2. Alike(c, a) /\ a.state = c.state /\ a \in Connections
    BY AbortedAlike DEF Alike
  <2> HIDE DEF a
  <2>3. [a EXCEPT !.socket = "closed", !.armed = {}] \in Connections
    BY <2>2 DEF Connections
  <2> QED
    BY <2>1, <2>2, <2>3 DEF Alike, Connections, a
<1> QED
  BY <1>1, <1>2

\* Close keeps everything but the state and the operations under way.
LEMMA CloseAlike ==
  ASSUME NEW c \in Connections, NEW force \in BOOLEAN
  PROVE  Alike(c, Close(c, force)) /\ Close(c, force).state = "closed"
<1>1. CASE c.state = "closed"
  BY <1>1, AlikeSelf DEF Close
<1>2. CASE c.state # "closed"
  <2> DEFINE d == [c EXCEPT !.state = "closed"]
  <2>1. d \in Connections /\ Alike(c, d) /\ d.state = "closed"
    BY DEF Alike, Connections, Read
  <2>2. Close(c, force) = d \/ Close(c, force) = CloseSocket(d)
    BY <1>2 DEF Close
  <2> HIDE DEF d
  <2>3. Alike(d, CloseSocket(d)) /\ CloseSocket(d).state = "closed"
    BY <2>1, CloseSocketAlike
  <2> QED
    BY <2>1, <2>2, <2>3 DEF Alike, Connections
<1> QED
  BY <1>1, <1>2

LEMMA StartReadFacts ==
  ASSUME NEW c \in Connections, c.reads = <<>>, NEW first \in ReadOps
  PROVE  LET d == StartRead(c, first)
         IN /\ d \in Connections
            /\ d.queue = c.queue /\ d.write = c.write /\ d.msg = c.msg /\ d.protocol = c.protocol
            /\ d.state = c.state /\ d.socket = c.socket
            /\ Len(d.reads) = 1 /\ d.reads[1].end # "ok"
<1> DEFINE rs == Append(c.reads, [op |-> first, end |-> EndOf(c)])
<1>1. EndOf(c) \in {"pending", "ok", "error"} /\ EndOf(c) # "ok"
  BY DEF EndOf
<1>2. rs \in Seq(Read) /\ Len(rs) = 1 /\ rs[1] = [op |-> first, end |-> EndOf(c)]
  BY <1>1 DEF Read
<1>3. rs[1].end # "ok"
  BY <1>1, <1>2
<1>4. StartRead(c, first) = [c EXCEPT !.armed = c.armed \union {"read"}, !.reads = rs]
  BY DEF StartRead, Connections
<1>5. c.armed \union {"read"} \in SUBSET Timers
  BY DEF Connections, Timers
<1> HIDE DEF rs
<1>6. StartRead(c, first) \in Connections
  BY <1>2, <1>4, <1>5 DEF Connections, Read
<1> QED
  BY <1>2, <1>3, <1>4, <1>6 DEF Connections

\* Send queues the output and leaves a write loop behind.
LEMMA SendFacts ==
  ASSUME NEW c, Sound(c), NEW output \in 1..MaxOutputs, Accepts(c)
  PROVE  LET d == Send(c, output)
         IN /\ Sound(d)
            /\ d.queue = Append(c.queue, output)
            /\ d.write = IF c.queue = <<>> THEN "posted" ELSE c.write
            /\ d.reads = c.reads /\ d.msg = c.msg /\ d.protocol = c.protocol
            /\ d.state = c.state
<1>1. c \in Connections /\ c.socket # "closed" /\ c.queue \in Seq(1..MaxOutputs)
  BY DEF Sound, Accepts, Connections
<1>2. Append(c.queue, output) \in Seq(1..MaxOutputs)
  BY <1>1
<1>3. Send(c, output) = IF c.queue # <<>> THEN [c EXCEPT !.queue = Append(c.queue, output)]
                        ELSE [[c EXCEPT !.queue = Append(c.queue, output)] EXCEPT !.write = "posted"]
  BY <1>1 DEF Send, Connections
<1> QED
  BY <1>1, <1>2, <1>3 DEF Sound, Connections

----------------------------------------------------------------------------
(* The invariant.                                                            *)

Parsing(ts) == {i \in DOMAIN ts : ts[i] = "parse"}

\* Two queues of tasks that do not differ in the packets' tasks, as far as it
\* matters.
SameParsing(us, ts) ==
  /\ Parsing(us) = {} <=> Parsing(ts) = {}
  /\ (\A i, j \in Parsing(ts) : i = j) => \A i, j \in Parsing(us) : i = j

\* A packet is in m_msg, and its handler has not run yet.
WholeRead(c) == Len(c.reads) = 1 /\ c.reads[1].op = "body" /\ c.reads[1].end = "ok"

\* Packets: the newest is in m_msg until it is handled, which it is before
\* the next is read.
InputSound(c, ts, run, p, tk, hd) ==
  /\ ts \in Seq(Tasks) /\ run \in {NoTask, "parse"} /\ p \in 0..MaxPackets
  /\ tk \in Seq(1..MaxPackets) /\ hd \in Seq(1..MaxPackets)
  /\ Len(c.reads) <= 1
  /\ \A i, j \in Parsing(ts) : i = j
  /\ Len(c.reads) = 1 => Parsing(ts) = {} /\ run = NoTask
  /\ run = "parse" => Parsing(ts) = {}
  /\ \A i \in DOMAIN tk : tk[i] <= p
  /\ WholeRead(c) => c.msg = p /\ p # 0 /\ \A i \in DOMAIN tk : tk[i] < p
  /\ Parsing(ts) # {} => c.msg # 0 /\ Len(tk) = Len(hd) + 1 /\ tk[Len(tk)] = c.msg
  /\ Parsing(ts) = {} => Len(tk) = Len(hd) \/ (c.state = "closed" /\ Len(tk) = Len(hd) + 1)

\* Written, but still in the queue.
Done(c) == IF c.write = "ok" THEN 1 ELSE 0

\* Outputs: messageQueue continues what was written, up to the newest one
\* unless a failed write has closed the connection and cleared the queue.
OutputSound(c, i, n, w) ==
  /\ n \in 0..MaxOutputs /\ w \in Seq(1..MaxOutputs)
  /\ c.queue # <<>> <=> c.write # "none" \/ i = "encoding"
  /\ i = "encoding" => c.write = "none"
  /\ Len(w) + Len(c.queue) - Done(c) <= n
  /\ c.state # "closed" => Len(w) + Len(c.queue) - Done(c) = n
  /\ \A k \in 1..Len(c.queue) : c.queue[k] = Len(w) - Done(c) + k

ConnInv ==
  /\ Sound(conn)
  /\ io \in {"idle", "queued", "encoding"}
  /\ release \in {"none", "done", "expired"}
  /\ InputSound(conn, tasks, running, peer, taken, handled)
  /\ OutputSound(conn, io, sent, written)

\* What a step may do that hands over no packet and accepts and writes no
\* output: d is what becomes of c.
Follows(c, d) ==
  /\ Sound(d)
  /\ d.queue = c.queue /\ d.msg = c.msg
  /\ d.write = "none" <=> c.write = "none"
  /\ d.write = "ok" <=> c.write = "ok"
  /\ c.state = "closed" => d.state = "closed"
  /\ Len(d.reads) <= Len(c.reads)
  /\ WholeRead(d) => WholeRead(c)

LEMMA AlikeFollows ==
  ASSUME NEW c \in Connections, NEW d, Alike(c, d), Sound(d), c.state = "closed" => d.state = "closed"
  PROVE  Follows(c, d)
  BY DEF Alike, Follows, WholeRead, Connections

LEMMA CloseFollows ==
  ASSUME NEW c, Sound(c), NEW force \in BOOLEAN
  PROVE  Follows(c, Close(c, force)) /\ Close(c, force).state = "closed" /\ Len(Close(c, force).reads) = Len(c.reads)
<1> DEFINE d == Close(c, force)
<1>1. c \in Connections
  BY DEF Sound
<1>2. Alike(c, d) /\ d.state = "closed"
  BY <1>1, CloseAlike
<1> HIDE DEF d
<1>3. Sound(d) /\ Len(d.reads) = Len(c.reads)
  BY <1>2 DEF Alike, Sound
<1>4. Follows(c, d)
  BY <1>1, <1>2, <1>3, AlikeFollows
<1> QED
  BY <1>2, <1>3, <1>4 DEF d

LEMMA FollowsTransitive ==
  ASSUME NEW b, NEW c, NEW d, Follows(b, c), Follows(c, d),
         Len(b.reads) \in Nat, Len(c.reads) \in Nat, Len(d.reads) \in Nat
  PROVE  Follows(b, d)
  BY DEF Follows

\* In the handler of a read no other is under way.
LEMMA HandlerFollows ==
  ASSUME ConnInv, NEW i \in DOMAIN conn.reads
  PROVE  /\ i = 1 /\ Len(conn.reads) = 1
         /\ Follows(conn, InHandler(i)) /\ InHandler(i).reads = <<>>
         /\ InHandler(i).protocol = conn.protocol /\ InHandler(i).state = conn.state
<1>1. conn \in Connections /\ conn.reads \in Seq(Read) /\ Len(conn.reads) \in Nat /\ Len(conn.reads) <= 1
  BY DEF ConnInv, Sound, InputSound, Connections, Read
<1>2. i = 1 /\ Len(conn.reads) = 1
  <2>1. DOMAIN conn.reads = 1..Len(conn.reads)
    BY <1>1
  <2>2. Len(conn.reads) \in Nat /\ Len(conn.reads) <= 1
    BY <1>1
  <2>3. \A n \in Nat : \A k \in 1..n : n <= 1 => k = 1 /\ n = 1
    OBVIOUS
  <2> QED
    BY <2>1, <2>2, <2>3
<1> DEFINE rs == SubSeq(conn.reads, 1, i - 1) \o SubSeq(conn.reads, i + 1, Len(conn.reads))
<1>3. rs = <<>>
  BY <1>1, <1>2
<1>4. InHandler(i) = [conn EXCEPT !.reads = <<>>, !.armed = conn.armed \ {"read"}]
  BY <1>1, <1>3 DEF InHandler, Connections
<1>5. conn.armed \ {"read"} \in SUBSET Timers /\ <<>> \in Seq(Read) /\ Len(<<>>) = 0
  BY <1>1 DEF Connections
<1>6. InHandler(i) \in Connections
  BY <1>1, <1>4, <1>5 DEF Connections, Read
<1>7. InHandler(i).reads = <<>> /\ InHandler(i).state = conn.state /\ InHandler(i).socket = conn.socket
      /\ InHandler(i).queue = conn.queue /\ InHandler(i).msg = conn.msg /\ InHandler(i).write = conn.write
      /\ InHandler(i).protocol = conn.protocol
  BY <1>1, <1>4 DEF Connections
<1>8. Sound(InHandler(i))
  BY <1>6, <1>7 DEF ConnInv, Sound
<1>9. Len(InHandler(i).reads) = 0
  BY <1>5, <1>7
<1> QED
  BY <1>2, <1>7, <1>8, <1>9 DEF Follows, WholeRead

\* A handler that reads again.
LEMMA ReadAgainFollows ==
  ASSUME ConnInv, Len(conn.reads) = 1, NEW c, Follows(conn, c), c.reads = <<>>, NEW first \in ReadOps
  PROVE  Follows(conn, StartRead(c, first)) /\ StartRead(c, first).state = c.state
<1>1. c \in Connections
  BY DEF Follows, Sound
<1> DEFINE d == StartRead(c, first)
<1>2. /\ d \in Connections
      /\ d.queue = c.queue /\ d.write = c.write /\ d.msg = c.msg
      /\ d.state = c.state /\ d.socket = c.socket
      /\ Len(d.reads) = 1 /\ d.reads[1].end # "ok"
  BY <1>1, StartReadFacts
<1> HIDE DEF d
<1>3. Sound(d) /\ ~WholeRead(d)
  BY <1>2 DEF Follows, Sound, WholeRead
<1>4. Follows(conn, d)
  BY <1>2, <1>3 DEF Follows
<1> QED
  BY <1>2, <1>4 DEF d

----------------------------------------------------------------------------
(* How the parts of the invariant are kept.                                  *)

\* Releases among the tasks are none of the packets' business.
LEMMA ReleaseQueued ==
  ASSUME NEW ts \in Seq(Tasks), NEW c, NEW d
  PROVE  /\ ts \o ReleaseOf(c, d) \in Seq(Tasks)
         /\ SameParsing(ts \o ReleaseOf(c, d), ts)
<1>1. ReleaseOf(c, d) = <<"release">> \/ ReleaseOf(c, d) = <<>>
  BY DEF ReleaseOf
<1>2. CASE ReleaseOf(c, d) = <<>>
  <2>1. ts \o <<>> = ts
    OBVIOUS
  <2> QED
    BY <1>2, <2>1 DEF SameParsing
<1>3. CASE ReleaseOf(c, d) = <<"release">>
  <2> DEFINE us == ts \o <<"release">>
  <2>1. "release" \in Tasks /\ <<"release">> \in Seq(Tasks)
    BY DEF Tasks
  <2>2. us \in Seq(Tasks) /\ Len(us) = Len(ts) + 1 /\ us[Len(ts) + 1] = "release"
        /\ \A i \in 1..Len(ts) : us[i] = ts[i]
    BY <2>1
  <2>3. DOMAIN us = 1..Len(us) /\ DOMAIN ts = 1..Len(ts) /\ Len(ts) \in Nat
    BY <2>2
  <2> HIDE DEF us
  <2>4. \A i : i \in Parsing(us) <=> i \in Parsing(ts)
    BY <2>2, <2>3 DEF Parsing
  <2>5. Parsing(us) = Parsing(ts)
    BY <2>4
  <2> QED
    BY <1>3, <2>2, <2>5 DEF us, SameParsing
<1> QED
  BY <1>1, <1>2, <1>3

LEMMA InputKept ==
  ASSUME NEW c, Sound(c), NEW d, Follows(c, d), NEW ts, NEW us \in Seq(Tasks), SameParsing(us, ts),
         NEW run, NEW p, NEW tk, NEW hd, InputSound(c, ts, run, p, tk, hd)
  PROVE  InputSound(d, us, run, p, tk, hd)
<1>1. Len(d.reads) \in Nat /\ Len(c.reads) \in Nat
  BY DEF Follows, Sound, Connections
<1>2. Len(d.reads) <= Len(c.reads) /\ Len(c.reads) <= 1
  BY DEF Follows, InputSound
<1>3. Len(d.reads) <= 1 /\ (Len(d.reads) = 1 => Len(c.reads) = 1)
  <2>1. \A m, n \in Nat : m <= n /\ n <= 1 => m <= 1 /\ (m = 1 => n = 1)
    OBVIOUS
  <2> QED
    BY <2>1, <1>1, <1>2
<1> QED
  BY <1>3 DEF Follows, InputSound, SameParsing

LEMMA OutputKept ==
  ASSUME NEW c, NEW d, Follows(c, d), NEW i, NEW j, i = "encoding" <=> j = "encoding",
         NEW n, NEW w, OutputSound(c, i, n, w)
  PROVE  OutputSound(d, j, n, w)
<1>1. Done(d) = Done(c) /\ d.queue = c.queue
  BY DEF Follows, Done
<1> QED
  BY <1>1 DEF Follows, OutputSound

\* An output that is accepted.
LEMMA SendKeepsOutput ==
  ASSUME NEW c, Sound(c), Accepts(c), NEW i, NEW n, NEW w, OutputSound(c, i, n, w), n < MaxOutputs
  PROVE  OutputSound(Send(c, n + 1), i, n + 1, w)
<1> USE ConnectionAssumption
<1>1. n \in Nat /\ n + 1 \in 1..MaxOutputs
  BY DEF OutputSound
<1> DEFINE d == Send(c, n + 1)
<1>2. /\ d.queue = Append(c.queue, n + 1)
      /\ d.write = IF c.queue = <<>> THEN "posted" ELSE c.write
      /\ d.state = c.state
  BY <1>1, SendFacts
<1> HIDE DEF d
<1>3. c.queue \in Seq(1..MaxOutputs) /\ Len(c.queue) \in Nat /\ (c.queue = <<>> <=> Len(c.queue) = 0)
  BY DEF Sound, Connections
<1>4. /\ Len(d.queue) = Len(c.queue) + 1 /\ d.queue # <<>>
      /\ d.queue[Len(c.queue) + 1] = n + 1
      /\ \A k \in 1..Len(c.queue) : d.queue[k] = c.queue[k]
  <2> DEFINE q == c.queue
             r == Append(q, n + 1)
  <2>1. /\ Len(r) = Len(q) + 1 /\ r # <<>> /\ r[Len(q) + 1] = n + 1
        /\ \A k \in 1..Len(q) : r[k] = q[k]
    BY <1>1, <1>3
  <2> QED
    BY <1>2, <2>1
<1>5. Done(d) = Done(c)
  <2>1. c.queue = <<>> => c.write = "none"
    BY DEF OutputSound
  <2> QED
    BY <1>2, <2>1 DEF Done
<1>6. Done(c) \in Nat /\ Len(w) \in Nat
  BY DEF Done, OutputSound
<1>7. Len(w) + Len(c.queue) - Done(c) = n
  BY DEF OutputSound, Accepts
<1>8. Len(w) + Len(d.queue) - Done(d) = n + 1
  BY <1>1, <1>3, <1>4, <1>5, <1>6, <1>7
<1>9. ASSUME NEW k \in 1..Len(d.queue)
      PROVE  d.queue[k] = Len(w) - Done(d) + k
  <2>1. CASE k = Len(c.queue) + 1
    BY <2>1, <1>1, <1>3, <1>4, <1>5, <1>6, <1>7
  <2>2. CASE k # Len(c.queue) + 1
    <3>1. k \in 1..Len(c.queue)
      BY <2>2, <1>3, <1>4
    <3>2. c.queue[k] = Len(w) - Done(c) + k
      BY <3>1 DEF OutputSound
    <3> QED
      BY <3>1, <3>2, <1>4, <1>5
  <2> QED
    BY <2>1, <2>2
<1>10. /\ d.queue # <<>> <=> d.write # "none" \/ i = "encoding"
       /\ i = "encoding" => d.write = "none"
  BY <1>2, <1>4 DEF OutputSound
<1>11. n + 1 \in 0..MaxOutputs /\ w \in Seq(1..MaxOutputs)
  BY <1>1 DEF OutputSound
<1>12. OutputSound(d, i, n + 1, w)
  BY <1>1, <1>8, <1>9, <1>10, <1>11 DEF OutputSound
<1> QED
  BY <1>12 DEF d

\* Send does not touch what is read.
LEMMA SendKeepsInput ==
  ASSUME NEW c, Sound(c), Accepts(c), NEW output \in 1..MaxOutputs,
         NEW ts, NEW us \in Seq(Tasks), SameParsing(us, ts),
         NEW run, NEW p, NEW tk, NEW hd, InputSound(c, ts, run, p, tk, hd)
  PROVE  InputSound(Send(c, output), us, run, p, tk, hd)
<1> DEFINE d == Send(c, output)
<1>1. d.reads = c.reads /\ d.msg = c.msg /\ d.state = c.state
  BY SendFacts
<1> HIDE DEF d
<1>2. WholeRead(d) = WholeRead(c)
  BY <1>1 DEF WholeRead
<1>3. InputSound(d, us, run, p, tk, hd)
  BY <1>1, <1>2 DEF InputSound, SameParsing
<1> QED
  BY <1>3 DEF d

----------------------------------------------------------------------------
(* The steps that neither hand over a packet nor accept or write an output.  *)

FlowStep == [Flow!FlowNext]_(Flow!flowVars)

LEMMA QuietFlow ==
  ASSUME UNCHANGED <<taken, handled, sent, written>>, conn.state = "closed" => conn'.state = "closed"
  PROVE  FlowStep
  BY DEF FlowStep, Flow!FlowNext, Flow!Shut, Flow!flowVars

LEMMA FollowsPreserves ==
  ASSUME ConnInv, Follows(conn, conn'),
         tasks' \in Seq(Tasks), SameParsing(tasks', tasks),
         UNCHANGED <<running, release, peer, taken, handled, sent, written>>,
         io' \in {"idle", "queued", "encoding"}, io' = "encoding" <=> io = "encoding"
  PROVE  ConnInv' /\ FlowStep
<1>1. Sound(conn) /\ Sound(conn')
  BY DEF ConnInv, Follows
<1>2. InputSound(conn', tasks', running, peer, taken, handled)
  BY <1>1, InputKept DEF ConnInv
<1>3. OutputSound(conn', io', sent, written)
  BY OutputKept DEF ConnInv
<1>4. ConnInv'
  BY <1>1, <1>2, <1>3 DEF ConnInv
<1>5. FlowStep
  BY QuietFlow DEF Follows
<1> QED
  BY <1>4, <1>5

\* The same for a step that may close.
LEMMA BecomesPreserves ==
  ASSUME ConnInv, NEW d, Follows(conn, d), Becomes(d),
         UNCHANGED <<io, running, release, peer, taken, handled, sent, written>>
  PROVE  ConnInv' /\ FlowStep
<1>1. tasks \in Seq(Tasks)
  BY DEF ConnInv, InputSound
<1>2. tasks' \in Seq(Tasks) /\ SameParsing(tasks', tasks)
  BY <1>1, ReleaseQueued DEF Becomes
<1>3. Follows(conn, conn')
  BY DEF Becomes
<1>4. io' \in {"idle", "queued", "encoding"}
  BY DEF ConnInv
<1> QED
  BY <1>2, <1>3, <1>4, FollowsPreserves

LEMMA CloseAfter ==
  ASSUME ConnInv, NEW c, Follows(conn, c), NEW force \in BOOLEAN
  PROVE  Follows(conn, Close(c, force)) /\ (c.reads = <<>> => Close(c, force).reads = <<>>)
<1> DEFINE d == Close(c, force)
<1>1. Sound(conn) /\ Sound(c)
  BY DEF ConnInv, Follows
<1>2. Follows(c, d) /\ Len(d.reads) = Len(c.reads)
  BY <1>1, CloseFollows
<1> HIDE DEF d
<1>3. Sound(d)
  BY <1>2 DEF Follows
<1>4. /\ Len(conn.reads) \in Nat /\ Len(c.reads) \in Nat /\ Len(d.reads) \in Nat
      /\ c.reads \in Seq(Read) /\ d.reads \in Seq(Read)
  BY <1>1, <1>3 DEF Sound, Connections, Read
<1>5. Follows(conn, d)
  BY <1>2, <1>4, FollowsTransitive
<1>6. c.reads = <<>> => d.reads = <<>>
  BY <1>2, <1>4
<1> QED
  BY <1>5, <1>6 DEF d

LEMMA HeaderFollows ==
  ASSUME ConnInv, Len(conn.reads) = 1, NEW c, Follows(conn, c), c.reads = <<>>, NEW d \in HeaderOutcomes(c)
  PROVE  Follows(conn, d)
<1>1. d = c \/ d = Close(c, FALSE) \/ d = Close(c, TRUE) \/ d = StartRead(c, "body")
  BY DEF HeaderOutcomes
<1>2. Follows(conn, Close(c, FALSE)) /\ Follows(conn, Close(c, TRUE))
  BY CloseAfter
<1>3. Follows(conn, StartRead(c, "body"))
  BY ReadAgainFollows DEF ReadOps
<1> QED
  BY <1>1, <1>2, <1>3

LEMMA ParseHeaderPreserves == ConnInv /\ ParseHeader => ConnInv' /\ FlowStep
<1> SUFFICES ASSUME ConnInv, ParseHeader PROVE ConnInv' /\ FlowStep
  OBVIOUS
<1>1. PICK i \in Completed("header") :
        IF conn.reads[i].end = "error"
        THEN Becomes(Close(InHandler(i), TRUE))
        ELSE \E d \in HeaderOutcomes(InHandler(i)) : Becomes(d)
  BY DEF ParseHeader
<1>2. Len(conn.reads) = 1 /\ Follows(conn, InHandler(i)) /\ InHandler(i).reads = <<>>
  BY <1>1, HandlerFollows DEF Completed
<1>3. PICK d : Becomes(d) /\ (d = Close(InHandler(i), TRUE) \/ d \in HeaderOutcomes(InHandler(i)))
  BY <1>1
<1>4. Follows(conn, d)
  BY <1>2, <1>3, CloseAfter, HeaderFollows
<1> QED
  BY <1>3, <1>4, BecomesPreserves DEF ParseHeader

LEMMA IdentificationFollows ==
  ASSUME ConnInv, Len(conn.reads) = 1, conn.state # "closed",
         NEW c, Follows(conn, c), c.reads = <<>>, c.state # "closed", NEW d \in IdentificationOutcomes(c)
  PROVE  Follows(conn, d)
<1>1. ASSUME NEW st \in {"readings", "open"}
      PROVE  LET b == [c EXCEPT !.state = st] IN Follows(conn, b) /\ b.reads = <<>>
  <2> DEFINE b == [c EXCEPT !.state = st]
  <2>1. c \in Connections /\ c.socket # "closed"
    BY DEF Follows, Sound
  <2>2. /\ b \in Connections /\ b.socket = c.socket /\ b.reads = c.reads /\ b.queue = c.queue
        /\ b.msg = c.msg /\ b.write = c.write
    BY <2>1 DEF Connections
  <2> HIDE DEF b
  <2>3. Sound(b) /\ WholeRead(b) = WholeRead(c)
    BY <2>1, <2>2 DEF Sound, WholeRead
  <2>4. Follows(conn, b)
    BY <2>2, <2>3 DEF Follows
  <2> QED
    BY <2>2, <2>4 DEF b
<1>2. CASE d \in HeaderOutcomes([c EXCEPT !.state = "open"])
  BY <1>1, <1>2, HeaderFollows
<1>3. CASE d = StartRead([c EXCEPT !.state = "readings"], "identification")
  BY <1>1, <1>3, ReadAgainFollows DEF ReadOps
<1>4. CASE d = StartRead([c EXCEPT !.state = "open"], "header")
  BY <1>1, <1>4, ReadAgainFollows DEF ReadOps
<1>5. CASE d = Close(c, TRUE)
  BY <1>5, CloseAfter
<1> QED
  BY <1>2, <1>3, <1>4, <1>5 DEF IdentificationOutcomes

LEMMA ParseProxyIdentificationPreserves == ConnInv /\ ParseProxyIdentification => ConnInv' /\ FlowStep
<1> SUFFICES ASSUME ConnInv, ParseProxyIdentification PROVE ConnInv' /\ FlowStep
  OBVIOUS
<1>1. PICK i \in Completed("identification") :
        IF conn.reads[i].end = "error" \/ conn.state = "closed"
        THEN Becomes(Close(InHandler(i), TRUE))
        ELSE \E d \in IdentificationOutcomes(InHandler(i)) : Becomes(d)
  BY DEF ParseProxyIdentification
<1>2. Len(conn.reads) = 1 /\ Follows(conn, InHandler(i)) /\ InHandler(i).reads = <<>>
      /\ InHandler(i).state = conn.state
  BY <1>1, HandlerFollows DEF Completed
<1>3. PICK d : Becomes(d) /\ \/ d = Close(InHandler(i), TRUE)
                             \/ conn.state # "closed" /\ d \in IdentificationOutcomes(InHandler(i))
  BY <1>1
<1>4. Follows(conn, d)
  BY <1>2, <1>3, CloseAfter, IdentificationFollows
<1> QED
  BY <1>3, <1>4, BecomesPreserves DEF ParseProxyIdentification

LEMMA ParsePacketFailsPreserves == ConnInv /\ ParsePacketFails => ConnInv' /\ FlowStep
<1> SUFFICES ASSUME ConnInv, ParsePacketFails PROVE ConnInv' /\ FlowStep
  OBVIOUS
<1>1. PICK i \in Completed("body") : Becomes(Close(InHandler(i), TRUE))
  BY DEF ParsePacketFails
<1>2. Follows(conn, Close(InHandler(i), TRUE))
  BY <1>1, HandlerFollows, CloseAfter DEF Completed
<1> QED
  BY <1>1, <1>2, BecomesPreserves DEF ParsePacketFails

LEMMA SkipPacketPreserves == ConnInv /\ SkipPacket => ConnInv' /\ FlowStep
<1> SUFFICES ASSUME ConnInv, SkipPacket PROVE ConnInv' /\ FlowStep
  OBVIOUS
<1>1. PICK i \in Completed("body") : Becomes(StartRead(InHandler(i), "header"))
  BY DEF SkipPacket
<1>2. Follows(conn, StartRead(InHandler(i), "header"))
  BY <1>1, HandlerFollows, ReadAgainFollows DEF Completed, ReadOps
<1> QED
  BY <1>1, <1>2, BecomesPreserves DEF SkipPacket

LEMMA EndParsePacketPreserves == ConnInv /\ EndParsePacket => ConnInv' /\ FlowStep
<1> SUFFICES ASSUME ConnInv, EndParsePacket PROVE ConnInv' /\ FlowStep
  OBVIOUS
<1>1. conn \in Connections /\ conn' = [conn EXCEPT !.armed = conn.armed \union {"read"}]
  BY DEF EndParsePacket, ConnInv, Sound, Connections
<1>2. conn.armed \union {"read"} \in SUBSET Timers
  BY <1>1 DEF Connections, Timers
<1>3. conn' \in Connections /\ conn'.socket = conn.socket /\ conn'.reads = conn.reads
      /\ conn'.queue = conn.queue /\ conn'.msg = conn.msg /\ conn'.write = conn.write /\ conn'.state = conn.state
  BY <1>1, <1>2 DEF Connections
<1>4. Follows(conn, conn')
  BY <1>3 DEF Follows, WholeRead, ConnInv, Sound, Connections
<1>5. tasks' \in Seq(Tasks) /\ SameParsing(tasks', tasks)
  BY DEF EndParsePacket, ConnInv, InputSound, SameParsing
<1> QED
  BY <1>4, <1>5, FollowsPreserves DEF EndParsePacket

LEMMA HandleTimeoutPreserves == ConnInv /\ HandleTimeout => ConnInv' /\ FlowStep
<1> SUFFICES ASSUME ConnInv, HandleTimeout PROVE ConnInv' /\ FlowStep
  OBVIOUS
<1>1. PICK t \in conn.fired : Becomes(Close([conn EXCEPT !.fired = @ \ {t}], TRUE))
  BY DEF HandleTimeout
<1> DEFINE c == [conn EXCEPT !.fired = @ \ {t}]
<1>2. conn \in Connections /\ conn.fired \ {t} \in SUBSET Timers
  BY DEF ConnInv, Sound, Connections
<1>3. Follows(conn, c)
  BY <1>2 DEF Follows, WholeRead, ConnInv, Sound, Connections
<1> HIDE DEF c
<1>4. Follows(conn, Close(c, TRUE))
  BY <1>3, CloseAfter
<1>5. Becomes(Close(c, TRUE))
  BY <1>1 DEF c
<1> QED
  BY <1>4, <1>5, BecomesPreserves DEF HandleTimeout

LEMMA DisconnectPreserves == ConnInv /\ Disconnect => ConnInv' /\ FlowStep
<1> SUFFICES ASSUME ConnInv, Disconnect PROVE ConnInv' /\ FlowStep
  OBVIOUS
<1>1. Follows(conn, Close(conn, FALSE))
  BY CloseFollows DEF ConnInv
<1> QED
  BY <1>1, BecomesPreserves DEF Disconnect

LEMMA CloseAllPreserves == ConnInv /\ CloseAll => ConnInv' /\ FlowStep
<1> SUFFICES ASSUME ConnInv, CloseAll PROVE ConnInv' /\ FlowStep
  OBVIOUS
<1> DEFINE a == Aborted(conn)
<1>1. Alike(conn, a) /\ a.state = conn.state /\ a \in Connections
  BY AbortedAlike DEF ConnInv, Sound, Alike
<1>2. conn' = [a EXCEPT !.socket = "down"]
  BY DEF CloseAll
<1> HIDE DEF a
<1>3. conn' \in Connections /\ conn'.socket = "down" /\ conn'.reads = a.reads /\ conn'.queue = a.queue
      /\ conn'.msg = a.msg /\ conn'.write = a.write /\ conn'.protocol = a.protocol /\ conn'.state = a.state
  BY <1>1, <1>2 DEF Connections
<1>4. Alike(conn, conn') /\ Sound(conn')
  BY <1>1, <1>3 DEF Alike, Sound
<1>5. Follows(conn, conn')
  BY <1>1, <1>3, <1>4, AlikeFollows DEF ConnInv, Sound
<1>6. tasks' \in Seq(Tasks) /\ SameParsing(tasks', tasks)
  BY DEF CloseAll, ConnInv, InputSound, SameParsing
<1> QED
  BY <1>5, <1>6, FollowsPreserves DEF CloseAll, ConnInv

LEMMA TimerExpiresPreserves == ConnInv /\ TimerExpires => ConnInv' /\ FlowStep
<1> SUFFICES ASSUME ConnInv, TimerExpires PROVE ConnInv' /\ FlowStep
  OBVIOUS
<1>1. PICK t \in conn.armed : conn' = [conn EXCEPT !.armed = conn.armed \ {t}, !.fired = conn.fired \union {t}]
  BY DEF TimerExpires, ConnInv, Sound, Connections
<1>2. conn \in Connections /\ conn.armed \ {t} \in SUBSET Timers /\ conn.fired \union {t} \in SUBSET Timers
  BY DEF ConnInv, Sound, Connections
<1>3. conn' \in Connections /\ conn'.socket = conn.socket /\ conn'.reads = conn.reads
      /\ conn'.queue = conn.queue /\ conn'.msg = conn.msg /\ conn'.write = conn.write /\ conn'.state = conn.state
  BY <1>1, <1>2 DEF Connections
<1>4. Follows(conn, conn')
  BY <1>3 DEF Follows, WholeRead, ConnInv, Sound, Connections
<1>5. tasks' \in Seq(Tasks) /\ SameParsing(tasks', tasks)
  BY DEF TimerExpires, ConnInv, InputSound, SameParsing
<1> QED
  BY <1>4, <1>5, FollowsPreserves DEF TimerExpires, ConnInv

----------------------------------------------------------------------------
(* Outputs.                                                                  *)

LEMMA AcceptFlow ==
  ASSUME UNCHANGED <<taken, handled, written>>, sent' = sent + 1, conn.state # "closed"
  PROVE  FlowStep
<1>1. (conn'.state = "closed") \in BOOLEAN
  OBVIOUS
<1> QED
  BY <1>1 DEF FlowStep, Flow!FlowNext, Flow!Accept, Flow!flowVars

\* Game and dispatcher: the output of an open connection.
LEMMA SendPreserves ==
  ASSUME ConnInv, Accepts(conn), sent < MaxOutputs, conn' = Send(conn, sent + 1), sent' = sent + 1,
         tasks' \in Seq(Tasks), SameParsing(tasks', tasks), release' \in {"none", "done", "expired"},
         UNCHANGED <<io, running, peer, taken, handled, written>>
  PROVE  ConnInv' /\ FlowStep
<1>1. sent + 1 \in 1..MaxOutputs
  BY ConnectionAssumption DEF ConnInv, OutputSound
<1>2. Sound(conn')
  BY <1>1, SendFacts DEF ConnInv
<1>3. InputSound(conn', tasks', running, peer, taken, handled)
  BY <1>1, SendKeepsInput DEF ConnInv
<1>4. OutputSound(conn', io, sent + 1, written)
  BY SendKeepsOutput DEF ConnInv
<1>5. FlowStep
  BY AcceptFlow DEF Accepts
<1> QED
  BY <1>2, <1>3, <1>4, <1>5 DEF ConnInv

LEMMA ProtocolSendPreserves == ConnInv /\ ProtocolSend => ConnInv' /\ FlowStep
<1> SUFFICES ASSUME ConnInv, ProtocolSend PROVE ConnInv' /\ FlowStep
  OBVIOUS
<1>1. tasks' \in Seq(Tasks) /\ SameParsing(tasks', tasks)
  BY ReleaseQueued DEF ProtocolSend, Becomes, ConnInv, InputSound
<1> QED
  BY <1>1, SendPreserves DEF ProtocolSend, Becomes, ConnInv

\* The first message: nothing is handed over, but a refusal may be sent.
LEMMA ParseFirstPacketPreserves == ConnInv /\ ParseFirstPacket => ConnInv' /\ FlowStep
<1> SUFFICES ASSUME ConnInv, ParseFirstPacket PROVE ConnInv' /\ FlowStep
  OBVIOUS
<1> DEFINE First(i) == [InHandler(i) EXCEPT !.receivedFirst = TRUE]
           Known(i) == [First(i) EXCEPT !.protocol = TRUE]
<1>1. PICK i \in Completed("body") :
        \/ Becomes(Close(First(i), TRUE)) /\ UNCHANGED sent
        \/ Becomes(StartRead(Known(i), "header")) /\ UNCHANGED sent
        \/ /\ sent < MaxOutputs
           /\ Becomes(StartRead(Close(Send(Known(i), sent + 1), FALSE), "header"))
           /\ sent' = sent + 1
  BY DEF ParseFirstPacket
<1> DEFINE h == InHandler(i)
           c == First(i)
           k == Known(i)
<1>2. Len(conn.reads) = 1 /\ Follows(conn, h) /\ h.reads = <<>> /\ h.state = conn.state
  BY <1>1, HandlerFollows DEF Completed
<1>3. c = [h EXCEPT !.receivedFirst = TRUE] /\ k = [c EXCEPT !.protocol = TRUE]
  OBVIOUS
<1> HIDE DEF First, Known, h, c, k
<1>4. h \in Connections /\ Sound(h)
  BY <1>2 DEF Follows, Sound
<1>5. c \in Connections /\ c.reads = <<>> /\ c.state = h.state /\ c.socket = h.socket /\ c.queue = h.queue
      /\ c.msg = h.msg /\ c.write = h.write
  BY <1>2, <1>3, <1>4 DEF Connections
<1>6. k \in Connections /\ k.reads = <<>> /\ k.state = h.state /\ k.socket = h.socket /\ k.queue = h.queue
      /\ k.msg = h.msg /\ k.write = h.write
  BY <1>3, <1>5 DEF Connections
<1>7. Follows(conn, c) /\ Follows(conn, k)
  BY <1>2, <1>4, <1>5, <1>6 DEF Follows, Sound, WholeRead
<1>8. UNCHANGED <<io, running, release, peer, taken, handled, written>> /\ conn.state # "closed"
  BY DEF ParseFirstPacket
<1>9. CASE Becomes(Close(c, TRUE)) /\ UNCHANGED sent
  BY <1>7, <1>8, <1>9, CloseAfter, BecomesPreserves
<1>10. CASE Becomes(StartRead(k, "header")) /\ UNCHANGED sent
  <2>1. Follows(conn, StartRead(k, "header"))
    BY <1>2, <1>6, <1>7, ReadAgainFollows DEF ReadOps
  <2> QED
    BY <2>1, <1>8, <1>10, BecomesPreserves
<1>11. CASE sent < MaxOutputs /\ sent' = sent + 1
            /\ Becomes(StartRead(Close(Send(k, sent + 1), FALSE), "header"))
  <2> DEFINE s == Send(k, sent + 1)
             d == Close(s, FALSE)
             e == StartRead(d, "header")
  <2>1. sent + 1 \in 1..MaxOutputs /\ Accepts(k) /\ Sound(k)
    BY <1>2, <1>6, <1>7, <1>8, <1>11, ConnectionAssumption DEF ConnInv, OutputSound, Accepts, Follows
  <2>2. OutputSound(k, io, sent, written)
    BY <1>7, OutputKept DEF ConnInv
  <2>3. Sound(s) /\ s.reads = <<>> /\ s.msg = conn.msg
    BY <2>1, <1>6, <1>7, SendFacts DEF Follows
  <2>4. OutputSound(s, io, sent + 1, written)
    BY <2>1, <2>2, <1>11, SendKeepsOutput
  <2> HIDE DEF s
  <2>5. Follows(s, d) /\ d.state = "closed" /\ Len(d.reads) = Len(s.reads)
    BY <2>3, CloseFollows
  <2>6. OutputSound(d, io, sent + 1, written)
    BY <2>4, <2>5, OutputKept
  <2> HIDE DEF d
  <2>7. d \in Connections /\ d.reads = <<>> /\ d.msg = conn.msg
    BY <2>3, <2>5 DEF Follows, Sound, Connections
  <2>8. /\ e \in Connections /\ e.queue = d.queue /\ e.write = d.write /\ e.msg = d.msg
        /\ e.state = d.state /\ Len(e.reads) = 1 /\ e.reads[1].end # "ok"
    BY <2>7, StartReadFacts DEF ReadOps
  <2>9. conn' = e /\ tasks' = tasks \o ReleaseOf(conn, e)
    BY <1>11 DEF Becomes, e, d, s
  <2> HIDE DEF e
  <2>10. Sound(e) /\ ~WholeRead(e)
    BY <2>5, <2>8 DEF Sound, WholeRead
  <2>11. OutputSound(e, io, sent + 1, written)
    BY <2>6, <2>8 DEF OutputSound, Done
  <2>12. tasks' \in Seq(Tasks) /\ SameParsing(tasks', tasks)
    BY <2>9, ReleaseQueued DEF ConnInv, InputSound
  <2>13. InputSound(e, tasks', running, peer, taken, handled)
    BY <2>5, <2>7, <2>8, <2>10, <2>12, <1>2 DEF ConnInv, InputSound, SameParsing
  <2>14. FlowStep
    BY <1>8, <1>11, AcceptFlow
  <2> QED
    BY <2>9, <2>10, <2>11, <2>13, <2>14, <1>8, <1>11 DEF ConnInv
<1> QED
  BY <1>1, <1>9, <1>10, <1>11 DEF c, k

LEMMA InternalWorkerPreserves == ConnInv /\ InternalWorker => ConnInv' /\ FlowStep
<1> SUFFICES ASSUME ConnInv, InternalWorker PROVE ConnInv' /\ FlowStep
  OBVIOUS
<1>1. conn \in Connections /\ conn.write = "posted" /\ conn.queue # <<>> /\ io = "idle"
  BY DEF InternalWorker, ConnInv, Sound, OutputSound
<1> DEFINE c == [conn EXCEPT !.write = "none"]
<1>2. /\ c \in Connections /\ c.queue = conn.queue /\ c.state = conn.state /\ c.socket = conn.socket
      /\ c.reads = conn.reads /\ c.msg = conn.msg /\ c.write = "none"
  BY <1>1 DEF Connections
<1>3. Continue(c)
  BY DEF InternalWorker
<1> HIDE DEF c
<1>4. conn' = c /\ io' = "encoding"
  BY <1>1, <1>2, <1>3 DEF Continue
<1>5. OutputSound(c, "encoding", sent, written)
  BY <1>1, <1>2 DEF ConnInv, OutputSound, Done
<1>6. InputSound(c, tasks, running, peer, taken, handled) /\ Sound(c)
  BY <1>2 DEF ConnInv, InputSound, WholeRead, Sound
<1>7. FlowStep
  BY <1>2, <1>4, QuietFlow DEF InternalWorker
<1> QED
  BY <1>4, <1>5, <1>6, <1>7 DEF ConnInv, InternalWorker

LEMMA InternalSendPreserves == ConnInv /\ InternalSend => ConnInv' /\ FlowStep
<1> SUFFICES ASSUME ConnInv, InternalSend PROVE ConnInv' /\ FlowStep
  OBVIOUS
<1>1. conn \in Connections /\ conn.write = "none" /\ conn.queue # <<>> /\ io = "encoding"
  BY DEF InternalSend, ConnInv, Sound, OutputSound
<1>2. conn' = [conn EXCEPT !.armed = conn.armed \union {"write"}, !.write = EndOf(conn)]
  BY <1>1 DEF InternalSend, Connections
<1>3. EndOf(conn) \in {"pending", "error"} /\ conn.armed \union {"write"} \in SUBSET Timers
  BY <1>1 DEF EndOf, Connections, Timers
<1>4. /\ conn' \in Connections /\ conn'.queue = conn.queue /\ conn'.state = conn.state
      /\ conn'.socket = conn.socket /\ conn'.reads = conn.reads /\ conn'.msg = conn.msg
      /\ conn'.write = EndOf(conn)
  BY <1>1, <1>2, <1>3 DEF Connections
<1>5. OutputSound(conn', "idle", sent, written)
  BY <1>1, <1>3, <1>4 DEF ConnInv, OutputSound, Done
<1>6. InputSound(conn', tasks, running, peer, taken, handled) /\ Sound(conn')
  BY <1>4 DEF ConnInv, InputSound, WholeRead, Sound
<1>7. FlowStep
  BY <1>4, QuietFlow DEF InternalSend
<1> QED
  BY <1>5, <1>6, <1>7 DEF ConnInv, InternalSend

\* What was written leaves the queue; after an error the whole queue is given up.
LEMMA OnWriteOperationPreserves == ConnInv /\ OnWriteOperation => ConnInv' /\ FlowStep
<1> SUFFICES ASSUME ConnInv, OnWriteOperation PROVE ConnInv' /\ FlowStep
  OBVIOUS
<1> USE ConnectionAssumption
<1>1. conn \in Connections /\ conn.write \in {"ok", "error"} /\ conn.queue # <<>> /\ io = "idle"
  BY DEF OnWriteOperation, ConnInv, Sound, OutputSound
<1>2. UNCHANGED <<running, release, peer, taken, handled, sent, written>>
  BY DEF OnWriteOperation
<1>3. conn.queue \in Seq(1..MaxOutputs) /\ Len(conn.queue) \in Nat /\ Len(conn.queue) > 0
      /\ Len(written) \in Nat /\ sent \in Nat
  BY <1>1 DEF Connections, ConnInv, OutputSound
<1> DEFINE c == [conn EXCEPT !.write = "none", !.armed = conn.armed \ {"write"}]
           lost == [c EXCEPT !.queue = <<>>]
           next == [c EXCEPT !.queue = Tail(conn.queue)]
<1>4. /\ c \in Connections /\ c.queue = conn.queue /\ c.state = conn.state /\ c.socket = conn.socket
      /\ c.reads = conn.reads /\ c.msg = conn.msg /\ c.write = "none"
  BY <1>1 DEF Connections
<1>5. \/ conn.write = "error" /\ Becomes(Close(lost, TRUE)) /\ UNCHANGED io
      \/ conn.write = "ok" /\ Continue(next) /\ UNCHANGED tasks
  BY <1>1, <1>4 DEF OnWriteOperation, Connections
<1> HIDE DEF c
<1>6. CASE conn.write = "error" /\ Becomes(Close(lost, TRUE)) /\ UNCHANGED io
  <2> DEFINE d == Close(lost, TRUE)
  <2>1. /\ lost \in Connections /\ lost.queue = <<>> /\ lost.state = conn.state /\ lost.socket = conn.socket
        /\ lost.reads = conn.reads /\ lost.msg = conn.msg /\ lost.write = "none"
    <3>1. <<>> \in Seq(1..MaxOutputs)
      OBVIOUS
    <3> QED
      BY <3>1, <1>4 DEF Connections
  <2> HIDE DEF lost
  <2>2. Sound(lost) /\ InputSound(lost, tasks, running, peer, taken, handled)
    BY <2>1 DEF ConnInv, Sound, InputSound, WholeRead
  <2>3. Follows(lost, d) /\ d.state = "closed"
    BY <2>2, CloseFollows
  <2>4. conn' = d /\ tasks' \in Seq(Tasks) /\ SameParsing(tasks', tasks)
    BY <1>6, ReleaseQueued DEF Becomes, ConnInv, InputSound
  <2> HIDE DEF d
  <2>5. InputSound(d, tasks', running, peer, taken, handled) /\ Sound(d)
    BY <2>2, <2>3, <2>4, InputKept DEF Follows
  <2>6. d.queue = <<>> /\ d.write = "none" /\ Len(d.queue) = 0
    BY <2>1, <2>3 DEF Follows
  <2>7. Len(written) + Len(d.queue) - Done(d) <= sent
    <3>1. Len(written) + Len(conn.queue) <= sent
      BY <1>3, <1>6 DEF ConnInv, OutputSound, Done
    <3>2. Done(d) = 0
      BY <2>6 DEF Done
    <3> QED
      BY <3>1, <3>2, <2>6, <1>3
  <2>8. OutputSound(d, "idle", sent, written)
    BY <2>3, <2>6, <2>7 DEF ConnInv, OutputSound
  <2>9. FlowStep
    BY <1>2, <2>3, <2>4, QuietFlow
  <2> QED
    BY <1>1, <1>2, <1>6, <2>4, <2>5, <2>8, <2>9 DEF ConnInv
<1>7. CASE conn.write = "ok" /\ Continue(next) /\ UNCHANGED tasks
  <2>1. Tail(conn.queue) \in Seq(1..MaxOutputs) /\ Len(Tail(conn.queue)) = Len(conn.queue) - 1
        /\ \A k \in 1..Len(Tail(conn.queue)) : Tail(conn.queue)[k] = conn.queue[k + 1]
    BY <1>1, <1>3, TailFacts
  <2>2. /\ next \in Connections /\ next.queue = Tail(conn.queue) /\ next.state = conn.state
        /\ next.socket = conn.socket /\ next.reads = conn.reads /\ next.msg = conn.msg /\ next.write = "none"
    BY <1>4, <2>1 DEF Connections
  <2> HIDE DEF next
  <2>3. Sound(next) /\ InputSound(next, tasks, running, peer, taken, handled)
    BY <2>2 DEF ConnInv, Sound, InputSound, WholeRead
  <2>4. Done(conn) = 1 /\ Done(next) = 0
    BY <1>7, <2>2 DEF Done
  <2>5. /\ Len(written) + Len(next.queue) - Done(next) <= sent
        /\ next.state # "closed" => Len(written) + Len(next.queue) - Done(next) = sent
    <3>1. /\ Len(written) + Len(conn.queue) - 1 <= sent
          /\ conn.state # "closed" => Len(written) + Len(conn.queue) - 1 = sent
      BY <2>4 DEF ConnInv, OutputSound
    <3> QED
      BY <3>1, <2>1, <2>2, <2>4, <1>3
  <2>6. \A k \in 1..Len(next.queue) : next.queue[k] = Len(written) - Done(next) + k
    <3> SUFFICES ASSUME NEW k \in 1..Len(next.queue)
                 PROVE  next.queue[k] = Len(written) - Done(next) + k
      OBVIOUS
    <3>1. next.queue[k] = conn.queue[k + 1] /\ k + 1 \in 1..Len(conn.queue)
      BY <2>1, <2>2, <1>3
    <3>2. conn.queue[k + 1] = Len(written) - 1 + (k + 1)
      BY <3>1, <2>4 DEF ConnInv, OutputSound
    <3> QED
      BY <3>1, <3>2, <2>4, <1>3
  <2>7. sent \in 0..MaxOutputs /\ written \in Seq(1..MaxOutputs)
    BY DEF ConnInv, OutputSound
  <2>8. CASE next.queue # <<>>
    <3>1. conn' = next /\ io' = "encoding"
      BY <1>7, <2>8 DEF Continue
    <3>2. OutputSound(next, "encoding", sent, written)
      BY <2>2, <2>5, <2>6, <2>7, <2>8 DEF OutputSound
    <3>3. FlowStep
      BY <1>2, <2>2, <3>1, QuietFlow
    <3> QED
      BY <1>2, <1>7, <2>3, <3>1, <3>2, <3>3 DEF ConnInv
  <2>9. CASE next.queue = <<>>
    <3>1. io' = "idle" /\ conn' = IF next.state = "closed" THEN CloseSocket(next) ELSE next
      BY <1>7, <2>9 DEF Continue
    <3>2. OutputSound(next, "idle", sent, written)
      BY <2>2, <2>5, <2>6, <2>7, <2>9 DEF OutputSound
    <3>3. Follows(next, conn')
      <4>1. CASE next.state = "closed"
        <5> DEFINE d == CloseSocket(next)
        <5>1. Alike(next, d) /\ d.state = "closed"
          BY <4>1, <2>2, CloseSocketAlike
        <5> HIDE DEF d
        <5>2. Sound(d)
          BY <5>1 DEF Alike, Sound
        <5>3. Follows(next, d)
          BY <2>2, <5>1, <5>2, AlikeFollows
        <5> QED
          BY <3>1, <4>1, <5>3 DEF d
      <4>2. CASE next.state # "closed"
        <5>1. Alike(next, next)
          BY <2>2, AlikeSelf
        <5> QED
          BY <3>1, <4>2, <5>1, <2>2, <2>3, AlikeFollows
      <4> QED
        BY <4>1, <4>2
    <3>4. OutputSound(conn', "idle", sent, written)
      BY <3>2, <3>3, OutputKept
    <3>5. SameParsing(tasks, tasks) /\ tasks \in Seq(Tasks)
      BY DEF SameParsing, ConnInv, InputSound
    <3>6. InputSound(conn', tasks, running, peer, taken, handled) /\ Sound(conn')
      BY <2>3, <3>3, <3>5, InputKept DEF Follows
    <3>7. FlowStep
      BY <1>2, <2>2, <3>3, QuietFlow DEF Follows
    <3> QED
      BY <1>2, <1>7, <3>1, <3>4, <3>6, <3>7 DEF ConnInv
  <2> QED
    BY <2>8, <2>9
<1> QED
  BY <1>5, <1>6, <1>7

LEMMA WriteCompletesPreserves == ConnInv /\ WriteCompletes => ConnInv' /\ FlowStep
<1> SUFFICES ASSUME ConnInv, WriteCompletes PROVE ConnInv' /\ FlowStep
  OBVIOUS
<1> USE ConnectionAssumption
<1>1. conn \in Connections /\ conn.write = "pending" /\ conn.queue # <<>> /\ io # "encoding" /\ Done(conn) = 0
  BY DEF WriteCompletes, ConnInv, Sound, OutputSound, Done
<1>2. UNCHANGED <<io, tasks, running, release, peer, taken, handled, sent>>
  BY DEF WriteCompletes
<1>3. conn.queue \in Seq(1..MaxOutputs) /\ Len(conn.queue) \in Nat /\ Len(conn.queue) > 0
      /\ written \in Seq(1..MaxOutputs) /\ Len(written) \in Nat /\ sent \in Nat
  BY <1>1 DEF Connections, ConnInv, OutputSound
<1>4. CASE conn' = [conn EXCEPT !.write = "ok"] /\ written' = Append(written, Head(conn.queue))
  <2>1. /\ conn' \in Connections /\ conn'.queue = conn.queue /\ conn'.state = conn.state
        /\ conn'.socket = conn.socket /\ conn'.reads = conn.reads /\ conn'.msg = conn.msg /\ conn'.write = "ok"
    BY <1>1, <1>4 DEF Connections
  <2>2. Head(conn.queue) = conn.queue[1] /\ 1 \in 1..Len(conn.queue) /\ Head(conn.queue) \in 1..MaxOutputs
    BY <1>3
  <2>3. Head(conn.queue) = Len(written) + 1
    BY <2>2, <1>1, <1>3 DEF ConnInv, OutputSound
  <2>4. written' \in Seq(1..MaxOutputs) /\ Len(written') = Len(written) + 1
    BY <1>3, <1>4, <2>2
  <2>5. Done(conn') = 1
    BY <2>1 DEF Done
  <2>6. /\ Len(written') + Len(conn'.queue) - Done(conn') <= sent
        /\ conn'.state # "closed" => Len(written') + Len(conn'.queue) - Done(conn') = sent
    <3>1. /\ Len(written) + Len(conn.queue) <= sent
          /\ conn.state # "closed" => Len(written) + Len(conn.queue) = sent
      BY <1>1, <1>3 DEF ConnInv, OutputSound
    <3>2. Len(written') + Len(conn'.queue) - Done(conn') = Len(written) + Len(conn.queue)
      <4>1. Len(conn'.queue) = Len(conn.queue)
        BY <2>1
      <4>2. \A m, n \in Nat : (m + 1) + n - 1 = m + n
        OBVIOUS
      <4> QED
        BY <4>1, <4>2, <2>4, <2>5, <1>3
    <3> QED
      BY <3>1, <3>2, <2>1
  <2>7. \A k \in 1..Len(conn'.queue) : conn'.queue[k] = Len(written') - Done(conn') + k
    <3> SUFFICES ASSUME NEW k \in 1..Len(conn.queue)
                 PROVE  conn.queue[k] = Len(written') - Done(conn') + k
      BY <2>1
    <3>1. conn.queue[k] = Len(written) + k
      BY <1>1, <1>3 DEF ConnInv, OutputSound
    <3> QED
      BY <3>1, <2>4, <2>5, <1>3
  <2>8. OutputSound(conn', io, sent, written')
    BY <1>1, <2>1, <2>4, <2>6, <2>7 DEF ConnInv, OutputSound
  <2>9. InputSound(conn', tasks, running, peer, taken, handled) /\ Sound(conn')
    BY <2>1 DEF ConnInv, InputSound, WholeRead, Sound
  <2>10. FlowStep
    <3>1. Len(written) < sent
      <4>1. Len(written) + Len(conn.queue) <= sent
        BY <1>1, <1>3 DEF ConnInv, OutputSound
      <4> QED
        BY <4>1, <1>3
    <3> QED
      BY <3>1, <2>1, <2>3, <1>2, <1>4 DEF FlowStep, Flow!FlowNext, Flow!Deliver, Flow!flowVars
  <2> QED
    BY <1>2, <2>8, <2>9, <2>10 DEF ConnInv
<1>5. CASE conn' = [Aborted(conn) EXCEPT !.socket = "down"] /\ UNCHANGED written
  <2> DEFINE a == Aborted(conn)
  <2>1. Alike(conn, a) /\ a.state = conn.state /\ a \in Connections
    BY <1>1, AbortedAlike DEF Alike
  <2>2. conn' = [a EXCEPT !.socket = "down"]
    BY <1>5
  <2> HIDE DEF a
  <2>3. conn' \in Connections /\ conn'.socket = "down" /\ conn'.reads = a.reads /\ conn'.queue = a.queue
        /\ conn'.msg = a.msg /\ conn'.write = a.write /\ conn'.protocol = a.protocol /\ conn'.state = a.state
    BY <2>1, <2>2 DEF Connections
  <2>4. Alike(conn, conn') /\ Sound(conn')
    BY <2>1, <2>3 DEF Alike, Sound
  <2>5. Follows(conn, conn')
    BY <1>1, <2>1, <2>3, <2>4, AlikeFollows
  <2>6. tasks' \in Seq(Tasks) /\ SameParsing(tasks', tasks)
    BY <1>2 DEF ConnInv, InputSound, SameParsing
  <2> QED
    BY <2>5, <2>6, <1>2, <1>5, FollowsPreserves DEF ConnInv
<1> QED
  BY <1>4, <1>5 DEF WriteCompletes

----------------------------------------------------------------------------
(* Packets.                                                                  *)

\* Whatever is read into m_msg, no task refers to it.
LEMMA ReadCompletesPreserves == ConnInv /\ ReadCompletes => ConnInv' /\ FlowStep
<1> SUFFICES ASSUME ConnInv, ReadCompletes PROVE ConnInv' /\ FlowStep
  OBVIOUS
<1> USE ConnectionAssumption
<1>1. PICK i \in DOMAIN conn.reads, end \in {"ok", "error"} :
        LET whole == end = "ok" /\ conn.reads[i].op = "body"
        IN /\ conn.reads[i].end = "pending"
           /\ end = "ok" => peer < MaxPackets
           /\ peer' = IF whole THEN peer + 1 ELSE peer
           /\ conn' = [conn EXCEPT !.reads[i].end = end, !.msg = IF whole THEN peer + 1 ELSE 0]
  BY DEF ReadCompletes
<1>2. i = 1 /\ Len(conn.reads) = 1
  BY HandlerFollows
<1>3. conn \in Connections /\ conn.reads \in Seq(Read) /\ conn.reads[1] \in Read
  <2>1. conn \in Connections /\ conn.reads \in Seq(Read)
    BY DEF ConnInv, Sound, Connections, Read
  <2> QED
    BY <2>1, <1>2
<1> DEFINE whole == end = "ok" /\ conn.reads[1].op = "body"
           msg == IF whole THEN peer + 1 ELSE 0
           rs == [conn.reads EXCEPT ![1] = [conn.reads[1] EXCEPT !.end = end]]
<1>4. conn' = [conn EXCEPT !.reads = rs, !.msg = msg]
  BY <1>1, <1>2, <1>3 DEF Connections
<1>5. peer \in Nat /\ msg \in 0..MaxPackets /\ peer' \in 0..MaxPackets /\ peer' = IF whole THEN msg ELSE peer
  BY <1>1, <1>2 DEF ConnInv, InputSound
<1>6. rs \in Seq(Read) /\ Len(rs) = 1 /\ rs[1].op = conn.reads[1].op /\ rs[1].end = end
  <2>1. [conn.reads[1] EXCEPT !.end = end] = [op |-> conn.reads[1].op, end |-> end]
    BY <1>3 DEF Read
  <2>2. [op |-> conn.reads[1].op, end |-> end] \in Read
    BY <1>3 DEF Read
  <2> QED
    BY <2>1, <2>2, <1>2, <1>3
<1>7. (whole => msg = peer + 1) /\ (~whole => ~(rs[1].op = "body" /\ rs[1].end = "ok"))
  BY <1>6
<1> HIDE DEF whole, msg, rs
<1>8. /\ conn' \in Connections /\ conn'.reads = rs /\ conn'.msg = msg /\ conn'.queue = conn.queue
      /\ conn'.state = conn.state /\ conn'.socket = conn.socket /\ conn'.write = conn.write
  BY <1>3, <1>4, <1>5, <1>6 DEF Connections, Read
<1>9. UNCHANGED <<io, tasks, running, release, taken, handled, sent, written>>
  BY DEF ReadCompletes
<1>10. Parsing(tasks) = {} /\ running = NoTask
  BY <1>2 DEF ConnInv, InputSound
<1>11. WholeRead(conn') => conn'.msg = peer' /\ peer' # 0 /\ \A k \in DOMAIN taken : taken[k] < peer'
  <2> SUFFICES ASSUME WholeRead(conn')
               PROVE  conn'.msg = peer' /\ peer' # 0 /\ \A k \in DOMAIN taken : taken[k] < peer'
    OBVIOUS
  <2>1. msg = peer + 1 /\ peer' = peer + 1
    BY <1>5, <1>7, <1>8 DEF WholeRead
  <2>2. \A k \in DOMAIN taken : taken[k] \in Nat /\ taken[k] <= peer
    BY DEF ConnInv, InputSound
  <2> QED
    BY <2>1, <2>2, <1>5, <1>8
<1>12. \A k \in DOMAIN taken : taken[k] <= peer'
  <2>1. \A k \in DOMAIN taken : taken[k] \in Nat /\ taken[k] <= peer
    BY DEF ConnInv, InputSound
  <2>2. peer' = peer \/ peer' = peer + 1
    BY <1>5, <1>7
  <2> QED
    BY <2>1, <2>2, <1>5
<1>13. InputSound(conn', tasks, running, peer', taken, handled)
  <2>1. Len(conn'.reads) <= 1
    <3>1. Len(conn'.reads) = 1
      BY <1>6, <1>8
    <3> QED
      BY <3>1, 1 <= 1
  <2>2. Parsing(tasks) = {} => Len(taken) = Len(handled) \/ (conn'.state = "closed" /\ Len(taken) = Len(handled) + 1)
    BY <1>8 DEF ConnInv, InputSound
  <2>3. /\ tasks \in Seq(Tasks) /\ running \in {NoTask, "parse"}
        /\ taken \in Seq(1..MaxPackets) /\ handled \in Seq(1..MaxPackets)
        /\ \A i1, i2 \in Parsing(tasks) : i1 = i2
    BY DEF ConnInv, InputSound
  <2> QED
    BY <1>5, <1>10, <1>11, <1>12, <2>1, <2>2, <2>3 DEF InputSound
<1>14. OutputSound(conn', io, sent, written) /\ Sound(conn')
  BY <1>8 DEF ConnInv, OutputSound, Done, Sound
<1>15. FlowStep
  BY <1>8, <1>9, QuietFlow
<1> QED
  BY <1>9, <1>13, <1>14, <1>15 DEF ConnInv

\* One task fewer.
LEMMA TaskTaken ==
  ASSUME NEW ts \in Seq(Tasks), ts # <<>>
  PROVE  /\ Tail(ts) \in Seq(Tasks)
         /\ Head(ts) # "parse" => SameParsing(Tail(ts), ts)
         /\ Head(ts) = "parse" =>
              /\ Parsing(ts) # {}
              /\ (\A i, j \in Parsing(ts) : i = j) => Parsing(Tail(ts)) = {}
<1>1. /\ Tail(ts) \in Seq(Tasks) /\ Len(Tail(ts)) = Len(ts) - 1
      /\ \A k \in 1..Len(Tail(ts)) : k + 1 \in 1..Len(ts) /\ Tail(ts)[k] = ts[k + 1]
      /\ Len(ts) \in Nat /\ Len(ts) > 0 /\ Head(ts) = ts[1]
  BY TailFacts
<1>2. DOMAIN ts = 1..Len(ts) /\ DOMAIN Tail(ts) = 1..Len(Tail(ts)) /\ Len(Tail(ts)) \in Nat
  BY <1>1
<1>3. \A k \in Parsing(Tail(ts)) : k \in Nat /\ k > 0 /\ k + 1 \in Parsing(ts)
  BY <1>1, <1>2 DEF Parsing
<1>4. \A k \in Parsing(ts) : k \in Nat /\ (k = 1 \/ k - 1 \in Parsing(Tail(ts)))
  <2> SUFFICES ASSUME NEW k \in Parsing(ts), k # 1
               PROVE  k \in Nat /\ k - 1 \in Parsing(Tail(ts))
    BY <1>1, <1>2 DEF Parsing
  <2>1. k \in 1..Len(ts) /\ ts[k] = "parse"
    BY <1>2 DEF Parsing
  <2>2. k - 1 \in 1..Len(Tail(ts)) /\ (k - 1) + 1 = k
    BY <2>1, <1>1
  <2>3. Tail(ts)[k - 1] = ts[k]
    BY <2>2, <1>1
  <2> QED
    BY <2>1, <2>2, <2>3, <1>2 DEF Parsing
<1>5. 1 \in Parsing(ts) <=> Head(ts) = "parse"
  BY <1>1, <1>2 DEF Parsing
<1>6. ASSUME Head(ts) # "parse" PROVE SameParsing(Tail(ts), ts)
  <2>1. Parsing(Tail(ts)) = {} <=> Parsing(ts) = {}
    BY <1>3, <1>4, <1>5, <1>6
  <2>2. ASSUME \A i, j \in Parsing(ts) : i = j, NEW i \in Parsing(Tail(ts)), NEW j \in Parsing(Tail(ts))
        PROVE  i = j
    <3>1. i + 1 = j + 1 /\ i \in Nat /\ j \in Nat
      BY <1>3, <2>2
    <3> QED
      BY <3>1
  <2> QED
    BY <2>1, <2>2 DEF SameParsing
<1>7. ASSUME Head(ts) = "parse", \A i, j \in Parsing(ts) : i = j PROVE Parsing(Tail(ts)) = {}
  <2> SUFFICES ASSUME NEW k \in Parsing(Tail(ts)) PROVE FALSE
    OBVIOUS
  <2>1. k + 1 = 1 /\ k \in Nat /\ k > 0
    BY <1>3, <1>5, <1>7
  <2> QED
    BY <2>1
<1> QED
  BY <1>1, <1>5, <1>6, <1>7

\* A packet is handed over: m_msg belongs to its task from here.
LEMMA QueuePacketPreserves == ConnInv /\ QueuePacket => ConnInv' /\ FlowStep
<1> SUFFICES ASSUME ConnInv, QueuePacket PROVE ConnInv' /\ FlowStep
  OBVIOUS
<1> USE ConnectionAssumption
<1>1. PICK i \in Completed("body") : conn.reads[i].end = "ok" /\ conn' = InHandler(i)
  BY DEF QueuePacket
<1>2. i = 1 /\ Len(conn.reads) = 1 /\ Follows(conn, conn') /\ conn'.reads = <<>> /\ conn'.state = conn.state
  BY <1>1, HandlerFollows DEF Completed
<1>3. WholeRead(conn)
  BY <1>1, <1>2 DEF WholeRead, Completed
<1>4. /\ Parsing(tasks) = {} /\ running = NoTask /\ conn.state # "closed" /\ Len(taken) = Len(handled)
      /\ conn.msg = peer /\ peer \in 1..MaxPackets /\ \A k \in DOMAIN taken : taken[k] < peer
  BY <1>2, <1>3 DEF ConnInv, InputSound, QueuePacket
<1>5. tasks' = Append(tasks, "parse") /\ taken' = Append(taken, peer) /\ io = "idle" /\ io' = "queued"
      /\ UNCHANGED <<running, release, peer, handled, sent, written>>
  BY <1>4 DEF QueuePacket
<1>6. tasks \in Seq(Tasks) /\ taken \in Seq(1..MaxPackets) /\ Len(tasks) \in Nat /\ Len(taken) \in Nat
  BY DEF ConnInv, InputSound
<1>7. /\ tasks' \in Seq(Tasks) /\ Len(tasks') = Len(tasks) + 1 /\ tasks'[Len(tasks) + 1] = "parse"
      /\ \A k \in 1..Len(tasks) : tasks'[k] = tasks[k]
  <2>1. "parse" \in Tasks
    BY DEF Tasks
  <2> QED
    BY <2>1, <1>5, <1>6
<1>8. \A k : k \in Parsing(tasks') <=> k = Len(tasks) + 1
  <2>1. DOMAIN tasks' = 1..Len(tasks') /\ DOMAIN tasks = 1..Len(tasks)
    BY <1>6, <1>7
  <2>2. \A k \in 1..Len(tasks) : tasks[k] # "parse"
    BY <2>1, <1>4 DEF Parsing
  <2> QED
    BY <2>1, <2>2, <1>6, <1>7 DEF Parsing
<1>9. /\ taken' \in Seq(1..MaxPackets) /\ Len(taken') = Len(taken) + 1 /\ taken'[Len(taken) + 1] = peer
      /\ \A k \in DOMAIN taken' : taken'[k] <= peer
  <2>1. taken' \in Seq(1..MaxPackets) /\ Len(taken') = Len(taken) + 1 /\ taken'[Len(taken) + 1] = peer
        /\ \A k \in 1..Len(taken) : taken'[k] = taken[k]
    BY <1>4, <1>5, <1>6
  <2>2. DOMAIN taken' = 1..Len(taken') /\ DOMAIN taken = 1..Len(taken)
    BY <2>1, <1>6
  <2>3. \A k \in 1..Len(taken) : taken'[k] <= peer
    <3>1. \A k \in 1..Len(taken) : taken[k] \in Nat /\ taken[k] < peer
      BY <2>2, <1>4, <1>6
    <3> QED
      BY <3>1, <2>1, <1>4
  <2> QED
    BY <2>1, <2>2, <2>3, <1>4, <1>6
<1>10. conn'.msg = peer /\ ~WholeRead(conn') /\ Len(conn'.reads) = 0
  BY <1>2, <1>4 DEF Follows, WholeRead
<1>11. InputSound(conn', tasks', running, peer, taken', handled)
  <2>1. /\ \A i1, i2 \in Parsing(tasks') : i1 = i2
        /\ Parsing(tasks') # {}
    BY <1>8
  <2>2. conn'.msg # 0 /\ Len(taken') = Len(handled) + 1 /\ taken'[Len(taken')] = conn'.msg
    BY <1>4, <1>9, <1>10
  <2>3. Len(conn'.reads) <= 1 /\ Len(conn'.reads) # 1
    BY <1>10, 0 <= 1
  <2>4. peer \in 0..MaxPackets /\ handled \in Seq(1..MaxPackets)
    BY DEF ConnInv, InputSound
  <2> QED
    BY <2>1, <2>2, <2>3, <2>4, <1>4, <1>7, <1>9, <1>10 DEF InputSound, NoTask
<1>12. OutputSound(conn', io', sent, written)
  BY <1>2, <1>5, OutputKept DEF ConnInv
<1>13. FlowStep
  <2>1. Flow!Take
    BY <1>2, <1>4, <1>5 DEF Flow!Take
  <2> QED
    BY <2>1 DEF FlowStep, Flow!FlowNext
<1> QED
  BY <1>2, <1>5, <1>11, <1>12, <1>13 DEF ConnInv, Follows

\* The task of a packet finds the packet it was queued for.
LEMMA ParsePacketBeginsPreserves == ConnInv /\ ParsePacketBegins => ConnInv' /\ FlowStep
<1> SUFFICES ASSUME ConnInv, ParsePacketBegins PROVE ConnInv' /\ FlowStep
  OBVIOUS
<1> USE ConnectionAssumption
<1>1. /\ running = NoTask /\ tasks # <<>> /\ Head(tasks) = "parse" /\ tasks' = Tail(tasks)
      /\ UNCHANGED <<conn, io, release, peer, taken, sent, written>>
  BY DEF ParsePacketBegins
<1>2. tasks \in Seq(Tasks) /\ (\A i, j \in Parsing(tasks) : i = j)
  BY DEF ConnInv, InputSound
<1>3. tasks' \in Seq(Tasks) /\ Parsing(tasks') = {} /\ Parsing(tasks) # {}
  BY <1>1, <1>2, TaskTaken
<1>4. /\ Len(conn.reads) # 1 /\ Len(conn.reads) <= 1
      /\ conn.msg # 0 /\ Len(taken) = Len(handled) + 1 /\ taken[Len(taken)] = conn.msg
  BY <1>3 DEF ConnInv, InputSound
<1>5. handled \in Seq(1..MaxPackets) /\ Len(handled) \in Nat /\ conn.msg \in 1..MaxPackets
  BY <1>4 DEF ConnInv, InputSound, Sound, Connections
<1>6. CASE Alive /\ running' = "parse" /\ handled' = Append(handled, conn.msg)
  <2>1. handled' \in Seq(1..MaxPackets) /\ Len(handled') = Len(handled) + 1
    BY <1>5, <1>6
  <2>2. InputSound(conn, tasks', running', peer, taken, handled')
    BY <2>1, <1>3, <1>4, <1>6 DEF ConnInv, InputSound, WholeRead
  <2>3. Flow!Handle
    BY <1>1, <1>4, <1>5, <1>6 DEF Flow!Handle
  <2> QED
    BY <2>2, <2>3, <1>1 DEF ConnInv, FlowStep, Flow!FlowNext
<1>7. CASE ~Alive /\ UNCHANGED <<running, handled>>
  <2>1. conn.state = "closed"
    BY <1>7 DEF Alive
  <2>2. InputSound(conn, tasks', running, peer, taken, handled)
    BY <2>1, <1>1, <1>3, <1>4 DEF ConnInv, InputSound, WholeRead
  <2>3. FlowStep
    BY <1>1, <1>7, QuietFlow
  <2> QED
    BY <2>2, <2>3, <1>1, <1>7 DEF ConnInv
<1> QED
  BY <1>6, <1>7 DEF ParsePacketBegins

\* The only other place that reads; while the task ran nothing was being read.
LEMMA ResumeWorkPreserves == ConnInv /\ ResumeWork => ConnInv' /\ FlowStep
<1> SUFFICES ASSUME ConnInv, ResumeWork PROVE ConnInv' /\ FlowStep
  OBVIOUS
<1>1. /\ running = "parse" /\ conn' = StartRead(conn, "header") /\ running' = NoTask
      /\ UNCHANGED <<io, tasks, release, peer, taken, handled, sent, written>>
  BY DEF ResumeWork
<1>2. conn \in Connections /\ conn.reads \in Seq(Read)
  BY DEF ConnInv, Sound, Connections, Read
<1>3. Len(conn.reads) <= 1 /\ Len(conn.reads) # 1 /\ Parsing(tasks) = {}
  BY <1>1 DEF ConnInv, InputSound, NoTask
<1>4. conn.reads = <<>>
  BY <1>2, <1>3, ShortSequence
<1>5. /\ conn' \in Connections /\ conn'.queue = conn.queue /\ conn'.write = conn.write /\ conn'.msg = conn.msg
      /\ conn'.state = conn.state /\ conn'.socket = conn.socket
      /\ Len(conn'.reads) = 1 /\ conn'.reads[1].end # "ok"
  BY <1>1, <1>2, <1>4, StartReadFacts DEF ReadOps
<1>6. ~WholeRead(conn') /\ Len(conn'.reads) <= 1
  <2>1. ~WholeRead(conn')
    BY <1>5 DEF WholeRead
  <2> QED
    BY <2>1, <1>5, 1 <= 1
<1>7. InputSound(conn', tasks, running', peer, taken, handled)
  BY <1>1, <1>3, <1>5, <1>6 DEF ConnInv, InputSound, NoTask
<1>8. OutputSound(conn', io, sent, written) /\ Sound(conn')
  BY <1>5 DEF ConnInv, OutputSound, Done, Sound
<1>9. FlowStep
  BY <1>1, <1>5, QuietFlow
<1> QED
  BY <1>1, <1>7, <1>8, <1>9 DEF ConnInv

LEMMA ExecuteTaskPreserves == ConnInv /\ ExecuteTask => ConnInv' /\ FlowStep
<1> SUFFICES ASSUME ConnInv, ExecuteTask PROVE ConnInv' /\ FlowStep
  OBVIOUS
<1>1. PICK expired \in BOOLEAN :
        LET challenged == Head(tasks) = "challenge" /\ ~expired /\ Alive /\ sent < MaxOutputs
            d == IF challenged THEN Send(conn, sent + 1) ELSE conn
        IN /\ conn' = d
           /\ sent' = IF challenged /\ Accepts(conn) THEN sent + 1 ELSE sent
           /\ tasks' = Tail(tasks) \o ReleaseOf(conn, d)
           /\ release' = IF Head(tasks) # "release" THEN release ELSE IF expired THEN "expired" ELSE "done"
  BY DEF ExecuteTask
<1>2. tasks \in Seq(Tasks) /\ tasks # <<>> /\ Head(tasks) # "parse"
      /\ UNCHANGED <<io, running, peer, taken, handled, written>>
  BY DEF ExecuteTask, ConnInv, InputSound
<1>3. Tail(tasks) \in Seq(Tasks) /\ SameParsing(Tail(tasks), tasks)
  BY <1>2, TaskTaken
<1>4. tasks' \in Seq(Tasks) /\ SameParsing(tasks', tasks)
  <2>1. tasks' \in Seq(Tasks) /\ SameParsing(tasks', Tail(tasks))
    BY <1>1, <1>3, ReleaseQueued
  <2> QED
    BY <2>1, <1>3 DEF SameParsing
<1>5. release' \in {"none", "done", "expired"}
  BY <1>1 DEF ConnInv
<1>6. CASE Accepts(conn) /\ sent < MaxOutputs /\ conn' = Send(conn, sent + 1) /\ sent' = sent + 1
  BY <1>2, <1>4, <1>5, <1>6, SendPreserves
<1>7. CASE conn' = conn /\ sent' = sent
  <2>1. InputSound(conn, tasks', running, peer, taken, handled)
    BY <1>4 DEF ConnInv, InputSound, SameParsing
  <2>2. FlowStep
    BY <1>2, <1>7, QuietFlow
  <2> QED
    BY <2>1, <2>2, <1>2, <1>5, <1>7 DEF ConnInv
<1> QED
  BY <1>1, <1>6, <1>7 DEF Send

----------------------------------------------------------------------------
(* The theorems.                                                             *)

LEMMA ConnInitially == ConnInit => ConnInv
<1> SUFFICES ASSUME ConnInit PROVE ConnInv
  OBVIOUS
<1> USE ConnectionAssumption
<1>1. PICK single \in BOOLEAN : conn = Fresh(single) /\ tasks = IF single THEN <<"challenge">> ELSE <<>>
  BY DEF ConnInit
<1>2. /\ io = "idle" /\ running = NoTask /\ release = "none" /\ peer = 0
      /\ taken = <<>> /\ handled = <<>> /\ sent = 0 /\ written = <<>>
  BY DEF ConnInit
<1> DEFINE first == IF single THEN "identification" ELSE "header"
<1>3. /\ conn.state \in {"identifying", "open"} /\ conn.socket = "open" /\ conn.protocol = single
      /\ conn.receivedFirst = FALSE /\ conn.msg = 0 /\ conn.reads = <<[op |-> first, end |-> "pending"]>>
      /\ conn.write = "none" /\ conn.queue = <<>> /\ conn.armed = {"read"} /\ conn.fired = {}
  BY <1>1 DEF Fresh
<1>4. conn.reads \in Seq(Read) /\ Len(conn.reads) = 1 /\ conn.reads[1].end = "pending"
  BY <1>3 DEF Read, ReadOps
<1>5. conn.queue \in Seq(1..MaxOutputs) /\ Len(conn.queue) = 0
  BY <1>3
<1>6. conn \in Connections
  <2>1. conn = [state |-> conn.state, socket |-> conn.socket, protocol |-> conn.protocol,
                receivedFirst |-> conn.receivedFirst, msg |-> conn.msg, reads |-> conn.reads,
                write |-> conn.write, queue |-> conn.queue, armed |-> conn.armed, fired |-> conn.fired]
    BY <1>1 DEF Fresh
  <2>2. /\ conn.state \in {"identifying", "readings", "open", "closed"}
        /\ conn.socket \in {"open", "down", "closed"}
        /\ conn.write \in {"none", "posted", "pending", "ok", "error"}
        /\ conn.armed \in SUBSET Timers /\ conn.fired \in SUBSET Timers
    BY <1>3 DEF Timers
  <2>3. conn.protocol \in BOOLEAN /\ conn.receivedFirst \in BOOLEAN
    BY <1>3, Zenon
  <2>4. conn.msg \in 0..MaxPackets
    BY <1>3
  <2> QED
    BY <2>1, <2>2, <2>3, <2>4, <1>4, <1>5 DEF Connections, Read
<1>7. tasks \in Seq(Tasks) /\ Parsing(tasks) = {}
  <2>1. CASE tasks = <<>>
    BY <2>1 DEF Parsing
  <2>2. CASE tasks = <<"challenge">>
    <3>1. "challenge" \in Tasks /\ "challenge" # "parse"
      BY DEF Tasks
    <3>2. tasks \in Seq(Tasks) /\ DOMAIN tasks = {1} /\ tasks[1] = "challenge"
      BY <2>2, <3>1
    <3> QED
      BY <3>1, <3>2 DEF Parsing
  <2> QED
    BY <1>1, <2>1, <2>2
<1>8. /\ taken \in Seq(1..MaxPackets) /\ handled \in Seq(1..MaxPackets) /\ DOMAIN taken = {}
      /\ written \in Seq(1..MaxOutputs)
      /\ Len(taken) = 0 /\ Len(handled) = 0 /\ Len(written) = 0
  BY <1>2
<1>9. ~WholeRead(conn)
  BY <1>4 DEF WholeRead
<1>10. InputSound(conn, tasks, running, peer, taken, handled)
  BY <1>2, <1>4, <1>7, <1>8, <1>9 DEF InputSound, NoTask
<1>11. OutputSound(conn, io, sent, written)
  BY <1>2, <1>3, <1>5, <1>8 DEF OutputSound, Done
<1> QED
  BY <1>2, <1>3, <1>6, <1>10, <1>11 DEF ConnInv, Sound

LEMMA ConnSteps == ConnInv /\ [ConnNext]_connVars => ConnInv' /\ FlowStep
<1> SUFFICES ASSUME ConnInv, [ConnNext]_connVars PROVE ConnInv' /\ FlowStep
  OBVIOUS
<1>1. CASE Reading
  BY <1>1, ParseHeaderPreserves, ParseProxyIdentificationPreserves, ParsePacketFailsPreserves,
     ParseFirstPacketPreserves, SkipPacketPreserves, QueuePacketPreserves, EndParsePacketPreserves DEF Reading
<1>2. CASE Writing
  BY <1>2, InternalWorkerPreserves, InternalSendPreserves, OnWriteOperationPreserves DEF Writing
<1>3. CASE HandleTimeout
  BY <1>3, HandleTimeoutPreserves
<1>4. CASE Dispatching
  BY <1>4, ExecuteTaskPreserves, ParsePacketBeginsPreserves, ResumeWorkPreserves DEF Dispatching
<1>5. CASE Game
  BY <1>5, ProtocolSendPreserves, DisconnectPreserves, CloseAllPreserves DEF Game
<1>6. CASE ReadCompletes \/ WriteCompletes \/ TimerExpires
  BY <1>6, ReadCompletesPreserves, WriteCompletesPreserves, TimerExpiresPreserves
<1>7. CASE UNCHANGED connVars
  <2>1. ConnInv'
    BY <1>7 DEF connVars, ConnInv
  <2>2. FlowStep
    BY <1>7, QuietFlow DEF connVars
  <2> QED
    BY <2>1, <2>2
<1> QED
  BY <1>1, <1>2, <1>3, <1>4, <1>5, <1>6, <1>7 DEF ConnNext

THEOREM ConnectionCorrect == ConnSpec => []ConnInv
<1>1. ConnInit => ConnInv
  BY ConnInitially
<1>2. ConnInv /\ [ConnNext]_connVars => ConnInv'
  BY ConnSteps
<1> QED
  BY <1>1, <1>2, PTL DEF ConnSpec

\* The object and its queues keep their types; in particular only whole
\* packets are handed over and handled.
THEOREM ConnTypeCorrect == ConnSpec => []ConnTypeOK
<1>1. ConnInv => ConnTypeOK
  BY DEF ConnInv, Sound, InputSound, OutputSound, ConnTypeOK
<1> QED
  BY <1>1, ConnectionCorrect, PTL

\* The task of a packet refers to m_msg, which is the connection's: nothing is
\* read into it before the task has called resumeWork, and no second task is
\* queued.
THEOREM OneUserOfTheBuffer == ConnSpec => []BufferHasOneUser
<1>1. ConnInv => BufferHasOneUser
  <2> SUFFICES ASSUME ConnInv PROVE BufferHasOneUser
    OBVIOUS
  <2>1. conn.reads \in Seq(Read) /\ Len(conn.reads) <= 1
    BY DEF ConnInv, Sound, InputSound, Connections, Read
  <2>2. conn.reads # <<>> => Len(conn.reads) = 1
    BY <2>1, ShortSequence
  <2>3. Queued("parse") = Parsing(tasks)
    BY DEF Queued, Parsing
  <2> QED
    BY <2>1, <2>2, <2>3 DEF ConnInv, InputSound, BufferHasOneUser
<1> QED
  BY <1>1, ConnectionCorrect, PTL

\* send posts a write only on an empty queue: one loop writes, and only as
\* long as something is queued, although a message is encoded without the lock.
THEOREM OneLoopWrites == ConnSpec => []OneWriteLoop
<1>1. ConnInv => OneWriteLoop
  BY DEF ConnInv, OutputSound, OneWriteLoop
<1> QED
  BY <1>1, ConnectionCorrect, PTL

\* A connection keeps what PacketFlow promises: packets are handled one at a
\* time and in order, and outputs reach the peer in order and at most once.
THEOREM ConnectionImplementsFlow == ConnSpec => FlowKept
<1>1. ConnInit => Flow!FlowInit
  <2> SUFFICES ASSUME ConnInit PROVE Flow!FlowInit
    OBVIOUS
  <2>1. conn.state # "closed"
    BY DEF ConnInit, Fresh
  <2> QED
    BY <2>1 DEF ConnInit, Flow!FlowInit
<1>2. ConnInv /\ [ConnNext]_connVars => [Flow!FlowNext]_(Flow!flowVars)
  BY ConnSteps DEF FlowStep
<1> QED
  BY <1>1, <1>2, ConnectionCorrect, PTL DEF ConnSpec, FlowKept, Flow!FlowSpec

----------------------------------------------------------------------------
(* The release of the protocol. The invariant says what ReleaseOwed counts:  *)
(* one task or its outcome, and never both.                                  *)

Releasing(ts) == {i \in DOMAIN ts : ts[i] = "release"}

Spent(c) == c.state = "closed" /\ c.protocol

Owed(c, ts, r) ==
  /\ \A i, j \in Releasing(ts) : i = j
  /\ r # "none" => Releasing(ts) = {}
  /\ r # "none" \/ Releasing(ts) # {} <=> Spent(c)

ReleaseInv == Owed(conn, tasks, release)

\* A closed connection stays closed and keeps its protocol.
Stays(c, d) == c.state = "closed" => d.state = "closed" /\ d.protocol = c.protocol

\* A step that may close: the first close queues the release.
LEMMA ReleaseAdded ==
  ASSUME NEW ts \in Seq(Tasks), NEW c, NEW d, NEW r, Owed(c, ts, r), Stays(c, d)
  PROVE  Owed(d, ts \o ReleaseOf(c, d), r)
<1>1. CASE Owes(c, d)
  <2> DEFINE us == ts \o <<"release">>
  <2>1. "release" \in Tasks /\ <<"release">> \in Seq(Tasks)
    BY DEF Tasks
  <2>2. us \in Seq(Tasks) /\ Len(us) = Len(ts) + 1 /\ us[Len(ts) + 1] = "release"
        /\ \A i \in 1..Len(ts) : us[i] = ts[i]
    BY <2>1
  <2>3. DOMAIN us = 1..Len(us) /\ DOMAIN ts = 1..Len(ts) /\ Len(ts) \in Nat
    BY <2>2
  <2>4. Releasing(ts) = {} /\ ~(r # "none") /\ Spent(d)
    BY <1>1 DEF Owed, Owes, Spent
  <2> HIDE DEF us
  <2>5. \A i : i \in Releasing(us) <=> i = Len(ts) + 1
    BY <2>2, <2>3, <2>4 DEF Releasing
  <2>6. Owed(d, us, r)
    BY <2>4, <2>5 DEF Owed
  <2> QED
    BY <1>1, <2>6 DEF us, ReleaseOf
<1>2. CASE ~Owes(c, d)
  <2>1. ts \o <<>> = ts
    OBVIOUS
  <2>2. Spent(d) <=> Spent(c)
    BY <1>2 DEF Stays, Spent, Owes
  <2> QED
    BY <1>2, <2>1, <2>2 DEF Owed, ReleaseOf
<1> QED
  BY <1>1, <1>2

LEMMA BecomesOwed ==
  ASSUME ConnInv, ReleaseInv, NEW d, Stays(conn, d), Becomes(d), UNCHANGED release
  PROVE  ReleaseInv'
<1>1. tasks \in Seq(Tasks)
  BY DEF ConnInv, InputSound
<1>2. Owed(d, tasks \o ReleaseOf(conn, d), release)
  BY <1>1, ReleaseAdded DEF ReleaseInv
<1> QED
  BY <1>2 DEF Becomes, ReleaseInv

\* A step that does not close.
LEMMA QuietOwed ==
  ASSUME ReleaseInv, UNCHANGED <<tasks, release>>, conn'.state = conn.state, conn'.protocol = conn.protocol
  PROVE  ReleaseInv'
  BY DEF ReleaseInv, Owed, Spent

\* A task fewer.
LEMMA ReleaseTaken ==
  ASSUME NEW ts \in Seq(Tasks), ts # <<>>, \A i, j \in Releasing(ts) : i = j
  PROVE  /\ \A i, j \in Releasing(Tail(ts)) : i = j
         /\ Head(ts) # "release" => (Releasing(Tail(ts)) = {} <=> Releasing(ts) = {})
         /\ Head(ts) = "release" => Releasing(ts) # {} /\ Releasing(Tail(ts)) = {}
<1>1. /\ Tail(ts) \in Seq(Tasks) /\ Len(Tail(ts)) = Len(ts) - 1
      /\ \A k \in 1..Len(Tail(ts)) : k + 1 \in 1..Len(ts) /\ Tail(ts)[k] = ts[k + 1]
      /\ Len(ts) \in Nat /\ Len(ts) > 0 /\ Head(ts) = ts[1]
  BY TailFacts
<1>2. DOMAIN ts = 1..Len(ts) /\ DOMAIN Tail(ts) = 1..Len(Tail(ts)) /\ Len(Tail(ts)) \in Nat
  BY <1>1
<1>3. \A k \in Releasing(Tail(ts)) : k \in Nat /\ k > 0 /\ k + 1 \in Releasing(ts)
  BY <1>1, <1>2 DEF Releasing
<1>4. \A k \in Releasing(ts) : k \in Nat /\ (k = 1 \/ k - 1 \in Releasing(Tail(ts)))
  <2> SUFFICES ASSUME NEW k \in Releasing(ts), k # 1
               PROVE  k \in Nat /\ k - 1 \in Releasing(Tail(ts))
    BY <1>1, <1>2 DEF Releasing
  <2>1. k \in 1..Len(ts) /\ ts[k] = "release"
    BY <1>2 DEF Releasing
  <2>2. k - 1 \in 1..Len(Tail(ts)) /\ (k - 1) + 1 = k
    BY <2>1, <1>1
  <2>3. Tail(ts)[k - 1] = ts[k]
    BY <2>2, <1>1
  <2> QED
    BY <2>1, <2>2, <2>3, <1>2 DEF Releasing
<1>5. 1 \in Releasing(ts) <=> Head(ts) = "release"
  BY <1>1, <1>2 DEF Releasing
<1>6. ASSUME NEW i \in Releasing(Tail(ts)), NEW j \in Releasing(Tail(ts)) PROVE i = j
  <2>1. i + 1 = j + 1 /\ i \in Nat /\ j \in Nat
    BY <1>3, <1>6
  <2> QED
    BY <2>1
<1>7. ASSUME Head(ts) = "release" PROVE Releasing(ts) # {} /\ Releasing(Tail(ts)) = {}
  <2> SUFFICES ASSUME NEW k \in Releasing(Tail(ts)) PROVE FALSE
    BY <1>5, <1>7
  <2>1. k + 1 = 1 /\ k \in Nat /\ k > 0
    BY <1>3, <1>5, <1>7
  <2> QED
    BY <2>1
<1>8. ASSUME Head(ts) # "release" PROVE Releasing(Tail(ts)) = {} <=> Releasing(ts) = {}
  BY <1>3, <1>4, <1>5, <1>8
<1> QED
  BY <1>6, <1>7, <1>8

\* Closing and reading again leave a closed connection as it is.
LEMMA CloseStays ==
  ASSUME NEW c \in Connections, NEW force \in BOOLEAN
  PROVE  /\ Close(c, force) \in Connections
         /\ Close(c, force).state = "closed" /\ Close(c, force).protocol = c.protocol
         /\ (c.reads = <<>> => Close(c, force).reads = <<>>)
<1> DEFINE d == Close(c, force)
<1>1. Alike(c, d) /\ d.state = "closed"
  BY CloseAlike
<1> HIDE DEF d
<1>2. d \in Connections /\ d.protocol = c.protocol /\ Len(d.reads) = Len(c.reads) /\ d.reads \in Seq(Read)
  BY <1>1 DEF Alike
<1>3. c.reads = <<>> => d.reads = <<>>
  BY <1>2
<1> QED
  BY <1>1, <1>2, <1>3 DEF d

LEMMA ReadStays ==
  ASSUME NEW c \in Connections, c.reads = <<>>, NEW first \in ReadOps
  PROVE  StartRead(c, first).state = c.state /\ StartRead(c, first).protocol = c.protocol
  BY StartReadFacts

LEMMA HeaderStays ==
  ASSUME NEW c \in Connections, c.reads = <<>>, NEW d \in HeaderOutcomes(c)
  PROVE  Stays(c, d)
<1>1. d = c \/ d = Close(c, FALSE) \/ d = Close(c, TRUE) \/ d = StartRead(c, "body")
  BY DEF HeaderOutcomes
<1>2. Stays(c, Close(c, FALSE)) /\ Stays(c, Close(c, TRUE))
  BY CloseStays DEF Stays
<1>3. Stays(c, StartRead(c, "body"))
  BY ReadStays DEF Stays, ReadOps
<1> QED
  BY <1>1, <1>2, <1>3 DEF Stays

\* What the handlers start from.
LEMMA InHandlerStays ==
  ASSUME ConnInv, NEW i \in DOMAIN conn.reads
  PROVE  /\ InHandler(i) \in Connections /\ InHandler(i).reads = <<>>
         /\ InHandler(i).protocol = conn.protocol /\ InHandler(i).state = conn.state
  BY HandlerFollows DEF Follows, Sound

LEMMA ReadingOwed == ConnInv /\ ReleaseInv /\ Reading => ReleaseInv'
<1> SUFFICES ASSUME ConnInv, ReleaseInv, Reading PROVE ReleaseInv'
  OBVIOUS
<1>1. CASE ParseHeader
  <2>1. PICK i \in Completed("header") :
          IF conn.reads[i].end = "error"
          THEN Becomes(Close(InHandler(i), TRUE))
          ELSE \E d \in HeaderOutcomes(InHandler(i)) : Becomes(d)
    BY <1>1 DEF ParseHeader
  <2>2. PICK d : Becomes(d) /\ (d = Close(InHandler(i), TRUE) \/ d \in HeaderOutcomes(InHandler(i)))
    BY <2>1
  <2>3. /\ InHandler(i) \in Connections /\ InHandler(i).reads = <<>>
        /\ InHandler(i).protocol = conn.protocol /\ InHandler(i).state = conn.state
    BY <2>1, InHandlerStays DEF Completed
  <2>4. Stays(InHandler(i), d)
    BY <2>2, <2>3, CloseStays, HeaderStays DEF Stays
  <2>5. Stays(conn, d)
    BY <2>3, <2>4 DEF Stays
  <2> QED
    BY <1>1, <2>2, <2>5, BecomesOwed DEF ParseHeader
<1>2. CASE ParseProxyIdentification
  <2>1. PICK i \in Completed("identification") :
          IF conn.reads[i].end = "error" \/ conn.state = "closed"
          THEN Becomes(Close(InHandler(i), TRUE))
          ELSE \E d \in IdentificationOutcomes(InHandler(i)) : Becomes(d)
    BY <1>2 DEF ParseProxyIdentification
  <2>2. PICK d : Becomes(d) /\ (d = Close(InHandler(i), TRUE) \/ conn.state # "closed")
    BY <2>1
  <2>3. Stays(conn, d)
    BY <2>1, <2>2, InHandlerStays, CloseStays DEF Completed, Stays
  <2> QED
    BY <1>2, <2>2, <2>3, BecomesOwed DEF ParseProxyIdentification
<1>3. CASE ParsePacketFails
  <2>1. PICK i \in Completed("body") : Becomes(Close(InHandler(i), TRUE))
    BY <1>3 DEF ParsePacketFails
  <2>2. Stays(conn, Close(InHandler(i), TRUE))
    BY <2>1, InHandlerStays, CloseStays DEF Completed, Stays
  <2> QED
    BY <1>3, <2>1, <2>2, BecomesOwed DEF ParsePacketFails
<1>4. CASE ParseFirstPacket \/ SkipPacket
  <2>1. PICK d : Becomes(d)
    BY <1>4 DEF ParseFirstPacket, SkipPacket
  <2>2. Stays(conn, d) /\ UNCHANGED release
    BY <1>4 DEF ParseFirstPacket, SkipPacket, Stays
  <2> QED
    BY <2>1, <2>2, BecomesOwed
<1>5. CASE QueuePacket
  <2>1. PICK i \in Completed("body") : conn' = InHandler(i)
    BY <1>5 DEF QueuePacket
  <2>2. conn'.state = conn.state /\ conn'.protocol = conn.protocol
    BY <2>1, InHandlerStays DEF Completed
  <2>3. tasks \in Seq(Tasks) /\ "parse" \in Tasks /\ tasks' = Append(tasks, "parse") /\ UNCHANGED release
    BY <1>5 DEF QueuePacket, ConnInv, InputSound, Tasks
  <2>4. /\ DOMAIN tasks' = 1..(Len(tasks) + 1) /\ DOMAIN tasks = 1..Len(tasks) /\ Len(tasks) \in Nat
        /\ tasks'[Len(tasks) + 1] = "parse" /\ \A k \in 1..Len(tasks) : tasks'[k] = tasks[k]
    BY <2>3
  <2>5. \A k : k \in Releasing(tasks') <=> k \in Releasing(tasks)
    BY <2>4 DEF Releasing
  <2>6. Releasing(tasks') = Releasing(tasks)
    BY <2>5
  <2> QED
    BY <2>2, <2>3, <2>6 DEF ReleaseInv, Owed, Spent
<1>6. CASE EndParsePacket
  <2>1. conn'.state = conn.state /\ conn'.protocol = conn.protocol
    BY <1>6 DEF EndParsePacket, ConnInv, Sound, Connections
  <2> QED
    BY <1>6, <2>1, QuietOwed DEF EndParsePacket
<1> QED
  BY <1>1, <1>2, <1>3, <1>4, <1>5, <1>6 DEF Reading

LEMMA WritingOwed == ConnInv /\ ReleaseInv /\ Writing => ReleaseInv'
<1> SUFFICES ASSUME ConnInv, ReleaseInv, Writing PROVE ReleaseInv'
  OBVIOUS
<1>1. conn \in Connections
  BY DEF ConnInv, Sound
<1>2. ASSUME NEW c \in Connections, c.state = conn.state, c.protocol = conn.protocol, Continue(c),
             UNCHANGED <<tasks, release>>
      PROVE  ReleaseInv'
  <2>1. conn' = c \/ conn' = CloseSocket(c)
    BY <1>2 DEF Continue
  <2>2. CloseSocket(c).state = c.state /\ CloseSocket(c).protocol = c.protocol
    BY CloseSocketAlike DEF Alike
  <2> QED
    BY <1>2, <2>1, <2>2, QuietOwed
<1>3. CASE InternalWorker
  <2> DEFINE c == [conn EXCEPT !.write = "none"]
  <2>1. c \in Connections /\ c.state = conn.state /\ c.protocol = conn.protocol
    BY <1>1 DEF Connections
  <2> QED
    BY <1>2, <1>3, <2>1 DEF InternalWorker
<1>4. CASE InternalSend
  <2>1. conn'.state = conn.state /\ conn'.protocol = conn.protocol
    BY <1>1, <1>4 DEF InternalSend, Connections
  <2> QED
    BY <1>4, <2>1, QuietOwed DEF InternalSend
<1>5. CASE OnWriteOperation
  <2> DEFINE c == [conn EXCEPT !.write = "none", !.armed = conn.armed \ {"write"}]
             lost == [c EXCEPT !.queue = <<>>]
             next == [c EXCEPT !.queue = Tail(conn.queue)]
  <2>1. conn.queue # <<>> /\ UNCHANGED release
    BY <1>5 DEF OnWriteOperation, ConnInv, OutputSound
  <2>2. /\ c \in Connections /\ c.queue = conn.queue /\ c.state = conn.state /\ c.protocol = conn.protocol
    BY <1>1 DEF Connections
  <2>3. \/ Becomes(Close(lost, TRUE))
        \/ Continue(next) /\ UNCHANGED tasks
    BY <1>1, <1>5, <2>2 DEF OnWriteOperation, Connections
  <2> HIDE DEF c
  <2>4. lost \in Connections /\ lost.state = conn.state /\ lost.protocol = conn.protocol
    <3>1. <<>> \in Seq(1..MaxOutputs)
      OBVIOUS
    <3> QED
      BY <2>2, <3>1 DEF Connections
  <2>5. next \in Connections /\ next.state = conn.state /\ next.protocol = conn.protocol
    <3>1. Tail(conn.queue) \in Seq(1..MaxOutputs)
      BY <1>1, <2>1, TailFacts DEF Connections
    <3> QED
      BY <2>2, <3>1 DEF Connections
  <2> HIDE DEF lost, next
  <2>6. Stays(conn, Close(lost, TRUE))
    BY <2>4, CloseStays DEF Stays
  <2> QED
    BY <1>2, <2>1, <2>3, <2>5, <2>6, BecomesOwed
<1> QED
  BY <1>3, <1>4, <1>5 DEF Writing

LEMMA DispatchingOwed == ConnInv /\ ReleaseInv /\ Dispatching => ReleaseInv'
<1> SUFFICES ASSUME ConnInv, ReleaseInv, Dispatching PROVE ReleaseInv'
  OBVIOUS
<1>1. tasks \in Seq(Tasks) /\ release \in {"none", "done", "expired"} /\ conn \in Connections
  BY DEF ConnInv, InputSound, Sound
<1>2. /\ \A i, j \in Releasing(tasks) : i = j
      /\ release # "none" => Releasing(tasks) = {}
      /\ release # "none" \/ Releasing(tasks) # {} <=> Spent(conn)
  BY DEF ReleaseInv, Owed
<1>3. CASE ExecuteTask
  <2>1. tasks # <<>>
    BY <1>3 DEF ExecuteTask
  <2>2. \E expired \in BOOLEAN :
          /\ conn' = conn \/ (Head(tasks) = "challenge" /\ conn' = Send(conn, sent + 1))
          /\ tasks' = Tail(tasks) \o ReleaseOf(conn, conn')
          /\ release' = IF Head(tasks) # "release" THEN release ELSE IF expired THEN "expired" ELSE "done"
    <3>1. PICK expired \in BOOLEAN :
            LET challenged == Head(tasks) = "challenge" /\ ~expired /\ Alive /\ sent < MaxOutputs
                d == IF challenged THEN Send(conn, sent + 1) ELSE conn
            IN /\ conn' = d
               /\ sent' = IF challenged /\ Accepts(conn) THEN sent + 1 ELSE sent
               /\ tasks' = Tail(tasks) \o ReleaseOf(conn, d)
               /\ release' = IF Head(tasks) # "release" THEN release ELSE IF expired THEN "expired" ELSE "done"
      BY <1>3 DEF ExecuteTask
    <3>2. conn' = conn \/ (Head(tasks) = "challenge" /\ conn' = Send(conn, sent + 1))
      BY <3>1
    <3>3. tasks' = Tail(tasks) \o ReleaseOf(conn, conn')
      BY <3>1
    <3> QED
      BY <3>1, <3>2, <3>3
  <2>3. Tail(tasks) \in Seq(Tasks)
    BY <1>1, <2>1, TailFacts
  <2>4. CASE Head(tasks) = "release"
    <3>1. conn' = conn /\ release' # "none"
      BY <2>2, <2>4
    <3>2. Releasing(tasks) # {} /\ Releasing(Tail(tasks)) = {}
      BY <1>1, <1>2, <2>1, <2>4, ReleaseTaken
    <3>3. Owed(conn, Tail(tasks), release')
      BY <1>2, <3>1, <3>2 DEF Owed
    <3>4. Owed(conn', Tail(tasks) \o ReleaseOf(conn, conn'), release')
      BY <2>3, <3>1, <3>3, ReleaseAdded DEF Stays
    <3> QED
      BY <2>2, <3>4 DEF ReleaseInv
  <2>5. CASE Head(tasks) # "release"
    <3>1. Owed(conn, Tail(tasks), release)
      BY <1>1, <1>2, <2>1, <2>5, ReleaseTaken DEF Owed
    <3>2. Stays(conn, conn')
      BY <2>2 DEF Stays, Send, Accepts
    <3>3. Owed(conn', Tail(tasks) \o ReleaseOf(conn, conn'), release)
      BY <2>3, <3>1, <3>2, ReleaseAdded
    <3> QED
      BY <2>2, <2>5, <3>3 DEF ReleaseInv
  <2> QED
    BY <2>4, <2>5
<1>4. CASE ParsePacketBegins
  <2>1. tasks # <<>> /\ Head(tasks) = "parse" /\ tasks' = Tail(tasks) /\ UNCHANGED <<conn, release>>
    BY <1>4 DEF ParsePacketBegins
  <2>2. Owed(conn, Tail(tasks), release)
    BY <1>1, <1>2, <2>1, ReleaseTaken DEF Owed
  <2> QED
    BY <2>1, <2>2 DEF ReleaseInv
<1>5. CASE ResumeWork
  <2>1. conn.reads = <<>>
    <3>1. conn.reads \in Seq(Read) /\ Len(conn.reads) <= 1 /\ Len(conn.reads) # 1
      BY <1>5 DEF ResumeWork, ConnInv, Sound, InputSound, Connections, Read, NoTask
    <3> QED
      BY <3>1, ShortSequence
  <2>2. conn'.state = conn.state /\ conn'.protocol = conn.protocol
    BY <1>1, <1>5, <2>1, ReadStays DEF ResumeWork, ReadOps
  <2> QED
    BY <1>5, <2>2, QuietOwed DEF ResumeWork
<1> QED
  BY <1>3, <1>4, <1>5 DEF Dispatching

LEMMA OthersOwed ==
  ConnInv /\ ReleaseInv /\ (HandleTimeout \/ Game \/ ReadCompletes \/ WriteCompletes \/ TimerExpires) => ReleaseInv'
<1> SUFFICES ASSUME ConnInv, ReleaseInv, HandleTimeout \/ Game \/ ReadCompletes \/ WriteCompletes \/ TimerExpires
             PROVE  ReleaseInv'
  OBVIOUS
<1>1. conn \in Connections
  BY DEF ConnInv, Sound
<1>2. CASE HandleTimeout
  <2>1. PICK t \in conn.fired : Becomes(Close([conn EXCEPT !.fired = @ \ {t}], TRUE))
    BY <1>2 DEF HandleTimeout
  <2> DEFINE c == [conn EXCEPT !.fired = @ \ {t}]
  <2>2. c \in Connections /\ c.state = conn.state /\ c.protocol = conn.protocol
    BY <1>1 DEF Connections
  <2> HIDE DEF c
  <2>3. Stays(conn, Close(c, TRUE))
    BY <2>2, CloseStays DEF Stays
  <2>4. Becomes(Close(c, TRUE))
    BY <2>1 DEF c
  <2> QED
    BY <1>2, <2>3, <2>4, BecomesOwed DEF HandleTimeout
<1>3. CASE ProtocolSend
  <2>1. Becomes(Send(conn, sent + 1)) /\ Stays(conn, Send(conn, sent + 1)) /\ UNCHANGED release
    BY <1>3 DEF ProtocolSend, Accepts, Stays
  <2> QED
    BY <2>1, BecomesOwed
<1>4. CASE Disconnect
  <2>1. Becomes(Close(conn, FALSE)) /\ Stays(conn, Close(conn, FALSE)) /\ UNCHANGED release
    BY <1>4 DEF Disconnect, Stays
  <2> QED
    BY <2>1, BecomesOwed
<1>5. Aborted(conn).state = conn.state /\ Aborted(conn).protocol = conn.protocol /\ Aborted(conn) \in Connections
  BY <1>1, AbortedAlike DEF Alike
<1>6. CASE CloseAll
  <2>1. conn'.state = conn.state /\ conn'.protocol = conn.protocol
    BY <1>5, <1>6 DEF CloseAll, Connections
  <2> QED
    BY <1>6, <2>1, QuietOwed DEF CloseAll
<1>7. CASE ReadCompletes
  <2>1. conn'.state = conn.state /\ conn'.protocol = conn.protocol
    BY <1>1, <1>7 DEF ReadCompletes, Connections
  <2> QED
    BY <1>7, <2>1, QuietOwed DEF ReadCompletes
<1>8. CASE WriteCompletes
  <2>1. conn'.state = conn.state /\ conn'.protocol = conn.protocol
    BY <1>1, <1>5, <1>8 DEF WriteCompletes, Connections
  <2> QED
    BY <1>8, <2>1, QuietOwed DEF WriteCompletes
<1>9. CASE TimerExpires
  <2>1. conn'.state = conn.state /\ conn'.protocol = conn.protocol
    BY <1>1, <1>9 DEF TimerExpires, Connections
  <2> QED
    BY <1>9, <2>1, QuietOwed DEF TimerExpires
<1> QED
  BY <1>2, <1>3, <1>4, <1>6, <1>7, <1>8, <1>9 DEF Game

\* Handlers, timers and tasks race to close a connection; whoever is first,
\* its protocol is released by one event, and an open one's by none.
THEOREM OneReleaseOwed == ConnSpec => []ReleaseOwed
<1>1. ConnInit => ReleaseInv
  <2> SUFFICES ASSUME ConnInit PROVE ReleaseInv
    OBVIOUS
  <2>1. conn.state # "closed" /\ release = "none"
    BY DEF ConnInit, Fresh
  <2>2. Releasing(tasks) = {}
    <3>1. CASE tasks = <<>>
      BY <3>1 DEF Releasing
    <3>2. CASE tasks = <<"challenge">>
      <4>1. "challenge" # "release"
        OBVIOUS
      <4>2. DOMAIN tasks = {1} /\ tasks[1] = "challenge"
        BY <3>2
      <4> QED
        BY <4>1, <4>2 DEF Releasing
    <3> QED
      BY <3>1, <3>2 DEF ConnInit
  <2> QED
    BY <2>1, <2>2 DEF ReleaseInv, Owed, Spent
<1>2. ConnInv /\ ReleaseInv /\ [ConnNext]_connVars => ReleaseInv'
  <2> SUFFICES ASSUME ConnInv, ReleaseInv, [ConnNext]_connVars PROVE ReleaseInv'
    OBVIOUS
  <2>1. CASE UNCHANGED connVars
    BY <2>1, QuietOwed DEF connVars
  <2> QED
    BY <2>1, ReadingOwed, WritingOwed, DispatchingOwed, OthersOwed DEF ConnNext
<1>3. ReleaseInv => ReleaseOwed
  <2> SUFFICES ASSUME ReleaseInv PROVE ReleaseOwed
    OBVIOUS
  <2> DEFINE R == Queued("release")
  <2>1. R = Releasing(tasks)
    BY DEF Queued, Releasing
  <2>2. Cardinality({}) = 0 /\ \A x : Cardinality({x}) = 1
    BY FS_EmptySet, FS_Singleton
  <2> HIDE DEF R
  <2>3. /\ release # "none" => R = {}
        /\ release # "none" \/ R # {} <=> Spent(conn)
        /\ \A i, j \in R : i = j
    BY <2>1 DEF ReleaseInv, Owed
  <2>4. CASE R = {}
    BY <2>2, <2>3, <2>4 DEF ReleaseOwed, Spent, R
  <2>5. CASE R # {}
    <3>1. PICK x : x \in R
      BY <2>5
    <3>2. R = {x}
      BY <2>3, <3>1
    <3>3. Cardinality(R) = 1
      BY <2>2, <3>2
    <3> QED
      BY <2>3, <2>5, <3>3 DEF ReleaseOwed, Spent, R
  <2> QED
    BY <2>4, <2>5
<1> QED
  BY <1>1, <1>2, <1>3, ConnectionCorrect, PTL DEF ConnSpec

-----------------------------------------------------------------------------
(* Session. *)
Turns == [kind : {"login", "release"}, of : Clients]

\* What waits in a queue of the dispatcher.
In(ts) == {ts[i] : i \in DOMAIN ts}

Once(ts) == \A i, j \in DOMAIN ts : ts[i] = ts[j] => i = j

LEMMA TurnAdded ==
  ASSUME NEW ts \in Seq(Turns), Once(ts), NEW t \in Turns, t \notin In(ts)
  PROVE  /\ Append(ts, t) \in Seq(Turns) /\ Once(Append(ts, t))
         /\ In(Append(ts, t)) = In(ts) \union {t}
<1> DEFINE us == Append(ts, t)
<1>1. /\ us \in Seq(Turns) /\ Len(us) = Len(ts) + 1 /\ us[Len(ts) + 1] = t
      /\ \A i \in 1..Len(ts) : us[i] = ts[i]
  OBVIOUS
<1>2. DOMAIN us = 1..Len(us) /\ DOMAIN ts = 1..Len(ts) /\ Len(ts) \in Nat
  BY <1>1
<1> HIDE DEF us
<1>3. DOMAIN us = DOMAIN ts \union {Len(ts) + 1} /\ Len(ts) + 1 \notin DOMAIN ts
  BY <1>1, <1>2
<1>4. \A i \in DOMAIN ts : us[i] = ts[i] /\ us[i] # t
  BY <1>1, <1>2 DEF In
<1>5. Once(us)
  BY <1>1, <1>3, <1>4 DEF Once
<1>6. In(us) = In(ts) \union {t}
  BY <1>1, <1>3, <1>4 DEF In
<1> QED
  BY <1>1, <1>5, <1>6 DEF us

LEMMA TurnTaken ==
  ASSUME NEW ts \in Seq(Turns), Once(ts), ts # <<>>
  PROVE  /\ Tail(ts) \in Seq(Turns) /\ Once(Tail(ts)) /\ Head(ts) \in In(ts) /\ Head(ts) \in Turns
         /\ In(Tail(ts)) = In(ts) \ {Head(ts)}
<1>1. Len(ts) \in Nat /\ Len(ts) > 0 /\ Head(ts) = ts[1]
  OBVIOUS
<1>2. Tail(ts) \in Seq(Turns) /\ Len(Tail(ts)) = Len(ts) - 1
  BY <1>1
<1>3. ASSUME NEW k \in 1..Len(Tail(ts)) PROVE k + 1 \in 1..Len(ts) /\ Tail(ts)[k] = ts[k + 1]
  BY <1>1, <1>2
<1>4. DOMAIN ts = 1..Len(ts) /\ DOMAIN Tail(ts) = 1..Len(Tail(ts))
  BY <1>2
<1>5. Head(ts) \in In(ts) /\ Head(ts) \in Turns
  BY <1>1, <1>4 DEF In
<1>6. ASSUME NEW i \in DOMAIN Tail(ts), NEW j \in DOMAIN Tail(ts), Tail(ts)[i] = Tail(ts)[j]
      PROVE  i = j
  <2>1. i + 1 = j + 1
    BY <1>3, <1>4, <1>6 DEF Once
  <2> QED
    BY <2>1, <1>2, <1>4
<1>7. ASSUME NEW t \in In(Tail(ts)) PROVE t \in In(ts) /\ t # Head(ts)
  <2>1. PICK k \in DOMAIN Tail(ts) : t = Tail(ts)[k]
    BY <1>7 DEF In
  <2>2. k + 1 \in DOMAIN ts /\ t = ts[k + 1] /\ k + 1 # 1 /\ 1 \in DOMAIN ts
    BY <2>1, <1>1, <1>2, <1>3, <1>4
  <2> QED
    BY <2>2, <1>1 DEF In, Once
<1>8. ASSUME NEW t \in In(ts), t # Head(ts) PROVE t \in In(Tail(ts))
  <2>1. PICK k \in DOMAIN ts : t = ts[k]
    BY DEF In
  <2>2. k # 1 /\ k \in 1..Len(ts)
    BY <2>1, <1>1, <1>4, <1>8
  <2>3. k - 1 \in 1..Len(Tail(ts)) /\ (k - 1) + 1 = k
    BY <2>2, <1>1, <1>2
  <2>4. Tail(ts)[k - 1] = t
    BY <2>1, <2>3, <1>3
  <2> QED
    BY <2>3, <2>4, <1>4 DEF In
<1>9. In(Tail(ts)) = In(ts) \ {Head(ts)}
  BY <1>7, <1>8
<1> QED
  BY <1>2, <1>5, <1>6, <1>9 DEF Once

----------------------------------------------------------------------------
(* The invariant.                                                            *)

\* Who is let in waits for one login, and who is disconnected for one release.
TurnsSound(ts, lk, st) ==
  /\ ts \in Seq(Turns) /\ Once(ts)
  /\ lk \in [Clients -> {"new", "open", "closed", "gone"}]
  /\ \A c \in Clients : Turn("login", c) \in In(ts) => st[c] = "queued"
  /\ \A c \in Clients : Turn("release", c) \in In(ts) => lk[c] \in {"closed", "gone"}
  /\ \A c \in Clients : lk[c] = "new" => st[c] = "none"

\* Until his login is through, a client holds nobody.
HoldsSound ==
  /\ holds \in [Clients -> Players \union {NoOne}]
  /\ client \in [Players -> Clients \union {NoOne}]
  /\ stage \in [Clients -> {"none", "queued", "waiting", "done"}]
  /\ \A c \in Clients : stage[c] # "done" => holds[c] = NoOne
  /\ \A o \in Players : client[o] # NoOne => holds[client[o]] = o

RestTyped ==
  /\ accepts \in [Clients -> BOOLEAN]
  /\ body \in [Players -> {"unused", "online", "dead", "removed"}]
  /\ connecting \in [Players -> BOOLEAN] /\ forcing \in [Players -> BOOLEAN]
  /\ excused \in [Players -> {"no", "training", "kept"}]
  /\ named \in Players \union {NoOne} /\ deadNamed \in Players \union {NoOne}

SessionInv == TurnsSound(turns, link, stage) /\ HoldsSound /\ RestTyped

LEMMA SessionInitially == SessionInit => SessionInv
<1> SUFFICES ASSUME SessionInit PROVE SessionInv
  OBVIOUS
<1>1. turns = <<>> /\ DOMAIN turns = {} /\ turns \in Seq(Turns)
  BY DEF SessionInit
<1>2. In(turns) = {} /\ Once(turns)
  BY <1>1 DEF In, Once
<1>3. TurnsSound(turns, link, stage)
  BY <1>1, <1>2 DEF SessionInit, TurnsSound
<1>4. HoldsSound /\ RestTyped
  BY DEF SessionInit, HoldsSound, RestTyped
<1> QED
  BY <1>3, <1>4 DEF SessionInv

LEMMA TurnFacts ==
  ASSUME NEW c \in Clients, NEW d \in Clients
  PROVE  /\ Turn("login", c) \in Turns /\ Turn("release", c) \in Turns
         /\ Turn("login", c) # Turn("release", d)
         /\ Turn("login", c) = Turn("login", d) => c = d
         /\ Turn("release", c) = Turn("release", d) => c = d
  BY DEF Turn, Turns

\* A disconnected client's release joins the queue once.
LEMMA CloseLinkSound ==
  ASSUME NEW c \in Clients \union {NoOne}, NEW q, NEW st, TurnsSound(q, link, st), CloseLink(c, q)
  PROVE  TurnsSound(turns', link', st)
<1>1. CASE IsOpen(c)
  <2>1. c \in Clients /\ link[c] = "open"
    BY <1>1 DEF IsOpen
  <2>2. link' = [link EXCEPT ![c] = "closed"] /\ turns' = Append(q, Turn("release", c))
    BY <1>1 DEF CloseLink
  <2>3. Turn("release", c) \notin In(q) /\ Turn("release", c) \in Turns
    BY <2>1, TurnFacts DEF TurnsSound
  <2>4. turns' \in Seq(Turns) /\ Once(turns') /\ In(turns') = In(q) \union {Turn("release", c)}
    BY <2>2, <2>3, TurnAdded DEF TurnsSound
  <2> QED
    BY <2>1, <2>2, <2>4, TurnFacts DEF TurnsSound
<1>2. CASE ~IsOpen(c)
  BY <1>2 DEF CloseLink
<1> QED
  BY <1>1, <1>2

\* The queue without its head, a login.
LEMMA LoginTaken ==
  ASSUME SessionInv, NextIs("login")
  PROVE  LET c == Head(turns).of
         IN /\ c \in Clients /\ stage[c] = "queued" /\ link[c] # "new"
            /\ \A st : (\A d \in Clients : d # c => st[d] = stage[d]) => TurnsSound(Tail(turns), link, st)
<1> DEFINE c == Head(turns).of
<1>1. turns \in Seq(Turns) /\ Once(turns) /\ turns # <<>> /\ Head(turns).kind = "login"
  BY DEF SessionInv, TurnsSound, NextIs
<1>2. /\ Tail(turns) \in Seq(Turns) /\ Once(Tail(turns)) /\ Head(turns) \in In(turns) /\ Head(turns) \in Turns
      /\ In(Tail(turns)) = In(turns) \ {Head(turns)}
  BY <1>1, TurnTaken
<1>3. c \in Clients /\ Head(turns) = Turn("login", c)
  BY <1>1, <1>2 DEF Turns, Turn
<1> HIDE DEF c
<1>4. stage[c] = "queued" /\ link[c] # "new"
  BY <1>2, <1>3 DEF SessionInv, TurnsSound
<1>5. ASSUME NEW st, \A d \in Clients : d # c => st[d] = stage[d]
      PROVE  TurnsSound(Tail(turns), link, st)
  <2>1. \A d \in Clients : Turn("login", d) \in In(Tail(turns)) => d # c /\ stage[d] = "queued"
    BY <1>2, <1>3 DEF SessionInv, TurnsSound
  <2> QED
    BY <2>1, <1>2, <1>3, <1>4, <1>5 DEF SessionInv, TurnsSound
<1> QED
  BY <1>3, <1>4, <1>5 DEF c

\* A step that changes neither who holds whom nor the stages.
LEMMA HoldsUnchanged ==
  ASSUME HoldsSound, UNCHANGED <<holds, client, stage>> PROVE HoldsSound'
  BY DEF HoldsSound

\* Client c, who held nobody, plays object o from now on.
LEMMA AttachSound ==
  ASSUME HoldsSound, NEW c \in Clients, NEW o \in Players, holds[c] = NoOne, Attach(c, o),
         stage' = [stage EXCEPT ![c] = "done"]
  PROVE  HoldsSound'
<1> USE SessionAssumption
<1>1. holds' = [holds EXCEPT ![c] = o] /\ client' = [client EXCEPT ![o] = c]
  BY DEF Attach
<1>2. /\ holds' \in [Clients -> Players \union {NoOne}]
      /\ client' \in [Players -> Clients \union {NoOne}]
      /\ stage' \in [Clients -> {"none", "queued", "waiting", "done"}]
  BY <1>1 DEF HoldsSound
<1>3. ASSUME NEW d \in Clients, stage'[d] # "done" PROVE holds'[d] = NoOne
  BY <1>1, <1>3 DEF HoldsSound
<1>4. ASSUME NEW p \in Players, client'[p] # NoOne PROVE holds'[client'[p]] = p
  <2>1. CASE p = o
    BY <2>1, <1>1 DEF HoldsSound
  <2>2. CASE p # o
    <3>1. client'[p] = client[p] /\ client[p] \in Clients /\ holds[client[p]] = p
      BY <2>2, <1>1, <1>4 DEF HoldsSound
    <3>2. client[p] # c
      BY <3>1
    <3> QED
      BY <3>1, <3>2, <1>1 DEF HoldsSound
  <2> QED
    BY <2>1, <2>2
<1> QED
  BY <1>2, <1>3, <1>4 DEF HoldsSound

\* A login is through without an object to play.
LEMMA StageSound ==
  ASSUME HoldsSound, NEW c \in Clients, NEW x \in {"none", "queued", "waiting", "done"},
         holds[c] = NoOne \/ x = "done",
         stage' = [stage EXCEPT ![c] = x], UNCHANGED <<holds, client>>
  PROVE  HoldsSound'
  BY DEF HoldsSound

LEMMA FirstMessageKeeps ==
  ASSUME SessionInv, NEW c \in Clients, FirstMessage(c) PROVE SessionInv'
<1> USE SessionAssumption
<1> DEFINE old == ClientOf(Seen)
           q == IF IsOpen(old) THEN Append(turns, Turn("release", old)) ELSE turns
<1>1. /\ link[c] = "new"
      /\ link' = [d \in Clients |-> IF d = c THEN "open" ELSE IF d = old /\ IsOpen(d) THEN "closed" ELSE link[d]]
      /\ turns' = q \o <<Turn("login", c)>>
      /\ stage' = [stage EXCEPT ![c] = "queued"]
      /\ UNCHANGED <<holds, accepts, playerVars>>
  BY DEF FirstMessage
<1>2. turns \in Seq(Turns) /\ Once(turns) /\ stage[c] = "none" /\ link \in [Clients -> {"new", "open", "closed", "gone"}]
      /\ Turn("login", c) \notin In(turns)
  BY <1>1 DEF SessionInv, TurnsSound
<1>3. old \in Clients \union {NoOne}
  BY DEF SessionInv, HoldsSound, RestTyped, ClientOf, Seen
<1> HIDE DEF old
<1>4. /\ q \in Seq(Turns) /\ Once(q)
      /\ In(q) = In(turns) \union (IF IsOpen(old) THEN {Turn("release", old)} ELSE {})
  <2>1. CASE IsOpen(old)
    <3>1. old \in Clients /\ link[old] = "open"
      BY <2>1, <1>3 DEF IsOpen
    <3>2. Turn("release", old) \notin In(turns) /\ Turn("release", old) \in Turns
      BY <3>1, TurnFacts DEF SessionInv, TurnsSound
    <3> QED
      BY <2>1, <3>2, <1>2, TurnAdded
  <2>2. CASE ~IsOpen(old)
    BY <2>2, <1>2
  <2> QED
    BY <2>1, <2>2
<1> HIDE DEF q
<1>5. Turn("login", c) \notin In(q) /\ Turn("login", c) \in Turns
  BY <1>2, <1>3, <1>4, TurnFacts DEF IsOpen
<1>6. turns' = Append(q, Turn("login", c))
  BY <1>1, <1>4, <1>5
<1>7. turns' \in Seq(Turns) /\ Once(turns') /\ In(turns') = In(q) \union {Turn("login", c)}
  BY <1>4, <1>5, <1>6, TurnAdded
<1>8. link' \in [Clients -> {"new", "open", "closed", "gone"}]
  BY <1>1, <1>2
<1>9. ASSUME NEW d \in Clients, Turn("login", d) \in In(turns') PROVE stage'[d] = "queued"
  <2>1. d = c \/ Turn("login", d) \in In(turns)
    BY <1>3, <1>4, <1>7, <1>9, TurnFacts DEF IsOpen
  <2> QED
    BY <2>1, <1>1 DEF SessionInv, TurnsSound, HoldsSound
<1>10. ASSUME NEW d \in Clients, Turn("release", d) \in In(turns') PROVE link'[d] \in {"closed", "gone"}
  <2>1. Turn("release", d) \in In(turns) \/ (d = old /\ IsOpen(d))
    BY <1>3, <1>4, <1>7, <1>10, TurnFacts DEF IsOpen
  <2>2. d # c
    BY <2>1, <1>1 DEF SessionInv, TurnsSound, IsOpen
  <2> QED
    BY <2>1, <2>2, <1>1 DEF SessionInv, TurnsSound
<1>11. ASSUME NEW d \in Clients, link'[d] = "new" PROVE stage'[d] = "none"
  BY <1>1, <1>11 DEF SessionInv, TurnsSound, HoldsSound
<1>12. TurnsSound(turns', link', stage')
  BY <1>7, <1>8, <1>9, <1>10, <1>11 DEF TurnsSound
<1>13. HoldsSound'
  <2>1. holds[c] = NoOne
    BY <1>2 DEF SessionInv, HoldsSound
  <2> QED
    BY <2>1, <1>1 DEF SessionInv, HoldsSound, playerVars
<1>14. RestTyped'
  BY <1>1 DEF SessionInv, RestTyped, playerVars
<1> QED
  BY <1>12, <1>13, <1>14 DEF SessionInv

LEMMA FirstMessageRefusedKeeps ==
  ASSUME SessionInv, NEW c \in Clients, FirstMessageRefused(c) PROVE SessionInv'
<1> USE SessionAssumption
<1> DEFINE old == IF Refusing THEN NoOne ELSE ClientOf(Seen)
           q(told) == IF IsOpen(told) THEN Append(turns, Turn("release", told)) ELSE turns
<1>1. link[c] = "new" /\ UNCHANGED <<stage, holds, accepts, playerVars>>
  BY DEF FirstMessageRefused
<1>2. PICK told \in {NoOne, old} :
        /\ link' = [d \in Clients |-> IF d = c \/ (d = told /\ IsOpen(d)) THEN "closed" ELSE link[d]]
        /\ turns' = q(told) \o <<Turn("release", c)>>
  BY DEF FirstMessageRefused
<1>3. turns \in Seq(Turns) /\ Once(turns) /\ link \in [Clients -> {"new", "open", "closed", "gone"}]
      /\ Turn("release", c) \notin In(turns)
  BY <1>1 DEF SessionInv, TurnsSound
<1>4. told \in Clients \union {NoOne}
  BY DEF SessionInv, HoldsSound, RestTyped, ClientOf, Seen
<1> DEFINE r == q(told)
<1>5. /\ r \in Seq(Turns) /\ Once(r)
      /\ In(r) = In(turns) \union (IF IsOpen(told) THEN {Turn("release", told)} ELSE {})
  <2>1. CASE IsOpen(told)
    <3>1. told \in Clients /\ link[told] = "open"
      BY <2>1, <1>4 DEF IsOpen
    <3>2. Turn("release", told) \notin In(turns) /\ Turn("release", told) \in Turns
      BY <3>1, TurnFacts DEF SessionInv, TurnsSound
    <3> QED
      BY <2>1, <3>2, <1>3, TurnAdded
  <2>2. CASE ~IsOpen(told)
    BY <2>2, <1>3
  <2> QED
    BY <2>1, <2>2
<1>6. turns' = r \o <<Turn("release", c)>>
  BY <1>2
<1> HIDE DEF r, q, old
<1>7. Turn("release", c) \notin In(r) /\ Turn("release", c) \in Turns
  <2>1. IsOpen(told) => told # c
    BY <1>1 DEF IsOpen
  <2> QED
    BY <2>1, <1>3, <1>4, <1>5, TurnFacts DEF IsOpen
<1>8. turns' = Append(r, Turn("release", c))
  BY <1>5, <1>6, <1>7
<1>9. turns' \in Seq(Turns) /\ Once(turns') /\ In(turns') = In(r) \union {Turn("release", c)}
  BY <1>5, <1>7, <1>8, TurnAdded
<1>10. ASSUME NEW d \in Clients, Turn("login", d) \in In(turns') PROVE stage[d] = "queued"
  <2>1. Turn("login", d) \in In(turns)
    BY <1>4, <1>5, <1>9, <1>10, TurnFacts DEF IsOpen
  <2> QED
    BY <2>1 DEF SessionInv, TurnsSound
<1>11. ASSUME NEW d \in Clients, Turn("release", d) \in In(turns') PROVE link'[d] \in {"closed", "gone"}
  <2>1. Turn("release", d) \in In(turns) \/ (d = told /\ IsOpen(d)) \/ d = c
    BY <1>4, <1>5, <1>9, <1>11, TurnFacts DEF IsOpen
  <2> QED
    BY <2>1, <1>2 DEF SessionInv, TurnsSound
<1>12. link' \in [Clients -> {"new", "open", "closed", "gone"}]
  BY <1>2, <1>3
<1>13. TurnsSound(turns', link', stage)
  BY <1>2, <1>9, <1>10, <1>11, <1>12 DEF SessionInv, TurnsSound
<1>14. HoldsSound' /\ RestTyped'
  BY <1>1, HoldsUnchanged DEF SessionInv, RestTyped, playerVars
<1> QED
  BY <1>1, <1>13, <1>14 DEF SessionInv

LEMMA ClientOfTyped ==
  SessionInv => \A o \in Players : client[o] \in Clients \union {NoOne}
  BY DEF SessionInv, HoldsSound

LEMMA DropKeeps ==
  ASSUME SessionInv, NEW c \in Clients, Drop(c) PROVE SessionInv'
<1>1. CloseLink(c, turns) /\ UNCHANGED <<stage, holds, accepts, playerVars>>
  BY DEF Drop
<1>2. TurnsSound(turns', link', stage)
  BY <1>1, CloseLinkSound DEF SessionInv
<1>3. HoldsSound' /\ RestTyped'
  BY <1>1, HoldsUnchanged DEF SessionInv, RestTyped, playerVars
<1> QED
  BY <1>1, <1>2, <1>3 DEF SessionInv

LEMMA LeaveKeeps ==
  ASSUME SessionInv, NEW c \in Clients, Leave(c) PROVE SessionInv'
<1>1. CloseLink(c, turns) /\ UNCHANGED <<stage, holds, accepts, playerVars>>
  BY DEF Leave
<1>2. TurnsSound(turns', link', stage)
  BY <1>1, CloseLinkSound DEF SessionInv
<1>3. HoldsSound' /\ RestTyped'
  BY <1>1, HoldsUnchanged DEF SessionInv, RestTyped, playerVars
<1> QED
  BY <1>1, <1>2, <1>3 DEF SessionInv

LEMMA ConnectionDestroyedKeeps ==
  ASSUME SessionInv, NEW c \in Clients, ConnectionDestroyed(c) PROVE SessionInv'
<1>1. /\ link' = [link EXCEPT ![c] = "gone"]
      /\ UNCHANGED <<stage, holds, accepts, turns, playerVars>>
  BY DEF ConnectionDestroyed
<1>2. TurnsSound(turns', link', stage')
  BY <1>1 DEF SessionInv, TurnsSound
<1>3. HoldsSound' /\ RestTyped'
  BY <1>1, HoldsUnchanged DEF SessionInv, RestTyped, playerVars
<1> QED
  BY <1>2, <1>3 DEF SessionInv

LEMMA ReleaseKeeps ==
  ASSUME SessionInv, Release PROVE SessionInv'
<1> USE SessionAssumption
<1> DEFINE c == Head(turns).of
<1>1. /\ turns \in Seq(Turns) /\ Once(turns) /\ turns # <<>> /\ Head(turns).kind = "release"
      /\ turns' = Tail(turns)
      /\ UNCHANGED <<link, stage, accepts, body, connecting, forcing, excused, named, deadNamed>>
  BY DEF Release, NextIs, SessionInv, TurnsSound
<1>2. /\ Tail(turns) \in Seq(Turns) /\ Once(Tail(turns)) /\ Head(turns) \in Turns
      /\ In(Tail(turns)) = In(turns) \ {Head(turns)}
  BY <1>1, TurnTaken
<1>3. c \in Clients
  BY <1>2 DEF Turns
<1>4. TurnsSound(turns', link', stage')
  BY <1>1, <1>2 DEF SessionInv, TurnsSound
<1>5. HoldsSound'
  <2>1. CASE holds[c] # NoOne /\ client[holds[c]] = c
    <3>1. client' = [client EXCEPT ![holds[c]] = NoOne] /\ holds' = [holds EXCEPT ![c] = NoOne]
      BY <2>1 DEF Release
    <3>2. holds[c] \in Players
      BY <1>3, <2>1 DEF SessionInv, HoldsSound
    <3> HIDE DEF c
    <3>3. ASSUME NEW o \in Players, client'[o] # NoOne PROVE holds'[client'[o]] = o
      <4>1. o # holds[c] /\ client'[o] = client[o] /\ client[o] \in Clients /\ holds[client[o]] = o
        BY <3>1, <3>2, <3>3 DEF SessionInv, HoldsSound
      <4>2. client[o] # c
        BY <4>1
      <4> QED
        BY <4>1, <4>2, <3>1 DEF SessionInv, HoldsSound
    <3>4. /\ holds' \in [Clients -> Players \union {NoOne}]
          /\ client' \in [Players -> Clients \union {NoOne}]
          /\ \A d \in Clients : stage'[d] # "done" => holds'[d] = NoOne
      BY <1>1, <3>1 DEF SessionInv, HoldsSound
    <3> QED
      BY <1>1, <3>3, <3>4 DEF SessionInv, HoldsSound
  <2>2. CASE ~(holds[c] # NoOne /\ client[holds[c]] = c)
    <3>1. UNCHANGED <<client, holds>>
      BY <2>2 DEF Release
    <3> QED
      BY <1>1, <3>1, HoldsUnchanged DEF SessionInv
  <2> QED
    BY <2>1, <2>2
<1>6. RestTyped'
  BY <1>1 DEF SessionInv, RestTyped
<1> QED
  BY <1>4, <1>5, <1>6 DEF SessionInv

LEMMA LoginNewKeeps ==
  ASSUME SessionInv, LoginNew PROVE SessionInv'
<1> DEFINE c == Head(turns).of
<1>1. PICK o \in Players :
        body' = [body EXCEPT ![o] = "online"] /\ named' = o /\ Attach(c, o)
  BY DEF LoginNew
<1>2. /\ stage' = [stage EXCEPT ![c] = "done"] /\ turns' = Tail(turns)
      /\ UNCHANGED <<link, connecting, forcing, excused, deadNamed>>
  BY DEF LoginNew
<1>3. /\ c \in Clients /\ stage[c] = "queued"
      /\ \A st : (\A d \in Clients : d # c => st[d] = stage[d]) => TurnsSound(Tail(turns), link, st)
  BY LoginTaken DEF LoginNew
<1> HIDE DEF c
<1>4. \A d \in Clients : d # c => stage'[d] = stage[d]
  BY <1>2 DEF SessionInv, HoldsSound
<1>5. TurnsSound(turns', link', stage')
  BY <1>2, <1>3, <1>4
<1>6. HoldsSound'
  <2>1. holds[c] = NoOne
    BY <1>3 DEF SessionInv, HoldsSound
  <2> QED
    BY <2>1, <1>1, <1>2, <1>3, AttachSound DEF SessionInv
<1>7. RestTyped'
  BY <1>1, <1>2, <1>3 DEF SessionInv, RestTyped, Attach
<1> QED
  BY <1>5, <1>6, <1>7 DEF SessionInv

LEMMA LoginRefusedKeeps ==
  ASSUME SessionInv, LoginRefused PROVE SessionInv'
<1> DEFINE c == Head(turns).of
<1>1. /\ CloseLink(c, Tail(turns)) /\ stage' = [stage EXCEPT ![c] = "done"]
      /\ UNCHANGED <<holds, accepts, playerVars>>
  BY DEF LoginRefused
<1>2. /\ c \in Clients
      /\ \A st : (\A d \in Clients : d # c => st[d] = stage[d]) => TurnsSound(Tail(turns), link, st)
  BY LoginTaken DEF LoginRefused
<1> HIDE DEF c
<1>3. \A d \in Clients : d # c => stage'[d] = stage[d]
  BY <1>1 DEF SessionInv, HoldsSound
<1>4. TurnsSound(Tail(turns), link, stage')
  BY <1>2, <1>3
<1>5. TurnsSound(turns', link', stage')
  BY <1>1, <1>2, <1>4, CloseLinkSound
<1>6. HoldsSound'
  BY <1>1, <1>2, StageSound DEF SessionInv, playerVars
<1>7. RestTyped'
  BY <1>1 DEF SessionInv, RestTyped, playerVars
<1> QED
  BY <1>5, <1>6, <1>7 DEF SessionInv

\* The client that connects held nobody; q is what waits after it.
LEMMA ConnectKeeps ==
  ASSUME SessionInv, NEW c \in Clients, NEW q, Connect(c, q), stage[c] # "done",
         \A st : (\A d \in Clients : d # c => st[d] = stage[d]) => TurnsSound(q, link, st)
  PROVE  SessionInv'
<1>1. stage' = [stage EXCEPT ![c] = "done"] /\ UNCHANGED <<body, forcing, excused, named, deadNamed>>
  BY DEF Connect
<1>2. \A d \in Clients : d # c => stage'[d] = stage[d]
  BY <1>1 DEF SessionInv, HoldsSound
<1>3. TurnsSound(q, link, stage')
  BY <1>2
<1>4. holds[c] = NoOne
  BY DEF SessionInv, HoldsSound
<1>5. CASE named = NoOne
  <2>1. CloseLink(c, q) /\ UNCHANGED <<holds, accepts, client, connecting>>
    BY <1>5 DEF Connect
  <2>2. TurnsSound(turns', link', stage')
    BY <2>1, <1>3, CloseLinkSound
  <2>3. HoldsSound' /\ RestTyped'
    BY <2>1, <1>1, StageSound DEF SessionInv, RestTyped
  <2> QED
    BY <2>2, <2>3 DEF SessionInv
<1>6. CASE named # NoOne /\ link[c] = "gone"
  <2>1. turns' = q /\ UNCHANGED <<link, holds, accepts, client, connecting>>
    BY <1>6 DEF Connect
  <2>2. HoldsSound' /\ RestTyped'
    BY <2>1, <1>1, StageSound DEF SessionInv, RestTyped
  <2> QED
    BY <2>1, <2>2, <1>3 DEF SessionInv
<1>7. CASE named # NoOne /\ link[c] # "gone"
  <2>1. /\ turns' = q /\ link' = link
        /\ Attach(c, named) /\ connecting' = [connecting EXCEPT ![named] = FALSE]
    BY <1>7 DEF Connect
  <2>2. named \in Players
    BY <1>7 DEF SessionInv, RestTyped
  <2>3. HoldsSound'
    BY <2>1, <2>2, <1>1, <1>4, AttachSound DEF SessionInv
  <2>4. RestTyped'
    BY <2>1, <2>2, <1>1 DEF SessionInv, RestTyped, Attach
  <2> QED
    BY <2>1, <2>3, <2>4, <1>3 DEF SessionInv
<1> QED
  BY <1>5, <1>6, <1>7

LEMMA LoginConnectsKeeps ==
  ASSUME SessionInv, LoginConnects PROVE SessionInv'
<1> DEFINE c == Head(turns).of
<1>1. Connect(c, Tail(turns))
  BY DEF LoginConnects
<1>2. /\ c \in Clients /\ stage[c] = "queued"
      /\ \A st : (\A d \in Clients : d # c => st[d] = stage[d]) => TurnsSound(Tail(turns), link, st)
  BY LoginTaken DEF LoginConnects
<1> HIDE DEF c
<1> QED
  BY <1>1, <1>2, ConnectKeeps

LEMMA ConnectLaterKeeps ==
  ASSUME SessionInv, NEW c \in Clients, ConnectLater(c) PROVE SessionInv'
<1>1. Connect(c, turns) /\ stage[c] = "waiting"
  BY DEF ConnectLater
<1>2. ASSUME NEW st, \A d \in Clients : d # c => st[d] = stage[d]
      PROVE  TurnsSound(turns, link, st)
  BY <1>1, <1>2 DEF SessionInv, TurnsSound
<1> QED
  BY <1>1, <1>2, ConnectKeeps

LEMMA LoginReplacesKeeps ==
  ASSUME SessionInv, LoginReplaces PROVE SessionInv'
<1> DEFINE c == Head(turns).of
<1>1. /\ CloseLink(client[named], Tail(turns)) /\ stage' = [stage EXCEPT ![c] = "waiting"]
      /\ named # NoOne /\ connecting' = [connecting EXCEPT ![named] = TRUE]
      /\ UNCHANGED <<holds, accepts, body, client, forcing, excused, named, deadNamed>>
  BY DEF LoginReplaces
<1>2. /\ c \in Clients /\ stage[c] = "queued"
      /\ \A st : (\A d \in Clients : d # c => st[d] = stage[d]) => TurnsSound(Tail(turns), link, st)
  BY LoginTaken DEF LoginReplaces
<1> HIDE DEF c
<1>3. \A d \in Clients : d # c => stage'[d] = stage[d]
  BY <1>1 DEF SessionInv, HoldsSound
<1>4. TurnsSound(Tail(turns), link, stage')
  BY <1>2, <1>3
<1>5. client[named] \in Clients \union {NoOne}
  BY <1>1, ClientOfTyped DEF SessionInv, RestTyped
<1>6. TurnsSound(turns', link', stage')
  BY <1>1, <1>4, <1>5, CloseLinkSound
<1>7. HoldsSound'
  <2>1. holds[c] = NoOne
    BY <1>2 DEF SessionInv, HoldsSound
  <2> QED
    BY <2>1, <1>1, <1>2, StageSound DEF SessionInv
<1>8. RestTyped'
  BY <1>1 DEF SessionInv, RestTyped
<1> QED
  BY <1>6, <1>7, <1>8 DEF SessionInv

\* Who speaks holds an object.
LEMMA SpeaksHolds ==
  ASSUME SessionInv, NEW c \in Clients, Speaks(c) PROVE holds[c] \in Players
  BY DEF SessionInv, HoldsSound, Speaks

LEMMA LogoutKeeps ==
  ASSUME SessionInv, NEW c \in Clients, Logout(c) \/ RespawnFails(c) PROVE SessionInv'
<1> USE SessionAssumption
<1>1. /\ CloseLink(c, turns) /\ RemoveCreature(holds[c]) /\ Speaks(c)
      /\ UNCHANGED <<stage, holds, accepts, client, connecting, forcing, excused>>
      /\ deadNamed' \in {NoOne, deadNamed}
  BY DEF Logout, RespawnFails
<1>2. TurnsSound(turns', link', stage')
  BY <1>1, CloseLinkSound DEF SessionInv
<1>3. HoldsSound' /\ RestTyped'
  BY <1>1, SpeaksHolds, HoldsUnchanged DEF SessionInv, RestTyped, RemoveCreature
<1> QED
  BY <1>2, <1>3 DEF SessionInv

LEMMA RespawnKeeps ==
  ASSUME SessionInv, NEW c \in Clients, Respawn(c) PROVE SessionInv'
<1>1. /\ body' = [body EXCEPT ![holds[c]] = "online"] /\ named' = holds[c] /\ deadNamed' = NoOne
      /\ Speaks(c) /\ UNCHANGED <<clientVars, turns, client, connecting, forcing, excused>>
  BY DEF Respawn
<1>2. HoldsSound' /\ RestTyped'
  BY <1>1, SpeaksHolds, HoldsUnchanged DEF SessionInv, RestTyped, clientVars
<1> QED
  BY <1>1, <1>2 DEF SessionInv, clientVars

LEMMA DieKeeps ==
  ASSUME SessionInv, NEW o \in Players, Die(o) PROVE SessionInv'
<1>1. /\ body' = [body EXCEPT ![o] = "dead"] /\ named' = NoOne /\ deadNamed' = o
      /\ UNCHANGED <<clientVars, turns, client, connecting, forcing, excused>>
  BY DEF Die
<1>2. HoldsSound' /\ RestTyped'
  BY <1>1, HoldsUnchanged DEF SessionInv, RestTyped, clientVars
<1> QED
  BY <1>1, <1>2 DEF SessionInv, clientVars

LEMMA KickKeeps ==
  ASSUME SessionInv, NEW o \in Players, Kick(o) PROVE SessionInv'
<1>1. /\ CloseLink(client[o], turns) /\ RemoveCreature(o)
      /\ UNCHANGED <<stage, holds, accepts, client, connecting, forcing, excused, deadNamed>>
  BY DEF Kick
<1>2. TurnsSound(turns', link', stage')
  BY <1>1, ClientOfTyped, CloseLinkSound DEF SessionInv
<1>3. HoldsSound' /\ RestTyped'
  BY <1>1, HoldsUnchanged DEF SessionInv, RestTyped, RemoveCreature
<1> QED
  BY <1>2, <1>3 DEF SessionInv

LEMMA PingTimeoutKeeps ==
  ASSUME SessionInv, NEW o \in Players, PingTimeout(o) PROVE SessionInv'
<1>1. CASE Kick(o)
  BY <1>1, KickKeeps
<1>2. CASE ~Kick(o)
  <2>1. /\ forcing' = [forcing EXCEPT ![o] = FALSE]
        /\ UNCHANGED <<clientVars, turns, body, client, connecting, excused, named, deadNamed>>
    BY <1>2 DEF PingTimeout
  <2>2. HoldsSound' /\ RestTyped'
    BY <2>1, HoldsUnchanged DEF SessionInv, RestTyped, clientVars
  <2> QED
    BY <2>1, <2>2 DEF SessionInv, clientVars
<1> QED
  BY <1>1, <1>2

LEMMA ExcuseKeeps ==
  ASSUME SessionInv, NEW o \in Players, Move(o) \/ Train(o) \/ EndTraining(o)
  PROVE  SessionInv'
<1>1. PICK reason \in {"no", "training", "kept"} : Excuse(o, reason)
  BY DEF Move, Train, EndTraining
<1>2. /\ excused' = [excused EXCEPT ![o] = reason]
      /\ UNCHANGED <<clientVars, turns, body, client, connecting, forcing, named, deadNamed>>
  BY <1>1 DEF Excuse
<1>3. HoldsSound' /\ RestTyped'
  BY <1>2, HoldsUnchanged DEF SessionInv, RestTyped, clientVars
<1> QED
  BY <1>2, <1>3 DEF SessionInv, clientVars

LEMMA SessionSteps == SessionInv /\ [SessionNext]_sessionVars => SessionInv'
<1> SUFFICES ASSUME SessionInv, [SessionNext]_sessionVars PROVE SessionInv'
  OBVIOUS
<1>1. CASE Release
  BY <1>1, ReleaseKeeps
<1>2. CASE LoginTurn
  BY <1>2, LoginNewKeeps, LoginRefusedKeeps, LoginConnectsKeeps, LoginReplacesKeeps DEF LoginTurn
<1>3. ASSUME NEW c \in Clients,
             FirstMessage(c) \/ FirstMessageRefused(c) \/ Drop(c) \/ ConnectionDestroyed(c) \/ Leave(c)
      PROVE  SessionInv'
  BY <1>3, FirstMessageKeeps, FirstMessageRefusedKeeps, DropKeeps, ConnectionDestroyedKeeps, LeaveKeeps
<1>4. ASSUME NEW c \in Clients, ConnectLater(c) \/ Logout(c) \/ Respawn(c) \/ RespawnFails(c)
      PROVE  SessionInv'
  BY <1>4, ConnectLaterKeeps, LogoutKeeps, RespawnKeeps
<1>5. ASSUME NEW o \in Players, Die(o) \/ PingTimeout(o) \/ IdleKick(o) \/ Move(o) \/ Train(o) \/ EndTraining(o)
      PROVE  SessionInv'
  BY <1>5, DieKeeps, PingTimeoutKeeps, KickKeeps, ExcuseKeeps DEF IdleKick
<1>6. CASE UNCHANGED sessionVars
  BY <1>6, HoldsUnchanged DEF SessionInv, RestTyped, sessionVars, clientVars, playerVars
<1> QED
  BY <1>1, <1>2, <1>3, <1>4, <1>5, <1>6 DEF SessionNext

\* Logins and releases wait once, for a client in the right stage, and a client
\* whose login is not through holds nobody, in every reachable state.
THEOREM SessionCorrect == SessionSpec => []SessionInv
<1>1. SessionInit => SessionInv
  BY SessionInitially
<1> QED
  BY <1>1, SessionSteps, PTL DEF SessionSpec

\* The types of ProtocolGame's and Player's fields; neither a login nor a
\* release of a client ever waits twice.
THEOREM SessionTypeCorrect == SessionSpec => []SessionTypeOK
<1>1. SessionInv => SessionTypeOK
  BY DEF SessionInv, TurnsSound, HoldsSound, RestTyped, SessionTypeOK, Once, Turns
<1> QED
  BY <1>1, SessionCorrect, PTL

\* Player::client is a protocol that plays this object, however first messages,
\* logins, replacements, deaths, kicks and releases interleave.
THEOREM PlayersHaveTheirClient == SessionSpec => []ClientHoldsPlayer
<1>1. SessionInv => ClientHoldsPlayer
  BY DEF SessionInv, HoldsSound, ClientHoldsPlayer
<1> QED
  BY <1>1, SessionCorrect, PTL

-----------------------------------------------------------------------------
(* WaitList. *)

\* What Dropping keeps of the first n.
KeptStep(list, gone, k, n) ==
  IF n = 0 THEN <<>> ELSE IF list[n] \in gone THEN k[n - 1] ELSE Append(k[n - 1], list[n])

Keeps(list, gone, k) == \A n \in 0..Len(list) : k[n] = KeptStep(list, gone, k, n)

\* The recursion of Dropping.
KeptFixed(list, gone, k) ==
  k = [n \in 0..Len(list) |->
         IF n = 0 THEN <<>>
         ELSE IF list[n] \in gone THEN k[n - 1] ELSE Append(k[n - 1], list[n])]

LEMMA KeptExists ==
  ASSUME NEW S, NEW list \in Seq(S), NEW gone
  PROVE  \E k : KeptFixed(list, gone, k)
<1> DEFINE N == Len(list)
           Upto(k, m) == \A n \in 0..m : k[n] = KeptStep(list, gone, k, n)
           Good == {m \in Nat : m <= N => \E k \in [0..N -> Seq(S)] : Upto(k, m)}
<1>1. N \in Nat
  OBVIOUS
<1>2. 0 \in Good
  <2> DEFINE k == [n \in 0..N |-> <<>>]
  <2>1. k \in [0..N -> Seq(S)]
    OBVIOUS
  <2>2. Upto(k, 0)
    BY <1>1 DEF KeptStep
  <2> QED
    BY <2>1, <2>2
<1>3. ASSUME NEW m \in Nat, m \in Good PROVE m + 1 \in Good
  <2> SUFFICES ASSUME m + 1 <= N PROVE \E k \in [0..N -> Seq(S)] : Upto(k, m + 1)
    OBVIOUS
  <2>1. PICK k \in [0..N -> Seq(S)] : Upto(k, m)
    BY <1>1, <1>3
  <2> DEFINE next == KeptStep(list, gone, k, m + 1)
             h == [k EXCEPT ![m + 1] = next]
  <2>2. m + 1 \in 1..N /\ m \in 0..N /\ list[m + 1] \in S /\ k[m] \in Seq(S)
    BY <1>1
  <2>3. next \in Seq(S)
    BY <2>2 DEF KeptStep
  <2> HIDE DEF next
  <2>4. h \in [0..N -> Seq(S)]
    BY <2>3
  <2>5. h[m + 1] = next /\ \A n \in 0..m : h[n] = k[n]
    BY <2>2
  <2> HIDE DEF h
  <2>6. ASSUME NEW n \in 0..(m + 1) PROVE h[n] = KeptStep(list, gone, h, n)
    <3>1. CASE n = m + 1
      <4>1. h[n - 1] = k[n - 1] /\ n # 0
        BY <2>5, <3>1
      <4> QED
        BY <2>5, <3>1, <4>1 DEF next, KeptStep
    <3>2. CASE n # m + 1
      <4>1. n \in 0..m /\ (n # 0 => n - 1 \in 0..m)
        BY <2>6, <3>2
      <4>2. h[n] = KeptStep(list, gone, k, n)
        BY <2>1, <2>5, <4>1
      <4>3. n # 0 => h[n - 1] = k[n - 1]
        BY <2>5, <4>1
      <4> QED
        BY <4>2, <4>3 DEF KeptStep
    <3> QED
      BY <3>1, <3>2
  <2> QED
    BY <2>4, <2>6
<1>4. \A m \in Nat : m \in Good
  <2> HIDE DEF Good
  <2> QED
    BY <1>2, <1>3, NumberInduction
<1>5. PICK k \in [0..N -> Seq(S)] : Upto(k, N)
  <2>1. N \in Good /\ N <= N
    <3> HIDE DEF Good
    <3>1. N \in Good
      BY <1>1, <1>4
    <3> QED
      BY <1>1, <3>1
  <2> HIDE DEF Upto
  <2> QED
    BY <2>1
<1>6. k = [n \in 0..N |-> k[n]]
  OBVIOUS
<1>7. KeptFixed(list, gone, k)
  BY <1>5, <1>6 DEF KeptStep, KeptFixed
<1> QED
  BY <1>7

LEMMA DroppingKeeps ==
  ASSUME NEW S, NEW list \in Seq(S), NEW gone
  PROVE  \E k : Keeps(list, gone, k) /\ Dropping(list, gone) = k[Len(list)]
<1> DEFINE c == CHOOSE k : KeptFixed(list, gone, k)
<1>1. \E k : KeptFixed(list, gone, k)
  BY KeptExists
<1>2. KeptFixed(list, gone, c)
  BY <1>1, Zenon
<1>3. Dropping(list, gone) = c[Len(list)]
  BY Zenon DEF Dropping, KeptFixed
<1> HIDE DEF c
<1>4. Keeps(list, gone, c)
  BY <1>2 DEF Keeps, KeptStep, KeptFixed
<1> QED
  BY <1>3, <1>4

LEMMA Appended ==
  ASSUME NEW S, NEW list \in Seq(S), NEW p \in S
  PROVE  LET s == Append(list, p)
         IN /\ s \in Seq(S) /\ Len(s) = Len(list) + 1
            /\ ToSet(s) = ToSet(list) \union {p}
            /\ IsInjective(list) /\ p \notin ToSet(list) => IsInjective(s)
<1> DEFINE s == Append(list, p)
<1>1. s \in Seq(S) /\ Len(list) \in Nat /\ Len(s) = Len(list) + 1
      /\ DOMAIN s = 1..(Len(list) + 1) /\ DOMAIN list = 1..Len(list)
      /\ s[Len(list) + 1] = p /\ \A i \in 1..Len(list) : s[i] = list[i]
  OBVIOUS
<1> HIDE DEF s
<1>2. ToSet(s) = ToSet(list) \union {p}
  <2>1. \A i \in DOMAIN s : i = Len(list) + 1 \/ i \in DOMAIN list
    BY <1>1
  <2>2. Len(list) + 1 \in DOMAIN s /\ \A i \in DOMAIN list : i \in DOMAIN s
    BY <1>1
  <2> QED
    BY <1>1, <2>1, <2>2 DEF ToSet
<1>3. ASSUME IsInjective(list), p \notin ToSet(list) PROVE IsInjective(s)
  <2> SUFFICES ASSUME NEW i \in DOMAIN s, NEW j \in DOMAIN s, s[i] = s[j] PROVE i = j
    BY DEF IsInjective
  <2>1. \A a \in DOMAIN list : list[a] # p
    BY <1>3 DEF ToSet
  <2>2. \A a, b \in DOMAIN list : list[a] = list[b] => a = b
    BY <1>3 DEF IsInjective
  <2> QED
    BY <1>1, <2>1, <2>2
<1> QED
  BY <1>1, <1>2, <1>3 DEF s

\* The first n of a list.
Firsts(list, n) == {list[i] : i \in 1..n}

LEMMA FirstsGrow ==
  ASSUME NEW list, NEW n \in Nat
  PROVE  Firsts(list, n + 1) = Firsts(list, n) \union {list[n + 1]}
<1>1. 1..(n + 1) = (1..n) \union {n + 1}
  OBVIOUS
<1> QED
  BY <1>1 DEF Firsts

LEMMA FirstsAreNew ==
  ASSUME NEW S, NEW list \in Seq(S), IsInjective(list), NEW n \in Nat, n + 1 <= Len(list)
  PROVE  list[n + 1] \notin Firsts(list, n)
<1>1. DOMAIN list = 1..Len(list) /\ Len(list) \in Nat
  OBVIOUS
<1>2. n + 1 \in DOMAIN list /\ \A i \in 1..n : i \in DOMAIN list /\ i # n + 1
  BY <1>1
<1> QED
  BY <1>2 DEF IsInjective, Firsts

\* What is left is in order, and nobody is left twice who was not in it twice.
LEMMA DroppingFacts ==
  ASSUME NEW S, NEW list \in Seq(S), NEW gone
  PROVE  LET s == Dropping(list, gone)
         IN /\ s \in Seq(S) /\ Len(s) \in Nat /\ Len(s) <= Len(list)
            /\ ToSet(s) = ToSet(list) \ gone
            /\ IsInjective(list) => IsInjective(s)
<1>1. PICK k : Keeps(list, gone, k) /\ Dropping(list, gone) = k[Len(list)]
  BY DroppingKeeps
<1> DEFINE N == Len(list)
           Fact(n) == /\ k[n] \in Seq(S) /\ Len(k[n]) <= n
                      /\ ToSet(k[n]) = Firsts(list, n) \ gone
                      /\ IsInjective(list) => IsInjective(k[n])
           Good == {n \in Nat : n <= N => Fact(n)}
<1>2. N \in Nat /\ DOMAIN list = 1..N
  OBVIOUS
<1>3. 0 \in Good
  <2>1. k[0] = <<>>
    BY <1>1, <1>2 DEF Keeps, KeptStep
  <2>2. Firsts(list, 0) = {} /\ ToSet(<<>>) = {} /\ IsInjective(<<>>)
    BY DEF Firsts, ToSet, IsInjective
  <2>3. <<>> \in Seq(S) /\ Len(<<>>) = 0
    OBVIOUS
  <2>4. Fact(0)
    BY <2>1, <2>2, <2>3
  <2> HIDE DEF Fact
  <2> QED
    BY <2>4
<1>4. ASSUME NEW n \in Nat, n \in Good PROVE n + 1 \in Good
  <2> SUFFICES ASSUME n + 1 <= N PROVE Fact(n + 1)
    OBVIOUS
  <2>1. Fact(n)
    BY <1>2, <1>4
  <2> HIDE DEF Good
  <2>2. k[n + 1] = IF list[n + 1] \in gone THEN k[n] ELSE Append(k[n], list[n + 1])
    <3>1. n + 1 \in 0..N /\ n + 1 # 0 /\ (n + 1) - 1 = n
      BY <1>2
    <3> QED
      BY <1>1, <3>1 DEF Keeps, KeptStep
  <2>3. Firsts(list, n + 1) = Firsts(list, n) \union {list[n + 1]} /\ list[n + 1] \in S
    <3>1. n + 1 \in DOMAIN list
      BY <1>2
    <3>2. list[n + 1] \in S
      BY <3>1
    <3>3. Firsts(list, n + 1) = Firsts(list, n) \union {list[n + 1]}
      BY FirstsGrow
    <3> QED
      BY <3>2, <3>3
  <2>4. CASE list[n + 1] \in gone
    <3>1. Firsts(list, n + 1) \ gone = Firsts(list, n) \ gone
      BY <2>3, <2>4
    <3>2. Len(k[n]) <= n + 1
      BY <2>1
    <3> QED
      BY <2>1, <2>2, <2>4, <3>1, <3>2
  <2>5. CASE list[n + 1] \notin gone
    <3> DEFINE s == Append(k[n], list[n + 1])
    <3>1. /\ s \in Seq(S) /\ Len(s) = Len(k[n]) + 1
          /\ ToSet(s) = ToSet(k[n]) \union {list[n + 1]}
          /\ IsInjective(k[n]) /\ list[n + 1] \notin ToSet(k[n]) => IsInjective(s)
      BY <2>1, <2>3, Appended
    <3>2. k[n + 1] = s
      BY <2>2, <2>5
    <3> HIDE DEF s
    <3>3. Len(s) <= n + 1
      <4>1. Len(k[n]) \in Nat
        BY <2>1
      <4> QED
        BY <2>1, <3>1, <4>1
    <3>4. ToSet(s) = Firsts(list, n + 1) \ gone
      BY <2>1, <2>3, <2>5, <3>1
    <3>5. IsInjective(list) => IsInjective(s)
      BY <2>1, <3>1, FirstsAreNew
    <3> QED
      BY <3>1, <3>2, <3>3, <3>4, <3>5
  <2> QED
    BY <2>4, <2>5
<1>5. Fact(N)
  <2>1. N \in Good
    <3> HIDE DEF Good
    <3> QED
      BY <1>2, <1>3, <1>4, NumberInduction
  <2> HIDE DEF Fact
  <2> QED
    BY <1>2, <2>1
<1>6. Firsts(list, N) = ToSet(list)
  BY <1>2 DEF Firsts, ToSet
<1> QED
  BY <1>1, <1>5, <1>6

\* One who is in it once.
LEMMA WithoutLength ==
  ASSUME NEW S, NEW list \in Seq(S), IsInjective(list), NEW p
  PROVE  Len(Without(list, p)) = IF p \in ToSet(list) THEN Len(list) - 1 ELSE Len(list)
<1>1. PICK k : Keeps(list, {p}, k) /\ Without(list, p) = k[Len(list)]
  BY DroppingKeeps DEF Without
<1> DEFINE N == Len(list)
           Fact(n) == /\ k[n] \in Seq(S)
                      /\ Len(k[n]) = IF p \in Firsts(list, n) THEN n - 1 ELSE n
           Good == {n \in Nat : n <= N => Fact(n)}
<1>2. N \in Nat /\ DOMAIN list = 1..N
  OBVIOUS
<1>3. 0 \in Good
  <2>1. k[0] = <<>>
    BY <1>1, <1>2 DEF Keeps, KeptStep
  <2>2. Firsts(list, 0) = {}
    BY DEF Firsts
  <2>3. <<>> \in Seq(S) /\ Len(<<>>) = 0
    OBVIOUS
  <2>4. Fact(0)
    BY <2>1, <2>2, <2>3
  <2> HIDE DEF Fact
  <2> QED
    BY <2>4
<1>4. ASSUME NEW n \in Nat, n \in Good PROVE n + 1 \in Good
  <2> SUFFICES ASSUME n + 1 <= N PROVE Fact(n + 1)
    OBVIOUS
  <2>1. Fact(n)
    BY <1>2, <1>4
  <2> HIDE DEF Good
  <2>2. k[n + 1] = IF list[n + 1] = p THEN k[n] ELSE Append(k[n], list[n + 1])
    <3>1. n + 1 \in 0..N /\ n + 1 # 0 /\ (n + 1) - 1 = n
      BY <1>2
    <3> QED
      BY <1>1, <3>1 DEF Keeps, KeptStep
  <2>3. Firsts(list, n + 1) = Firsts(list, n) \union {list[n + 1]} /\ list[n + 1] \in S
        /\ list[n + 1] \notin Firsts(list, n)
    <3>1. n + 1 \in DOMAIN list
      BY <1>2
    <3>2. list[n + 1] \in S
      BY <3>1
    <3>3. Firsts(list, n + 1) = Firsts(list, n) \union {list[n + 1]}
      BY FirstsGrow
    <3>4. list[n + 1] \notin Firsts(list, n)
      BY <1>2, FirstsAreNew
    <3> QED
      BY <3>2, <3>3, <3>4
  <2>4. CASE list[n + 1] = p
    <3>1. p \notin Firsts(list, n) /\ p \in Firsts(list, n + 1)
      BY <2>3, <2>4
    <3> QED
      BY <2>1, <2>2, <2>4, <3>1
  <2>5. CASE list[n + 1] # p
    <3>1. p \in Firsts(list, n + 1) <=> p \in Firsts(list, n)
      BY <2>3, <2>5
    <3>2. Append(k[n], list[n + 1]) \in Seq(S) /\ Len(Append(k[n], list[n + 1])) = Len(k[n]) + 1
      BY <2>1, <2>3, Appended
    <3> QED
      BY <2>1, <2>2, <2>5, <3>1, <3>2
  <2> QED
    BY <2>4, <2>5
<1>5. Fact(N)
  <2>1. N \in Good
    <3> HIDE DEF Good
    <3> QED
      BY <1>2, <1>3, <1>4, NumberInduction
  <2> HIDE DEF Fact
  <2> QED
    BY <1>2, <2>1
<1>6. Firsts(list, N) = ToSet(list)
  BY <1>2 DEF Firsts, ToSet
<1> QED
  BY <1>1, <1>5, <1>6

----------------------------------------------------------------------------
(* The invariant of the waiting list.                                        *)

Lists(pl, nl, pSize, nSize, playing) ==
  /\ pl \in Seq(Premium) /\ IsInjective(pl)
  /\ nl \in Seq(Persons \ Premium) /\ IsInjective(nl)
  /\ (ToSet(pl) \union ToSet(nl)) \intersect playing = {}
  /\ pSize \in Int /\ nSize \in Int
  /\ pSize >= Len(pl)
  /\ pSize + nSize = Len(pl) + Len(nl)

WaitInv ==
  /\ online \subseteq Persons /\ IsFiniteSet(online)
  /\ late \subseteq Waiting
  /\ Lists(priorityList, normalList, prioritySize, normalSize, online)

LEMMA ListSet ==
  ASSUME NEW S, NEW list \in Seq(S)
  PROVE  /\ Len(list) \in Nat /\ ToSet(list) \subseteq S
         /\ list = <<>> => ToSet(list) = {} /\ Len(list) = 0
         /\ \A p \in ToSet(list) : Position(list, p) \in 1..Len(list)
<1>1. Len(list) \in Nat /\ DOMAIN list = 1..Len(list) /\ \A i \in DOMAIN list : list[i] \in S
  OBVIOUS
<1>2. \A p \in ToSet(list) : Position(list, p) \in DOMAIN list
  BY DEF ToSet, Position
<1>3. list = <<>> => ToSet(list) = {} /\ Len(list) = 0
  BY DEF ToSet
<1> QED
  BY <1>1, <1>2, <1>3 DEF ToSet

LEMMA AddedFacts ==
  ASSUME NEW S, NEW list \in Seq(S), IsInjective(list), NEW p \in S
  PROVE  /\ Added(list, p) \in Seq(S) /\ IsInjective(Added(list, p))
         /\ ToSet(Added(list, p)) = ToSet(list) \union {p}
         /\ p \in ToSet(list) => Added(list, p) = list
         /\ p \notin ToSet(list) => Len(Added(list, p)) = Len(list) + 1
<1>1. CASE p \in ToSet(list)
  BY <1>1 DEF Added
<1>2. CASE p \notin ToSet(list)
  <2> DEFINE s == Append(list, p)
  <2>1. /\ s \in Seq(S) /\ Len(s) = Len(list) + 1
        /\ ToSet(s) = ToSet(list) \union {p}
        /\ IsInjective(s)
    BY <1>2, Appended
  <2>2. Added(list, p) = s
    BY <1>2 DEF Added
  <2> HIDE DEF s
  <2> QED
    BY <1>2, <2>1, <2>2
<1> QED
  BY <1>1, <1>2

\* The lists and sizes when p has asked.
AskedPriority(p) == IF p \in Premium THEN Added(Cleaned(priorityList), p) ELSE Cleaned(priorityList)
AskedNormal(p) == IF p \in Premium THEN Cleaned(normalList) ELSE Added(Cleaned(normalList), p)
AskedPrioritySize(p) == prioritySize + Len(AskedPriority(p)) - Len(priorityList)
AskedNormalSize(p) == normalSize + Len(AskedNormal(p)) - Len(normalList)

LEMMA CleanedFacts ==
  ASSUME WaitInv
  PROVE  /\ OnTime(priorityList) \in Seq(Premium) /\ IsInjective(OnTime(priorityList))
         /\ ToSet(OnTime(priorityList)) = ToSet(priorityList) \ late
         /\ OnTime(normalList) \in Seq(Persons \ Premium) /\ IsInjective(OnTime(normalList))
         /\ ToSet(OnTime(normalList)) = ToSet(normalList) \ late
<1>1. /\ priorityList \in Seq(Premium) /\ IsInjective(priorityList)
      /\ normalList \in Seq(Persons \ Premium) /\ IsInjective(normalList)
  BY DEF WaitInv, Lists
<1> QED
  BY <1>1, DroppingFacts DEF OnTime

LEMMA Asked ==
  ASSUME WaitInv, NEW p \in Persons, p \notin online
  PROVE  /\ Lists(AskedPriority(p), AskedNormal(p), AskedPrioritySize(p), AskedNormalSize(p), online)
         /\ p \in Premium => p \in ToSet(AskedPriority(p))
         /\ p \notin Premium => p \in ToSet(AskedNormal(p))
<1> DEFINE pl == AskedPriority(p)
           nl == AskedNormal(p)
           cp == OnTime(priorityList)
           cn == OnTime(normalList)
<1>1. /\ cp \in Seq(Premium) /\ IsInjective(cp) /\ ToSet(cp) = ToSet(priorityList) \ late
      /\ cn \in Seq(Persons \ Premium) /\ IsInjective(cn) /\ ToSet(cn) = ToSet(normalList) \ late
  BY CleanedFacts
<1>2. /\ pl = IF p \in Premium THEN Added(cp, p) ELSE cp
      /\ nl = IF p \in Premium THEN cn ELSE Added(cn, p)
  BY DEF AskedPriority, AskedNormal, Cleaned
<1> HIDE DEF pl, nl, cp, cn
<1>3. /\ pl \in Seq(Premium) /\ IsInjective(pl) /\ nl \in Seq(Persons \ Premium) /\ IsInjective(nl)
      /\ ToSet(pl) \subseteq ToSet(priorityList) \union {p}
      /\ ToSet(nl) \subseteq ToSet(normalList) \union {p}
      /\ p \in Premium => p \in ToSet(pl)
      /\ p \notin Premium => p \in ToSet(nl)
  <2>1. CASE p \in Premium
    BY <1>1, <1>2, <2>1, AddedFacts
  <2>2. CASE p \notin Premium
    <3>1. p \in Persons \ Premium
      BY <2>2
    <3>2. pl = cp /\ nl = Added(cn, p)
      BY <1>2, <2>2
    <3>3. nl \in Seq(Persons \ Premium) /\ IsInjective(nl) /\ ToSet(nl) = ToSet(cn) \union {p}
      <4> DEFINE S == Persons \ Premium
      <4>1. cn \in Seq(S) /\ IsInjective(cn) /\ p \in S
        BY <1>1, <3>1
      <4> HIDE DEF S
      <4>2. Added(cn, p) \in Seq(S) /\ IsInjective(Added(cn, p)) /\ ToSet(Added(cn, p)) = ToSet(cn) \union {p}
        BY <4>1, AddedFacts
      <4> QED
        BY <3>2, <4>2 DEF S
    <3> QED
      BY <1>1, <2>2, <3>2, <3>3
  <2> QED
    BY <2>1, <2>2
<1>4. (ToSet(pl) \union ToSet(nl)) \intersect online = {}
  BY <1>3 DEF WaitInv, Lists
<1>5. /\ prioritySize \in Int /\ normalSize \in Int /\ prioritySize >= Len(priorityList)
      /\ prioritySize + normalSize = Len(priorityList) + Len(normalList)
      /\ Len(priorityList) \in Nat /\ Len(normalList) \in Nat /\ Len(pl) \in Nat /\ Len(nl) \in Nat
  BY <1>3 DEF WaitInv, Lists
<1> DEFINE pSize == prioritySize + Len(pl) - Len(priorityList)
           nSize == normalSize + Len(nl) - Len(normalList)
<1>6. pSize \in Int /\ nSize \in Int /\ pSize >= Len(pl) /\ pSize + nSize = Len(pl) + Len(nl)
  BY <1>5
<1>7. pSize = AskedPrioritySize(p) /\ nSize = AskedNormalSize(p)
  BY DEF AskedPrioritySize, AskedNormalSize, pl, nl
<1> HIDE DEF pSize, nSize
<1> QED
  BY <1>3, <1>4, <1>6, <1>7 DEF Lists, pl, nl

\* The place of one who was let in is free, and so is his node.
LEMMA LetIn ==
  ASSUME NEW pl, NEW nl, NEW pSize, NEW nSize, NEW playing, Lists(pl, nl, pSize, nSize, playing),
         NEW p \in Persons, p \in Premium => p \in ToSet(pl), p \notin Premium => p \in ToSet(nl),
         NEW size, size = LeastOf(pSize, Len(Without(pl, p)) + MaxDrift)
  PROVE  Lists(Without(pl, p), Without(nl, p), size, pSize + nSize - 1 - size, playing \union {p})
<1> DEFINE wp == Without(pl, p)
           wn == Without(nl, p)
<1>1. /\ pl \in Seq(Premium) /\ IsInjective(pl) /\ nl \in Seq(Persons \ Premium) /\ IsInjective(nl)
      /\ (ToSet(pl) \union ToSet(nl)) \intersect playing = {}
      /\ pSize \in Int /\ nSize \in Int /\ pSize >= Len(pl) /\ pSize + nSize = Len(pl) + Len(nl)
  BY DEF Lists
<1>2. /\ wp \in Seq(Premium) /\ IsInjective(wp) /\ ToSet(wp) = ToSet(pl) \ {p} /\ Len(wp) <= Len(pl)
      /\ wn \in Seq(Persons \ Premium) /\ IsInjective(wn) /\ ToSet(wn) = ToSet(nl) \ {p}
      /\ Len(wp) \in Nat /\ Len(wn) \in Nat /\ Len(pl) \in Nat /\ Len(nl) \in Nat
  BY <1>1, DroppingFacts DEF Without
<1>3. Len(wp) + Len(wn) = Len(pl) + Len(nl) - 1
  <2>1. /\ Len(wp) = IF p \in ToSet(pl) THEN Len(pl) - 1 ELSE Len(pl)
        /\ Len(wn) = IF p \in ToSet(nl) THEN Len(nl) - 1 ELSE Len(nl)
    BY <1>1, WithoutLength
  <2>2. p \in ToSet(pl) <=> p \notin ToSet(nl)
    BY <1>1, ListSet
  <2>3. Len(pl) \in Nat /\ Len(nl) \in Nat
    BY <1>2
  <2> HIDE DEF wp, wn
  <2>4. CASE p \in ToSet(pl)
    BY <2>1, <2>2, <2>3, <2>4
  <2>5. CASE p \notin ToSet(pl)
    BY <2>1, <2>2, <2>3, <2>5
  <2> QED
    BY <2>4, <2>5
<1> HIDE DEF wp, wn
<1>4. size \in Int /\ size >= Len(wp)
  <2>1. MaxDrift \in Nat /\ size = LeastOf(pSize, Len(wp) + MaxDrift)
    BY WaitListAssumption DEF wp
  <2> QED
    BY <1>1, <1>2, <2>1 DEF LeastOf
<1>5. pSize + nSize - 1 - size \in Int /\ size + (pSize + nSize - 1 - size) = Len(wp) + Len(wn)
  BY <1>1, <1>2, <1>3, <1>4
<1>6. (ToSet(wp) \union ToSet(wn)) \intersect (playing \union {p}) = {}
  BY <1>1, <1>2
<1> QED
  BY <1>2, <1>4, <1>5, <1>6 DEF Lists, wp, wn

AskedSlot(p) == Slot(p, AskedPriority(p), AskedNormal(p), AskedPrioritySize(p), AskedNormalSize(p))

LEMMA AskUnfolds ==
  ASSUME NEW p \in Persons, AskAtList(p)
  PROVE  /\ p \notin online /\ late' = {}
         /\ \/ /\ Fits(AskedSlot(p))
               /\ online' = online \union {p}
               /\ priorityList' = Without(AskedPriority(p), p)
               /\ normalList' = Without(AskedNormal(p), p)
               /\ prioritySize' = LeastOf(AskedPrioritySize(p), Len(priorityList') + MaxDrift)
               /\ normalSize' = AskedPrioritySize(p) + AskedNormalSize(p) - 1 - prioritySize'
            \/ /\ priorityList' = AskedPriority(p) /\ normalList' = AskedNormal(p)
               /\ prioritySize' = AskedPrioritySize(p) /\ normalSize' = AskedNormalSize(p)
               /\ UNCHANGED online
  BY Zenon DEF AskAtList, AskedSlot, AskedPriority, AskedNormal, AskedPrioritySize, AskedNormalSize

LEMMA AskKeeps == ASSUME WaitInv, NEW p \in Persons, AskAtList(p) PROVE WaitInv'
<1>1. p \notin online /\ late' = {}
  BY AskUnfolds
<1>2. /\ Lists(AskedPriority(p), AskedNormal(p), AskedPrioritySize(p), AskedNormalSize(p), online)
      /\ p \in Premium => p \in ToSet(AskedPriority(p))
      /\ p \notin Premium => p \in ToSet(AskedNormal(p))
  BY <1>1, Asked
<1>3. late' \subseteq Waiting'
  BY <1>1
<1>4. CASE /\ online' = online \union {p}
           /\ priorityList' = Without(AskedPriority(p), p)
           /\ normalList' = Without(AskedNormal(p), p)
           /\ prioritySize' = LeastOf(AskedPrioritySize(p), Len(priorityList') + MaxDrift)
           /\ normalSize' = AskedPrioritySize(p) + AskedNormalSize(p) - 1 - prioritySize'
  <2>1. Lists(priorityList', normalList', prioritySize', normalSize', online')
    BY <1>2, <1>4, LetIn
  <2>2. online' \subseteq Persons /\ IsFiniteSet(online')
    BY <1>4, FS_AddElement DEF WaitInv
  <2> QED
    BY <1>3, <2>1, <2>2 DEF WaitInv
<1>5. CASE /\ priorityList' = AskedPriority(p) /\ normalList' = AskedNormal(p)
           /\ prioritySize' = AskedPrioritySize(p) /\ normalSize' = AskedNormalSize(p)
           /\ UNCHANGED online
  BY <1>2, <1>3, <1>5 DEF WaitInv
<1> QED
  BY <1>4, <1>5, AskUnfolds

LEMMA WaitInitially == WaitInit => WaitInv
<1> SUFFICES ASSUME WaitInit PROVE WaitInv
  OBVIOUS
<1>1. /\ online = {} /\ priorityList = <<>> /\ normalList = <<>> /\ prioritySize = 0 /\ normalSize = 0
      /\ late = {}
  BY DEF WaitInit
<1>2. ToSet(<<>>) = {} /\ IsInjective(<<>>) /\ Len(<<>>) = 0
  BY DEF ToSet, IsInjective
<1>3. <<>> \in Seq(Premium) /\ <<>> \in Seq(Persons \ Premium)
  OBVIOUS
<1>4. Lists(<<>>, <<>>, 0, 0, {})
  BY <1>2, <1>3 DEF Lists
<1> QED
  BY <1>1, <1>4, FS_EmptySet DEF WaitInv

LEMMA WaitKeeps == WaitInv /\ [WaitNext]_waitVars => WaitInv'
<1> SUFFICES ASSUME WaitInv, [WaitNext]_waitVars PROVE WaitInv'
  OBVIOUS
<1>1. ASSUME NEW p \in Persons, WalkIn(p) PROVE WaitInv'
  <2>1. /\ online' = online \union {p} /\ priorityList = <<>> /\ normalList = <<>>
        /\ UNCHANGED <<priorityList, normalList, prioritySize, normalSize, late>>
    BY <1>1 DEF WalkIn
  <2>2. ToSet(priorityList) = {} /\ ToSet(normalList) = {}
    BY <2>1 DEF ToSet
  <2>3. Lists(priorityList, normalList, prioritySize, normalSize, online')
    BY <2>2 DEF WaitInv, Lists
  <2>4. online' \subseteq Persons /\ IsFiniteSet(online')
    BY <2>1, FS_AddElement DEF WaitInv
  <2> QED
    BY <2>1, <2>3, <2>4 DEF WaitInv, Waiting
<1>2. ASSUME NEW p \in Persons, AskAtList(p) PROVE WaitInv'
  BY <1>2, AskKeeps
<1>3. ASSUME NEW p \in Persons, Lapse(p) PROVE WaitInv'
  BY <1>3 DEF Lapse, WaitInv, Waiting
<1>4. ASSUME NEW p \in Persons, LogOut(p) PROVE WaitInv'
  <2>1. online' = online \ {p} /\ UNCHANGED <<priorityList, normalList, prioritySize, normalSize, late>>
    BY <1>4 DEF LogOut
  <2>2. online' \subseteq Persons /\ IsFiniteSet(online')
    BY <2>1, FS_RemoveElement DEF WaitInv
  <2> QED
    BY <2>1, <2>2 DEF WaitInv, Waiting, Lists
<1>5. CASE UNCHANGED waitVars
  BY <1>5 DEF waitVars, WaitInv, Waiting
<1> QED
  BY <1>1, <1>2, <1>3, <1>4, <1>5 DEF WaitNext

\* Each one waits once, in the list of his kind, and the sizes drift apart
\* while their sum stays right.
THEOREM WaitTypeCorrect == WaitSpec => []WaitTypeOK
<1>1. WaitInv => WaitTypeOK
  BY DEF WaitInv, Lists, WaitTypeOK, Waiting
<1>2. WaitSpec => []WaitInv
  BY WaitInitially, WaitKeeps, PTL DEF WaitSpec
<1> QED
  BY <1>1, <1>2, PTL

\* Those ahead of p.
Ahead(p) ==
  LET pl == OnTime(priorityList)
      nl == OnTime(normalList)
  IN IF p \in ToSet(pl) \union ToSet(nl) THEN Place(p, pl, nl) - 1
     ELSE IF p \in Premium THEN Len(pl) ELSE Len(pl) + Len(nl)

\* The slot counts everyone ahead, whatever became of the sizes.
LEMMA SlotCounts ==
  ASSUME WaitInv, NEW p \in Persons, p \notin online
  PROVE  Ahead(p) \in Int /\ AskedSlot(p) \in Int /\ Ahead(p) + 1 <= AskedSlot(p)
<1> DEFINE pl == AskedPriority(p)
           nl == AskedNormal(p)
           pSize == AskedPrioritySize(p)
           nSize == AskedNormalSize(p)
           cp == OnTime(priorityList)
           cn == OnTime(normalList)
<1>1. /\ cp \in Seq(Premium) /\ IsInjective(cp) /\ ToSet(cp) = ToSet(priorityList) \ late
      /\ cn \in Seq(Persons \ Premium) /\ IsInjective(cn) /\ ToSet(cn) = ToSet(normalList) \ late
  BY CleanedFacts
<1>2. /\ pl \in Seq(Premium) /\ nl \in Seq(Persons \ Premium) /\ pSize \in Int /\ nSize \in Int
      /\ pSize >= Len(pl) /\ pSize + nSize = Len(pl) + Len(nl)
  BY Asked DEF Lists
<1>3. /\ pl = IF p \in Premium THEN Added(cp, p) ELSE cp
      /\ nl = IF p \in Premium THEN cn ELSE Added(cn, p)
  BY DEF AskedPriority, AskedNormal, Cleaned
<1>4. /\ Ahead(p) = IF p \in ToSet(cp) \union ToSet(cn) THEN Place(p, cp, cn) - 1
                     ELSE IF p \in Premium THEN Len(cp) ELSE Len(cp) + Len(cn)
  BY DEF Ahead
<1>5. AskedSlot(p) = IF p \in Waiting \ late
                     THEN IF p \in Premium THEN Position(pl, p) ELSE pSize + Position(nl, p)
                     ELSE IF p \in Premium THEN pSize ELSE pSize + nSize
  BY DEF AskedSlot, Slot
<1> HIDE DEF pl, nl, pSize, nSize, cp, cn
<1>6. /\ Len(cp) \in Nat /\ Len(cn) \in Nat /\ Len(pl) \in Nat /\ Len(nl) \in Nat
      /\ ToSet(cp) \subseteq Premium /\ ToSet(cn) \subseteq Persons \ Premium
      /\ p \in ToSet(cp) => Position(cp, p) \in Nat
      /\ p \in ToSet(cn) => Position(cn, p) \in Nat
  BY <1>1, <1>2, ListSet
<1>7. p \in Waiting \ late <=> p \in ToSet(cp) \union ToSet(cn)
  BY <1>1 DEF Waiting
<1>8. CASE p \in Premium
  <2>1. nl = cn /\ pl = Added(cp, p) /\ p \notin ToSet(cn)
    BY <1>3, <1>6, <1>8
  <2>2. CASE p \in ToSet(cp)
    <3>1. pl = cp
      BY <1>1, <1>8, <2>1, <2>2, AddedFacts
    <3>2. Ahead(p) = Position(cp, p) - 1 /\ AskedSlot(p) = Position(cp, p)
      BY <1>4, <1>5, <1>7, <1>8, <2>2, <3>1 DEF Place
    <3> QED
      BY <1>6, <2>2, <3>2
  <2>3. CASE p \notin ToSet(cp)
    <3>1. Len(pl) = Len(cp) + 1
      BY <1>1, <1>8, <2>1, <2>3, AddedFacts
    <3>2. Ahead(p) = Len(cp) /\ AskedSlot(p) = pSize
      BY <1>4, <1>5, <1>7, <1>8, <2>1, <2>3
    <3> QED
      BY <1>2, <1>6, <3>1, <3>2
  <2> QED
    BY <2>2, <2>3
<1>9. CASE p \notin Premium
  <2>1. pl = cp /\ nl = Added(cn, p) /\ p \notin ToSet(cp)
    BY <1>3, <1>6, <1>9
  <2>2. CASE p \in ToSet(cn)
    <3>1. nl = cn
      BY <1>1, <1>9, <2>1, <2>2, AddedFacts
    <3>2. Ahead(p) = (Len(cp) + Position(cn, p)) - 1
      BY <1>4, <1>9, <2>2 DEF Place
    <3>4. AskedSlot(p) = pSize + Position(cn, p)
      BY <1>5, <1>7, <1>9, <2>2, <3>1
    <3>3. pSize >= Len(cp)
      BY <1>2, <2>1
    <3> QED
      BY <1>2, <1>6, <2>2, <3>2, <3>3, <3>4
  <2>3. CASE p \notin ToSet(cn)
    <3>1. Len(nl) = Len(cn) + 1
      BY <1>1, <1>9, <2>1, <2>3, AddedFacts
    <3>2. Ahead(p) = Len(cp) + Len(cn) /\ AskedSlot(p) = pSize + nSize
      BY <1>4, <1>5, <1>7, <1>9, <2>1, <2>3
    <3>3. pSize + nSize = Len(cp) + Len(nl)
      BY <1>2, <2>1
    <3> QED
      BY <1>2, <1>6, <3>1, <3>2, <3>3
  <2> QED
    BY <2>2, <2>3
<1> QED
  BY <1>8, <1>9

SeatsStep == \A p \in online' \ online : Cardinality(online') + Ahead(p) <= MaxPlayers

LEMMA SeatsAreKept == WaitInv /\ [WaitNext]_waitVars => [SeatsStep]_waitVars
<1> SUFFICES ASSUME WaitInv, WaitNext, NEW q \in online' \ online
             PROVE  Cardinality(online') + Ahead(q) <= MaxPlayers
  BY DEF SeatsStep
<1>1. IsFiniteSet(online) /\ Cardinality(online) \in Nat /\ MaxPlayers \in Nat
  BY WaitListAssumption, FS_CardinalityType DEF WaitInv
<1>2. \A p : p \notin online => Cardinality(online \union {p}) = Cardinality(online) + 1
  BY <1>1, FS_AddElement
<1>3. ASSUME NEW p \in Persons, WalkIn(p) PROVE Cardinality(online') + Ahead(q) <= MaxPlayers
  <2>1. /\ priorityList = <<>> /\ normalList = <<>> /\ Cardinality(online) < MaxPlayers
        /\ online' = online \union {p} /\ p \notin online
    BY <1>3 DEF WalkIn
  <2> DEFINE cp == OnTime(priorityList)
             cn == OnTime(normalList)
  <2>2. /\ cp \in Seq(Premium) /\ cn \in Seq(Persons \ Premium)
        /\ ToSet(cp) = ToSet(priorityList) \ late /\ ToSet(cn) = ToSet(normalList) \ late
    BY CleanedFacts
  <2>3. ToSet(cp) = {} /\ ToSet(cn) = {}
    BY <2>1, <2>2 DEF ToSet
  <2>4. Ahead(q) = IF q \in ToSet(cp) \union ToSet(cn) THEN Place(q, cp, cn) - 1
                   ELSE IF q \in Premium THEN Len(cp) ELSE Len(cp) + Len(cn)
    BY DEF Ahead
  <2> HIDE DEF cp, cn
  <2>5. Len(cp) = 0 /\ Len(cn) = 0
    <3>1. Len(cp) \in Nat /\ DOMAIN cp = 1..Len(cp) /\ Len(cn) \in Nat /\ DOMAIN cn = 1..Len(cn)
      BY <2>2
    <3>2. DOMAIN cp = {} /\ DOMAIN cn = {}
      BY <2>3 DEF ToSet
    <3>3. \A n \in Nat : 1..n = {} => n = 0
      <4>1. \A n \in Nat : n # 0 => 1 \in 1..n
        OBVIOUS
      <4> QED
        BY <4>1
    <3> QED
      BY <3>1, <3>2, <3>3
  <2>6. Ahead(q) = 0
    BY <2>3, <2>4, <2>5
  <2> QED
    BY <1>1, <1>2, <2>1, <2>6
<1>4. ASSUME NEW p \in Persons, AskAtList(p) PROVE Cardinality(online') + Ahead(q) <= MaxPlayers
  <2>1. p \notin online /\ online' = online \union {p} /\ Fits(AskedSlot(p))
    BY <1>4, AskUnfolds
  <2>2. q = p
    BY <2>1
  <2>3. Ahead(p) \in Int /\ AskedSlot(p) \in Int /\ Ahead(p) + 1 <= AskedSlot(p)
    BY <2>1, SlotCounts
  <2>4. Cardinality(online) + AskedSlot(p) <= MaxPlayers
    BY <2>1 DEF Fits
  <2> QED
    BY <1>1, <1>2, <2>1, <2>2, <2>3, <2>4
<1>5. ASSUME NEW p \in Persons, Lapse(p) \/ LogOut(p) PROVE FALSE
  BY <1>5 DEF Lapse, LogOut
<1> QED
  BY <1>3, <1>4, <1>5 DEF WaitNext

\* A player who is let in leaves a seat for everyone who waits ahead of him
\* and still comes, and the server is never overfull.
THEOREM NobodyGetsPast == WaitSpec => SeatsKept
<1>1. WaitInv /\ [WaitNext]_waitVars => [\A p \in online' \ online :
       LET pl == OnTime(priorityList)
           nl == OnTime(normalList)
           ahead == IF p \in ToSet(pl) \union ToSet(nl) THEN Place(p, pl, nl) - 1
                    ELSE IF p \in Premium THEN Len(pl) ELSE Len(pl) + Len(nl)
       IN Cardinality(online') + ahead <= MaxPlayers]_waitVars
  BY SeatsAreKept DEF SeatsStep, Ahead
<1> QED
  BY <1>1, WaitInitially, WaitKeeps, PTL DEF WaitSpec, SeatsKept

-----------------------------------------------------------------------------
(* Market. *)

\* What all offers to sell, and to buy, amount to.
SaleAmount(F) == AmountOf({o \in F : o.sale})
BuyAmount(F) == AmountOf({o \in F : ~o.sale})

\* The sum the model writes with a LAMBDA.
LEMMA AmountFold ==
  ASSUME NEW F, IsFiniteSet(F), NEW a \in [F -> Int], \A f \in F : a[f] = f.amount
  PROVE  AmountOf(F) = SumFunction(a)
<1> DEFINE Fixed(g) == g = [s \in SUBSET F |-> IF s = {} THEN 0
                            ELSE (CHOOSE x \in s : TRUE).amount + g[s \ {CHOOSE x \in s : TRUE}]]
           c == CHOOSE g : Fixed(g)
<1>1. \A s \in SUBSET F : s # {} => a[CHOOSE x \in s : TRUE] = (CHOOSE x \in s : TRUE).amount
  OBVIOUS
<1>2. \E h \in [SUBSET F -> Int] : \A s \in SUBSET F : h[s] = FoldStep(a, h, s)
  <2> HIDE DEF c, Fixed
  <2>1. IsFiniteSet(F) /\ a \in [F -> Int]
    OBVIOUS
  <2> QED
    BY ONLY <2>1, FoldExists
<1>3. \E h : Fixed(h)
  <2>1. PICK h \in [SUBSET F -> Int] : \A s \in SUBSET F : h[s] = FoldStep(a, h, s)
    BY <1>2
  <2>2. Fixed(h)
    BY <1>1, <2>1 DEF FoldStep, Chosen
  <2> QED
    BY <2>2
<1>4. Fixed(c)
  BY <1>3, Zenon
<1>5. AmountOf(F) = c[F]
  BY Zenon DEF AmountOf, MapThenSumSet, MapThenFoldSet
<1> HIDE DEF c
<1>6. c = [s \in SUBSET F |-> IF s = {} THEN 0
                            ELSE a[CHOOSE x \in s : TRUE] + c[s \ {CHOOSE x \in s : TRUE}]]
  BY <1>1, <1>4
<1>7. Sums(a, F, c)
  BY <1>6, FoldSums
<1> QED
  BY <1>5, <1>7, FoldIsSum

LEMMA AmountIsSum ==
  ASSUME NEW F \in SUBSET Offers, IsFiniteSet(F)
  PROVE  /\ [f \in F |-> f.amount] \in [F -> Int]
         /\ AmountOf(F) = SumFunction([f \in F |-> f.amount])
         /\ AmountOf(F) \in Int
<1> DEFINE a == [f \in F |-> f.amount]
<1>1. a \in [F -> Int] /\ \A f \in F : a[f] = f.amount
  BY MarketAssumption DEF Offers, Amounts
<1> HIDE DEF a
<1>2. AmountOf(F) = SumFunction(a) /\ SumFunction(a) \in Int
  BY <1>1, AmountFold, SumType
<1> QED
  BY <1>1, <1>2 DEF a

\* One offer more.
LEMMA AmountInsert ==
  ASSUME NEW F \in SUBSET Offers, IsFiniteSet(F), NEW x \in Offers, x \notin F
  PROVE  /\ F \union {x} \in SUBSET Offers /\ IsFiniteSet(F \union {x})
         /\ AmountOf(F \union {x}) = AmountOf(F) + x.amount
<1> DEFINE G == F \union {x}
           a == [f \in F |-> f.amount]
           b == [f \in G |-> f.amount]
<1>1. G \in SUBSET Offers /\ IsFiniteSet(G)
  BY FS_AddElement
<1>2. a \in [F -> Int] /\ AmountOf(F) = SumFunction(a)
  BY AmountIsSum
<1>3. b \in [G -> Int] /\ AmountOf(G) = SumFunction(b)
  BY <1>1, AmountIsSum
<1>4. b[x] = x.amount /\ \A f \in F : a[f] = b[f]
  OBVIOUS
<1> HIDE DEF a, b
<1>5. SumFunction(b) = SumFunction(a) + b[x]
  BY <1>2, <1>3, <1>4, SumInsert
<1> QED
  BY <1>1, <1>2, <1>3, <1>4, <1>5

LEMMA NoAmount == AmountOf({}) = 0
<1> DEFINE a == [f \in {} |-> f.amount]
<1>1. IsFiniteSet({})
  BY FS_EmptySet
<1>2. a \in [{} -> Int] /\ AmountOf({}) = SumFunction(a)
  BY <1>1, AmountIsSum
<1> HIDE DEF a
<1>3. PICK g : Sums(a, {}, g) /\ SumFunction(a) = g[{}]
  BY <1>1, <1>2, SumExists
<1> QED
  BY <1>2, <1>3 DEF Sums

LEMMA OfferAdded ==
  ASSUME NEW F \in SUBSET Offers, IsFiniteSet(F), NEW x \in Offers, x \notin F
  PROVE  /\ SaleAmount(F) \in Int /\ BuyAmount(F) \in Int
         /\ SaleAmount(F \union {x}) = SaleAmount(F) + IF x.sale THEN x.amount ELSE 0
         /\ BuyAmount(F \union {x}) = BuyAmount(F) + IF x.sale THEN 0 ELSE x.amount
<1> DEFINE S == {o \in F : o.sale}
           B == {o \in F : ~o.sale}
           S1 == {o \in F \union {x} : o.sale}
           B1 == {o \in F \union {x} : ~o.sale}
<1>1. IsFiniteSet(S) /\ IsFiniteSet(B) /\ S \in SUBSET Offers /\ B \in SUBSET Offers
  BY FS_Subset
<1>2. x \notin S /\ x \notin B
  OBVIOUS
<1>3. AmountOf(S) \in Int /\ AmountOf(B) \in Int
  BY <1>1, AmountIsSum
<1>4. SaleAmount(F) = AmountOf(S) /\ BuyAmount(F) = AmountOf(B)
      /\ SaleAmount(F \union {x}) = AmountOf(S1) /\ BuyAmount(F \union {x}) = AmountOf(B1)
  BY DEF SaleAmount, BuyAmount
<1>5. CASE x.sale
  <2>1. S1 = S \union {x} /\ B1 = B
    BY <1>5
  <2> HIDE DEF S, B, S1, B1
  <2>2. AmountOf(S1) = AmountOf(S) + x.amount
    BY <1>1, <1>2, <2>1, AmountInsert
  <2>3. BuyAmount(F) + 0 = BuyAmount(F)
    BY <1>3, <1>4
  <2> QED
    BY <1>3, <1>4, <1>5, <2>1, <2>2, <2>3
<1>6. CASE ~x.sale
  <2>1. B1 = B \union {x} /\ S1 = S
    BY <1>6
  <2> HIDE DEF S, B, S1, B1
  <2>2. AmountOf(B1) = AmountOf(B) + x.amount
    BY <1>1, <1>2, <2>1, AmountInsert
  <2>3. SaleAmount(F) + 0 = SaleAmount(F)
    BY <1>3, <1>4
  <2> QED
    BY <1>3, <1>4, <1>6, <2>1, <2>2, <2>3
<1> QED
  BY <1>5, <1>6

LEMMA OfferTaken ==
  ASSUME NEW F \in SUBSET Offers, IsFiniteSet(F), NEW x \in F
  PROVE  /\ IsFiniteSet(F \ {x}) /\ F \ {x} \in SUBSET Offers
         /\ SaleAmount(F) \in Int /\ BuyAmount(F) \in Int
         /\ SaleAmount(F \ {x}) \in Int /\ BuyAmount(F \ {x}) \in Int
         /\ SaleAmount(F) = SaleAmount(F \ {x}) + IF x.sale THEN x.amount ELSE 0
         /\ BuyAmount(F) = BuyAmount(F \ {x}) + IF x.sale THEN 0 ELSE x.amount
<1> DEFINE G == F \ {x}
<1>1. IsFiniteSet(G) /\ G \in SUBSET Offers /\ x \notin G /\ x \in Offers
  BY FS_Subset
<1>2. F = G \union {x}
  OBVIOUS
<1> HIDE DEF G
<1>3. /\ SaleAmount(G) \in Int /\ BuyAmount(G) \in Int
      /\ SaleAmount(F) = SaleAmount(G) + IF x.sale THEN x.amount ELSE 0
      /\ BuyAmount(F) = BuyAmount(G) + IF x.sale THEN 0 ELSE x.amount
  BY <1>1, <1>2, OfferAdded
<1>4. x.amount \in Int
  BY MarketAssumption DEF Offers, Amounts
<1>5. SaleAmount(F) \in Int /\ BuyAmount(F) \in Int
  BY <1>3, <1>4
<1> QED
  BY <1>1, <1>3, <1>5 DEF G

\* Several offers are taken off.
LEMMA OffersTaken ==
  ASSUME NEW F \in SUBSET Offers, IsFiniteSet(F), NEW G \in SUBSET F
  PROVE  /\ SaleAmount(G) \in Int /\ BuyAmount(G) \in Int
         /\ SaleAmount(F) = SaleAmount(F \ G) + SaleAmount(G)
         /\ BuyAmount(F) = BuyAmount(F \ G) + BuyAmount(G)
<1>1. IsFiniteSet(G)
  BY FS_Subset
<1>2. ASSUME NEW H \in SUBSET F
      PROVE  IsFiniteSet(H) /\ H \in SUBSET Offers /\ SaleAmount(H) \in Int /\ BuyAmount(H) \in Int
  <2>1. IsFiniteSet(H) /\ H \in SUBSET Offers
    BY FS_Subset
  <2>2. IsFiniteSet({o \in H : o.sale}) /\ IsFiniteSet({o \in H : ~o.sale})
    BY <2>1, FS_Subset
  <2> QED
    BY <2>1, <2>2, AmountIsSum DEF SaleAmount, BuyAmount
<1> DEFINE Good == {H \in SUBSET G : /\ SaleAmount(F) = SaleAmount(F \ H) + SaleAmount(H)
                                     /\ BuyAmount(F) = BuyAmount(F \ H) + BuyAmount(H)}
<1>3. {} \in Good
  <2>1. SaleAmount({}) = 0 /\ BuyAmount({}) = 0
    <3>1. {o \in {} : o.sale} = {} /\ {o \in {} : ~o.sale} = {}
      OBVIOUS
    <3> QED
      BY <3>1, NoAmount DEF SaleAmount, BuyAmount
  <2>2. F \ {} = F /\ {} \in SUBSET G
    OBVIOUS
  <2>3. SaleAmount(F) \in Int /\ BuyAmount(F) \in Int
    BY <1>2
  <2> QED
    BY <2>1, <2>2, <2>3
<1>4. ASSUME NEW H \in Good, NEW x \in G \ H PROVE H \union {x} \in Good
  <2>1. /\ H \in SUBSET F /\ F \ H \in SUBSET F /\ x \in F \ H /\ x \notin H /\ x \in Offers
        /\ (F \ H) \ {x} = F \ (H \union {x}) /\ H \union {x} \in SUBSET G
    OBVIOUS
  <2>2. /\ SaleAmount(F \ H) = SaleAmount(F \ (H \union {x})) + IF x.sale THEN x.amount ELSE 0
        /\ BuyAmount(F \ H) = BuyAmount(F \ (H \union {x})) + IF x.sale THEN 0 ELSE x.amount
    <3> DEFINE K == F \ H
    <3>1. IsFiniteSet(K) /\ K \in SUBSET Offers /\ x \in K /\ K \ {x} = F \ (H \union {x})
      BY <1>2, <2>1
    <3> HIDE DEF K
    <3>2. /\ SaleAmount(K) = SaleAmount(K \ {x}) + IF x.sale THEN x.amount ELSE 0
          /\ BuyAmount(K) = BuyAmount(K \ {x}) + IF x.sale THEN 0 ELSE x.amount
      BY <3>1, OfferTaken
    <3> QED
      BY <3>1, <3>2 DEF K
  <2>3. /\ SaleAmount(H \union {x}) = SaleAmount(H) + IF x.sale THEN x.amount ELSE 0
        /\ BuyAmount(H \union {x}) = BuyAmount(H) + IF x.sale THEN 0 ELSE x.amount
    BY <1>2, <2>1, OfferAdded
  <2>4. x.amount \in Int
    BY <2>1, MarketAssumption DEF Offers, Amounts
  <2>5. /\ SaleAmount(H) \in Int /\ BuyAmount(H) \in Int
        /\ SaleAmount(F \ (H \union {x})) \in Int /\ BuyAmount(F \ (H \union {x})) \in Int
    BY <1>2, <2>1
  <2>6. /\ SaleAmount(F) = SaleAmount(F \ H) + SaleAmount(H)
        /\ BuyAmount(F) = BuyAmount(F \ H) + BuyAmount(H)
    OBVIOUS
  <2> HIDE DEF Good
  <2>7. SaleAmount(F) = SaleAmount(F \ (H \union {x})) + SaleAmount(H \union {x})
    BY <2>2, <2>3, <2>4, <2>5, <2>6
  <2>8. BuyAmount(F) = BuyAmount(F \ (H \union {x})) + BuyAmount(H \union {x})
    BY <2>2, <2>3, <2>4, <2>5, <2>6
  <2> QED
    BY <2>1, <2>7, <2>8 DEF Good
<1>5. G \in Good
  <2> HIDE DEF Good
  <2>1. Good \in SUBSET SUBSET G
    BY DEF Good
  <2> QED
    BY <1>1, <1>3, <1>4, <2>1, SubsetInduction
<1> QED
  BY <1>2, <1>5

\* One offer is replaced by another of the same id and kind.
LEMMA OfferReplaced ==
  ASSUME NEW F \in SUBSET Offers, IsFiniteSet(F), \A o, p \in F : o.id = p.id => o = p,
         NEW x \in F, NEW y \in Offers, y.id = x.id, y.sale = x.sale
  PROVE  LET G == (F \ {x}) \union {y}
         IN /\ G \in SUBSET Offers /\ IsFiniteSet(G) /\ \A o, p \in G : o.id = p.id => o = p
            /\ SaleAmount(F) \in Int /\ BuyAmount(F) \in Int
            /\ SaleAmount(G) = SaleAmount(F) + IF x.sale THEN y.amount - x.amount ELSE 0
            /\ BuyAmount(G) = BuyAmount(F) + IF x.sale THEN 0 ELSE y.amount - x.amount
<1> DEFINE R == F \ {x}
<1>1. /\ IsFiniteSet(R) /\ R \in SUBSET Offers
      /\ SaleAmount(F) \in Int /\ BuyAmount(F) \in Int
      /\ SaleAmount(R) \in Int /\ BuyAmount(R) \in Int
      /\ SaleAmount(F) = SaleAmount(R) + IF x.sale THEN x.amount ELSE 0
      /\ BuyAmount(F) = BuyAmount(R) + IF x.sale THEN 0 ELSE x.amount
  BY OfferTaken
<1>2. y \notin R
  OBVIOUS
<1>3. /\ \A o, p \in R \union {y} : o.id = p.id => o = p
      /\ R \union {y} \in SUBSET Offers
  OBVIOUS
<1>4. x.amount \in Int /\ y.amount \in Int /\ x.sale \in BOOLEAN
  BY MarketAssumption DEF Offers, Amounts
<1> HIDE DEF R
<1>5. /\ IsFiniteSet(R \union {y})
      /\ SaleAmount(R \union {y}) = SaleAmount(R) + IF y.sale THEN y.amount ELSE 0
      /\ BuyAmount(R \union {y}) = BuyAmount(R) + IF y.sale THEN 0 ELSE y.amount
  BY <1>1, <1>2, OfferAdded, FS_AddElement
<1>6. CASE x.sale
  BY <1>1, <1>3, <1>4, <1>5, <1>6 DEF R
<1>7. CASE ~x.sale
  BY <1>1, <1>3, <1>4, <1>5, <1>7 DEF R
<1> QED
  BY <1>4, <1>6, <1>7

-----------------------------------------------------------------------------
(* What the traders hold. *)

LEMMA HeldIsSum ==
  ASSUME NEW h \in [Traders -> Int]
  PROVE  HeldBy(h) = SumFunction(h) /\ HeldBy(h) \in Int
<1>1. DOMAIN h = Traders
  OBVIOUS
<1>2. SumFunction(h) = SumFunctionOnSet(h, Traders)
  BY <1>1 DEF SumFunction
<1>3. SumFunctionOnSet(h, Traders) = HeldBy(h)
  BY Zenon DEF SumFunctionOnSet, FoldFunctionOnSet, HeldBy, MapThenSumSet, MapThenFoldSet
<1> QED
  BY <1>2, <1>3, SumType, MarketAssumption

LEMMA HeldPlus ==
  ASSUME NEW h \in [Traders -> Int], NEW d \in [Traders -> Int], NEW k \in [Traders -> Int],
         \A t \in Traders : k[t] = h[t] + d[t]
  PROVE  HeldBy(k) = HeldBy(h) + SumFunction(d)
<1>1. SumFunction(k) = SumFunction(h) + SumFunction(d)
  BY SumPlus, MarketAssumption
<1> QED
  BY <1>1, HeldIsSum

LEMMA HeldOne ==
  ASSUME NEW h \in [Traders -> Int], NEW t \in Traders, NEW n \in Int, NEW k \in [Traders -> Int],
         k[t] = h[t] + n, \A u \in Traders \ {t} : k[u] = h[u]
  PROVE  HeldBy(k) = HeldBy(h) + n
<1> DEFINE d == Only(Traders, t, n)
<1>1. d \in [Traders -> Int] /\ SumFunction(d) = n
  BY SumOnly, MarketAssumption
<1>2. \A u \in Traders : k[u] = h[u] + d[u]
  BY DEF Only
<1> HIDE DEF d
<1> QED
  BY <1>1, <1>2, HeldPlus

LEMMA HeldTwo ==
  ASSUME NEW h \in [Traders -> Int], NEW t \in Traders, NEW u \in Traders, t # u,
         NEW m \in Int, NEW n \in Int,
         NEW k \in [Traders -> Int], k[t] = h[t] + m, k[u] = h[u] + n,
         \A v \in Traders \ {t, u} : k[v] = h[v]
  PROVE  HeldBy(k) = HeldBy(h) + m + n
<1> DEFINE i == [h EXCEPT ![t] = @ + m]
<1>1. i \in [Traders -> Int] /\ i[t] = h[t] + m /\ \A v \in Traders \ {t} : i[v] = h[v]
  OBVIOUS
<1>2. k[u] = i[u] + n /\ \A v \in Traders \ {u} : k[v] = i[v]
  BY <1>1
<1> HIDE DEF i
<1>3. HeldBy(i) = HeldBy(h) + m
  BY <1>1, HeldOne
<1>4. HeldBy(k) = HeldBy(i) + n
  BY <1>1, <1>2, HeldOne
<1>5. HeldBy(h) \in Int
  BY HeldIsSum
<1> QED
  BY <1>3, <1>4, <1>5

LEMMA Distribute ==
  ASSUME NEW p \in Int, NEW m \in Int, NEW n \in Int
  PROVE  p * (m + n) = p * m + p * n /\ p * (m - n) = p * m - p * n
         /\ p * m \in Int /\ p * n \in Int /\ p * 0 = 0 /\ p * 1 = p
OBVIOUS

LEMMA SameInsert ==
  ASSUME NEW n \in Int, NEW T, IsFiniteSet(T), NEW x, x \notin T
  PROVE  SumFunction([t \in T \union {x} |-> n]) = SumFunction([t \in T |-> n]) + n
<1> DEFINE f == [t \in T \union {x} |-> n]
           h == [t \in T |-> n]
<1>1. f \in [T \union {x} -> Int] /\ h \in [T -> Int] /\ f[x] = n /\ \A y \in T : h[y] = f[y]
  OBVIOUS
<1> HIDE DEF f, h
<1>2. SumFunction(f) = SumFunction(h) + f[x]
  BY <1>1, SumInsert
<1> QED
  BY <1>1, <1>2 DEF f, h

\* Everybody holds n.
LEMMA HeldSame ==
  ASSUME NEW n \in Int
  PROVE  HeldBy([t \in Traders |-> n]) = n * Cardinality(Traders)
<1> DEFINE same(T) == [t \in T |-> n]
           Good == {T \in SUBSET Traders : SumFunction(same(T)) = n * Cardinality(T)}
<1>0. ASSUME NEW T \in SUBSET Traders
      PROVE  IsFiniteSet(T) /\ Cardinality(T) \in Nat /\ same(T) \in [T -> Int] /\ SumFunction(same(T)) \in Int
  <2>1. IsFiniteSet(T) /\ Cardinality(T) \in Nat
    BY MarketAssumption, FS_Subset, FS_CardinalityType
  <2>2. same(T) \in [T -> Int]
    OBVIOUS
  <2> HIDE DEF same
  <2> QED
    BY <2>1, <2>2, SumType
<1>1. {} \in Good
  <2>1. same({}) \in [{} -> Int] /\ IsFiniteSet({})
    BY <1>0
  <2> HIDE DEF same
  <2>2. SumFunction(same({})) = 0
    <3>1. PICK g : Sums(same({}), {}, g) /\ SumFunction(same({})) = g[{}]
      BY <2>1, SumExists
    <3> QED
      BY <3>1 DEF Sums
  <2> QED
    BY <2>2, FS_EmptySet, Distribute
<1>2. ASSUME NEW T \in Good, NEW x \in Traders \ T PROVE T \union {x} \in Good
  <2> DEFINE U == T \union {x}
  <2>1. T \in SUBSET Traders /\ U \in SUBSET Traders /\ SumFunction(same(T)) = n * Cardinality(T)
    OBVIOUS
  <2>2. same(U)[x] = n /\ \A y \in T : same(T)[y] = same(U)[y]
    OBVIOUS
  <2>3. IsFiniteSet(T) /\ Cardinality(T) \in Nat /\ same(T) \in [T -> Int] /\ same(U) \in [U -> Int]
    BY <1>0, <2>1
  <2>4. Cardinality(U) = Cardinality(T) + 1
    BY <2>3, FS_AddElement
  <2>5. SumFunction(same(U)) = SumFunction(same(T)) + same(U)[x]
    <3>1. x \notin T
      OBVIOUS
    <3>2. SumFunction([t \in T \union {x} |-> n]) = SumFunction([t \in T |-> n]) + n
      BY ONLY <2>3, <3>1, n \in Int, SameInsert
    <3> QED
      BY <2>2, <3>2
  <2>6. n * (Cardinality(T) + 1) = n * Cardinality(T) + n
    BY <2>3, Distribute
  <2> HIDE DEF same
  <2> QED
    BY <2>1, <2>2, <2>4, <2>5, <2>6
<1>3. Traders \in Good
  <2> HIDE DEF Good
  <2>1. Good \in SUBSET SUBSET Traders
    BY DEF Good
  <2> QED
    BY <1>1, <1>2, <2>1, SubsetInduction, MarketAssumption
<1>4. same(Traders) \in [Traders -> Int] /\ SumFunction(same(Traders)) = n * Cardinality(Traders)
  BY <1>3
<1> HIDE DEF same
<1>5. HeldBy(same(Traders)) = n * Cardinality(Traders)
  BY <1>4, HeldIsSum
<1> QED
  BY <1>5 DEF same

-----------------------------------------------------------------------------
(* What is given back, trader by trader. *)

GoodsPer(F) == [t \in Traders |-> GoodsOf(t, F)]
GoldPer(F) == [t \in Traders |-> GoldOf(t, F)]

\* No offers amount to less than nothing.
LEMMA AmountIsNat ==
  ASSUME NEW F \in SUBSET Offers, IsFiniteSet(F)
  PROVE  AmountOf(F) \in Nat
<1> DEFINE a == [f \in F |-> f.amount]
           z == Only(F, 0, 0)
<1>1. a \in [F -> Int] /\ AmountOf(F) = SumFunction(a) /\ AmountOf(F) \in Int
  BY AmountIsSum
<1>2. z \in [F -> Int] /\ SumFunction(z) = 0
  BY SumOnly
<1>3. \A f \in F : z[f] <= a[f]
  BY MarketAssumption DEF Only, Offers, Amounts
<1> HIDE DEF a, z
<1>4. SumFunction(z) <= SumFunction(a)
  BY <1>1, <1>2, <1>3, SumAtMost
<1> QED
  BY <1>1, <1>2, <1>4

LEMMA PerTrader ==
  ASSUME NEW F \in SUBSET Offers, IsFiniteSet(F), NEW t \in Traders
  PROVE  /\ GoodsOf(t, F) \in Nat /\ GoldOf(t, F) \in Nat
         /\ GoodsOf(t, F) = AmountOf({f \in F : f.by = t /\ f.sale})
         /\ GoldOf(t, F) = Price * AmountOf({f \in F : f.by = t /\ ~f.sale})
<1> DEFINE S == {f \in F : f.by = t /\ f.sale}
           B == {f \in F : f.by = t /\ ~f.sale}
<1>1. S \in SUBSET Offers /\ IsFiniteSet(S) /\ B \in SUBSET Offers /\ IsFiniteSet(B)
  BY FS_Subset
<1>2. GoodsOf(t, F) = AmountOf(S)
  BY Zenon DEF GoodsOf, AmountOf
<1>3. GoldOf(t, F) = Price * AmountOf(B)
  BY Zenon DEF GoldOf, AmountOf
<1> HIDE DEF S, B
<1>4. AmountOf(S) \in Nat /\ AmountOf(B) \in Nat
  BY <1>1, AmountIsNat
<1>5. Price * AmountOf(B) \in Nat
  BY <1>4, MarketAssumption
<1> QED
  BY <1>2, <1>3, <1>4, <1>5 DEF S, B

\* One offer more is one trader's.
LEMMA PerTraderAdded ==
  ASSUME NEW F \in SUBSET Offers, IsFiniteSet(F), NEW x \in Offers, x \notin F, NEW t \in Traders
  PROVE  /\ GoodsOf(t, F \union {x}) = GoodsOf(t, F) + IF t = x.by /\ x.sale THEN x.amount ELSE 0
         /\ GoldOf(t, F \union {x}) = GoldOf(t, F) + IF t = x.by /\ ~x.sale THEN Price * x.amount ELSE 0
<1> DEFINE S == {f \in F : f.by = t /\ f.sale}
           B == {f \in F : f.by = t /\ ~f.sale}
           S1 == {f \in F \union {x} : f.by = t /\ f.sale}
           B1 == {f \in F \union {x} : f.by = t /\ ~f.sale}
<1>1. /\ S \in SUBSET Offers /\ IsFiniteSet(S) /\ B \in SUBSET Offers /\ IsFiniteSet(B)
      /\ x \notin S /\ x \notin B
  BY FS_Subset
<1>2. F \union {x} \in SUBSET Offers /\ IsFiniteSet(F \union {x})
  BY FS_AddElement
<1>3. GoodsOf(t, F) = AmountOf(S) /\ GoldOf(t, F) = Price * AmountOf(B)
  BY PerTrader
<1>4. GoodsOf(t, F \union {x}) = AmountOf(S1) /\ GoldOf(t, F \union {x}) = Price * AmountOf(B1)
  BY <1>2, PerTrader
<1>5. S1 = IF t = x.by /\ x.sale THEN S \union {x} ELSE S
  OBVIOUS
<1>6. B1 = IF t = x.by /\ ~x.sale THEN B \union {x} ELSE B
  OBVIOUS
<1> HIDE DEF S, B, S1, B1
<1>7. AmountOf(S \union {x}) = AmountOf(S) + x.amount /\ AmountOf(B \union {x}) = AmountOf(B) + x.amount
  BY <1>1, AmountInsert
<1>8. AmountOf(S) \in Int /\ AmountOf(B) \in Int
  BY <1>1, AmountIsSum
<1>9. x.amount \in Int /\ Price \in Int
  BY MarketAssumption DEF Offers, Amounts
<1>10. /\ Price * (AmountOf(B) + x.amount) = Price * AmountOf(B) + Price * x.amount
       /\ Price * AmountOf(B) \in Int
  BY <1>8, <1>9, Distribute
<1>11. GoodsOf(t, F \union {x}) = GoodsOf(t, F) + IF t = x.by /\ x.sale THEN x.amount ELSE 0
  BY <1>3, <1>4, <1>5, <1>7, <1>8
<1>12. GoldOf(t, F \union {x}) = GoldOf(t, F) + IF t = x.by /\ ~x.sale THEN Price * x.amount ELSE 0
  BY <1>3, <1>4, <1>6, <1>7, <1>10
<1> QED
  BY <1>11, <1>12

\* All traders together get what the offers amount to.
LEMMA GoodsReturned ==
  ASSUME NEW F \in SUBSET Offers, IsFiniteSet(F)
  PROVE  /\ GoodsPer(F) \in [Traders -> Int] /\ GoldPer(F) \in [Traders -> Int]
         /\ SumFunction(GoodsPer(F)) = SaleAmount(F)
         /\ SumFunction(GoldPer(F)) = Price * BuyAmount(F)
<1>1. ASSUME NEW H \in SUBSET F
      PROVE  /\ IsFiniteSet(H) /\ H \in SUBSET Offers
             /\ GoodsPer(H) \in [Traders -> Int] /\ GoldPer(H) \in [Traders -> Int]
             /\ SaleAmount(H) \in Int /\ BuyAmount(H) \in Int
  <2>1. IsFiniteSet(H) /\ H \in SUBSET Offers
    BY FS_Subset
  <2>2. ASSUME NEW t \in Traders PROVE GoodsOf(t, H) \in Int /\ GoldOf(t, H) \in Int
    <3>1. GoodsOf(t, H) \in Nat /\ GoldOf(t, H) \in Nat
      BY <2>1, PerTrader
    <3> QED
      BY <3>1
  <2>3. H \in SUBSET H
    OBVIOUS
  <2> QED
    BY <2>1, <2>2, <2>3, OffersTaken DEF GoodsPer, GoldPer
<1> DEFINE Good == {H \in SUBSET F : /\ SumFunction(GoodsPer(H)) = SaleAmount(H)
                                     /\ SumFunction(GoldPer(H)) = Price * BuyAmount(H)}
<1>2. {} \in Good
  <2>1. {o \in {} : o.sale} = {} /\ {o \in {} : ~o.sale} = {}
    OBVIOUS
  <2>2. SaleAmount({}) = 0 /\ BuyAmount({}) = 0
    BY <2>1, NoAmount DEF SaleAmount, BuyAmount
  <2>3. Price * 0 = 0
    BY MarketAssumption, Distribute
  <2>4. ASSUME NEW t \in Traders PROVE GoodsOf(t, {}) = 0 /\ GoldOf(t, {}) = 0
    <3>1. {f \in {} : f.by = t /\ f.sale} = {} /\ {f \in {} : f.by = t /\ ~f.sale} = {}
      OBVIOUS
    <3>2. IsFiniteSet({}) /\ {} \in SUBSET Offers
      BY FS_EmptySet
    <3> QED
      BY <2>3, <3>1, <3>2, PerTrader, NoAmount
  <2> DEFINE z == Only(Traders, 0, 0)
  <2>5. GoodsPer({}) = z /\ GoldPer({}) = z
    BY <2>4 DEF GoodsPer, GoldPer, Only
  <2>6. SumFunction(z) = 0
    BY SumOnly, MarketAssumption
  <2> QED
    BY <2>2, <2>3, <2>5, <2>6
<1>3. ASSUME NEW H \in Good, NEW x \in F \ H PROVE H \union {x} \in Good
  <2> DEFINE K == H \union {x}
             s == IF x.sale THEN x.amount ELSE 0
             b == IF x.sale THEN 0 ELSE x.amount
             pb == IF x.sale THEN 0 ELSE Price * x.amount
             hg == GoodsPer(H)
             kg == GoodsPer(K)
             ho == GoldPer(H)
             ko == GoldPer(K)
             dg == Only(Traders, x.by, s)
             do == Only(Traders, x.by, pb)
  <2>1. K \in SUBSET F /\ H \in SUBSET F /\ x \in Offers /\ x \notin H
    OBVIOUS
  <2>2. x.amount \in Int /\ x.by \in Traders /\ Price \in Int /\ s \in Int /\ b \in Int /\ pb \in Int
    <3>1. x.amount \in Int /\ x.by \in Traders /\ Price \in Int
      BY <2>1, MarketAssumption DEF Offers, Amounts
    <3>2. Price * x.amount \in Int
      BY <3>1, Distribute
    <3> QED
      BY <3>1, <3>2
  <2>3. /\ hg \in [Traders -> Int] /\ kg \in [Traders -> Int]
        /\ ho \in [Traders -> Int] /\ ko \in [Traders -> Int]
    BY <1>1, <2>1
  <2>4. \A t \in Traders : kg[t] = hg[t] + dg[t] /\ ko[t] = ho[t] + do[t]
    <3> TAKE t \in Traders
    <3>1. IsFiniteSet(H) /\ H \in SUBSET Offers
      BY <1>1, <2>1
    <3>2. /\ GoodsOf(t, K) = GoodsOf(t, H) + IF t = x.by /\ x.sale THEN x.amount ELSE 0
          /\ GoldOf(t, K) = GoldOf(t, H) + IF t = x.by /\ ~x.sale THEN Price * x.amount ELSE 0
      BY <2>1, <3>1, PerTraderAdded
    <3> HIDE DEF K
    <3> QED
      BY <3>2 DEF GoodsPer, GoldPer, Only
  <2>5. /\ dg \in [Traders -> Int] /\ do \in [Traders -> Int]
        /\ SumFunction(dg) = s /\ SumFunction(do) = pb
    <3> HIDE DEF s, pb
    <3> QED
      BY <2>2, SumOnly, MarketAssumption
  <2>6. SaleAmount(K) = SaleAmount(H) + s /\ BuyAmount(K) = BuyAmount(H) + b
    BY <1>1, <2>1, OfferAdded
  <2>7. SumFunction(hg) = SaleAmount(H) /\ SumFunction(ho) = Price * BuyAmount(H)
    OBVIOUS
  <2>8. SaleAmount(H) \in Int /\ BuyAmount(H) \in Int
    BY <1>1, <2>1
  <2>9. pb = Price * b
    BY <2>2, Distribute
  <2> HIDE DEF hg, kg, ho, ko, dg, do, s, b, pb, K, Good
  <2>10. SumFunction(kg) = SumFunction(hg) + SumFunction(dg)
    BY <2>3, <2>4, <2>5, SumPlus, MarketAssumption
  <2>11. SumFunction(ko) = SumFunction(ho) + SumFunction(do)
    BY <2>3, <2>4, <2>5, SumPlus, MarketAssumption
  <2>12. Price * (BuyAmount(H) + b) = Price * BuyAmount(H) + Price * b
    BY <2>2, <2>8, Distribute
  <2>13. SumFunction(kg) = SaleAmount(K) /\ SumFunction(ko) = Price * BuyAmount(K)
    BY <2>5, <2>6, <2>7, <2>9, <2>10, <2>11, <2>12
  <2> QED
    BY <2>1, <2>13 DEF Good, kg, ko, K
<1>4. F \in Good
  <2> HIDE DEF Good
  <2>1. Good \in SUBSET SUBSET F
    BY DEF Good
  <2> QED
    BY <1>2, <1>3, <2>1, SubsetInduction
<1> QED
  BY <1>1, <1>4

-----------------------------------------------------------------------------
(* The inductive invariant. *)

MarketSound ==
  /\ MarketTypeOK
  /\ IsFiniteSet(offers)
  /\ \A o \in offers : o.id <= made
  /\ \A i \in DOMAIN searches : IsFiniteSet(searches[i])

MarketInv == MarketSound /\ WealthKept

\* The balance of goods, and that of gold, as it stands.
GoodsTotal == HeldBy(goods) + SaleAmount(offers)
GoldTotal == HeldBy(gold) + Price * BuyAmount(offers) + fees

LEMMA MarketNumbers ==
  ASSUME MarketSound
  PROVE  /\ goods \in [Traders -> Int] /\ gold \in [Traders -> Int]
         /\ HeldBy(goods) \in Int /\ HeldBy(gold) \in Int /\ fees \in Nat
         /\ offers \in SUBSET Offers /\ IsFiniteSet(offers)
         /\ SaleAmount(offers) \in Int /\ BuyAmount(offers) \in Int /\ Price * BuyAmount(offers) \in Int
         /\ Price \in Int
<1>1. goods \in [Traders -> Int] /\ gold \in [Traders -> Int] /\ fees \in Nat /\ Price \in Int
  BY MarketAssumption DEF MarketSound, MarketTypeOK
<1>2. offers \in SUBSET Offers /\ IsFiniteSet(offers)
  BY DEF MarketSound, MarketTypeOK
<1>3. HeldBy(goods) \in Int /\ HeldBy(gold) \in Int
  BY <1>1, HeldIsSum
<1>4. offers \in SUBSET offers
  OBVIOUS
<1>5. SaleAmount(offers) \in Int /\ BuyAmount(offers) \in Int
  BY <1>2, <1>4, OffersTaken
<1>6. Price * BuyAmount(offers) \in Int
  BY <1>1, <1>5, Distribute
<1> QED
  BY <1>1, <1>2, <1>3, <1>5, <1>6

\* A step that goes well leaves the totals as they are.
LEMMA TotalsKept ==
  ASSUME WealthKept,
         troubles' = {} => troubles = {} /\ GoodsTotal' = GoodsTotal,
         troubles' \subseteq {"short"} => troubles \subseteq {"short"} /\ GoldTotal' = GoldTotal
  PROVE  WealthKept'
<1>1. GoodsKept <=> (troubles = {} => GoodsTotal = Stock * Cardinality(Traders))
  BY DEF GoodsKept, GoodsTotal, GoodsOffered, SaleAmount
<1>2. GoldKept <=> (troubles \subseteq {"short"} => GoldTotal = Purse * Cardinality(Traders))
  BY DEF GoldKept, GoldTotal, GoldOffered, BuyAmount
<1>3. GoodsKept' <=> (troubles' = {} => GoodsTotal' = Stock * Cardinality(Traders))
  BY DEF GoodsKept, GoodsTotal, GoodsOffered, SaleAmount
<1>4. GoldKept' <=> (troubles' \subseteq {"short"} => GoldTotal' = Purse * Cardinality(Traders))
  BY DEF GoldKept, GoldTotal, GoldOffered, BuyAmount
<1> QED
  BY <1>1, <1>2, <1>3, <1>4 DEF WealthKept

LEMMA FeeIsNat ==
  ASSUME NEW m \in Nat PROVE Fee(m) \in Nat
BY DEF Fee, GreaterOf, LesserOf

\* Gold for n items, as a number.
LEMMA PriceOf ==
  ASSUME NEW n \in Nat PROVE Price * n \in Nat
BY MarketAssumption

-----------------------------------------------------------------------------
(* The rows. *)

\* Insert puts a row with an id of its own.
LEMMA Inserted ==
  ASSUME MarketSound, NEW t \in Traders, NEW sale \in BOOLEAN, NEW n \in Amounts,
         made < MaxOffers, Insert(t, sale, n)
  PROVE  /\ offers' \subseteq Offers /\ IsFiniteSet(offers') /\ made' \in 0..MaxOffers
         /\ \A o, p \in offers' : o.id = p.id => o = p
         /\ \A o \in offers' : o.id <= made'
         /\ SaleAmount(offers') = SaleAmount(offers) + IF sale THEN n ELSE 0
         /\ BuyAmount(offers') = BuyAmount(offers) + IF sale THEN 0 ELSE n
<1> DEFINE x == [id |-> made + 1, by |-> t, sale |-> sale, amount |-> n, old |-> FALSE]
<1>1. made \in Nat /\ MaxOffers \in Nat /\ made' = made + 1 /\ offers' = offers \union {x}
  BY MarketAssumption DEF MarketSound, MarketTypeOK, Insert
<1>2. x \in Offers /\ x.sale = sale /\ x.amount = n /\ x.id = made + 1
  BY <1>1 DEF Offers
<1> HIDE DEF x
<1>3. \A o \in offers : o.id \in Nat /\ o.id <= made
  BY DEF MarketSound, MarketTypeOK, Offers
<1>4. x \notin offers
  BY <1>1, <1>2, <1>3
<1>5. offers \in SUBSET Offers /\ IsFiniteSet(offers)
  BY DEF MarketSound, MarketTypeOK
<1>6. /\ SaleAmount(offers \union {x}) = SaleAmount(offers) + IF x.sale THEN x.amount ELSE 0
      /\ BuyAmount(offers \union {x}) = BuyAmount(offers) + IF x.sale THEN 0 ELSE x.amount
  BY <1>2, <1>4, <1>5, OfferAdded
<1>7. IsFiniteSet(offers \union {x}) /\ offers \union {x} \subseteq Offers
  BY <1>2, <1>5, FS_AddElement
<1>8. \A o, p \in offers' : o.id = p.id => o = p
  <2>1. \A o, p \in offers : o.id = p.id => o = p
    BY DEF MarketSound, MarketTypeOK
  <2> QED
    BY <1>1, <1>2, <1>3, <2>1
<1>9. \A o \in offers' : o.id <= made'
  BY <1>1, <1>2, <1>3
<1> QED
  BY <1>1, <1>2, <1>6, <1>7, <1>8, <1>9

\* What Less leaves of the rows: k items fewer.
LEMMA LessFacts ==
  ASSUME MarketSound, NEW o \in offers, NEW k \in 0..o.amount
  PROVE  /\ Less(o, k) \subseteq Offers /\ IsFiniteSet(Less(o, k))
         /\ \A f, g \in Less(o, k) : f.id = g.id => f = g
         /\ \A f \in Less(o, k) : f.id <= made
         /\ SaleAmount(Less(o, k)) = SaleAmount(offers) - IF o.sale THEN k ELSE 0
         /\ BuyAmount(Less(o, k)) = BuyAmount(offers) - IF o.sale THEN 0 ELSE k
<1> DEFINE y == [o EXCEPT !.amount = @ - k]
<1>1. offers \in SUBSET Offers /\ IsFiniteSet(offers) /\ \A f, g \in offers : f.id = g.id => f = g
  BY DEF MarketSound, MarketTypeOK
<1>2. o \in Offers /\ o.amount \in Int /\ k \in Int /\ o.amount >= 1 /\ o.amount <= Stock /\ Stock \in Nat /\ o.sale \in BOOLEAN
  BY <1>1, MarketAssumption DEF Offers, Amounts
<1>3. \A f \in offers : f.id <= made
  BY DEF MarketSound
<1>4. SaleAmount(offers) \in Int /\ BuyAmount(offers) \in Int
  BY MarketNumbers
<1>5. CASE o.amount = k
  <2>1. Less(o, k) = offers \ {o}
    BY <1>5 DEF Less
  <2>2. /\ IsFiniteSet(offers \ {o}) /\ offers \ {o} \in SUBSET Offers
        /\ SaleAmount(offers \ {o}) \in Int /\ BuyAmount(offers \ {o}) \in Int
        /\ SaleAmount(offers) = SaleAmount(offers \ {o}) + IF o.sale THEN o.amount ELSE 0
        /\ BuyAmount(offers) = BuyAmount(offers \ {o}) + IF o.sale THEN 0 ELSE o.amount
    BY <1>1, OfferTaken
  <2>3. /\ \A f, g \in offers \ {o} : f.id = g.id => f = g
        /\ \A f \in offers \ {o} : f.id <= made
    BY <1>1, <1>3
  <2>4. CASE o.sale
    BY <1>2, <1>5, <2>1, <2>2, <2>3, <2>4
  <2>5. CASE ~o.sale
    BY <1>2, <1>5, <2>1, <2>2, <2>3, <2>5
  <2> QED
    BY <2>4, <2>5
<1>6. CASE o.amount # k
  <2> DEFINE G == (offers \ {o}) \union {y}
  <2>1. Less(o, k) = G
    BY <1>6 DEF Less
  <2>2. o.amount - k \in Amounts
    BY <1>2, <1>6 DEF Amounts
  <2>3. y \in Offers /\ y.id = o.id /\ y.sale = o.sale /\ y.amount = o.amount - k
    BY <1>2, <2>2 DEF Offers
  <2> HIDE DEF y
  <2>4. /\ G \in SUBSET Offers /\ IsFiniteSet(G) /\ \A f, g \in G : f.id = g.id => f = g
        /\ SaleAmount(G) = SaleAmount(offers) + IF o.sale THEN y.amount - o.amount ELSE 0
        /\ BuyAmount(G) = BuyAmount(offers) + IF o.sale THEN 0 ELSE y.amount - o.amount
    BY <1>1, <2>3, OfferReplaced
  <2>5. \A f \in G : f.id <= made
    BY <1>3, <2>3
  <2> HIDE DEF G
  <2>6. y.amount - o.amount = 0 - k
    BY <1>2, <2>3
  <2>7. CASE o.sale
    BY <1>2, <1>4, <2>1, <2>4, <2>5, <2>6, <2>7
  <2>8. CASE ~o.sale
    BY <1>2, <1>4, <2>1, <2>4, <2>5, <2>6, <2>8
  <2> QED
    BY <2>7, <2>8
<1> QED
  BY <1>5, <1>6

-----------------------------------------------------------------------------
(* One lemma for each request and each task. *)

LEMMA CreateSellKeeps ==
  ASSUME MarketInv, NEW t \in Traders, NEW n \in Amounts, CreateSell(t, n)
  PROVE  MarketInv'
<1> DEFINE fee == Fee(Price * n)
<1>1. n \in Nat /\ fee \in Nat
  <2>1. n \in Nat
    BY MarketAssumption DEF Amounts
  <2> QED
    BY <2>1, PriceOf, FeeIsNat
<1>2. /\ made < MaxOffers /\ gold[t] >= fee /\ searches' = searches
      /\ goods' = [goods EXCEPT ![t] = GreaterOf(@ - n, 0)]
  BY DEF CreateSell
<1>3. MarketSound /\ WealthKept
  BY DEF MarketInv
<1>4. /\ gold \in [Traders -> Nat] /\ goods \in [Traders -> Nat] /\ fees \in Nat
      /\ troubles \subseteq {"short", "full", "stale"}
  BY <1>3 DEF MarketSound, MarketTypeOK
<1>5. goods' \in [Traders -> Nat]
  BY <1>1, <1>2, <1>4 DEF GreaterOf
<1>6. /\ goods \in [Traders -> Int] /\ gold \in [Traders -> Int]
      /\ HeldBy(goods) \in Int /\ HeldBy(gold) \in Int
      /\ SaleAmount(offers) \in Int /\ BuyAmount(offers) \in Int /\ Price * BuyAmount(offers) \in Int
  BY <1>3, MarketNumbers
<1>7. CASE goods[t] >= n
  <2>1. /\ Insert(t, TRUE, n) /\ gold' = [gold EXCEPT ![t] = @ - fee]
        /\ fees' = fees + fee /\ troubles' = troubles
    BY <1>7 DEF CreateSell
  <2> HIDE DEF fee
  <2>2. gold' \in [Traders -> Nat] /\ fees' \in Nat
    BY <1>1, <1>2, <1>4, <2>1
  <2>3. /\ offers' \subseteq Offers /\ IsFiniteSet(offers') /\ made' \in 0..MaxOffers
        /\ \A o, p \in offers' : o.id = p.id => o = p
        /\ \A o \in offers' : o.id <= made'
        /\ SaleAmount(offers') = SaleAmount(offers) + n
        /\ BuyAmount(offers') = BuyAmount(offers) + 0
    BY <1>2, <1>3, <2>1, Inserted
  <2>4. MarketSound'
    BY <1>2, <1>3, <1>4, <1>5, <2>1, <2>2, <2>3 DEF MarketSound, MarketTypeOK
  <2>5. HeldBy(goods') = HeldBy(goods) + (0 - n)
    <3>1. goods'[t] = goods[t] + (0 - n) /\ \A u \in Traders \ {t} : goods'[u] = goods[u]
      BY <1>1, <1>2, <1>4, <1>7 DEF GreaterOf
    <3>2. goods' \in [Traders -> Int] /\ 0 - n \in Int
      BY <1>1, <1>5
    <3> QED
      BY <1>6, <3>1, <3>2, HeldOne
  <2>6. HeldBy(gold') = HeldBy(gold) + (0 - fee)
    <3>1. gold'[t] = gold[t] + (0 - fee) /\ \A u \in Traders \ {t} : gold'[u] = gold[u]
      BY <1>1, <1>4, <2>1
    <3>2. gold' \in [Traders -> Int] /\ 0 - fee \in Int
      BY <1>1, <2>2
    <3> QED
      BY <1>6, <3>1, <3>2, HeldOne
  <2>7. GoodsTotal' = GoodsTotal
    BY <1>1, <1>6, <2>3, <2>5 DEF GoodsTotal
  <2>8. GoldTotal' = GoldTotal
    <3>1. BuyAmount(offers') = BuyAmount(offers)
      BY <1>6, <2>3
    <3> QED
      BY <1>1, <1>4, <1>6, <2>1, <2>6, <3>1 DEF GoldTotal
  <2>9. WealthKept'
    BY <1>3, <2>1, <2>7, <2>8, TotalsKept
  <2> QED
    BY <2>4, <2>9 DEF MarketInv
<1>8. CASE ~(goods[t] >= n)
  <2>1. troubles' = troubles \union {"short"} /\ offers' = offers /\ made' = made /\ gold' = gold /\ fees' = fees
    BY <1>8 DEF CreateSell
  <2>2. MarketSound'
    BY <1>2, <1>3, <1>5, <2>1 DEF MarketSound, MarketTypeOK
  <2>3. GoldTotal' = GoldTotal
    BY <2>1 DEF GoldTotal
  <2>4. WealthKept'
    BY <1>3, <2>1, <2>3, TotalsKept
  <2> QED
    BY <2>2, <2>4 DEF MarketInv
<1> QED
  BY <1>7, <1>8

LEMMA CreateBuyKeeps ==
  ASSUME MarketInv, NEW t \in Traders, NEW n \in Amounts, CreateBuy(t, n)
  PROVE  MarketInv'
<1> DEFINE cost == Price * n
           fee == Fee(Price * n)
<1>1. n \in Nat /\ cost \in Nat /\ fee \in Nat
  <2>1. n \in Nat
    BY MarketAssumption DEF Amounts
  <2> QED
    BY <2>1, PriceOf, FeeIsNat
<1>2. /\ made < MaxOffers /\ gold[t] >= cost + fee
      /\ gold' = [gold EXCEPT ![t] = @ - (cost + fee)] /\ fees' = fees + fee
      /\ Insert(t, FALSE, n)
      /\ goods' = goods /\ searches' = searches /\ troubles' = troubles
  BY DEF CreateBuy
<1>3. MarketSound /\ WealthKept
  BY DEF MarketInv
<1>4. gold \in [Traders -> Nat] /\ goods \in [Traders -> Nat] /\ fees \in Nat
  BY <1>3 DEF MarketSound, MarketTypeOK
<1>5. /\ goods \in [Traders -> Int] /\ gold \in [Traders -> Int]
      /\ HeldBy(goods) \in Int /\ HeldBy(gold) \in Int /\ Price \in Int
      /\ SaleAmount(offers) \in Int /\ BuyAmount(offers) \in Int /\ Price * BuyAmount(offers) \in Int
  BY <1>3, MarketNumbers
<1>6. /\ offers' \subseteq Offers /\ IsFiniteSet(offers') /\ made' \in 0..MaxOffers
      /\ \A o, p \in offers' : o.id = p.id => o = p
      /\ \A o \in offers' : o.id <= made'
      /\ SaleAmount(offers') = SaleAmount(offers) + 0
      /\ BuyAmount(offers') = BuyAmount(offers) + n
  BY <1>2, <1>3, Inserted
<1>7. Price * (BuyAmount(offers) + n) = Price * BuyAmount(offers) + cost
  BY <1>1, <1>5, Distribute
<1> HIDE DEF cost, fee
<1>8. gold' \in [Traders -> Nat] /\ fees' \in Nat
  BY <1>1, <1>2, <1>4
<1>9. MarketSound'
  BY <1>2, <1>3, <1>6, <1>8 DEF MarketSound, MarketTypeOK
<1>10. HeldBy(gold') = HeldBy(gold) + (0 - (cost + fee))
  <2>1. gold'[t] = gold[t] + (0 - (cost + fee)) /\ \A u \in Traders \ {t} : gold'[u] = gold[u]
    BY <1>1, <1>2, <1>4
  <2>2. gold' \in [Traders -> Int] /\ 0 - (cost + fee) \in Int
    BY <1>1, <1>8
  <2> QED
    BY <1>5, <2>1, <2>2, HeldOne
<1>11. GoodsTotal' = GoodsTotal
  BY <1>2, <1>5, <1>6 DEF GoodsTotal
<1>12. GoldTotal' = GoldTotal
  <2>1. Price * BuyAmount(offers') = Price * BuyAmount(offers) + cost
    BY <1>6, <1>7
  <2> QED
    BY <1>1, <1>2, <1>4, <1>5, <1>10, <2>1 DEF GoldTotal
<1>13. WealthKept'
  BY <1>2, <1>3, <1>11, <1>12, TotalsKept
<1> QED
  BY <1>9, <1>13 DEF MarketInv

LEMMA CancelKeeps ==
  ASSUME MarketInv, NEW t \in Traders, NEW o \in offers, Cancel(t, o)
  PROVE  MarketInv'
<1>1. MarketSound /\ WealthKept
  BY DEF MarketInv
<1>2. PICK k \in 0..o.amount :
        IF o.sale
        THEN Fit(o.amount, k) /\ goods' = [goods EXCEPT ![t] = @ + k] /\ gold' = gold
        ELSE /\ k = 0 /\ gold' = [gold EXCEPT ![t] = @ + Price * o.amount]
             /\ goods' = goods /\ troubles' = troubles
  BY DEF Cancel
<1>3. offers' = offers \ {o} /\ made' = made /\ searches' = searches /\ fees' = fees
  BY DEF Cancel
<1>4. /\ gold \in [Traders -> Nat] /\ goods \in [Traders -> Nat] /\ fees \in Nat
      /\ offers \in SUBSET Offers /\ IsFiniteSet(offers) /\ troubles \subseteq {"short", "full", "stale"}
  BY <1>1 DEF MarketSound, MarketTypeOK
<1>5. o.amount \in Nat /\ k \in Nat /\ o.sale \in BOOLEAN /\ Price * o.amount \in Nat
  <2>1. o.amount \in Nat /\ o.sale \in BOOLEAN
    BY <1>4, MarketAssumption DEF Offers, Amounts
  <2> QED
    BY <2>1, PriceOf
<1>6. /\ goods \in [Traders -> Int] /\ gold \in [Traders -> Int]
      /\ HeldBy(goods) \in Int /\ HeldBy(gold) \in Int /\ Price \in Int
  BY <1>1, MarketNumbers
<1>7. /\ IsFiniteSet(offers') /\ offers' \in SUBSET Offers
      /\ SaleAmount(offers) \in Int /\ BuyAmount(offers) \in Int
      /\ SaleAmount(offers') \in Int /\ BuyAmount(offers') \in Int
      /\ SaleAmount(offers) = SaleAmount(offers') + IF o.sale THEN o.amount ELSE 0
      /\ BuyAmount(offers) = BuyAmount(offers') + IF o.sale THEN 0 ELSE o.amount
  BY <1>3, <1>4, OfferTaken
<1>8. /\ \A f, g \in offers' : f.id = g.id => f = g
      /\ \A f \in offers' : f.id <= made'
  BY <1>1, <1>3 DEF MarketSound, MarketTypeOK
<1>9. CASE o.sale
  <2>1. Fit(o.amount, k) /\ goods' = [goods EXCEPT ![t] = @ + k] /\ gold' = gold
    BY <1>2, <1>9
  <2>2. goods' \in [Traders -> Nat] /\ goods' \in [Traders -> Int]
    BY <1>4, <1>5, <2>1
  <2>3. troubles' \subseteq {"short", "full", "stale"} /\ troubles \subseteq troubles'
        /\ ("full" \notin troubles' => k = o.amount)
    BY <1>4, <1>5, <2>1 DEF Fit
  <2>4. MarketSound'
    BY <1>1, <1>3, <1>7, <1>8, <2>1, <2>2, <2>3 DEF MarketSound, MarketTypeOK
  <2>5. HeldBy(goods') = HeldBy(goods) + k
    <3>1. goods'[t] = goods[t] + k /\ \A u \in Traders \ {t} : goods'[u] = goods[u]
      BY <1>4, <2>1
    <3> QED
      BY <1>5, <1>6, <2>2, <3>1, HeldOne
  <2>6. ASSUME troubles' = {} PROVE troubles = {} /\ GoodsTotal' = GoodsTotal
    <3>1. k = o.amount /\ troubles = {}
      BY <2>3, <2>6
    <3> QED
      BY <1>5, <1>6, <1>7, <1>9, <2>5, <3>1 DEF GoodsTotal
  <2>7. GoldTotal' = GoldTotal
    <3>1. BuyAmount(offers') = BuyAmount(offers)
      BY <1>7, <1>9
    <3> QED
      BY <1>3, <2>1, <3>1 DEF GoldTotal
  <2>8. WealthKept'
    BY <1>1, <2>3, <2>6, <2>7, TotalsKept
  <2> QED
    BY <2>4, <2>8 DEF MarketInv
<1>10. CASE ~o.sale
  <2> DEFINE cost == Price * o.amount
  <2>1. gold' = [gold EXCEPT ![t] = @ + cost] /\ goods' = goods /\ troubles' = troubles
    BY <1>2, <1>10
  <2>2. cost \in Nat
    BY <1>5
  <2>3. Price * BuyAmount(offers) = Price * BuyAmount(offers') + cost
        /\ Price * BuyAmount(offers') \in Int
    <3>1. Price * (BuyAmount(offers') + o.amount) = Price * BuyAmount(offers') + Price * o.amount
          /\ Price * BuyAmount(offers') \in Int
      BY <1>5, <1>6, <1>7, Distribute
    <3> QED
      BY <1>7, <1>10, <3>1
  <2> HIDE DEF cost
  <2>4. gold' \in [Traders -> Nat] /\ gold' \in [Traders -> Int]
    BY <1>4, <2>1, <2>2
  <2>5. MarketSound'
    BY <1>1, <1>3, <1>7, <1>8, <2>1, <2>4 DEF MarketSound, MarketTypeOK
  <2>6. HeldBy(gold') = HeldBy(gold) + cost
    <3>1. gold'[t] = gold[t] + cost /\ \A u \in Traders \ {t} : gold'[u] = gold[u]
      BY <1>4, <2>1
    <3> QED
      BY <1>6, <2>2, <2>4, <3>1, HeldOne
  <2>7. GoodsTotal' = GoodsTotal
    BY <1>7, <1>10, <2>1 DEF GoodsTotal
  <2>8. GoldTotal' = GoldTotal
    BY <1>3, <1>4, <1>6, <2>2, <2>3, <2>6 DEF GoldTotal
  <2>9. WealthKept'
    BY <1>1, <2>1, <2>7, <2>8, TotalsKept
  <2> QED
    BY <2>5, <2>9 DEF MarketInv
<1> QED
  BY <1>9, <1>10

LEMMA AcceptBuyKeeps ==
  ASSUME MarketInv, NEW t \in Traders, NEW o \in offers, NEW n \in Amounts, AcceptBuy(t, o, n)
  PROVE  MarketInv'
<1>1. MarketSound /\ WealthKept
  BY DEF MarketInv
<1>2. PICK k \in 0..n :
        /\ Fit(n, k)
        /\ goods' = [goods EXCEPT ![t] = @ - n, ![o.by] = @ + k]
        /\ gold' = [gold EXCEPT ![t] = @ + Price * n]
        /\ offers' = Less(o, k)
  BY DEF AcceptBuy
<1>3. /\ made' = made /\ searches' = searches /\ fees' = fees
      /\ ~o.sale /\ o.by # t /\ n <= o.amount /\ goods[t] >= n
  BY DEF AcceptBuy
<1>4. /\ gold \in [Traders -> Nat] /\ goods \in [Traders -> Nat] /\ fees \in Nat
      /\ offers \in SUBSET Offers /\ troubles \subseteq {"short", "full", "stale"}
  BY <1>1 DEF MarketSound, MarketTypeOK
<1> DEFINE cost == Price * n
<1>5. n \in Nat /\ k \in Nat /\ k <= n /\ o.amount \in Nat /\ o.by \in Traders /\ cost \in Nat
  <2>1. n \in Nat /\ k \in Nat /\ k <= n /\ o.amount \in Nat /\ o.by \in Traders
    BY <1>4, MarketAssumption DEF Offers, Amounts
  <2> QED
    BY <2>1, PriceOf
<1>6. /\ goods \in [Traders -> Int] /\ gold \in [Traders -> Int]
      /\ HeldBy(goods) \in Int /\ HeldBy(gold) \in Int /\ Price \in Int
      /\ SaleAmount(offers) \in Int /\ BuyAmount(offers) \in Int /\ Price * BuyAmount(offers) \in Int
  BY <1>1, MarketNumbers
<1>7. k \in 0..o.amount
  BY <1>3, <1>5
<1>8. /\ offers' \subseteq Offers /\ IsFiniteSet(offers')
      /\ \A f, g \in offers' : f.id = g.id => f = g
      /\ \A f \in offers' : f.id <= made
      /\ SaleAmount(offers') = SaleAmount(offers) - 0
      /\ BuyAmount(offers') = BuyAmount(offers) - k
  BY <1>1, <1>2, <1>3, <1>7, LessFacts
<1>9. troubles' \subseteq {"short", "full", "stale"} /\ troubles \subseteq troubles'
      /\ ("full" \notin troubles' => k = n)
  BY <1>2, <1>4, <1>5 DEF Fit
<1>10. gold' = [gold EXCEPT ![t] = @ + cost]
  BY <1>2
<1>11. Price * (BuyAmount(offers) - n) = Price * BuyAmount(offers) - cost
  BY <1>5, <1>6, Distribute
<1> HIDE DEF cost
<1>12. gold' \in [Traders -> Nat] /\ gold' \in [Traders -> Int]
  BY <1>4, <1>5, <1>10
<1>13. /\ goods'[t] = goods[t] + (0 - n) /\ goods'[o.by] = goods[o.by] + k
       /\ \A v \in Traders \ {t, o.by} : goods'[v] = goods[v]
       /\ goods' \in [Traders -> Nat]
  BY <1>2, <1>3, <1>4, <1>5
<1>14. MarketSound'
  BY <1>1, <1>3, <1>8, <1>9, <1>12, <1>13 DEF MarketSound, MarketTypeOK
<1>15. HeldBy(goods') = HeldBy(goods) + (0 - n) + k
  <2>1. goods' \in [Traders -> Int] /\ 0 - n \in Int /\ k \in Int
    BY <1>5, <1>13
  <2> QED
    BY <1>3, <1>5, <1>6, <1>13, <2>1, HeldTwo
<1>16. HeldBy(gold') = HeldBy(gold) + cost
  <2>1. gold'[t] = gold[t] + cost /\ \A u \in Traders \ {t} : gold'[u] = gold[u]
    BY <1>4, <1>10
  <2> QED
    BY <1>5, <1>6, <1>12, <2>1, HeldOne
<1>17. ASSUME "full" \notin troubles' PROVE GoodsTotal' = GoodsTotal /\ GoldTotal' = GoldTotal
  <2>1. k = n
    BY <1>9, <1>17
  <2>2. GoodsTotal' = GoodsTotal
    BY <1>5, <1>6, <1>8, <1>15, <2>1 DEF GoodsTotal
  <2>3. Price * BuyAmount(offers') = Price * BuyAmount(offers) - cost
    BY <1>8, <1>11, <2>1
  <2>4. GoldTotal' = GoldTotal
    BY <1>3, <1>4, <1>5, <1>6, <1>16, <2>3 DEF GoldTotal
  <2> QED
    BY <2>2, <2>4
<1>18. WealthKept'
  BY <1>1, <1>9, <1>17, TotalsKept
<1> QED
  BY <1>14, <1>18 DEF MarketInv

LEMMA AcceptBuyShortKeeps ==
  ASSUME MarketInv, NEW t \in Traders, NEW o \in offers, NEW n \in Amounts, AcceptBuyShort(t, o, n)
  PROVE  MarketInv'
<1>1. /\ goods' = [goods EXCEPT ![t] = 0] /\ troubles' = troubles \union {"short"}
      /\ UNCHANGED <<gold, offers, made, searches, fees>>
  BY DEF AcceptBuyShort
<1>2. MarketSound'
  BY <1>1 DEF MarketInv, MarketSound, MarketTypeOK
<1>3. GoldTotal' = GoldTotal
  BY <1>1 DEF GoldTotal
<1>4. WealthKept'
  BY <1>1, <1>3, TotalsKept DEF MarketInv
<1> QED
  BY <1>2, <1>4 DEF MarketInv

LEMMA AcceptSellKeeps ==
  ASSUME MarketInv, NEW t \in Traders, NEW o \in offers, NEW n \in Amounts, AcceptSell(t, o, n)
  PROVE  MarketInv'
<1>1. MarketSound /\ WealthKept
  BY DEF MarketInv
<1>2. PICK k \in 0..n :
        /\ Fit(n, k)
        /\ goods' = [goods EXCEPT ![t] = @ + k]
        /\ gold' = [gold EXCEPT ![t] = @ - Price * n, ![o.by] = @ + Price * k]
        /\ offers' = Less(o, k)
  BY DEF AcceptSell
<1> DEFINE cost == Price * n
           paid == Price * k
<1>3. /\ made' = made /\ searches' = searches /\ fees' = fees
      /\ o.sale /\ o.by # t /\ n <= o.amount /\ gold[t] >= cost
  BY DEF AcceptSell
<1>4. /\ gold \in [Traders -> Nat] /\ goods \in [Traders -> Nat] /\ fees \in Nat
      /\ offers \in SUBSET Offers /\ troubles \subseteq {"short", "full", "stale"}
  BY <1>1 DEF MarketSound, MarketTypeOK
<1>5. /\ n \in Nat /\ k \in Nat /\ k <= n /\ o.amount \in Nat /\ o.by \in Traders
      /\ cost \in Nat /\ paid \in Nat
  <2>1. n \in Nat /\ k \in Nat /\ k <= n /\ o.amount \in Nat /\ o.by \in Traders
    BY <1>4, MarketAssumption DEF Offers, Amounts
  <2> QED
    BY <2>1, PriceOf
<1>6. /\ goods \in [Traders -> Int] /\ gold \in [Traders -> Int]
      /\ HeldBy(goods) \in Int /\ HeldBy(gold) \in Int
      /\ SaleAmount(offers) \in Int /\ BuyAmount(offers) \in Int /\ Price * BuyAmount(offers) \in Int
  BY <1>1, MarketNumbers
<1>7. k \in 0..o.amount
  BY <1>3, <1>5
<1>8. /\ offers' \subseteq Offers /\ IsFiniteSet(offers')
      /\ \A f, g \in offers' : f.id = g.id => f = g
      /\ \A f \in offers' : f.id <= made
      /\ SaleAmount(offers') = SaleAmount(offers) - k
      /\ BuyAmount(offers') = BuyAmount(offers) - 0
  BY <1>1, <1>2, <1>3, <1>7, LessFacts
<1>9. troubles' \subseteq {"short", "full", "stale"} /\ troubles \subseteq troubles'
      /\ ("full" \notin troubles' => k = n)
  BY <1>2, <1>4, <1>5 DEF Fit
<1>10. gold' = [gold EXCEPT ![t] = @ - cost, ![o.by] = @ + paid]
  BY <1>2
<1>11. k = n => paid = cost
  OBVIOUS
<1> HIDE DEF cost, paid
<1>12. /\ gold'[t] = gold[t] + (0 - cost) /\ gold'[o.by] = gold[o.by] + paid
       /\ \A v \in Traders \ {t, o.by} : gold'[v] = gold[v]
       /\ gold' \in [Traders -> Nat]
  BY <1>3, <1>4, <1>5, <1>10
<1>13. goods' \in [Traders -> Nat] /\ goods' \in [Traders -> Int]
  BY <1>2, <1>4, <1>5
<1>14. MarketSound'
  BY <1>1, <1>3, <1>8, <1>9, <1>12, <1>13 DEF MarketSound, MarketTypeOK
<1>15. HeldBy(gold') = HeldBy(gold) + (0 - cost) + paid
  <2>1. gold' \in [Traders -> Int] /\ 0 - cost \in Int /\ paid \in Int
    BY <1>5, <1>12
  <2> QED
    BY <1>3, <1>5, <1>6, <1>12, <2>1, HeldTwo
<1>16. HeldBy(goods') = HeldBy(goods) + k
  <2>1. goods'[t] = goods[t] + k /\ \A u \in Traders \ {t} : goods'[u] = goods[u]
    BY <1>2, <1>4
  <2> QED
    BY <1>5, <1>6, <1>13, <2>1, HeldOne
<1>17. ASSUME "full" \notin troubles' PROVE GoodsTotal' = GoodsTotal /\ GoldTotal' = GoldTotal
  <2>1. k = n /\ paid = cost
    BY <1>9, <1>11, <1>17
  <2>2. GoodsTotal' = GoodsTotal
    BY <1>5, <1>6, <1>8, <1>16, <2>1 DEF GoodsTotal
  <2>3. BuyAmount(offers') = BuyAmount(offers)
    BY <1>6, <1>8
  <2>4. GoldTotal' = GoldTotal
    BY <1>3, <1>4, <1>5, <1>6, <1>15, <2>1, <2>3 DEF GoldTotal
  <2> QED
    BY <2>2, <2>4
<1>18. WealthKept'
  BY <1>1, <1>9, <1>17, TotalsKept
<1> QED
  BY <1>14, <1>18 DEF MarketInv

LEMMA MarketAgesKeeps ==
  ASSUME MarketInv, MarketAges
  PROVE  MarketInv'
<1>1. MarketSound /\ WealthKept
  BY DEF MarketInv
<1>2. UNCHANGED <<gold, goods, made, searches, fees, troubles>>
  BY DEF MarketAges
<1>3. PICK o \in offers : offers' = (offers \ {o}) \union {[o EXCEPT !.old = TRUE]}
  BY DEF MarketAges
<1> DEFINE y == [o EXCEPT !.old = TRUE]
           G == (offers \ {o}) \union {y}
<1>4. /\ offers \in SUBSET Offers /\ IsFiniteSet(offers) /\ \A f, g \in offers : f.id = g.id => f = g
      /\ \A f \in offers : f.id <= made
  BY <1>1 DEF MarketSound, MarketTypeOK
<1>5. /\ y \in Offers /\ y.id = o.id /\ y.sale = o.sale /\ y.amount = o.amount
      /\ o.amount \in Int /\ o.sale \in BOOLEAN
  <2>1. o \in Offers
    BY <1>4
  <2>2. y \in Offers /\ y.id = o.id /\ y.sale = o.sale /\ y.amount = o.amount
    BY <2>1 DEF Offers
  <2>3. o.amount \in Int /\ o.sale \in BOOLEAN
    BY <2>1, MarketAssumption DEF Offers, Amounts
  <2> QED
    BY <2>2, <2>3
<1> HIDE DEF y
<1>6. /\ G \in SUBSET Offers /\ IsFiniteSet(G) /\ \A f, g \in G : f.id = g.id => f = g
      /\ SaleAmount(offers) \in Int /\ BuyAmount(offers) \in Int
      /\ SaleAmount(G) = SaleAmount(offers) + IF o.sale THEN y.amount - o.amount ELSE 0
      /\ BuyAmount(G) = BuyAmount(offers) + IF o.sale THEN 0 ELSE y.amount - o.amount
  BY <1>4, <1>5, OfferReplaced
<1>7. \A f \in G : f.id <= made
  BY <1>4, <1>5
<1>8. offers' = G
  BY <1>3 DEF y
<1> HIDE DEF G
<1>9. SaleAmount(G) = SaleAmount(offers) /\ BuyAmount(G) = BuyAmount(offers)
  BY <1>5, <1>6
<1>10. MarketSound'
  BY <1>1, <1>2, <1>6, <1>7, <1>8 DEF MarketSound, MarketTypeOK
<1>11. GoodsTotal' = GoodsTotal /\ GoldTotal' = GoldTotal
  BY <1>2, <1>8, <1>9 DEF GoodsTotal, GoldTotal
<1>12. WealthKept'
  BY <1>1, <1>2, <1>11, TotalsKept
<1> QED
  BY <1>10, <1>12 DEF MarketInv

LEMMA SearchKeeps ==
  ASSUME MarketInv, Search
  PROVE  MarketInv'
<1>1. MarketSound /\ WealthKept
  BY DEF MarketInv
<1>2. /\ searches' = Append(searches, Old)
      /\ UNCHANGED <<gold, goods, offers, made, fees, troubles>>
  BY DEF Search
<1>3. searches \in Seq(SUBSET Offers) /\ \A i \in DOMAIN searches : IsFiniteSet(searches[i])
  BY <1>1 DEF MarketSound, MarketTypeOK
<1>4. Old \in SUBSET Offers /\ IsFiniteSet(Old)
  BY <1>1, FS_Subset DEF MarketSound, MarketTypeOK, Old
<1>5. searches' \in Seq(SUBSET Offers) /\ \A i \in DOMAIN searches' : IsFiniteSet(searches'[i])
  BY <1>2, <1>3, <1>4
<1>6. MarketSound'
  BY <1>1, <1>2, <1>5 DEF MarketSound, MarketTypeOK
<1>7. GoodsTotal' = GoodsTotal /\ GoldTotal' = GoldTotal
  BY <1>2 DEF GoodsTotal, GoldTotal
<1>8. WealthKept'
  BY <1>1, <1>2, <1>7, TotalsKept
<1> QED
  BY <1>6, <1>8 DEF MarketInv

LEMMA ProcessExpiredKeeps ==
  ASSUME MarketInv, ProcessExpired
  PROVE  MarketInv'
<1>1. MarketSound /\ WealthKept
  BY DEF MarketInv
<1> DEFINE found == StillThere(Head(searches))
<1>2. PICK lost \in [Traders -> 0..Stock] :
        /\ \A t \in Traders : lost[t] <= GoodsOf(t, found)
        /\ goods' = [t \in Traders |-> goods[t] + GoodsOf(t, found) - lost[t]]
        /\ gold' = [t \in Traders |-> gold[t] + GoldOf(t, found)]
        /\ offers' = {o \in offers : \A f \in found : f.id # o.id}
        /\ troubles' = troubles \union (IF \E t \in Traders : lost[t] > 0 THEN {"full"} ELSE {})
                           \union (IF found \subseteq offers THEN {} ELSE {"stale"})
  BY DEF ProcessExpired
<1>3. searches # <<>> /\ searches' = Tail(searches) /\ made' = made /\ fees' = fees
  BY DEF ProcessExpired
<1>4. /\ gold \in [Traders -> Nat] /\ goods \in [Traders -> Nat] /\ fees \in Nat
      /\ offers \in SUBSET Offers /\ IsFiniteSet(offers) /\ troubles \subseteq {"short", "full", "stale"}
      /\ \A f, g \in offers : f.id = g.id => f = g
      /\ \A f \in offers : f.id <= made
  BY <1>1 DEF MarketSound, MarketTypeOK
<1>5. /\ searches' \in Seq(SUBSET Offers) /\ \A i \in DOMAIN searches' : IsFiniteSet(searches'[i])
      /\ Head(searches) \in SUBSET Offers /\ IsFiniteSet(Head(searches))
  <2>1. searches \in Seq(SUBSET Offers) /\ \A i \in 1..Len(searches) : IsFiniteSet(searches[i])
    BY <1>1 DEF MarketSound, MarketTypeOK
  <2>2. /\ Tail(searches) \in Seq(SUBSET Offers) /\ Len(Tail(searches)) = Len(searches) - 1
        /\ \A k \in 1..Len(Tail(searches)) : k + 1 \in 1..Len(searches) /\ Tail(searches)[k] = searches[k + 1]
        /\ Len(searches) \in Nat /\ Len(searches) > 0 /\ Head(searches) = searches[1]
    BY <1>3, <2>1, TailFacts
  <2>3. \A k \in 1..Len(Tail(searches)) : IsFiniteSet(Tail(searches)[k])
    BY <2>1, <2>2
  <2>4. 1 \in 1..Len(searches)
    BY <2>2
  <2>5. IsFiniteSet(searches[1]) /\ searches[1] \in SUBSET Offers
    BY <2>1, <2>4
  <2>6. DOMAIN Tail(searches) = 1..Len(Tail(searches))
    BY <2>2
  <2> QED
    BY <1>3, <2>2, <2>3, <2>5, <2>6
<1>6. found \in SUBSET Offers /\ IsFiniteSet(found)
  <2>1. found \subseteq Head(searches)
    BY DEF StillThere
  <2> HIDE DEF found
  <2> QED
    BY <1>5, <2>1, FS_Subset
<1> HIDE DEF found
<1>7. ASSUME NEW t \in Traders
      PROVE  /\ GoodsOf(t, found) \in Nat /\ GoldOf(t, found) \in Nat /\ lost[t] \in Nat
             /\ goods'[t] = goods[t] + GoodsOf(t, found) - lost[t]
             /\ gold'[t] = gold[t] + GoldOf(t, found)
             /\ goods'[t] \in Nat /\ gold'[t] \in Nat
  <2>1. GoodsOf(t, found) \in Nat /\ GoldOf(t, found) \in Nat
    BY <1>6, PerTrader
  <2>2. lost[t] \in Nat /\ lost[t] <= GoodsOf(t, found)
    BY <1>2, MarketAssumption
  <2>3. goods'[t] = goods[t] + GoodsOf(t, found) - lost[t] /\ gold'[t] = gold[t] + GoldOf(t, found)
    BY <1>2
  <2>4. goods[t] \in Nat /\ gold[t] \in Nat
    BY <1>4
  <2>5. goods'[t] \in Nat /\ gold'[t] \in Nat
    BY <2>1, <2>2, <2>3, <2>4
  <2> QED
    BY <2>1, <2>2, <2>3, <2>5
<1>8. goods' \in [Traders -> Nat] /\ gold' \in [Traders -> Nat]
  BY <1>2, <1>7
<1>9. IsFiniteSet(offers') /\ offers' \subseteq offers
  BY <1>2, <1>4, FS_Subset
<1>10. troubles' \subseteq {"short", "full", "stale"} /\ troubles \subseteq troubles'
  BY <1>2, <1>4
<1>11. MarketSound'
  BY <1>1, <1>3, <1>4, <1>5, <1>8, <1>9, <1>10 DEF MarketSound, MarketTypeOK
<1>12. /\ goods \in [Traders -> Int] /\ gold \in [Traders -> Int]
       /\ HeldBy(goods) \in Int /\ HeldBy(gold) \in Int /\ Price \in Int
  BY <1>1, MarketNumbers
<1>13. /\ GoodsPer(found) \in [Traders -> Int] /\ GoldPer(found) \in [Traders -> Int]
       /\ SumFunction(GoodsPer(found)) = SaleAmount(found)
       /\ SumFunction(GoldPer(found)) = Price * BuyAmount(found)
  BY <1>6, GoodsReturned
<1>14. goods' \in [Traders -> Int] /\ gold' \in [Traders -> Int]
  BY <1>8
<1>15. ASSUME found \subseteq offers
       PROVE  /\ SaleAmount(offers) = SaleAmount(offers') + SaleAmount(found)
              /\ Price * BuyAmount(offers) = Price * BuyAmount(offers') + Price * BuyAmount(found)
              /\ SaleAmount(offers') \in Int /\ SaleAmount(found) \in Int
              /\ Price * BuyAmount(offers') \in Int /\ Price * BuyAmount(found) \in Int
  <2>1. offers' = offers \ found
    BY <1>2, <1>4, <1>15
  <2>2. found \in SUBSET offers /\ offers' \in SUBSET offers
    BY <1>9, <1>15
  <2>3. /\ SaleAmount(found) \in Int /\ BuyAmount(found) \in Int
        /\ SaleAmount(offers) = SaleAmount(offers \ found) + SaleAmount(found)
        /\ BuyAmount(offers) = BuyAmount(offers \ found) + BuyAmount(found)
    BY <1>4, <2>2, OffersTaken
  <2>4. SaleAmount(offers') \in Int /\ BuyAmount(offers') \in Int
    BY <1>4, <2>2, OffersTaken
  <2>5. /\ Price * (BuyAmount(offers') + BuyAmount(found)) = Price * BuyAmount(offers') + Price * BuyAmount(found)
        /\ Price * BuyAmount(offers') \in Int /\ Price * BuyAmount(found) \in Int
    BY <1>12, <2>3, <2>4, Distribute
  <2> QED
    BY <2>1, <2>3, <2>4, <2>5
<1>16. HeldBy(gold') = HeldBy(gold) + SumFunction(GoldPer(found))
  <2>1. \A t \in Traders : gold'[t] = gold[t] + GoldPer(found)[t]
    BY <1>7 DEF GoldPer
  <2> QED
    BY <1>12, <1>13, <1>14, <2>1, HeldPlus
<1>17. ASSUME troubles' = {} PROVE troubles = {} /\ GoodsTotal' = GoodsTotal
  <2>1. troubles = {} /\ found \subseteq offers /\ \A t \in Traders : ~(lost[t] > 0)
    BY <1>2, <1>17
  <2>2. ASSUME NEW t \in Traders PROVE goods'[t] = goods[t] + GoodsPer(found)[t]
    <3>1. lost[t] = 0 /\ goods[t] \in Nat
      BY <1>4, <1>7, <2>1
    <3>2. GoodsPer(found)[t] = GoodsOf(t, found)
      BY DEF GoodsPer
    <3> QED
      BY <1>7, <3>1, <3>2
  <2>3. HeldBy(goods') = HeldBy(goods) + SumFunction(GoodsPer(found))
    BY <1>12, <1>13, <1>14, <2>2, HeldPlus
  <2> QED
    BY <1>12, <1>13, <1>15, <2>1, <2>3 DEF GoodsTotal
<1>18. ASSUME troubles' \subseteq {"short"} PROVE troubles \subseteq {"short"} /\ GoldTotal' = GoldTotal
  <2>1. troubles \subseteq {"short"} /\ found \subseteq offers
    BY <1>2, <1>18
  <2> QED
    BY <1>3, <1>4, <1>12, <1>13, <1>15, <1>16, <2>1 DEF GoldTotal
<1>19. WealthKept'
  BY <1>1, <1>17, <1>18, TotalsKept
<1> QED
  BY <1>11, <1>19 DEF MarketInv

-----------------------------------------------------------------------------
(* Theorems. *)

LEMMA MarketStarts == ASSUME MarketInit PROVE MarketInv
<1>1. IsFiniteSet(offers)
  BY FS_EmptySet DEF MarketInit
<1>2. MarketTypeOK
  BY MarketAssumption DEF MarketInit, MarketTypeOK
<1>3. MarketSound
  BY <1>1, <1>2 DEF MarketSound, MarketInit
<1>4. HeldBy(goods) = Stock * Cardinality(Traders) /\ HeldBy(gold) = Purse * Cardinality(Traders)
  <2>1. Stock \in Int /\ Purse \in Int
    BY MarketAssumption
  <2>2. goods = [t \in Traders |-> Stock] /\ gold = [t \in Traders |-> Purse]
    BY DEF MarketInit
  <2>3. HeldBy([t \in Traders |-> Stock]) = Stock * Cardinality(Traders)
    BY <2>1, HeldSame
  <2>4. HeldBy([t \in Traders |-> Purse]) = Purse * Cardinality(Traders)
    BY <2>1, HeldSame
  <2> QED
    BY <2>2, <2>3, <2>4
<1>5. GoodsOffered = 0 /\ GoldOffered = 0
  <2>1. {o \in offers : o.sale} = {} /\ {o \in offers : ~o.sale} = {}
    BY DEF MarketInit
  <2>2. Price * 0 = 0
    BY MarketAssumption
  <2> QED
    BY <2>1, <2>2, NoAmount DEF GoodsOffered, GoldOffered
<1>6. HeldBy(goods) \in Int /\ HeldBy(gold) \in Int /\ fees = 0
  BY <1>3, MarketNumbers DEF MarketInit
<1>7. WealthKept
  BY <1>4, <1>5, <1>6 DEF WealthKept, GoodsKept, GoldKept
<1> QED
  BY <1>3, <1>7 DEF MarketInv

LEMMA MarketStep == ASSUME MarketInv, [MarketNext]_marketVars PROVE MarketInv'
<1>1. ASSUME NEW t \in Traders, NEW n \in Amounts, CreateSell(t, n) \/ CreateBuy(t, n) PROVE MarketInv'
  BY <1>1, CreateSellKeeps, CreateBuyKeeps
<1>2. ASSUME NEW t \in Traders, NEW o \in offers, Cancel(t, o) PROVE MarketInv'
  BY <1>2, CancelKeeps
<1>3. ASSUME NEW t \in Traders, NEW o \in offers, NEW n \in Amounts,
             AcceptBuy(t, o, n) \/ AcceptBuyShort(t, o, n) \/ AcceptSell(t, o, n)
      PROVE  MarketInv'
  BY <1>3, AcceptBuyKeeps, AcceptBuyShortKeeps, AcceptSellKeeps
<1>4. ASSUME MarketAges \/ Search \/ ProcessExpired PROVE MarketInv'
  BY <1>4, MarketAgesKeeps, SearchKeeps, ProcessExpiredKeeps
<1>5. ASSUME UNCHANGED marketVars PROVE MarketInv'
  BY <1>5 DEF marketVars, MarketInv, MarketSound, MarketTypeOK, WealthKept, GoodsKept, GoldKept, GoodsOffered, GoldOffered
<1> QED
  BY <1>1, <1>2, <1>3, <1>4, <1>5 DEF MarketNext, Trade

LEMMA MarketInvariant == MarketSpec => []MarketInv
<1>1. MarketInit => MarketInv
  BY MarketStarts
<1>2. MarketInv /\ [MarketNext]_marketVars => MarketInv'
  BY MarketStep
<1> QED
  BY <1>1, <1>2, PTL DEF MarketSpec

\* For any number of traders, offers and searches nobody owes gold or goods, no
\* offer is for nothing and an id names one offer.
THEOREM MarketTypeCorrect == MarketSpec => []MarketTypeOK
<1>1. MarketInv => MarketTypeOK
  BY DEF MarketInv, MarketSound
<1> QED
  BY <1>1, MarketInvariant, PTL

\* Neither goods nor gold are made or lost on the market, whatever the prices,
\* the amounts and the order in which requests, searches and expiries come.
THEOREM WealthIsKept == MarketSpec => []WealthKept
<1>1. MarketInv => WealthKept
  BY DEF MarketInv
<1> QED
  BY <1>1, MarketInvariant, PTL

-----------------------------------------------------------------------------
(* The composition. *)

\* Each component behaves as its own specification says, beside the others.
THEOREM PartsBehave == Spec => ConnSpec /\ SessionSpec /\ WaitSpec /\ MarketSpec
<1>1. Init => ConnInit /\ SessionInit /\ WaitInit /\ MarketInit
  BY DEF Init
<1>2. [Next]_vars => /\ [ConnNext]_connVars /\ [SessionNext]_sessionVars
                     /\ [WaitNext]_waitVars /\ [MarketNext]_marketVars
  <2> SUFFICES ASSUME [Next]_vars
               PROVE  /\ [ConnNext]_connVars /\ [SessionNext]_sessionVars
                      /\ [WaitNext]_waitVars /\ [MarketNext]_marketVars
    OBVIOUS
  <2>1. CASE Connecting /\ ConnNext
    BY <2>1 DEF Connecting
  <2>2. CASE Playing /\ SessionNext
    BY <2>2 DEF Playing
  <2>3. CASE Queuing /\ WaitNext
    BY <2>3 DEF Queuing
  <2>4. CASE Marketing /\ MarketNext
    BY <2>4 DEF Marketing
  <2>5. CASE Storing /\ Apart!Next
    BY <2>5 DEF Storing
  <2>6. CASE UNCHANGED vars
    BY <2>6 DEF vars
  <2> QED
    BY <2>1, <2>2, <2>3, <2>4, <2>5, <2>6 DEF Next
<1> QED
  BY <1>1, <1>2, PTL DEF Spec, ConnSpec, SessionSpec, WaitSpec, MarketSpec

\* Run side by side, they keep their types.
THEOREM ServerTypeCorrect == Spec => []ServerTypeOK
<1>1. ConnTypeOK /\ SessionTypeOK /\ WaitTypeOK /\ MarketTypeOK => ServerTypeOK
  BY DEF ServerTypeOK
<1> QED
  BY <1>1, PartsBehave, ConnTypeCorrect, SessionTypeCorrect, WaitTypeCorrect, MarketTypeCorrect, PTL

----------------------------------------------------------------------------
(* The store of MCServer: the proofs of KVStore, with its constants.         *)

ApartProofs == INSTANCE KVStoreProofs
                 WITH Key <- {k1, k2}, Thread <- {t1, t2}, MAX_SIZE <- 3,
                      Access <- [k \in {k1, k2} |-> IF k = k1 THEN {t1} ELSE {t2}],
                      Removable <- {}, ForceLoaded <- {}, DbMayFail <- FALSE

LEMMA SameSizes ==
  \A S : /\ Apart!Cardinality(S) = Cardinality(S) /\ ApartProofs!Cardinality(S) = Cardinality(S)
         /\ ApartProofs!IsFiniteSet(S) <=> IsFiniteSet(S)
<1>1. \A S : Apart!Cardinality(S) = Cardinality(S)
  BY DEF Apart!Cardinality, Cardinality
<1>2. \A S : ApartProofs!Cardinality(S) = Cardinality(S)
  BY DEF ApartProofs!Cardinality, Cardinality
<1>3. \A S : ApartProofs!IsFiniteSet(S) <=> IsFiniteSet(S)
  BY DEF ApartProofs!IsFiniteSet, IsFiniteSet
<1> QED
  BY <1>1, <1>2, <1>3

LEMMA SameStore ==
  /\ Apart!Init <=> ApartProofs!Init
  /\ Apart!Next <=> ApartProofs!Next
  /\ Apart!NoLostUpdate <=> ApartProofs!NoLostUpdate
  /\ Apart!GetIsCurrent <=> ApartProofs!GetIsCurrent
<1>1. Apart!Init <=> ApartProofs!Init
  BY DEF Apart!Init, ApartProofs!Init, Apart!Idle, ApartProofs!Idle, Apart!NoTodo,
     ApartProofs!NoTodo, Apart!Row, ApartProofs!Row
<1>2. Apart!Next <=> ApartProofs!Next
  <2>1. /\ Apart!Cached = ApartProofs!Cached /\ Apart!NoTodo = ApartProofs!NoTodo
        /\ Apart!Idle = ApartProofs!Idle /\ Apart!Last = ApartProofs!Last
        /\ \A v : Apart!Live(v) = ApartProofs!Live(v)
        /\ \A q, k : Apart!Without(q, k) = ApartProofs!Without(q, k)
    BY DEF Apart!Cached, ApartProofs!Cached, Apart!NoTodo, ApartProofs!NoTodo,
       Apart!Idle, ApartProofs!Idle, Apart!Last, ApartProofs!Last, Apart!Live,
       ApartProofs!Live, Apart!Without, ApartProofs!Without
  <2>2. Apart!Full <=> ApartProofs!Full
    BY <2>1, SameSizes DEF Apart!Full, ApartProofs!Full
  <2>3. \A t, k, v : Apart!SetLocked(t, k, v) <=> ApartProofs!SetLocked(t, k, v)
    BY <2>1, <2>2 DEF Apart!SetLocked, ApartProofs!SetLocked
  <2>4. \A t, k, v : /\ Apart!Free(t) <=> ApartProofs!Free(t)
                     /\ Apart!Publish(k, v) <=> ApartProofs!Publish(k, v)
    BY <2>1 DEF Apart!Free, ApartProofs!Free, Apart!Publish, ApartProofs!Publish
  <2>5. \A t, k, v : /\ Apart!Set(t, k, v) <=> ApartProofs!Set(t, k, v)
                     /\ Apart!Remove(t, k) <=> ApartProofs!Remove(t, k)
                     /\ Apart!Get(t, k, v) <=> ApartProofs!Get(t, k, v)
    BY <2>1, <2>3, <2>4 DEF Apart!Set, ApartProofs!Set, Apart!Remove,
       ApartProofs!Remove, Apart!Get, ApartProofs!Get
  <2>6. \A t : /\ Apart!Load(t) <=> ApartProofs!Load(t)
               /\ Apart!Fill(t) <=> ApartProofs!Fill(t)
               /\ Apart!SaveAll(t) <=> ApartProofs!SaveAll(t)
               /\ Apart!WriteFails(t) <=> ApartProofs!WriteFails(t)
               /\ Apart!Return(t) <=> ApartProofs!Return(t)
    BY <2>1, <2>3, <2>4 DEF Apart!Load, ApartProofs!Load, Apart!Fill, ApartProofs!Fill,
       Apart!SaveAll, ApartProofs!SaveAll, Apart!WriteFails, ApartProofs!WriteFails,
       Apart!Return, ApartProofs!Return
  <2>7. \A t, S : Apart!Write(t, S) <=> ApartProofs!Write(t, S)
    BY <2>1 DEF Apart!Write, ApartProofs!Write
  <2>8. Apart!Crash <=> ApartProofs!Crash
    BY <2>1 DEF Apart!Crash, ApartProofs!Crash
  <2> QED
    BY <2>5, <2>6, <2>7, <2>8 DEF Apart!Next, ApartProofs!Next
<1>3. Apart!NoLostUpdate <=> ApartProofs!NoLostUpdate
  BY DEF Apart!NoLostUpdate, ApartProofs!NoLostUpdate, Apart!Holds, ApartProofs!Holds,
     Apart!Holders, ApartProofs!Holders, Apart!Plain, ApartProofs!Plain
<1>4. Apart!GetIsCurrent <=> ApartProofs!GetIsCurrent
  BY DEF Apart!GetIsCurrent, ApartProofs!GetIsCurrent, Apart!Plain, ApartProofs!Plain
<1> QED
  BY <1>1, <1>2, <1>3, <1>4

\* Each key has one thread, and two keys do not fill the cache.
LEMMA StoreUsedApart == ApartProofs!UsedApart
<1>1. ApartProofs!Private
  BY DEF ApartProofs!Private
<1>2. IsFiniteSet({k1, k2}) /\ Cardinality({k1, k2}) < 3
  <2>1. CASE k1 = k2
    <3>1. {k1, k2} = {k1}
      BY <2>1
    <3> QED
      BY <3>1, FS_Singleton
  <2>2. CASE k1 # k2
    <3>1. IsFiniteSet({k1}) /\ Cardinality({k1}) = 1
      BY FS_Singleton
    <3>2. {k1, k2} = {k1} \cup {k2} /\ k2 \notin {k1}
      BY <2>2
    <3> QED
      BY <3>1, <3>2, FS_AddElement
  <2> QED
    BY <2>1, <2>2
<1> QED
  BY <1>1, <1>2, SameSizes DEF ApartProofs!UsedApart, ApartProofs!Roomy

\* Each of the two threads finds its last write, in the cache or through the
\* other's saveAll in the table.
THEOREM ApartIsConsistent == Spec => []ApartConsistent
<1> DEFINE Inv == ApartProofs!KVInv /\ ApartProofs!KVSafe
<1>1. Init => Inv
  <2> SUFFICES ASSUME Init PROVE Inv
    OBVIOUS
  <2>1. ApartProofs!Init
    BY SameStore DEF Init
  <2>2. ApartProofs!KVInv
    BY <2>1, StoreAssumption, ApartProofs!KVInit
  <2> QED
    BY <2>1, <2>2, StoreAssumption, ApartProofs!StartSafe DEF ApartProofs!Init
<1>2. Inv /\ [Next]_vars => Inv'
  <2> SUFFICES ASSUME Inv, [Next]_vars PROVE Inv'
    OBVIOUS
  <2>1. [ApartProofs!Next]_(ApartProofs!vars)
    <3>1. CASE Storing /\ Apart!Next
      BY <3>1, SameStore
    <3>2. CASE UNCHANGED kvVars
      BY <3>2 DEF kvVars, ApartProofs!vars
    <3>3. (Storing /\ Apart!Next) \/ UNCHANGED kvVars
      BY DEF Next, vars, Connecting, Playing, Queuing, Marketing
    <3> QED
      BY <3>1, <3>2, <3>3
  <2>2. ApartProofs!KVInv'
    BY <2>1, StoreAssumption, ApartProofs!KVNext
  <2> QED
    BY <2>1, <2>2, StoreAssumption, StoreUsedApart, ApartProofs!KVSafeNext
<1>3. Inv => ApartConsistent
  <2> SUFFICES ASSUME Inv PROVE ApartConsistent
    OBVIOUS
  <2>1. ApartProofs!NoLostUpdate /\ ApartProofs!GetIsCurrent
    BY StoreAssumption, ApartProofs!SafeKeeps
  <2> QED
    BY <2>1, SameStore DEF ApartConsistent
<1> QED
  BY <1>1, <1>2, <1>3, PTL DEF Spec
=============================================================================
