------------------------------ MODULE HopConn -------------------------------
(***************************************************************************)
(* extras/transport/udphop: a packet connection that moves to a new local  *)
(* socket and a new server port every so often, below a QUIC connection    *)
(* that must not notice.  The previous socket stays open for one more      *)
(* interval, because the server answers the port it last heard from.       *)
(*                                                                         *)
(* Each socket has a goroutine that reads it (recvLoop); the hops, the     *)
(* reader of the queue, the writers and Close all run beside each other.   *)
(* A socket's number tells when it was opened: 1 with the connection, n+1  *)
(* by the n-th hop.                                                        *)
(***************************************************************************)
EXTENDS Integers, FiniteSets, Sequences

CONSTANTS
  Ports,       \* UDPHopAddr.Ports
  Intervals,   \* the hop intervals configured, as pairs of seconds
  MaxHops,     \* bound on the hops
  MaxSets,     \* bound on the deadlines and buffer sizes set
  MaxSent,     \* bound on the packets the server sends
  QueueSize    \* packetQueueSize

HopConnAssumption ==
  /\ Ports # {}
  /\ Intervals \subseteq Nat \X Nat
  /\ MaxHops \in Nat /\ MaxSets \in Nat /\ MaxSent \in Nat
  /\ QueueSize \in Nat \ {0}

VARIABLES
  conn,     \* "new", "refused", "open" or "closed"
  prev,     \* prevConn, currentConn: 0 is nil
  current,
  port,     \* Addrs[addrIndex]
  asked,    \* the deadlines and buffer sizes kept for the next socket
  socket,   \* what is set on each socket, and whether it is open
  loop,     \* recvLoop of each: "none", "reading", "sending", "done", or
            \*   "failed" when an error other than the close ended it
  hopping,  \* hopLoop runs
  queue,    \* recvQueue: packets, and the timeout errors passed through
  arriving, \* packets at each socket, unread
  heard,    \* the socket the server last got a packet from, and after how
            \*   many hops it was written to
  sets, sent,
  (* History, read by the properties only. *)
  wanted    \* what the layer above last asked for

vars == <<conn, prev, current, port, asked, socket, loop, hopping, queue, arriving,
          heard, sets, sent, wanted>>

Sockets == 1..(MaxHops + 1)

(* A deadline is not set, ahead, or passed.                                *)
Deadline == {"zero", "ahead", "passed"}

Nothing == [all |-> "zero", read |-> "zero", write |-> "zero", buffers |-> 0]

Fresh == [open |-> TRUE, read |-> "zero", write |-> "zero", buffers |-> 0]

Unused == [Fresh EXCEPT !.open = FALSE]

Opened == {s \in Sockets : socket[s].open}

-----------------------------------------------------------------------------
(***************************************************************************)
(* HopIntervalConfig.normalized: the interval to use, or none.             *)
(***************************************************************************)
normalized(c) ==
  IF c = <<0, 0>> THEN {<<30, 30>>}
  ELSE {i \in {c} : i[1] # 0 /\ i[2] # 0 /\ i[1] <= i[2] /\ i[1] >= 5}

Init ==
  /\ conn = "new"
  /\ prev = 0 /\ current = 0
  /\ port \in Ports
  /\ asked = Nothing
  /\ socket = [s \in Sockets |-> Unused]
  /\ loop = [s \in Sockets |-> "none"]
  /\ hopping = FALSE
  /\ queue = <<>>
  /\ arriving = [s \in Sockets |-> 0]
  /\ heard = [at |-> 0, hops |-> 0]
  /\ sets = 0 /\ sent = 0
  /\ wanted = [read |-> "zero", write |-> "zero", buffers |-> 0]

(***************************************************************************)
(* NewUDPHopPacketConn, which a bad interval or a failing listen refuses.  *)
(***************************************************************************)
NewUDPHopPacketConn(interval) ==
  /\ conn = "new"
  /\ IF normalized(interval) = {}
     THEN /\ conn' = "refused"
          /\ UNCHANGED <<current, socket, loop, hopping>>
     ELSE /\ conn' = "open"
          /\ current' = 1
          /\ socket' = [socket EXCEPT ![1] = Fresh]
          /\ loop' = [loop EXCEPT ![1] = "reading"]
          /\ hopping' = TRUE
  /\ UNCHANGED <<prev, port, asked, queue, arriving, heard, sets, sent, wanted>>

ListenFails ==
  /\ conn = "new"
  /\ conn' = "refused"
  /\ UNCHANGED <<prev, current, port, asked, socket, loop, hopping, queue, arriving,
                 heard, sets, sent, wanted>>
-----------------------------------------------------------------------------
(***************************************************************************)
(* hop, under connMutex: nothing once closed, nothing when no socket can   *)
(* be had; otherwise the previous socket is closed, the current one        *)
(* becomes the previous, and the new one is given what was set so far.     *)
(***************************************************************************)
Later(d, e) == IF d # "zero" THEN d ELSE e

Apply(a) ==
  [open |-> TRUE, buffers |-> a.buffers,
   read |-> Later(a.read, a.all), write |-> Later(a.write, a.all)]

Close1(f, s) == IF s = 0 THEN f ELSE [f EXCEPT ![s].open = FALSE]

(* A hop that moves on leaves the socket of the hop before behind, not its *)
(* own.                                                                    *)
LeftBehind == prev

(* The timer may fire as closeChan closes: hop looks again, locked.         *)
MayHopAnyway == hopping

MayHop == hopping /\ conn = "open"

hop ==
  /\ MayHop
  /\ current < MaxHops + 1
  /\ prev' = current
  /\ current' = current + 1
  /\ socket' = [Close1(socket, LeftBehind) EXCEPT ![current + 1] = Apply(asked)]
  /\ loop' = [loop EXCEPT ![current + 1] = "reading"]
  /\ port' \in Ports
  /\ UNCHANGED <<conn, asked, hopping, queue, arriving, heard, sets, sent, wanted>>

(* hopLoop sees closeChan.                                                 *)
hopLoopEnds ==
  /\ hopping
  /\ conn = "closed"
  /\ hopping' = FALSE
  /\ UNCHANGED <<conn, prev, current, port, asked, socket, loop, queue, arriving, heard,
                 sets, sent, wanted>>
-----------------------------------------------------------------------------
(***************************************************************************)
(* recvLoop(s): a packet is queued, or dropped when the queue is full; a   *)
(* deadline that has passed is queued as an error, waiting for room; any   *)
(* other error ends the loop without a word: that the socket was closed,   *)
(* or that a read of an open one failed.                                   *)
(***************************************************************************)
Readable(s) == loop[s] = "reading" /\ socket[s].open

Receive(s) ==
  /\ Readable(s)
  /\ socket[s].read # "passed"
  /\ arriving[s] > 0
  /\ arriving' = [arriving EXCEPT ![s] = @ - 1]
  /\ queue' = IF Len(queue) < QueueSize THEN Append(queue, "packet") ELSE queue
  /\ UNCHANGED <<conn, prev, current, port, asked, socket, loop, hopping, heard, sets,
                 sent, wanted>>

ReceiveTimeout(s) ==
  /\ Readable(s)
  /\ socket[s].read = "passed"
  /\ loop' = [loop EXCEPT ![s] = "sending"]
  /\ UNCHANGED <<conn, prev, current, port, asked, socket, hopping, queue, arriving,
                 heard, sets, sent, wanted>>

QueueTimeout(s) ==
  /\ loop[s] = "sending"
  /\ Len(queue) < QueueSize
  /\ queue' = Append(queue, "timeout")
  /\ loop' = [loop EXCEPT ![s] = "reading"]
  /\ UNCHANGED <<conn, prev, current, port, asked, socket, hopping, arriving, heard,
                 sets, sent, wanted>>

ReceiveClosed(s) ==
  /\ loop[s] = "reading"
  /\ ~socket[s].open
  /\ loop' = [loop EXCEPT ![s] = "done"]
  /\ UNCHANGED <<conn, prev, current, port, asked, socket, hopping, queue, arriving,
                 heard, sets, sent, wanted>>

ReceiveFails(s) ==
  /\ Readable(s)
  /\ loop' = [loop EXCEPT ![s] = "failed"]
  /\ UNCHANGED <<conn, prev, current, port, asked, socket, hopping, queue, arriving,
                 heard, sets, sent, wanted>>

(* ReadFrom: what is queued; once closed it may also return at once.       *)
ReadFrom ==
  /\ conn \in {"open", "closed"}
  /\ queue # <<>>
  /\ queue' = Tail(queue)
  /\ UNCHANGED <<conn, prev, current, port, asked, socket, loop, hopping, arriving,
                 heard, sets, sent, wanted>>

(***************************************************************************)
(* WriteTo goes out of the current socket to the current port, whatever    *)
(* address it is given, and reaches the server or does not; the server     *)
(* answers the socket it last heard from.                                  *)
(***************************************************************************)
WriteTo ==
  /\ conn = "open"
  /\ socket[current].open
  /\ heard' = [at |-> current, hops |-> current - 1]
  /\ UNCHANGED <<conn, prev, current, port, asked, socket, loop, hopping, queue,
                 arriving, sets, sent, wanted>>

ServerSends ==
  /\ heard.at # 0
  /\ sent < MaxSent
  /\ sent' = sent + 1
  /\ arriving' = IF socket[heard.at].open THEN [arriving EXCEPT ![heard.at] = @ + 1]
                 ELSE arriving
  /\ UNCHANGED <<conn, prev, current, port, asked, socket, loop, hopping, queue, heard,
                 sets, wanted>>
-----------------------------------------------------------------------------
(***************************************************************************)
(* SetDeadline, SetReadDeadline, SetWriteDeadline and the buffer sizes:    *)
(* kept for the sockets to come, and set on the two there are.             *)
(***************************************************************************)
OnSockets(new) ==
  [s \in Sockets |-> IF s \in {prev, current} THEN new[s] ELSE socket[s]]

SetCommon(a, w, new) ==
  /\ conn \in {"open", "closed"}
  /\ sets < MaxSets
  /\ sets' = sets + 1
  /\ asked' = a
  /\ wanted' = w
  /\ socket' = OnSockets(new)
  /\ UNCHANGED <<conn, prev, current, port, loop, hopping, queue, arriving, heard, sent>>

SetDeadline(d) ==
  SetCommon([asked EXCEPT !.all = d, !.read = d, !.write = d],
            [wanted EXCEPT !.read = d, !.write = d],
            [s \in Sockets |-> [socket[s] EXCEPT !.read = d, !.write = d]])

SetReadDeadline(d) ==
  SetCommon([asked EXCEPT !.all = "zero", !.read = d],
            [wanted EXCEPT !.read = d],
            [s \in Sockets |-> [socket[s] EXCEPT !.read = d]])

SetWriteDeadline(d) ==
  SetCommon([asked EXCEPT !.all = "zero", !.write = d],
            [wanted EXCEPT !.write = d],
            [s \in Sockets |-> [socket[s] EXCEPT !.write = d]])

(* SetReadBuffer and SetWriteBuffer, alike.                                *)
SetBuffers(n) ==
  SetCommon([asked EXCEPT !.buffers = n],
            [wanted EXCEPT !.buffers = n],
            [s \in Sockets |-> [socket[s] EXCEPT !.buffers = n]])

(* Close closes both sockets and closeChan, once.                          *)
Close ==
  /\ conn = "open"
  /\ conn' = "closed"
  /\ socket' = Close1(Close1(socket, prev), current)
  /\ UNCHANGED <<prev, current, port, asked, loop, hopping, queue, arriving, heard, sets,
                 sent, wanted>>
-----------------------------------------------------------------------------
Step(s) ==
  \/ Receive(s)
  \/ ReceiveTimeout(s)
  \/ QueueTimeout(s)
  \/ ReceiveClosed(s)
  \/ ReceiveFails(s)

Next ==
  \/ \E i \in Intervals : NewUDPHopPacketConn(i)
  \/ ListenFails
  \/ hop
  \/ hopLoopEnds
  \/ \E s \in Sockets : Step(s)
  \/ ReadFrom
  \/ WriteTo
  \/ ServerSends
  \/ \E d \in Deadline : SetDeadline(d) \/ SetReadDeadline(d) \/ SetWriteDeadline(d)
  \/ \E n \in {1} : SetBuffers(n)
  \/ Close

Spec == Init /\ [][Next]_vars
-----------------------------------------------------------------------------
(***************************************************************************)
(* "ReadFrom and WriteTo ... rotating the server port underneath a QUIC    *)
(* connection that must not notice": the sockets open are the current one  *)
(* and the one before it, none once Close has returned, whatever a hop     *)
(* timer that fires then does; and each of them carries the deadlines and  *)
(* buffer sizes the layer above last set, however many hops ago.           *)
(***************************************************************************)
SocketsAsAsked ==
  /\ Opened = IF conn = "open" THEN {prev, current} \ {0} ELSE {}
  /\ \A s \in Opened : /\ socket[s].read = wanted.read
                       /\ socket[s].write = wanted.write
                       /\ socket[s].buffers = wanted.buffers

(***************************************************************************)
(* "We need to keep receiving packets from the previous connection,        *)
(* because otherwise there will be packet loss": the socket the server     *)
(* last heard from is open, and has a loop that reads it unless a read of  *)
(* it failed, until the second hop after it was written from.              *)
(***************************************************************************)
HeardForOneHop ==
  (conn = "open" /\ heard.at # 0 /\ (current - 1) - heard.hops <= 1)
    => socket[heard.at].open /\ loop[heard.at] \in {"reading", "sending", "failed"}
=============================================================================
