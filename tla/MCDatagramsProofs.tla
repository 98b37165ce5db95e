-------------------------- MODULE MCDatagramsProofs -------------------------
(***************************************************************************)
(* What the run Datagrams checks, proved for the sum it is of.  A step of  *)
(* the sum is a step of one of its parts, and the others do not move.  For *)
(* the server's UDP sessions and the Gecko obfuscator, the invariants of   *)
(* ServerUDPProofs and GeckoProofs are carried over; the hopping socket,   *)
(* Salamander with its clock, and the control channel of the realm are     *)
(* proved here, each from an inductive invariant of its own.               *)
(***************************************************************************)
EXTENDS MCDatagrams, FiniteSetTheorems, TLAPS

HopAsks ==
  [all : Hop!Deadline, read : Hop!Deadline, write : Hop!Deadline, buffers : {0, 1}]
HopWants ==
  [read : Hop!Deadline, write : Hop!Deadline, buffers : {0, 1}]
HopSocket ==
  [open : BOOLEAN, read : Hop!Deadline, write : Hop!Deadline, buffers : {0, 1}]

(***************************************************************************)
(* The hopping socket.  A value of each variable, and what its state       *)
(* amounts to: the socket before the current one is the previous one, the  *)
(* two are open while the connection is, each has its loop and carries     *)
(* what was last asked for, and so will the next; the server heard from a  *)
(* socket that has been current.                                           *)
(***************************************************************************)
HopTypes ==
  /\ conn \in {"new", "refused", "open", "closed"}
  /\ asked \in HopAsks
  /\ wanted \in HopWants
  /\ socket \in [Hop!Sockets -> HopSocket]
  /\ loop \in [Hop!Sockets -> {"none", "reading", "sending", "done", "failed"}]
  /\ heard \in [at : Nat, hops : Nat]
  /\ current \in Nat /\ prev \in Nat

HopPlace ==
  /\ conn \in {"new", "refused"} =>
       /\ current = 0 /\ prev = 0
       /\ wanted = [read |-> "zero", write |-> "zero", buffers |-> 0]
  /\ conn \in {"open", "closed"} => current \in Hop!Sockets /\ prev = current - 1

HopOpen ==
  \A s \in Hop!Sockets :
    /\ socket[s].open <=> conn = "open" /\ s \in {prev, current}
    /\ socket[s].open => loop[s] \in {"reading", "sending", "failed"}

HopSet ==
  \A s \in Hop!Sockets : socket[s].open =>
    /\ socket[s].read = wanted.read
    /\ socket[s].write = wanted.write
    /\ socket[s].buffers = wanted.buffers

(* SetDeadline's, unless one for reading or writing alone came after it.    *)
HopAll(k) == k.all = "zero" \/ (k.all = k.read /\ k.all = k.write)

HopAsked ==
  /\ asked.read = wanted.read
  /\ asked.write = wanted.write
  /\ asked.buffers = wanted.buffers
  /\ HopAll(asked)

HopHeard == heard.at # 0 => heard.at <= current /\ heard.hops = heard.at - 1

HopInv == HopTypes /\ HopPlace /\ HopOpen /\ HopSet /\ HopAsked /\ HopHeard

(* MaxHops is a number.                                                    *)
LEMMA HopBound == MaxHops \in Nat
BY DatagramsAssumption DEF Hop!HopConnAssumption

(* Close1 closes a socket and does nothing else.                           *)
LEMMA HopCloses ==
  ASSUME NEW f \in [Hop!Sockets -> HopSocket], NEW n \in Nat,
         n # 0 => n \in Hop!Sockets
  PROVE  /\ Hop!Close1(f, n) \in [Hop!Sockets -> HopSocket]
         /\ \A s \in Hop!Sockets :
              /\ Hop!Close1(f, n)[s].open <=> (s # n /\ f[s].open)
              /\ Hop!Close1(f, n)[s].read = f[s].read
              /\ Hop!Close1(f, n)[s].write = f[s].write
              /\ Hop!Close1(f, n)[s].buffers = f[s].buffers
<1> USE HopBound DEF HopSocket
<1>1. CASE n = 0
  BY <1>1 DEF Hop!Close1, Hop!Sockets
<1>2. CASE n # 0
  <2>1. Hop!Close1(f, n) = [f EXCEPT ![n] = [f[n] EXCEPT !.open = FALSE]]
    BY <1>2 DEF Hop!Close1
  <2>2. /\ [f[n] EXCEPT !.open = FALSE] \in HopSocket
        /\ [f[n] EXCEPT !.open = FALSE].open = FALSE
        /\ [f[n] EXCEPT !.open = FALSE].read = f[n].read
        /\ [f[n] EXCEPT !.open = FALSE].write = f[n].write
        /\ [f[n] EXCEPT !.open = FALSE].buffers = f[n].buffers
    BY <1>2
  <2> HIDE DEF HopSocket
  <2> QED
    BY <1>2, <2>1, <2>2
<1> QED
  BY <1>1, <1>2

(* Before NewUDPHopPacketConn there is no socket.                          *)
LEMMA HopStarts == Hop!Init => HopInv
<1> USE HopBound DEF Hop!Sockets, Hop!Deadline, HopSocket, HopAsks, HopWants
<1> SUFFICES ASSUME Hop!Init PROVE HopInv
  OBVIOUS
<1>1. HopTypes
  BY DEF Hop!Init, HopTypes, Hop!Nothing, Hop!Unused, Hop!Fresh
<1>2. HopPlace /\ HopHeard /\ HopAsked
  BY DEF Hop!Init, HopPlace, HopHeard, HopAsked, HopAll, Hop!Nothing
<1>3. HopOpen /\ HopSet
  BY DEF Hop!Init, HopOpen, HopSet, Hop!Unused, Hop!Fresh
<1> QED
  BY <1>1, <1>2, <1>3 DEF HopInv

(* NewUDPHopPacketConn: the first socket, on which nothing is set yet.     *)
LEMMA HopOpens ==
  ASSUME NEW i \in MCIntervals, HopInv, Hop!NewUDPHopPacketConn(i)
  PROVE  HopInv'
<1> USE HopBound DEF Hop!Sockets, Hop!Deadline, HopSocket, HopAsks, HopWants
<1>1. CASE conn' = "refused" /\ UNCHANGED <<current, socket, loop, hopping>>
  BY <1>1 DEF Hop!NewUDPHopPacketConn, HopInv, HopTypes, HopPlace, HopOpen, HopSet,
              HopAsked, HopAll, HopHeard
<1>2. CASE /\ conn' = "open" /\ current' = 1
           /\ socket' = [socket EXCEPT ![1] = Hop!Fresh]
           /\ loop' = [loop EXCEPT ![1] = "reading"]
  <2>1. HopTypes'
    BY <1>2 DEF Hop!NewUDPHopPacketConn, HopInv, HopTypes, Hop!Fresh
  <2>2. HopPlace' /\ HopHeard' /\ HopAsked'
    BY <1>2 DEF Hop!NewUDPHopPacketConn, HopInv, HopTypes, HopPlace, HopHeard, HopAsked,
                HopAll
  <2>3. HopOpen' /\ HopSet'
    BY <1>2 DEF Hop!NewUDPHopPacketConn, HopInv, HopTypes, HopPlace, HopOpen, HopSet,
                Hop!Fresh
  <2> QED
    BY <2>1, <2>2, <2>3 DEF HopInv
<1> QED
  BY <1>1, <1>2 DEF Hop!NewUDPHopPacketConn

(* hop: the socket before goes, the new one gets what was asked for.       *)
LEMMA HopMoves == ASSUME HopInv, Hop!hop PROVE HopInv'
<1> USE HopBound DEF Hop!Sockets, Hop!Deadline, HopSocket, HopAsks, HopWants
<1> DEFINE next == current + 1
<1>1. /\ conn = "open" /\ conn' = conn
      /\ current \in Hop!Sockets /\ next \in Hop!Sockets /\ prev = current - 1
      /\ prev' = current /\ current' = next
      /\ UNCHANGED <<asked, wanted, heard>>
  BY DEF Hop!hop, Hop!MayHop, HopInv, HopTypes, HopPlace
<1>2. /\ Hop!Apply(asked) = [open |-> TRUE, buffers |-> wanted.buffers,
                             read |-> wanted.read, write |-> wanted.write]
      /\ Hop!Apply(asked) \in HopSocket
  BY DEF Hop!Apply, Hop!Later, HopInv, HopTypes, HopAsked, HopAll
<1>3. /\ socket' \in [Hop!Sockets -> HopSocket]
      /\ socket'[next] = Hop!Apply(asked)
      /\ \A s \in Hop!Sockets \ {next} :
            /\ socket'[s].open <=> (s # prev /\ socket[s].open)
            /\ socket'[s].read = socket[s].read
            /\ socket'[s].write = socket[s].write
            /\ socket'[s].buffers = socket[s].buffers
  <2>1. socket \in [Hop!Sockets -> HopSocket] /\ prev \in Nat
    BY DEF HopInv, HopTypes
  <2>2. prev # 0 => prev \in Hop!Sockets
    BY <1>1
  <2>3. socket' = [Hop!Close1(socket, prev) EXCEPT ![next] = Hop!Apply(asked)]
    BY <1>1 DEF Hop!hop, Hop!LeftBehind
  <2> HIDE DEF Hop!Sockets, HopSocket, next
  <2> QED
    BY <1>1, <1>2, <2>1, <2>2, <2>3, HopCloses
<1>4. /\ loop' \in [Hop!Sockets -> {"none", "reading", "sending", "done", "failed"}]
      /\ loop'[next] = "reading"
      /\ \A s \in Hop!Sockets \ {next} : loop'[s] = loop[s]
  BY <1>1 DEF Hop!hop, HopInv, HopTypes
<1>5. HopTypes' /\ HopPlace' /\ HopAsked' /\ HopHeard'
  BY <1>1, <1>3, <1>4 DEF HopInv, HopTypes, HopPlace, HopAsked, HopAll, HopHeard
<1>6. HopOpen'
  <2> SUFFICES ASSUME NEW s \in Hop!Sockets
               PROVE  /\ socket'[s].open <=> s \in {current, next}
                      /\ socket'[s].open => loop'[s] \in {"reading", "sending", "failed"}
    BY <1>1 DEF HopOpen
  <2>1. CASE s = next
    BY <1>2, <1>3, <1>4, <2>1
  <2>2. CASE s # next
    <3>1. socket'[s].open <=> (s # prev /\ socket[s].open)
      BY <1>3, <2>2
    <3>2. socket[s].open <=> s \in {prev, current}
      BY <1>1 DEF HopInv, HopOpen
    <3>3. socket[s].open => loop[s] \in {"reading", "sending", "failed"}
      BY DEF HopInv, HopOpen
    <3>4. prev # current
      BY <1>1
    <3> QED
      BY <1>4, <2>2, <3>1, <3>2, <3>3, <3>4
  <2> QED
    BY <2>1, <2>2
<1>7. HopSet'
  <2> SUFFICES ASSUME NEW s \in Hop!Sockets, socket'[s].open
               PROVE  /\ socket'[s].read = wanted.read
                      /\ socket'[s].write = wanted.write
                      /\ socket'[s].buffers = wanted.buffers
    BY <1>1 DEF HopSet
  <2>1. CASE s = next
    BY <1>2, <1>3, <2>1
  <2>2. CASE s # next
    BY <1>3, <2>2 DEF HopInv, HopSet
  <2> QED
    BY <2>1, <2>2
<1> QED
  BY <1>5, <1>6, <1>7 DEF HopInv

(* The loops: none ends while its socket is open, unless a read fails.      *)
LEMMA HopReads ==
  ASSUME NEW s \in Hop!Sockets, HopInv, Hop!Step(s)
  PROVE  HopInv'
<1> USE HopBound DEF Hop!Sockets, Hop!Deadline, HopSocket, HopAsks, HopWants
<1>1. /\ UNCHANGED <<conn, prev, current, asked, socket, heard, wanted>>
      /\ \/ loop' = loop
         \/ \E l \in {"reading", "sending", "failed"} : loop' = [loop EXCEPT ![s] = l]
         \/ loop' = [loop EXCEPT ![s] = "done"] /\ ~socket[s].open
  BY DEF Hop!Step, Hop!Receive, Hop!ReceiveTimeout, Hop!QueueTimeout, Hop!ReceiveClosed,
         Hop!ReceiveFails
<1>2. loop' \in [Hop!Sockets -> {"none", "reading", "sending", "done", "failed"}]
  <2>1. loop \in [Hop!Sockets -> {"none", "reading", "sending", "done", "failed"}]
    BY DEF HopInv, HopTypes
  <2> HIDE DEF Hop!Sockets
  <2> QED
    BY <1>1, <2>1
<1>3. HopTypes'
  BY <1>1, <1>2 DEF HopInv, HopTypes
<1>4. HopOpen'
  <2>1. ASSUME NEW r \in Hop!Sockets
        PROVE  /\ socket'[r].open <=> conn' = "open" /\ r \in {prev', current'}
               /\ socket'[r].open => loop'[r] \in {"reading", "sending", "failed"}
    <3>1. /\ socket[r].open <=> conn = "open" /\ r \in {prev, current}
          /\ socket[r].open => loop[r] \in {"reading", "sending", "failed"}
      BY DEF HopInv, HopOpen
    <3>2. loop'[r] = loop[r] \/ loop'[r] \in {"reading", "sending", "failed"} \/ ~socket[r].open
      <4>1. loop \in [Hop!Sockets -> {"none", "reading", "sending", "done", "failed"}]
        BY DEF HopInv, HopTypes
      <4> HIDE DEF Hop!Sockets
      <4> QED
        BY <1>1, <4>1
    <3> QED
      BY <1>1, <3>1, <3>2
  <2> QED
    BY <2>1 DEF HopOpen
<1> QED
  BY <1>1, <1>3, <1>4 DEF HopInv, HopPlace, HopSet, HopAsked, HopAll, HopHeard

(* A setter that asks the sockets there are for what it keeps for the next *)
(* one.                                                                    *)
LEMMA HopSetsBoth ==
  ASSUME HopInv,
         NEW ask \in HopAsks, NEW want \in HopWants,
         NEW new \in [Hop!Sockets -> HopSocket],
         Hop!SetCommon(ask, want, new),
         /\ ask.read = want.read
         /\ ask.write = want.write
         /\ ask.buffers = want.buffers
         /\ HopAll(ask),
         \A s \in Hop!Sockets :
           /\ new[s].open = socket[s].open
           /\ socket[s].open =>
                /\ new[s].read = want.read
                /\ new[s].write = want.write
                /\ new[s].buffers = want.buffers
  PROVE  HopInv'
<1>1. /\ conn \in {"open", "closed"}
      /\ asked' = ask /\ wanted' = want /\ socket' = Hop!OnSockets(new)
      /\ UNCHANGED <<conn, prev, current, loop, heard>>
  BY DEF Hop!SetCommon
<1>2. /\ socket' \in [Hop!Sockets -> HopSocket]
      /\ \A s \in Hop!Sockets :
           socket'[s] = IF s \in {prev, current} THEN new[s] ELSE socket[s]
  BY <1>1 DEF Hop!OnSockets, HopInv, HopTypes
<1>3. HopTypes' /\ HopAsked' /\ HopHeard' /\ HopPlace'
  BY <1>1, <1>2 DEF HopInv, HopTypes, HopAsked, HopAll, HopHeard, HopPlace
<1>4. \A s \in Hop!Sockets : socket'[s].open = socket[s].open
  BY <1>2
<1>5. HopOpen'
  BY <1>1, <1>4 DEF HopInv, HopOpen
<1>6. HopSet'
  BY <1>1, <1>2, <1>4 DEF HopInv, HopOpen, HopSet
<1> QED
  BY <1>3, <1>5, <1>6 DEF HopInv

(* The setters are such.                                                   *)
LEMMA HopSets ==
  ASSUME HopInv,
         \/ \E d \in Hop!Deadline : \/ Hop!SetDeadline(d)
                                    \/ Hop!SetReadDeadline(d)
                                    \/ Hop!SetWriteDeadline(d)
         \/ \E n \in {1} : Hop!SetBuffers(n)
  PROVE  HopInv'
<1>1. /\ asked \in HopAsks /\ wanted \in HopWants
      /\ \A s \in Hop!Sockets : socket[s] \in HopSocket
      /\ HopAsked /\ HopSet
  BY DEF HopInv, HopTypes
<1>2. ASSUME NEW d \in Hop!Deadline, Hop!SetDeadline(d)
      PROVE  HopInv'
  <2> DEFINE ask == [asked EXCEPT !.all = d, !.read = d, !.write = d]
             want == [wanted EXCEPT !.read = d, !.write = d]
             new == [s \in Hop!Sockets |-> [socket[s] EXCEPT !.read = d, !.write = d]]
  <2>1. /\ ask \in HopAsks /\ want \in HopWants
        /\ ask.read = want.read /\ ask.write = want.write
        /\ ask.buffers = want.buffers /\ HopAll(ask)
        /\ want.read = d /\ want.write = d /\ want.buffers = wanted.buffers
    BY <1>1, <1>2 DEF HopAsks, HopWants, HopAsked, HopAll
  <2>2. ASSUME NEW s \in Hop!Sockets
        PROVE  /\ new[s] \in HopSocket /\ new[s].open = socket[s].open
               /\ new[s].read = d /\ new[s].write = d
               /\ new[s].buffers = socket[s].buffers
    BY <1>1, <1>2 DEF HopSocket
  <2>3. new \in [Hop!Sockets -> HopSocket]
    BY <2>2
  <2>4. Hop!SetCommon(ask, want, new)
    BY <1>2 DEF Hop!SetDeadline
  <2> HIDE DEF ask, want, new
  <2>5. \A s \in Hop!Sockets :
          /\ new[s].open = socket[s].open
          /\ socket[s].open => /\ new[s].read = want.read
                               /\ new[s].write = want.write
                               /\ new[s].buffers = want.buffers
    BY <1>1, <2>1, <2>2 DEF HopSet
  <2> QED
    BY <2>1, <2>3, <2>4, <2>5, HopSetsBoth
<1>3. ASSUME NEW d \in Hop!Deadline, Hop!SetReadDeadline(d)
      PROVE  HopInv'
  <2> DEFINE ask == [asked EXCEPT !.all = "zero", !.read = d]
             want == [wanted EXCEPT !.read = d]
             new == [s \in Hop!Sockets |-> [socket[s] EXCEPT !.read = d]]
  <2>1. /\ ask \in HopAsks /\ want \in HopWants
        /\ ask.read = want.read /\ ask.write = want.write
        /\ ask.buffers = want.buffers /\ HopAll(ask)
        /\ want.read = d /\ want.write = wanted.write
        /\ want.buffers = wanted.buffers
    BY <1>1, <1>3 DEF HopAsks, HopWants, HopAsked, HopAll, Hop!Deadline
  <2>2. ASSUME NEW s \in Hop!Sockets
        PROVE  /\ new[s] \in HopSocket /\ new[s].open = socket[s].open
               /\ new[s].read = d /\ new[s].write = socket[s].write
               /\ new[s].buffers = socket[s].buffers
    BY <1>1, <1>3 DEF HopSocket
  <2>3. new \in [Hop!Sockets -> HopSocket]
    BY <2>2
  <2>4. Hop!SetCommon(ask, want, new)
    BY <1>3 DEF Hop!SetReadDeadline
  <2> HIDE DEF ask, want, new
  <2>5. \A s \in Hop!Sockets :
          /\ new[s].open = socket[s].open
          /\ socket[s].open => /\ new[s].read = want.read
                               /\ new[s].write = want.write
                               /\ new[s].buffers = want.buffers
    BY <1>1, <2>1, <2>2 DEF HopSet
  <2> QED
    BY <2>1, <2>3, <2>4, <2>5, HopSetsBoth
<1>4. ASSUME NEW d \in Hop!Deadline, Hop!SetWriteDeadline(d)
      PROVE  HopInv'
  <2> DEFINE ask == [asked EXCEPT !.all = "zero", !.write = d]
             want == [wanted EXCEPT !.write = d]
             new == [s \in Hop!Sockets |-> [socket[s] EXCEPT !.write = d]]
  <2>1. /\ ask \in HopAsks /\ want \in HopWants
        /\ ask.read = want.read /\ ask.write = want.write
        /\ ask.buffers = want.buffers /\ HopAll(ask)
        /\ want.read = wanted.read /\ want.write = d
        /\ want.buffers = wanted.buffers
    BY <1>1, <1>4 DEF HopAsks, HopWants, HopAsked, HopAll, Hop!Deadline
  <2>2. ASSUME NEW s \in Hop!Sockets
        PROVE  /\ new[s] \in HopSocket /\ new[s].open = socket[s].open
               /\ new[s].read = socket[s].read /\ new[s].write = d
               /\ new[s].buffers = socket[s].buffers
    BY <1>1, <1>4 DEF HopSocket
  <2>3. new \in [Hop!Sockets -> HopSocket]
    BY <2>2
  <2>4. Hop!SetCommon(ask, want, new)
    BY <1>4 DEF Hop!SetWriteDeadline
  <2> HIDE DEF ask, want, new
  <2>5. \A s \in Hop!Sockets :
          /\ new[s].open = socket[s].open
          /\ socket[s].open => /\ new[s].read = want.read
                               /\ new[s].write = want.write
                               /\ new[s].buffers = want.buffers
    BY <1>1, <2>1, <2>2 DEF HopSet
  <2> QED
    BY <2>1, <2>3, <2>4, <2>5, HopSetsBoth
<1>5. ASSUME Hop!SetBuffers(1)
      PROVE  HopInv'
  <2> DEFINE ask == [asked EXCEPT !.buffers = 1]
             want == [wanted EXCEPT !.buffers = 1]
             new == [s \in Hop!Sockets |-> [socket[s] EXCEPT !.buffers = 1]]
  <2>1. /\ ask \in HopAsks /\ want \in HopWants
        /\ ask.read = want.read /\ ask.write = want.write
        /\ ask.buffers = want.buffers
        /\ HopAll(ask)
        /\ want.read = wanted.read /\ want.write = wanted.write /\ want.buffers = 1
    BY <1>1, <1>5 DEF HopAsks, HopWants, HopAsked, HopAll
  <2>2. ASSUME NEW s \in Hop!Sockets
        PROVE  /\ new[s] \in HopSocket /\ new[s].open = socket[s].open
               /\ new[s].read = socket[s].read /\ new[s].write = socket[s].write
               /\ new[s].buffers = 1
    BY <1>1, <1>5 DEF HopSocket
  <2>3. new \in [Hop!Sockets -> HopSocket]
    BY <2>2
  <2>4. Hop!SetCommon(ask, want, new)
    BY <1>5 DEF Hop!SetBuffers
  <2> HIDE DEF ask, want, new
  <2>5. \A s \in Hop!Sockets :
          /\ new[s].open = socket[s].open
          /\ socket[s].open => /\ new[s].read = want.read
                               /\ new[s].write = want.write
                               /\ new[s].buffers = want.buffers
    BY <1>1, <2>1, <2>2 DEF HopSet
  <2> QED
    BY <2>1, <2>3, <2>4, <2>5, HopSetsBoth
<1> QED
  BY <1>2, <1>3, <1>4, <1>5

(* Every step keeps it.                                                    *)
LEMMA HopKept == ASSUME HopInv, [Hop!Next]_(Hop!vars) PROVE HopInv'
<1> USE HopBound DEF Hop!Sockets, Hop!Deadline, HopSocket, HopAsks, HopWants
<1>1. CASE Hop!ListenFails
  BY <1>1 DEF Hop!ListenFails, HopInv, HopTypes, HopPlace, HopOpen, HopSet, HopAsked,
              HopAll,
              HopHeard
<1>2. CASE Hop!WriteTo
  BY <1>2 DEF Hop!WriteTo, HopInv, HopTypes, HopPlace, HopOpen, HopSet, HopAsked,
              HopAll,
              HopHeard
<1>3. CASE Hop!hopLoopEnds \/ Hop!ReadFrom \/ Hop!ServerSends \/ UNCHANGED Hop!vars
  <2>1. UNCHANGED <<conn, prev, current, asked, socket, loop, heard, wanted>>
    BY <1>3 DEF Hop!hopLoopEnds, Hop!ReadFrom, Hop!ServerSends, Hop!vars
  <2> QED
    BY <2>1 DEF HopInv, HopTypes, HopPlace, HopOpen, HopSet, HopAsked, HopAll, HopHeard
<1>4. CASE Hop!Close
  <2>1. /\ socket' \in [Hop!Sockets -> HopSocket]
        /\ \A s \in Hop!Sockets :
             socket'[s].open <=> (s \notin {prev, current} /\ socket[s].open)
    <3>1. /\ socket \in [Hop!Sockets -> HopSocket] /\ prev \in Nat /\ current \in Nat
          /\ prev # 0 => prev \in Hop!Sockets
          /\ current # 0 => current \in Hop!Sockets
          /\ socket' = Hop!Close1(Hop!Close1(socket, prev), current)
      BY <1>4 DEF Hop!Close, HopInv, HopTypes, HopPlace
    <3> HIDE DEF Hop!Sockets, HopSocket
    <3> QED
      BY <3>1, HopCloses
  <2>2. HopTypes' /\ HopPlace' /\ HopAsked' /\ HopHeard'
    BY <1>4, <2>1 DEF Hop!Close, HopInv, HopTypes, HopPlace, HopAsked, HopAll, HopHeard
  <2>3. HopOpen' /\ HopSet'
    BY <1>4, <2>1 DEF Hop!Close, HopInv, HopTypes, HopOpen, HopSet
  <2> QED
    BY <2>2, <2>3 DEF HopInv
<1> QED
  BY <1>1, <1>2, <1>3, <1>4, HopOpens, HopMoves, HopReads, HopSets DEF Hop!Next

(* What the invariant is for.                                              *)
LEMMA HopInvImplies == HopInv => Hop!SocketsAsAsked /\ Hop!HeardForOneHop
<1> USE HopBound DEF Hop!Sockets
<1> SUFFICES ASSUME HopInv PROVE Hop!SocketsAsAsked /\ Hop!HeardForOneHop
  OBVIOUS
<1>1. Hop!Opened = IF conn = "open" THEN {prev, current} \ {0} ELSE {}
  BY DEF HopInv, HopTypes, HopPlace, HopOpen, Hop!Opened
<1>2. Hop!SocketsAsAsked
  BY <1>1 DEF HopInv, HopSet, Hop!SocketsAsAsked, Hop!Opened
<1>3. Hop!HeardForOneHop
  BY DEF HopInv, HopTypes, HopPlace, HopOpen, HopHeard, Hop!HeardForOneHop
<1> QED
  BY <1>2, <1>3

-----------------------------------------------------------------------------
(***************************************************************************)
(* Salamander v2.  While the process is up: what the correction of the     *)
(* clock amounts to, if most time servers were right; that the start was   *)
(* no further ahead of the monotonic clock than any reading; and where the *)
(* replay set has got to, by the clock that turns it.                      *)
(***************************************************************************)
SaltTypes ==
  /\ true \in Nat /\ wall \in Nat /\ mono \in Nat /\ skew \in Int
  /\ life \in Nat /\ high \in Int /\ drop \in Nat
  /\ clk \in [on : BOOLEAN, corrected : BOOLEAN, offset : Int, anchorWall : Int, anchorMono : Int]
  /\ clk.corrected => clk.on
  /\ ~clk.corrected => clk.offset = 0
  /\ \A x \in sealed : /\ x.d \in Arrivals /\ x.ts \in Int /\ x.sent \in Nat
                        /\ x.ts <= x.sent + skew
  /\ \A x, y \in sealed : x.d = y.d => x.ts = y.ts

(* How long the time servers may take in all.                              *)
SaltWait == Servers * QueryTimeout

SaltClock ==
  honest /\ clk.corrected =>
    /\ clk.offset + clk.anchorWall - clk.anchorMono <= true - mono + SourceError
    /\ clk.offset >= -SaltWait
    /\ ~clockTouched =>
         /\ wall - mono = clk.anchorWall - clk.anchorMono
         /\ wall + clk.offset - true <= SourceError
         /\ wall + clk.offset - true >= -(SourceError + SaltWait)

(***************************************************************************)
(* While the servers are asked: the time that has passed, and, as long as  *)
(* the system clock is left alone, what their answers have to do with the  *)
(* true time now and how far the system clock can have come.               *)
(***************************************************************************)
SaltResults == [time : Int, offset : Int, err : Int]

SaltAnswered(r) ==
  /\ r.offset = r.err + (true - wall)
  /\ r.time <= true + r.err
  /\ r.time >= true + r.err - (mono - query.start)

SaltAsking ==
  /\ DOMAIN query = {"asked", "start", "since", "answers"}
  /\ query.asked \in 0..Servers /\ query.start \in Nat /\ query.since \in Nat
  /\ query.start <= query.since /\ query.since <= mono /\ mono - query.since <= QueryTimeout
  /\ query.asked = Servers => mono = query.since
  /\ query.since - query.start <= query.asked * QueryTimeout
  /\ query.answers \in Seq(SaltResults)
  /\ ~clockTouched =>
       /\ wall - (mono - query.start) <= Floor
       /\ \A i \in 1..Len(query.answers) : SaltAnswered(query.answers[i])

SaltBoot ==
  /\ started \in Nat
  /\ boot \in [wall : Int, mono : Int]
  /\ IF clk.on THEN boot.mono = Obfs!NoMono
     ELSE boot.mono \in Nat /\ boot.mono <= mono /\ boot.wall - boot.mono <= high

SaltBuckets == 0..(BucketCount - 1)

SaltSet(r, h) ==
  /\ r.buckets \in [SaltBuckets -> SUBSET Arrivals]
  /\ r.idx \in SaltBuckets
  /\ DOMAIN r = {"buckets", "idx", "last"}
  /\ r.last # Obfs!NoTime =>
       /\ r.last \in [wall : Int, mono : Int]
       /\ IF clk.on THEN r.last.mono = Obfs!NoMono /\ r.last.wall <= h + mono
          ELSE r.last.mono \in Nat /\ r.last.mono <= mono

(***************************************************************************)
(* A datagram that was handed up by this process is in the bucket that was *)
(* turned to k periods ago and bears no later time than was acceptable     *)
(* then, or is gone with that bucket.                                      *)
(***************************************************************************)
SaltBase(r, h) == IF clk.on THEN r.last.wall ELSE h + r.last.mono

SaltAged(i, k) == IF k <= i THEN i - k ELSE i + BucketCount - k

SaltIn(r, h, d, ts) ==
  /\ r.last # Obfs!NoTime
  /\ \E k \in 0..BucketCount :
       /\ ts + k * MaxSkew < SaltBase(r, h) + 2 * MaxSkew
       /\ k < BucketCount => d \in r.buckets[SaltAged(r.idx, k)]

SaltKept ==
  \A d \in Arrivals : \A j \in 1..Len(took[d]) :
    took[d][j].life = life => SaltIn(replay, high, d, took[d][j].ts)

SaltTook ==
  /\ took \in [Arrivals -> Seq([life : Nat, ts : Int, sent : Nat])]
  /\ \A d \in Arrivals :
       /\ Len(took[d]) <= 2
       /\ \A j \in 1..Len(took[d]) :
            /\ took[d][j].life <= life
            /\ \E x \in sealed : x.d = d /\ x.ts = took[d][j].ts

SaltInv ==
  /\ SaltTypes /\ SaltTook /\ Obfs!HandedUpOnce
  /\ proc = "asking" => SaltAsking
  /\ proc = "up" => SaltClock /\ SaltBoot /\ SaltSet(replay, high) /\ SaltKept

(* The constants.                                                          *)
LEMMA SaltConstants ==
  /\ MaxSkew \in Nat \ {0} /\ StepThreshold \in Nat /\ SourceError \in Nat
  /\ Second \in Nat \ {0} /\ Servers \in Nat \ {0} /\ QueryTimeout \in Nat
  /\ BucketCount \in Nat /\ BucketCount >= 4
  /\ Start \in Nat /\ Epoch \in Nat /\ WallStarts \subseteq Nat /\ Floor \in Nat
  /\ Offers \subseteq Int /\ SaltWait \in Nat
BY DatagramsAssumption DEF Obfs!SalamanderAssumption, SaltWait

(* The second a time is in has begun and not ended.                        *)
LEMMA SaltUnix ==
  ASSUME NEW t, t.wall \in Int
  PROVE  /\ Obfs!Unix(t) \in Int /\ Obfs!Unix(t) <= t.wall /\ t.wall < Obfs!Unix(t) + Second
<1>1. PICK x \in Int : x = t.wall
  OBVIOUS
<1>2. Second \in Nat \ {0} /\ x % Second \in 0..(Second - 1)
  BY SaltConstants
<1>3. PICK c \in 0..(Second - 1) : c = x % Second
  BY <1>2
<1>4. Obfs!Unix(t) = x - c
  BY <1>1, <1>3 DEF Obfs!Unix
<1> QED
  BY <1>1, <1>2, <1>3, <1>4

(* What a reading leaves of the clock.                                     *)
LEMMA SaltAfterwards ==
  ASSUME SaltTypes
  PROVE  LET c == Obfs!Afterwards(clk)
         IN  /\ c \in [on : BOOLEAN, corrected : BOOLEAN, offset : Int,
                        anchorWall : Int, anchorMono : Int]
             /\ c.on = clk.on
             /\ c.corrected => c = clk /\ c.on /\ ~Obfs!Stepped(clk)
             /\ ~c.corrected => c.offset = 0
<1>1. clk \in [on : BOOLEAN, corrected : BOOLEAN, offset : Int, anchorWall : Int, anchorMono : Int]
      /\ (clk.corrected => clk.on) /\ (~clk.corrected => clk.offset = 0)
  BY DEF SaltTypes
<1>2. CASE clk.corrected /\ Obfs!Stepped(clk)
  <2>1. PICK c : c = Obfs!release(clk)
    OBVIOUS
  <2>2. Obfs!Afterwards(clk) = c
    BY <1>2, <2>1 DEF Obfs!Afterwards
  <2>3. /\ c \in [on : BOOLEAN, corrected : BOOLEAN, offset : Int, anchorWall : Int, anchorMono : Int]
        /\ c.on = clk.on /\ c.corrected = FALSE /\ c.offset = 0
    <3>1. PICK b0 \in BOOLEAN, p \in Int, q \in Int :
               b0 = clk.on /\ p = clk.anchorWall /\ q = clk.anchorMono
      BY <1>1
    <3>2. c = [on |-> b0, corrected |-> FALSE, offset |-> 0, anchorWall |-> p, anchorMono |-> q]
      BY <1>1, <2>1, <3>1 DEF Obfs!release
    <3> QED
      BY <3>1, <3>2
  <2> QED
    BY <2>2, <2>3
<1>3. CASE ~(clk.corrected /\ Obfs!Stepped(clk))
  BY <1>1, <1>3 DEF Obfs!Afterwards
<1> QED
  BY <1>2, <1>3

(* A reading of the clock: with the monotonic clock's, or without.         *)
LEMMA SaltReads ==
  ASSUME SaltTypes
  PROVE  /\ Obfs!Now(clk) \in [wall : Int, mono : Int]
         /\ clk.on => Obfs!Now(clk).mono = Obfs!NoMono
         /\ ~clk.on => Obfs!Now(clk).mono = mono /\ Obfs!Now(clk).wall = wall
         /\ Obfs!Now(clk).wall = wall + Obfs!Afterwards(clk).offset
<1>1. /\ wall \in Nat /\ mono \in Nat /\ clk.on \in BOOLEAN /\ clk.corrected \in BOOLEAN
      /\ (~clk.on => ~clk.corrected) /\ (~clk.corrected => clk.offset = 0)
  BY DEF SaltTypes
<1>2. PICK n \in Int : n = Obfs!Afterwards(clk).offset
  BY SaltAfterwards
<1>3. CASE clk.on
  BY <1>1, <1>2, <1>3 DEF Obfs!Now, Obfs!NoMono
<1>4. CASE ~clk.on
  <2>1. Obfs!Afterwards(clk) = clk /\ clk.offset = 0
    BY <1>1, <1>4 DEF Obfs!Afterwards
  <2> QED
    BY <1>1, <1>4, <2>1 DEF Obfs!Now
<1> QED
  BY <1>1, <1>3, <1>4

(* The history of a reading.                                               *)
LEMMA SaltObserves ==
  ASSUME SaltTypes, NEW now \in [wall : Int, mono : Int], Obfs!Observe(now)
  PROVE  /\ high' \in Int /\ high <= high' /\ now.wall - mono <= high'
         /\ drop' \in Nat /\ drop <= drop' /\ high' - (now.wall - mono) <= drop'
<1>1. PICK x \in Int : x = now.wall - mono
  BY DEF SaltTypes
<1>2. /\ high' = (IF x > high THEN x ELSE high)
      /\ drop' = (IF high' - x > drop THEN high' - x ELSE drop)
  BY <1>1 DEF Obfs!Observe
<1>3. high \in Int /\ drop \in Nat
  BY DEF SaltTypes
<1>4. high' \in Int /\ high <= high' /\ x <= high'
  BY <1>1, <1>2, <1>3
<1>5. drop' \in Nat /\ drop <= drop' /\ high' - x <= drop'
  BY <1>1, <1>2, <1>3, <1>4
<1> QED
  BY <1>1, <1>4, <1>5

(* Periods are counted whole.                                              *)
LEMMA SaltDivides ==
  ASSUME NEW x \in Nat, NEW N \in Nat \ {0}
  PROVE  x \div N \in Nat /\ (x \div N) * N <= x /\ x < (x \div N) * N + N
<1>1. /\ x \div N \in Nat /\ x % N \in 0..(N - 1)
      /\ x = N * (x \div N) + (x % N)
  OBVIOUS
<1>2. PICK q \in Nat, c \in 0..(N - 1) : q = x \div N /\ c = x % N /\ x = N * q + c
  BY <1>1
<1>3. N * q = q * N
  OBVIOUS
<1> QED
  BY <1>2, <1>3

(* Less than two rounds of the buckets.                                    *)
LEMMA SaltTurns ==
  ASSUME NEW N \in Nat \ {0}, NEW x \in Nat, x < 2 * N
  PROVE  x % N = IF x < N THEN x ELSE x - N
<1>1. /\ x \div N \in Int /\ x % N \in 0..(N - 1)
      /\ x = N * (x \div N) + (x % N)
  OBVIOUS
<1>2. PICK q \in Int, c \in 0..(N - 1) : c = x % N /\ x = N * q + c
  BY <1>1
<1>3. q >= 2 => N * q >= 2 * N
  OBVIOUS
<1>4. q <= -1 => N * q <= -N
  OBVIOUS
<1>5. q = 0 \/ q = 1
  BY <1>2, <1>3, <1>4
<1> QED
  BY <1>2, <1>5

(* A bucket that is not a round behind is not cleared, and ages.           *)
LEMMA SaltTurned ==
  ASSUME NEW i \in SaltBuckets, NEW k \in Nat, NEW n \in Nat, k + n < BucketCount
  PROVE  /\ (i + n) % BucketCount \in SaltBuckets
         /\ SaltAged(i, k) \in SaltBuckets
         /\ SaltAged((i + n) % BucketCount, k + n) = SaltAged(i, k)
         /\ \A j \in 1..n : (i + j) % BucketCount # SaltAged(i, k)
<1>1. BucketCount \in Nat \ {0} /\ i \in Nat /\ i < BucketCount
  BY SaltConstants DEF SaltBuckets
<1>2. \A j \in 0..n : (i + j) % BucketCount
                        = IF i + j < BucketCount THEN i + j ELSE i + j - BucketCount
  <2> SUFFICES ASSUME NEW j \in 0..n
               PROVE  (i + j) % BucketCount
                        = IF i + j < BucketCount THEN i + j ELSE i + j - BucketCount
    OBVIOUS
  <2>1. PICK x \in Nat : x = i + j /\ x < 2 * BucketCount
    BY <1>1
  <2>2. x % BucketCount = IF x < BucketCount THEN x ELSE x - BucketCount
    BY <1>1, <2>1, SaltTurns
  <2> QED
    BY <1>1, <2>1, <2>2
<1>3. (i + n) % BucketCount = IF i + n < BucketCount THEN i + n ELSE i + n - BucketCount
  BY <1>2
<1>4. (i + n) % BucketCount \in SaltBuckets /\ SaltAged(i, k) \in SaltBuckets
  <2>1. PICK x \in Nat : /\ x = (i + n) % BucketCount
                         /\ x = IF i + n < BucketCount THEN i + n ELSE i + n - BucketCount
    BY <1>1, <1>3
  <2> QED
    BY <1>1, <2>1 DEF SaltBuckets, SaltAged
<1>5. SaltAged((i + n) % BucketCount, k + n) = SaltAged(i, k)
  <2>1. PICK x \in Nat : /\ x = (i + n) % BucketCount
                         /\ x = IF i + n < BucketCount THEN i + n ELSE i + n - BucketCount
    BY <1>1, <1>3
  <2>2. SaltAged(x, k + n) = SaltAged(i, k)
    BY <1>1, <2>1 DEF SaltAged
  <2> QED
    BY <2>1, <2>2
<1>6. ASSUME NEW j \in 1..n
      PROVE  (i + j) % BucketCount # SaltAged(i, k)
  <2>1. (i + j) % BucketCount = IF i + j < BucketCount THEN i + j ELSE i + j - BucketCount
    BY <1>2
  <2> QED
    BY <1>1, <2>1 DEF SaltAged
<1> QED
  BY <1>4, <1>5, <1>6

(* The periods that have passed, by the clock that turns the set.          *)
LEMMA SaltPassed ==
  ASSUME SaltTypes, SaltSet(replay, high), replay.last # Obfs!NoTime,
         NEW now, now = Obfs!Now(clk),
         NEW from, from = (IF clk.on THEN replay.last.wall ELSE replay.last.mono),
         NEW to, to = (IF clk.on THEN now.wall ELSE mono),
         NEW n, n = Obfs!PeriodsPassed(replay, now)
  PROVE  /\ n \in Nat /\ from \in Int /\ to \in Int
         /\ n = 0 \/ from + n * MaxSkew <= to
         /\ to < from + n * MaxSkew + MaxSkew
<1>1. from \in Int /\ to \in Int /\ MaxSkew \in Nat \ {0}
  BY SaltReads, SaltConstants DEF SaltTypes, SaltSet
<1>2. Obfs!Sub(now, replay.last) = to - from
  <2>1. CASE clk.on
    BY <2>1, SaltReads DEF SaltSet, Obfs!Sub
  <2>2. CASE ~clk.on
    <3>1. mono # Obfs!NoMono /\ replay.last.mono # Obfs!NoMono
      BY <2>2 DEF SaltTypes, SaltSet, Obfs!NoMono
    <3> QED
      BY <2>2, <3>1, SaltReads DEF Obfs!Sub
  <2> QED
    BY <2>1, <2>2
<1>3. n = IF to - from < 0 THEN 0 ELSE (to - from) \div MaxSkew
  BY <1>2 DEF Obfs!PeriodsPassed
<1>4. CASE to - from < 0
  BY <1>1, <1>3, <1>4
<1>5. CASE to - from >= 0
  <2>1. to - from \in Nat
    BY <1>1, <1>5
  <2>2. PICK x \in Nat : x = to - from
    BY <2>1
  <2>3. x \div MaxSkew \in Nat /\ (x \div MaxSkew) * MaxSkew <= x
        /\ x < (x \div MaxSkew) * MaxSkew + MaxSkew
    BY <1>1, SaltDivides
  <2>4. n = x \div MaxSkew
    BY <1>3, <1>5, <2>2
  <2>5. PICK y \in Nat : y = n * MaxSkew
    BY <1>1, <2>3, <2>4
  <2>6. n \in Nat /\ y <= x /\ x < y + MaxSkew
    BY <2>3, <2>4, <2>5
  <2> QED
    BY <1>1, <2>2, <2>5, <2>6
<1> QED
  BY <1>1, <1>4, <1>5

(* The set turns by whole periods and stays behind the clock.              *)
LEMMA SaltRotates ==
  ASSUME SaltTypes, SaltSet(replay, high), NEW now, now = Obfs!Now(clk),
         NEW h \in Int, high <= h, now.wall - mono <= h,
         NEW r, r = Obfs!Rotated(replay, now)
  PROVE  /\ SaltSet(r, h) /\ r.last # Obfs!NoTime
         /\ now.wall < SaltBase(r, h) + MaxSkew
         /\ SaltBase(r, h) <= h + mono
<1>1. PICK n : n = Obfs!PeriodsPassed(replay, now)
  OBVIOUS
<1>2. /\ r.buckets = [i \in DOMAIN replay.buckets |->
                        IF i \in Obfs!Cleared(replay, n) THEN {} ELSE replay.buckets[i]]
      /\ r.idx = (replay.idx + n) % BucketCount
      /\ r.last = IF replay.last = Obfs!NoTime THEN now ELSE Obfs!Add(replay.last, n * MaxSkew)
      /\ DOMAIN r = {"buckets", "idx", "last"}
  BY <1>1 DEF Obfs!Rotated
<1>3. /\ now \in [wall : Int, mono : Int] /\ (clk.on => now.mono = Obfs!NoMono)
      /\ (~clk.on => now.mono = mono)
  BY SaltReads
<1>4. /\ high \in Int /\ mono \in Nat /\ clk.on \in BOOLEAN
      /\ MaxSkew \in Nat \ {0} /\ BucketCount \in Nat \ {0}
  BY SaltConstants DEF SaltTypes
<1>5. ASSUME n \in Nat
      PROVE  /\ r.buckets \in [SaltBuckets -> SUBSET Arrivals]
             /\ r.idx \in SaltBuckets
  <2>1. /\ replay.buckets \in [SaltBuckets -> SUBSET Arrivals]
        /\ replay.idx \in SaltBuckets
    BY DEF SaltSet
  <2>2. r.buckets \in [SaltBuckets -> SUBSET Arrivals]
    BY <1>2, <2>1
  <2>3. PICK x \in Nat : x = replay.idx + n
    BY <1>5, <2>1 DEF SaltBuckets
  <2>4. x % BucketCount \in 0..(BucketCount - 1)
    BY <1>4
  <2> QED
    BY <1>2, <2>2, <2>3, <2>4 DEF SaltBuckets
<1>6. CASE replay.last = Obfs!NoTime
  <2>1. n = 0 /\ r.last = now
    BY <1>1, <1>2, <1>6 DEF Obfs!PeriodsPassed
  <2>2. now # Obfs!NoTime
    BY <1>3, <1>4 DEF Obfs!NoTime, Obfs!NoMono
  <2>3. SaltSet(r, h)
    BY <1>2, <1>3, <1>4, <1>5, <2>1 DEF SaltSet
  <2> QED
    BY <1>3, <1>4, <2>1, <2>2, <2>3 DEF SaltBase
<1>7. CASE replay.last # Obfs!NoTime
  <2>1. PICK l \in [wall : Int, mono : Int] : l = replay.last
    BY <1>7 DEF SaltSet
  <2>2. IF clk.on THEN l.mono = Obfs!NoMono /\ l.wall <= high + mono
        ELSE l.mono \in Nat /\ l.mono <= mono
    BY <1>7, <2>1 DEF SaltSet
  <2>3. PICK from, to : /\ from = (IF clk.on THEN l.wall ELSE l.mono)
                        /\ to = (IF clk.on THEN now.wall ELSE mono)
    OBVIOUS
  <2>4. /\ n \in Nat /\ from \in Int /\ to \in Int
        /\ n = 0 \/ from + n * MaxSkew <= to
        /\ to < from + n * MaxSkew + MaxSkew
    BY <1>1, <1>7, <2>1, <2>3, SaltPassed
  <2>5. PICK y \in Nat : y = n * MaxSkew /\ (n = 0 => y = 0)
    BY <1>4, <2>4
  <2>6. r.last = [wall |-> l.wall + y, mono |-> IF l.mono = Obfs!NoMono THEN Obfs!NoMono ELSE l.mono + y]
    BY <1>2, <1>7, <2>1, <2>5 DEF Obfs!Add
  <2>7. CASE clk.on
    <3>1. r.last = [wall |-> l.wall + y, mono |-> Obfs!NoMono] /\ l.wall + y \in Int
      BY <2>2, <2>5, <2>6, <2>7
    <3>2. r.last # Obfs!NoTime /\ r.last \in [wall : Int, mono : Int]
      BY <3>1 DEF Obfs!NoTime, Obfs!NoMono
    <3>3. l.wall + y <= h + mono /\ now.wall < l.wall + y + MaxSkew
      BY <1>3, <1>4, <2>2, <2>3, <2>4, <2>5, <2>7
    <3>4. SaltSet(r, h)
      BY <1>2, <1>5, <2>4, <2>7, <3>1, <3>2, <3>3 DEF SaltSet
    <3> QED
      BY <2>7, <3>1, <3>2, <3>3, <3>4 DEF SaltBase
  <2>8. CASE ~clk.on
    <3>1. r.last = [wall |-> l.wall + y, mono |-> l.mono + y] /\ l.mono + y \in Nat
          /\ l.wall + y \in Int
      BY <2>2, <2>5, <2>6, <2>8 DEF Obfs!NoMono
    <3>2. r.last # Obfs!NoTime /\ r.last \in [wall : Int, mono : Int]
      BY <3>1 DEF Obfs!NoTime, Obfs!NoMono
    <3>3. l.mono + y <= mono /\ mono < l.mono + y + MaxSkew
      BY <1>4, <2>2, <2>3, <2>4, <2>5, <2>8
    <3>4. SaltSet(r, h)
      BY <1>2, <1>5, <2>4, <2>8, <3>1, <3>2, <3>3 DEF SaltSet
    <3>5. now.wall < h + (l.mono + y) + MaxSkew /\ h + (l.mono + y) <= h + mono
      BY <1>3, <1>4, <3>1, <3>3
    <3> QED
      BY <2>8, <3>1, <3>2, <3>4, <3>5 DEF SaltBase
  <2> QED
    BY <1>4, <2>7, <2>8
<1> QED
  BY <1>6, <1>7

(* What the set held it holds, or has let go with its bucket.              *)
LEMMA SaltHolds ==
  ASSUME SaltTypes, SaltSet(replay, high), NEW now, now = Obfs!Now(clk),
         NEW h \in Int, high <= h,
         NEW r, r = Obfs!Rotated(replay, now), r.last # Obfs!NoTime,
         NEW d, NEW ts \in Int, SaltIn(replay, high, d, ts)
  PROVE  SaltIn(r, h, d, ts)
<1>1. PICK n : n = Obfs!PeriodsPassed(replay, now)
  OBVIOUS
<1>2. replay.last # Obfs!NoTime
  BY DEF SaltIn
<1>3. /\ r.buckets = [i \in DOMAIN replay.buckets |->
                        IF i \in Obfs!Cleared(replay, n) THEN {} ELSE replay.buckets[i]]
      /\ r.idx = (replay.idx + n) % BucketCount
      /\ r.last = Obfs!Add(replay.last, n * MaxSkew)
  BY <1>1, <1>2 DEF Obfs!Rotated
<1>4. /\ high \in Int /\ clk.on \in BOOLEAN
      /\ MaxSkew \in Nat \ {0} /\ BucketCount \in Nat \ {0}
  BY SaltConstants DEF SaltTypes
<1>5. /\ replay.buckets \in [SaltBuckets -> SUBSET Arrivals] /\ replay.idx \in SaltBuckets
      /\ replay.last \in [wall : Int, mono : Int]
      /\ IF clk.on THEN replay.last.mono = Obfs!NoMono
         ELSE replay.last.mono \in Nat
  BY <1>2 DEF SaltSet
<1>6. n \in Nat
  BY <1>1, <1>2, SaltPassed
<1>7. PICK y \in Nat : y = n * MaxSkew
  BY <1>4, <1>6
<1>8. SaltBase(replay, high) \in Int /\ SaltBase(r, h) \in Int
      /\ SaltBase(replay, high) + y <= SaltBase(r, h)
  <2>1. CASE clk.on
    BY <1>3, <1>5, <1>7, <2>1 DEF SaltBase, Obfs!Add
  <2>2. CASE ~clk.on
    <3>1. r.last.mono = replay.last.mono + y
      BY <1>3, <1>5, <1>7, <2>2 DEF Obfs!Add, Obfs!NoMono
    <3> QED
      BY <1>4, <1>5, <2>2, <3>1 DEF SaltBase
  <2> QED
    BY <1>4, <2>1, <2>2
<1>9. PICK k \in 0..BucketCount :
           /\ ts + k * MaxSkew < SaltBase(replay, high) + 2 * MaxSkew
           /\ k < BucketCount => d \in replay.buckets[SaltAged(replay.idx, k)]
  BY DEF SaltIn
<1>10. PICK z \in Nat : z = k * MaxSkew
  BY <1>4
<1>11. CASE k + n < BucketCount
  <2>1. k + n \in 0..BucketCount /\ k \in Nat /\ k < BucketCount
    BY <1>4, <1>6, <1>11
  <2>2. (k + n) * MaxSkew = z + y
    BY <1>4, <1>6, <1>7, <1>10
  <2>3. ts + (k + n) * MaxSkew < SaltBase(r, h) + 2 * MaxSkew
    BY <1>4, <1>8, <1>9, <1>10, <2>2
  <2>4. /\ SaltAged(replay.idx, k) \in SaltBuckets
        /\ SaltAged(r.idx, k + n) = SaltAged(replay.idx, k)
        /\ \A j \in 1..n : (replay.idx + j) % BucketCount # SaltAged(replay.idx, k)
    BY <1>3, <1>5, <1>6, <1>11, <2>1, SaltTurned
  <2>5. SaltAged(replay.idx, k) \notin Obfs!Cleared(replay, n)
    BY <2>4 DEF Obfs!Cleared
  <2>6. r.buckets[SaltAged(r.idx, k + n)] = replay.buckets[SaltAged(replay.idx, k)]
    BY <1>3, <1>5, <2>4, <2>5
  <2>7. d \in r.buckets[SaltAged(r.idx, k + n)]
    BY <1>9, <2>1, <2>6
  <2> QED
    BY <2>1, <2>3, <2>7 DEF SaltIn
<1>12. CASE k + n >= BucketCount
  <2>1. PICK w \in Nat : w = BucketCount * MaxSkew
    BY <1>4
  <2>2. (k + n) * MaxSkew = z + y
    BY <1>4, <1>6, <1>7, <1>10
  <2>3. PICK e \in Nat : e = k + n - BucketCount
    BY <1>4, <1>6, <1>12
  <2>4. (k + n) * MaxSkew = w + e * MaxSkew /\ e * MaxSkew \in Nat
    BY <1>4, <1>6, <2>1, <2>3
  <2>5. w <= z + y
    BY <2>2, <2>4
  <2>6. ts + BucketCount * MaxSkew < SaltBase(r, h) + 2 * MaxSkew
    BY <1>4, <1>8, <1>9, <1>10, <2>1, <2>5
  <2> QED
    BY <1>4, <2>6 DEF SaltIn
<1> QED
  BY <1>4, <1>6, <1>11, <1>12

(* An entry of the history.                                                *)
LEMMA SaltEntry ==
  ASSUME SaltTook, NEW d \in Arrivals, NEW j \in 1..Len(took[d])
  PROVE  took[d][j].life \in Nat /\ took[d][j].ts \in Int /\ took[d][j].sent \in Nat
<1> DEFINE E == [life : Nat, ts : Int, sent : Nat]
<1>1. took[d] \in Seq(E)
  BY DEF SaltTook
<1>2. took[d][j] \in E
  <2> HIDE DEF E
  <2> QED
    BY <1>1
<1> QED
  BY <1>2

(* Nothing is lost of the set and the start while time passes.             *)
LEMMA SaltStays ==
  ASSUME SaltTypes, SaltBoot, SaltSet(replay, high), SaltKept, SaltTook,
         clk'.on = clk.on, UNCHANGED <<replay, boot, started, took, life>>,
         high' \in Int, high <= high', mono' \in Nat, mono <= mono'
  PROVE  SaltBoot' /\ SaltSet(replay, high)' /\ SaltKept'
<1>1. high \in Int /\ mono \in Nat /\ clk.on \in BOOLEAN
  BY DEF SaltTypes
<1>2. SaltBoot'
  <2>1. CASE clk.on
    BY <2>1 DEF SaltBoot
  <2>2. CASE ~clk.on
    <3>1. PICK x \in Nat, w \in Int : x = boot.mono /\ w = boot.wall /\ x <= mono /\ w - x <= high
      BY <2>2 DEF SaltBoot
    <3>2. x <= mono' /\ w - x <= high'
      BY <1>1, <3>1
    <3> QED
      BY <2>2, <3>1, <3>2 DEF SaltBoot
  <2> QED
    BY <1>1, <2>1, <2>2
<1>3. SaltSet(replay, high)'
  <2>1. CASE replay.last = Obfs!NoTime
    BY <2>1 DEF SaltSet, SaltBuckets, Obfs!NoTime
  <2>2. CASE replay.last # Obfs!NoTime
    <3>1. PICK x \in Int, w \in Int : x = replay.last.mono /\ w = replay.last.wall
      BY <2>2 DEF SaltSet
    <3>2. IF clk.on THEN x = Obfs!NoMono /\ w <= high + mono ELSE x \in Nat /\ x <= mono
      BY <2>2, <3>1 DEF SaltSet
    <3>3. IF clk'.on THEN x = Obfs!NoMono /\ w <= high' + mono' ELSE x \in Nat /\ x <= mono'
      BY <1>1, <3>1, <3>2
    <3> QED
      BY <2>2, <3>1, <3>3 DEF SaltSet, SaltBuckets, Obfs!NoTime, Obfs!NoMono
  <2> QED
    BY <2>1, <2>2
<1>4. ASSUME NEW d \in Arrivals, NEW j \in 1..Len(took[d]), took[d][j].life = life
      PROVE  SaltIn(replay, high, d, took[d][j].ts)'
  <2>1. SaltIn(replay, high, d, took[d][j].ts)
    BY <1>4 DEF SaltKept
  <2>2. PICK ts \in Int : ts = took[d][j].ts
    BY SaltEntry
  <2>3. PICK k \in 0..BucketCount :
             /\ ts + k * MaxSkew < SaltBase(replay, high) + 2 * MaxSkew
             /\ k < BucketCount => d \in replay.buckets[SaltAged(replay.idx, k)]
    BY <2>1, <2>2 DEF SaltIn
  <2>4. PICK y \in Nat : y = k * MaxSkew
    BY SaltConstants
  <2>5. replay.last # Obfs!NoTime
    BY <2>1 DEF SaltIn
  <2>6. PICK x \in Int, z \in Int : /\ x = SaltBase(replay, high) /\ z = SaltBase(replay, high)'
                                    /\ x <= z
    BY <1>1, <2>5 DEF SaltBase, SaltSet
  <2>7. ts + k * MaxSkew < z + 2 * MaxSkew
    BY <2>2, <2>3, <2>4, <2>6, SaltConstants, SMTT(40)
  <2>8. SaltAged(replay.idx, k)' = SaltAged(replay.idx, k)
    BY DEF SaltAged
  <2> QED
    BY <2>2, <2>3, <2>5, <2>6, <2>7, <2>8 DEF SaltIn, Obfs!NoTime
<1>5. SaltKept'
  BY <1>4 DEF SaltKept
<1> QED
  BY <1>2, <1>3, <1>5

(* What was handed up stays accounted for while nothing else is.           *)
LEMMA SaltOnce ==
  ASSUME SaltTypes, SaltTook, Obfs!HandedUpOnce, UNCHANGED <<took, life, started, skew, boot>>,
         proc' = "up" => proc = "up", drop' \in Nat, drop <= drop', sealed \subseteq sealed'
  PROVE  SaltTook' /\ Obfs!HandedUpOnce'
<1>1. SaltTook'
  BY DEF SaltTook
<1>2. ASSUME NEW d \in Arrivals, Len(took[d]) = 2, proc = "up", took[d][2].life = life
      PROVE  \/ took[d][1].life = took[d][2].life /\ drop' > MaxSkew - Second
             \/ /\ took[d][1].life < took[d][2].life
                /\ started - took[d][2].sent < Obfs!Lead + Second \/ drop' > 0
  <2>1. \/ took[d][1].life = took[d][2].life /\ drop > MaxSkew - Second
        \/ /\ took[d][1].life < took[d][2].life
           /\ started - took[d][2].sent < Obfs!Lead + Second \/ drop > 0
    BY <1>2 DEF Obfs!HandedUpOnce
  <2>2. drop \in Nat /\ MaxSkew \in Nat /\ Second \in Nat
    BY SaltConstants DEF SaltTypes
  <2>3. (drop > MaxSkew - Second => drop' > MaxSkew - Second) /\ (drop > 0 => drop' > 0)
    BY <2>2
  <2> QED
    BY <2>1, <2>3
<1>3. Obfs!Lead' = Obfs!Lead
  BY DEF Obfs!Lead
<1>4. Obfs!HandedUpOnce'
  BY <1>2, <1>3 DEF Obfs!HandedUpOnce
<1> QED
  BY <1>1, <1>4

(* A clock that was read: the correction is the one there was, or none.    *)
LEMMA SaltClockRead ==
  ASSUME SaltTypes, SaltClock, clk' = Obfs!Afterwards(clk), UNCHANGED <<true, wall, mono>>,
         UNCHANGED <<honest, clockTouched>>
  PROVE  SaltClock' /\ clk'.on = clk.on
<1>1. clk'.corrected => clk' = clk
  BY SaltAfterwards
<1>2. clk'.on = clk.on
  BY SaltAfterwards
<1> QED
  BY <1>1, <1>2 DEF SaltClock

(* The types after a reading.                                              *)
LEMMA SaltTypesRead ==
  ASSUME SaltTypes, clk' = Obfs!Afterwards(clk), UNCHANGED <<true, wall, mono, skew>>,
         life' = life, sealed' = sealed, high' \in Int, drop' \in Nat
  PROVE  SaltTypes'
<1>1. /\ clk' \in [on : BOOLEAN, corrected : BOOLEAN, offset : Int, anchorWall : Int, anchorMono : Int]
      /\ clk'.corrected => clk'.on
      /\ ~clk'.corrected => clk'.offset = 0
  BY SaltAfterwards
<1> QED
  BY <1>1 DEF SaltTypes

(* In the set, d is there under this period.                               *)
LEMMA SaltAdds ==
  ASSUME NEW r, NEW h \in Int, SaltSet(r, h), r.last # Obfs!NoTime, NEW d \in Arrivals,
         NEW q, q = Obfs!Added(r, d)
  PROVE  /\ SaltSet(q, h) /\ q.last = r.last /\ q.idx = r.idx
         /\ d \in q.buckets[SaltAged(q.idx, 0)]
         /\ \A i \in SaltBuckets : r.buckets[i] \subseteq q.buckets[i]
<1>1. /\ q.buckets = [r.buckets EXCEPT ![r.idx] = @ \cup {d}]
      /\ q.idx = r.idx /\ q.last = r.last /\ DOMAIN q = DOMAIN r
  BY DEF Obfs!Added, SaltSet
<1>2. r.buckets \in [SaltBuckets -> SUBSET Arrivals] /\ r.idx \in SaltBuckets
  BY DEF SaltSet
<1>3. /\ q.buckets \in [SaltBuckets -> SUBSET Arrivals]
      /\ d \in q.buckets[r.idx]
      /\ \A i \in SaltBuckets : r.buckets[i] \subseteq q.buckets[i]
  BY <1>1, <1>2
<1>4. SaltAged(q.idx, 0) = r.idx
  BY <1>1, <1>2, SaltConstants DEF SaltAged, SaltBuckets
<1> QED
  BY <1>1, <1>3, <1>4 DEF SaltSet

(* What it held it still holds.                                            *)
LEMMA SaltAddsTo ==
  ASSUME NEW r, NEW h \in Int, SaltSet(r, h), NEW d \in Arrivals,
         NEW q, q = Obfs!Added(r, d), NEW x, NEW ts, SaltIn(r, h, x, ts)
  PROVE  SaltIn(q, h, x, ts)
<1>1. r.last # Obfs!NoTime
  BY DEF SaltIn
<1>2. /\ q.last = r.last /\ q.idx = r.idx
      /\ \A i \in SaltBuckets : r.buckets[i] \subseteq q.buckets[i]
  BY <1>1, SaltAdds
<1>3. PICK k \in 0..BucketCount :
           /\ ts + k * MaxSkew < SaltBase(r, h) + 2 * MaxSkew
           /\ k < BucketCount => x \in r.buckets[SaltAged(r.idx, k)]
  BY DEF SaltIn
<1>4. SaltBase(q, h) = SaltBase(r, h)
  BY <1>2 DEF SaltBase
<1>5. k < BucketCount => SaltAged(r.idx, k) \in SaltBuckets
  BY SaltConstants DEF SaltAged, SaltSet, SaltBuckets
<1>6. k < BucketCount => x \in q.buckets[SaltAged(q.idx, k)]
  BY <1>2, <1>3, <1>5
<1> QED
  BY <1>1, <1>2, <1>3, <1>4, <1>6 DEF SaltIn

(* A datagram in the window is not older than MaxSkew and a second, nor    *)
(* than the second in which the obfuscator was built unless the clock fell *)
(* back.                                                                   *)
LEMMA SaltLower ==
  ASSUME SaltTypes, SaltBoot, NEW now, now = Obfs!Now(clk), Obfs!Observe(now),
         NEW ts \in Int, Obfs!timestampInWindow(ts, now)
  PROVE  /\ ts <= now.wall + MaxSkew /\ ts + Second > now.wall - MaxSkew
         /\ ts + Second > boot.wall \/ drop' > 0
<1>1. /\ now \in [wall : Int, mono : Int] /\ (clk.on => now.mono = Obfs!NoMono)
      /\ (~clk.on => now.mono = mono)
  BY SaltReads
<1>2. /\ high' \in Int /\ high <= high' /\ now.wall - mono <= high'
      /\ drop' \in Nat /\ high' - (now.wall - mono) <= drop'
  BY <1>1, SaltObserves
<1>3. PICK w \in Int, s0 \in Int : w = now.wall /\ s0 = boot.wall
  BY <1>1 DEF SaltBoot
<1>4. /\ MaxSkew \in Nat /\ Second \in Nat /\ mono \in Nat /\ high \in Int
      /\ clk.on \in BOOLEAN
  BY SaltConstants DEF SaltTypes
<1>5. PICK wu \in Int, su \in Int :
           /\ wu = Obfs!Unix(now) /\ wu <= w /\ w < wu + Second
           /\ su = Obfs!Unix(boot) /\ su <= s0 /\ s0 < su + Second
  BY <1>3, SaltUnix
<1>6. /\ ts <= wu + MaxSkew
      /\ ts >= IF Obfs!Sub(now, boot) < MaxSkew /\ su > wu - MaxSkew THEN su ELSE wu - MaxSkew
  BY <1>5 DEF Obfs!timestampInWindow, Obfs!Lower
<1>7. ts >= wu - MaxSkew /\ (ts >= su \/ ~(Obfs!Sub(now, boot) < MaxSkew))
  BY <1>4, <1>5, <1>6
<1>8. ts <= w + MaxSkew /\ ts + Second > w - MaxSkew
  BY <1>4, <1>5, <1>6, <1>7
<1>9. ASSUME ~(Obfs!Sub(now, boot) < MaxSkew), drop' = 0
      PROVE  ts + Second > s0
  <2>1. CASE clk.on
    <3>1. Obfs!Sub(now, boot) = w - s0
      BY <1>1, <1>3, <2>1 DEF Obfs!Sub
    <3> QED
      BY <1>3, <1>4, <1>8, <1>9, <3>1
  <2>2. CASE ~clk.on
    <3>1. PICK x \in Nat : x = boot.mono /\ x <= mono /\ s0 - x <= high
      BY <1>3, <2>2 DEF SaltBoot
    <3>2. Obfs!Sub(now, boot) = mono - x
      BY <1>1, <1>4, <2>2, <3>1 DEF Obfs!Sub, Obfs!NoMono
    <3>3. w - mono >= high
      BY <1>2, <1>3, <1>4, <1>9
    <3>4. mono - x >= MaxSkew
      BY <1>4, <1>9, <3>1, <3>2
    <3> QED
      BY <1>3, <1>4, <1>8, <3>1, <3>3, <3>4
  <2> QED
    BY <1>4, <2>1, <2>2
<1>10. ts >= su => ts + Second > s0
  BY <1>4, <1>5
<1> QED
  BY <1>2, <1>3, <1>7, <1>8, <1>9, <1>10

(* A datagram that the set has let go is not in the window again, unless   *)
(* the clock fell back by more than a period less a second.                *)
LEMMA SaltGone ==
  ASSUME NEW r, NEW h \in Int, NEW d, NEW ts \in Int, SaltIn(r, h, d, ts), SaltSet(r, h),
         ~Obfs!Seen(r, d), NEW w \in Int, ts + Second > w - MaxSkew, mono \in Nat,
         SaltBase(r, h) \in Int, SaltBase(r, h) <= h + mono,
         NEW c \in Nat, h - (w - mono) <= c
  PROVE  c > MaxSkew - Second
<1>1. MaxSkew \in Nat \ {0} /\ BucketCount \in Nat /\ BucketCount >= 4 /\ Second \in Nat
  BY SaltConstants
<1>2. PICK k \in 0..BucketCount :
           /\ ts + k * MaxSkew < SaltBase(r, h) + 2 * MaxSkew
           /\ k < BucketCount => d \in r.buckets[SaltAged(r.idx, k)]
  BY DEF SaltIn
<1>3. k = BucketCount
  <2>1. CASE k < BucketCount
    <3>1. SaltAged(r.idx, k) \in SaltBuckets /\ DOMAIN r.buckets = SaltBuckets
      BY <1>1, <2>1 DEF SaltAged, SaltSet, SaltBuckets
    <3> QED
      BY <1>2, <2>1, <3>1 DEF Obfs!Seen
  <2> QED
    BY <1>1, <2>1
<1>4. PICK y \in Nat : y = BucketCount * MaxSkew /\ y >= 4 * MaxSkew
  BY <1>1
<1>5. ts + y < SaltBase(r, h) + 2 * MaxSkew
  BY <1>2, <1>3, <1>4
<1> QED
  BY <1>1, <1>4, <1>5

(* The set as it is when the step has been taken.                          *)
LEMMA SaltSetThen ==
  ASSUME SaltSet(replay', high'), clk'.on = clk.on, mono' = mono
  PROVE  SaltSet(replay, high)'
BY DEF SaltSet, SaltBuckets, Obfs!NoTime, Obfs!NoMono

(* The same of a datagram in it.                                           *)
LEMMA SaltInThen ==
  ASSUME NEW d, NEW ts, SaltIn(replay', high', d, ts), clk'.on = clk.on, mono' = mono
  PROVE  SaltIn(replay, high, d, ts)'
<1>1. SaltBase(replay, high)' = SaltBase(replay', high')
  BY DEF SaltBase
<1>2. \A k : SaltAged(replay.idx, k)' = SaltAged(replay'.idx, k)
  BY DEF SaltAged
<1> QED
  BY <1>1, <1>2 DEF SaltIn, Obfs!NoTime, Obfs!NoMono

(* The start stays behind the most the clock has run ahead.                *)
LEMMA SaltBootStays ==
  ASSUME SaltTypes, SaltBoot, clk'.on = clk.on, UNCHANGED <<boot, started, mono>>,
         high' \in Int, high <= high'
  PROVE  SaltBoot'
<1>1. high \in Int /\ mono \in Nat /\ clk.on \in BOOLEAN
  BY DEF SaltTypes
<1>2. CASE clk.on
  BY <1>2 DEF SaltBoot
<1>3. CASE ~clk.on
  <2>1. PICK x \in Nat, w \in Int : x = boot.mono /\ w = boot.wall /\ x <= mono /\ w - x <= high
    BY <1>3 DEF SaltBoot
  <2>2. w - x <= high'
    BY <1>1, <2>1
  <2> QED
    BY <1>3, <2>1, <2>2 DEF SaltBoot
<1> QED
  BY <1>1, <1>2, <1>3

(* What Append does to an entry's history.                                 *)
LEMMA SaltAppends ==
  ASSUME NEW E, NEW s0 \in Seq(E), NEW e0 \in E, NEW q, q = Append(s0, e0)
  PROVE  /\ q \in Seq(E) /\ Len(s0) \in Nat /\ Len(q) = Len(s0) + 1 /\ q[Len(q)] = e0
         /\ \A j \in 1..Len(s0) : q[j] = s0[j]
OBVIOUS

(* A datagram that is not handed up leaves what was where it was.          *)
LEMMA SaltRefuses ==
  ASSUME SaltTypes, SaltTook, SaltSet(replay, high), SaltKept,
         NEW now, now = Obfs!Now(clk), Obfs!Observe(now),
         replay' = Obfs!Rotated(replay, now), took' = took, life' = life,
         clk'.on = clk.on, mono' = mono
  PROVE  SaltSet(replay, high)' /\ SaltKept'
<1>1. now \in [wall : Int, mono : Int]
  BY SaltReads
<1>2. high' \in Int /\ high <= high' /\ now.wall - mono <= high'
  BY <1>1, SaltObserves
<1>3. SaltSet(replay', high') /\ replay'.last # Obfs!NoTime
  BY <1>2, SaltRotates
<1>4. ASSUME NEW d \in Arrivals, NEW j \in 1..Len(took[d]), took[d][j].life = life
      PROVE  SaltIn(replay, high, d, took[d][j].ts)'
  <2>1. PICK ts \in Int : ts = took[d][j].ts
    BY SaltEntry
  <2>2. SaltIn(replay, high, d, ts)
    BY <1>4, <2>1 DEF SaltKept
  <2>3. SaltIn(replay', high', d, ts)
    BY <1>2, <1>3, <2>2, SaltHolds
  <2>4. SaltIn(replay, high, d, ts)'
    BY <2>3, SaltInThen
  <2> QED
    BY <2>1, <2>4
<1>5. SaltKept'
  BY <1>4 DEF SaltKept
<1> QED
  BY <1>3, <1>5, SaltSetThen

(* What the history holds after a datagram has been handed up.             *)
LEMMA SaltTakes ==
  ASSUME SaltTypes, SaltTook, NEW m \in sealed, Len(took[m.d]) < 2, sealed' = sealed,
         life' = life, NEW e0, e0 = [life |-> life, ts |-> m.ts, sent |-> m.sent],
         took' = [took EXCEPT ![m.d] = Append(@, e0)]
  PROVE  /\ SaltTook'
         /\ m.d \in Arrivals /\ m.ts \in Int
         /\ Len(took[m.d]) \in Nat
         /\ Len(took'[m.d]) = Len(took[m.d]) + 1 /\ took'[m.d][Len(took'[m.d])] = e0
         /\ \A j \in 1..Len(took[m.d]) : took'[m.d][j] = took[m.d][j]
         /\ \A d \in Arrivals : d # m.d => took'[d] = took[d]
<1> DEFINE E == [life : Nat, ts : Int, sent : Nat]
<1>1. m.d \in Arrivals /\ m.ts \in Int /\ m.sent \in Nat /\ life \in Nat
  BY DEF SaltTypes
<1>2. e0 \in E /\ e0.life = life /\ e0.ts = m.ts
  BY <1>1
<1>3. took \in [Arrivals -> Seq(E)]
  BY DEF SaltTook
<1> HIDE DEF E
<1>4. took' = [took EXCEPT ![m.d] = Append(took[m.d], e0)]
  BY <1>1, <1>3
<1>5. took'[m.d] = Append(took[m.d], e0) /\ took[m.d] \in Seq(E)
  BY <1>1, <1>3, <1>4
<1>6. /\ took'[m.d] \in Seq(E) /\ Len(took[m.d]) \in Nat
      /\ Len(took'[m.d]) = Len(took[m.d]) + 1 /\ took'[m.d][Len(took'[m.d])] = e0
      /\ \A j \in 1..Len(took[m.d]) : took'[m.d][j] = took[m.d][j]
  BY <1>2, <1>5, SaltAppends
<1>7. /\ took' \in [Arrivals -> Seq(E)]
      /\ \A d \in Arrivals : d # m.d => took'[d] = took[d]
  BY <1>1, <1>3, <1>4, <1>5, <1>6
<1>8. ASSUME NEW d \in Arrivals
      PROVE  /\ Len(took'[d]) <= 2
             /\ \A j \in 1..Len(took'[d]) :
                  /\ took'[d][j].life <= life
                  /\ \E x \in sealed : x.d = d /\ x.ts = took'[d][j].ts
  <2>1. CASE d # m.d
    BY <1>7, <2>1 DEF SaltTook
  <2>2. CASE d = m.d
    <3>1. Len(took'[d]) <= 2
      BY <1>6, <2>2
    <3>2. ASSUME NEW j \in 1..Len(took'[d])
          PROVE  /\ took'[d][j].life <= life
                 /\ \E x \in sealed : x.d = d /\ x.ts = took'[d][j].ts
      <4>1. CASE j = Len(took'[d])
        BY <1>1, <1>2, <1>6, <2>2, <4>1
      <4>2. CASE j # Len(took'[d])
        <5>1. j \in 1..Len(took[d]) /\ took'[d][j] = took[d][j]
          BY <1>6, <2>2, <4>2
        <5>2. /\ took[d][j].life <= life
              /\ \E x \in sealed : x.d = d /\ x.ts = took[d][j].ts
          BY <5>1 DEF SaltTook
        <5> QED
          BY <5>1, <5>2
      <4> QED
        BY <4>1, <4>2
    <3> QED
      BY <3>1, <3>2
  <2> QED
    BY <2>1, <2>2
<1>9. SaltTook'
  BY <1>7, <1>8 DEF SaltTook, E
<1> QED
  BY <1>1, <1>6, <1>7, <1>9

(* A datagram is handed up for good reason, the second time.               *)
LEMMA SaltHandsUp ==
  ASSUME SaltTypes, SaltTook, SaltBoot, SaltSet(replay, high), SaltKept, Obfs!HandedUpOnce,
         NEW m \in sealed, NEW now, now = Obfs!Now(clk), Obfs!Observe(now),
         Obfs!timestampInWindow(m.ts, now),
         NEW r, r = Obfs!Rotated(replay, now), ~Obfs!Seen(r, m.d),
         replay' = Obfs!Added(r, m.d), Len(took[m.d]) < 2,
         NEW e0, e0 = [life |-> life, ts |-> m.ts, sent |-> m.sent],
         took' = [took EXCEPT ![m.d] = Append(@, e0)],
         clk'.on = clk.on, UNCHANGED <<life, mono, sealed, boot, started, skew>>, proc = "up"
  PROVE  SaltTook' /\ SaltSet(replay, high)' /\ SaltKept' /\ Obfs!HandedUpOnce'
<1>1. now \in [wall : Int, mono : Int]
  BY SaltReads
<1>2. /\ high' \in Int /\ high <= high' /\ now.wall - mono <= high'
      /\ drop' \in Nat /\ drop <= drop' /\ high' - (now.wall - mono) <= drop'
  BY <1>1, SaltObserves
<1>3. /\ SaltSet(r, high') /\ r.last # Obfs!NoTime
      /\ now.wall < SaltBase(r, high') + MaxSkew
      /\ SaltBase(r, high') <= high' + mono
  BY <1>2, SaltRotates
<1>4. boot.wall \in Int /\ started \in Nat /\ skew \in Int
  BY DEF SaltBoot, SaltTypes
<1>5. /\ SaltTook'
      /\ m.d \in Arrivals /\ m.ts \in Int
      /\ Len(took[m.d]) \in Nat
      /\ Len(took'[m.d]) = Len(took[m.d]) + 1 /\ took'[m.d][Len(took'[m.d])] = e0
      /\ \A j \in 1..Len(took[m.d]) : took'[m.d][j] = took[m.d][j]
      /\ \A d \in Arrivals : d # m.d => took'[d] = took[d]
  BY SaltTakes
<1>6. PICK ts \in Int, w \in Int : ts = m.ts /\ w = now.wall
  BY <1>1, <1>5
<1>7. /\ ts <= w + MaxSkew /\ ts + Second > w - MaxSkew
      /\ ts + Second > boot.wall \/ drop' > 0
  BY <1>6, SaltLower
<1>8. /\ SaltSet(replay', high') /\ replay'.last = r.last /\ replay'.idx = r.idx
      /\ m.d \in replay'.buckets[SaltAged(replay'.idx, 0)]
  BY <1>2, <1>3, <1>5, SaltAdds
<1>9. /\ e0.life = life /\ e0.ts = ts
      /\ started - e0.sent < Obfs!Lead + Second \/ drop' > 0
  <2>1. e0.life = life /\ e0.ts = ts /\ e0.sent = m.sent
    BY <1>6
  <2>2. PICK x \in Nat : x = m.sent /\ ts <= x + skew
    BY <1>6 DEF SaltTypes
  <2>3. PICK y \in Int : y = boot.wall
    BY <1>4
  <2>4. Second \in Nat
    BY SaltConstants
  <2>5. ts + Second > y => started - x < (skew - (y - started)) + Second
    BY <1>4, <2>2, <2>4
  <2> QED
    BY <1>7, <2>1, <2>2, <2>3, <2>5 DEF Obfs!Lead
<1>10. SaltIn(replay', high', m.d, ts)
  <2>1. SaltBase(replay', high') = SaltBase(r, high')
    BY <1>8 DEF SaltBase
  <2>2. MaxSkew \in Nat /\ BucketCount \in Nat
    BY SaltConstants
  <2>3. SaltBase(r, high') \in Int
    BY <1>2, <1>3 DEF SaltBase, SaltSet
  <2>4. ts + 0 * MaxSkew < SaltBase(replay', high') + 2 * MaxSkew
    BY <1>3, <1>6, <1>7, <2>1, <2>2, <2>3
  <2> QED
    BY <1>3, <1>8, <2>2, <2>4 DEF SaltIn
<1>11. ASSUME NEW d \in Arrivals, NEW j \in 1..Len(took[d]), took[d][j].life = life
       PROVE  /\ SaltIn(r, high', d, took[d][j].ts)
              /\ SaltIn(replay', high', d, took[d][j].ts)
  <2>1. PICK x \in Int : x = took[d][j].ts
    BY SaltEntry
  <2>2. SaltIn(replay, high, d, x)
    BY <1>11, <2>1 DEF SaltKept
  <2>3. SaltIn(r, high', d, x)
    BY <1>2, <1>3, <2>2, SaltHolds
  <2>4. SaltIn(replay', high', d, x)
    BY <1>2, <1>3, <1>5, <2>3, SaltAddsTo
  <2> QED
    BY <2>1, <2>3, <2>4
<1>12. ASSUME NEW d \in Arrivals, NEW j \in 1..Len(took'[d]), took'[d][j].life = life
       PROVE  SaltIn(replay, high, d, took[d][j].ts)'
  <2>1. PICK x : x = took'[d][j].ts
    OBVIOUS
  <2>2. SaltIn(replay', high', d, x)
    <3>1. CASE d # m.d
      BY <1>5, <1>11, <1>12, <2>1, <3>1
    <3>2. CASE d = m.d /\ j = Len(took'[d])
      BY <1>5, <1>9, <1>10, <2>1, <3>2
    <3>3. CASE d = m.d /\ j # Len(took'[d])
      <4>1. j \in 1..Len(took[d]) /\ took'[d][j] = took[d][j]
        BY <1>5, <3>3
      <4> QED
        BY <1>11, <1>12, <2>1, <4>1
    <3> QED
      BY <3>1, <3>2, <3>3
  <2>3. SaltIn(replay, high, d, x)'
    BY <2>2, SaltInThen
  <2> QED
    BY <2>1, <2>3
<1>13. SaltKept'
  BY <1>12 DEF SaltKept
<1>14. ASSUME NEW d \in Arrivals, Len(took'[d]) = 2, took'[d][2].life = life
       PROVE  \/ took'[d][1].life = took'[d][2].life /\ drop' > MaxSkew - Second
              \/ /\ took'[d][1].life < took'[d][2].life
                 /\ started - took'[d][2].sent < Obfs!Lead + Second \/ drop' > 0
  <2>1. CASE d # m.d
    <3>1. \/ took[d][1].life = took[d][2].life /\ drop > MaxSkew - Second
          \/ /\ took[d][1].life < took[d][2].life
             /\ started - took[d][2].sent < Obfs!Lead + Second \/ drop > 0
      BY <1>5, <1>14, <2>1 DEF Obfs!HandedUpOnce
    <3>2. drop \in Nat /\ MaxSkew \in Nat /\ Second \in Nat
      BY SaltConstants DEF SaltTypes
    <3>3. (drop > MaxSkew - Second => drop' > MaxSkew - Second) /\ (drop > 0 => drop' > 0)
      BY <1>2, <3>2
    <3> QED
      BY <1>5, <2>1, <3>1, <3>3
  <2>2. CASE d = m.d
    <3>1. Len(took[d]) = 1 /\ 1 \in 1..Len(took[d]) /\ took'[d][1] = took[d][1] /\ took'[d][2] = e0
      <4>1. PICK n \in Nat : n = Len(took[m.d])
        BY <1>5
      <4>2. n + 1 = 2 /\ took'[m.d][n + 1] = e0
        BY <1>5, <1>14, <2>2, <4>1
      <4>3. n = 1 /\ 1 \in 1..n
        BY <4>2
      <4> QED
        BY <1>5, <2>2, <4>1, <4>2, <4>3
    <3>2. PICK x \in sealed : x.d = d /\ x.ts = took[d][1].ts
      BY <3>1 DEF SaltTook
    <3>3. took[d][1].ts = ts
      BY <1>6, <2>2, <3>2 DEF SaltTypes
    <3>4. took[d][1].life <= life /\ took[d][1].life \in Nat /\ life \in Nat
      BY <3>1, SaltEntry DEF SaltTook, SaltTypes
    <3>5. CASE took[d][1].life = life
      <4>1. SaltIn(r, high', d, ts)
        BY <1>11, <3>1, <3>3, <3>5
      <4>2. SaltBase(r, high') \in Int
        BY <1>2, <1>3 DEF SaltBase, SaltSet
      <4>3. mono \in Nat
        BY DEF SaltTypes
      <4>4. drop' > MaxSkew - Second
        BY <1>2, <1>3, <1>6, <1>7, <2>2, <4>1, <4>2, <4>3, SaltGone
      <4> QED
        BY <1>9, <3>1, <3>5, <4>4
    <3>6. CASE took[d][1].life < life
      BY <1>9, <3>1, <3>6
    <3>7. took[d][1].life = life \/ took[d][1].life < life
      <4>1. PICK n \in Nat : n = took[d][1].life /\ n <= life
        BY <3>4
      <4> QED
        BY <3>4, <4>1
    <3> QED
      BY <3>5, <3>6, <3>7
  <2> QED
    BY <2>1, <2>2
<1>15. Obfs!HandedUpOnce'
  <2>1. Obfs!Lead' = Obfs!Lead
    BY DEF Obfs!Lead
  <2> QED
    BY <1>14, <2>1 DEF Obfs!HandedUpOnce
<1> QED
  BY <1>5, <1>8, <1>13, <1>15, SaltSetThen

(* Deobfuscate.                                                            *)
LEMMA SaltDeobfuscates == ASSUME SaltInv, NEW m \in sealed, Obfs!Deobfuscate(m) PROVE SaltInv'
<1>1. PICK now : now = Obfs!Now(clk)
  OBVIOUS
<1>2. PICK r : r = Obfs!Rotated(replay, now)
  OBVIOUS
<1>3. /\ proc = "up" /\ clk' = Obfs!Afterwards(clk) /\ Obfs!Observe(now)
      /\ UNCHANGED <<true, wall, mono, steps, skew>>
      /\ UNCHANGED <<life, proc, boot, sealed, started, clockTouched, honest>>
  BY <1>1 DEF Obfs!Deobfuscate, Obfs!clocks
<1>4. IF ~Obfs!timestampInWindow(m.ts, now) THEN replay' = replay /\ took' = took
      ELSE IF Obfs!Seen(r, m.d) THEN replay' = r /\ took' = took
      ELSE /\ replay' = Obfs!Added(r, m.d)
           /\ Len(took[m.d]) < 2
           /\ took' = [took EXCEPT ![m.d] = Append(@, [life |-> life, ts |-> m.ts,
                                                        sent |-> m.sent])]
  BY <1>1, <1>2 DEF Obfs!Deobfuscate
<1>5. /\ SaltTypes /\ SaltTook /\ Obfs!HandedUpOnce
      /\ SaltClock /\ SaltBoot /\ SaltSet(replay, high) /\ SaltKept
  BY <1>3 DEF SaltInv
<1>6. now \in [wall : Int, mono : Int] /\ mono \in Nat
  BY <1>1, <1>5, SaltReads DEF SaltTypes
<1>7. high' \in Int /\ high <= high' /\ drop' \in Nat /\ drop <= drop'
  BY <1>3, <1>5, <1>6, SaltObserves
<1>8. SaltTypes' /\ SaltClock' /\ clk'.on = clk.on
  BY <1>3, <1>5, <1>7, SaltTypesRead, SaltClockRead
<1>9. SaltBoot'
  BY <1>3, <1>5, <1>7, <1>8, SaltBootStays
<1>10. CASE ~Obfs!timestampInWindow(m.ts, now)
  <2>1. mono' \in Nat /\ mono <= mono'
    BY <1>3, <1>6
  <2>2. SaltSet(replay, high)' /\ SaltKept'
    BY <1>3, <1>4, <1>5, <1>7, <1>8, <1>10, <2>1, SaltStays
  <2>3. SaltTook' /\ Obfs!HandedUpOnce'
    BY <1>3, <1>4, <1>5, <1>7, <1>10, SaltOnce
  <2> QED
    BY <1>3, <1>8, <1>9, <2>2, <2>3 DEF SaltInv
<1>11. CASE Obfs!timestampInWindow(m.ts, now) /\ Obfs!Seen(r, m.d)
  <2>1. SaltSet(replay, high)' /\ SaltKept'
    BY <1>1, <1>2, <1>3, <1>4, <1>5, <1>8, <1>11, SaltRefuses
  <2>2. SaltTook' /\ Obfs!HandedUpOnce'
    BY <1>3, <1>4, <1>5, <1>7, <1>11, SaltOnce
  <2> QED
    BY <1>3, <1>8, <1>9, <2>1, <2>2 DEF SaltInv
<1>12. CASE Obfs!timestampInWindow(m.ts, now) /\ ~Obfs!Seen(r, m.d)
  <2>1. PICK e0 : e0 = [life |-> life, ts |-> m.ts, sent |-> m.sent]
    OBVIOUS
  <2>2. /\ replay' = Obfs!Added(r, m.d) /\ Len(took[m.d]) < 2
        /\ took' = [took EXCEPT ![m.d] = Append(@, e0)]
    BY <1>4, <1>12, <2>1
  <2>3. SaltTook' /\ SaltSet(replay, high)' /\ SaltKept' /\ Obfs!HandedUpOnce'
    BY <1>1, <1>2, <1>3, <1>5, <1>8, <1>12, <2>1, <2>2, SaltHandsUp
  <2> QED
    BY <1>3, <1>8, <1>9, <2>3 DEF SaltInv
<1> QED
  BY <1>10, <1>11, <1>12

(* Obfuscate, which only reads the clock.                                  *)
LEMMA SaltObfuscates == ASSUME SaltInv, Obfs!Obfuscate PROVE SaltInv'
<1>1. PICK now : now = Obfs!Now(clk)
  OBVIOUS
<1>2. /\ proc = "up" /\ clk' = Obfs!Afterwards(clk) /\ Obfs!Observe(now)
      /\ UNCHANGED <<true, wall, mono, steps, skew>>
      /\ UNCHANGED <<life, proc, boot, replay, sealed, took, started, clockTouched, honest>>
  BY <1>1 DEF Obfs!Obfuscate, Obfs!clocks
<1>3. /\ SaltTypes /\ SaltTook /\ Obfs!HandedUpOnce
      /\ SaltClock /\ SaltBoot /\ SaltSet(replay, high) /\ SaltKept
  BY <1>2 DEF SaltInv
<1>4. now \in [wall : Int, mono : Int] /\ mono \in Nat
  BY <1>1, <1>3, SaltReads DEF SaltTypes
<1>5. high' \in Int /\ high <= high' /\ drop' \in Nat /\ drop <= drop'
  BY <1>2, <1>3, <1>4, SaltObserves
<1>6. SaltTypes' /\ SaltClock' /\ clk'.on = clk.on
  BY <1>2, <1>3, <1>5, SaltTypesRead, SaltClockRead
<1>7. mono' \in Nat /\ mono <= mono'
  BY <1>2, <1>4
<1>8. SaltBoot' /\ SaltSet(replay, high)' /\ SaltKept'
  BY <1>2, <1>3, <1>5, <1>6, <1>7, SaltStays
<1>9. SaltTook' /\ Obfs!HandedUpOnce'
  BY <1>2, <1>3, <1>5, SaltOnce
<1> QED
  BY <1>2, <1>6, <1>8, <1>9 DEF SaltInv

(* Time, a sleep of the host and a step of the system clock leave the rest *)
(* alone.                                                                  *)
LEMMA SaltTimePasses ==
  ASSUME SaltInv, SaltTypes', proc = "up" => SaltClock', proc = "asking" => SaltAsking',
         mono <= mono',
         UNCHANGED <<skew, clk, life, proc, boot, replay, sealed, took, started, high, drop>>
  PROVE  SaltInv'
<1>1. SaltTypes /\ SaltTook /\ Obfs!HandedUpOnce
  BY DEF SaltInv
<1>2. high' \in Int /\ drop' \in Nat /\ high <= high' /\ drop <= drop' /\ mono' \in Nat
  BY <1>1 DEF SaltTypes
<1>3. SaltTook' /\ Obfs!HandedUpOnce'
  BY <1>1, <1>2, SaltOnce
<1>4. ASSUME proc = "up" PROVE SaltBoot' /\ SaltSet(replay, high)' /\ SaltKept'
  <2>1. SaltBoot /\ SaltSet(replay, high) /\ SaltKept
    BY <1>4 DEF SaltInv
  <2> QED
    BY <1>1, <1>2, <2>1, SaltStays
<1> QED
  BY <1>3, <1>4 DEF SaltInv

(* The system clock and the correction move together as the true time.     *)
LEMMA SaltTicks == ASSUME SaltInv, Obfs!Tick PROVE SaltInv'
<1>1. /\ true' = true + 1 /\ wall' = wall + 1 /\ mono' = mono + 1 /\ UNCHANGED skew
      /\ UNCHANGED <<clk, life, proc, query, boot, replay, sealed>>
      /\ UNCHANGED <<took, started, high, drop, clockTouched, honest>>
  BY DEF Obfs!Tick, Obfs!history
<1>2. SaltTypes
  BY DEF SaltInv
<1>3. SaltTypes' /\ mono <= mono'
  BY <1>1, <1>2 DEF SaltTypes
<1>4. PICK y \in Nat, z \in Nat, v \in Nat : y = true /\ z = wall /\ v = mono
  BY <1>2 DEF SaltTypes
<1>5. ASSUME proc = "up" PROVE SaltClock'
  <2>1. SaltClock
    BY <1>5 DEF SaltInv
  <2>2. PICK x \in Int, p \in Int, q \in Int :
             x = clk.offset /\ p = clk.anchorWall /\ q = clk.anchorMono
    BY <1>2 DEF SaltTypes
  <2>3. (y + 1) - (v + 1) = y - v /\ (z + 1) - (v + 1) = z - v
        /\ (z + 1) + x - (y + 1) = z + x - y
    OBVIOUS
  <2> QED
    BY <1>1, <1>4, <2>1, <2>2, <2>3 DEF SaltClock, SaltWait
<1>6. ASSUME proc = "asking" PROVE SaltAsking'
  <2>1. SaltAsking /\ query.asked < Servers /\ mono - query.since < QueryTimeout
    BY <1>6 DEF SaltInv, Obfs!Tick
  <2>2. PICK s0 \in Nat, u \in Nat : s0 = query.start /\ u = query.since
    BY <2>1 DEF SaltAsking
  <2>3. /\ u <= v /\ v - u < QueryTimeout /\ QueryTimeout \in Nat /\ Servers \in Nat
        /\ query.asked \in Nat /\ query.asked < Servers
    BY <1>4, <2>1, <2>2, SaltConstants DEF SaltAsking
  <2>4. u <= v + 1 /\ (v + 1) - u <= QueryTimeout /\ query.asked # Servers
    BY <2>3
  <2>5. (z + 1) - ((v + 1) - s0) = z - (v - s0)
    OBVIOUS
  <2>6. ASSUME ~clockTouched, NEW i \in 1..Len(query.answers)
        PROVE  SaltAnswered(query.answers[i])'
    <3>1. SaltAnswered(query.answers[i]) /\ query.answers \in Seq(SaltResults)
      BY <2>1, <2>6 DEF SaltAsking
    <3>2. PICK r \in SaltResults : r = query.answers[i]
      BY <3>1
    <3>3. PICK tm \in Int, o \in Int, e \in Int : tm = r.time /\ o = r.offset /\ e = r.err
      BY DEF SaltResults
    <3>4. o = e + (y - z) /\ tm <= y + e /\ tm >= y + e - (v - s0)
      BY <1>4, <2>2, <3>1, <3>2, <3>3 DEF SaltAnswered
    <3>5. o = e + ((y + 1) - (z + 1)) /\ tm <= (y + 1) + e
          /\ tm >= (y + 1) + e - ((v + 1) - s0)
      BY <3>4
    <3> QED
      BY <1>1, <1>4, <2>2, <3>2, <3>3, <3>5 DEF SaltAnswered
  <2> QED
    BY <1>1, <1>4, <2>1, <2>2, <2>4, <2>5, <2>6 DEF SaltAsking, SaltResults
<1> QED
  BY <1>1, <1>3, <1>5, <1>6, SaltTimePasses

(* While the clock is known to be touched, only the time that has passed   *)
(* counts.                                                                 *)
LEMMA SaltAskingTouched ==
  ASSUME SaltAsking, UNCHANGED <<mono, query>>, clockTouched' = TRUE
  PROVE  SaltAsking'
BY DEF SaltAsking, SaltResults

(* A sleep: the true time goes on, and the clock is known to be touched.   *)
LEMMA SaltSleeps == ASSUME SaltInv, Obfs!Suspend PROVE SaltInv'
<1>1. /\ true' = true + 1 + StepThreshold /\ wall' = wall + 1 + StepThreshold
      /\ clockTouched' = TRUE
      /\ UNCHANGED <<mono, skew, clk, life, proc, query, boot, replay, sealed, took, started,
                     high, drop, honest>>
  BY DEF Obfs!Suspend
<1>2. SaltTypes /\ StepThreshold \in Nat
  BY SaltConstants DEF SaltInv
<1>3. SaltTypes' /\ mono <= mono'
  BY <1>1, <1>2 DEF SaltTypes
<1>4. ASSUME proc = "up" PROVE SaltClock'
  <2>1. SaltClock
    BY <1>4 DEF SaltInv
  <2>2. PICK x \in Int, y \in Int, z \in Int :
             x = clk.offset /\ y = clk.anchorWall /\ z = clk.anchorMono
    BY <1>2 DEF SaltTypes
  <2>3. true \in Nat /\ mono \in Nat /\ SourceError \in Nat
    BY <1>2, SaltConstants DEF SaltTypes
  <2>4. x + y - z <= true - mono + SourceError => x + y - z <= true' - mono + SourceError
    BY <1>1, <1>2, <2>2, <2>3
  <2> QED
    BY <1>1, <2>1, <2>2, <2>4 DEF SaltClock, SaltWait
<1>5. ASSUME proc = "asking" PROVE SaltAsking'
  BY <1>1, <1>5, SaltAskingTouched DEF SaltInv
<1> QED
  BY <1>1, <1>3, <1>4, <1>5, SaltTimePasses

(* A step of the system clock.                                             *)
LEMMA SaltSteps == ASSUME SaltInv, NEW w \in {true, Epoch}, Obfs!StepWall(w) PROVE SaltInv'
<1>1. /\ wall' = w /\ clockTouched' = TRUE
      /\ UNCHANGED <<true, mono, skew, clk, life, proc, query, boot, replay, sealed, took,
                     started, high, drop, honest>>
  BY DEF Obfs!StepWall
<1>2. SaltTypes /\ Epoch \in Nat
  BY SaltConstants DEF SaltInv
<1>3. SaltTypes' /\ mono <= mono'
  BY <1>1, <1>2 DEF SaltTypes
<1>4. ASSUME proc = "up" PROVE SaltClock'
  BY <1>1, <1>4 DEF SaltClock, SaltInv, SaltWait
<1>5. ASSUME proc = "asking" PROVE SaltAsking'
  BY <1>1, <1>5, SaltAskingTouched DEF SaltInv
<1> QED
  BY <1>1, <1>3, <1>4, <1>5, SaltTimePasses

(* A datagram is sealed once, with the peer's time.                        *)
LEMMA SaltSeals == ASSUME SaltInv, NEW d \in Arrivals, Obfs!PeerSends(d) PROVE SaltInv'
<1>1. PICK p : p = [wall |-> true + skew, mono |-> Obfs!NoMono]
  OBVIOUS
<1>2. /\ \A x \in sealed : x.d # d
      /\ sealed' = sealed \cup {[d |-> d, ts |-> Obfs!Unix(p), sent |-> true]}
      /\ UNCHANGED <<true, wall, mono, skew>>
      /\ UNCHANGED <<clk, life, proc, query, boot, replay>>
      /\ UNCHANGED <<took, started, high, drop, clockTouched, honest>>
  BY <1>1 DEF Obfs!PeerSends, Obfs!clocks, Obfs!history
<1>3. SaltTypes /\ SaltTook /\ Obfs!HandedUpOnce
  BY DEF SaltInv
<1>4. SaltTypes'
  <2>1. PICK x \in Nat, y \in Int : x = true /\ y = skew
    BY <1>3 DEF SaltTypes
  <2>2. p.wall = x + y /\ p.wall \in Int
    <3>1. p.wall = true + skew
      BY <1>1
    <3>2. x + y \in Int
      OBVIOUS
    <3> QED
      BY <2>1, <3>1, <3>2
  <2>3. PICK u \in Int : u = Obfs!Unix(p) /\ u <= x + y
    BY <2>2, SaltUnix
  <2>4. PICK m : m = [d |-> d, ts |-> u, sent |-> x]
    OBVIOUS
  <2>5. m.d = d /\ m.ts = u /\ m.sent = x /\ sealed' = sealed \cup {m}
    BY <1>2, <2>1, <2>3, <2>4
  <2>6. \A q \in sealed' : /\ q.d \in Arrivals /\ q.ts \in Int /\ q.sent \in Nat
                            /\ q.ts <= q.sent + skew'
    BY <1>2, <1>3, <2>1, <2>3, <2>5 DEF SaltTypes
  <2>7. \A q, r \in sealed' : q.d = r.d => q.ts = r.ts
    BY <1>2, <1>3, <2>5 DEF SaltTypes
  <2> QED
    BY <1>2, <1>3, <2>6, <2>7 DEF SaltTypes
<1>5. /\ high' \in Int /\ drop' \in Nat /\ high <= high' /\ drop <= drop' /\ mono' \in Nat
      /\ mono <= mono' /\ sealed \subseteq sealed'
  BY <1>2, <1>3 DEF SaltTypes
<1>6. SaltTook' /\ Obfs!HandedUpOnce'
  BY <1>2, <1>3, <1>5, SaltOnce
<1>7. ASSUME proc = "up" PROVE SaltClock' /\ SaltBoot' /\ SaltSet(replay, high)' /\ SaltKept'
  <2>1. SaltClock /\ SaltBoot /\ SaltSet(replay, high) /\ SaltKept
    BY <1>7 DEF SaltInv
  <2>2. SaltClock'
    BY <1>2, <2>1 DEF SaltClock, SaltWait
  <2> QED
    BY <1>2, <1>3, <1>5, <2>1, <2>2, SaltStays
<1>8. ASSUME proc = "asking" PROVE SaltAsking'
  BY <1>2, <1>8 DEF SaltInv, SaltAsking, SaltAnswered, SaltResults
<1> QED
  BY <1>2, <1>4, <1>6, <1>7, <1>8 DEF SaltInv

(* While no obfuscator is up nothing is handed up.                         *)
LEMMA SaltNothing ==
  ASSUME SaltTook, took' = took, life' = life, sealed' = sealed, proc' # "up"
  PROVE  SaltTook' /\ Obfs!HandedUpOnce'
BY DEF SaltTook, Obfs!HandedUpOnce

(* The process ends: only what was handed up is remembered.                *)
LEMMA SaltStops == ASSUME SaltInv, Obfs!Stop PROVE SaltInv'
<1>1. /\ proc' = "down" /\ UNCHANGED <<true, wall, mono, skew>>
      /\ clk' = Obfs!NoClock /\ high' = 0 /\ drop' = 0
      /\ UNCHANGED <<life, sealed, took>>
  BY DEF Obfs!Stop, Obfs!clocks
<1>2. SaltTypes /\ SaltTook
  BY DEF SaltInv
<1>3. SaltTypes'
  BY <1>1, <1>2 DEF SaltTypes, Obfs!NoClock
<1>4. SaltTook' /\ Obfs!HandedUpOnce'
  BY <1>1, <1>2, SaltNothing
<1> QED
  BY <1>1, <1>3, <1>4 DEF SaltInv

(* The sets of the part are those of the sum.                              *)
LEMMA SaltCardinality ==
  /\ \A S : Obfs!Cardinality(S) = Cardinality(S)
  /\ \A S : Obfs!IsFiniteSet(S) = IsFiniteSet(S)
BY DEF Obfs!Cardinality, Cardinality, Obfs!IsFiniteSet, IsFiniteSet

(* Of two sets, one in the other, the larger counts more.                  *)
LEMMA SaltCounts ==
  ASSUME NEW D, IsFiniteSet(D), NEW S, NEW T, S \subseteq T, T \subseteq D
  PROVE  /\ Cardinality(D) \in Nat /\ Cardinality(S) \in Nat /\ Cardinality(T) \in Nat
         /\ Cardinality(S) <= Cardinality(T)
<1>1. IsFiniteSet(T) /\ IsFiniteSet(S)
  BY FS_Subset
<1>2. Cardinality(D) \in Nat /\ Cardinality(S) \in Nat /\ Cardinality(T) \in Nat
  BY <1>1, FS_CardinalityType
<1> QED
  BY <1>1, <1>2, FS_Subset

(* The median of mostly right answers is right.                            *)
LEMMA SaltMedian ==
  ASSUME NEW r \in Seq(SaltResults), NEW k \in Int,
         \A i \in 1..Len(r) : r[i].offset = r[i].err + k,
         Obfs!MostRight(r), NEW c \in Obfs!Median(r)
  PROVE  Obfs!Right(r[c].err)
<1>1. PICK n \in Nat : n = Len(r)
  OBVIOUS
<1> DEFINE D == 1..n
<1>2. IsFiniteSet(D) /\ Cardinality(D) = n
  <2>1. IsFiniteSet(1..n)
    BY FS_Interval
  <2>2. Cardinality(1..n) = IF 1 > n THEN 0 ELSE n - 1 + 1
    BY FS_Interval
  <2> QED
    BY <2>1, <2>2
<1>3. SourceError \in Nat
  BY SaltConstants
<1>4. \A i \in D : r[i].err \in Int /\ r[i].offset = r[i].err + k
  <2>1. \A i \in D : r[i] \in SaltResults
    BY <1>1
  <2> QED
    BY <1>1, <2>1 DEF SaltResults
<1> DEFINE W == {i \in D : ~Obfs!Right(r[i].err)}
           L == {i \in D : r[i].offset < r[c].offset}
           A == {i \in D : r[i].offset <= r[c].offset}
<1>5. /\ c \in D
      /\ Cardinality(L) <= n \div 2
      /\ Cardinality(A) > n \div 2
  BY <1>1, SaltCardinality DEF Obfs!Median
<1>6. 2 * Cardinality(W) < n
  BY <1>1, SaltCardinality DEF Obfs!MostRight
<1>7. PICK x \in Int : x = r[c].err
  BY <1>4, <1>5
<1>8. PICK wrong \in Nat, l \in Nat, u \in Nat :
           wrong = Cardinality(W) /\ l = Cardinality(L) /\ u = Cardinality(A)
  <2>1. W \subseteq D /\ L \subseteq D /\ A \subseteq D
    OBVIOUS
  <2> HIDE DEF W, L, A, D
  <2> QED
    BY <1>2, <2>1, SaltCounts
<1>9. l <= n \div 2 /\ u > n \div 2 /\ 2 * wrong < n
  BY <1>5, <1>6, <1>8
<1>10. CASE x < -SourceError
  <2>1. A \subseteq W
    <3>1. ASSUME NEW i \in D, r[i].offset <= r[c].offset PROVE ~Obfs!Right(r[i].err)
      <4>1. PICK y \in Int : y = r[i].err /\ y + k <= x + k
        BY <1>4, <1>5, <1>7, <3>1
      <4> QED
        BY <1>3, <1>10, <4>1 DEF Obfs!Right
    <3> QED
      BY <3>1
  <2>2. W \subseteq D
    OBVIOUS
  <2> HIDE DEF W, L, A, D
  <2>3. u <= wrong
    BY <1>2, <1>8, <2>1, <2>2, SaltCounts
  <2> QED
    BY <1>9, <2>3
<1>11. CASE x > SourceError
  <2>1. D \ L \subseteq W
    <3>1. ASSUME NEW i \in D, ~(r[i].offset < r[c].offset) PROVE ~Obfs!Right(r[i].err)
      <4>1. PICK y \in Int : y = r[i].err /\ ~(y + k < x + k)
        BY <1>4, <1>5, <1>7, <3>1
      <4> QED
        BY <1>3, <1>11, <4>1 DEF Obfs!Right
    <3> QED
      BY <3>1
  <2>2. W \subseteq D /\ L \subseteq D
    OBVIOUS
  <2> HIDE DEF W, L, A, D
  <2>3. Cardinality(D \ L) <= wrong
    BY <1>2, <1>8, <2>1, <2>2, SaltCounts
  <2>4. Cardinality(D \ L) = n - l
    <3>1. D \cap L = L
      BY <2>2
    <3>2. Cardinality(D \ L) = Cardinality(D) - Cardinality(D \cap L)
      BY <1>2, FS_Difference
    <3> QED
      BY <1>2, <1>8, <3>1, <3>2
  <2> QED
    BY <1>9, <2>3, <2>4
<1> QED
  BY <1>3, <1>7, <1>10, <1>11 DEF Obfs!Right

(* A new process has handed nothing up.                                    *)
LEMMA SaltAnew ==
  ASSUME SaltTypes, SaltTook, took' = took, sealed' = sealed, life' = life + 1
  PROVE  /\ SaltTook' /\ Obfs!HandedUpOnce'
         /\ \A d \in Arrivals : \A j \in 1..Len(took[d]) : took[d][j].life # life'
<1>1. ASSUME NEW d \in Arrivals, NEW j \in 1..Len(took[d])
      PROVE  took[d][j].life # life' /\ took[d][j].life <= life'
  <2>1. PICK n \in Nat : n = took[d][j].life /\ n <= life
    BY SaltEntry DEF SaltTook
  <2>2. life \in Nat
    BY DEF SaltTypes
  <2> QED
    BY <2>1, <2>2
<1>2. SaltTook'
  BY <1>1 DEF SaltTook
<1>3. ASSUME NEW d \in Arrivals, Len(took[d]) = 2
      PROVE  took[d][2].life # life'
  BY <1>1, <1>3
<1>4. Obfs!HandedUpOnce'
  BY <1>3 DEF Obfs!HandedUpOnce
<1> QED
  BY <1>1, <1>2, <1>4

(* A reading of any clock.                                                 *)
LEMMA SaltReadsOf ==
  ASSUME wall \in Nat, mono \in Nat,
         NEW c \in [on : BOOLEAN, corrected : BOOLEAN, offset : Int, anchorWall : Int,
                     anchorMono : Int]
  PROVE  /\ Obfs!Now(c) \in [wall : Int, mono : Int]
         /\ c.on => Obfs!Now(c).mono = Obfs!NoMono
         /\ ~c.on => Obfs!Now(c) = [wall |-> wall, mono |-> mono]
<1>1. Obfs!Afterwards(c).offset \in Int
  BY DEF Obfs!Afterwards, Obfs!release
<1>2. PICK o \in Int : o = Obfs!Afterwards(c).offset
  BY <1>1
<1> QED
  BY <1>2 DEF Obfs!Now, Obfs!NoMono

(* A new obfuscator, on whatever clock.                                    *)
LEMMA SaltBuilds ==
  ASSUME SaltTypes, SaltTook, UNCHANGED <<true, wall, mono, skew, sealed, took>>,
         NEW c \in [on : BOOLEAN, corrected : BOOLEAN, offset : Int, anchorWall : Int,
                     anchorMono : Int],
         c.corrected => c.on, ~c.corrected => c.offset = 0,
         Obfs!NewSalamanderV2(c), SaltClock'
  PROVE  SaltInv'
<1>1. /\ proc' = "up" /\ life' = life + 1 /\ clk' = c /\ boot' = Obfs!Now(c)
      /\ replay' = Obfs!EmptySet /\ started' = true /\ high' = boot'.wall - mono /\ drop' = 0
  BY DEF Obfs!NewSalamanderV2
<1>2. /\ SaltTook' /\ Obfs!HandedUpOnce'
      /\ \A d \in Arrivals : \A j \in 1..Len(took[d]) : took[d][j].life # life'
  BY <1>1, SaltAnew
<1>3. wall \in Nat /\ mono \in Nat /\ life \in Nat /\ true \in Nat
  BY DEF SaltTypes
<1>4. /\ boot' \in [wall : Int, mono : Int] /\ (c.on => boot'.mono = Obfs!NoMono)
      /\ (~c.on => boot' = [wall |-> wall, mono |-> mono])
  BY <1>1, <1>3, SaltReadsOf
<1>5. PICK b0 \in Int : b0 = boot'.wall
  BY <1>4
<1>6. high' = b0 - mono /\ high' \in Int /\ life' \in Nat /\ drop' \in Nat
  BY <1>1, <1>3, <1>5
<1>7. SaltTypes'
  BY <1>1, <1>6 DEF SaltTypes
<1>8. SaltBoot'
  <2>1. CASE c.on
    BY <1>1, <1>3, <1>4, <2>1 DEF SaltBoot, Obfs!NoMono
  <2>2. CASE ~c.on
    <3>1. boot'.mono = mono /\ boot'.wall = wall /\ high' = wall - mono
      BY <1>1, <1>4, <2>2
    <3> QED
      BY <1>1, <1>3, <1>4, <2>2, <3>1 DEF SaltBoot
  <2> QED
    BY <2>1, <2>2
<1>9. SaltSet(replay, high)'
  BY <1>1, SaltConstants DEF SaltSet, SaltBuckets, Obfs!EmptySet, Obfs!NoTime, Obfs!NoMono
<1>10. SaltKept'
  BY <1>2 DEF SaltKept
<1> QED
  BY <1>1, <1>2, <1>7, <1>8, <1>9, <1>10 DEF SaltInv

(* The process starts: on the system clock, or by asking for the time.     *)
LEMMA SaltBoots == ASSUME SaltInv, Obfs!Boot PROVE SaltInv'
<1>1. UNCHANGED <<true, wall, mono, skew>> /\ UNCHANGED <<sealed, took>>
  BY DEF Obfs!Boot, Obfs!clocks
<1>2. SaltTypes /\ SaltTook
  BY DEF SaltInv
<1>3. CASE ~Obfs!NeedsCorrection
  <2>1. Obfs!NewSalamanderV2(Obfs!NoClock)
    BY <1>3 DEF Obfs!Boot
  <2>2. PICK c : c = Obfs!NoClock
    OBVIOUS
  <2>3. /\ c \in [on : BOOLEAN, corrected : BOOLEAN, offset : Int, anchorWall : Int,
                    anchorMono : Int]
        /\ ~c.corrected /\ c.offset = 0
    BY <2>2 DEF Obfs!NoClock
  <2>4. clk' = c
    BY <2>1, <2>2 DEF Obfs!NewSalamanderV2
  <2>5. SaltClock'
    BY <2>3, <2>4 DEF SaltClock
  <2> QED
    BY <1>1, <1>2, <2>1, <2>2, <2>3, <2>5, SaltBuilds
<1>4. CASE Obfs!NeedsCorrection
  <2>1. /\ proc' = "asking" /\ UNCHANGED <<clk, life, high, drop>> /\ clockTouched' = FALSE
        /\ query' = [Obfs!NoQuery EXCEPT !.start = mono, !.since = mono]
    BY <1>4 DEF Obfs!Boot
  <2>2. query' = [asked |-> 0, start |-> mono, since |-> mono, answers |-> <<>>]
    BY <2>1 DEF Obfs!NoQuery
  <2>3. SaltTypes'
    BY <1>1, <1>2, <2>1 DEF SaltTypes
  <2>4. SaltTook' /\ Obfs!HandedUpOnce'
    BY <1>1, <1>2, <2>1, SaltNothing
  <2>5. SaltAsking'
    <3>1. PICK z \in Nat, v \in Nat : z = wall /\ v = mono /\ z < Floor
      BY <1>2, <1>4 DEF SaltTypes, Obfs!NeedsCorrection
    <3>2. /\ Servers \in Nat \ {0} /\ QueryTimeout \in Nat /\ Floor \in Nat
      BY SaltConstants
    <3>3. 0 \in 0..Servers /\ v - v <= QueryTimeout /\ v - v <= 0 * QueryTimeout
          /\ 0 # Servers /\ z - (v - v) <= Floor
      BY <3>1, <3>2
    <3>4. query'.answers = <<>> /\ Len(query'.answers) = 0
          /\ query'.answers \in Seq(SaltResults)
      BY <2>2
    <3> QED
      BY <1>1, <2>2, <3>1, <3>3, <3>4 DEF SaltAsking, SaltResults
  <2> QED
    BY <2>1, <2>3, <2>4, <2>5 DEF SaltInv
<1> QED
  BY <1>3, <1>4

(* One server has answered or failed.                                      *)
LEMMA SaltAsks == ASSUME SaltInv, Obfs!queryOne PROVE SaltInv'
<1>1. /\ proc = "asking" /\ query.asked < Servers
      /\ UNCHANGED <<true, wall, mono, skew>> /\ UNCHANGED <<clk, life, proc, sealed>>
      /\ UNCHANGED <<took, high, drop, clockTouched>>
  BY DEF Obfs!queryOne, Obfs!clocks, Obfs!history
<1>2. SaltTypes /\ SaltTook /\ SaltAsking
  BY <1>1 DEF SaltInv
<1>3. SaltTypes'
  BY <1>1, <1>2 DEF SaltTypes
<1>4. SaltTook' /\ Obfs!HandedUpOnce'
  BY <1>1, <1>2, SaltNothing
<1>5. PICK y \in Nat, z \in Nat, v \in Nat, n \in Nat, s0 \in Nat, u \in Nat :
           /\ y = true /\ z = wall /\ v = mono
           /\ n = query.asked /\ s0 = query.start /\ u = query.since
  <2>1. true \in Nat /\ wall \in Nat /\ mono \in Nat
    BY <1>2 DEF SaltTypes
  <2>2. query.asked \in Nat /\ query.start \in Nat /\ query.since \in Nat
    BY <1>2, SaltConstants DEF SaltAsking
  <2> QED
    BY <2>1, <2>2
<1>6. /\ n < Servers /\ Servers \in Nat /\ QueryTimeout \in Nat
      /\ u <= v /\ v - u <= QueryTimeout /\ u - s0 <= n * QueryTimeout
  BY <1>1, <1>2, <1>5, SaltConstants DEF SaltAsking
<1>7. v - s0 <= (n + 1) * QueryTimeout /\ n + 1 \in 0..Servers /\ v - v <= QueryTimeout
  <2>1. (n + 1) * QueryTimeout = n * QueryTimeout + QueryTimeout /\ n * QueryTimeout \in Nat
    BY <1>6
  <2> QED
    BY <1>6, <2>1
<1>8. PICK q : q = query'
  OBVIOUS
<1>9. /\ q.asked = n + 1 /\ q.start = s0 /\ q.since = v
      /\ \/ q.answers = query.answers
         \/ \E x \in Offers : q.answers = Append(query.answers, Obfs!Answer(x))
  <2>1. DOMAIN query = {"asked", "start", "since", "answers"}
    BY <1>2 DEF SaltAsking
  <2> QED
    BY <1>5, <1>8, <2>1 DEF Obfs!queryOne, Obfs!Asked
<1>10. query.answers \in Seq(SaltResults)
  BY <1>2 DEF SaltAsking
<1>11. ASSUME ~clockTouched, NEW i \in 1..Len(query.answers)
       PROVE  SaltAnswered(query.answers[i])
  BY <1>2, <1>11 DEF SaltAsking
<1>12. /\ q.answers \in Seq(SaltResults)
       /\ \A i \in 1..Len(q.answers) :
            \/ i \in 1..Len(query.answers) /\ q.answers[i] = query.answers[i]
            \/ \E x \in Offers : q.answers[i] = Obfs!Answer(x)
  <2>1. CASE q.answers = query.answers
    BY <1>10, <2>1
  <2>2. CASE q.answers # query.answers
    <3>1. PICK x \in Offers : q.answers = Append(query.answers, Obfs!Answer(x))
      BY <1>9, <2>2
    <3>2. PICK a0 : a0 = Obfs!Answer(x)
      OBVIOUS
    <3>3. x \in Int
      BY SaltConstants
    <3>4. a0 \in SaltResults
      <4>1. y + x \in Int /\ y + x - z \in Int
        BY <3>3
      <4>2. a0 = [time |-> y + x, offset |-> y + x - z, err |-> x]
        BY <1>5, <3>2 DEF Obfs!Answer
      <4> QED
        BY <3>3, <4>1, <4>2 DEF SaltResults
    <3>5. PICK s1 \in Seq(SaltResults) : s1 = query.answers
      BY <1>10
    <3> HIDE DEF SaltResults
    <3>6. /\ q.answers \in Seq(SaltResults) /\ Len(s1) \in Nat
          /\ Len(q.answers) = Len(s1) + 1 /\ q.answers[Len(q.answers)] = a0
          /\ \A j \in 1..Len(s1) : q.answers[j] = s1[j]
      BY <3>1, <3>2, <3>4, <3>5, SaltAppends
    <3> QED
      BY <3>2, <3>5, <3>6
  <2> QED
    BY <2>1, <2>2
<1>13. ASSUME ~clockTouched, NEW i \in 1..Len(q.answers)
       PROVE  SaltAnswered(query.answers[i])'
  <2>1. CASE i \in 1..Len(query.answers) /\ q.answers[i] = query.answers[i]
    <3>1. SaltAnswered(query.answers[i])
      BY <1>11, <1>13, <2>1
    <3> QED
      BY <1>1, <1>5, <1>8, <1>9, <2>1, <3>1 DEF SaltAnswered
  <2>2. CASE \E x \in Offers : q.answers[i] = Obfs!Answer(x)
    <3>1. PICK x \in Offers : q.answers[i] = Obfs!Answer(x)
      BY <2>2
    <3>2. PICK e \in Int : e = x
      BY SaltConstants
    <3>3. q.answers[i] = [time |-> y + e, offset |-> y + e - z, err |-> e]
      BY <1>5, <3>1, <3>2 DEF Obfs!Answer
    <3>4. v - s0 >= 0
      BY <1>2, <1>5 DEF SaltAsking
    <3>5. y + e - z = e + (y - z) /\ y + e <= y + e /\ y + e >= y + e - (v - s0)
      BY <3>4
    <3> QED
      BY <1>1, <1>5, <1>8, <1>9, <3>3, <3>5 DEF SaltAnswered
  <2> QED
    BY <1>12, <2>1, <2>2
<1>14. ~clockTouched => z - (v - s0) <= Floor
  BY <1>2, <1>5 DEF SaltAsking
<1>15. SaltAsking'
  <2>1. DOMAIN query' = {"asked", "start", "since", "answers"}
    <3>1. DOMAIN query = {"asked", "start", "since", "answers"}
      BY <1>2 DEF SaltAsking
    <3> QED
      BY <3>1 DEF Obfs!queryOne, Obfs!Asked
  <2>2. /\ query'.asked = n + 1 /\ query'.start = s0 /\ query'.since = v /\ mono' = v
        /\ wall' = z /\ clockTouched' = clockTouched
    BY <1>1, <1>5, <1>8, <1>9
  <2>3. s0 <= v
    BY <1>2, <1>5 DEF SaltAsking
  <2>4. /\ query'.answers \in Seq(SaltResults)
        /\ ~clockTouched => \A i \in 1..Len(query'.answers) : SaltAnswered(query.answers[i])'
    BY <1>8, <1>12, <1>13
  <2>5. SaltResults' = SaltResults
    BY DEF SaltResults
  <2> HIDE DEF SaltResults
  <2> QED
    BY <1>7, <1>14, <2>1, <2>2, <2>3, <2>4, <2>5 DEF SaltAsking
<1> QED
  BY <1>1, <1>3, <1>4, <1>15 DEF SaltInv

(* The clock is corrected: mostly right answers are off by their error and *)
(* by how long they waited for the others.                                 *)
LEMMA SaltBootstraps == ASSUME SaltInv, Obfs!Bootstrap PROVE SaltInv'
<1>1. /\ proc = "asking" /\ query.asked = Servers
      /\ UNCHANGED <<true, wall, mono, skew>> /\ UNCHANGED <<sealed, took, clockTouched>>
  BY DEF Obfs!Bootstrap, Obfs!clocks
<1>2. PICK i \in Obfs!Median(query.answers) :
           /\ query.answers[i].time >= Floor
           /\ Obfs!NewSalamanderV2(Obfs!Correct(query.answers[i].time - wall))
           /\ honest' = (Obfs!MostRight(query.answers) /\ ~clockTouched)
  BY DEF Obfs!Bootstrap
<1>3. SaltTypes /\ SaltTook /\ SaltAsking
  BY <1>1 DEF SaltInv
<1>4. PICK y \in Nat, z \in Nat, v \in Nat, s0 \in Nat :
           y = true /\ z = wall /\ v = mono /\ s0 = query.start
  BY <1>3 DEF SaltTypes, SaltAsking
<1>5. PICK r \in Seq(SaltResults) : r = query.answers
  BY <1>3 DEF SaltAsking
<1>6. i \in 1..Len(r)
  BY <1>2, <1>5 DEF Obfs!Median
<1>7. r[i] \in SaltResults
  BY <1>6
<1>8. PICK tm \in Int, e \in Int : tm = r[i].time /\ e = r[i].err
  BY <1>7 DEF SaltResults
<1>9. PICK o \in Int : o = tm - z
  OBVIOUS
<1>10. PICK c : c = Obfs!Correct(o)
  OBVIOUS
<1>11. c = [on |-> TRUE, corrected |-> TRUE, offset |-> o, anchorWall |-> z, anchorMono |-> v]
  BY <1>4, <1>10 DEF Obfs!Correct
<1>12. Obfs!NewSalamanderV2(c) /\ clk' = c
  BY <1>2, <1>4, <1>5, <1>8, <1>9, <1>10 DEF Obfs!NewSalamanderV2
<1>13. ASSUME honest'
       PROVE  /\ o + z - v <= y - v + SourceError /\ o >= -SaltWait
              /\ z + o - y <= SourceError /\ z + o - y >= -(SourceError + SaltWait)
  <2>1. Obfs!MostRight(r) /\ ~clockTouched
    BY <1>2, <1>5, <1>13
  <2>2. \A j \in 1..Len(r) : SaltAnswered(r[j])
    BY <1>3, <1>5, <2>1 DEF SaltAsking
  <2>3. PICK k \in Int : k = y - z
    OBVIOUS
  <2>4. \A j \in 1..Len(r) : r[j].offset = r[j].err + k
    BY <1>4, <2>2, <2>3 DEF SaltAnswered
  <2>5. Obfs!Right(r[i].err)
    BY <1>2, <1>5, <2>1, <2>4, SaltMedian
  <2>6. e >= -SourceError /\ e <= SourceError /\ SourceError \in Nat
    BY <1>8, <2>5, SaltConstants DEF Obfs!Right
  <2>7. tm <= y + e /\ tm >= y + e - (v - s0)
    BY <1>4, <1>6, <1>8, <2>2 DEF SaltAnswered
  <2>8. v - s0 <= SaltWait /\ SaltWait \in Nat
    BY <1>1, <1>3, <1>4, SaltConstants DEF SaltAsking, SaltWait
  <2>9. z - (v - s0) <= Floor /\ Floor \in Nat /\ tm >= Floor
    BY <1>2, <1>3, <1>4, <1>5, <1>8, <2>1, SaltConstants DEF SaltAsking
  <2> QED
    BY <1>9, <2>6, <2>7, <2>8, <2>9
<1>14. SaltClock'
  BY <1>1, <1>4, <1>11, <1>12, <1>13 DEF SaltClock, SaltWait
<1> QED
  <2>1. /\ c \in [on : BOOLEAN, corrected : BOOLEAN, offset : Int, anchorWall : Int,
                    anchorMono : Int]
        /\ c.corrected /\ c.on
    BY <1>11
  <2> QED
    BY <1>1, <1>3, <1>12, <1>14, <2>1, SaltBuilds

(* The process refuses to start.                                           *)
LEMMA SaltBootFails == ASSUME SaltInv, Obfs!BootstrapFails PROVE SaltInv'
<1>1. /\ proc' = "fatal" /\ UNCHANGED <<true, wall, mono, skew>>
      /\ UNCHANGED <<clk, life, sealed>> /\ UNCHANGED <<took, high, drop>>
  BY DEF Obfs!BootstrapFails, Obfs!clocks, Obfs!history
<1>2. SaltTypes /\ SaltTook
  BY DEF SaltInv
<1>3. SaltTypes'
  BY <1>1, <1>2 DEF SaltTypes
<1>4. SaltTook' /\ Obfs!HandedUpOnce'
  BY <1>1, <1>2, SaltNothing
<1> QED
  BY <1>1, <1>3, <1>4 DEF SaltInv

(* The client connects again.                                              *)
LEMMA SaltReconnects == ASSUME SaltInv, Obfs!Reconnect PROVE SaltInv'
<1>1. /\ proc = "up" /\ Obfs!NewSalamanderV2(Obfs!Afterwards(clk))
      /\ UNCHANGED <<true, wall, mono, skew>> /\ UNCHANGED <<sealed, took, clockTouched, honest>>
  BY DEF Obfs!Reconnect, Obfs!clocks
<1>2. SaltTypes /\ SaltTook /\ SaltClock
  BY <1>1 DEF SaltInv
<1>3. PICK c : c = Obfs!Afterwards(clk)
  OBVIOUS
<1>4. /\ c \in [on : BOOLEAN, corrected : BOOLEAN, offset : Int, anchorWall : Int,
                  anchorMono : Int]
      /\ (c.corrected => c.on) /\ (~c.corrected => c.offset = 0)
  BY <1>2, <1>3, SaltAfterwards
<1>5. clk' = Obfs!Afterwards(clk)
  BY <1>1 DEF Obfs!NewSalamanderV2
<1>6. SaltClock'
  BY <1>1, <1>2, <1>5, SaltClockRead
<1> QED
  BY <1>1, <1>2, <1>3, <1>4, <1>6, SaltBuilds

(* Every step.                                                             *)
LEMMA SaltKeeps == ASSUME SaltInv, [Obfs!Next]_(Obfs!vars) PROVE SaltInv'
<1>1. CASE \E d \in Arrivals : Obfs!PeerSends(d)
  BY <1>1, SaltSeals
<1>2. CASE Obfs!Obfuscate
  BY <1>2, SaltObfuscates
<1>3. CASE \E m \in sealed : Obfs!Deobfuscate(m)
  BY <1>3, SaltDeobfuscates
<1>4. CASE Obfs!Boot
  BY <1>4, SaltBoots
<1>5. CASE Obfs!Stop
  BY <1>5, SaltStops
<1>6. CASE Obfs!Tick
  BY <1>6, SaltTicks
<1>7. CASE Obfs!Suspend
  BY <1>7, SaltSleeps
<1>8. CASE \E w \in {true, Epoch} : Obfs!StepWall(w)
  BY <1>8, SaltSteps
<1>9. CASE Obfs!queryOne
  BY <1>9, SaltAsks
<1>10. CASE Obfs!Bootstrap
  BY <1>10, SaltBootstraps
<1>11. CASE Obfs!BootstrapFails
  BY <1>11, SaltBootFails
<1>12. CASE Obfs!Reconnect
  BY <1>12, SaltReconnects
<1>13. CASE UNCHANGED Obfs!vars
  <2>1. /\ UNCHANGED <<true, wall, mono, skew, clk, life, proc, query, boot, replay, sealed>>
        /\ UNCHANGED <<took, started, high, drop, clockTouched, honest>>
    BY <1>13 DEF Obfs!vars, Obfs!clocks, Obfs!history
  <2>2. SaltTypes /\ mono <= mono'
    BY <2>1 DEF SaltInv, SaltTypes
  <2>3. SaltTypes' /\ (proc = "up" => SaltClock')
    BY <2>1, <2>2 DEF SaltInv, SaltTypes, SaltClock, SaltWait
  <2>4. proc = "asking" => SaltAsking'
    BY <2>1 DEF SaltInv, SaltAsking, SaltAnswered, SaltResults
  <2> QED
    BY <2>1, <2>2, <2>3, <2>4, SaltTimePasses
<1> QED
  BY <1>1, <1>2, <1>3, <1>4, <1>5, <1>6, <1>7, <1>8, <1>9, <1>10, <1>11, <1>12, <1>13
     DEF Obfs!Next

(* At the start.                                                           *)
LEMMA SaltStarts == Obfs!Init => SaltInv
<1> SUFFICES ASSUME Obfs!Init PROVE SaltInv
  OBVIOUS
<1>1. /\ true = Start /\ wall \in WallStarts /\ mono = 0 /\ skew \in PeerSkews
      /\ clk = Obfs!NoClock /\ life = 0 /\ proc = "down" /\ sealed = {}
      /\ took = [d \in Arrivals |-> <<>>] /\ high = 0 /\ drop = 0
  BY DEF Obfs!Init
<1>2. PeerSkews \subseteq Int /\ WallStarts \subseteq Nat /\ Start \in Nat
  BY DatagramsAssumption DEF Obfs!SalamanderAssumption
<1>3. SaltTypes
  BY <1>1, <1>2 DEF SaltTypes, Obfs!NoClock
<1>4. \A d \in Arrivals : took[d] = <<>> /\ Len(took[d]) = 0
  BY <1>1
<1>5. took \in [Arrivals -> Seq([life : Nat, ts : Int, sent : Nat])]
  <2>1. \A E : <<>> \in Seq(E)
    OBVIOUS
  <2> QED
    BY <1>1, <2>1
<1>6. SaltTook
  BY <1>4, <1>5 DEF SaltTook
<1>7. Obfs!HandedUpOnce
  BY <1>4 DEF Obfs!HandedUpOnce
<1> QED
  BY <1>1, <1>3, <1>6, <1>7 DEF SaltInv

(* What the invariant is for.                                              *)
LEMMA SaltInvImplies == SaltInv => Obfs!HandedUpOnce /\ Obfs!InsideWindow
<1> SUFFICES ASSUME SaltInv PROVE Obfs!InsideWindow
  BY DEF SaltInv
<1> SUFFICES ASSUME proc = "up", honest, wall = true \/ (clk.corrected /\ ~clockTouched)
             PROVE  /\ Obfs!Now(clk).wall - true <= StepThreshold + SourceError
                    /\ Obfs!Now(clk).wall - true >= -(SourceError + SaltWait)
  BY DEF Obfs!InsideWindow, SaltWait
<1>1. SaltTypes /\ SaltClock
  BY DEF SaltInv
<1>2. PICK y \in Nat, z \in Nat, v \in Nat : y = true /\ z = wall /\ v = mono
  BY <1>1 DEF SaltTypes
<1>3. PICK c : c = Obfs!Afterwards(clk)
  OBVIOUS
<1>4. /\ c.offset \in Int /\ (~c.corrected => c.offset = 0)
      /\ (c.corrected => c = clk /\ ~Obfs!Stepped(clk))
  BY <1>1, <1>3, SaltAfterwards
<1>5. PICK o \in Int : o = c.offset
  BY <1>4
<1>6. Obfs!Now(clk).wall = z + o
  BY <1>1, <1>2, <1>3, <1>5, SaltReads
<1>7. StepThreshold \in Nat /\ SourceError \in Nat /\ SaltWait \in Nat
  BY SaltConstants
<1>8. CASE ~c.corrected /\ z = y
  BY <1>2, <1>4, <1>5, <1>6, <1>7, <1>8
<1>9. CASE c.corrected /\ z = y
  <2>1. PICK p \in Int, q \in Int : p = clk.anchorWall /\ q = clk.anchorMono
    BY <1>1 DEF SaltTypes
  <2>2. o + p - q <= y - v + SourceError /\ o >= -SaltWait
    BY <1>1, <1>2, <1>4, <1>5, <1>9, <2>1 DEF SaltClock
  <2>3. z - (p + (v - q)) <= StepThreshold /\ z - (p + (v - q)) >= -StepThreshold
    BY <1>2, <1>4, <1>7, <1>9, <2>1 DEF Obfs!Stepped
  <2>4. o <= StepThreshold + SourceError
    BY <1>7, <1>9, <2>2, <2>3
  <2> QED
    BY <1>2, <1>6, <1>7, <1>9, <2>2, <2>4
<1>10. CASE z # y
  <2>1. clk.corrected /\ ~clockTouched
    BY <1>2, <1>10
  <2>2. PICK p \in Int, q \in Int, x \in Int :
             p = clk.anchorWall /\ q = clk.anchorMono /\ x = clk.offset
    BY <1>1 DEF SaltTypes
  <2>3. z - v = p - q /\ z + x - y >= -(SourceError + SaltWait) /\ z + x - y <= SourceError
    BY <1>1, <1>2, <2>1, <2>2 DEF SaltClock
  <2>4. z - (p + (v - q)) = 0 /\ ~(0 > StepThreshold) /\ ~(0 < -StepThreshold)
    BY <1>7, <2>3
  <2>5. ~Obfs!Stepped(clk)
    BY <1>2, <2>2, <2>4 DEF Obfs!Stepped
  <2>6. o = x
    BY <1>3, <1>5, <2>2, <2>5 DEF Obfs!Afterwards
  <2> QED
    BY <1>2, <1>6, <1>7, <2>3, <2>6
<1> QED
  BY <1>8, <1>9, <1>10

-----------------------------------------------------------------------------
(***************************************************************************)
(* The control channel of the realm.  A packet's tag is the one its        *)
(* session had at the time it is stamped with (DiscoPacket); the window    *)
(* of a session is the record of what it took (WinAt); both indexes are of *)
(* the registered sessions, whose tags are those around the table's epoch  *)
(* (DiscoTables); who holds tickerMu is at its three last places, and      *)
(* while nobody is about to take it the ticker is, or is being made, what  *)
(* the table asks for (DiscoTicker); and the table is of this epoch or of  *)
(* the one an interval ago, in which case the ticker has its tick to do    *)
(* (DiscoEpochs).                                                          *)
(***************************************************************************)
DiscoWindow == [seen : BOOLEAN, high : Nat, bits : SUBSET Nat]

DiscoPlaces == {"-", "peer", "sync", "start", "stop", "wait"}

DiscoCallTypes ==
  [op : {"idle", "add", "remove", "set", "close"}, s : Sess \cup {None}, at : DiscoPlaces,
   p : Peer \cup {None}]

DiscoIds == {IdOf[x] : x \in Sess}

DiscoTypes ==
  /\ instant \in Nat /\ epoch \in Nat /\ refreshNow \in Nat
  /\ closed \in BOOLEAN /\ tickerStop \in BOOLEAN /\ ticked \in BOOLEAN
  /\ ticker \in {"off", "select", "refresh"}
  /\ table \in [DiscoIds -> Sess \cup {None}]
  /\ \A x \in DiscoIds : table[x] # None => IdOf[table[x]] = x
  /\ peer \in [Sess -> Peer \cup {None}]
  /\ byPeer \in [Peer -> SUBSET Sess]
  /\ call \in [Caller -> DiscoCallTypes]
  /\ tickerMu \in Caller \cup {None}

(* The packets on their way, and the one that is read.                     *)
DiscoPacket(p) ==
  /\ p.key \in Sess \cup {None} /\ p.seq \in Nat /\ p.ts \in Int
  /\ p.key # None => p.seq # 0 /\ p.tag = Disco!SendTag(p.key, p.ts)

DiscoWire ==
  /\ seqOut \in [Sess -> Nat]
  /\ \A p \in wire : DiscoPacket(p)
  /\ reader # None => DiscoPacket(reader.p) /\ reader.bucket \subseteq Sess

(* The window w of a session that took g and refused r.                    *)
WinAt(w, g, r) ==
  /\ w.seen <=> g # <<>>
  /\ \A i \in DOMAIN g : g[i] <= w.high
  /\ w.seen => \E i \in DOMAIN g : g[i] = w.high
  /\ \A k \in Nat : k \in w.bits <=> k < ReplayWindow /\ \E i \in DOMAIN g : w.high - g[i] = k
  /\ \A i, j \in DOMAIN g : g[i] = g[j] => i = j
  /\ \A q \in r : \E i \in DOMAIN g : g[i] = q \/ g[i] - q >= ReplayWindow

DiscoWindows ==
  /\ window \in [Sess -> DiscoWindow]
  /\ got \in [Sess -> Seq(Nat)]
  /\ refused \in [Sess -> SUBSET Nat]
  /\ \A x \in Sess : WinAt(window[x], got[x], refused[x])

(* The two indexes.                                                        *)
DiscoTagsOf(x, n) == {Disco!Tag(x, e) : e \in n - 1 .. n + 1}

DiscoTag == (Sess \cup {None}) \X Int

DiscoPeers(R) ==
  /\ \A x \in Sess, p \in Peer : x \in byPeer[p] => peer[x] = p
  /\ \A x \in R : peer[x] \in Peer /\ x \in byPeer[peer[x]]

DiscoTables ==
  /\ tags \in [Sess -> SUBSET DiscoTag]
  /\ byTag = Disco!TableOf(Disco!Registered, tags)
  /\ \A x \in Disco!Registered : tags[x] = DiscoTagsOf(x, epoch)
  /\ DiscoPeers(Disco!Registered)

(* A call that is under way, with the peers pr and the registered R.       *)
DiscoCall(k, pr, R) ==
  /\ k.at = "-" <=> k = Disco!Idle
  /\ k.at = "peer" => /\ k.op \in {"set", "remove"} /\ k.s \in Sess /\ pr[k.s] \in Peer
                      /\ k.op = "set" => k.p \in Peer
                      /\ k.op = "remove" => k.s \notin R

DiscoCalls == \A c \in Caller : DiscoCall(call[c], peer, Disco!Registered)

(* It will look at the table again.                                        *)
DiscoWillSync(k) == k.at = "sync" \/ (k.op = "remove" /\ k.at = "peer")

DiscoTicker ==
  /\ closed => Disco!Registered = {}
  /\ \A c \in Caller : call[c].at \in {"start", "stop", "wait"} <=> tickerMu = c
  /\ tickerStop => tickerMu \in Caller /\ call[tickerMu].at = "wait"
  /\ (\A c \in Caller : ~DiscoWillSync(call[c])) =>
       /\ tickerMu = None => (ticker # "off" <=> Disco!Live)
       /\ tickerMu \in Caller => (call[tickerMu].at = "start" <=> Disco!Live)

DiscoStale == Disco!Registered # {} /\ epoch # Disco!discoEpochOf(instant)

DiscoEpochs ==
  /\ ticker = "refresh" => ticked /\ refreshNow = instant
  /\ DiscoStale =>
       /\ instant > 0 /\ epoch = Disco!discoEpochOf(instant - 1)
       /\ ticker # "off" /\ ~tickerStop /\ (ticked => ticker = "refresh")
       /\ \A c \in Caller : call[c].at \notin {"stop", "wait"}

DiscoHeld == DiscoTypes /\ DiscoTables /\ DiscoCalls /\ DiscoTicker /\ DiscoEpochs

DiscoInv == DiscoWire /\ DiscoWindows /\ DiscoHeld

(* The constants.                                                          *)
LEMMA DiscoConstants ==
  /\ None \notin Sess /\ None \notin Caller /\ None \notin Peer
  /\ EpochLen \in Nat \ {0} /\ DiscoSkew \in Nat /\ DiscoSkew < EpochLen
  /\ ReplayWindow \in Nat \ {0} /\ Sendings \subseteq Int \X BOOLEAN
BY DatagramsAssumption DEF Disco!DiscoAssumption

(* The registered sessions.                                                *)
LEMMA DiscoRegistered ==
  ASSUME DiscoTypes
  PROVE  /\ Disco!Registered \subseteq Sess
         /\ \A x \in Disco!Registered : table[IdOf[x]] = x
         /\ \A y \in DiscoIds : table[y] # None => table[y] \in Disco!Registered
BY DEF DiscoTypes, DiscoIds, Disco!Registered

(* The window, when a number that is newer than all is taken.              *)
LEMMA WinNewer ==
  ASSUME NEW w \in DiscoWindow, NEW g \in Seq(Nat), NEW r \in SUBSET Nat, NEW q \in Nat,
         WinAt(w, g, r), w.seen, q > w.high,
         NEW v \in DiscoWindow, v.seen = TRUE, v.high = q,
         \A k \in Nat : k \in v.bits <=>
           k = 0 \/ (k < ReplayWindow /\ k - (q - w.high) \in w.bits)
  PROVE  WinAt(v, Append(g, q), r)
<1> DEFINE h == Append(g, q)
<1>1. /\ h \in Seq(Nat) /\ Len(h) = Len(g) + 1 /\ Len(g) \in Nat
      /\ h[Len(g) + 1] = q /\ DOMAIN h = 1..(Len(g) + 1) /\ DOMAIN g = 1..Len(g)
  OBVIOUS
<1>2. \A i \in DOMAIN g : h[i] = g[i] /\ g[i] \in Nat
  OBVIOUS
<1>3. \A i \in DOMAIN h : i \in DOMAIN g \/ i = Len(g) + 1
  BY <1>1
<1>4. \A i \in DOMAIN g : i \in DOMAIN h
  BY <1>1
<1>5. Len(g) + 1 \in DOMAIN h
  BY <1>1
<1>6. w.high \in Nat /\ w.bits \subseteq Nat /\ ReplayWindow \in Nat \ {0}
  BY DiscoConstants DEF DiscoWindow
<1> HIDE DEF h
<1>7. h # <<>>
  BY <1>1
<1>8. \A i \in DOMAIN h : h[i] <= v.high
  BY <1>1, <1>2, <1>3, <1>6, SMTT(40) DEF WinAt
<1>9. \E i \in DOMAIN h : h[i] = v.high
  BY <1>1, <1>5
<1>10. \A i, j \in DOMAIN h : h[i] = h[j] => i = j
  <2>1. \A i \in DOMAIN g : h[i] # h[Len(g) + 1]
    BY <1>1, <1>2, <1>6 DEF WinAt
  <2>2. \A i, j \in DOMAIN g : h[i] = h[j] => i = j
    BY <1>2 DEF WinAt
  <2> QED
    BY <1>3, <2>1, <2>2
<1>11. \A z \in r : \E i \in DOMAIN h : h[i] = z \/ h[i] - z >= ReplayWindow
  BY <1>2, <1>4 DEF WinAt
<1>12. ASSUME NEW k \in Nat
       PROVE  k \in v.bits <=> k < ReplayWindow /\ \E i \in DOMAIN h : v.high - h[i] = k
  <2>1. (\E i \in DOMAIN h : v.high - h[i] = k)
          <=> k = 0 \/ \E i \in DOMAIN g : w.high - g[i] = k - (q - w.high)
    <3>1. ASSUME NEW i \in DOMAIN h, v.high - h[i] = k
          PROVE  k = 0 \/ \E j \in DOMAIN g : w.high - g[j] = k - (q - w.high)
      <4>1. CASE i \in DOMAIN g
        <5>1. h[i] = g[i] /\ g[i] \in Nat
          BY <1>2, <4>1
        <5>2. w.high - g[i] = k - (q - w.high)
          BY <1>6, <3>1, <5>1, SMTT(40)
        <5> QED
          BY <4>1, <5>2
      <4>2. CASE i = Len(g) + 1
        BY <1>1, <3>1, <4>2
      <4> QED
        BY <1>3, <4>1, <4>2
    <3>2. ASSUME NEW j \in DOMAIN g, w.high - g[j] = k - (q - w.high)
          PROVE  \E i \in DOMAIN h : v.high - h[i] = k
      <4>1. h[j] = g[j] /\ g[j] \in Nat /\ j \in DOMAIN h
        BY <1>2, <1>4
      <4>2. v.high - h[j] = k
        BY <1>6, <3>2, <4>1, SMTT(40)
      <4> QED
        BY <4>1, <4>2
    <3>3. k = 0 => v.high - h[Len(g) + 1] = k
      BY <1>1
    <3> QED
      BY <1>5, <3>1, <3>2, <3>3
  <2>2. CASE k - (q - w.high) \in Nat
    <3>1. PICK d \in Nat : d = k - (q - w.high)
      BY <2>2
    <3>2. d \in w.bits <=> d < ReplayWindow /\ \E i \in DOMAIN g : w.high - g[i] = d
      BY DEF WinAt
    <3>3. k < ReplayWindow => d < ReplayWindow
      BY <1>6, <3>1
    <3>4. k \in v.bits <=> k = 0 \/ (k < ReplayWindow /\ d \in w.bits)
      BY <3>1
    <3>5. k = 0 => k < ReplayWindow
      BY <1>6
    <3> QED
      BY <2>1, <3>1, <3>2, <3>3, <3>4, <3>5
  <2>3. CASE k - (q - w.high) \notin Nat
    <3>1. ~\E i \in DOMAIN g : w.high - g[i] = k - (q - w.high)
      BY <1>2, <1>6, <2>3 DEF WinAt
    <3> QED
      BY <1>6, <2>1, <2>3, <3>1
  <2> QED
    BY <2>2, <2>3
<1> QED
  BY <1>7, <1>8, <1>9, <1>10, <1>11, <1>12 DEF WinAt, h

(* The window, when one of it that was not taken is.                       *)
LEMMA WinOlder ==
  ASSUME NEW w \in DiscoWindow, NEW g \in Seq(Nat), NEW r \in SUBSET Nat, NEW q \in Nat,
         WinAt(w, g, r), w.seen, q <= w.high, w.high - q < ReplayWindow, w.high - q \notin w.bits,
         NEW v \in DiscoWindow, v.seen = TRUE, v.high = w.high,
         v.bits = w.bits \cup {w.high - q}
  PROVE  WinAt(v, Append(g, q), r)
<1> DEFINE h == Append(g, q)
<1>1. /\ h \in Seq(Nat) /\ Len(h) = Len(g) + 1 /\ Len(g) \in Nat
      /\ h[Len(g) + 1] = q /\ DOMAIN h = 1..(Len(g) + 1) /\ DOMAIN g = 1..Len(g)
  OBVIOUS
<1>2. \A i \in DOMAIN g : h[i] = g[i] /\ g[i] \in Nat
  OBVIOUS
<1>3. \A i \in DOMAIN h : i \in DOMAIN g \/ i = Len(g) + 1
  BY <1>1
<1>4. \A i \in DOMAIN g : i \in DOMAIN h
  BY <1>1
<1>5. Len(g) + 1 \in DOMAIN h
  BY <1>1
<1>6. w.high \in Nat /\ w.bits \subseteq Nat /\ ReplayWindow \in Nat \ {0} /\ w.high - q \in Nat
  BY DiscoConstants DEF DiscoWindow
<1> HIDE DEF h
<1>7. h # <<>>
  BY <1>1
<1>8. \A i \in DOMAIN h : h[i] <= v.high
  BY <1>1, <1>2, <1>3, <1>6 DEF WinAt
<1>9. \E i \in DOMAIN h : h[i] = v.high
  BY <1>2, <1>4 DEF WinAt
<1>10. \A i, j \in DOMAIN h : h[i] = h[j] => i = j
  <2>1. \A i \in DOMAIN g : g[i] # q
    BY <1>6 DEF WinAt
  <2>2. \A i, j \in DOMAIN g : h[i] = h[j] => i = j
    BY <1>2 DEF WinAt
  <2> QED
    BY <1>1, <1>2, <1>3, <2>1, <2>2
<1>11. \A z \in r : \E i \in DOMAIN h : h[i] = z \/ h[i] - z >= ReplayWindow
  BY <1>2, <1>4 DEF WinAt
<1>12. ASSUME NEW k \in Nat
       PROVE  k \in v.bits <=> k < ReplayWindow /\ \E i \in DOMAIN h : v.high - h[i] = k
  <2>1. (\E i \in DOMAIN h : w.high - h[i] = k)
          <=> w.high - q = k \/ \E i \in DOMAIN g : w.high - g[i] = k
    <3>1. ASSUME NEW i \in DOMAIN h, w.high - h[i] = k
          PROVE  w.high - q = k \/ \E j \in DOMAIN g : w.high - g[j] = k
      BY <1>1, <1>2, <1>3, <3>1
    <3>2. ASSUME NEW j \in DOMAIN g, w.high - g[j] = k
          PROVE  \E i \in DOMAIN h : w.high - h[i] = k
      <4>1. h[j] = g[j] /\ j \in DOMAIN h
        BY <1>2, <1>4
      <4> QED
        BY <3>2, <4>1
    <3> QED
      BY <1>1, <1>5, <3>1, <3>2
  <2>2. k \in w.bits <=> k < ReplayWindow /\ \E i \in DOMAIN g : w.high - g[i] = k
    BY DEF WinAt
  <2> QED
    BY <2>1, <2>2
<1> QED
  BY <1>7, <1>8, <1>9, <1>10, <1>11, <1>12 DEF WinAt, h

(* The first number that is taken.                                         *)
LEMMA WinFirst ==
  ASSUME NEW w \in DiscoWindow, NEW g \in Seq(Nat), NEW r \in SUBSET Nat, NEW q \in Nat,
         WinAt(w, g, r), ~w.seen,
         NEW v \in DiscoWindow, v.seen = TRUE, v.high = q, v.bits = {0}
  PROVE  WinAt(v, Append(g, q), r)
<1>1. g = <<>> /\ r = {}
  BY DEF WinAt
<1>2. Append(g, q) = <<q>> /\ DOMAIN <<q>> = {1} /\ <<q>>[1] = q /\ <<q>> # <<>>
  BY <1>1
<1>3. ReplayWindow \in Nat /\ ReplayWindow > 0
  BY DiscoConstants
<1>4. ASSUME NEW k \in Nat
      PROVE  k \in {0} <=> k < ReplayWindow /\ q - q = k
  BY <1>3
<1> DEFINE h == <<q>>
<1>5. h # <<>> /\ DOMAIN h = {1} /\ h[1] = q
  BY <1>2
<1> HIDE DEF h
<1>6. WinAt(v, h, r)
  BY <1>1, <1>4, <1>5 DEF WinAt
<1> QED
  BY <1>2, <1>6 DEF h

(* A number that is refused was taken, or has fallen out.                  *)
LEMMA WinRefuses ==
  ASSUME NEW w \in DiscoWindow, NEW g \in Seq(Nat), NEW r \in SUBSET Nat, NEW q \in Nat,
         WinAt(w, g, r), w.seen, q <= w.high,
         w.high - q >= ReplayWindow \/ w.high - q \in w.bits
  PROVE  WinAt(w, g, r \cup {q})
<1>1. w.high \in Nat /\ ReplayWindow \in Nat /\ w.high - q \in Nat
  BY DiscoConstants DEF DiscoWindow
<1>2. \A i \in DOMAIN g : g[i] \in Nat
  OBVIOUS
<1>3. \E i \in DOMAIN g : g[i] = q \/ g[i] - q >= ReplayWindow
  <2>1. CASE w.high - q >= ReplayWindow
    BY <2>1 DEF WinAt
  <2>2. CASE w.high - q \in w.bits
    <3>1. PICK i \in DOMAIN g : w.high - g[i] = w.high - q
      BY <1>1, <2>2 DEF WinAt
    <3>2. g[i] = q
      BY <1>1, <1>2, <3>1
    <3> QED
      BY <3>2
  <2> QED
    BY <2>1, <2>2
<1> QED
  BY <1>3 DEF WinAt

(* accept, in its four cases.                                              *)
LEMMA WinAccepts ==
  ASSUME NEW w \in DiscoWindow, NEW g \in Seq(Nat), NEW r \in SUBSET Nat, NEW q \in Nat,
         WinAt(w, g, r), q # 0
  PROVE  /\ Disco!accept(w, q).w \in DiscoWindow
         /\ Disco!accept(w, q).ok => WinAt(Disco!accept(w, q).w, Append(g, q), r)
         /\ ~Disco!accept(w, q).ok => WinAt(Disco!accept(w, q).w, g, r \cup {q})
<1>1. /\ w.seen \in BOOLEAN /\ w.high \in Nat /\ w.bits \subseteq Nat
      /\ ReplayWindow \in Nat /\ ReplayWindow > 0
  BY DiscoConstants DEF DiscoWindow
<1>2. CASE ~w.seen
  <2> DEFINE v == [seen |-> TRUE, high |-> q, bits |-> {0}]
  <2>1. v \in DiscoWindow /\ v.seen = TRUE /\ v.high = q /\ v.bits = {0}
    BY DEF DiscoWindow
  <2>2. Disco!accept(w, q) = [ok |-> TRUE, w |-> v]
    BY <1>2 DEF Disco!accept
  <2>3. Disco!accept(w, q).ok = TRUE /\ Disco!accept(w, q).w = v
    BY <2>2
  <2> HIDE DEF v
  <2>4. WinAt(v, Append(g, q), r)
    BY <1>2, <2>1, WinFirst
  <2> QED
    BY <2>1, <2>3, <2>4
<1>3. CASE w.seen /\ q > w.high
  <2> DEFINE n == {0} \cup {y \in {x + (q - w.high) : x \in w.bits} : y < ReplayWindow}
             v == [seen |-> TRUE, high |-> q, bits |-> n]
  <2>1. n \subseteq Nat
    BY <1>1, <1>3
  <2>2. \A k \in Nat : k \in n <=> k = 0 \/ (k < ReplayWindow /\ k - (q - w.high) \in w.bits)
    <3>1. ASSUME NEW k \in Nat
          PROVE  k \in {x + (q - w.high) : x \in w.bits} <=> k - (q - w.high) \in w.bits
      <4>1. ASSUME NEW x \in w.bits, k = x + (q - w.high)
            PROVE  k - (q - w.high) \in w.bits
        <5>1. x \in Nat
          BY <1>1
        <5>2. k - (q - w.high) = x
          BY <1>1, <4>1, <5>1
        <5> QED
          BY <4>1, <5>2
      <4>2. k = (k - (q - w.high)) + (q - w.high)
        BY <1>1
      <4> QED
        BY <4>1, <4>2
    <3> QED
      BY <3>1
  <2>3. Disco!accept(w, q) = [ok |-> TRUE, w |-> v]
    BY <1>3 DEF Disco!accept
  <2> HIDE DEF n
  <2>4. v \in DiscoWindow /\ v.seen = TRUE /\ v.high = q /\ v.bits = n
    BY <2>1 DEF DiscoWindow
  <2>5. Disco!accept(w, q).ok = TRUE /\ Disco!accept(w, q).w = v
    BY <2>3
  <2> HIDE DEF v
  <2>6. WinAt(v, Append(g, q), r)
    BY <1>3, <2>2, <2>4, WinNewer
  <2> QED
    BY <2>4, <2>5, <2>6
<1>4. CASE w.seen /\ ~(q > w.high) /\ (w.high - q >= ReplayWindow \/ w.high - q \in w.bits)
  <2>1. Disco!accept(w, q) = [ok |-> FALSE, w |-> w]
    BY <1>4 DEF Disco!accept
  <2>2. Disco!accept(w, q).ok = FALSE /\ Disco!accept(w, q).w = w
    BY <2>1
  <2>3. q <= w.high
    BY <1>1, <1>4
  <2>4. WinAt(w, g, r \cup {q})
    BY <1>4, <2>3, WinRefuses
  <2> QED
    BY <2>2, <2>4
<1>5. CASE w.seen /\ ~(q > w.high) /\ ~(w.high - q >= ReplayWindow \/ w.high - q \in w.bits)
  <2> DEFINE v == [w EXCEPT !.bits = w.bits \cup {w.high - q}]
  <2>1. q <= w.high /\ w.high - q \in Nat /\ w.high - q < ReplayWindow
    BY <1>1, <1>5
  <2>2. v \in DiscoWindow /\ v.seen = w.seen /\ v.high = w.high /\ v.bits = w.bits \cup {w.high - q}
    BY <2>1 DEF DiscoWindow
  <2>3. Disco!accept(w, q) = [ok |-> TRUE, w |-> v]
    BY <1>5 DEF Disco!accept
  <2>4. Disco!accept(w, q).ok = TRUE /\ Disco!accept(w, q).w = v
    BY <2>3
  <2> HIDE DEF v
  <2>5. v.seen = TRUE
    BY <1>1, <1>5, <2>2
  <2>6. WinAt(v, Append(g, q), r)
    BY <1>5, <2>1, <2>2, <2>5, WinOlder
  <2> QED
    BY <2>2, <2>4, <2>6
<1> QED
  BY <1>2, <1>3, <1>4, <1>5

(* dispatch: what the window lets through or turns down.                   *)
LEMMA DiscoDispatches ==
  ASSUME DiscoTypes, DiscoWire, DiscoWindows, Disco!Dispatch
  PROVE  DiscoWire' /\ DiscoWindows'
<1>1. PICK k : k = reader.p
  OBVIOUS
<1>2. DiscoPacket(k) /\ reader.bucket \subseteq Sess /\ reader' = None /\ UNCHANGED <<seqOut, wire>>
  BY <1>1 DEF DiscoWire, Disco!Dispatch
<1>3. DiscoWire'
  BY <1>2 DEF DiscoWire, DiscoPacket, Disco!SendTag, Disco!discoEpochOf, Disco!Tag
<1>4. CASE UNCHANGED <<window, got, refused>>
  BY <1>3, <1>4 DEF DiscoWindows, WinAt
<1>5. CASE k.key \in reader.bucket
  <2>1. PICK x \in Sess : x = k.key
    BY <1>2, <1>5
  <2>2. PICK q \in Nat : q = k.seq /\ q # 0
    BY <1>2, <2>1, DiscoConstants DEF DiscoPacket
  <2>3. window[x] \in DiscoWindow /\ got[x] \in Seq(Nat) /\ refused[x] \in SUBSET Nat
        /\ WinAt(window[x], got[x], refused[x])
    BY DEF DiscoWindows
  <2>4. PICK m : m = Disco!accept(window[x], q)
    OBVIOUS
  <2>5. /\ m.w \in DiscoWindow
        /\ m.ok => WinAt(m.w, Append(got[x], q), refused[x])
        /\ ~m.ok => WinAt(m.w, got[x], refused[x] \cup {q})
    BY <2>2, <2>3, <2>4, WinAccepts
  <2>6. \/ UNCHANGED <<window, got, refused>>
        \/ /\ window' = [window EXCEPT ![x] = m.w]
           /\ \/ m.ok /\ got' = [got EXCEPT ![x] = Append(got[x], q)] /\ refused' = refused
              \/ ~m.ok /\ refused' = [refused EXCEPT ![x] = refused[x] \cup {q}] /\ got' = got
    BY <1>1, <2>1, <2>2, <2>4 DEF Disco!Dispatch
  <2>7. Append(got[x], q) \in Seq(Nat) /\ refused[x] \cup {q} \in SUBSET Nat
    BY <2>3
  <2>8. CASE window' = [window EXCEPT ![x] = m.w] /\ m.ok
             /\ got' = [got EXCEPT ![x] = Append(got[x], q)] /\ refused' = refused
    <3>1. window' \in [Sess -> DiscoWindow] /\ got' \in [Sess -> Seq(Nat)]
          /\ refused' \in [Sess -> SUBSET Nat]
      BY <2>5, <2>7, <2>8 DEF DiscoWindows
    <3>2. ASSUME NEW y \in Sess PROVE WinAt(window'[y], got'[y], refused'[y])
      <4>1. CASE y = x
        BY <2>5, <2>8, <4>1 DEF DiscoWindows
      <4>2. CASE y # x
        <5>1. window'[y] = window[y] /\ got'[y] = got[y] /\ refused'[y] = refused[y]
          BY <2>8, <4>2 DEF DiscoWindows
        <5> QED
          BY <5>1 DEF DiscoWindows
      <4> QED
        BY <4>1, <4>2
    <3> QED
      BY <1>3, <3>1, <3>2 DEF DiscoWindows, WinAt
  <2>9. CASE window' = [window EXCEPT ![x] = m.w] /\ ~m.ok
             /\ refused' = [refused EXCEPT ![x] = refused[x] \cup {q}] /\ got' = got
    <3>1. window' \in [Sess -> DiscoWindow] /\ got' \in [Sess -> Seq(Nat)]
          /\ refused' \in [Sess -> SUBSET Nat]
      BY <2>5, <2>7, <2>9 DEF DiscoWindows
    <3>2. ASSUME NEW y \in Sess PROVE WinAt(window'[y], got'[y], refused'[y])
      <4>1. CASE y = x
        BY <2>5, <2>9, <4>1 DEF DiscoWindows
      <4>2. CASE y # x
        <5>1. window'[y] = window[y] /\ got'[y] = got[y] /\ refused'[y] = refused[y]
          BY <2>9, <4>2 DEF DiscoWindows
        <5> QED
          BY <5>1 DEF DiscoWindows
      <4> QED
        BY <4>1, <4>2
    <3> QED
      BY <1>3, <3>1, <3>2 DEF DiscoWindows, WinAt
  <2> QED
    BY <1>4, <2>6, <2>8, <2>9
<1>6. k.key \in reader.bucket \/ UNCHANGED <<window, got, refused>>
  BY <1>1 DEF Disco!Dispatch
<1> QED
  BY <1>4, <1>5, <1>6

(* What is read is of the table.                                           *)
LEMMA DiscoBuckets ==
  ASSUME DiscoTypes, DiscoTables, NEW u
  PROVE  /\ Disco!Bucket(u) = {x \in Disco!Registered : u \in tags[x]}
         /\ Disco!Bucket(u) \subseteq Sess
<1>1. Disco!Registered \subseteq Sess
  BY DiscoRegistered
<1>2. /\ DOMAIN byTag = UNION {tags[x] : x \in Disco!Registered}
      /\ \A v \in DOMAIN byTag : byTag[v] = {x \in Disco!Registered : v \in tags[x]}
  BY DEF DiscoTables, Disco!TableOf
<1>3. CASE u \in DOMAIN byTag
  BY <1>1, <1>2, <1>3 DEF Disco!Bucket
<1>4. CASE u \notin DOMAIN byTag
  <2>1. \A x \in Disco!Registered : u \notin tags[x]
    BY <1>2, <1>4
  <2> QED
    BY <1>4, <2>1 DEF Disco!Bucket
<1> QED
  BY <1>3, <1>4

(* A packet is on its way, and is read.                                    *)
LEMMA DiscoPackets ==
  ASSUME DiscoTypes, DiscoTables, DiscoWire, DiscoWindows,
         \/ \E x \in Sess, y \in Sendings : Disco!WriteDisco(x, y[1], y[2])
         \/ \E x \in Sess : Disco!QuicCollides(x)
         \/ \E p \in wire : Disco!ReadFrom(p)
         \/ Disco!Dispatch
  PROVE  DiscoWire' /\ DiscoWindows'
<1>1. ASSUME NEW x \in Sess, NEW y \in Sendings, Disco!WriteDisco(x, y[1], y[2])
      PROVE  DiscoWire' /\ DiscoWindows'
  <2>1. y[1] \in Int /\ instant \in Nat /\ seqOut \in [Sess -> Nat]
    BY DiscoConstants DEF DiscoTypes, DiscoWire
  <2>2. PICK k : k = [tag |-> Disco!SendTag(x, instant + y[1]), key |-> x, seq |-> seqOut[x] + 1,
                      ts |-> instant + y[1], known |-> y[2]]
    OBVIOUS
  <2>3. DiscoPacket(k)
    BY <2>1, <2>2 DEF DiscoPacket
  <2>4. /\ seqOut' = [seqOut EXCEPT ![x] = seqOut[x] + 1] /\ wire' = wire \cup {k}
        /\ UNCHANGED <<reader, window, got, refused>>
    BY <1>1, <2>2 DEF Disco!WriteDisco
  <2>5. seqOut' \in [Sess -> Nat]
    BY <2>1, <2>4
  <2>6. \A p \in wire' : DiscoPacket(p)
    BY <2>3, <2>4 DEF DiscoWire
  <2>7. DiscoWire'
    BY <2>4, <2>5, <2>6 DEF DiscoWire
  <2> QED
    BY <2>4, <2>7 DEF DiscoWindows, WinAt
<1>2. ASSUME NEW x \in Sess, Disco!QuicCollides(x)
      PROVE  DiscoWire' /\ DiscoWindows'
  <2>1. PICK k : k = [tag |-> Disco!SendTag(x, instant), key |-> None, seq |-> 0, ts |-> 0,
                      known |-> FALSE]
    OBVIOUS
  <2>2. DiscoPacket(k)
    BY <2>1 DEF DiscoPacket
  <2>3. wire' = wire \cup {k} /\ UNCHANGED <<seqOut, reader, window, got, refused>>
    BY <1>2, <2>1 DEF Disco!QuicCollides
  <2>4. \A p \in wire' : DiscoPacket(p)
    BY <2>2, <2>3 DEF DiscoWire
  <2>5. DiscoWire'
    BY <2>3, <2>4 DEF DiscoWire
  <2> QED
    BY <2>3, <2>5 DEF DiscoWindows, WinAt
<1>3. ASSUME NEW k \in wire, Disco!ReadFrom(k)
      PROVE  DiscoWire' /\ DiscoWindows'
  <2>1. PICK m : m = Disco!Bucket(k.tag)
    OBVIOUS
  <2>2. reader' = [p |-> k, bucket |-> m, at |-> instant]
        /\ UNCHANGED <<seqOut, wire, window, got, refused>>
    BY <1>3, <2>1 DEF Disco!ReadFrom
  <2>3. m \subseteq Sess
    BY <2>1, DiscoBuckets
  <2>4. reader'.p = k /\ reader'.bucket = m
    BY <2>2
  <2>5. DiscoPacket(k)
    BY DEF DiscoWire
  <2> QED
    BY <2>2, <2>3, <2>4, <2>5, SMTT(40)
       DEF DiscoWire, DiscoWindows, DiscoPacket, WinAt, Disco!SendTag, Disco!discoEpochOf, Disco!Tag
<1> QED
  BY <1>1, <1>2, <1>3, DiscoDispatches

(* The table, without the session x under the tags m.                      *)
DiscoTableLess(tbl, x, m) ==
  [u \in {v \in DOMAIN tbl : v \notin m \/ tbl[v] # {x}} |->
     IF u \in m THEN tbl[u] \ {x} ELSE tbl[u]]

(* ... is the table of the other sessions.                                 *)
LEMMA TableDrops ==
  ASSUME NEW S, NEW tg \in [Sess -> SUBSET DiscoTag], S \subseteq Sess,
         NEW x \in S
  PROVE  Disco!TableOf(S \ {x}, [tg EXCEPT ![x] = {}])
           = DiscoTableLess(Disco!TableOf(S, tg), x, tg[x])
<1> DEFINE tbl == Disco!TableOf(S, tg)
           kept == {v \in DOMAIN tbl : v \notin tg[x] \/ tbl[v] # {x}}
           th == [tg EXCEPT ![x] = {}]
           new == Disco!TableOf(S \ {x}, th)
           old == DiscoTableLess(tbl, x, tg[x])
<1>1. /\ DOMAIN tbl = UNION {tg[y] : y \in S}
      /\ \A v \in DOMAIN tbl : tbl[v] = {y \in S : v \in tg[y]}
  BY DEF Disco!TableOf
<1>2. \A y \in S \ {x} : th[y] = tg[y]
  OBVIOUS
<1>3. /\ DOMAIN new = UNION {th[y] : y \in S \ {x}}
      /\ \A v \in DOMAIN new : new[v] = {y \in S \ {x} : v \in th[y]}
  BY DEF Disco!TableOf
<1>4. DOMAIN old = kept /\ \A v \in kept : old[v] = IF v \in tg[x] THEN tbl[v] \ {x} ELSE tbl[v]
  BY DEF DiscoTableLess
<1>5. new = [v \in DOMAIN new |-> new[v]] /\ old = [v \in DOMAIN old |-> old[v]]
  BY DEF Disco!TableOf, DiscoTableLess
<1> HIDE DEF new, old, th, tbl
<1>6. \A v : v \in DOMAIN new <=> \E y \in S : y # x /\ v \in tg[y]
  BY <1>2, <1>3
<1>7. \A v : v \in kept <=> v \in DOMAIN tbl /\ (v \notin tg[x] \/ tbl[v] # {x})
  OBVIOUS
<1> HIDE DEF kept
<1>8. \A v : v \in DOMAIN tbl <=> \E y \in S : v \in tg[y]
  BY <1>1
<1>9. ASSUME NEW v PROVE v \in DOMAIN new <=> v \in kept
  <2>1. CASE v \in DOMAIN new
    BY <1>1, <1>6, <1>7, <1>8, <2>1
  <2>2. CASE v \in kept
    <3>1. v \in DOMAIN tbl /\ tbl[v] = {y \in S : v \in tg[y]}
      BY <1>1, <1>7, <2>2
    <3>2. CASE v \notin tg[x]
      <4>1. PICK y \in S : v \in tg[y]
        BY <1>8, <3>1
      <4>2. y # x
        BY <3>2, <4>1
      <4> QED
        BY <1>6, <2>2, <4>1, <4>2
    <3>3. CASE v \in tg[x]
      <4>1. x \in tbl[v] /\ tbl[v] # {x}
        BY <1>7, <2>2, <3>1, <3>3
      <4>2. PICK y \in tbl[v] : y # x
        BY <4>1
      <4>3. y \in S /\ v \in tg[y]
        BY <3>1, <4>2
      <4> QED
        BY <1>6, <2>2, <4>2, <4>3
    <3> QED
      BY <3>2, <3>3
  <2> QED
    BY <2>1, <2>2
<1>10. DOMAIN new = kept
  BY <1>9
<1>11. ASSUME NEW v \in kept PROVE new[v] = old[v]
  <2>1. new[v] = {y \in S \ {x} : v \in tg[y]}
    BY <1>2, <1>3, <1>10
  <2>2. tbl[v] = {y \in S : v \in tg[y]}
    BY <1>1, <1>7
  <2> QED
    BY <1>4, <2>1, <2>2
<1> QED
  BY <1>4, <1>5, <1>10, <1>11 DEF new, old, th, kept, tbl

(* The table, with one more.                                               *)
DiscoTableWith(tbl, x, m) ==
  [u \in DOMAIN tbl \cup m |->
     IF u \in m THEN (IF u \in DOMAIN tbl THEN tbl[u] ELSE {}) \cup {x} ELSE tbl[u]]

(* ... is the table of one more session.                                   *)
LEMMA TableAdds ==
  ASSUME NEW S, NEW tg \in [Sess -> SUBSET DiscoTag], S \subseteq Sess,
         NEW x \in Sess, x \notin S, NEW m
  PROVE  Disco!TableOf(S \cup {x}, [tg EXCEPT ![x] = m])
           = DiscoTableWith(Disco!TableOf(S, tg), x, m)
<1> DEFINE tbl == Disco!TableOf(S, tg)
           th == [tg EXCEPT ![x] = m]
           new == Disco!TableOf(S \cup {x}, th)
           old == DiscoTableWith(tbl, x, m)
<1>1. /\ DOMAIN tbl = UNION {tg[y] : y \in S}
      /\ \A v \in DOMAIN tbl : tbl[v] = {y \in S : v \in tg[y]}
  BY DEF Disco!TableOf
<1>2. th[x] = m /\ \A y \in S : th[y] = tg[y] /\ y # x
  OBVIOUS
<1>3. /\ DOMAIN new = UNION {th[y] : y \in S \cup {x}}
      /\ \A v \in DOMAIN new : new[v] = {y \in S \cup {x} : v \in th[y]}
  BY DEF Disco!TableOf
<1>4. /\ DOMAIN old = DOMAIN tbl \cup m
      /\ \A v \in DOMAIN old :
           old[v] = IF v \in m THEN (IF v \in DOMAIN tbl THEN tbl[v] ELSE {}) \cup {x} ELSE tbl[v]
  BY DEF DiscoTableWith
<1>5. new = [v \in DOMAIN new |-> new[v]] /\ old = [v \in DOMAIN old |-> old[v]]
  BY DEF Disco!TableOf, DiscoTableWith
<1> HIDE DEF new, old, th, tbl
<1>6. \A v : v \in DOMAIN tbl <=> \E y \in S : v \in tg[y]
  BY <1>1
<1>7. \A v : v \in DOMAIN new <=> v \in m \/ \E y \in S : v \in tg[y]
  BY <1>2, <1>3
<1>8. DOMAIN new = DOMAIN old
  BY <1>4, <1>6, <1>7
<1>9. ASSUME NEW v \in DOMAIN old PROVE new[v] = old[v]
  <2>1. new[v] = {y \in S \cup {x} : v \in th[y]}
    BY <1>3, <1>8
  <2>2. v \in DOMAIN tbl => tbl[v] = {y \in S : v \in tg[y]}
    BY <1>1
  <2>3. v \notin DOMAIN tbl => \A y \in S : v \notin tg[y]
    BY <1>6
  <2> QED
    BY <1>2, <1>4, <2>1, <2>2, <2>3
<1> QED
  BY <1>5, <1>8, <1>9 DEF new, old, th, tbl

(* The epochs; and the tags around one ...                                  *)
LEMMA DiscoEpochNat ==
  ASSUME NEW t \in Int
  PROVE  /\ Disco!discoEpochOf(t) \in Nat
         /\ Disco!discoEpochOf(t) * EpochLen <= (IF t < 0 THEN 0 ELSE t)
         /\ (IF t < 0 THEN 0 ELSE t) < Disco!discoEpochOf(t) * EpochLen + EpochLen
<1>1. PICK x \in Nat : x = IF t < 0 THEN 0 ELSE t
  OBVIOUS
<1>2. EpochLen \in Nat \ {0}
  BY DiscoConstants
<1>3. Disco!discoEpochOf(t) = x \div EpochLen
  BY <1>1 DEF Disco!discoEpochOf
<1> QED
  BY <1>1, <1>2, <1>3, SaltDivides

(* ... are tags.                                                           *)
LEMMA DiscoTagsTyped ==
  ASSUME NEW x \in Sess, NEW n \in Int
  PROVE  DiscoTagsOf(x, n) \in SUBSET DiscoTag
<1>1. ASSUME NEW e \in n - 1 .. n + 1 PROVE Disco!Tag(x, e) \in DiscoTag
  BY <1>1 DEF Disco!Tag, DiscoTag
<1> QED
  BY <1>1 DEF DiscoTagsOf

(* What other calls rely on.                                               *)
LEMMA CallStays ==
  ASSUME NEW k, NEW pr, NEW qr, NEW R, NEW S, DiscoCall(k, pr, R),
         \A x \in Sess : pr[x] \in Peer => qr[x] \in Peer /\ (x \notin R => x \notin S)
  PROVE  DiscoCall(k, qr, S)
BY DEF DiscoCall

(* A call moves on.                                                        *)
LEMMA CallMoves ==
  ASSUME DiscoTypes, DiscoCalls, NEW c \in Caller, NEW k \in DiscoCallTypes,
         call' = [call EXCEPT ![c] = k], DiscoCall(k, peer', Disco!Registered'),
         \A x \in Sess : peer[x] \in Peer =>
           peer'[x] \in Peer /\ (x \notin Disco!Registered => x \notin Disco!Registered')
  PROVE  /\ call' \in [Caller -> DiscoCallTypes] /\ DiscoCalls'
         /\ call'[c] = k /\ \A d \in Caller : d # c => call'[d] = call[d]
<1>1. call \in [Caller -> DiscoCallTypes]
  BY DEF DiscoTypes
<1>2. /\ call' \in [Caller -> DiscoCallTypes]
      /\ call'[c] = k /\ \A d \in Caller : d # c => call'[d] = call[d]
  BY <1>1
<1>3. ASSUME NEW d \in Caller PROVE DiscoCall(call'[d], peer', Disco!Registered')
  <2>1. CASE d = c
    BY <1>2, <2>1
  <2>2. CASE d # c
    <3>1. DiscoCall(call[d], peer, Disco!Registered) /\ call'[d] = call[d]
      BY <1>2, <2>2 DEF DiscoCalls
    <3> QED
      BY <3>1, CallStays
  <2> QED
    BY <2>1, <2>2
<1> QED
  BY <1>2, <1>3 DEF DiscoCalls, DiscoCall

(* The sessions an address leads to, when x is given the address p.        *)
DiscoMoves(x, p) ==
  /\ peer' = [peer EXCEPT ![x] = p]
  /\ \/ peer[x] = None /\ byPeer' = Disco!AppendPeer(byPeer, x, p)
     \/ /\ peer[x] \in Peer /\ peer[x] # p
        /\ byPeer' = Disco!AppendPeer(Disco!dropPeerLocked(x), x, p)
     \/ peer[x] = p /\ byPeer' = byPeer

(* ... R are then the registered, and perhaps x.                           *)
LEMMA PeersFollow ==
  ASSUME DiscoTypes, DiscoTables, NEW R, NEW x \in Sess, NEW p \in Peer, DiscoMoves(x, p),
         R \subseteq Disco!Registered \cup (IF peer[x] = p THEN {} ELSE {x})
  PROVE  /\ peer' \in [Sess -> Peer \cup {None}] /\ byPeer' \in [Peer -> SUBSET Sess]
         /\ DiscoPeers(R)'
<1>1. /\ peer \in [Sess -> Peer \cup {None}] /\ byPeer \in [Peer -> SUBSET Sess] /\ None \notin Peer
      /\ Disco!Registered \subseteq Sess /\ R \subseteq Sess /\ DiscoPeers(Disco!Registered)
      /\ \A y \in R : y # x => y \in Disco!Registered
  BY DiscoConstants, DiscoRegistered DEF DiscoTypes, DiscoTables
<1>2. /\ peer' \in [Sess -> Peer \cup {None}] /\ peer'[x] = p
      /\ \A y \in Sess : y # x => peer'[y] = peer[y]
  BY <1>1 DEF DiscoMoves
<1>3. /\ byPeer' \in [Peer -> SUBSET Sess]
      /\ \A y \in Sess, q \in Peer : y # x => (y \in byPeer'[q] <=> y \in byPeer[q])
      /\ \A q \in Peer : x \in byPeer'[q] => q = p
      /\ (peer[x] # p \/ x \in Disco!Registered) => x \in byPeer'[p]
  <2>1. CASE peer[x] = None /\ byPeer' = Disco!AppendPeer(byPeer, x, p)
    <3>1. byPeer' = [byPeer EXCEPT ![p] = byPeer[p] \cup {x}]
      BY <2>1 DEF Disco!AppendPeer
    <3>2. \A q \in Peer : x \notin byPeer[q]
      BY <1>1, <2>1 DEF DiscoPeers
    <3> QED
      BY <1>1, <3>1, <3>2
  <2>2. CASE peer[x] \in Peer /\ peer[x] # p
             /\ byPeer' = Disco!AppendPeer(Disco!dropPeerLocked(x), x, p)
    <3>1. PICK m : m = [byPeer EXCEPT ![peer[x]] = byPeer[peer[x]] \ {x}]
      OBVIOUS
    <3>2. byPeer' = [m EXCEPT ![p] = m[p] \cup {x}]
      BY <2>2, <3>1 DEF Disco!AppendPeer, Disco!dropPeerLocked
    <3>3. /\ m \in [Peer -> SUBSET Sess]
          /\ \A y \in Sess, q \in Peer : y # x => (y \in m[q] <=> y \in byPeer[q])
          /\ \A q \in Peer : x \notin m[q]
      <4>1. m \in [Peer -> SUBSET Sess] /\ m[peer[x]] = byPeer[peer[x]] \ {x}
            /\ \A q \in Peer : q # peer[x] => m[q] = byPeer[q]
        BY <1>1, <2>2, <3>1
      <4>2. \A q \in Peer : q # peer[x] => x \notin byPeer[q]
        BY <1>1 DEF DiscoPeers
      <4> QED
        BY <4>1, <4>2
    <3> QED
      BY <3>2, <3>3
  <2>3. CASE peer[x] = p /\ byPeer' = byPeer
    BY <1>1, <2>3 DEF DiscoPeers
  <2> QED
    BY <2>1, <2>2, <2>3 DEF DiscoMoves
<1>4. \A y \in R : peer'[y] \in Peer
  BY <1>1, <1>2 DEF DiscoPeers
<1>5. \A y \in Sess, q \in Peer : y \in byPeer'[q] => peer'[y] = q
  BY <1>1, <1>2, <1>3 DEF DiscoPeers
<1>6. ASSUME NEW y \in R PROVE y \in byPeer'[peer'[y]]
  <2>1. CASE y = x
    BY <1>2, <1>3, <2>1
  <2>2. CASE y # x
    <3>1. y \in Disco!Registered /\ peer'[y] = peer[y] /\ peer[y] \in Peer /\ y \in byPeer[peer[y]]
      BY <1>1, <1>2, <2>2 DEF DiscoPeers
    <3> QED
      BY <1>1, <1>3, <2>2, <3>1
  <2> QED
    BY <2>1, <2>2
<1> QED
  BY <1>2, <1>3, <1>4, <1>5, <1>6 DEF DiscoPeers

(* What the table, the calls and the ticker are, when none of it changes.  *)
LEMMA DiscoSame ==
  ASSUME DiscoHeld,
         UNCHANGED <<instant, table, closed, byTag, epoch, tags, byPeer, peer, tickerMu, ticker,
                     tickerStop, refreshNow, ticked, call>>
  PROVE  DiscoHeld'
<1>1. DiscoTypes'
  BY DEF DiscoHeld, DiscoTypes
<1>2. Disco!Registered' = Disco!Registered /\ Disco!Live' = Disco!Live
  BY DEF Disco!Registered, Disco!Live
<1>3. DiscoTables'
  BY <1>2 DEF DiscoHeld, DiscoTables, DiscoPeers, DiscoTagsOf, Disco!Tag, Disco!TableOf
<1>4. DiscoCalls'
  BY <1>2 DEF DiscoHeld, DiscoCalls, DiscoCall
<1>5. DiscoTicker'
  BY <1>2 DEF DiscoHeld, DiscoTicker, DiscoWillSync
<1>6. DiscoEpochs'
  BY <1>2 DEF DiscoHeld, DiscoEpochs, DiscoStale, Disco!discoEpochOf
<1> QED
  BY <1>1, <1>3, <1>4, <1>5, <1>6 DEF DiscoHeld

(* The tags a session is added with.                                       *)
LEMMA DiscoTagged ==
  ASSUME DiscoHeld, NEW x \in Sess, x \notin Disco!Registered, Disco!addTagsLocked(x, instant),
         Disco!Registered' = Disco!Registered \cup {x}
  PROVE  /\ epoch' = Disco!discoEpochOf(instant)
         /\ tags' \in [Sess -> SUBSET DiscoTag]
         /\ byTag' = Disco!TableOf(Disco!Registered', tags')
         /\ \A y \in Disco!Registered' : tags'[y] = DiscoTagsOf(y, epoch')
<1>1. /\ tags \in [Sess -> SUBSET DiscoTag] /\ Disco!Registered \subseteq Sess
      /\ \A y \in Disco!Registered : tags[y] = DiscoTagsOf(y, epoch)
      /\ byTag = Disco!TableOf(Disco!Registered, tags)
  BY DiscoRegistered DEF DiscoHeld, DiscoTables
<1>2. PICK n \in Nat : n = Disco!discoEpochOf(instant)
  BY DiscoEpochNat DEF DiscoHeld, DiscoTypes
<1>3. \A y \in Sess : Disco!RecvTags(y, instant) = DiscoTagsOf(y, n)
                      /\ DiscoTagsOf(y, n) \in SUBSET DiscoTag
  BY <1>2, DiscoTagsTyped DEF Disco!RecvTags, DiscoTagsOf
<1>4. CASE n # epoch
  <2>1. /\ tags' = [y \in Sess |-> IF y \in Disco!Registered \cup {x} THEN DiscoTagsOf(y, n)
                                                                     ELSE tags[y]]
        /\ byTag' = Disco!TableOf(Disco!Registered \cup {x}, tags') /\ epoch' = n
    BY <1>2, <1>3, <1>4 DEF Disco!addTagsLocked, Disco!rebuildTagsLocked
  <2> QED
    BY <1>1, <1>2, <1>3, <2>1
<1>5. CASE n = epoch
  <2>1. PICK m : m = DiscoTagsOf(x, n)
    OBVIOUS
  <2>2. /\ tags' = [tags EXCEPT ![x] = m] /\ epoch' = epoch
        /\ byTag' = [u \in DOMAIN byTag \cup tags'[x] |->
                       IF u \in tags'[x] THEN Disco!Bucket(u) \cup {x} ELSE byTag[u]]
    BY <1>2, <1>3, <1>5, <2>1 DEF Disco!addTagsLocked
  <2>3. tags'[x] = m /\ m \in SUBSET DiscoTag /\ \A y \in Disco!Registered : tags'[y] = tags[y]
    BY <1>1, <1>3, <2>1, <2>2
  <2>4. byTag' = DiscoTableWith(byTag, x, m)
    BY <2>2, <2>3 DEF Disco!Bucket, DiscoTableWith
  <2>5. byTag' = Disco!TableOf(Disco!Registered \cup {x}, [tags EXCEPT ![x] = m])
    <3>1. PICK R : R = Disco!Registered
      OBVIOUS
    <3>2. R \subseteq Sess /\ x \notin R /\ byTag = Disco!TableOf(R, tags)
      BY <1>1, <3>1
    <3>3. tags \in [Sess -> SUBSET DiscoTag]
      BY <1>1
    <3>4. Disco!TableOf(R \cup {x}, [tags EXCEPT ![x] = m])
            = DiscoTableWith(Disco!TableOf(R, tags), x, m)
      BY <3>2, <3>3, TableAdds, ZenonT(60)
    <3> QED
      BY <2>4, <3>1, <3>2, <3>4
  <2>6. tags' \in [Sess -> SUBSET DiscoTag]
    BY <1>1, <2>2, <2>3
  <2>7. \A y \in Disco!Registered' : tags'[y] = DiscoTagsOf(y, epoch')
    BY <1>1, <1>5, <2>1, <2>2, <2>3
  <2> QED
    BY <1>2, <1>5, <2>2, <2>5, <2>6, <2>7
<1> QED
  BY <1>4, <1>5

(* AddDiscoSession.                                                        *)
LEMMA DiscoAdds ==
  ASSUME DiscoHeld, NEW c \in Caller, NEW x \in Sess, NEW p \in Peer,
         Disco!AddDiscoSession(c, x, p)
  PROVE  DiscoHeld'
<1>1. DiscoTypes /\ DiscoTables /\ DiscoCalls /\ DiscoTicker /\ DiscoEpochs
      /\ None \notin Sess /\ None \notin Peer /\ None \notin Caller
  BY DiscoConstants DEF DiscoHeld
<1>2. CASE ~Disco!MayAdd(x)
  <2>1. UNCHANGED <<instant, table, closed, byTag, epoch, tags, byPeer, peer, tickerMu, ticker,
                    tickerStop, refreshNow, ticked, call>>
    BY <1>2 DEF Disco!AddDiscoSession, Disco!peerVars, Disco!tickVars
  <2> QED
    BY <2>1, DiscoSame
<1>3. CASE Disco!MayAdd(x)
  <2> DEFINE k == [op |-> "add", s |-> x, at |-> "sync", p |-> p]
  <2>1. /\ ~closed /\ table[IdOf[x]] = None /\ peer[x] = None /\ call[c] = Disco!Idle
        /\ table' = [table EXCEPT ![IdOf[x]] = x]
        /\ Disco!addTagsLocked(x, instant)
        /\ peer' = [peer EXCEPT ![x] = p] /\ byPeer' = Disco!AppendPeer(byPeer, x, p)
        /\ call' = [call EXCEPT ![c] = k]
        /\ UNCHANGED <<instant, closed, tickerMu, ticker, tickerStop, refreshNow, ticked>>
    BY <1>3 DEF Disco!AddDiscoSession, Disco!MayAdd, Disco!Goto, Disco!Begin, Disco!tickVars
  <2>2. /\ k \in DiscoCallTypes /\ k.at = "sync" /\ k.op = "add" /\ k # Disco!Idle
        /\ call[c].at = "-"
    BY <2>1 DEF DiscoCallTypes, DiscoPlaces, Disco!Idle
  <2> HIDE DEF k
  <2>3. table \in [DiscoIds -> Sess \cup {None}] /\ IdOf[x] \in DiscoIds
    BY <1>1 DEF DiscoTypes, DiscoIds
  <2>4. /\ table' \in [DiscoIds -> Sess \cup {None}] /\ table'[IdOf[x]] = x
        /\ \A y \in DiscoIds : y # IdOf[x] => table'[y] = table[y]
    BY <2>1, <2>3
  <2>5. \A y \in DiscoIds : table'[y] # None => IdOf[table'[y]] = y
    BY <1>1, <2>4 DEF DiscoTypes
  <2>6. x \notin Disco!Registered /\ Disco!Registered \subseteq Sess
        /\ Disco!Registered' = Disco!Registered \cup {x}
    <3>1. \A y \in Sess : IdOf[y] \in DiscoIds
      BY DEF DiscoIds
    <3>2. x \notin Disco!Registered
      BY <1>1, <2>1 DEF Disco!Registered
    <3>3. ASSUME NEW y \in Sess PROVE table'[IdOf[y]] = y <=> table[IdOf[y]] = y \/ y = x
      BY <1>1, <2>1, <2>4, <3>1
    <3> QED
      BY <3>2, <3>3 DEF Disco!Registered
  <2>7. /\ epoch' = Disco!discoEpochOf(instant) /\ tags' \in [Sess -> SUBSET DiscoTag]
        /\ byTag' = Disco!TableOf(Disco!Registered', tags')
        /\ \A y \in Disco!Registered' : tags'[y] = DiscoTagsOf(y, epoch')
    BY <2>1, <2>6, DiscoTagged
  <2>8. epoch' \in Nat
    BY <1>1, <2>7, DiscoEpochNat DEF DiscoTypes
  <2>9. /\ peer' \in [Sess -> Peer \cup {None}] /\ byPeer' \in [Peer -> SUBSET Sess]
        /\ DiscoPeers(Disco!Registered)'
    <3>1. peer[x] # p
      BY <1>1, <2>1
    <3>2. PICK R : R = Disco!Registered'
      OBVIOUS
    <3>3. R \subseteq Disco!Registered \cup (IF peer[x] = p THEN {} ELSE {x})
      BY <2>6, <3>1, <3>2
    <3>4. DiscoMoves(x, p)
      BY <2>1 DEF DiscoMoves
    <3>5. /\ peer' \in [Sess -> Peer \cup {None}] /\ byPeer' \in [Peer -> SUBSET Sess]
          /\ DiscoPeers(R)'
      BY <1>1, <3>3, <3>4, PeersFollow
    <3> QED
      BY <3>2, <3>5 DEF DiscoPeers
  <2>10. DiscoTables'
    BY <2>7, <2>9 DEF DiscoTables, DiscoTagsOf, Disco!Tag
  <2>11. DiscoCall(k, peer', Disco!Registered')
    BY <2>2 DEF DiscoCall
  <2>12. \A y \in Sess : peer[y] \in Peer =>
           peer'[y] \in Peer /\ (y \notin Disco!Registered => y \notin Disco!Registered')
    BY <1>1, <2>1, <2>6 DEF DiscoTypes
  <2>13. /\ call' \in [Caller -> DiscoCallTypes] /\ DiscoCalls'
         /\ call'[c] = k /\ \A d \in Caller : d # c => call'[d] = call[d]
    BY <1>1, <2>1, <2>2, <2>11, <2>12, CallMoves
  <2>14. DiscoTypes'
    BY <1>1, <2>1, <2>4, <2>5, <2>8, <2>9, <2>13 DEF DiscoTypes, DiscoIds
  <2>15. DiscoTicker'
    <3>1. DiscoWillSync(call'[c])
      BY <2>2, <2>13 DEF DiscoWillSync
    <3>2. closed' => Disco!Registered' = {}
      BY <2>1
    <3>3. ASSUME NEW d \in Caller PROVE call'[d].at \in {"start", "stop", "wait"} <=> tickerMu' = d
      BY <1>1, <2>1, <2>2, <2>13 DEF DiscoTicker
    <3>4. tickerStop' => tickerMu' \in Caller /\ call'[tickerMu'].at = "wait"
      BY <1>1, <2>1, <2>2, <2>13 DEF DiscoTicker
    <3> QED
      BY <3>1, <3>2, <3>3, <3>4 DEF DiscoTicker, DiscoWillSync
  <2>16. DiscoEpochs'
    BY <1>1, <2>1, <2>7 DEF DiscoEpochs, DiscoStale, Disco!discoEpochOf
  <2> QED
    BY <2>10, <2>13, <2>14, <2>15, <2>16 DEF DiscoHeld
<1> QED
  BY <1>2, <1>3

(* Only the call of c moves on.                                            *)
DiscoMoved(c, k) == call'[c] = k /\ \A d \in Caller : d # c => call'[d] = call[d]

(* A call that will look at the table leaves the ticker to that.           *)
LEMMA TickerWaits ==
  ASSUME DiscoTicker, NEW c \in Caller, NEW k, DiscoMoved(c, k), DiscoWillSync(k),
         k.at \in {"sync", "peer"}, call[c].at \in {"-", "sync", "peer"},
         closed' => Disco!Registered' = {}, UNCHANGED <<tickerMu, tickerStop>>
  PROVE  DiscoTicker'
<1>1. \A d \in Caller : call'[d].at \in {"start", "stop", "wait"} <=> tickerMu' = d
  BY DEF DiscoTicker, DiscoMoved
<1>2. tickerStop' => tickerMu' \in Caller /\ call'[tickerMu'].at = "wait"
  BY DEF DiscoTicker, DiscoMoved
<1>3. ~\A d \in Caller : ~DiscoWillSync(call'[d])
  BY DEF DiscoMoved
<1> QED
  BY <1>1, <1>2, <1>3 DEF DiscoTicker, DiscoWillSync

(* The epochs, when no session is added and no clock moves.                *)
LEMMA EpochsStay ==
  ASSUME DiscoEpochs, NEW c \in Caller, NEW k, DiscoMoved(c, k), k.at \notin {"stop", "wait"},
         Disco!Registered' \subseteq Disco!Registered,
         UNCHANGED <<instant, epoch, ticker, tickerStop, refreshNow, ticked>>
  PROVE  DiscoEpochs'
<1>1. DiscoStale' => DiscoStale
  BY DEF DiscoStale, Disco!discoEpochOf
<1>2. ASSUME NEW d \in Caller, DiscoStale' PROVE call'[d].at \notin {"stop", "wait"}
  BY <1>1, <1>2 DEF DiscoEpochs, DiscoMoved
<1> QED
  BY <1>1, <1>2 DEF DiscoEpochs, Disco!discoEpochOf

(* A call that changes nothing here comes to wait for tickerMu.            *)
LEMMA DiscoQueues ==
  ASSUME DiscoHeld, NEW c \in Caller, NEW k \in DiscoCallTypes, call' = [call EXCEPT ![c] = k],
         k.at = "sync", k # Disco!Idle, call[c].at \in {"-", "sync", "peer"},
         UNCHANGED <<instant, table, closed, byTag, epoch, tags, byPeer, peer, tickerMu, ticker,
                     tickerStop, refreshNow, ticked>>
  PROVE  DiscoHeld'
<1>1. Disco!Registered' = Disco!Registered
  BY DEF Disco!Registered
<1>2. DiscoTypes /\ DiscoTables /\ DiscoCalls /\ DiscoTicker /\ DiscoEpochs
  BY DEF DiscoHeld
<1>3. DiscoCall(k, peer', Disco!Registered')
  BY DEF DiscoCall
<1>4. \A x \in Sess : peer[x] \in Peer =>
        peer'[x] \in Peer /\ (x \notin Disco!Registered => x \notin Disco!Registered')
  BY <1>1
<1>5. call' \in [Caller -> DiscoCallTypes] /\ DiscoCalls' /\ DiscoMoved(c, k)
  BY <1>2, <1>3, <1>4, CallMoves DEF DiscoMoved
<1>6. DiscoTypes'
  BY <1>2, <1>5 DEF DiscoTypes
<1>7. DiscoTables'
  BY <1>1, <1>2 DEF DiscoTables, DiscoPeers, DiscoTagsOf, Disco!Tag, Disco!TableOf
<1>8. DiscoTicker'
  <2>1. closed' => Disco!Registered' = {}
    BY <1>1, <1>2 DEF DiscoTicker
  <2> QED
    BY <1>2, <1>5, <2>1, TickerWaits DEF DiscoWillSync
<1>9. DiscoEpochs'
  BY <1>1, <1>2, <1>5, EpochsStay
<1> QED
  BY <1>5, <1>6, <1>7, <1>8, <1>9 DEF DiscoHeld

(* RemoveDiscoSession: the table.                                          *)
LEMMA DiscoRemoves ==
  ASSUME DiscoHeld, NEW c \in Caller, NEW i \in DOMAIN table, Disco!RemoveDiscoSession(c, i)
  PROVE  DiscoHeld'
<1>1. /\ DiscoTypes /\ DiscoTables /\ DiscoCalls /\ DiscoTicker /\ DiscoEpochs
      /\ None \notin Sess /\ None \notin Peer /\ None \notin Caller
      /\ i \in DiscoIds /\ table \in [DiscoIds -> Sess \cup {None}]
      /\ Disco!Registered \subseteq Sess
  BY DiscoConstants, DiscoRegistered DEF DiscoHeld, DiscoTypes
<1>2. /\ call[c] = Disco!Idle /\ call[c].at = "-"
      /\ UNCHANGED <<instant, closed, epoch, byPeer, peer, tickerMu, ticker, tickerStop, refreshNow,
                     ticked>>
  BY DEF Disco!RemoveDiscoSession, Disco!Begin, Disco!Idle, Disco!peerVars, Disco!tickVars
<1>3. CASE table[i] # None
  <2>1. PICK x \in Sess : x = table[i]
    BY <1>1, <1>3
  <2> DEFINE k == [op |-> "remove", s |-> x, at |-> "peer", p |-> None]
  <2>2. /\ table' = [table EXCEPT ![i] = None] /\ call' = [call EXCEPT ![c] = k]
        /\ Disco!dropTagsLocked(x)
    BY <1>3, <2>1 DEF Disco!RemoveDiscoSession, Disco!Goto
  <2>3. /\ k \in DiscoCallTypes /\ k.at = "peer" /\ k.op = "remove" /\ k.s = x /\ k # Disco!Idle
    BY DEF DiscoCallTypes, DiscoPlaces, Disco!Idle
  <2> HIDE DEF k
  <2>4. x \in Disco!Registered /\ IdOf[x] = i
    BY <1>1, <1>3, <2>1, DiscoRegistered DEF DiscoTypes
  <2>5. /\ table' \in [DiscoIds -> Sess \cup {None}] /\ table'[i] = None
        /\ \A y \in DiscoIds : y # i => table'[y] = table[y]
    BY <1>1, <2>2
  <2>6. Disco!Registered' = Disco!Registered \ {x}
    <3>1. \A y \in Sess : IdOf[y] \in DiscoIds
      BY DEF DiscoIds
    <3>2. ASSUME NEW y \in Sess PROVE table'[IdOf[y]] = y <=> table[IdOf[y]] = y /\ y # x
      BY <1>1, <2>1, <2>4, <2>5, <3>1
    <3> QED
      BY <3>2 DEF Disco!Registered
  <2>7. tags \in [Sess -> SUBSET DiscoTag] /\ byTag = Disco!TableOf(Disco!Registered, tags)
    BY <1>1 DEF DiscoTables
  <2>8. /\ tags' = [tags EXCEPT ![x] = {}] /\ byTag' = DiscoTableLess(byTag, x, tags[x])
    BY <2>2 DEF Disco!dropTagsLocked, DiscoTableLess
  <2>9. byTag' = Disco!TableOf(Disco!Registered', tags')
    <3>1. PICK R : R = Disco!Registered
      OBVIOUS
    <3>2. R \subseteq Sess /\ x \in R
      BY <1>1, <2>4, <3>1
    <3>3. Disco!TableOf(R \ {x}, [tags EXCEPT ![x] = {}])
            = DiscoTableLess(Disco!TableOf(R, tags), x, tags[x])
      BY <2>7, <3>2, TableDrops
    <3> QED
      BY <2>6, <2>7, <2>8, <3>1, <3>3
  <2>10. /\ tags' \in [Sess -> SUBSET DiscoTag]
         /\ \A y \in Disco!Registered' : tags'[y] = DiscoTagsOf(y, epoch')
    BY <1>1, <1>2, <2>6, <2>7, <2>8 DEF DiscoTables
  <2>11. DiscoPeers(Disco!Registered)'
    BY <1>1, <1>2, <2>6 DEF DiscoTables, DiscoPeers
  <2>12. DiscoTables'
    BY <2>9, <2>10, <2>11 DEF DiscoTables, DiscoTagsOf, Disco!Tag
  <2>13. peer[x] \in Peer
    BY <1>1, <2>4 DEF DiscoTables, DiscoPeers
  <2>14. DiscoCall(k, peer', Disco!Registered')
    BY <1>2, <2>3, <2>6, <2>13 DEF DiscoCall
  <2>15. \A y \in Sess : peer[y] \in Peer =>
           peer'[y] \in Peer /\ (y \notin Disco!Registered => y \notin Disco!Registered')
    BY <1>2, <2>6
  <2>16. call' \in [Caller -> DiscoCallTypes] /\ DiscoCalls' /\ DiscoMoved(c, k)
    BY <1>1, <2>2, <2>3, <2>14, <2>15, CallMoves DEF DiscoMoved
  <2>17. DiscoTypes'
    BY <1>1, <1>2, <2>5, <2>16 DEF DiscoTypes, DiscoIds
  <2>18. DiscoTicker'
    <3>1. closed' => Disco!Registered' = {}
      BY <1>1, <1>2, <2>6 DEF DiscoTicker
    <3> QED
      BY <1>1, <1>2, <2>3, <2>16, <3>1, TickerWaits DEF DiscoWillSync
  <2>19. DiscoEpochs'
    BY <1>1, <1>2, <2>3, <2>6, <2>16, EpochsStay
  <2> QED
    BY <2>12, <2>16, <2>17, <2>18, <2>19 DEF DiscoHeld
<1>4. CASE table[i] = None
  <2> DEFINE k == [op |-> "remove", s |-> None, at |-> "sync", p |-> None]
  <2>1. call' = [call EXCEPT ![c] = k] /\ UNCHANGED <<table, byTag, tags>>
    BY <1>4 DEF Disco!RemoveDiscoSession, Disco!Goto
  <2>2. /\ k \in DiscoCallTypes /\ k.at = "sync" /\ k.op = "remove" /\ k # Disco!Idle
    BY DEF DiscoCallTypes, DiscoPlaces, Disco!Idle
  <2> HIDE DEF k
  <2> QED
    BY <1>2, <2>1, <2>2, DiscoQueues
<1> QED
  BY <1>3, <1>4

(* A call that will not look at the table leaves the ticker alone.         *)
LEMMA TickerKeeps ==
  ASSUME DiscoTicker, NEW c \in Caller, NEW k, DiscoMoved(c, k),
         ~DiscoWillSync(k), ~DiscoWillSync(call[c]),
         k.at \in {"-", "peer"}, call[c].at \in {"-", "peer"},
         Disco!Registered' = Disco!Registered, UNCHANGED <<closed, tickerMu, ticker, tickerStop>>
  PROVE  DiscoTicker'
<1>1. \A d \in Caller : call'[d].at \in {"start", "stop", "wait"} <=> tickerMu' = d
  BY DEF DiscoTicker, DiscoMoved
<1>2. tickerStop' => tickerMu' \in Caller /\ call'[tickerMu'].at = "wait"
  BY DEF DiscoTicker, DiscoMoved
<1>3. (\A d \in Caller : ~DiscoWillSync(call'[d])) => \A d \in Caller : ~DiscoWillSync(call[d])
  BY DEF DiscoMoved
<1>4. Disco!Live' = Disco!Live
  BY DEF Disco!Live
<1>5. tickerMu \in Caller => call'[tickerMu] = call[tickerMu]
  BY DEF DiscoTicker, DiscoMoved
<1> QED
  BY <1>1, <1>2, <1>3, <1>4, <1>5 DEF DiscoTicker, DiscoWillSync

(* RemoveDiscoSession: the peers.                                          *)
LEMMA DiscoRemovesPeer ==
  ASSUME DiscoHeld, NEW c \in Caller, Disco!RemovePeer(c)
  PROVE  DiscoHeld'
<1>1. /\ DiscoTypes /\ DiscoTables /\ DiscoCalls /\ DiscoTicker /\ DiscoEpochs
      /\ None \notin Sess /\ None \notin Peer /\ None \notin Caller
      /\ Disco!Registered \subseteq Sess
  BY DiscoConstants, DiscoRegistered DEF DiscoHeld, DiscoTypes
<1>2. /\ call[c].op = "remove" /\ call[c].at = "peer" /\ byPeer' = Disco!dropPeerLocked(call[c].s)
      /\ UNCHANGED <<instant, table, closed, byTag, epoch, tags, peer, tickerMu, ticker, tickerStop,
                     refreshNow, ticked>>
  BY DEF Disco!RemovePeer, Disco!At, Disco!tableVars, Disco!tickVars
<1>3. PICK x \in Sess : x = call[c].s /\ peer[x] \in Peer /\ x \notin Disco!Registered
  BY <1>1, <1>2 DEF DiscoCalls, DiscoCall
<1> DEFINE k == [op |-> "remove", s |-> x, at |-> "sync", p |-> None]
<1>4. call' = [call EXCEPT ![c] = k] /\ byPeer' = [byPeer EXCEPT ![peer[x]] = byPeer[peer[x]] \ {x}]
  BY <1>2, <1>3 DEF Disco!RemovePeer, Disco!Goto, Disco!dropPeerLocked
<1>5. /\ k \in DiscoCallTypes /\ k.at = "sync" /\ k.op = "remove" /\ k # Disco!Idle
  BY DEF DiscoCallTypes, DiscoPlaces, Disco!Idle
<1> HIDE DEF k
<1>6. Disco!Registered' = Disco!Registered
  BY <1>2 DEF Disco!Registered
<1>7. /\ byPeer' \in [Peer -> SUBSET Sess]
      /\ \A y \in Sess, q \in Peer : y \in byPeer'[q] => y \in byPeer[q]
      /\ \A y \in Sess, q \in Peer : y # x => (y \in byPeer'[q] <=> y \in byPeer[q])
  BY <1>1, <1>3, <1>4 DEF DiscoTypes
<1>8. DiscoPeers(Disco!Registered)'
  <2>1. DiscoPeers(Disco!Registered)
    BY <1>1 DEF DiscoTables
  <2>2. \A y \in Disco!Registered : y # x
    BY <1>3
  <2> QED
    BY <1>1, <1>2, <1>6, <1>7, <2>1, <2>2 DEF DiscoPeers
<1>9. DiscoTables'
  BY <1>1, <1>2, <1>6, <1>8 DEF DiscoTables, DiscoTagsOf, Disco!Tag, Disco!TableOf
<1>10. DiscoCall(k, peer', Disco!Registered')
  BY <1>5 DEF DiscoCall
<1>11. \A y \in Sess : peer[y] \in Peer =>
         peer'[y] \in Peer /\ (y \notin Disco!Registered => y \notin Disco!Registered')
  BY <1>2, <1>6
<1>12. call' \in [Caller -> DiscoCallTypes] /\ DiscoCalls' /\ DiscoMoved(c, k)
  BY <1>1, <1>4, <1>5, <1>10, <1>11, CallMoves DEF DiscoMoved
<1>13. DiscoTypes'
  BY <1>1, <1>2, <1>7, <1>12 DEF DiscoTypes
<1>14. DiscoTicker'
  <2>1. closed' => Disco!Registered' = {}
    BY <1>1, <1>2, <1>6 DEF DiscoTicker
  <2> QED
    BY <1>1, <1>2, <1>5, <1>12, <2>1, TickerWaits DEF DiscoWillSync
<1>15. DiscoEpochs'
  BY <1>1, <1>2, <1>5, <1>6, <1>12, EpochsStay
<1> QED
  BY <1>9, <1>12, <1>13, <1>14, <1>15 DEF DiscoHeld

(* SetDiscoSessionPeer: the session is looked up.                          *)
LEMMA DiscoLooksUp ==
  ASSUME DiscoHeld, NEW c \in Caller, NEW i \in DOMAIN table, NEW p \in Peer,
         Disco!SetDiscoSessionPeer(c, i, p)
  PROVE  DiscoHeld'
<1>1. /\ DiscoTypes /\ DiscoTables /\ DiscoCalls /\ DiscoTicker /\ DiscoEpochs
      /\ None \notin Sess /\ None \notin Peer /\ None \notin Caller
      /\ i \in DiscoIds /\ table \in [DiscoIds -> Sess \cup {None}]
  BY DiscoConstants DEF DiscoHeld, DiscoTypes
<1>2. /\ call[c] = Disco!Idle /\ call[c].at = "-" /\ call[c].op = "idle" /\ table[i] # None
      /\ UNCHANGED <<instant, table, closed, byTag, epoch, tags, byPeer, peer, tickerMu, ticker,
                     tickerStop, refreshNow, ticked>>
  BY DEF Disco!SetDiscoSessionPeer, Disco!Begin, Disco!Idle, Disco!tableVars, Disco!peerVars,
         Disco!tickVars
<1>3. PICK x \in Disco!Registered : x = table[i]
  BY <1>1, <1>2, DiscoRegistered
<1>4. x \in Sess /\ peer[x] \in Peer
  BY <1>1, <1>3, DiscoRegistered DEF DiscoTables, DiscoPeers
<1> DEFINE k == [op |-> "set", s |-> x, at |-> "peer", p |-> p]
<1>5. call' = [call EXCEPT ![c] = k]
  BY <1>3 DEF Disco!SetDiscoSessionPeer, Disco!Goto
<1>6. /\ k \in DiscoCallTypes /\ k.at = "peer" /\ k.op = "set" /\ k.s = x /\ k.p = p
      /\ k # Disco!Idle
  BY <1>4 DEF DiscoCallTypes, DiscoPlaces, Disco!Idle
<1> HIDE DEF k
<1>7. Disco!Registered' = Disco!Registered
  BY <1>2 DEF Disco!Registered
<1>8. DiscoCall(k, peer', Disco!Registered')
  BY <1>2, <1>4, <1>6 DEF DiscoCall
<1>9. \A y \in Sess : peer[y] \in Peer =>
        peer'[y] \in Peer /\ (y \notin Disco!Registered => y \notin Disco!Registered')
  BY <1>2, <1>7
<1>10. call' \in [Caller -> DiscoCallTypes] /\ DiscoCalls' /\ DiscoMoved(c, k)
  BY <1>1, <1>5, <1>6, <1>8, <1>9, CallMoves DEF DiscoMoved
<1>11. DiscoTypes'
  BY <1>1, <1>2, <1>10 DEF DiscoTypes
<1>12. DiscoTables'
  BY <1>1, <1>2, <1>7 DEF DiscoTables, DiscoPeers, DiscoTagsOf, Disco!Tag, Disco!TableOf
<1>13. DiscoTicker'
  BY <1>1, <1>2, <1>6, <1>7, <1>10, TickerKeeps DEF DiscoWillSync
<1>14. DiscoEpochs'
  BY <1>1, <1>2, <1>6, <1>7, <1>10, EpochsStay
<1> QED
  BY <1>10, <1>11, <1>12, <1>13, <1>14 DEF DiscoHeld

(* SetDiscoSessionPeer: its address is changed, registered or not.         *)
LEMMA DiscoSetsPeer ==
  ASSUME DiscoHeld, NEW c \in Caller, Disco!SetPeer(c)
  PROVE  DiscoHeld'
<1>1. /\ DiscoTypes /\ DiscoTables /\ DiscoCalls /\ DiscoTicker /\ DiscoEpochs
      /\ None \notin Sess /\ None \notin Peer /\ None \notin Caller
  BY DiscoConstants DEF DiscoHeld, DiscoTypes
<1>2. /\ call[c].op = "set" /\ call[c].at = "peer" /\ call' = [call EXCEPT ![c] = Disco!Idle]
      /\ UNCHANGED <<instant, table, closed, byTag, epoch, tags, tickerMu, ticker, tickerStop,
                     refreshNow, ticked>>
  BY DEF Disco!SetPeer, Disco!At, Disco!Return, Disco!tableVars, Disco!tickVars
<1>3. PICK x \in Sess, p \in Peer : x = call[c].s /\ p = call[c].p /\ peer[x] \in Peer
  BY <1>1, <1>2 DEF DiscoCalls, DiscoCall
<1>4. PICK k : k = Disco!Idle
  OBVIOUS
<1>5. k \in DiscoCallTypes /\ k.at = "-" /\ k.op = "idle"
  BY <1>4 DEF DiscoCallTypes, DiscoPlaces, Disco!Idle
<1>6. Disco!Registered' = Disco!Registered /\ Disco!Registered \subseteq Sess
  BY <1>2 DEF Disco!Registered
<1>7. DiscoMoves(x, p)
  BY <1>3 DEF Disco!SetPeer, DiscoMoves
<1>8. /\ peer' \in [Sess -> Peer \cup {None}] /\ byPeer' \in [Peer -> SUBSET Sess]
      /\ DiscoPeers(Disco!Registered)'
  <2>1. PICK R : R = Disco!Registered
    OBVIOUS
  <2>2. R \subseteq Disco!Registered \cup (IF peer[x] = p THEN {} ELSE {x})
    BY <2>1
  <2>3. /\ peer' \in [Sess -> Peer \cup {None}] /\ byPeer' \in [Peer -> SUBSET Sess]
        /\ DiscoPeers(R)'
    BY <1>1, <1>7, <2>2, PeersFollow
  <2> QED
    BY <1>6, <2>1, <2>3 DEF DiscoPeers
<1>9. DiscoTables'
  BY <1>1, <1>2, <1>6, <1>8 DEF DiscoTables, DiscoTagsOf, Disco!Tag, Disco!TableOf
<1>10. DiscoCall(k, peer', Disco!Registered')
  BY <1>4, <1>5 DEF DiscoCall
<1>11. \A y \in Sess : peer[y] \in Peer =>
         peer'[y] \in Peer /\ (y \notin Disco!Registered => y \notin Disco!Registered')
  BY <1>1, <1>6, <1>7 DEF DiscoMoves, DiscoTypes
<1>12. call' \in [Caller -> DiscoCallTypes] /\ DiscoCalls' /\ DiscoMoved(c, k)
  BY <1>1, <1>2, <1>4, <1>5, <1>10, <1>11, CallMoves DEF DiscoMoved
<1>13. DiscoTypes'
  BY <1>1, <1>2, <1>8, <1>12 DEF DiscoTypes
<1>14. DiscoTicker'
  BY <1>1, <1>2, <1>5, <1>6, <1>12, TickerKeeps DEF DiscoWillSync
<1>15. DiscoEpochs'
  BY <1>1, <1>2, <1>5, <1>6, <1>12, EpochsStay
<1> QED
  BY <1>9, <1>12, <1>13, <1>14, <1>15 DEF DiscoHeld

(* Close.                                                                  *)
LEMMA DiscoCloses ==
  ASSUME DiscoHeld, NEW c \in Caller, Disco!Close(c)
  PROVE  DiscoHeld'
<1>1. /\ DiscoTypes /\ DiscoTables /\ DiscoCalls /\ DiscoTicker /\ DiscoEpochs
      /\ None \notin Sess /\ None \notin Peer /\ None \notin Caller
  BY DiscoConstants DEF DiscoHeld, DiscoTypes
<1> DEFINE k == [op |-> "close", s |-> None, at |-> "sync", p |-> None]
<1>2. /\ call[c] = Disco!Idle /\ call[c].at = "-" /\ closed' = TRUE
      /\ table' = [i \in DOMAIN table |-> None] /\ byTag' = [t \in {} |-> {}]
      /\ byPeer' = [p \in Peer |-> {}] /\ call' = [call EXCEPT ![c] = k]
      /\ UNCHANGED <<instant, epoch, tags, peer, tickerMu, ticker, tickerStop, refreshNow, ticked>>
  BY DEF Disco!Close, Disco!Begin, Disco!Goto, Disco!Idle, Disco!tickVars
<1>3. /\ k \in DiscoCallTypes /\ k.at = "sync" /\ k.op = "close" /\ k # Disco!Idle
  BY DEF DiscoCallTypes, DiscoPlaces, Disco!Idle
<1> HIDE DEF k
<1>4. table' \in [DiscoIds -> Sess \cup {None}] /\ \A y \in DiscoIds : table'[y] = None
  BY <1>1, <1>2 DEF DiscoTypes
<1>5. Disco!Registered' = {}
  BY <1>1, <1>4 DEF Disco!Registered, DiscoIds
<1>6. byTag' = Disco!TableOf({}, tags')
  BY <1>2 DEF Disco!TableOf
<1>7. DiscoTables'
  BY <1>1, <1>2, <1>5, <1>6 DEF DiscoTables, DiscoPeers
<1>8. DiscoCall(k, peer', Disco!Registered')
  BY <1>3 DEF DiscoCall
<1>9. \A y \in Sess : peer[y] \in Peer =>
        peer'[y] \in Peer /\ (y \notin Disco!Registered => y \notin Disco!Registered')
  BY <1>2, <1>5
<1>10. call' \in [Caller -> DiscoCallTypes] /\ DiscoCalls' /\ DiscoMoved(c, k)
  BY <1>1, <1>2, <1>3, <1>8, <1>9, CallMoves DEF DiscoMoved
<1>11. DiscoTypes'
  BY <1>1, <1>2, <1>4, <1>10 DEF DiscoTypes, DiscoIds
<1>12. DiscoTicker'
  BY <1>1, <1>2, <1>3, <1>5, <1>10, TickerWaits DEF DiscoWillSync
<1>13. DiscoEpochs'
  BY <1>1, <1>2, <1>3, <1>5, <1>10, EpochsStay
<1> QED
  BY <1>7, <1>10, <1>11, <1>12, <1>13 DEF DiscoHeld

(* A step of a call under syncEpochTicker: the table is read, at most.     *)
LEMMA SyncMoves ==
  ASSUME DiscoHeld, NEW c \in Caller, NEW k \in DiscoCallTypes, call' = [call EXCEPT ![c] = k],
         k.at # "peer", k.at = "-" <=> k = Disco!Idle,
         UNCHANGED <<instant, table, closed, byTag, epoch, tags, byPeer, peer, refreshNow>>,
         ticker' \in {"off", "select", "refresh"}, tickerStop' \in BOOLEAN, ticked' \in BOOLEAN,
         tickerMu' \in Caller \cup {None}
  PROVE  /\ DiscoTypes' /\ DiscoTables' /\ DiscoCalls' /\ DiscoMoved(c, k)
         /\ Disco!Registered' = Disco!Registered /\ Disco!Live' = Disco!Live
<1>1. Disco!Registered' = Disco!Registered /\ Disco!Live' = Disco!Live
  BY DEF Disco!Registered, Disco!Live
<1>2. DiscoTypes /\ DiscoTables /\ DiscoCalls
  BY DEF DiscoHeld
<1>3. DiscoCall(k, peer', Disco!Registered')
  BY DEF DiscoCall
<1>4. \A x \in Sess : peer[x] \in Peer =>
        peer'[x] \in Peer /\ (x \notin Disco!Registered => x \notin Disco!Registered')
  BY <1>1
<1>5. call' \in [Caller -> DiscoCallTypes] /\ DiscoCalls' /\ DiscoMoved(c, k)
  BY <1>2, <1>3, <1>4, CallMoves DEF DiscoMoved
<1>6. DiscoTypes'
  BY <1>2, <1>5 DEF DiscoTypes
<1>7. DiscoTables'
  BY <1>1, <1>2 DEF DiscoTables, DiscoPeers, DiscoTagsOf, Disco!Tag, Disco!TableOf
<1> QED
  BY <1>1, <1>5, <1>6, <1>7

(* tickerMu is taken, and the table looked at.                             *)
LEMMA DiscoSyncs ==
  ASSUME DiscoHeld, NEW c \in Caller, Disco!SyncLock(c)
  PROVE  DiscoHeld'
<1>1. /\ DiscoTypes /\ DiscoTicker /\ DiscoEpochs /\ None \notin Caller
      /\ call[c] \in DiscoCallTypes
  BY DiscoConstants DEF DiscoHeld, DiscoTypes
<1>2. PICK l \in {"start", "stop"} : l = IF Disco!Live THEN "start" ELSE "stop"
  OBVIOUS
<1> DEFINE k == [op |-> call[c].op, s |-> call[c].s, at |-> l, p |-> None]
<1>3. /\ call[c].at = "sync" /\ tickerMu = None /\ tickerMu' = c /\ call' = [call EXCEPT ![c] = k]
      /\ UNCHANGED <<instant, table, closed, byTag, epoch, tags, byPeer, peer, ticker, tickerStop,
                     refreshNow, ticked>>
  BY <1>2 DEF Disco!SyncLock, Disco!At, Disco!Goto, Disco!tableVars, Disco!peerVars
<1>4. k \in DiscoCallTypes /\ k.at = l /\ k # Disco!Idle
  BY <1>1 DEF DiscoCallTypes, DiscoPlaces, Disco!Idle
<1> HIDE DEF k
<1>5. /\ DiscoTypes' /\ DiscoTables' /\ DiscoCalls' /\ DiscoMoved(c, k)
      /\ Disco!Registered' = Disco!Registered /\ Disco!Live' = Disco!Live
  BY <1>1, <1>3, <1>4, SyncMoves DEF DiscoTypes
<1>6. l = "start" <=> Disco!Live
  BY <1>2
<1>7. ~tickerStop
  BY <1>1, <1>3 DEF DiscoTicker
<1>8. DiscoTicker'
  <2>1. closed' => Disco!Registered' = {}
    BY <1>1, <1>3, <1>5 DEF DiscoTicker
  <2>2. \A d \in Caller : call'[d].at \in {"start", "stop", "wait"} <=> tickerMu' = d
    BY <1>1, <1>3, <1>4, <1>5 DEF DiscoTicker, DiscoMoved
  <2>3. tickerMu' # None /\ call'[tickerMu'].at = l
    BY <1>1, <1>3, <1>4, <1>5 DEF DiscoMoved
  <2> QED
    BY <1>3, <1>5, <1>6, <1>7, <2>1, <2>2, <2>3 DEF DiscoTicker, DiscoWillSync
<1>9. DiscoEpochs'
  <2>1. DiscoStale' => DiscoStale
    BY <1>3, <1>5 DEF DiscoStale, Disco!discoEpochOf
  <2>2. DiscoStale => l = "start"
    BY <1>1, <1>6 DEF DiscoStale, DiscoTicker, Disco!Live
  <2>3. ASSUME NEW d \in Caller, DiscoStale' PROVE call'[d].at \notin {"stop", "wait"}
    BY <1>1, <1>4, <1>5, <2>1, <2>2, <2>3 DEF DiscoEpochs, DiscoMoved
  <2> QED
    BY <1>1, <1>3, <2>1, <2>3 DEF DiscoEpochs, Disco!discoEpochOf
<1> QED
  BY <1>5, <1>8, <1>9 DEF DiscoHeld

(* tickerMu is let go, with the ticker as the table asks.                  *)
LEMMA SyncEnds ==
  ASSUME DiscoHeld, NEW c \in Caller, tickerMu = c, tickerMu' = None, ~tickerStop',
         call[c].at \in {"start", "stop", "wait"}, call' = [call EXCEPT ![c] = Disco!Idle],
         UNCHANGED <<instant, table, closed, byTag, epoch, tags, byPeer, peer, refreshNow>>,
         ticker' \in {"off", "select", "refresh"}, ticked' \in BOOLEAN, tickerStop' \in BOOLEAN,
         ticker' # "off" <=> call[c].at = "start",
         ticker # "off" /\ ~tickerStop => UNCHANGED <<ticker, ticked>>,
         ticker' = "refresh" => ticker = "refresh" /\ ticked' = ticked
  PROVE  DiscoHeld'
<1>1. DiscoTypes /\ DiscoTicker /\ DiscoEpochs /\ None \notin Caller
  BY DiscoConstants DEF DiscoHeld
<1>2. PICK k \in DiscoCallTypes : k = Disco!Idle /\ k.at = "-" /\ k.op = "idle"
  <2>1. Disco!Idle \in DiscoCallTypes /\ Disco!Idle.at = "-" /\ Disco!Idle.op = "idle"
    BY DEF DiscoCallTypes, DiscoPlaces, Disco!Idle
  <2> QED
    BY <2>1
<1>3. /\ DiscoTypes' /\ DiscoTables' /\ DiscoCalls' /\ DiscoMoved(c, k)
      /\ Disco!Registered' = Disco!Registered /\ Disco!Live' = Disco!Live
  BY <1>2, SyncMoves
<1>4. DiscoTicker'
  <2>1. closed' => Disco!Registered' = {}
    BY <1>1, <1>3 DEF DiscoTicker
  <2>2. \A d \in Caller : call'[d].at \in {"start", "stop", "wait"} <=> tickerMu' = d
    BY <1>1, <1>2, <1>3 DEF DiscoTicker, DiscoMoved
  <2>3. (\A d \in Caller : ~DiscoWillSync(call'[d])) => \A d \in Caller : ~DiscoWillSync(call[d])
    BY <1>3 DEF DiscoMoved, DiscoWillSync
  <2>4. (\A d \in Caller : ~DiscoWillSync(call[d])) => (call[c].at = "start" <=> Disco!Live)
    BY <1>1 DEF DiscoTicker
  <2> QED
    BY <1>1, <1>3, <2>1, <2>2, <2>3, <2>4 DEF DiscoTicker, DiscoWillSync
<1>5. DiscoEpochs'
  <2>1. DiscoStale' => DiscoStale
    BY <1>3 DEF DiscoStale, Disco!discoEpochOf
  <2>2. ASSUME NEW d \in Caller, DiscoStale' PROVE call'[d].at \notin {"stop", "wait"}
    BY <1>1, <1>2, <1>3, <2>1, <2>2 DEF DiscoEpochs, DiscoMoved
  <2> QED
    BY <1>1, <2>1, <2>2 DEF DiscoEpochs, Disco!discoEpochOf
<1> QED
  BY <1>3, <1>4, <1>5 DEF DiscoHeld

(* startTickerLocked, stopTickerLocked and the wait for the goroutine.     *)
LEMMA DiscoTickers ==
  ASSUME DiscoHeld, NEW c \in Caller,
         Disco!startTickerLocked(c) \/ Disco!stopTickerLocked(c) \/ Disco!StopDone(c)
  PROVE  DiscoHeld'
<1>1. /\ DiscoTypes /\ DiscoTicker /\ DiscoEpochs /\ None \notin Caller
      /\ call[c] \in DiscoCallTypes
  BY DiscoConstants DEF DiscoHeld, DiscoTypes
<1>2. CASE Disco!startTickerLocked(c)
  <2>1. /\ call[c].at = "start" /\ tickerMu = c /\ tickerMu' = None
        /\ call' = [call EXCEPT ![c] = Disco!Idle]
        /\ ticker' = (IF ticker = "off" THEN "select" ELSE ticker)
        /\ ticked' = (IF ticker = "off" THEN TRUE ELSE ticked)
        /\ UNCHANGED <<instant, table, closed, byTag, epoch, tags, byPeer, peer, tickerStop,
                       refreshNow>>
    BY <1>2 DEF Disco!startTickerLocked, Disco!At, Disco!Return, Disco!tableVars, Disco!peerVars
  <2>2. ~tickerStop
    BY <1>1, <2>1 DEF DiscoTicker
  <2>3. /\ ticker' \in {"off", "select", "refresh"} /\ ticked' \in BOOLEAN
        /\ tickerStop' \in BOOLEAN /\ ticker' # "off" /\ ~tickerStop'
        /\ ticker # "off" /\ ~tickerStop => UNCHANGED <<ticker, ticked>>
        /\ ticker' = "refresh" => ticker = "refresh" /\ ticked' = ticked
    BY <1>1, <2>1, <2>2 DEF DiscoTypes
  <2> QED
    BY <2>1, <2>3, SyncEnds
<1>3. CASE Disco!stopTickerLocked(c) /\ ticker = "off"
  <2>1. /\ call[c].at = "stop" /\ tickerMu = c /\ tickerMu' = None
        /\ call' = [call EXCEPT ![c] = Disco!Idle]
        /\ UNCHANGED <<instant, table, closed, byTag, epoch, tags, byPeer, peer, ticker, tickerStop,
                       refreshNow, ticked>>
    BY <1>3 DEF Disco!stopTickerLocked, Disco!At, Disco!Return, Disco!tableVars, Disco!peerVars
  <2>2. ~tickerStop
    BY <1>1, <2>1 DEF DiscoTicker
  <2>3. /\ ticker' \in {"off", "select", "refresh"} /\ ticked' \in BOOLEAN
        /\ tickerStop' \in BOOLEAN /\ ticker' = "off" /\ ~tickerStop'
    BY <1>1, <1>3, <2>1, <2>2 DEF DiscoTypes
  <2> QED
    BY <1>3, <2>1, <2>3, SyncEnds
<1>4. CASE Disco!stopTickerLocked(c) /\ ticker # "off"
  <2> DEFINE k == [op |-> call[c].op, s |-> call[c].s, at |-> "wait", p |-> None]
  <2>1. /\ call[c].at = "stop" /\ tickerMu = c /\ tickerStop' = TRUE
        /\ call' = [call EXCEPT ![c] = k]
        /\ UNCHANGED <<instant, table, closed, byTag, epoch, tags, byPeer, peer, tickerMu, ticker,
                       refreshNow, ticked>>
    BY <1>4 DEF Disco!stopTickerLocked, Disco!At, Disco!Goto, Disco!tableVars, Disco!peerVars
  <2>2. k \in DiscoCallTypes /\ k.at = "wait" /\ k # Disco!Idle
    BY <1>1 DEF DiscoCallTypes, DiscoPlaces, Disco!Idle
  <2> HIDE DEF k
  <2>3. /\ DiscoTypes' /\ DiscoTables' /\ DiscoCalls' /\ DiscoMoved(c, k)
        /\ Disco!Registered' = Disco!Registered /\ Disco!Live' = Disco!Live
    BY <1>1, <2>1, <2>2, SyncMoves DEF DiscoTypes
  <2>4. DiscoTicker'
    <3>1. closed' => Disco!Registered' = {}
      BY <1>1, <2>1, <2>3 DEF DiscoTicker
    <3>2. \A d \in Caller : call'[d].at \in {"start", "stop", "wait"} <=> tickerMu' = d
      BY <1>1, <2>1, <2>2, <2>3 DEF DiscoTicker, DiscoMoved
    <3>3. tickerMu' = c /\ call'[tickerMu'].at = "wait"
      BY <2>1, <2>2, <2>3 DEF DiscoMoved
    <3>4. (\A d \in Caller : ~DiscoWillSync(call'[d])) => \A d \in Caller : ~DiscoWillSync(call[d])
      BY <2>1, <2>3 DEF DiscoMoved, DiscoWillSync
    <3>5. (\A d \in Caller : ~DiscoWillSync(call[d])) => ~Disco!Live
      BY <1>1, <2>1 DEF DiscoTicker
    <3> QED
      BY <1>1, <2>3, <3>1, <3>2, <3>3, <3>4, <3>5 DEF DiscoTicker, DiscoWillSync
  <2>5. DiscoEpochs'
    <3>1. ~DiscoStale
      BY <1>1, <2>1 DEF DiscoEpochs
    <3>2. ~DiscoStale'
      BY <2>1, <2>3, <3>1 DEF DiscoStale, Disco!discoEpochOf
    <3> QED
      BY <1>1, <2>1, <3>2 DEF DiscoEpochs
  <2> QED
    BY <2>3, <2>4, <2>5 DEF DiscoHeld
<1>5. CASE Disco!StopDone(c)
  <2>1. /\ call[c].at = "wait" /\ ticker = "off" /\ tickerMu' = None /\ tickerStop' = FALSE
        /\ call' = [call EXCEPT ![c] = Disco!Idle]
        /\ UNCHANGED <<instant, table, closed, byTag, epoch, tags, byPeer, peer, ticker, refreshNow,
                       ticked>>
    BY <1>5 DEF Disco!StopDone, Disco!At, Disco!Return, Disco!tableVars, Disco!peerVars
  <2>2. tickerMu = c
    BY <1>1, <2>1 DEF DiscoTicker
  <2>3. /\ ticker' \in {"off", "select", "refresh"} /\ ticked' \in BOOLEAN
        /\ tickerStop' \in BOOLEAN /\ ticker' = "off" /\ ~tickerStop'
    BY <1>1, <2>1 DEF DiscoTypes
  <2> QED
    BY <2>1, <2>2, <2>3, SyncEnds
<1> QED
  BY <1>2, <1>3, <1>4, <1>5

(* The steps of the ticker goroutine, and the clock's.                     *)
LEMMA TickerSteps ==
  ASSUME DiscoHeld, Disco!TickerStep \/ Disco!Tick
  PROVE  DiscoHeld'
<1>1. /\ DiscoTypes /\ DiscoTables /\ DiscoCalls /\ DiscoTicker /\ DiscoEpochs
      /\ None \notin Caller
  BY DiscoConstants DEF DiscoHeld
<1>2. UNCHANGED <<table, closed, byPeer, peer, tickerMu, tickerStop, call>>
  BY DEF Disco!TickerStep, Disco!TickerExit, Disco!RefreshRead, Disco!RefreshRebuild, Disco!Tick,
         Disco!tableVars, Disco!peerVars
<1>3. Disco!Registered' = Disco!Registered /\ Disco!Live' = Disco!Live
  BY <1>2 DEF Disco!Registered, Disco!Live
<1>4. DiscoCalls'
  BY <1>1, <1>2, <1>3 DEF DiscoCalls, DiscoCall
<1>5. CASE Disco!TickerExit
  <2>1. /\ tickerStop /\ ticker' = "off"
        /\ UNCHANGED <<instant, byTag, epoch, tags, refreshNow, ticked>>
    BY <1>5 DEF Disco!TickerExit, Disco!tableVars
  <2>2. DiscoTypes'
    BY <1>1, <1>2, <2>1 DEF DiscoTypes
  <2>3. DiscoTables'
    BY <1>1, <1>2, <1>3, <2>1 DEF DiscoTables, DiscoPeers, DiscoTagsOf, Disco!Tag, Disco!TableOf
  <2>4. DiscoTicker'
    <3>1. tickerMu # None
      BY <1>1, <2>1 DEF DiscoTicker
    <3> QED
      BY <1>1, <1>2, <1>3, <3>1 DEF DiscoTicker, DiscoWillSync
  <2>5. DiscoEpochs'
    <3>1. ~DiscoStale'
      BY <1>1, <1>3, <2>1 DEF DiscoEpochs, DiscoStale, Disco!discoEpochOf
    <3> QED
      BY <2>1, <3>1 DEF DiscoEpochs
  <2> QED
    BY <1>4, <2>2, <2>3, <2>4, <2>5 DEF DiscoHeld
<1>6. CASE Disco!RefreshRead
  <2>1. /\ ticker = "select" /\ refreshNow' = instant /\ ticked' = TRUE
        /\ ticker' = (IF Disco!discoEpochOf(instant) = epoch \/ Disco!Registered = {}
                      THEN "select" ELSE "refresh")
        /\ UNCHANGED <<instant, byTag, epoch, tags>>
    BY <1>6 DEF Disco!RefreshRead, Disco!tableVars
  <2>2. DiscoTypes'
    BY <1>1, <1>2, <2>1 DEF DiscoTypes
  <2>3. DiscoTables'
    BY <1>1, <1>2, <1>3, <2>1 DEF DiscoTables, DiscoPeers, DiscoTagsOf, Disco!Tag, Disco!TableOf
  <2>4. DiscoTicker'
    BY <1>1, <1>2, <1>3, <2>1 DEF DiscoTicker, DiscoWillSync
  <2>5. DiscoEpochs'
    <3>1. DiscoStale' => DiscoStale
      BY <1>3, <2>1 DEF DiscoStale, Disco!discoEpochOf
    <3>2. DiscoStale => ticker' = "refresh"
      BY <2>1 DEF DiscoStale
    <3> QED
      BY <1>1, <1>2, <2>1, <3>1, <3>2 DEF DiscoEpochs, Disco!discoEpochOf
  <2> QED
    BY <1>4, <2>2, <2>3, <2>4, <2>5 DEF DiscoHeld
<1>7. CASE Disco!RefreshRebuild
  <2>1. /\ ticker = "refresh" /\ ticker' = "select" /\ Disco!rebuildTagsLocked(Disco!Registered, refreshNow)
        /\ UNCHANGED <<instant, refreshNow, ticked>>
    BY <1>7 DEF Disco!RefreshRebuild
  <2>2. refreshNow = instant /\ instant \in Nat
    BY <1>1, <2>1 DEF DiscoEpochs, DiscoTypes
  <2>3. PICK n \in Nat : n = Disco!discoEpochOf(instant)
    BY <2>2, DiscoEpochNat
  <2>4. \A y \in Sess : Disco!RecvTags(y, refreshNow) = DiscoTagsOf(y, n)
                        /\ DiscoTagsOf(y, n) \in SUBSET DiscoTag
    BY <2>2, <2>3, DiscoTagsTyped DEF Disco!RecvTags, DiscoTagsOf
  <2>5. /\ tags' = [y \in Sess |-> IF y \in Disco!Registered THEN DiscoTagsOf(y, n) ELSE tags[y]]
        /\ byTag' = Disco!TableOf(Disco!Registered, tags') /\ epoch' = n
    BY <2>1, <2>2, <2>3, <2>4 DEF Disco!rebuildTagsLocked
  <2>6. Disco!Registered \subseteq Sess
    BY <1>1, DiscoRegistered
  <2>7. /\ tags' \in [Sess -> SUBSET DiscoTag]
        /\ \A y \in Disco!Registered' : tags'[y] = DiscoTagsOf(y, epoch')
    BY <1>1, <1>3, <2>4, <2>5, <2>6 DEF DiscoTables
  <2>8. DiscoPeers(Disco!Registered)'
    BY <1>1, <1>2, <1>3 DEF DiscoTables, DiscoPeers
  <2>9. DiscoTables'
    BY <1>3, <2>5, <2>7, <2>8 DEF DiscoTables, DiscoTagsOf, Disco!Tag
  <2>10. DiscoTypes'
    BY <1>1, <1>2, <2>1, <2>3, <2>5 DEF DiscoTypes
  <2>11. DiscoTicker'
    BY <1>1, <1>2, <1>3, <2>1 DEF DiscoTicker, DiscoWillSync
  <2>12. DiscoEpochs'
    <3>1. ~DiscoStale'
      BY <2>1, <2>3, <2>5 DEF DiscoStale, Disco!discoEpochOf
    <3> QED
      BY <2>1, <3>1 DEF DiscoEpochs
  <2> QED
    BY <1>4, <2>9, <2>10, <2>11, <2>12 DEF DiscoHeld
<1>8. CASE Disco!Tick
  <2>1. /\ \A c \in Caller : call[c] = Disco!Idle
        /\ ticker = "off" \/ (ticker = "select" /\ ticked)
        /\ instant' = instant + 1 /\ ticked' = FALSE
        /\ UNCHANGED <<byTag, epoch, tags, ticker, refreshNow>>
    BY <1>8 DEF Disco!Tick, Disco!tableVars
  <2>2. \A c \in Caller : call[c].at = "-" /\ ~DiscoWillSync(call[c])
    BY <2>1 DEF Disco!Idle, DiscoWillSync
  <2>3. tickerMu = None /\ ~tickerStop
    BY <1>1, <2>2 DEF DiscoTicker, DiscoTypes
  <2>4. Disco!Registered # {} => ticker = "select" /\ epoch = Disco!discoEpochOf(instant)
    <3>1. ~DiscoStale
      BY <1>1, <2>1 DEF DiscoEpochs
    <3>2. Disco!Registered # {} => Disco!Live
      BY <1>1 DEF DiscoTicker, Disco!Live
    <3> QED
      BY <1>1, <2>1, <2>2, <2>3, <3>1, <3>2 DEF DiscoTicker, DiscoStale
  <2>5. DiscoTypes'
    <3>1. instant' \in Nat
      BY <1>1, <2>1 DEF DiscoTypes
    <3>2. ticked' \in BOOLEAN
      BY <2>1
    <3> QED
      BY <1>1, <1>2, <2>1, <3>1, <3>2 DEF DiscoTypes
  <2>6. DiscoTables'
    BY <1>1, <1>2, <1>3, <2>1 DEF DiscoTables, DiscoPeers, DiscoTagsOf, Disco!Tag, Disco!TableOf
  <2>7. DiscoTicker'
    BY <1>1, <1>2, <1>3, <2>1 DEF DiscoTicker, DiscoWillSync
  <2>8. DiscoEpochs'
    <3>1. instant \in Nat /\ instant' > 0 /\ instant' - 1 = instant
      BY <1>1, <2>1 DEF DiscoTypes
    <3>2. \A c \in Caller : call'[c].at \notin {"stop", "wait"}
      BY <1>2, <2>2
    <3>3. ASSUME DiscoStale'
          PROVE  /\ epoch' = Disco!discoEpochOf(instant' - 1) /\ ticker' # "off" /\ ~tickerStop'
                 /\ ~ticked'
      BY <1>2, <1>3, <2>1, <2>3, <2>4, <3>1, <3>3 DEF DiscoStale
    <3>4. ticker' # "refresh"
      BY <2>1
    <3> QED
      BY <3>1, <3>2, <3>3, <3>4 DEF DiscoEpochs
  <2> QED
    BY <1>4, <2>5, <2>6, <2>7, <2>8 DEF DiscoHeld
<1> QED
  BY <1>5, <1>6, <1>7, <1>8 DEF Disco!TickerStep

(* The control channel starts like this ...                                *)
LEMMA DiscoStarts == Disco!Init => DiscoInv
<1> SUFFICES ASSUME Disco!Init PROVE DiscoInv
  OBVIOUS
<1>1. None \notin Sess /\ None \notin Peer /\ None \notin Caller
  BY DiscoConstants
<1>2. /\ instant = 0 /\ table = [i \in DiscoIds |-> None] /\ closed = FALSE
      /\ byTag = [t \in {} |-> {}] /\ epoch = 0 /\ tags = [s \in Sess |-> {}]
      /\ byPeer = [p \in Peer |-> {}] /\ peer = [s \in Sess |-> None]
      /\ tickerMu = None /\ ticker = "off" /\ tickerStop = FALSE
      /\ refreshNow = 0 /\ ticked = FALSE /\ call = [c \in Caller |-> Disco!Idle]
      /\ seqOut = [s \in Sess |-> 0] /\ wire = {} /\ reader = None
      /\ got = [s \in Sess |-> <<>>] /\ refused = [s \in Sess |-> {}]
      /\ window = [s \in Sess |-> [seen |-> FALSE, high |-> 0, bits |-> {}]]
  BY DEF Disco!Init, DiscoIds
<1>3. Disco!Registered = {}
  BY <1>1, <1>2 DEF Disco!Registered, DiscoIds
<1>4. Disco!Idle \in DiscoCallTypes /\ Disco!Idle.at = "-" /\ Disco!Idle.op = "idle"
  BY DEF DiscoCallTypes, DiscoPlaces, Disco!Idle
<1>5. DiscoTypes
  BY <1>2, <1>4 DEF DiscoTypes
<1>6. DiscoTables
  <2>1. byTag = Disco!TableOf({}, tags)
    BY <1>2 DEF Disco!TableOf
  <2> QED
    BY <1>2, <1>3, <2>1 DEF DiscoTables, DiscoPeers
<1>7. DiscoCalls
  BY <1>2, <1>4 DEF DiscoCalls, DiscoCall
<1>8. DiscoTicker
  BY <1>1, <1>2, <1>3, <1>4 DEF DiscoTicker, Disco!Live
<1>9. DiscoEpochs
  BY <1>2, <1>3 DEF DiscoEpochs, DiscoStale
<1>10. DiscoWire
  BY <1>2 DEF DiscoWire
<1>11. DiscoWindows
  <2>1. PICK w \in DiscoWindow : w = [seen |-> FALSE, high |-> 0, bits |-> {}]
                                 /\ w.seen = FALSE /\ w.bits = {}
    <3> DEFINE v == [seen |-> FALSE, high |-> 0, bits |-> {}]
    <3>1. v \in DiscoWindow /\ v.seen = FALSE /\ v.bits = {}
      BY DEF DiscoWindow
    <3> HIDE DEF v
    <3> QED
      BY <3>1 DEF v
  <2>2. PICK g \in Seq(Nat) : g = <<>> /\ DOMAIN g = {}
    <3>1. <<>> \in Seq(Nat) /\ Len(<<>>) = 0 /\ DOMAIN <<>> = 1..0
      OBVIOUS
    <3>2. 1..0 = {}
      OBVIOUS
    <3> QED
      BY <3>1, <3>2
  <2>3. WinAt(w, g, {})
    BY <2>1, <2>2 DEF WinAt
  <2>4. window = [s \in Sess |-> w] /\ got = [s \in Sess |-> g]
    BY <1>2, <2>1, <2>2
  <2> QED
    BY <1>2, <2>3, <2>4 DEF DiscoWindows
<1> QED
  BY <1>5, <1>6, <1>7, <1>8, <1>9, <1>10, <1>11 DEF DiscoInv, DiscoHeld

(* ... and stays so.                                                       *)
LEMMA DiscoKept == ASSUME DiscoInv, [Disco!Next]_(Disco!vars) PROVE DiscoInv'
<1>1. DiscoWire /\ DiscoWindows /\ DiscoHeld /\ DiscoTypes /\ DiscoTables
  BY DEF DiscoInv, DiscoHeld
<1>2. ASSUME UNCHANGED <<seqOut, wire, reader, window, got, refused>>
      PROVE  DiscoWire' /\ DiscoWindows'
  <2>1. DiscoWire'
    BY <1>1, <1>2 DEF DiscoWire, DiscoPacket, Disco!SendTag, Disco!discoEpochOf, Disco!Tag
  <2> QED
    BY <1>1, <1>2, <2>1 DEF DiscoWindows, WinAt
<1>3. ASSUME UNCHANGED <<instant, table, closed, byTag, epoch, tags, byPeer, peer, tickerMu, ticker,
                         tickerStop, refreshNow, ticked, call>>
      PROVE  DiscoHeld'
  BY <1>1, <1>3, DiscoSame
<1>4. CASE \E c \in Caller :
             \/ \E x \in Sess, p \in Peer : Disco!AddDiscoSession(c, x, p)
             \/ \E i \in DOMAIN table : Disco!RemoveDiscoSession(c, i)
             \/ \E i \in DOMAIN table, p \in Peer : Disco!SetDiscoSessionPeer(c, i, p)
             \/ Disco!Close(c)
             \/ Disco!CallStep(c)
  <2>1. PICK c \in Caller :
             \/ \E x \in Sess, p \in Peer : Disco!AddDiscoSession(c, x, p)
             \/ \E i \in DOMAIN table : Disco!RemoveDiscoSession(c, i)
             \/ \E i \in DOMAIN table, p \in Peer : Disco!SetDiscoSessionPeer(c, i, p)
             \/ Disco!Close(c)
             \/ Disco!CallStep(c)
    BY <1>4
  <2>2. UNCHANGED <<seqOut, wire, reader, window, got, refused>>
    <3>1. ASSUME NEW x \in Sess, NEW p \in Peer, Disco!AddDiscoSession(c, x, p)
          PROVE  UNCHANGED <<seqOut, wire, reader, window, got, refused>>
      BY <3>1 DEF Disco!AddDiscoSession, Disco!packetVars
    <3>2. ASSUME NEW i \in DOMAIN table, Disco!RemoveDiscoSession(c, i)
          PROVE  UNCHANGED <<seqOut, wire, reader, window, got, refused>>
      BY <3>2 DEF Disco!RemoveDiscoSession, Disco!packetVars
    <3>3. ASSUME NEW i \in DOMAIN table, NEW p \in Peer, Disco!SetDiscoSessionPeer(c, i, p)
          PROVE  UNCHANGED <<seqOut, wire, reader, window, got, refused>>
      BY <3>3 DEF Disco!SetDiscoSessionPeer, Disco!packetVars
    <3>4. CASE Disco!Close(c)
      BY <3>4 DEF Disco!Close, Disco!packetVars
    <3>5. CASE Disco!CallStep(c)
      BY <3>5 DEF Disco!CallStep, Disco!RemovePeer, Disco!SetPeer, Disco!SyncLock,
                  Disco!startTickerLocked, Disco!stopTickerLocked, Disco!StopDone, Disco!packetVars
    <3> QED
      BY <2>1, <3>1, <3>2, <3>3, <3>4, <3>5
  <2>3. DiscoHeld'
    BY <1>1, <2>1, DiscoAdds, DiscoRemoves, DiscoLooksUp, DiscoCloses, DiscoRemovesPeer,
       DiscoSetsPeer, DiscoSyncs, DiscoTickers DEF Disco!CallStep
  <2> QED
    BY <1>2, <2>2, <2>3 DEF DiscoInv
<1>5. CASE Disco!TickerStep \/ Disco!Tick
  <2>1. UNCHANGED <<seqOut, wire, reader, window, got, refused>>
    BY <1>5 DEF Disco!TickerStep, Disco!TickerExit, Disco!RefreshRead, Disco!RefreshRebuild,
                Disco!Tick, Disco!packetVars
  <2> QED
    BY <1>1, <1>2, <1>5, <2>1, TickerSteps DEF DiscoInv
<1>6. CASE \/ \E x \in Sess, y \in Sendings : Disco!WriteDisco(x, y[1], y[2])
           \/ \E x \in Sess : Disco!QuicCollides(x)
           \/ \E p \in wire : Disco!ReadFrom(p)
           \/ Disco!Dispatch
  <2>1. UNCHANGED <<instant, table, closed, byTag, epoch, tags, byPeer, peer, tickerMu, ticker,
                    tickerStop, refreshNow, ticked, call>>
    BY <1>6 DEF Disco!WriteDisco, Disco!QuicCollides, Disco!ReadFrom, Disco!Dispatch,
                Disco!tableVars, Disco!peerVars, Disco!tickVars
  <2> QED
    BY <1>1, <1>3, <1>6, <2>1, DiscoPackets DEF DiscoInv
<1>7. CASE UNCHANGED Disco!vars
  BY <1>2, <1>3, <1>7
     DEF DiscoInv, Disco!vars, Disco!tableVars, Disco!peerVars, Disco!tickVars, Disco!packetVars
<1> QED
  BY <1>4, <1>5, <1>6, <1>7 DEF Disco!Next

(* What it says of the window, the indexes and the ticker.                 *)
LEMMA DiscoInvImplies ==
  ASSUME DiscoInv
  PROVE  Disco!AcceptedOnce /\ Disco!IndexesFollowTable /\ Disco!TickerFollowsTable
<1>1. Disco!AcceptedOnce
  <2>1. \A x \in Sess : WinAt(window[x], got[x], refused[x])
    BY DEF DiscoInv, DiscoWindows
  <2> QED
    BY <2>1 DEF Disco!AcceptedOnce, WinAt
<1>2. Disco!IndexesFollowTable
  <2>1. Disco!Registered \subseteq Sess
    BY DiscoRegistered DEF DiscoInv, DiscoHeld
  <2> QED
    BY <2>1 DEF DiscoInv, DiscoHeld, DiscoTables, DiscoPeers, Disco!IndexesFollowTable
<1>3. Disco!TickerFollowsTable
  <2>1. SUFFICES ASSUME \A c \in Caller : call[c] = Disco!Idle
                 PROVE  ticker # "off" <=> Disco!Live
    BY DEF Disco!TickerFollowsTable
  <2>2. \A c \in Caller : call[c].at = "-" /\ ~DiscoWillSync(call[c])
    BY <2>1 DEF Disco!Idle, DiscoWillSync
  <2>3. tickerMu = None
    BY <2>2 DEF DiscoInv, DiscoHeld, DiscoTicker, DiscoTypes
  <2> QED
    BY <2>2, <2>3 DEF DiscoInv, DiscoHeld, DiscoTicker
<1> QED
  BY <1>1, <1>2, <1>3

(* More periods take longer.                                               *)
LEMMA DiscoTimes ==
  ASSUME NEW e \in Nat, NEW f \in Nat, NEW N \in Nat, e >= f
  PROVE  e * N >= f * N
<1>1. PICK d \in Nat : e = f + d
  <2>1. e - f \in Nat /\ e = f + (e - f)
    OBVIOUS
  <2> QED
    BY <2>1
<1>2. (f + d) * N = f * N + d * N /\ d * N \in Nat /\ f * N \in Nat
  OBVIOUS
<1> QED
  BY <1>1, <1>2

(* Times an epoch apart are in the same epoch, or in neighbours.           *)
LEMMA DiscoNear ==
  ASSUME NEW m \in Nat, NEW t \in Int, m - EpochLen <= t, t <= m + EpochLen
  PROVE  Disco!discoEpochOf(t) \in Disco!discoEpochOf(m) - 1 .. Disco!discoEpochOf(m) + 1
<1>1. PICK f \in Nat, e \in Nat, x \in Nat :
        /\ f = Disco!discoEpochOf(m) /\ e = Disco!discoEpochOf(t) /\ x = IF t < 0 THEN 0 ELSE t
  BY DiscoEpochNat
<1>2. EpochLen \in Nat \ {0}
  BY DiscoConstants
<1>3. f * EpochLen <= m /\ m < f * EpochLen + EpochLen
  BY <1>1, DiscoEpochNat
<1>4. e * EpochLen <= x /\ x < e * EpochLen + EpochLen
  BY <1>1, DiscoEpochNat
<1>5. m - EpochLen <= x /\ x <= m + EpochLen
  BY <1>1, <1>2
<1>6. e <= f + 1
  <2>1. SUFFICES ASSUME e >= f + 2 PROVE FALSE
    OBVIOUS
  <2>2. e * EpochLen >= (f + 2) * EpochLen
    BY <1>2, <2>1, DiscoTimes
  <2>3. (f + 2) * EpochLen = f * EpochLen + EpochLen + EpochLen
    BY <1>2
  <2> QED
    BY <1>2, <1>3, <1>4, <1>5, <2>2, <2>3
<1>7. f <= e + 1
  <2>1. SUFFICES ASSUME f >= e + 2 PROVE FALSE
    OBVIOUS
  <2>2. f * EpochLen >= (e + 2) * EpochLen
    BY <1>2, <2>1, DiscoTimes
  <2>3. (e + 2) * EpochLen = e * EpochLen + EpochLen + EpochLen
    BY <1>2
  <2> QED
    BY <1>2, <1>3, <1>4, <1>5, <2>2, <2>3
<1> QED
  BY <1>1, <1>6, <1>7

(* A packet that is fresh when it is read finds its session.               *)
LEMMA DiscoFinds ==
  ASSUME DiscoInv, NEW k \in wire, Disco!ReadFrom(k), k.key \in Disco!Registered,
         k.ts - instant <= DiscoSkew, instant - k.ts <= DiscoSkew
  PROVE  k.key \in reader'.bucket
<1>1. DiscoTypes /\ DiscoTables /\ DiscoEpochs /\ DiscoPacket(k)
  BY DEF DiscoInv, DiscoHeld, DiscoWire
<1>2. PICK x \in Sess : x = k.key /\ x \in Disco!Registered
  BY <1>1, DiscoRegistered
<1>3. PICK t \in Int : t = k.ts
  BY <1>1 DEF DiscoPacket
<1>4. x # None /\ EpochLen \in Nat /\ DiscoSkew \in Nat /\ DiscoSkew < EpochLen
  BY <1>2, DiscoConstants
<1>5. k.tag = Disco!Tag(x, Disco!discoEpochOf(t))
  BY <1>1, <1>2, <1>3, <1>4 DEF DiscoPacket, Disco!SendTag
<1>6. Disco!discoEpochOf(t) \in epoch - 1 .. epoch + 1
  <2>1. instant \in Nat
    BY <1>1 DEF DiscoTypes
  <2>2. CASE epoch = Disco!discoEpochOf(instant)
    <3>1. instant - EpochLen <= t /\ t <= instant + EpochLen
      BY <1>3, <1>4, <2>1
    <3> QED
      BY <2>1, <2>2, <3>1, DiscoNear
  <2>3. CASE epoch # Disco!discoEpochOf(instant)
    <3>1. instant > 0 /\ epoch = Disco!discoEpochOf(instant - 1)
      BY <1>1, <1>2, <2>3 DEF DiscoEpochs, DiscoStale
    <3>2. PICK m \in Nat : m = instant - 1
      BY <2>1, <3>1
    <3>3. m - EpochLen <= t /\ t <= m + EpochLen
      BY <1>3, <1>4, <2>1, <3>2
    <3> QED
      BY <3>1, <3>2, <3>3, DiscoNear
  <2> QED
    BY <2>2, <2>3
<1>7. k.tag \in tags[x]
  <2>1. tags[x] = DiscoTagsOf(x, epoch)
    BY <1>1, <1>2 DEF DiscoTables
  <2> QED
    BY <1>5, <1>6, <2>1 DEF DiscoTagsOf
<1>8. x \in Disco!Bucket(k.tag)
  <2>1. Disco!Bucket(k.tag) = {y \in Disco!Registered : k.tag \in tags[y]}
    BY <1>1, DiscoBuckets
  <2> QED
    BY <1>2, <1>7, <2>1
<1>9. reader'.bucket = Disco!Bucket(k.tag)
  BY DEF Disco!ReadFrom
<1> QED
  BY <1>2, <1>8, <1>9

(* Hence no step misses one.                                               *)
LEMMA DiscoReads ==
  ASSUME DiscoInv, Disco!Next, reader = None, reader' # None
  PROVE  LET p == reader'.p IN
         (p.key \in Disco!Registered /\ p.ts - instant <= DiscoSkew /\ instant - p.ts <= DiscoSkew)
           => p.key \in reader'.bucket
<1>1. PICK k \in wire : Disco!ReadFrom(k)
  <2>1. \/ reader' = reader \/ reader' = None
        \/ \E p \in wire : Disco!ReadFrom(p)
    BY DEF Disco!Next, Disco!CallStep, Disco!TickerStep, Disco!AddDiscoSession,
           Disco!RemoveDiscoSession, Disco!SetDiscoSessionPeer, Disco!Close, Disco!RemovePeer,
           Disco!SetPeer, Disco!SyncLock, Disco!startTickerLocked, Disco!stopTickerLocked,
           Disco!StopDone, Disco!TickerExit, Disco!RefreshRead, Disco!RefreshRebuild, Disco!Tick,
           Disco!WriteDisco, Disco!QuicCollides, Disco!Dispatch, Disco!packetVars
  <2> QED
    BY <2>1
<1>2. reader'.p = k
  BY <1>1 DEF Disco!ReadFrom
<1> QED
  BY <1>1, <1>2, DiscoFinds

(* The inductive invariants of the parts.                                  *)
PartsHold ==
  /\ part = "udp" => UDP!IInv
  /\ part = "oneUDP" => OneUDP!IInv
  /\ part = "gecko" => Gecko!IInv
  /\ part = "hop" => HopInv
  /\ part = "obfs" => SaltInv
  /\ part = "disco" => DiscoInv

(* The parts start as they do by themselves.                               *)
LEMMA PartsStart == Init => PartsHold
BY DatagramsAssumption, UDP!InitHolds, OneUDP!InitHolds, Gecko!InitHolds, HopStarts,
   SaltStarts, DiscoStarts DEF Init, PartsHold

(* A step of the sum is one of a part, or leaves the part alone.           *)
LEMMA PartsStep ==
  ASSUME [Next]_vars
  PROVE  /\ part' = part
         /\ part = "udp" => UDP!Next \/ UNCHANGED udpVars
         /\ part = "oneUDP" => OneUDP!Next \/ UNCHANGED udpVars
         /\ part = "hop" => Hop!Next \/ UNCHANGED hopVars
         /\ part = "obfs" => Obfs!Next \/ UNCHANGED obfsVars
         /\ IF part = "disco" THEN Disco!Next \/ UNCHANGED discoVars
                              ELSE UNCHANGED discoVars
         /\ IF part = "gecko" THEN Gecko!Next \/ UNCHANGED geckoVars
                              ELSE UNCHANGED geckoVars
<1>1. CASE OfUDP(part = "udp" /\ UDP!Next /\ EachOnce)
  BY <1>1 DEF OfUDP
<1>2. CASE OfUDP(part = "oneUDP" /\ OneUDP!Next)
  BY <1>2 DEF OfUDP
<1>3. CASE OfDisco(Disco!Next /\ LowestFirst) \/ OfHop(Hop!Next) \/ OfObfs(Obfs!Next /\ InTime)
  BY <1>3 DEF OfDisco, OfHop, OfObfs
<1>4. CASE OfGecko(Gecko!Next)
  BY <1>4 DEF OfGecko
<1>5. CASE UNCHANGED vars
  BY <1>5 DEF vars
<1> QED
  BY <1>1, <1>2, <1>3, <1>4, <1>5 DEF Next

(* Hence the parts' invariants are kept.                                   *)
LEMMA PartsKept == ASSUME PartsHold, [Next]_vars PROVE PartsHold'
<1>1. ASSUME part = "udp" PROVE UDP!IInv'
  <2>1. UDP!IInv /\ [UDP!Next]_(UDP!vars)
    BY <1>1, PartsStep DEF PartsHold, udpVars, UDP!vars
  <2> QED
    BY <2>1, DatagramsAssumption, UDP!StepHolds
<1>2. ASSUME part = "oneUDP" PROVE OneUDP!IInv'
  <2>1. OneUDP!IInv /\ [OneUDP!Next]_(OneUDP!vars)
    BY <1>2, PartsStep DEF PartsHold, udpVars, OneUDP!vars
  <2> QED
    BY <2>1, DatagramsAssumption, OneUDP!StepHolds
<1>3. ASSUME part = "gecko" PROVE Gecko!IInv'
  <2>1. Gecko!IInv /\ [Gecko!Next]_(Gecko!vars)
    BY <1>3, PartsStep DEF PartsHold, geckoVars, Gecko!vars
  <2> QED
    BY <2>1, DatagramsAssumption, Gecko!StepHolds
<1>4. ASSUME part = "hop" PROVE HopInv'
  <2>1. HopInv /\ [Hop!Next]_(Hop!vars)
    BY <1>4, PartsStep DEF PartsHold, hopVars, Hop!vars
  <2> QED
    BY <2>1, HopKept
<1>5. ASSUME part = "obfs" PROVE SaltInv'
  <2>1. SaltInv /\ [Obfs!Next]_(Obfs!vars)
    BY <1>5, PartsStep DEF PartsHold, obfsVars, Obfs!vars, Obfs!clocks, Obfs!history
  <2> QED
    BY <2>1, SaltKeeps
<1>6. ASSUME part = "disco" PROVE DiscoInv'
  <2>1. DiscoInv /\ [Disco!Next]_(Disco!vars)
    BY <1>6, PartsStep
       DEF PartsHold, discoVars, Disco!vars, Disco!tableVars, Disco!peerVars, Disco!tickVars,
           Disco!packetVars
  <2> QED
    BY <2>1, DiscoKept
<1> QED
  BY <1>1, <1>2, <1>3, <1>4, <1>5, <1>6, PartsStep DEF PartsHold
-----------------------------------------------------------------------------
(* In every reachable state of the sum.                                    *)
THEOREM PartsAlwaysHold == Spec => []PartsHold
<1>1. Init => PartsHold
  BY PartsStart
<1>2. PartsHold /\ [Next]_vars => PartsHold'
  BY PartsKept
<1> QED
  BY <1>1, <1>2, PTL DEF Spec

(***************************************************************************)
(* udpSessionManager: an open connection is that of a session in the       *)
(* table, and none is left open when Run returns.                          *)
(***************************************************************************)
THEOREM OpenIsRegisteredAlways == Spec => []OpenIsRegistered
<1>1. PartsHold => OpenIsRegistered
  BY DatagramsAssumption, UDP!IInvImplies DEF PartsHold, OpenIsRegistered
<1> QED
  BY <1>1, PartsAlwaysHold, PTL

(* checkAddr: no datagram goes to an address the policy rejects.           *)
THEOREM WritesAllowedAlways == Spec => []WritesAllowed
<1>1. PartsHold => WritesAllowed
  BY OneUDP!PolicyKeptWrites DEF PartsHold, WritesAllowed
<1> QED
  BY <1>1, PartsAlwaysHold, PTL

(* ExitFunc takes no other session than its own out of the table.          *)
THEOREM ExitRemovesOwnAlways == Spec => ExitRemovesOwn
<1>1. ASSUME PartsHold, [Next]_vars
      PROVE  [part = "udp" => UDP!RemovesOwn]_vars
  <2>1. CASE part = "udp" /\ UDP!Next
    BY <1>1, <2>1, DatagramsAssumption, UDP!StepsRemoveOwn DEF PartsHold
  <2>2. CASE part = "udp" /\ UNCHANGED udpVars
    BY <2>2, UDP!SameTable DEF udpVars
  <2> QED
    BY <1>1, <2>1, <2>2, PartsStep
<1> QED
  BY <1>1, PartsAlwaysHold, PTL DEF Spec, ExitRemovesOwn

(***************************************************************************)
(* udpHopPacketConn: the current socket and the one before it are open,    *)
(* and no other, each as the layer above last asked; and the socket the    *)
(* server last heard from is read, unless a read of it failed, until the   *)
(* second hop.                                                             *)
(***************************************************************************)
THEOREM SocketsAsAskedAlways == Spec => []SocketsAsAsked
<1>1. PartsHold => SocketsAsAsked
  BY HopInvImplies DEF PartsHold, SocketsAsAsked
<1> QED
  BY <1>1, PartsAlwaysHold, PTL

(***************************************************************************)
(* Salamander v2: a datagram that comes again is not handed up again by    *)
(* the same obfuscator unless its clock fell back by more than the window  *)
(* less a second, nor by a later one unless its clock fell back or the     *)
(* datagram was sent less than a second and the peer's lead before that    *)
(* one was built; and what the clock stamps is behind the true time by no  *)
(* more than the servers' error and the time they were waited for,         *)
(* whatever those that were wrong answered.                                *)
(***************************************************************************)
THEOREM HandedUpOnceAlways == Spec => []HandedUpOnce
<1>1. PartsHold => HandedUpOnce
  BY SaltInvImplies DEF PartsHold, HandedUpOnce
<1> QED
  BY <1>1, PartsAlwaysHold, PTL

(***************************************************************************)
(* discoReplayWindow.accept: whatever is repeated or comes out of order, a *)
(* session takes a sequence number once, and refuses only what it took or  *)
(* what has fallen out of its window.                                      *)
(***************************************************************************)
THEOREM AcceptedOnceAlways == Spec => []AcceptedOnce
<1>1. PartsHold => AcceptedOnce
  BY DiscoInvImplies DEF PartsHold, AcceptedOnce
<1> QED
  BY <1>1, PartsAlwaysHold, PTL

(***************************************************************************)
(* The demultiplexer of the control channel: however adds, removals, moves *)
(* of a peer, Close and the rotation overlap, byTag and byPeer are those   *)
(* of the registered sessions, and between calls the rotation goroutine    *)
(* runs exactly while there is one.                                        *)
(***************************************************************************)
THEOREM IndexesFollowTableAlways == Spec => []IndexesFollowTable
<1>1. PartsHold => IndexesFollowTable
  BY DiscoInvImplies DEF PartsHold, IndexesFollowTable
<1> QED
  BY <1>1, PartsAlwaysHold, PTL

(***************************************************************************)
(* RecvTags and refreshTags: a packet of a registered session, stamped     *)
(* within discoMaxSkew of our clock, is led to it by its tag in the very   *)
(* interval in which the epoch turns, before the rotation and after it.    *)
(***************************************************************************)
THEOREM FreshFindsItsSessionAlways == Spec => FreshFindsItsSession
<1>1. ASSUME PartsHold, [Next]_vars
      PROVE  [(reader = None /\ reader' # None) =>
                LET p == reader'.p IN
                (p.key \in Disco!Registered /\ p.ts - instant <= DiscoSkew
                   /\ instant - p.ts <= DiscoSkew)
                  => p.key \in reader'.bucket]_(Disco!vars)
  <2>1. CASE part = "disco" /\ Disco!Next
    <3>1. DiscoInv
      BY <1>1, <2>1 DEF PartsHold
    <3> QED
      BY <2>1, <3>1, DiscoReads
  <2>2. CASE UNCHANGED discoVars
    BY <2>2 DEF discoVars, Disco!vars, Disco!tableVars, Disco!peerVars, Disco!tickVars,
                Disco!packetVars
  <2> QED
    BY <1>1, <2>1, <2>2, PartsStep
<1> QED
  BY <1>1, PartsAlwaysHold, PTL DEF Spec, FreshFindsItsSession, Disco!FreshFindsItsSession

(***************************************************************************)
(* acceptChunk's books are exact, both caps hold, and gcLoop lets no entry *)
(* outlive its deadline by more than a round.                              *)
(***************************************************************************)
THEOREM EntriesAccountedAlways == Spec => []EntriesAccounted
<1>1. PartsHold => EntriesAccounted
  BY DatagramsAssumption, Gecko!IInvImplies DEF PartsHold, EntriesAccounted
<1> QED
  BY <1>1, PartsAlwaysHold, PTL

(***************************************************************************)
(* The Gecko obfuscator (writeFragmented, acceptChunk) is a lossy channel  *)
(* of whole packets, but for parts of packets of one source that were sent *)
(* under one number within the time an entry may live.                     *)
(***************************************************************************)
THEOREM ImplementsDatagramsAlways == Spec => ImplementsDatagrams
<1>1. Init => Gecko!Channel!Init
  BY DEF Init, Gecko!Init, Gecko!Channel!Init
<1>2. ASSUME PartsHold, [Next]_vars
      PROVE  [Gecko!Channel!Next]_<<long, torn, up>>
  <2>1. CASE part = "gecko"
    <3>1. Gecko!IInv /\ [Gecko!Next]_(Gecko!vars)
      BY <1>2, <2>1, PartsStep DEF PartsHold, geckoVars, Gecko!vars
    <3> QED
      BY <3>1, DatagramsAssumption, Gecko!StepImplements
  <2>2. CASE part # "gecko"
    BY <1>2, <2>2, PartsStep DEF geckoVars
  <2> QED
    BY <2>1, <2>2
<1> QED
  BY <1>1, <1>2, PartsAlwaysHold, PTL
     DEF Spec, ImplementsDatagrams, Gecko!ImplementsDatagrams, Gecko!Channel!Spec
=============================================================================
