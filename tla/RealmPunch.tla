----------------------------- MODULE RealmPunch -----------------------------
(***************************************************************************)
(* Hole punching (extras/realm: punch_engine.go, puncher.go, punch_conn.go,*)
(* nat.go).  A client dials by punching on a bare socket (Punch with a     *)
(* directPunchTransport), one socket and one nonce for every dial; the     *)
(* server answers each punch event of the realm on the one socket QUIC     *)
(* already owns (Puncher.Respond over the PunchPacketConn demux).  Between *)
(* them stand two NATs, which are external: they map and filter.           *)
(*                                                                         *)
(* An address is <<host, port>>.  Time is counted in punch intervals: a    *)
(* turn of the engine loop sends what is due; the network and the reader   *)
(* of an event are faster than an interval, but packets may be lost.       *)
(* StartPump and StopPump have no caller in the program and are left out,  *)
(* as are the wire lengths.                                                *)
(***************************************************************************)
EXTENDS Integers, Sequences, FiniteSets, SequencesExt

CONSTANTS
  Nonces,        \* the client's dials, 1 .. n: one socket and nonce each
  MaxLoss,       \* how many packets the network may lose
  Timeout,       \* PunchConfig.Timeout, in intervals
  BothEnds,      \* BothEndsTimeout, in intervals
  Span,          \* symmetricNATSequentialSpan
  StrideProbes,  \* symmetricNATStrideProbes
  Probes,        \* SymmetricNATConfig.Probes
  Burst,         \* probes sent in one interval
  Draws,         \* the ports randomProbePort draws, in order
  MinPort, MaxPort, MaxPeerAddrs, EventBuffer

Srv == 0                      \* the server's end; a client's end is its nonce
Ends == {Srv} \cup Nonces
AnySource == "any"
Candidates == "candidates"
Hello == "hello"
Ack == "ack"
NoPeer == <<0, 0>>
ServerHost == 1
ClientHost == 2
Unspecified == 0
Elsewhere == 5                \* a private address, valid and not reachable
Strangers == <<9, 9>>         \* an address nobody announced

VARIABLES
  hard,      \* per host: the NAT allocates a port per destination
  cone,      \* per host: the NAT filters nothing
  dests,     \* per end: the destinations its socket has sent to, in order
  eng,       \* per nonce: the client's and the server's runPunch loop
  attempts,  \* PunchPacketConn.attempts of the server: registered ids
  events,    \* per id: the attempt's event channel
  relayed,   \* per nonce: how often the realm may still deliver its event
  net, lost, \* packets on their way, packets lost
  closed     \* the server's runtime, the puncher's base, is cancelled

vars == <<hard, cone, dests, eng, attempts, events, relayed, net, lost, closed>>

-----------------------------------------------------------------------------
(* The NATs, external.  A hard one gives each new destination the next port *)
HostOf(e) == IF e = Srv THEN ServerHost ELSE ClientHost
BasePort(e) == 10 * (e + 1)

MappedPort(e, to, ds) ==
  IF hard[HostOf(e)]
    THEN BasePort(e) + 1 + (CHOOSE i \in DOMAIN ds : ds[i] = to)
    ELSE BasePort(e)

Passes(e, from, port) ==
  \/ cone[HostOf(e)] /\ ~hard[HostOf(e)] /\ port = BasePort(e)
  \/ \E i \in DOMAIN dests[e] :
       dests[e][i] = from /\ MappedPort(e, from, dests[e]) = port

(* What an end announces: its reflexive addresses, one per observer when   *)
(* the NAT is hard, a local candidate, and what a peer may not be punched  *)
(* at (the unspecified address, a repeat).                                             *)
Announced(e) ==
  LET h == HostOf(e)
  IN  (IF hard[h] THEN << <<h, BasePort(e) + 1>>, <<h, BasePort(e)>> >>
                  ELSE << <<h, BasePort(e)>> >>)
      \o << <<Elsewhere, BasePort(e)>>, <<Unspecified, BasePort(e)>>, <<h, BasePort(e)>> >>

-----------------------------------------------------------------------------
(* nat.go *)
ClassifyNAT(addrs) ==
  IF \E i, j \in DOMAIN addrs :
        addrs[i][1] = addrs[j][1] /\ addrs[i][2] # addrs[j][2]
    THEN "dependent" ELSE "unknown"

PortsOf(addrs, h) == {a[2] : a \in {b \in ToSet(addrs) : b[1] = h}}

endpointDependentHosts(addrs) ==
  {h \in {a[1] : a \in ToSet(addrs)} : Cardinality(PortsOf(addrs, h)) >= 2}

(* The members of S in the order of their keys.                            *)
InOrder(S, key(_)) ==
  [i \in 1..Cardinality(S) |->
     CHOOSE a \in S : Cardinality({b \in S : key(b) < key(a)}) = i - 1]

Ascending(S) == InOrder(S, LAMBDA x : x)

HasStride(ps) ==
  Len(ps) >= 2 /\ \A i \in 3..Len(ps) : ps[i] - ps[i-1] = ps[2] - ps[1]

Tier1(addrs, hs) ==
  FlattenSeq([o \in 1..Span |-> FlattenSeq([k \in 1..Len(hs) |->
    LET ps == Ascending(PortsOf(addrs, hs[k]))
    IN  FlattenSeq([q \in 1..Len(ps) |->
          << <<hs[k], ps[q] + o>>, <<hs[k], ps[q] - o>> >>])])])

Tier2(addrs, hs) ==
  FlattenSeq([k \in 1..Len(hs) |->
    LET ps == Ascending(PortsOf(addrs, hs[k]))
    IN  IF HasStride(ps)
          THEN [i \in 1..StrideProbes |->
                  <<hs[k], ps[Len(ps)] + i * (ps[2] - ps[1])>>]
          ELSE <<>>])

Tier3(hs) ==
  FlattenSeq([d \in 1..Len(Draws) |-> [k \in 1..Len(hs) |-> <<hs[k], Draws[d]>>]])

(* The ports guessed on an endpoint-dependent peer, the likelier first.     *)
symmetricNATProbes(addrs, limit) ==
  LET hs == Ascending(endpointDependentHosts(addrs))
      add(probes, a) ==
        IF Len(probes) < limit /\ a[2] \in MinPort..MaxPort
             /\ a \notin ToSet(addrs) \cup ToSet(probes)
          THEN Append(probes, a) ELSE probes
  IN  FoldLeft(add, <<>>, Tier1(addrs, hs) \o Tier2(addrs, hs) \o Tier3(hs))

(* punch_engine.go: what may be punched at, without repeats, in order.     *)
punchableTarget(a) == a[1] # Unspecified /\ a[2] # 0

candidatePunchAddrs(peerAddrs) ==
  LET take(seen, a) ==
        IF Cardinality(seen) < MaxPeerAddrs /\ punchableTarget(a)
          THEN seen \cup {a} ELSE seen
  IN  InOrder(FoldLeft(take, {}, peerAddrs), LAMBDA a : a[1] * (MaxPort + 1) + a[2])

(* newPunchPlan: the attempt of end e against its peer.                    *)
SourcesOfTargets(targets, probes) == ToSet(targets)

Sources(targets, probes) == ToSet(targets) \cup ToSet(probes)

newPunchPlan(e, peer, policy) ==
  LET targets  == candidatePunchAddrs(Announced(peer))
      peerHard == ClassifyNAT(Announced(peer)) = "dependent"
      both     == peerHard /\ ClassifyNAT(Announced(e)) = "dependent"
      probes   == IF peerHard /\ ~both
                    THEN symmetricNATProbes(targets, Probes) ELSE <<>>
  IN  [targets |-> targets, probes |-> probes, both |-> both, policy |-> policy,
       timeout |-> IF both /\ BothEnds < Timeout THEN BothEnds ELSE Timeout,
       sources |-> Sources(targets, probes)]

allowsAll(plan, from) == TRUE

(* punchSourceFilter.allows *)
allows(plan, from) == plan.policy = AnySource \/ from \in plan.sources

-----------------------------------------------------------------------------
(* One runPunch loop; met counts its turns while the client is punching.   *)
Idle == [st |-> "idle", left |-> 0, idx |-> 0, peer |-> NoPeer, met |-> 0,
         due |-> FALSE,
         plan |-> <<>>]
Sides == {"cli", "srv"}
EndOf(s, n) == IF s = "cli" THEN n ELSE Srv
PeerOf(s, n) == IF s = "cli" THEN Srv ELSE n
PlanOf(s, n) ==
  newPunchPlan(EndOf(s, n), PeerOf(s, n), IF s = "cli" THEN Candidates ELSE AnySource)

Running(s, n) == eng[s][n].st = "run"

Init ==
  /\ hard \in [{ServerHost, ClientHost} -> BOOLEAN]
  /\ cone \in {c \in [{ServerHost, ClientHost} -> BOOLEAN] :
                 ~c[ServerHost] /\ (c[ClientHost] => ~hard[ClientHost])}
  /\ dests = [e \in Ends |-> <<>>]
  /\ eng = [s \in Sides |-> [n \in Nonces |-> Idle]]
  /\ attempts = {}
  /\ events = [n \in Nonces |-> <<>>]
  /\ relayed = [n \in Nonces |-> 0]
  /\ net = {} /\ lost = 0
  /\ closed = FALSE

Start(s, n) ==
  LET plan == PlanOf(s, n)
  IN  eng' = [eng EXCEPT ![s][n] =
                [Idle EXCEPT !.st = "run", !.due = TRUE, !.plan = plan,
                           !.left = plan.timeout]]

(* The client: connect at the realm, which relays the event to the server, *)
(* possibly twice (an event stream that reconnects), then Punch.           *)
Punch(n) ==
  /\ eng["cli"][n].st = "idle"
  /\ n > 1 => eng["cli"][n - 1].st \notin {"idle", "run", "ok"}
  /\ Start("cli", n)
  /\ relayed' = [relayed EXCEPT ![n] = 2]
  /\ UNCHANGED <<hard, cone, dests, attempts, events, net, lost, closed>>

(* Puncher.run on the server: plan, AddPunchAttempt, and then the loop.    *)
(* The id is the nonce, so an event delivered twice is a duplicate id      *)
(* while the first is running; a later one punches again.                  *)
Respond(n) ==
  /\ relayed[n] > 0 /\ ~closed
  /\ relayed' = [relayed EXCEPT ![n] = @ - 1]
  /\ IF n \in attempts
       THEN UNCHANGED <<eng, attempts, events>>
       ELSE /\ Start("srv", n)
            /\ attempts' = attempts \cup {n}
            /\ events' = [events EXCEPT ![n] = <<>>]
  /\ UNCHANGED <<hard, cone, dests, net, lost, closed>>

(* A socket sends one packet to each address: the NAT maps and opens.      *)
SendAll(e, addrs, type, n, onWire) ==
  LET ds == FoldLeft(LAMBDA acc, a : IF a \in ToSet(acc) THEN acc ELSE Append(acc, a),
                     dests[e], addrs)
  IN  /\ dests' = [dests EXCEPT ![e] = ds]
      /\ net' = onWire \cup {[from |-> <<HostOf(e), MappedPort(e, a, ds)>>,
                           to |-> a, type |-> type, nonce |-> n] :
                             a \in {b \in ToSet(addrs) : b[1] # Elsewhere}}

(* RemovePunchAttempt, deferred by run: the server's attempt is over.      *)
RemovePunchAttempt(s, n) ==
  attempts' = IF s = "srv" THEN attempts \ {n} ELSE attempts

Finish(s, n, st, peer) ==
  /\ eng' = [eng EXCEPT ![s][n].st = st, ![s][n].peer = peer,
                      ![s][n].due = FALSE]
  /\ RemovePunchAttempt(s, n)

(* An interval passes for everyone once what was sent in it has arrived.   *)
Interval ==
  /\ net = {}
  /\ \A n \in Nonces : Running("srv", n) => events[n] = <<>>
  /\ \E s \in Sides, n \in Nonces : Running(s, n)
  /\ \A s \in Sides, n \in Nonces : Running(s, n) => ~eng[s][n].due
  /\ eng' = [s \in Sides |-> [n \in Nonces |->
               [eng[s][n] EXCEPT !.due = eng[s][n].st = "run"]]]
  /\ UNCHANGED <<hard, cone, dests, attempts, events, relayed, net, lost, closed>>

(* One turn of runPunch at the end of an interval: give up at the deadline *)
(* or say hello to every target and to the next burst of probes.           *)
Round(s, n) ==
  /\ Running(s, n) /\ eng[s][n].due
  /\ LET plan == eng[s][n].plan
         me   == eng[s][n]
         end  == IF me.idx + Burst < Len(plan.probes) THEN me.idx + Burst
                                                      ELSE Len(plan.probes)
     IN  IF me.left = 0
           THEN /\ Finish(s, n, IF plan.both THEN "bothEnds" ELSE "timeout", NoPeer)
                /\ UNCHANGED <<dests, net>>
           ELSE /\ SendAll(EndOf(s, n),
                           plan.targets \o SubSeq(plan.probes, me.idx + 1, end),
                           Hello, n, net)
                /\ eng' = [eng EXCEPT ![s][n].left = @ - 1, ![s][n].idx = end,
                                      ![s][n].due = FALSE,
                                      ![s][n].met = @ + (IF Running("cli", n) THEN 1 ELSE 0)]
                /\ UNCHANGED attempts
  /\ UNCHANGED <<hard, cone, events, relayed, lost, closed>>

(* The rest of the turn, on a packet for the attempt: a source outside the *)
(* filter is dropped unanswered; a hello is answered; either ends it.      *)
Receive(s, n, p, onWire) ==
  IF allows(eng[s][n].plan, p.from)
    THEN /\ Finish(s, n, "ok", p.from)
         /\ SendAll(EndOf(s, n), IF p.type = Hello THEN <<p.from>> ELSE <<>>,
                    Ack, n, onWire)
    ELSE net' = onWire /\ UNCHANGED <<eng, attempts, dests>>

(* directPunchTransport: the client reads its socket; a packet of another  *)
(* nonce does not decode.  What comes after the punch is for QUIC.         *)
DeliverToClient(p, n) ==
  /\ Passes(n, p.from, p.to[2]) /\ Running("cli", n) /\ p.nonce = n
  /\ Receive("cli", n, p, net \ {p})
  /\ UNCHANGED <<hard, cone, events, relayed, lost, closed>>

(* PunchPacketConn.dispatch: the registered attempt of the nonce gets it,  *)
(* unless its channel is full; with none it is QUIC's, which ignores it.   *)
Dispatch(p) ==
  /\ p.to[1] = ServerHost /\ Passes(Srv, p.from, p.to[2])
  /\ net' = net \ {p}
  /\ events' = IF p.nonce \in attempts /\ Len(events[p.nonce]) < EventBuffer
                 THEN [events EXCEPT ![p.nonce] = Append(@, p)] ELSE events
  /\ UNCHANGED <<hard, cone, dests, eng, attempts, relayed, lost, closed>>

(* demuxPunchTransport.recvUntil and the rest of the responder's turn.     *)
RespondRecv(n) ==
  /\ Running("srv", n) /\ events[n] # <<>>
  /\ events' = [events EXCEPT ![n] = Tail(@)]
  /\ Receive("srv", n, Head(events[n]), net)
  /\ UNCHANGED <<hard, cone, relayed, lost, closed>>

(* The NATs drop what nothing opened; a socket that is not punching too.   *)
Drop(p) ==
  /\ IF p.to[1] = ServerHost THEN ~Passes(Srv, p.from, p.to[2])
       ELSE \A n \in Nonces : ~(Passes(n, p.from, p.to[2]) /\ Running("cli", n) /\ p.nonce = n)
  /\ net' = net \ {p}
  /\ UNCHANGED <<hard, cone, dests, eng, attempts, events, relayed, lost, closed>>

Lose(p) ==
  /\ lost < MaxLoss
  /\ net' = net \ {p} /\ lost' = lost + 1
  /\ UNCHANGED <<hard, cone, dests, eng, attempts, events, relayed, closed>>

(* A packet with the attempt's metadata from an address nobody announced.  *)
Stranger(n) ==
  /\ Running("cli", n) /\ lost < MaxLoss
  /\ net' = net \cup {[from |-> Strangers, to |-> <<ClientHost, BasePort(n)>>,
                       type |-> Hello, nonce |-> n]}
  /\ lost' = lost + 1
  /\ UNCHANGED <<hard, cone, dests, eng, attempts, events, relayed, closed>>

(* The server's runtime closes: base is cancelled, every attempt returns.  *)
Close ==
  /\ ~closed
  /\ closed' = TRUE
  /\ eng' = [eng EXCEPT !["srv"] = [n \in Nonces |->
               IF @[n].st = "run" THEN [@[n] EXCEPT !.st = "cancelled", !.due = FALSE] ELSE @[n]]]
  /\ attempts' = {}
  /\ UNCHANGED <<hard, cone, dests, events, relayed, net, lost>>

Next ==
  \/ Interval
  \/ \E n \in Nonces : Punch(n) \/ Respond(n) \/ RespondRecv(n) \/ Stranger(n)
  \/ \E s \in Sides, n \in Nonces : Round(s, n)
  \/ \E p \in net : \/ \E n \in Nonces : DeliverToClient(p, n)
                    \/ Dispatch(p) \/ Drop(p) \/ Lose(p)
  \/ Close

Spec == Init /\ [][Next]_vars

-----------------------------------------------------------------------------
(* The address Punch returns becomes the QUIC server address: what the     *)
(* client sends there next leaves by a mapping the server's NAT lets in,   *)
(* and arrives at the server's socket.                                     *)
PunchedPathWorks ==
  \A n \in Nonces : eng["cli"][n].st = "ok" =>
    LET peer == eng["cli"][n].peer
    IN  /\ peer[1] = ServerHost
        /\ peer \in ToSet(dests[n])
        /\ Passes(Srv, <<ClientHost, MappedPort(n, peer, dests[n])>>, peer[2])

(* A pair that can be punched is: when nothing was lost and no stranger    *)
(* interfered, the first dial (later ones find the ports of a hard NAT     *)
(* moved on) does not time out once the server has heard the client or has *)
(* sent twice and all its probes, unless both NATs allocate a port per     *)
(* destination; and then the error says so instead of a plain timeout.     *)
PunchableIsPunched ==
  (lost = 0 /\ ~closed /\ eng["cli"][1].st \in {"timeout", "bothEnds"}) =>
    \/ hard[ServerHost] /\ hard[ClientHost] /\ eng["cli"][1].st = "bothEnds"
    \/ /\ eng["srv"][1].st # "ok"
       /\ eng["srv"][1].met < 2 \/ eng["srv"][1].met * Burst < Probes

(* The demux routes to exactly the responders that are running, whatever   *)
(* the realm delivers twice: a rejected duplicate leaves the attempt it    *)
(* duplicates registered, and an attempt that ended is not left behind.    *)
RegisteredIsRunning == attempts = {n \in Nonces : Running("srv", n)}

=============================================================================
