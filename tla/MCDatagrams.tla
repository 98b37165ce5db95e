---------------------------- MODULE MCDatagrams -----------------------------
(***************************************************************************)
(* What datagrams go through, for TLC: the server's UDP sessions above     *)
(* QUIC, and below it the hopping socket, the two obfuscators and the      *)
(* control channel of the realm that shares QUIC's socket. A behaviour is  *)
(* one of one of these parts, as `part' says, while the others rest where  *)
(* they start.                                                             *)
(***************************************************************************)
EXTENDS Integers, FiniteSets, Sequences

CONSTANTS
  (* Disco: two sessions added under one identifier, whose tags collide,   *)
  (* and two goroutines that call the API.                                 *)
  Sess, IdOf, Peer, Caller, None, Clash, EpochLen, DiscoSkew, Sendings, ReplayWindow,
  SeqCeiling, MaxNow, MaxCalls, MaxEvents,
  (* ServerUDP: one identifier used by two sessions in turn; or one        *)
  (* session and two addresses, of which a1 is accepted and a2 is not, and *)
  (* the hook may send a2 to a1.                                           *)
  ID, e1, e2, NoEntry, a1, a2, NoAddr, IdleTimeout, QueueLen, MaxCache,
  (* HopConn: two hops, so that a socket is closed by one.                 *)
  Ports, MaxHops, MaxSets, MaxSent, QueueSize,
  (* Gecko: a source that comes round to its first number, and another.    *)
  a, b, GeckoIds, Chunks, MaxPerSource, MaxReassembly, TTL, GCEvery, LinkLife, GeckoTime,
  (* SalamanderV2: the system clock starts unset, just before the build    *)
  (* time, or ahead; the peer's is behind the true time or ahead. Which of *)
  (* them go together is ClockStarts.                                      *)
  Arrivals, Epoch, Start, Floor, WallStarts, PeerSkews, ClockStarts, Offers, Servers,
  QueryTimeout, Second, MaxSkew, StepThreshold, SourceError, BucketCount, MaxSteps, MaxLives, ClockTime,
  AskTime, CorrectedTime

VARIABLES
  part,
  instant, table, closed, byTag, epoch, tags, byPeer, peer, tickerMu, ticker, tickerStop,
  refreshNow, ticked, call, seqOut, wire, reader, window, got, refused, calls,
  linkUp, sessions, entry, main, cleaner, sender, receiver, wrote,
  conn, prev, current, port, asked, socket, loop, hopping, queue, arriving, heard, sets,
  answered, wanted,
  geckoClock, count, chunks, reassembly, perSource, gcLoop, long, torn, up,
  true, wall, mono, steps, skew, clk, life, proc, query, boot, replay, sealed, took,
  started, high, drop, clockTouched, honest

discoVars == <<instant, table, closed, byTag, epoch, tags, byPeer, peer, tickerMu, ticker,
               tickerStop, refreshNow, ticked, call, seqOut, wire, reader, window, got,
               refused, calls>>
udpVars == <<linkUp, sessions, entry, main, cleaner, sender, receiver, wrote>>
hopVars == <<conn, prev, current, port, asked, socket, loop, hopping, queue, arriving,
             heard, sets, answered, wanted>>
geckoVars == <<geckoClock, count, chunks, reassembly, perSource, gcLoop, long, torn,
               up>>
obfsVars == <<true, wall, mono, steps, skew, clk, life, proc, query, boot, replay, sealed,
              took, started, high, drop, clockTouched, honest>>
vars == <<part, discoVars, udpVars, hopVars, geckoVars, obfsVars>>
-----------------------------------------------------------------------------
MCIntervals == {<<0, 0>>, <<0, 9>>, <<9, 8>>, <<4, 9>>, <<5, 5>>}

MCIdOf == [s \in Sess |-> 1]

MCSendings == {<<-1, TRUE>>, <<1, TRUE>>, <<0, FALSE>>}

MCMaxSends == [s \in {a, b} |-> IF s = a THEN 3 ELSE 1]

MCPeerSkews == {-2, 5}

MCClockStarts == {<<0, 5>>, <<19, -2>>, <<23, 5>>}
-----------------------------------------------------------------------------
Disco == INSTANCE Disco
  WITH MaxSkew <- DiscoSkew, now <- instant, sessions <- table
UDP == INSTANCE ServerUDPProofs
  WITH Entry <- {e1, e2}, Addr <- {a1}, Allowed <- {a1}, Rewrites <- {}
OneUDP == INSTANCE ServerUDPProofs
  WITH Entry <- {e1}, Addr <- {a1, a2}, Allowed <- {a1}, Rewrites <- {<<a2, a1>>}
Hop == INSTANCE HopConn
  WITH Intervals <- MCIntervals, sent <- answered
Gecko == INSTANCE GeckoProofs
  WITH Sources <- {a, b}, IdRange <- GeckoIds, MaxSends <- MCMaxSends,
       MaxTime <- GeckoTime, clock <- geckoClock, wire <- chunks
Obfs == INSTANCE SalamanderV2
  WITH Datagrams <- Arrivals, MaxTime <- ClockTime, wire <- sealed,
       touched <- clockTouched

ASSUME DatagramsAssumption ==
  /\ Disco!DiscoAssumption /\ UDP!UDPAssumption /\ OneUDP!UDPAssumption
  /\ Hop!HopConnAssumption /\ Gecko!GeckoAssumption
  /\ Obfs!SalamanderAssumption

(* Goroutines that make no call are interchangeable, and so are sessions   *)
(* that were never added and addresses nothing refers to: they are taken   *)
(* in order here.                                                          *)
Refers(p) ==
  \/ byPeer[p] # {} \/ \E x \in Sess : peer[x] = p \/ \E c \in Caller : call[c].p = p

LowestFirst ==
  /\ \A c, g \in Caller :
       c < g /\ call[c] = Disco!Idle /\ call[g] = Disco!Idle => call'[g] = Disco!Idle
  /\ \A x, y \in Sess : x < y /\ peer[x] = None => peer'[y] = None
  /\ \A p, q \in Peer : p < q /\ ~Refers(p) /\ ~Refers(q) => ~Refers(q)'

(* Entries are interchangeable, and used in order here.  None is used      *)
(* twice and every message is whole, unlike in MCLifecycle.                *)
EachOnce ==
  /\ main'.msg = UDP!NoMsg \/ main'.msg.whole
  /\ entry'[e2].used => entry'[e1].used
  /\ \A e \in {e1, e2} : entry[e].exited => entry'[e].exited

(* Bounds on time: by when time servers are asked, and for how long a      *)
(* corrected clock is followed.                                            *)
InTime ==
  /\ proc' = "asking" => true' <= Start + AskTime
  /\ clk'.on => true' <= Start + CorrectedTime

Init ==
  /\ part \in {"disco", "udp", "oneUDP", "hop", "gecko", "obfs"}
  /\ part # "hop" => port = CHOOSE p \in Ports : TRUE
  /\ Disco!Init /\ Hop!Init /\ Gecko!Init /\ Obfs!Init
  /\ <<wall, skew>> \in ClockStarts
  /\ part # "obfs" => <<wall, skew>> = CHOOSE c \in ClockStarts : TRUE
  /\ IF part = "oneUDP" THEN OneUDP!Init ELSE UDP!Init

OfDisco(A) ==
  part = "disco" /\ A /\ UNCHANGED <<part, udpVars, hopVars, geckoVars, obfsVars>>
OfUDP(A) ==
  part \in {"udp", "oneUDP"} /\ A /\ UNCHANGED <<part, discoVars, hopVars, geckoVars, obfsVars>>
OfHop(A) ==
  part = "hop" /\ A /\ UNCHANGED <<part, discoVars, udpVars, geckoVars, obfsVars>>
OfGecko(A) ==
  part = "gecko" /\ A /\ UNCHANGED <<part, discoVars, udpVars, hopVars, obfsVars>>
OfObfs(A) ==
  part = "obfs" /\ A /\ UNCHANGED <<part, discoVars, udpVars, hopVars, geckoVars>>

Next ==
  \/ OfDisco(Disco!Next /\ LowestFirst)
  \/ OfUDP(part = "udp" /\ UDP!Next /\ EachOnce)
  \/ OfUDP(part = "oneUDP" /\ OneUDP!Next)
  \/ OfHop(Hop!Next)
  \/ OfGecko(Gecko!Next)
  \/ OfObfs(Obfs!Next /\ InTime)

Spec == Init /\ [][Next]_vars
-----------------------------------------------------------------------------
(***************************************************************************)
(* discoReplayWindow.accept: a session takes each sequence number once,    *)
(* and refuses only what it has taken or what has fallen out of its        *)
(* window.                                                                 *)
(***************************************************************************)
AcceptedOnce == part = "disco" => Disco!AcceptedOnce

(***************************************************************************)
(* AddDiscoSession, RemoveDiscoSession, SetDiscoSessionPeer, Close and the *)
(* rotation: a registered session is found by its tags and its address, no *)
(* tag leads to one that is not, and the rotation goroutine runs exactly   *)
(* while there is a session, in whatever order two callers start and stop  *)
(* it.                                                                     *)
(***************************************************************************)
IndexesFollowTable == part = "disco" => Disco!IndexesFollowTable /\ Disco!TickerFollowsTable

(***************************************************************************)
(* A packet of a registered session that is within discoMaxSkew of our     *)
(* clock is led to that session by its tag when it is read: the rotation   *)
(* never leaves a live session without the tag its peer uses.              *)
(***************************************************************************)
FreshFindsItsSession == Disco!FreshFindsItsSession

(***************************************************************************)
(* udpSessionManager: an open connection belongs to a session that is not  *)
(* closed and is in the table, or is between being closed and leaving it   *)
(* ("we need this lock to ensure not to create conn after session exit"),  *)
(* and once Run has returned no connection is left open.                   *)
(***************************************************************************)
OpenIsRegistered ==
  part = "udp" => UDP!OpenIsRegistered /\ UDP!RunLeavesNothingOpen /\ UDP!TypeOK

(***************************************************************************)
(* checkAddr and the hook: no datagram is written to an address the policy *)
(* rejects, although decisions are remembered, forgotten and overridden by *)
(* the address the session was first given.                                *)
(***************************************************************************)
WritesAllowed == part = "oneUDP" => OneUDP!WritesAllowed

(***************************************************************************)
(* ExitFunc removes a session by its identifier, which the next session    *)
(* may already use: it is never that one that is removed.                  *)
(***************************************************************************)
ExitRemovesOwn == [][part = "udp" => UDP!RemovesOwn]_vars

(***************************************************************************)
(* udpHopPacketConn: the sockets open are the current one and the one      *)
(* before it, none once Close has returned, each with the deadlines and    *)
(* buffer sizes the layer above last set; and the socket the server last   *)
(* heard from is read, unless a read of it failed, until the second hop    *)
(* after it was written from ("otherwise there will be packet loss").      *)
(***************************************************************************)
SocketsAsAsked == part = "hop" => Hop!SocketsAsAsked /\ Hop!HeardForOneHop

(***************************************************************************)
(* The Gecko obfuscator is a lossy channel of whole packets (Datagrams),   *)
(* although it cuts them up under numbers that come round                  *)
(* (writeFragmented), but for packets of one source that were sent under   *)
(* one number within the time a datagram is under way, an entry lives and  *)
(* gcLoop is late: parts of those may be joined.                           *)
(***************************************************************************)
ImplementsDatagrams == Gecko!ImplementsDatagrams

(***************************************************************************)
(* acceptChunk's perSource counts a source's entries exactly, whichever    *)
(* way they end, both caps hold, and no entry outlives its deadline by     *)
(* more than a round of gcLoop.                                            *)
(***************************************************************************)
EntriesAccounted == part = "gecko" => Gecko!EntriesAccounted

(***************************************************************************)
(* Salamander v2: one obfuscator hands a datagram up again only after its  *)
(* clock fell back by more than the window less a second; a later one,     *)
(* built by a restart or by a client's reconnection, only if its clock     *)
(* fell back or the datagram was sent less than a second and the peer's    *)
(* lead before it was built. And the time that is stamped lags by no more  *)
(* than the time servers' error and the time they were waited for, and     *)
(* leads by no more than that error and a step that goes unnoticed:        *)
(* whenever the system clock is right, and from a correction until it is   *)
(* stepped or the host sleeps.                                             *)
(***************************************************************************)
HandedUpOnce == part = "obfs" => Obfs!HandedUpOnce /\ Obfs!InsideWindow
=============================================================================
