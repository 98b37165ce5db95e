------------------------------- MODULE Disco -------------------------------
(***************************************************************************)
(* extras/realm/disco.go and disco_conn.go: the control channel that       *)
(* shares a socket with QUIC. Sessions come and go while datagrams are     *)
(* read, an epoch ticker rotates the tags a session is found by, and       *)
(* everything that is not disco must reach QUIC.                           *)
(*                                                                         *)
(* Time is counted in discoEpochCheckInterval's. A session stands for its  *)
(* object, and so for its key schedule: a tag is the session (or its clash *)
(* class) with an epoch, a seal is the session that can open it. The       *)
(* derivations (HKDF, HMAC, AEAD) are ideal and do not fail.               *)
(***************************************************************************)
EXTENDS Integers, Sequences, FiniteSets

CONSTANTS
  Sess,          \* session objects, one per call of AddDiscoSession
  IdOf,          \* the id each is added under: a reconnect may reuse one
  Peer,          \* addresses
  Caller,        \* goroutines that call the API
  None,          \* no session, no caller, no key
  Clash,         \* sessions whose eight-byte tags are the same
  EpochLen,      \* discoEpoch
  MaxSkew,       \* discoMaxSkew
  Sendings,      \* how far a sender's clock may be from ours, and whether
                 \* this end knows the version and the shape of what it sends
  ReplayWindow,  \* the bits of discoReplayWindow
  SeqCeiling,    \* discoSeqCeiling
  MaxNow, MaxCalls, MaxEvents \* bounds: the clock; calls, and with packets

DiscoAssumption ==
  /\ IsFiniteSet(Sess) /\ Clash \subseteq Sess
  /\ None \notin Sess \cup Caller \cup Peer
  /\ EpochLen \in Nat \ {0} /\ MaxSkew \in Nat /\ MaxSkew < EpochLen
  /\ ReplayWindow \in Nat \ {0} /\ SeqCeiling \in Nat \ {0}
  /\ Sendings \subseteq Int \X BOOLEAN

VARIABLES
  now,
  sessions,      \* the registered sessions, by id
  closed,
  byTag, epoch,  \* the demux index and the epoch it was built for
  tags,          \* per session: discoSession.tags
  byPeer, peer,  \* the index of outbound traffic, and discoSession.peer
  tickerMu,      \* who holds it
  ticker,        \* the ticker goroutine: "off", "select" or "refresh"
  tickerStop,    \* its stop channel is closed
  refreshNow,    \* the time refreshTags read before it took the lock
  ticked,        \* the tick of this interval has been handled
  call,          \* per caller: the call in progress
  seqOut,        \* per session: the far end's sequence counter
  wire,          \* datagrams sent to us: they may be lost, repeated, late
  reader,        \* the ReadFrom in progress: a datagram and its bucket
  window,        \* per session: discoReplayWindow
  got, refused,  \* per session: sequence numbers accepted, and replays
  calls

tableVars == <<sessions, closed, byTag, epoch, tags>>
peerVars == <<byPeer, peer>>
tickVars == <<tickerMu, ticker, tickerStop, refreshNow, ticked>>
packetVars == <<seqOut, wire, reader, window, got, refused>>
vars == <<now, tableVars, peerVars, tickVars, call, packetVars, calls>>

Idle == [op |-> "idle", s |-> None, at |-> "-", p |-> None]

Init ==
  /\ now = 0
  /\ sessions = [i \in {IdOf[s] : s \in Sess} |-> None]
  /\ closed = FALSE
  /\ byTag = [t \in {} |-> {}] /\ epoch = 0
  /\ tags = [s \in Sess |-> {}]
  /\ byPeer = [p \in Peer |-> {}] /\ peer = [s \in Sess |-> None]
  /\ tickerMu = None /\ ticker = "off" /\ tickerStop = FALSE
  /\ refreshNow = 0 /\ ticked = FALSE
  /\ call = [c \in Caller |-> Idle]
  /\ seqOut = [s \in Sess |-> 0]
  /\ wire = {} /\ reader = None
  /\ window = [s \in Sess |-> [seen |-> FALSE, high |-> 0, bits |-> {}]]
  /\ got = [s \in Sess |-> <<>>] /\ refused = [s \in Sess |-> {}]
  /\ calls = 0

Registered == {s \in Sess : sessions[IdOf[s]] = s}
-----------------------------------------------------------------------------
(***************************************************************************)
(* Tags and the tables they index.                                         *)
(***************************************************************************)
discoEpochOf(t) == (IF t < 0 THEN 0 ELSE t) \div EpochLen

Tag(s, e) == <<IF s \in Clash THEN None ELSE s, e>>

SendTag(s, t) == Tag(s, discoEpochOf(t))

RecvTagsHeld(s, t) == {Tag(s, e) : e \in discoEpochOf(t) - 1 .. discoEpochOf(t)}

RecvTags(s, t) == {Tag(s, e) : e \in discoEpochOf(t) - 1 .. discoEpochOf(t) + 1}

Bucket(t) == IF t \in DOMAIN byTag THEN byTag[t] ELSE {}

(* The table of a set of sessions, each with the tags it holds.            *)
TableOf(S, tg) == [t \in UNION {tg[s] : s \in S} |-> {s \in S : t \in tg[s]}]

rebuildTagsLocked(S, t) ==
  /\ tags' = [s \in Sess |-> IF s \in S THEN RecvTags(s, t) ELSE tags[s]]
  /\ byTag' = TableOf(S, tags')
  /\ epoch' = discoEpochOf(t)

(* Only the new session's entries, unless the epoch turned since the table *)
(* was built.                                                              *)
addTagsLocked(s, t) ==
  IF discoEpochOf(t) # epoch
  THEN rebuildTagsLocked(Registered \cup {s}, t)
  ELSE /\ tags' = [tags EXCEPT ![s] = RecvTags(s, t)]
       /\ byTag' = [u \in DOMAIN byTag \cup tags'[s] |->
                      IF u \in tags'[s] THEN Bucket(u) \cup {s} ELSE byTag[u]]
       /\ UNCHANGED epoch

dropTagsLocked(s) ==
  LET kept == {u \in DOMAIN byTag : u \notin tags[s] \/ byTag[u] # {s}}
  IN  /\ byTag' = [u \in kept |-> IF u \in tags[s] THEN byTag[u] \ {s} ELSE byTag[u]]
      /\ tags' = [tags EXCEPT ![s] = {}]

dropPeerLocked(s) == [byPeer EXCEPT ![peer[s]] = @ \ {s}]

(* Called with the index as dropPeerLocked left it.                        *)
AppendPeer(index, s, p) == [index EXCEPT ![p] = @ \cup {s}]
-----------------------------------------------------------------------------
(***************************************************************************)
(* The calls. Each changes the table in one critical section and then      *)
(* makes the ticker match it.                                              *)
(***************************************************************************)
Begin(c) == 
  /\ call[c] = Idle
  /\ calls < MaxCalls /\ calls + Cardinality(wire) < MaxEvents
  /\ calls' = calls + 1
Goto(c, o, s, l, p) == call' = [call EXCEPT ![c] = [op |-> o, s |-> s, at |-> l, p |-> p]]
At(c, l) == call[c].at = l
Return(c) == call' = [call EXCEPT ![c] = Idle]

(* A closed conn and a duplicate id are refused.                           *)
MayAdd(s) == ~closed /\ sessions[IdOf[s]] = None

AddDiscoSession(c, s, p) ==
  /\ Begin(c)
  /\ peer[s] = None
  /\ IF MayAdd(s)
     THEN /\ sessions' = [sessions EXCEPT ![IdOf[s]] = s]
          /\ addTagsLocked(s, now)
          /\ peer' = [peer EXCEPT ![s] = p]
          /\ byPeer' = AppendPeer(byPeer, s, p)
          /\ Goto(c, "add", s, "sync", p)
     ELSE UNCHANGED <<sessions, byTag, epoch, tags, peerVars, call>>
  /\ UNCHANGED <<now, closed, tickVars, packetVars>>

RemoveDiscoSession(c, i) ==
  /\ Begin(c)
  /\ LET s == sessions[i] IN
     IF s # None
     THEN /\ sessions' = [sessions EXCEPT ![i] = None]
          /\ dropTagsLocked(s)
          /\ Goto(c, "remove", s, "peer", None)
     ELSE /\ Goto(c, "remove", None, "sync", None)
          /\ UNCHANGED <<sessions, byTag, tags>>
  /\ UNCHANGED <<now, closed, epoch, peerVars, tickVars, packetVars>>

RemovePeer(c) ==
  /\ call[c].op = "remove" /\ At(c, "peer")
  /\ byPeer' = dropPeerLocked(call[c].s)
  /\ Goto(c, "remove", call[c].s, "sync", None)
  /\ UNCHANGED <<now, tableVars, peer, tickVars, packetVars, calls>>

(* session(id) returns with the lock gone; the index is changed later.     *)
SetDiscoSessionPeer(c, i, p) ==
  /\ Begin(c)
  /\ sessions[i] # None
  /\ Goto(c, "set", sessions[i], "peer", p)
  /\ UNCHANGED <<now, tableVars, peerVars, tickVars, packetVars>>

SetPeer(c) ==
  /\ call[c].op = "set" /\ At(c, "peer")
  /\ LET s == call[c].s p == call[c].p IN
     /\ byPeer' = IF peer[s] = p THEN byPeer ELSE AppendPeer(dropPeerLocked(s), s, p)
     /\ peer' = [peer EXCEPT ![s] = p]
  /\ Return(c)
  /\ UNCHANGED <<now, tableVars, tickVars, packetVars, calls>>

(* A Close that leaves the table as it is.                                 *)
CloseKeepsTable(c) ==
  /\ Begin(c)
  /\ closed' = TRUE
  /\ byPeer' = [p \in Peer |-> {}]
  /\ Goto(c, "close", None, "sync", None)
  /\ UNCHANGED <<now, sessions, byTag, epoch, tags, peer, tickVars, packetVars>>

Close(c) ==
  /\ Begin(c)
  /\ closed' = TRUE
  /\ sessions' = [i \in DOMAIN sessions |-> None]
  /\ byTag' = [t \in {} |-> {}]
  /\ byPeer' = [p \in Peer |-> {}]
  /\ Goto(c, "close", None, "sync", None)
  /\ UNCHANGED <<now, epoch, tags, peer, tickVars, packetVars>>

-----------------------------------------------------------------------------
(***************************************************************************)
(* syncEpochTicker and the ticker goroutine.                               *)
(***************************************************************************)
Live == ~closed /\ Registered # {}

(* The count is read with tickerMu held.                                   *)
SyncLock(c) ==
  /\ At(c, "sync") /\ tickerMu = None
  /\ tickerMu' = c
  /\ Goto(c, call[c].op, call[c].s, IF Live THEN "start" ELSE "stop", None)
  /\ UNCHANGED <<now, tableVars, peerVars, ticker, tickerStop, refreshNow, ticked, packetVars, calls>>

startTickerLocked(c) ==
  /\ At(c, "start") /\ tickerMu = c
  /\ ticker' = IF ticker = "off" THEN "select" ELSE ticker
  /\ ticked' = (IF ticker = "off" THEN TRUE ELSE ticked)
  /\ tickerMu' = None
  /\ Return(c)
  /\ UNCHANGED <<now, tableVars, peerVars, tickerStop, refreshNow, packetVars, calls>>

(* close(tickerStop), and then the goroutine's end is waited for.          *)
stopTickerLocked(c) ==
  /\ At(c, "stop") /\ tickerMu = c
  /\ IF ticker = "off"
     THEN tickerMu' = None /\ Return(c) /\ UNCHANGED tickerStop
     ELSE tickerStop' = TRUE /\ Goto(c, call[c].op, call[c].s, "wait", None) /\ UNCHANGED tickerMu
  /\ UNCHANGED <<now, tableVars, peerVars, ticker, refreshNow, ticked, packetVars, calls>>

StopDone(c) ==
  /\ At(c, "wait") /\ ticker = "off"
  /\ tickerStop' = FALSE /\ tickerMu' = None
  /\ Return(c)
  /\ UNCHANGED <<now, tableVars, peerVars, ticker, refreshNow, ticked, packetVars, calls>>

TickerExit ==
  /\ ticker = "select" /\ tickerStop
  /\ ticker' = "off"
  /\ UNCHANGED <<now, tableVars, peerVars, tickerMu, tickerStop, refreshNow, ticked, call, packetVars, calls>>

(* refreshTags: what it reads under the read lock.                         *)
RefreshRead ==
  /\ ticker = "select" /\ ~ticked
  /\ refreshNow' = now /\ ticked' = TRUE
  /\ ticker' = IF discoEpochOf(now) = epoch \/ Registered = {} THEN "select" ELSE "refresh"
  /\ UNCHANGED <<now, tableVars, peerVars, tickerMu, tickerStop, call, packetVars, calls>>

(* ... and the rebuild, with the time it read then.                        *)
RefreshRebuild ==
  /\ ticker = "refresh"
  /\ rebuildTagsLocked(Registered, refreshNow)
  /\ ticker' = "select"
  /\ UNCHANGED <<now, sessions, closed, peerVars, tickerMu, tickerStop, refreshNow, ticked, call, packetVars, calls>>

(* A call, and the work of a tick, take less than a check interval.        *)
Tick ==
  /\ now < MaxNow
  /\ \A c \in Caller : call[c] = Idle
  /\ ticker = "off" \/ (ticker = "select" /\ ticked)
  /\ now' = now + 1 /\ ticked' = FALSE
  /\ UNCHANGED <<tableVars, peerVars, tickerMu, ticker, tickerStop, refreshNow, call, packetVars, calls>>
-----------------------------------------------------------------------------
(***************************************************************************)
(* Packets.                                                                *)
(***************************************************************************)
MaySend(s) == seqOut[s] < SeqCeiling - 1

(* The far end's WriteDisco: its clock is d away from ours. The body may   *)
(* be of a version or a shape this end does not know.                      *)
WriteDisco(s, d, known) ==
  /\ calls + Cardinality(wire) < MaxEvents
  /\ peer[s] # None
  /\ MaySend(s)
  /\ seqOut' = [seqOut EXCEPT ![s] = @ + 1]
  /\ wire' = wire \cup {[tag |-> SendTag(s, now + d), key |-> s, seq |-> seqOut[s] + 1,
                          ts |-> now + d, known |-> known]}
  /\ UNCHANGED <<now, tableVars, peerVars, tickVars, call, reader, window, got, refused, calls>>

(* A QUIC datagram whose first bytes are those of a tag of ours.           *)
QuicCollides(s) ==
  /\ calls + Cardinality(wire) < MaxEvents
  /\ wire' = wire \cup {[tag |-> SendTag(s, now), key |-> None, seq |-> 0, ts |-> 0, known |-> FALSE]}
  /\ UNCHANGED <<now, tableVars, peerVars, tickVars, call, seqOut, reader, window, got, refused, calls>>

(* dispatch takes the bucket under the read lock and walks it without.     *)
ReadFrom(p) ==
  /\ reader = None /\ p \in wire
  /\ reader' = [p |-> p, bucket |-> Bucket(p.tag), at |-> now]
  /\ UNCHANGED <<now, tableVars, peerVars, tickVars, call, seqOut, wire, window, got, refused, calls>>

(* A window that is moved up without its bits.                             *)
acceptUnshifted(w, q) ==
  IF q = 0 THEN [ok |-> FALSE, w |-> w]
  ELSE IF ~w.seen \/ q > w.high
  THEN [ok |-> TRUE, w |-> [seen |-> TRUE, high |-> q, bits |-> {0}]]
  ELSE IF w.high - q >= ReplayWindow \/ w.high - q \in w.bits
  THEN [ok |-> FALSE, w |-> w]
  ELSE [ok |-> TRUE, w |-> [w EXCEPT !.bits = @ \cup {w.high - q}]]

accept(w, q) ==
  IF q = 0 THEN [ok |-> FALSE, w |-> w]
  ELSE IF ~w.seen THEN [ok |-> TRUE, w |-> [seen |-> TRUE, high |-> q, bits |-> {0}]]
  ELSE IF q > w.high
  THEN [ok |-> TRUE, w |-> [seen |-> TRUE, high |-> q,
          bits |-> {0} \cup {b \in {x + (q - w.high) : x \in w.bits} : b < ReplayWindow}]]
  ELSE IF w.high - q >= ReplayWindow \/ w.high - q \in w.bits
  THEN [ok |-> FALSE, w |-> w]
  ELSE [ok |-> TRUE, w |-> [w EXCEPT !.bits = @ \cup {w.high - q}]]

(* What decodeDiscoBody finds wrong with a packet that was opened.         *)
DecodeOK(p) == p.known /\ p.ts - now <= MaxSkew /\ now - p.ts <= MaxSkew

(* The stateless checks first; only a packet that passed them moves the    *)
(* window. The event is dropped if its channel is full, and counted.        *)
Dispatch ==
  /\ reader # None
  /\ LET p == reader.p
         s == p.key
         answer == accept(window[s], p.seq)
     IN IF s \in reader.bucket /\ DecodeOK(p)
        THEN /\ window' = [window EXCEPT ![s] = answer.w]
             /\ IF answer.ok
                THEN /\ got' = [got EXCEPT ![s] = Append(@, p.seq)]
                     /\ UNCHANGED refused
                ELSE /\ refused' = [refused EXCEPT ![s] = @ \cup {p.seq}]
                     /\ UNCHANGED got
        ELSE UNCHANGED <<window, got, refused>>
  /\ reader' = None
  /\ UNCHANGED <<now, tableVars, peerVars, tickVars, call, seqOut, wire, calls>>

-----------------------------------------------------------------------------
CallStep(c) ==
  \/ RemovePeer(c) \/ SetPeer(c) \/ SyncLock(c)
  \/ startTickerLocked(c) \/ stopTickerLocked(c) \/ StopDone(c)

TickerStep == TickerExit \/ RefreshRead \/ RefreshRebuild

Next ==
  \/ \E c \in Caller :
       \/ \E s \in Sess, p \in Peer : AddDiscoSession(c, s, p)
       \/ \E i \in DOMAIN sessions : RemoveDiscoSession(c, i)
       \/ \E i \in DOMAIN sessions, p \in Peer : SetDiscoSessionPeer(c, i, p)
       \/ Close(c)
       \/ CallStep(c)
  \/ TickerStep \/ Tick
  \/ \E s \in Sess, x \in Sendings : WriteDisco(s, x[1], x[2])
  \/ \E s \in Sess : QuicCollides(s)
  \/ \E p \in wire : ReadFrom(p)
  \/ Dispatch

Spec == Init /\ [][Next]_vars
-----------------------------------------------------------------------------
(* A session that is registered is found by the tags it holds and by the   *)
(* address it sends to, and no tag leads to one that is not: what          *)
(* AddDiscoSession, RemoveDiscoSession, SetDiscoSessionPeer, Close and the *)
(* rotation leave in byTag and byPeer between them.                        *)
IndexesFollowTable ==
  /\ byTag = TableOf(Registered, tags)
  /\ \A s \in Registered, p \in Peer : s \in byPeer[p] <=> peer[s] = p

(* Between calls the epoch ticker runs exactly while a session is          *)
(* registered: whichever adds and removes overlapped (syncEpochTicker), and *)
(* never again once the conn is closed.                                    *)
TickerFollowsTable ==
  (\A c \in Caller : call[c] = Idle) => (ticker # "off" <=> Live)

(* Whatever was repeated or reordered on the way, discoReplayWindow lets a *)
(* sequence number through once, and turns down only what it let through   *)
(* or what has fallen out of the window.                                   *)
AcceptedOnce ==
  \A s \in Sess :
    /\ \A i, j \in DOMAIN got[s] : got[s][i] = got[s][j] => i = j
    /\ \A q \in refused[s] :
         \E i \in DOMAIN got[s] : got[s][i] = q \/ got[s][i] - q >= ReplayWindow

(* A packet of a registered session, timestamped within discoMaxSkew of    *)
(* our clock, is led to that session by its tag when it is read: the       *)
(* rotation never leaves a live session without the tag its peer uses.     *)
FreshFindsItsSession ==
  [][(reader = None /\ reader' # None) =>
       LET p == reader'.p IN
       (p.key \in Registered /\ p.ts - now <= MaxSkew /\ now - p.ts <= MaxSkew)
         => p.key \in reader'.bucket]_vars
=============================================================================
