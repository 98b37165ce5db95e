------------------------------- MODULE Gecko --------------------------------
(***************************************************************************)
(* extras/obfs/gecko.go: QUIC's long-header packets are cut into chunks,   *)
(* each a datagram of its own that may be lost, duplicated and reordered,  *)
(* and put together again per source and message number; short-header      *)
(* packets pass through.                                                   *)
(*                                                                         *)
(* Time runs in steps, and a datagram is gone LinkLife steps after it was  *)
(* sent. Nothing paces a sender, and the counter its message numbers are   *)
(* the last eight bits of is shared by all it sends to: a number comes     *)
(* round as early as it may.                                               *)
(***************************************************************************)
EXTENDS Integers, FiniteSets, Sequences

CONSTANTS
  Sources,        \* the peers packets come from
  IdRange,        \* the number of values of a uint8
  Chunks,         \* geckoMinFragmentChunks..geckoMaxFragmentChunks
  MaxPerSource,   \* geckoMaxPerSource
  MaxReassembly,  \* geckoMaxReassembly
  TTL,            \* geckoReassemblyTTL
  GCEvery,        \* the period of gcLoop
  LinkLife,       \* how long a datagram may be under way
  MaxSends,       \* bounds on the packets of each source
  MaxTime         \* bound on the clock

GeckoAssumption ==
  /\ IdRange \in Nat \ {0}
  /\ Chunks \subseteq Nat \ {0, 1}
  /\ MaxPerSource \in Nat \ {0} /\ MaxReassembly \in Nat \ {0}
  /\ TTL \in Nat /\ GCEvery \in Nat \ {0} /\ LinkLife \in Nat
  /\ MaxSends \in [Sources -> Nat] /\ MaxTime \in Nat

VARIABLES
  clock,
  count,       \* geckoPacketConn.msgID of each source's sending end
  wire,        \* the datagrams under way
  reassembly,  \* the entries: sets of records, at most one per key
  perSource,   \* perSource
  gcLoop,      \* when gcLoop last ran, or that it has ended
  long,        \* the packets cut up, as the payload they were
  torn,        \* those of which a chunk could not be written
  up           \* the payloads handed up

vars == <<clock, count, wire, reassembly, perSource, gcLoop, long, torn, up>>

Ended == -1

Numbers == 0..(IdRange - 1)

Key == Sources \X Numbers
-----------------------------------------------------------------------------
(***************************************************************************)
(* The send path.  A packet is what its chunks hold, in order: a chunk     *)
(* knows its packet's number in the sender's count, its place, and when it *)
(* was sent.                                                               *)
(***************************************************************************)
Payload(s, n, total, at) == [i \in 1..total |-> <<s, n, i, at>>]

msgID(n) == n % IdRange

frame(s, n, i, total) ==
  [src |-> s, id |-> msgID(n), idx |-> i, total |-> total,
   data |-> <<s, n, i, clock>>, sent |-> clock]

writeFragmented(s, total) ==
  /\ count[s] < MaxSends[s]
  /\ count' = [count EXCEPT ![s] = @ + 1]
  /\ wire' = wire \cup {frame(s, count'[s], i, total) : i \in 1..total}
  /\ long' = long \cup {Payload(s, count'[s], total, clock)}
  /\ UNCHANGED <<clock, reassembly, perSource, gcLoop, torn, up>>

(***************************************************************************)
(* One chunk cannot be written: those before it are under way, the rest of *)
(* the packet is not.                                                      *)
(***************************************************************************)
writeFails(s, total) ==
  /\ count[s] < MaxSends[s]
  /\ count' = [count EXCEPT ![s] = @ + 1]
  /\ wire' = wire \cup {frame(s, count'[s], i, total) : i \in 1..(total - 1)}
  /\ torn' = torn \cup {Payload(s, count'[s], total, clock)}
  /\ UNCHANGED <<clock, reassembly, perSource, gcLoop, long, up>>

(* The source sends a packet to another address than ours.                 *)
writeElsewhere(s) ==
  /\ count[s] < MaxSends[s]
  /\ count' = [count EXCEPT ![s] = @ + 1]
  /\ UNCHANGED <<clock, wire, reassembly, perSource, gcLoop, long, torn, up>>
-----------------------------------------------------------------------------
(***************************************************************************)
(* acceptChunk, under mu.                                                  *)
(***************************************************************************)
Of(es, k) == {e \in es : e.key = k}

NoChunk == <<>>

dropEntryKeepsCount(t, k) == [t EXCEPT !.es = @ \ Of(@, k)]

(* dropEntryLocked, over the two maps.                                     *)
dropEntryLocked(t, k) ==
  IF Of(t.es, k) = {} THEN t
  ELSE [es |-> t.es \ Of(t.es, k), per |-> [t.per EXCEPT ![k[1]] = @ - 1]]

(* evictOldestLocked: of several with the earliest deadline, any.          *)
evictOldestLocked(t) ==
  {dropEntryLocked(t, e.key) :
     e \in {e \in t.es : \A other \in t.es : e.deadline <= other.deadline}}

Begun(k, total) ==
  [key |-> k, total |-> total, deadline |-> clock + TTL,
   chunks |-> [i \in 1..total |-> NoChunk]]

(* The tables in which f's entry is, if it may have one.                   *)
Entered(t, f) ==
  LET k == <<f.src, f.id>>
      roomy == IF Cardinality(t.es) >= MaxReassembly THEN evictOldestLocked(t) ELSE {t}
  IN  IF Of(t.es, k) # {} THEN {t}
      ELSE IF t.per[f.src] >= MaxPerSource THEN {}
      ELSE {[es |-> r.es \cup {Begun(k, f.total)}, per |-> [r.per EXCEPT ![f.src] = @ + 1]]
              : r \in roomy}

(* A chunk of another count is dropped, and so is one that is there.       *)
Wanted(e, f) == e.total = f.total /\ e.chunks[f.idx] = NoChunk

Complete(e) == \A i \in 1..e.total : e.chunks[i] # NoChunk

Stored(t, e, f) ==
  LET filled == [e EXCEPT !.chunks[f.idx] = f.data]
  IN  IF Complete(filled)
      THEN [t |-> dropEntryLocked(t, e.key), out |-> {filled.chunks}]
      ELSE [t |-> [t EXCEPT !.es = (@ \ {e}) \cup {filled}], out |-> {}]

acceptChunk(f) ==
  LET t0 == [es |-> reassembly, per |-> perSource]
      none == [t |-> t0, out |-> {}]
      ts == Entered(t0, f)
  IN  IF ts = {} THEN {none}
      ELSE {LET e == CHOOSE e \in t.es : e.key = <<f.src, f.id>>
            IN  IF Wanted(e, f) THEN Stored(t, e, f) ELSE [none EXCEPT !.t = t] : t \in ts}

(* ReadFrom with a fragment: it stays on the wire, where it may come again. *)
ReadFrom(f) ==
  \E r \in acceptChunk(f) :
    /\ reassembly' = r.t.es
    /\ perSource' = r.t.per
    /\ up' = up \cup r.out
    /\ UNCHANGED <<clock, count, wire, gcLoop, long, torn>>
-----------------------------------------------------------------------------
(***************************************************************************)
(* Time passes: datagrams are lost, and gcExpired runs every GCEvery steps *)
(* as long as gcLoop does, after the conn was closed no more.              *)
(***************************************************************************)
ExpiredLate(e, now) == now > e.deadline + 2 * TTL

Expired(e, now) == now > e.deadline

gcExpired(now) ==
  LET dead == {e \in reassembly : Expired(e, now)}
  IN  /\ reassembly' = reassembly \ dead
      /\ perSource' = [s \in Sources |->
                         perSource[s] - Cardinality({e \in dead : e.key[1] = s})]

Tick ==
  /\ clock < MaxTime
  /\ clock' = clock + 1
  /\ wire' = {f \in wire : clock' - f.sent <= LinkLife}
  /\ IF gcLoop # Ended /\ clock' - gcLoop >= GCEvery
     THEN gcExpired(clock') /\ gcLoop' = clock'
     ELSE UNCHANGED <<reassembly, perSource, gcLoop>>
  /\ UNCHANGED <<count, long, torn, up>>

(* Close ends gcLoop; a reader meets the closed socket.                    *)
Close ==
  /\ gcLoop # Ended
  /\ gcLoop' = Ended
  /\ wire' = {}
  /\ UNCHANGED <<clock, count, reassembly, perSource, long, torn, up>>

Init ==
  /\ clock = 0
  /\ count = [s \in Sources |-> 0]
  /\ wire = {}
  /\ reassembly = {}
  /\ perSource = [s \in Sources |-> 0]
  /\ gcLoop = 0
  /\ long = {} /\ torn = {} /\ up = {}

Open == gcLoop # Ended

Next ==
  \/ Open /\ \E s \in Sources, total \in Chunks : writeFragmented(s, total)
  \/ Open /\ \E s \in Sources, total \in Chunks : writeFails(s, total)
  \/ Open /\ \E s \in Sources : writeElsewhere(s)
  \/ \E f \in wire : ReadFrom(f)
  \/ Tick
  \/ Close

Spec == Init /\ [][Next]_vars
-----------------------------------------------------------------------------
(***************************************************************************)
(* What a peer's packets are turned into is a lossy channel of whole       *)
(* packets, but for one thing: two packets of a source may be confused     *)
(* that have the same number and were sent within the time a datagram is   *)
(* under way, an entry lives and gcLoop is late. A packet of which a chunk *)
(* was not written is never handed up.                                     *)
(***************************************************************************)
Hold == LinkLife + TTL + GCEvery

Piece == Sources \X Nat \X Nat \X Nat

Confusable(x, y) ==
  /\ x[1] = y[1]
  /\ x[2] # y[2] /\ msgID(x[2]) = msgID(y[2])
  /\ x[4] - y[4] < Hold /\ y[4] - x[4] < Hold

Channel == INSTANCE Datagrams
  WITH Clash <- {z \in Piece \X Piece : Confusable(z[1], z[2])},
       sent <- long, delivered <- up

ImplementsDatagrams == Channel!Spec

(***************************************************************************)
(* perSource counts a source's entries, exactly, whichever way they end -- *)
(* completed, expired or evicted -- so that a source that is refused at    *)
(* its cap is refused for no longer than its entries live: the two caps    *)
(* hold, and none outlives its deadline by more than a round of gcLoop.    *)
(***************************************************************************)
EntriesAccounted ==
  /\ \A s \in Sources :
       /\ perSource[s] = Cardinality({e \in reassembly : e.key[1] = s})
       /\ perSource[s] <= MaxPerSource
  /\ Cardinality(reassembly) <= MaxReassembly
  /\ \A k \in Key : Cardinality(Of(reassembly, k)) <= 1
  /\ gcLoop # Ended => \A e \in reassembly : clock <= e.deadline + GCEvery
=============================================================================
