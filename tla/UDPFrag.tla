------------------------------ MODULE UDPFrag -------------------------------
(***************************************************************************)
(* core/internal/frag and its two users: a UDP payload too large for one   *)
(* QUIC datagram is cut up by FragUDPMessage, its fragments travel as      *)
(* datagrams that may be lost, duplicated and reordered, and a Defragger   *)
(* puts them together again.                                               *)
(*                                                                         *)
(* A payload is a sequence of bytes, each of which knows the packet it     *)
(* came from and its place in it, so that what comes out can be compared   *)
(* with what went in.                                                      *)
(***************************************************************************)
EXTENDS Integers, FiniteSets, FiniteSetsExt, Sequences, SequencesExt

CONSTANTS
  Packet,         \* the UDP payloads handed to the sender
  Lengths,        \* the payload lengths to choose from
  MaxLoad,        \* bound on their sum
  MaxSizes,       \* datagram sizes the connection may allow
  HeaderSize,     \* UDPMessage.HeaderSize(), the same for all of them
  PacketID,       \* the identifiers the sender draws from
  ByteRange,      \* the number of values of a uint8
  MaxEntries,     \* defraggerMaxEntries
  MaxMessageSize, \* defraggerMaxMessageSize
  Timeout,        \* defraggerTimeout
  MaxTime,        \* bound on the clock
  MaxCopies,      \* bound on the datagrams that arrive a second time
  CutLengths,     \* the payload lengths and datagram sizes over which
  CutSizes        \*   FragUDPMessage is checked by itself

FragAssumption ==
  /\ Lengths \subseteq Nat
  /\ MaxLoad \in Nat
  /\ MaxSizes \subseteq Nat
  /\ HeaderSize \in Nat
  /\ ByteRange \in Nat \ {0}
  /\ MaxEntries \in Nat \ {0}
  /\ MaxMessageSize \in Nat
  /\ Timeout \in Nat
  /\ MaxTime \in Nat
  /\ MaxCopies \in Nat
  /\ CutLengths \subseteq Nat
  /\ CutSizes \subseteq Nat

VARIABLES
  clock,
  length,     \* the length of each payload
  limit,      \* the datagram size each was sent under; 0 before
  sent,       \* the datagrams each payload went out as, in order
  panicked,   \* the sender indexed past its slice of fragments
  wire,       \* the datagrams sent, each of which may arrive any time
  arrived,    \* those that did
  copies,     \* how often one arrived again
  entries,    \* Defragger.entries
  out,        \* what Feed returned, in no order
  received,   \* bytes received from the remote, and bytes reported to the
  logged,     \*   traffic logger as received, by the server's receiveLoop
  (* History, read by the properties only. *)
  got,        \* the fragments of each packet fed to the Defragger
  touched,    \* when a fragment of a packet was last stored
  disturbed   \* packets that may have been dropped by timeout or for room

sendVars == <<length, limit, sent, panicked, received, logged>>
histVars == <<got, touched, disturbed>>
wireVars == <<wire, arrived, copies>>
vars == <<clock, sendVars, wireVars, entries, out, histVars>>

Payload(k) == [i \in 1..length[k] |-> <<k, i>>]

Size(m) == HeaderSize + Len(m.data)
-----------------------------------------------------------------------------
(***************************************************************************)
(* FragUDPMessage.                                                         *)
(***************************************************************************)
RoundedUp(a, b) == (a + b - 1) \div b

FragCount(n, max) == RoundedUp(n, max) % ByteRange

(* The i-th fragment of m holds the next max bytes, or what is left.       *)
Fragment(m, i, max) ==
  LET n == Len(m.data)
      upto == IF i * max > n THEN n ELSE i * max
  IN  [m EXCEPT !.frag = i - 1, !.count = FragCount(n, max),
                !.data = SubSeq(m.data, (i - 1) * max + 1, upto)]

(* Writing fragment number FragCount goes past the end of the slice.       *)
Panics(m, maxSize) ==
  LET max == maxSize - HeaderSize
  IN  /\ Size(m) > maxSize
      /\ max > 0
      /\ RoundedUp(Len(m.data), max) > FragCount(Len(m.data), max)

FragUDPMessage(m, maxSize) ==
  LET max == maxSize - HeaderSize
  IN  IF Size(m) <= maxSize THEN <<m>>
      ELSE IF max <= 0 THEN <<>>
      ELSE [i \in 1..FragCount(Len(m.data), max) |-> Fragment(m, i, max)]
-----------------------------------------------------------------------------
(***************************************************************************)
(* Defragger.Feed.                                                         *)
(***************************************************************************)
NoFrag == [frag |-> -1, data |-> <<>>]

NoGroup == [frags |-> <<>>, count |-> 0, size |-> 0, last |-> 0]

Held(es) == {id \in PacketID : es[id] # NoGroup}

sweep(es, now) ==
  [id \in PacketID |-> IF now - es[id].last > Timeout THEN NoGroup ELSE es[id]]

(* evictOldest: of several least recently updated groups, any.             *)
NewestOf(es) ==
  {id \in Held(es) : \A other \in Held(es) : es[other].last <= es[id].last}

OldestOf(es) ==
  {id \in Held(es) : \A other \in Held(es) : es[id].last <= es[other].last}

evictOldest(es) == {[es EXCEPT ![id] = NoGroup] : id \in OldestOf(es)}

(* The table with room for a new group under id.                           *)
HasRoom(es) == Cardinality(Held(es)) < MaxEntries

Begun(n) == [NoGroup EXCEPT !.frags = [i \in 1..n |-> NoFrag]]

StoredInArrivalOrder(es, m, now) ==
  LET e == es[m.id]
  IN  [es EXCEPT ![m.id] =
         [frags |-> [e.frags EXCEPT ![e.count + 1] = m], count |-> e.count + 1,
          size |-> e.size + Len(m.data), last |-> now]]

StoredInto(es, m, now) ==
  LET e == es[m.id]
  IN  [es EXCEPT ![m.id] =
         [frags |-> [e.frags EXCEPT ![m.frag + 1] = m], count |-> e.count + 1,
          size |-> e.size + Len(m.data), last |-> now]]

(* Whether what is held under m's identifier can be m's group.             *)
SameGroup(e, m) == e # NoGroup /\ Len(e.frags) = m.count

(* The tables into which m is about to be stored.                          *)
Opened(es, m) ==
  IF SameGroup(es[m.id], m) THEN {es}
  ELSE {[t EXCEPT ![m.id] = Begun(m.count)] :
          t \in IF es[m.id] = NoGroup /\ ~HasRoom(es) THEN evictOldest(es) ELSE {es}}

Duplicate(es, m) ==
  SameGroup(es[m.id], m) /\ es[m.id].frags[m.frag + 1] # NoFrag

(* What the table and the answer become once m is stored.                  *)
Settled(es, m) ==
  LET e == es[m.id]
      dropped == [es EXCEPT ![m.id] = NoGroup]
  IN  IF e.size > MaxMessageSize THEN [es |-> dropped, msg |-> <<>>]
      ELSE IF e.count # Len(e.frags) THEN [es |-> es, msg |-> <<>>]
      ELSE [es |-> dropped,
            msg |-> <<[m EXCEPT !.frag = 0, !.count = 1,
                          !.data = FlattenSeq([i \in 1..Len(e.frags) |-> e.frags[i].data])]>>]

(* Feed: the possible outcomes, each a table and at most one message.      *)
Feed(es, m, now) ==
  IF m.count <= 1 THEN {[es |-> es, msg |-> <<m>>]}
  ELSE IF m.frag >= m.count THEN {[es |-> es, msg |-> <<>>]}
  ELSE LET swept == sweep(es, now)
       IN  IF Duplicate(swept, m) THEN {[es |-> swept, msg |-> <<>>]}
           ELSE {Settled(StoredInto(t, m, now), m) : t \in Opened(swept, m)}
-----------------------------------------------------------------------------
Init ==
  /\ clock = 0
  /\ length \in [Packet -> Lengths]
  /\ MapThenSumSet(LAMBDA k : length[k], Packet) <= MaxLoad
  /\ limit = [k \in Packet |-> 0]
  /\ sent = [k \in Packet |-> <<>>]
  /\ panicked = FALSE
  /\ wire = {}
  /\ arrived = {}
  /\ copies = 0
  /\ entries = [id \in PacketID |-> NoGroup]
  /\ out = {}
  /\ received = 0
  /\ logged = 0
  /\ got = [k \in Packet |-> {}]
  /\ touched = [k \in Packet |-> 0]
  /\ disturbed = {}

(***************************************************************************)
(* sendMessageAutoFrag, and the client's Send: the payload goes out whole  *)
(* if the connection takes it, and in fragments under a random identifier  *)
(* if not, which another may have drawn.  On the server every SendMessage  *)
(* reports its bytes to the traffic logger first.                          *)
(***************************************************************************)
Whole(k) == [addr |-> k, id |-> 0, frag |-> 0, count |-> 1, data |-> Payload(k)]

Logged(m, maxSize) ==
  LET frags == FragUDPMessage(m, maxSize)
  IN  IF Size(m) <= maxSize THEN Len(m.data)
      ELSE Len(m.data) + MapThenSumSet(LAMBDA i : Len(frags[i].data), DOMAIN frags)

Send(k, maxSize, id) ==
  LET m == [Whole(k) EXCEPT !.id = IF Size(Whole(k)) > maxSize THEN id ELSE 0]
  IN  /\ limit[k] = 0
      /\ limit' = [limit EXCEPT ![k] = maxSize]
      /\ received' = received + Len(m.data)
      /\ \/ /\ Panics(m, maxSize)
            /\ panicked' = TRUE
            /\ logged' = logged + Len(m.data)
            /\ UNCHANGED <<sent, wire>>
         \/ /\ ~Panics(m, maxSize)
            /\ sent' = [sent EXCEPT ![k] = FragUDPMessage(m, maxSize)]
            /\ wire' = wire \cup ToSet(sent'[k])
            /\ logged' = logged + Logged(m, maxSize)
            /\ UNCHANGED panicked
      /\ UNCHANGED <<clock, length, arrived, copies, entries, out, histVars>>

(***************************************************************************)
(* A datagram arrives.  It stays on the wire, where it may arrive again;   *)
(* one that never arrives is lost.                                         *)
(***************************************************************************)
Pushed(k) ==
  {j \in Packet \ {k} : got[j] # {}
     /\ Cardinality({p \in Packet \ {j} : p = k \/ (got[p] # {} /\ touched[p] >= touched[j])})
          >= MaxEntries}

Stalled(k) == {j \in {k} : got[j] # {} /\ clock - touched[j] > Timeout}

Deliver(m) ==
  \E r \in Feed(entries, m, clock) :
    /\ m \in wire
    /\ m \in arrived => copies < MaxCopies
    /\ copies' = IF m \in arrived THEN copies + 1 ELSE copies
    /\ arrived' = arrived \cup {m}
    /\ entries' = r.es
    /\ out' = out \cup ToSet(r.msg)
    /\ IF m.count > 1 /\ ~Duplicate(sweep(entries, clock), m)
       THEN /\ got' = [got EXCEPT ![m.addr] = @ \cup {m.frag}]
            /\ touched' = [touched EXCEPT ![m.addr] = clock]
            /\ disturbed' = disturbed \cup Pushed(m.addr) \cup Stalled(m.addr)
       ELSE UNCHANGED histVars
    /\ UNCHANGED <<clock, sendVars, wire>>

Tick ==
  /\ clock < MaxTime
  /\ clock' = clock + 1
  /\ UNCHANGED <<sendVars, wireVars, entries, out, histVars>>

Next ==
  \/ \E k \in Packet, max \in MaxSizes, id \in PacketID : Send(k, max, id)
  \/ \E m \in wire : Deliver(m)
  \/ Tick

Spec == Init /\ [][Next]_vars
-----------------------------------------------------------------------------
(***************************************************************************)
(* FragUDPMessage: the fragments, in order, make up the payload, none is   *)
(* empty, each of them fits a datagram and they agree on their number --   *)
(* as long as the payload needs no more than a uint8 can count; past that  *)
(* it goes past its slice.  (Looked at before anything is sent.)           *)
(***************************************************************************)
FragmentsFit ==
  limit = [k \in Packet |-> 0] =>
  \A n \in CutLengths, size \in {z \in CutSizes : z > HeaderSize} :
    LET m == [addr |-> 0, id |-> 0, frag |-> 0, count |-> 1, data |-> [i \in 1..n |-> i]]
        frags == FragUDPMessage(m, size)
    IN  IF (ByteRange - 1) * (size - HeaderSize) < n THEN Panics(m, size)
        ELSE /\ ~Panics(m, size)
             /\ FlattenSeq([i \in DOMAIN frags |-> frags[i].data]) = m.data
             /\ \A i \in DOMAIN frags : /\ Size(frags[i]) <= size
                                        /\ frags[i].data # <<>>
                                        /\ frags[i].count = Len(frags)

(* The packets in fragments that drew the same identifier as k.            *)
Namesakes(k) ==
  {j \in Packet \ {k} : Len(sent[j]) > 1 /\ Len(sent[k]) > 1 /\ sent[j][1].id = sent[k][1].id}

(***************************************************************************)
(* What the Defragger hands on is, byte for byte and in order, a payload   *)
(* that was sent, under the address it was sent to, unless another payload *)
(* cut into as many fragments drew the same identifier.                    *)
(***************************************************************************)
Intact ==
  \A m \in out :
    (\A j \in Namesakes(m.addr) : Len(sent[j]) # Len(sent[m.addr]))
      => m.data = Payload(m.addr)

(***************************************************************************)
(* The table keeps within its limits: so many groups, none larger than a   *)
(* message may be, none complete, and each accounting for exactly the      *)
(* fragments it holds.                                                     *)
(***************************************************************************)
GroupsAccounted ==
  /\ Cardinality(Held(entries)) <= MaxEntries
  /\ \A id \in Held(entries) :
       LET e == entries[id]
           have == {i \in DOMAIN e.frags : e.frags[i] # NoFrag}
       IN  /\ e.count = Cardinality(have)
           /\ e.count \in 1..(Len(e.frags) - 1)
           /\ e.size = MapThenSumSet(LAMBDA i : Len(e.frags[i].data), have)
           /\ e.size <= MaxMessageSize
           /\ e.last <= clock

(***************************************************************************)
(* "Dropping the newest group instead would be self-defeating": a packet   *)
(* all of whose fragments arrive, none later than the timeout after the    *)
(* one before and with fewer than defraggerMaxEntries other groups updated *)
(* in between, is handed on, if its identifier is its own.                 *)
(***************************************************************************)
UndisturbedCompletes ==
  \A k \in Packet :
    (/\ Len(sent[k]) > 1
     /\ Cardinality(got[k]) = Len(sent[k])
     /\ k \notin disturbed
     /\ Namesakes(k) = {}
     /\ length[k] <= MaxMessageSize)
    => \E m \in out : m.addr = k /\ m.data = Payload(k)

(***************************************************************************)
(* "Rx is the bytes received by the server from the remote": the traffic   *)
(* logger is told of every byte received once.                             *)
(***************************************************************************)
LoggedOnce == logged = received
=============================================================================
