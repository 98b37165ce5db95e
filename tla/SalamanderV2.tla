---------------------------- MODULE SalamanderV2 ----------------------------
(***************************************************************************)
(* extras/obfs/salamander_v2.go on the clock extras/timesource gives it:   *)
(* a datagram is handed up if it authenticates, its time stamp is within   *)
(* the window around the clock's reading, and its salt is not in the       *)
(* replay set, four buckets that are cleared in turn.  Every connection a  *)
(* client makes and every start of a process builds a new obfuscator, with *)
(* an empty set; the system clock may be wrong at the start, be stepped at *)
(* any time, and run on while the monotonic clock stands still (a          *)
(* suspended host).                                                        *)
(***************************************************************************)
EXTENDS Integers, FiniteSets, Sequences, FiniteSetsExt

CONSTANTS
  Datagrams,       \* the datagrams the peer sends
  Epoch,           \* what an unset system clock reads at the start
  Start,           \* the true time at the start
  Floor,           \* the build time of the binary; 0 is unknown
  WallStarts,      \* what the system clock may read at the start
  PeerSkews,       \* how far the peer's clock is ahead
  Offers,          \* by how much a time server's answers may be wrong
  Servers,         \* the number of time servers configured
  QueryTimeout,    \* how long each of them is waited for
  Second,          \* a second, the grain of a time stamp
  MaxSkew,         \* smV2MaxSkew, and replayPeriod
  StepThreshold,   \* clockStepThreshold
  SourceError,     \* half of maxRoundTrip
  BucketCount,     \* the number of buckets
  MaxSteps,        \* bounds: steps and suspensions of the system clock,
  MaxLives,        \*   obfuscators,
  MaxTime          \*   and time

SalamanderAssumption ==
  /\ {Start, MaxSkew, StepThreshold, BucketCount, MaxSteps, MaxLives, MaxTime} \subseteq Nat
  /\ {Epoch, Floor} \subseteq Nat
  /\ WallStarts \subseteq Nat
  /\ PeerSkews \subseteq Int /\ Offers \subseteq Int
  /\ {SourceError, QueryTimeout} \subseteq Nat /\ {Servers, Second} \subseteq Nat \ {0}
  /\ MaxSkew > 0 /\ MaxSkew % Second = 0 /\ BucketCount >= 4

VARIABLES
  true,      \* the time it is,
  wall,      \* the system clock's reading,
  mono,      \*   and the monotonic clock's
  steps,
  skew,      \* the peer's clock against the true time
  clk,       \* timesource.Clock, if one was handed to the obfuscator
  life,      \* how many obfuscators there were; 0 at the start
  proc,      \* "down", "asking" the time servers, "up", or "fatal": refused to start
  query,     \* what they have answered so far
  boot,      \* bootTime
  replay,    \* replaySet
  wire,      \* the datagrams sent, with their time stamps
  (* History, read by the properties only. *)
  took,      \* the lives in which each datagram was handed up, in order
  started,   \* the true time at which the obfuscator was built
  high,      \* the most the clock has run ahead of mono in this life,
  drop,      \*   and the most it has since fallen back
  touched,   \* the system clock was stepped or suspended in this process
  honest     \* most answers of the time servers asked were right

clocks == <<true, wall, mono, steps, skew>>
history == <<took, started, high, drop, touched, honest>>
vars == <<clocks, clk, life, proc, query, boot, replay, wire, history>>

(* A time as Go keeps it; without a monotonic part mono is NoMono.         *)
NoMono == -1000

Sub(t, u) == IF t.mono # NoMono /\ u.mono # NoMono THEN t.mono - u.mono ELSE t.wall - u.wall

(* The second a time is in.                                                *)
Unix(t) == t.wall - (t.wall % Second)
-----------------------------------------------------------------------------
(***************************************************************************)
(* timesource.Clock.  Now strips the monotonic reading; it drops the       *)
(* correction when the system clock moved without it.                      *)
(***************************************************************************)
NoClock == [on |-> FALSE, corrected |-> FALSE, offset |-> 0, anchorWall |-> 0, anchorMono |-> 0]

Stepped(c) ==
  LET diff == wall - (c.anchorWall + (mono - c.anchorMono))
  IN  diff > StepThreshold \/ diff < -StepThreshold

release(c) == [c EXCEPT !.corrected = FALSE, !.offset = 0]

(* What Now leaves of the clock, and what it returns.                      *)
Afterwards(c) == IF c.corrected /\ Stepped(c) THEN release(c) ELSE c

Now(c) ==
  IF ~c.on THEN [wall |-> wall, mono |-> mono]
  ELSE [wall |-> wall + Afterwards(c).offset, mono |-> NoMono]

Correct(offset) ==
  [on |-> TRUE, corrected |-> TRUE, offset |-> offset, anchorWall |-> wall, anchorMono |-> mono]
-----------------------------------------------------------------------------
(***************************************************************************)
(* SNTPClient.Query asks one server after the other.  Each fails or        *)
(* answers; an answer is off by some error (a wrong time, or half of a     *)
(* lopsided round trip) and is kept as the time it was then, and as its    *)
(* distance from the system clock, by which the answers are sorted.        *)
(***************************************************************************)
NoQuery == [asked |-> 0, start |-> 0, since |-> 0, answers |-> <<>>]

Asked == [query EXCEPT !.asked = @ + 1, !.since = mono]

Answer(x) == [time |-> true + x, offset |-> true + x - wall, err |-> x]

(* results[len(results)/2]; answers of equal offset sort in any order.     *)
Median(r) ==
  LET half == Len(r) \div 2
  IN  {i \in 1..Len(r) :
         /\ Cardinality({j \in 1..Len(r) : r[j].offset < r[i].offset}) <= half
         /\ Cardinality({j \in 1..Len(r) : r[j].offset <= r[i].offset}) > half}

NeedsCorrection == Floor # 0 /\ wall < Floor

Right(x) == x >= -SourceError /\ x <= SourceError

MostRight(r) == 2 * Cardinality({i \in 1..Len(r) : ~Right(r[i].err)}) < Len(r)
-----------------------------------------------------------------------------
(***************************************************************************)
(* The replay set.                                                         *)
(***************************************************************************)
NoTime == [wall |-> 0, mono |-> NoMono - 1]

EmptySet == [buckets |-> [i \in 0..(BucketCount - 1) |-> {}], idx |-> 0, last |-> NoTime]

(* seenOrAdd first catches up with the clock, one bucket per period; a     *)
(* clock that went back leaves the set alone.                              *)
PeriodsPassed(r, now) ==
  LET d == Sub(now, r.last) IN IF r.last = NoTime \/ d < 0 THEN 0 ELSE d \div MaxSkew

Add(t, d) == [wall |-> t.wall + d, mono |-> IF t.mono = NoMono THEN NoMono ELSE t.mono + d]

(* The bucket moved to is cleared, each time.                              *)
Cleared(r, n) == {(r.idx + k) % BucketCount : k \in 1..n}

Rotated(r, now) ==
  LET n == PeriodsPassed(r, now)
  IN  [buckets |-> [i \in DOMAIN r.buckets |-> IF i \in Cleared(r, n) THEN {} ELSE r.buckets[i]],
       idx |-> (r.idx + n) % BucketCount,
       last |-> IF r.last = NoTime THEN now ELSE Add(r.last, n * MaxSkew)]

Seen(r, d) == \E i \in DOMAIN r.buckets : d \in r.buckets[i]

Added(r, d) == [r EXCEPT !.buckets[r.idx] = @ \cup {d}]
-----------------------------------------------------------------------------
(***************************************************************************)
(* The window, with the boot barrier until the obfuscator has been up for  *)
(* MaxSkew.                                                                *)
(***************************************************************************)
NoBarrier(now) == Unix(now) - MaxSkew

Lower(now) ==
  LET low == Unix(now) - MaxSkew
  IN  IF Sub(now, boot) < MaxSkew /\ Unix(boot) > low THEN Unix(boot) ELSE low

timestampInWindow(ts, now) == ts <= Unix(now) + MaxSkew /\ ts >= Lower(now)

(* Each reading of the clock is what the history records.                  *)
Observe(now) ==
  LET ahead == now.wall - mono
  IN  /\ high' = IF ahead > high THEN ahead ELSE high
      /\ drop' = IF high' - ahead > drop THEN high' - ahead ELSE drop

(***************************************************************************)
(* Obfuscate, at the peer: the datagram carries the second the peer's      *)
(* clock is in; sent is the true time.                                     *)
(***************************************************************************)
PeerSends(d) ==
  /\ \A m \in wire : m.d # d
  /\ wire' = wire \cup {[d |-> d, ts |-> Unix([wall |-> true + skew, mono |-> NoMono]),
                         sent |-> true]}
  /\ UNCHANGED <<clocks, clk, life, proc, query, boot, replay, history>>

(* Obfuscate here reads the clock, and so may retire the correction.       *)
Obfuscate ==
  /\ proc = "up"
  /\ clk' = Afterwards(clk)
  /\ Observe(Now(clk))
  /\ UNCHANGED <<clocks, life, proc, query, boot, replay, wire, took, started, touched, honest>>

(***************************************************************************)
(* Deobfuscate of a datagram that authenticates (any other is dropped      *)
(* before the clock is read).  It may come again at any time.              *)
(***************************************************************************)
Deobfuscate(m) ==
  LET now == Now(clk)
      r == Rotated(replay, now)
  IN  /\ proc = "up"
      /\ clk' = Afterwards(clk)
      /\ Observe(now)
      /\ IF ~timestampInWindow(m.ts, now) THEN UNCHANGED <<replay, took>>
         ELSE IF Seen(r, m.d) THEN replay' = r /\ UNCHANGED took
         ELSE /\ replay' = Added(r, m.d)
              /\ Len(took[m.d]) < 2
              /\ took' = [took EXCEPT ![m.d] = Append(@, [life |-> life, ts |-> m.ts,
                                                           sent |-> m.sent])]
      /\ UNCHANGED <<clocks, life, proc, query, boot, wire, started, touched, honest>>
-----------------------------------------------------------------------------
(* NewSalamanderV2; bootTime is read from the final clock.                 *)
NewSalamanderV2(c) ==
  /\ proc' = "up"
  /\ life' = life + 1
  /\ clk' = c
  /\ boot' = Now(c)
  /\ replay' = EmptySet
  /\ started' = true
  /\ high' = boot'.wall - mono
  /\ drop' = 0

(* bootstrapClock: the system clock will do unless it reads less than the  *)
(* build time, which is 0 when it is not known.                            *)
Boot ==
  /\ proc = "down"
  /\ life < MaxLives
  /\ touched' = FALSE
  /\ IF NeedsCorrection
     THEN /\ proc' = "asking"
          /\ query' = [NoQuery EXCEPT !.start = mono, !.since = mono]
          /\ UNCHANGED <<clk, life, boot, replay, started, high, drop, honest>>
     ELSE NewSalamanderV2(NoClock) /\ honest' = TRUE /\ UNCHANGED query
  /\ UNCHANGED <<clocks, wire, took>>

queryOne ==
  /\ proc = "asking" /\ query.asked < Servers
  /\ \/ query' = Asked
     \/ \E x \in Offers : query' = [Asked EXCEPT !.answers = Append(@, Answer(x))]
  /\ UNCHANGED <<clocks, clk, life, proc, boot, replay, wire, history>>

(* All have been asked.  The correction is what the chosen answer was when *)
(* it came against what the system clock reads now.                        *)
Bootstrap ==
  /\ proc = "asking" /\ query.asked = Servers
  /\ query' = NoQuery
  /\ \E i \in Median(query.answers) :
       LET res == query.answers[i]
       IN  /\ res.time >= Floor
           /\ NewSalamanderV2(Correct(res.time - wall))
           /\ honest' = (MostRight(query.answers) /\ ~touched)
  /\ UNCHANGED <<clocks, wire, took, touched>>

(* No answer, or one that is less than the build time, too: the process    *)
(* refuses to start.                                                       *)
BootstrapFails ==
  /\ proc = "asking" /\ query.asked = Servers
  /\ query.answers # <<>> =>
       \E i \in Median(query.answers) : query.answers[i].time < Floor
  /\ proc' = "fatal" /\ query' = NoQuery
  /\ UNCHANGED <<clocks, clk, life, boot, replay, wire, history>>

(* The client connects again: Config builds a fresh obfuscator on the      *)
(* clock the process has.                                                  *)
Reconnect ==
  /\ proc = "up"
  /\ life < MaxLives
  /\ NewSalamanderV2(Afterwards(clk))
  /\ UNCHANGED <<clocks, query, wire, took, touched, honest>>

(* The process ends, for whatever reason; a fatal one is started again.    *)
Stop ==
  /\ proc # "down"
  /\ proc' = "down" /\ query' = NoQuery
  /\ clk' = NoClock /\ boot' = NoTime /\ replay' = EmptySet
  /\ started' = 0 /\ high' = 0 /\ drop' = 0
  /\ touched' = FALSE /\ honest' = TRUE
  /\ UNCHANGED <<clocks, life, wire, took>>

(* A server is given up after its timeout; the rest of Query takes no time.*)
Tick ==
  /\ true < Start + MaxTime
  /\ proc = "asking" => query.asked < Servers /\ mono - query.since < QueryTimeout
  /\ true' = true + 1 /\ wall' = wall + 1 /\ mono' = mono + 1
  /\ UNCHANGED <<steps, skew, clk, life, proc, query, boot, replay, wire, history>>

(* The host sleeps: the monotonic clock does not run.                      *)
Suspend ==
  /\ true < Start + MaxTime
  /\ steps < MaxSteps
  /\ steps' = steps + 1
  /\ true' = true + 1 + StepThreshold /\ wall' = wall + 1 + StepThreshold
  /\ touched' = TRUE
  /\ UNCHANGED <<mono, skew, clk, life, proc, query, boot, replay, wire, took, started, high,
                 drop, honest>>

(* The host's own NTP client, or its operator, sets the system clock.      *)
StepWall(w) ==
  /\ steps < MaxSteps
  /\ steps' = steps + 1
  /\ wall' = w
  /\ touched' = TRUE
  /\ UNCHANGED <<true, mono, skew, clk, life, proc, query, boot, replay, wire, took, started,
                 high, drop, honest>>

Init ==
  /\ true = Start
  /\ wall \in WallStarts
  /\ mono = 0
  /\ steps = 0
  /\ skew \in PeerSkews
  /\ clk = NoClock
  /\ life = 0 /\ proc = "down" /\ query = NoQuery
  /\ boot = NoTime
  /\ replay = EmptySet
  /\ wire = {}
  /\ took = [d \in Datagrams |-> <<>>]
  /\ started = 0 /\ high = 0 /\ drop = 0
  /\ touched = FALSE /\ honest = TRUE

Next ==
  \/ \E d \in Datagrams : PeerSends(d)
  \/ Obfuscate
  \/ \E m \in wire : Deobfuscate(m)
  \/ Boot
  \/ queryOne
  \/ Bootstrap
  \/ BootstrapFails
  \/ Reconnect
  \/ Stop
  \/ Tick
  \/ Suspend
  \/ \E w \in {true, Epoch} : StepWall(w)

Spec == Init /\ [][Next]_vars
-----------------------------------------------------------------------------
(***************************************************************************)
(* "A timestamp and a replay set so a recorded packet cannot be made to    *)
(* produce a response twice": the same obfuscator hands a datagram up      *)
(* again only if its clock fell back by more than MaxSkew less a second    *)
(* ("retention is between three and four periods").  One that was built    *)
(* later does only if the datagram was sent less than a second plus the    *)
(* peer's lead before it was built -- a peer whose clock is ahead stamps   *)
(* what it sends before our start with times after it, which the boot      *)
(* barrier lets in -- or if the clock fell back since.                     *)
(***************************************************************************)
Lead == skew - (boot.wall - started)

HandedUpOnce ==
  \A d \in Datagrams :
    Len(took[d]) = 2 =>
      LET one == took[d][1]
          two == took[d][2]
      IN  proc = "up" /\ two.life = life =>
            \/ one.life = two.life /\ drop > MaxSkew - Second
            \/ one.life < two.life /\ (started - two.sent < Lead + Second \/ drop > 0)

(***************************************************************************)
(* The clock gets packets "inside the peer's window": in a process that    *)
(* came up with the help of mostly right time servers and an undisturbed   *)
(* system clock, the time it stamps is behind the true time by no more     *)
(* than the servers' error and the time it may have spent waiting for them *)
(* (11.5 s by default), and ahead by no more than their error and a step   *)
(* that is not noticed (17.5 s) -- whenever the system clock is right,     *)
(* however that came to be (the correction must not be added on top), and, *)
(* once corrected, until the system clock is stepped or the host sleeps.   *)
(***************************************************************************)
InsideWindow ==
  (proc = "up" /\ honest /\ (wall = true \/ (clk.corrected /\ ~touched))) =>
     LET off == Now(clk).wall - true
     IN  /\ off <= StepThreshold + SourceError
         /\ off >= -(SourceError + Servers * QueryTimeout)
=============================================================================
