----------------------------- MODULE BbrSampler -----------------------------
(***************************************************************************)
(* The bandwidth sampler of BBR (core/internal/congestion/bbr:             *)
(* bandwidth_sampler.go, windowed_filter.go, packet_number_indexed_queue.go)*)
(* with the part of the sender that feeds it: the round counter, the       *)
(* bandwidth filter and the removal of obsolete packets in                 *)
(* OnCongestionEventEx.                                                    *)
(*                                                                         *)
(* Every packet is one byte; a rate is Scale times bytes per tick, rounded *)
(* down.  The transport's loss detection is external: a packet is lost     *)
(* when one PacketThreshold later is acknowledged, or by the loss timer.   *)
(***************************************************************************)
EXTENDS Integers, Sequences, FiniteSets

CONSTANTS
  MaxPacket, MaxTime,      \* bounds: packets sent, ticks
  Window,                  \* length of both filters, in rounds
  Scale,                   \* a byte per tick, as a rate
  PacketThreshold,         \* of the transport's loss detection
  Avoid,                   \* overestimateAvoidance
  Reduce                   \* reduceExtraAckedOnBandwidthIncrease

SamplerAssumption ==
  /\ MaxPacket \in Nat /\ MaxTime \in Nat /\ Window \in Nat
  /\ Scale \in Nat \ {0} /\ PacketThreshold \in 1..3

Invalid == 0               \* invalidPacketNumber, and the zero time
Infinite == Scale * (MaxPacket + 1)

VARIABLES
  s,       \* the bandwidthSampler
  states,  \* connectionStateMap: packet number -> state when it was sent
  best,    \* the sender's maxBandwidth filter
  round,   \* [count, ends]: roundTripCount and currentRoundTripEnd
  fly,     \* the transport's outstanding packets
  acked,   \* its largest acknowledged packet
  now

vars == <<s, states, best, round, fly, acked, now>>

Least(x, y) == IF x < y THEN x ELSE y
Most(x, y) == IF x > y THEN x ELSE y
Greatest(S) == CHOOSE x \in S : \A y \in S : y <= x
Rate(bytes, delta) == (Scale * bytes) \div delta
Bytes(rate, delta) == (rate * delta) \div Scale

-----------------------------------------------------------------------------
(* WindowedFilter: three estimates, the best first.  k is what the filter's *)
(* comparator compares of a sample v.                                      *)
Entry(v, k, t) == [v |-> v, k |-> k, t |-> t]
NoExtra == [bytes |-> 0, delta |-> 0]
Reset(v, k, t) == <<Entry(v, k, t), Entry(v, k, t), Entry(v, k, t)>>

Stale(e, t) == t - e.t > Window

(* A sample below the best takes the places of those it is no worse than.  *)
Inserted(f, new) ==
  IF new.k >= f[2].k THEN <<f[1], new, new>>
  ELSE IF new.k >= f[3].k THEN <<f[1], f[2], new>>
  ELSE f

(* What is too old is replaced from the next place, and a place that has   *)
(* only repeated the one before for its share of the window, by the sample. *)
Aged(g, new) ==
  IF Stale(g[1], new.t)
    THEN IF Stale(g[2], new.t) THEN <<g[3], new, new>> ELSE <<g[2], g[3], new>>
  ELSE IF g[2].k = g[1].k /\ 4 * (new.t - g[2].t) > Window THEN <<g[1], new, new>>
  ELSE IF g[3].k = g[2].k /\ 2 * (new.t - g[3].t) > Window THEN <<g[1], g[2], new>>
  ELSE g

Update(f, v, k, t) ==
  IF f[1].k = 0 \/ k >= f[1].k \/ Stale(f[3], t) THEN Reset(v, k, t)
  ELSE Aged(Inserted(f, Entry(v, k, t)), Entry(v, k, t))

-----------------------------------------------------------------------------
(* maxAckHeightTracker.  The events it stores leave their round at zero,   *)
(* which is the time they are stored again with after a new maximum.       *)
Put(f, e, rate) ==
  LET expected == Bytes(rate, e.delta)
  IN  IF expected < e.bytes THEN Update(f, e, e.bytes - expected, 0) ELSE f

Reinsert(f, events, rate) ==
  Put(Put(Put(f, events[1].v, rate), events[2].v, rate), events[3].v, rate)

TrackerUpdate(m, rate, newMax, rnd, ackTime, bytes) ==
  LET f        == IF Reduce /\ newMax THEN Reinsert(Reset(NoExtra, 0, 0), m.filter, rate)
                  ELSE m.filter
      delta    == ackTime - m.start
      expected == Bytes(rate, delta)
      height   == m.bytes + bytes - expected
  IN  IF m.start = 0 \/ m.bytes <= (IF Avoid THEN 2 ELSE 1) * expected
        THEN [tracker |-> [filter |-> f, bytes |-> bytes, start |-> ackTime], extra |-> 0]
        ELSE [tracker |-> [filter |-> Update(f, [bytes |-> m.bytes + bytes, delta |-> delta],
                                             height, rnd),
                           bytes |-> m.bytes + bytes, start |-> m.start],
              extra |-> height]

-----------------------------------------------------------------------------
(* recentAckPoints, the last two, and the candidates for A0.               *)
Point(t, bytes) == [t |-> t, bytes |-> bytes]

RecentUpdate(r, t, bytes) ==
  IF t > r[2].t THEN <<r[2], Point(t, bytes)>> ELSE <<r[1], Point(t, bytes)>>

LessRecentPoint(r) == IF r[1].bytes # 0 THEN r[1] ELSE r[2]

(* The last loop of the code compares its index with a length that its own *)
(* pops shorten, so it drops half of what it means to.                     *)
chooseA0Point(cand, bytes) ==
  LET n     == Len(cand)
      later == {i \in 2..n : cand[i].bytes > bytes}
      i     == CHOOSE k \in later : \A j \in later : k <= j
  IN  IF n = 1 THEN [a0 |-> cand[1], rest |-> cand]
      ELSE IF later # {} THEN [a0 |-> cand[i - 1], rest |-> SubSeq(cand, i - 1, n)]
      ELSE [a0 |-> cand[n], rest |-> SubSeq(cand, n \div 2 + 1, n)]

-----------------------------------------------------------------------------
(* The connection state map, a packetNumberIndexedQueue: the entries that  *)
(* are present, by packet number.  Numbers only ascend, so no number is    *)
(* taken twice.                                                            *)
Emplace(q, pn, entry) == [p \in DOMAIN q \cup {pn} |-> IF p = pn THEN entry ELSE q[p]]
RemoveUpTo(q, pn) == [p \in {r \in DOMAIN q : r >= pn} |-> q[p]]

SendState(t) ==
  [at |-> now, sentAtAck |-> t.sentAtAck, ackedSent |-> t.ackedSent,
   ackedAt |-> t.ackedAt, limited |-> t.limited, sent |-> t.sent, acked |-> t.acked]

Init ==
  /\ s = [sent |-> 0, acked |-> 0, lost |-> 0, sentAtAck |-> 0, ackedSent |-> 0,
          ackedAt |-> 0, last |-> Invalid, limited |-> FALSE, endLimited |-> Invalid,
          recent |-> <<Point(0, 0), Point(0, 0)>>, cand |-> << >>, atEvent |-> 0,
          tracker |-> [filter |-> Reset(NoExtra, 0, 0), bytes |-> 0, start |-> 0]]
  /\ states = << >>
  /\ best = Reset(0, 0, 0)
  /\ round = [count |-> 0, ends |-> Invalid]
  /\ fly = {} /\ acked = 0 /\ now = 1

(* A packet that needs no acknowledgement takes a number and nothing else. *)
OnPacketSent(retransmittable) ==
  LET pn   == s.last + 1
      idle == fly = {}
      r    == <<Point(0, 0), Point(now, s.acked)>>
      s1   == [s EXCEPT !.last = pn]
      s2   == [s1 EXCEPT !.sent = @ + 1]
      s3   == IF ~idle THEN s2
              ELSE [s2 EXCEPT !.ackedAt = now, !.sentAtAck = s2.sent, !.ackedSent = now,
                              !.recent = IF Avoid THEN r ELSE @,
                              !.cand = IF Avoid THEN <<r[2]>> ELSE @]
  IN  /\ pn <= MaxPacket
      /\ s' = IF retransmittable THEN s3 ELSE s1
      /\ states' = IF retransmittable THEN Emplace(states, pn, SendState(s3)) ELSE states
      /\ fly' = IF retransmittable THEN fly \cup {pn} ELSE fly
      /\ UNCHANGED <<best, round, acked, now>>

(* The books of an acknowledged packet, whose state when sent was p.       *)
Acked(t, p, pn) ==
  [t EXCEPT !.acked = @ + 1, !.sentAtAck = p.sent, !.ackedSent = p.at, !.ackedAt = now,
            !.recent = IF Avoid THEN RecentUpdate(@, now, t.acked + 1) ELSE @,
            !.limited = @ /\ t.endLimited # Invalid /\ pn <= t.endLimited]

sendRate(p) ==
  IF p.at > p.ackedSent THEN Rate(p.sent - p.sentAtAck, p.at - p.ackedSent) ELSE Infinite

A0(t, p) ==
  IF Avoid /\ t.cand # << >> THEN chooseA0Point(t.cand, p.acked)
  ELSE [a0 |-> Point(p.ackedAt, p.acked), rest |-> t.cand]

(* onPacketAcknowledged, on the sampler and the samples of the event.      *)
onPacketAcknowledged(e, pn) ==
  LET p  == states[pn]
      s1 == Acked(e.s, p, pn)
      c  == A0(s1, p)
      s2 == [s1 EXCEPT !.cand = c.rest]
      bw == Least(sendRate(p), Rate(s1.acked - c.a0.bytes, now - c.a0.t))
  IN  IF pn \notin DOMAIN states THEN e
      ELSE IF p.ackedSent = 0 THEN [e EXCEPT !.s = s1]
      ELSE IF now <= c.a0.t THEN [e EXCEPT !.s = s2]
      ELSE [s |-> s2, bw |-> Most(e.bw, bw),
            limited |-> IF bw > e.bw THEN p.limited ELSE e.limited]

(* RemoveObsoletePackets: what the sender takes for the oldest packet that *)
(* may still be outstanding.                                               *)
leastUnackedTight(ack, lost) == IF ack # {} THEN Greatest(ack) - 1 ELSE Greatest(lost) + 1
leastUnacked(ack, lost) ==
  IF ack # {} THEN Greatest(ack) - 2 ELSE Greatest(lost) + 1

OnAppLimited(t) == [t EXCEPT !.limited = TRUE, !.endLimited = t.last]

(* The packets acknowledged, in ascending order, each on what the one      *)
(* before it left.                                                         *)
onAcks(first, ack) ==
  LET f[n \in 0..s.last] ==
        IF n = 0 THEN first
        ELSE IF n \in ack THEN onPacketAcknowledged(f[n - 1], n)
        ELSE f[n - 1]
  IN  f[s.last]

(* onAckEventEnd: nothing if no acknowledgement was of a packet in the map; *)
(* a new aggregation epoch leaves the last point of the previous one as a  *)
(* candidate.                                                              *)
onAckEventEnd(e, rnd) ==
  LET max   == best[1].v
      newly == e.s.acked - e.s.atEvent
      t     == TrackerUpdate(e.s.tracker, Most(max, e.bw), e.bw > max, rnd, e.s.ackedAt, newly)
  IN  IF newly = 0 THEN e.s
      ELSE [e.s EXCEPT !.atEvent = e.s.acked, !.tracker = t.tracker,
                       !.cand = IF Avoid /\ t.extra = 0
                                  THEN Append(@, LessRecentPoint(e.s.recent)) ELSE @]

(* OnCongestionEvent up to onAckEventEnd.                                  *)
Sampled(ack, lost, limited) ==
  LET s0 == IF limited THEN OnAppLimited(s) ELSE s
  IN  onAcks([s |-> [s0 EXCEPT !.lost = @ + Cardinality(lost)], bw |-> 0, limited |-> FALSE],
             ack)

(* OnCongestionEventEx as far as the sampler and the filters go.  The      *)
(* sender is app-limited before the samples are taken, when less than its  *)
(* target is in flight, after them, in PROBE_RTT, or not at all.           *)
OnCongestionEvent(ack, lost, limit) ==
  LET start == ack # {} /\ (round.ends = Invalid \/ Greatest(ack) > round.ends)
      rnd   == IF start THEN round.count + 1 ELSE round.count
      e     == Sampled(ack, lost, limit = "before")
      s1    == onAckEventEnd(e, rnd)
  IN  /\ s' = IF limit = "after" THEN OnAppLimited(s1) ELSE s1
      /\ best' = IF e.s.acked # e.s.atEvent /\ (~e.limited \/ e.bw > best[1].v)
                   THEN Update(best, e.bw, e.bw, rnd) ELSE best
      /\ round' = [count |-> rnd, ends |-> IF start THEN s.last ELSE round.ends]
      /\ states' = RemoveUpTo(states, leastUnacked(ack, lost))
      /\ fly' = fly \ (ack \cup lost)
      /\ acked' = IF ack # {} THEN Most(acked, Greatest(ack)) ELSE acked
      /\ UNCHANGED now

Limits == {"no", "before", "after"}

(* What an acknowledgement makes the transport take for lost: the packets  *)
(* PacketThreshold or more below the largest acknowledged so far.          *)
Overtaken(ack) ==
  {p \in fly \ ack : p + PacketThreshold <= Most(acked, Greatest(ack))}

(* An acknowledgement of any packets in flight.                            *)
Acknowledge ==
  \E ack \in (SUBSET fly) \ {{}}, limit \in Limits :
    OnCongestionEvent(ack, Overtaken(ack), limit)

(* The loss timer, for packets below the largest acknowledged, oldest      *)
(* first.                                                                  *)
LossTimer ==
  \E p \in fly, limit \in Limits :
    p < acked /\ OnCongestionEvent({}, {q \in fly : q <= p}, limit)

Tick ==
  /\ now < MaxTime
  /\ now' = now + 1
  /\ UNCHANGED <<s, states, best, round, fly, acked>>

Next ==
  \/ \E r \in BOOLEAN : OnPacketSent(r)
  \/ Acknowledge \/ LossTimer \/ Tick

Spec == Init /\ [][Next]_vars

-----------------------------------------------------------------------------
(* Whatever is reordered or lost, a packet that can still be acknowledged  *)
(* has its state in the map: the sender's estimate of the least unacked    *)
(* packet (bbr_sender.go, "they should differ by no more than 2 packets")  *)
(* never removes it.                                                       *)
KnownUntilResolved == fly \subseteq DOMAIN states

Sorted(f) ==
  \A i \in 1..2 : f[i].k >= f[i + 1].k /\ f[i].t <= f[i + 1].t

(* The three estimates of both filters are ordered, best and oldest first, *)
(* also when the tracker stores its events again at time zero, and the     *)
(* best bandwidth is never one that left the window before the newest was  *)
(* seen.                                                                   *)
EstimatesOrdered ==
  /\ Sorted(best) /\ Sorted(s.tracker.filter)
  /\ best[3].t - best[1].t <= Window

(* The candidates for A0 ascend in time and in bytes, which the search     *)
(* relies on, and none acknowledges more than has been: the byte counts    *)
(* they are subtracted from are unsigned once they are rates.              *)
CandidatesAscend ==
  /\ \A i \in 1..Len(s.cand) : s.cand[i].bytes <= s.acked /\ s.cand[i].t <= now
  /\ \A i \in 1..(Len(s.cand) - 1) :
       s.cand[i].bytes <= s.cand[i + 1].bytes /\ s.cand[i].t <= s.cand[i + 1].t
=============================================================================
