------------------------------- MODULE Brutal -------------------------------
(***************************************************************************)
(* The Brutal sender and its pacer (core/internal/congestion/brutal,       *)
(* congestion/common/pacer.go).  The run loop of the connection owns every *)
(* field but the three atomics; SetBPS and OnPathChange run on other       *)
(* goroutines and only store to those.  Packets are one byte, time is in   *)
(* seconds (a slot each), and rates count fifths of a packet, so that the  *)
(* largest compensation, 5/4, stays whole.                                 *)
(***************************************************************************)
EXTENDS Integers, FiniteSets

CONSTANTS
  Rates,            \* declared rates, in packets per second
  Rtts,             \* what a round trip may take
  MaxPacket, MaxTime, MaxCalls,  \* bounds: packets, seconds, calls from outside
  SlotCount,        \* pktInfoSlotCount
  MinSamples, MinSamplesExit,    \* minSampleCount, minSampleCountExit
  CwndFloor, CwndCeiling,        \* in packets
  Burst,            \* maxBurstPackets
  RebaselineSamples, RebaselineWindow,
  TrackLimit,       \* spuriousLossTrackLimit
  DisableLossCompensation

BrutalAssumption ==
  /\ Rates \subseteq Nat \ {0} /\ Rtts \subseteq Nat \ {0}
  /\ SlotCount \in Nat \ {0} /\ MinSamplesExit <= MinSamples

VARIABLES
  b,       \* the fields of the run loop, the pacer's included
  bps, pacerReset, pathReset,  \* the atomics
  setting, \* the rate a goroutine in SetBPS is between its two stores with, or 0
  allowed, \* the run loop has found HasPacingBudget and is about to send
  rtt,     \* RTTStats: smoothed, minimum and latest
  fly, next, now,
  calls,   \* calls of SetBPS and OnPathChange so far
  stale    \* history: the pacer's budget holds credit of an earlier rate

vars == <<b, bps, pacerReset, pathReset, setting, allowed, rtt, fly, next, now, calls, stale>>
loop == <<b, allowed, rtt, fly, next, now>>
asked == <<bps, pacerReset, pathReset, setting, calls>>

Least(x, y) == IF x < y THEN x ELSE y
Most(x, y) == IF x > y THEN x ELSE y

-----------------------------------------------------------------------------
(* Pacer.  b.rate is ackRate as bandwidth per declared byte, in fifths; the*)
(* budget is in fifths of a packet.                                        *)
Bandwidth(s) == bps * s.rate
maxBurstSize(s) == Most(5 * Burst, Bandwidth(s) \div 500)

PacerBudget(s) ==
  IF s.lastSent = 0 THEN maxBurstSize(s)
  ELSE Least(maxBurstSize(s), s.budget + Bandwidth(s) * (now - s.lastSent))

SentPacket(s) == [s EXCEPT !.budget = Most(0, PacerBudget(s) - 5), !.lastSent = now]

(* drainPending: what the other goroutines asked for.                      *)
drained ==
  LET p == IF pacerReset THEN [b EXCEPT !.budget = 0] ELSE b
  IN  IF pathReset THEN [p EXCEPT !.changed = TRUE, !.floor = 0, !.rbMin = 0, !.rbSamples = 0]
      ELSE p

drainPending ==
  /\ pacerReset' = FALSE /\ pathReset' = FALSE
  /\ UNCHANGED <<bps, setting, calls>>

minRTT(s) == IF s.floor > 0 THEN s.floor ELSE rtt.min

windowRTT(s) ==
  Most(IF minRTT(s) > 0 THEN Least(Most(rtt.smoothed, minRTT(s)), 2 * minRTT(s))
       ELSE rtt.smoothed, 1)

GetCongestionWindow(s) ==
  Least(CwndCeiling, Most(CwndFloor, 2 * bps * windowRTT(s)))

rebaseline(s, latest) ==
  LET n == s.rbSamples + 1
      m == IF s.rbMin = 0 \/ latest < s.rbMin THEN latest ELSE s.rbMin
      t == IF s.rbSamples = 0 THEN now ELSE s.rbStart
  IN  [s EXCEPT !.rbStart = t, !.rbSamples = Least(n, RebaselineSamples), !.rbMin = m,
                !.floor = IF @ > 0 \/ (n >= RebaselineSamples /\ now - t >= RebaselineWindow)
                            THEN m ELSE @]

-----------------------------------------------------------------------------
(* The sampling window.                                                    *)
Slots == 0..(SlotCount - 1)
EmptySlot(t) == [ts |-> t, ack |-> 0, loss |-> 0, ecn |-> 0]

pruneLostPNsLate(lost) ==
  [p \in {q \in DOMAIN lost : lost[q] > now - SlotCount - 1} |-> lost[p]]

pruneLostPNs(lost) ==
  [p \in {q \in DOMAIN lost : lost[q] > now - SlotCount} |-> lost[p]]

Total(s, field) ==
  LET sum[n \in 0..SlotCount] ==
        IF n = 0 THEN 0
        ELSE sum[n - 1] + (IF s.slots[n - 1].ts < now - SlotCount THEN 0
                           ELSE s.slots[n - 1][field])
  IN  sum[SlotCount]

(* The delay gate, with its hysteresis of 3/2 and 5/4.                     *)
updateCongestionGate(s, ecn, srtt) ==
  IF ecn > 0 THEN TRUE
  ELSE IF minRTT(s) = 0 \/ srtt = 0 THEN FALSE
  ELSE IF s.congested THEN 4 * srtt >= 5 * minRTT(s)
  ELSE 2 * srtt > 3 * minRTT(s)

(* The rate is 5 without compensation, and at most 6.25 with it, here      *)
(* rounded down.                                                           *)
updateAckRate(s, srtt) ==
  LET ack   == Total(s, "ack")
      loss  == Total(s, "loss")
      total == ack + loss
      g     == [s EXCEPT !.congested =
                   updateCongestionGate(s, Total(s, "ecn"), srtt)]
      c     == [g EXCEPT !.compensating =
                   total >= (IF s.compensating THEN MinSamplesExit ELSE MinSamples)]
  IN  IF DisableLossCompensation THEN [g EXCEPT !.rate = 5]
      ELSE IF ~c.compensating \/ ack = 0 \/ c.congested THEN [c EXCEPT !.rate = 5]
      ELSE [c EXCEPT !.rate = IF 5 * ack < 4 * total THEN 6 ELSE (5 * total) \div ack]

-----------------------------------------------------------------------------
Init ==
  /\ b = [rate |-> 5, budget |-> 5 * Burst, lastSent |-> 0,
          slots |-> [i \in Slots |-> EmptySlot(0)], lostPNs |-> << >>,
          compensating |-> FALSE, congested |-> FALSE, ecn |-> 0,
          floor |-> 0, rbMin |-> 0, rbSamples |-> 0, rbStart |-> 0, changed |-> FALSE]
  /\ bps \in Rates
  /\ pacerReset = FALSE /\ pathReset = FALSE /\ setting = 0
  /\ allowed = FALSE
  /\ rtt = [smoothed |-> 0, min |-> 0]
  /\ fly = {} /\ next = 1 /\ now = 1 /\ calls = 0 /\ stale = FALSE

(* SetBPS, its two stores: the rate, then the request to drop the budget.  *)
SetBPS(k, r) ==
  /\ IF k = 1 THEN setting = 0 /\ calls < MaxCalls ELSE setting = r
  /\ setting' = (IF k = 1 THEN r ELSE 0) /\ calls' = calls + (IF k = 1 THEN 1 ELSE 0)
  /\ bps' = IF k = 1 THEN r ELSE bps
  /\ stale' = (stale \/ (bps' # bps /\ b.budget > 0))
  /\ pacerReset' = (pacerReset \/ k = 2)
  /\ UNCHANGED <<loop, pathReset>>

OnPathChange ==
  /\ calls < MaxCalls
  /\ pathReset' = TRUE /\ calls' = calls + 1
  /\ UNCHANGED <<loop, bps, pacerReset, setting, stale>>

(* The run loop asks before it sends: CanSend, then HasPacingBudget.       *)
HasPacingBudget ==
  /\ ~allowed /\ next <= MaxPacket
  /\ Cardinality(fly) <= GetCongestionWindow(b)
  /\ drainPending
  /\ b' = drained
  /\ allowed' = (PacerBudget(drained) >= 5)
  /\ stale' = (stale /\ b'.budget > 0)
  /\ UNCHANGED <<rtt, fly, next, now>>

OnPacketSent ==
  /\ allowed
  /\ drainPending
  /\ b' = SentPacket(drained)
  /\ stale' = (stale /\ drained.budget > 0 /\ b'.budget > 0)
  /\ fly' = fly \cup {next} /\ next' = next + 1 /\ allowed' = FALSE
  /\ UNCHANGED <<rtt, now>>

(* An ECN-CE report arrives through the older callback.                    *)
OnCongestionEvent ==
  /\ b.ecn < 1 /\ fly # {}
  /\ b' = [b EXCEPT !.ecn = @ + 1]
  /\ UNCHANGED <<asked, allowed, rtt, fly, next, now, stale>>

(* A slot with an event counted in it; and slot j with the losses taken    *)
(* back that were counted in it and are acknowledged after all.            *)
Counted(slot, acks, losses, marks) ==
  [slot EXCEPT !.ack = @ + acks, !.loss = @ + losses, !.ecn = @ + marks]

Corrected(slot, j, acked, lostPNs) ==
  LET back == {p \in acked \cap DOMAIN lostPNs :
                 lostPNs[p] % SlotCount = j /\ lostPNs[p] = slot.ts}
  IN  [slot EXCEPT !.loss = Most(0, @ - Cardinality(back))]

(* acked may hold packets counted as lost before; latest is the round trip *)
(* of the acknowledgement and srtt the smoothed one after it.              *)
OnCongestionEventEx(acked, lost, latest, srtt) ==
  LET s0 == IF drained.changed /\ acked # {} THEN rebaseline(drained, latest) ELSE drained
      i  == now % SlotCount
      s1 == IF s0.slots[i].ts = now THEN s0
            ELSE [s0 EXCEPT !.slots[i] = EmptySlot(now), !.lostPNs = pruneLostPNs(@)]
      s2 == [s1 EXCEPT !.slots[i] = Counted(@, Cardinality(acked), Cardinality(lost), s1.ecn),
                       !.ecn = 0]
      s3 == [s2 EXCEPT !.slots = [j \in Slots |-> Corrected(@[j], j, acked, s2.lostPNs)],
                       !.lostPNs = [p \in DOMAIN @ \ acked |-> @[p]]]
      s4 == IF Cardinality(DOMAIN s3.lostPNs) >= TrackLimit THEN s3
            ELSE [s3 EXCEPT !.lostPNs = [p \in DOMAIN @ \cup lost |->
                                           IF p \in lost THEN now ELSE @[p]]]
  IN  /\ drainPending
      /\ b' = updateAckRate(s4, srtt)
      /\ rtt' = [smoothed |-> srtt,
                 min |-> IF acked # {} /\ (rtt.min = 0 \/ latest < rtt.min) THEN latest
                         ELSE rtt.min]
      /\ stale' = (stale /\ b'.budget > 0)
      /\ fly' = fly \ (acked \cup lost)
      /\ UNCHANGED <<allowed, next, now>>

(* Acknowledged: a packet in flight, or one declared lost too soon.        *)
Congestion ==
  /\ ~allowed
  /\ \E r \in Rtts :
       \/ \E p \in fly \cup DOMAIN b.lostPNs, lost \in SUBSET fly :
            p \notin lost /\ OnCongestionEventEx({p}, lost, r, r)
       \/ \E p \in fly : rtt.smoothed # 0 /\ OnCongestionEventEx({}, {p}, r, rtt.smoothed)

Tick ==
  /\ now < MaxTime
  /\ now' = now + 1
  /\ UNCHANGED <<b, asked, allowed, rtt, fly, next, stale>>

Next ==
  \/ \E k \in 1..2, r \in Rates : SetBPS(k, r)
  \/ OnPathChange
  \/ HasPacingBudget \/ OnPacketSent \/ OnCongestionEvent \/ Congestion
  \/ Tick

Spec == Init /\ [][Next]_vars

-----------------------------------------------------------------------------
(* A loss that is remembered can be taken back: the slot it was counted in *)
(* is still that second's and still counts it, however the seconds passed, *)
(* so an acknowledgement that comes late corrects the right slot.          *)
CorrectionsLand ==
  /\ \A p \in DOMAIN b.lostPNs : b.slots[b.lostPNs[p] % SlotCount].ts = b.lostPNs[p]
  /\ \A i \in Slots :
       b.slots[i].loss >= Cardinality({p \in DOMAIN b.lostPNs : b.lostPNs[p] = b.slots[i].ts})

(* Once SetBPS has returned and the run loop has seen its request, nothing *)
(* is sent on credit that the previous rate left: the two stores are in    *)
(* the order that needs.                                                   *)
NoOldCredit == setting = 0 /\ ~pacerReset => ~stale
=============================================================================
