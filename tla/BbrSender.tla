------------------------------ MODULE BbrSender ------------------------------
(***************************************************************************)
(* The BBR sender (core/internal/congestion/bbr/bbr_sender.go): its modes, *)
(* rounds, recovery and windows.  Its state is the record b, its helpers   *)
(* are functions of that record, and OnCongestionEventEx applies them in   *)
(* the order of the code.  What the sampler and the bandwidth filter       *)
(* answer (BbrSampler) is an input here.                                   *)
(*                                                                         *)
(* Packets are identified by their age, the number of packets sent since;  *)
(* a packet number beyond Old is older than anything in flight, so larger  *)
(* ages are not told apart.  Every packet counts one byte, rates and gains *)
(* are in quarters, and time passes in ticks.                              *)
(***************************************************************************)
EXTENDS Integers, FiniteSets, Sequences

CONSTANTS
  Bws, Rtts, Extras, \* what a bandwidth, an rtt and an extra-acked sample may be
  AtSends,           \* bytes in flight when the packet sampled last was sent, 0
                     \*   also when the sampler does not know
  MinPackets, InitialPackets, MaxPackets,  \* windows, in datagrams
  DatagramSizes,     \* what path MTU discovery may find, ascending numbers
  Old,               \* packets older than this are not told apart
  MinRttExpiry, ProbeRttTime,              \* in ticks
  NumStartupRtts, LossCount,               \* rounds and loss events
  HighGain, DrainGain, HighCwndGain, CwndGain, \* gains of the profile
  PacingGain,                              \* the gain cycle
  DrainToTarget, DetectOvershooting, LostMultiplier, AckAggregation, \* the profile
  Reordering,        \* packetThreshold of the transport's loss detection
  MaxLoss            \* how many packets may be lost

SenderAssumption ==
  /\ Bws \subseteq Nat \ {0} /\ Rtts \subseteq Nat \ {0} /\ Extras \subseteq Nat
  /\ MinPackets \in Nat \ {0} /\ MaxPackets \in Nat
  /\ InitialPackets \in MinPackets..MaxPackets
  /\ DatagramSizes \subseteq Nat \ {0}
  /\ \E d \in DatagramSizes : \A e \in DatagramSizes : d <= e
  /\ CwndGain \in Nat /\ HighCwndGain \in Nat

None == -1           \* invalidPacketNumber, and a time that is not set
Startup == "startup"
Drain == "drain"
ProbeBw == "probeBw"
ProbeRtt == "probeRtt"
NotInRecovery == "notInRecovery"
Conservation == "conservation"
Growth == "growth"

VARIABLES
  b,      \* the bbrSender
  out,    \* the ages of the packets in flight
  losses  \* packets lost so far

vars == <<b, out, losses>>

Least(x, y) == IF x < y THEN x ELSE y
Most(x, y) == IF x > y THEN x ELSE y
Older(age) == IF age = None THEN None ELSE Least(age + 1, Old)

minCwnd(s) == MinPackets * s.mds
initialCwnd(s) == InitialPackets * s.mds
maxCwnd(s) == MaxPackets * s.mds

getMinRtt(s) == IF s.minRtt # 0 THEN s.minRtt ELSE 1

getTargetCongestionWindow(s, gain) ==
  LET bdp == (gain * s.best * getMinRtt(s)) \div 4
  IN  Most(IF bdp = 0 THEN (gain * initialCwnd(s)) \div 4 ELSE bdp, minCwnd(s))

InRecovery(s) == s.recovery # NotInRecovery

GetCongestionWindow(s) ==
  IF s.mode = ProbeRtt THEN minCwnd(s)
  ELSE IF InRecovery(s) THEN Least(s.cwnd, s.recWindow) ELSE s.cwnd

-----------------------------------------------------------------------------
enterStartupMode(s) ==
  [s EXCEPT !.mode = Startup, !.gain = HighGain, !.cwndGain = HighCwndGain]

(* The random offset of the gain cycle is never the draining phase, 2.     *)
Offsets == DOMAIN PacingGain \ {2}

enterProbeBandwidthMode(s, off) ==
  [s EXCEPT !.mode = ProbeBw, !.cwndGain = CwndGain, !.offset = off,
            !.cycleAge = 0, !.gain = PacingGain[off]]

updateGainCyclePhase(s, priorInFlight, hasLosses) ==
  LET above   == s.inFlight > getTargetCongestionWindow(s, 4)
      advance == \/ s.gain < 4 /\ ~above
                 \/ /\ s.cycleAge > getMinRtt(s)
                    /\ ~(/\ s.gain > 4 /\ ~hasLosses
                         /\ priorInFlight < getTargetCongestionWindow(s, s.gain))
      next    == (s.offset % Len(PacingGain)) + 1
      stay    == DrainToTarget /\ s.gain < 4 /\ PacingGain[next] = 4 /\ above
  IN  IF advance
        THEN [s EXCEPT !.offset = next, !.cycleAge = 0,
                       !.gain = IF stay THEN @ ELSE PacingGain[next]]
        ELSE s

(* Whether the round's losses end STARTUP: more than 2% of what was in     *)
(* flight when the last packet was sent.                                   *)
shouldExitStartupDueToLoss(s, inFlightAtSend) ==
  /\ s.lossEvents >= LossCount
  /\ inFlightAtSend > 0 /\ s.lostInRound > 0
  /\ 50 * s.lostInRound > inFlightAtSend

checkIfFullBandwidthReached(s, appLimited, inFlightAtSend) ==
  IF appLimited THEN s
  ELSE IF 4 * s.best >= 5 * s.bwLast THEN [s EXCEPT !.bwLast = s.best, !.noGain = 0]
  ELSE LET n == s.noGain + 1
       IN  [s EXCEPT !.noGain = n,
                     !.full = @ \/ n >= NumStartupRtts
                                \/ shouldExitStartupDueToLoss(s, inFlightAtSend)]

maybeExitStartupOrDrain(s, off) ==
  LET d == IF s.mode = Startup /\ s.full
             THEN [s EXCEPT !.mode = Drain, !.gain = DrainGain, !.cwndGain = HighCwndGain]
             ELSE s
  IN  IF d.mode = Drain /\ d.inFlight <= getTargetCongestionWindow(d, 4)
        THEN enterProbeBandwidthMode(d, off) ELSE d

(* Where PROBE_RTT leads back to.                                          *)
exitProbeRtt(s, off) ==
  IF ~s.full THEN enterStartupMode(s) ELSE enterProbeBandwidthMode(s, off)

enterProbeRtt(s, expired) ==
  IF expired /\ ~s.quiet /\ s.mode # ProbeRtt
    THEN [s EXCEPT !.mode = ProbeRtt, !.gain = 4, !.exitAt = None] ELSE s

(* One packet more than the window is allowed: QUIC checks the window      *)
(* before it sends.  The exit is timed once so little is in flight.        *)
maybeEnterOrExitProbeRtt(s, isRoundStart, expired, off) ==
  LET e == enterProbeRtt(s, expired)
      q == [e EXCEPT !.quiet = FALSE]
  IN  IF e.mode # ProbeRtt THEN q
      ELSE IF e.exitAt = None
        THEN IF e.inFlight < minCwnd(e) + 1
               THEN [q EXCEPT !.exitAt = ProbeRttTime, !.roundPassed = FALSE] ELSE q
        ELSE LET r == [q EXCEPT !.roundPassed = @ \/ isRoundStart]
             IN  IF r.exitAt = 0 /\ r.roundPassed
                   THEN exitProbeRtt([r EXCEPT !.minRttAge = 0], off) ELSE r

updateRecoveryState(s, lastAcked, hasLosses, isRoundStart) ==
  IF ~s.full THEN s
  ELSE LET e == IF hasLosses THEN [s EXCEPT !.endRecovery = 0] ELSE s
       IN  IF ~InRecovery(s)
             THEN IF hasLosses
                    THEN [e EXCEPT !.recovery = Conservation, !.recWindow = 0,
                                   !.roundEnd = 0]
                    ELSE e
             ELSE IF ~hasLosses /\ (e.endRecovery = None \/ lastAcked < e.endRecovery)
                    THEN [e EXCEPT !.recovery = NotInRecovery]
                    ELSE [e EXCEPT !.recovery = IF isRoundStart THEN Growth ELSE @]

(* Min rtt: expired after MinRttExpiry without a lower one.                *)
minRttExpired(s) == s.minRtt # 0 /\ s.minRttAge > MinRttExpiry

maybeUpdateMinRtt(s, rtt) ==
  IF minRttExpired(s) \/ s.minRtt = 0 \/ rtt < s.minRtt
    THEN [s EXCEPT !.minRtt = rtt, !.minRttAge = 0] ELSE s

(* BandwidthFromDelta of the initial window, which is also the floor       *)
(* cwndToCalculateMinPacingRate stands for.                                *)
initialRate(s) == (4 * initialCwnd(s)) \div getMinRtt(s)

(* Losses slow the pacing down, once, while overshooting is looked for.    *)
detectOvershooting(s, lost, target) ==
  LET det    == [s EXCEPT !.lostDetecting = Least(@ + lost, initialCwnd(s) + 1)]
      over   == /\ det.detect /\ det.rate > target /\ det.lostDetecting > 0
                /\ s.sampled \/ det.lostDetecting * LostMultiplier > initialCwnd(s)
      slow   == [det EXCEPT !.rate = Most(target, initialRate(s)), !.lostDetecting = 0, !.detect = FALSE]
  IN  IF ~s.detect THEN s ELSE IF over THEN slow ELSE det

calculatePacingRate(s, lost) ==
  LET target == s.gain * s.best
      next   == detectOvershooting(s, lost, target)
  IN  IF s.best = 0 THEN s
      ELSE IF s.full THEN [s EXCEPT !.rate = target]
      ELSE IF s.rate = 0 THEN [s EXCEPT !.rate = initialRate(s)]
      ELSE [next EXCEPT !.rate = Most(@, target)]

calculateCongestionWindow(s, acked, extra) ==
  LET target == getTargetCongestionWindow(s, s.cwndGain)
                  + (IF s.full \/ AckAggregation THEN extra ELSE 0)
      grown  == IF s.full THEN Least(target, s.cwnd + acked)
                ELSE IF s.cwnd < target \/ s.total < initialCwnd(s) THEN s.cwnd + acked
                ELSE s.cwnd
  IN  IF s.mode = ProbeRtt THEN s
      ELSE [s EXCEPT !.cwnd = Least(Most(grown, minCwnd(s)), maxCwnd(s))]

calculateRecoveryWindowUnbound(s, acked, lost) ==
  IF ~InRecovery(s) THEN s
  ELSE IF s.recWindow = 0 THEN [s EXCEPT !.recWindow = s.inFlight + acked]
  ELSE LET left == IF s.recWindow >= lost THEN s.recWindow - lost ELSE s.mds
           grow == left + (IF s.recovery = Growth THEN acked ELSE 0)
       IN  [s EXCEPT !.recWindow = Least(Most(grow, s.inFlight + acked), maxCwnd(s))]

calculateRecoveryWindow(s, acked, lost) ==
  IF ~InRecovery(s) THEN s
  ELSE IF s.recWindow = 0
         THEN [s EXCEPT !.recWindow = Most(minCwnd(s), s.inFlight + acked)]
  ELSE LET left == IF s.recWindow >= lost THEN s.recWindow - lost ELSE s.mds
           grow == left + (IF s.recovery = Growth THEN acked ELSE 0)
       IN  [s EXCEPT !.recWindow = Most(minCwnd(s), Most(grow, s.inFlight + acked))]

-----------------------------------------------------------------------------
Init ==
  /\ b = [mode |-> Startup, gain |-> HighGain, cwndGain |-> HighCwndGain,
          mds |-> CHOOSE d \in DatagramSizes : \A e \in DatagramSizes : d <= e,
          best |-> 0, minRtt |-> 0, minRttAge |-> 0, roundEnd |-> None,
          cwnd |-> InitialPackets * (CHOOSE d \in DatagramSizes : \A e \in DatagramSizes : d <= e),
          full |-> FALSE, noGain |-> 0, bwLast |-> 0, lossEvents |-> 0, lostInRound |-> 0,
          offset |-> 1, cycleAge |-> 0, quiet |-> FALSE, exitAt |-> None,
          roundPassed |-> FALSE, sampled |-> FALSE,
          recovery |-> NotInRecovery, endRecovery |-> None,
          recWindow |-> MaxPackets * (CHOOSE d \in DatagramSizes : \A e \in DatagramSizes : d <= e),
          total |-> 0, inFlight |-> 0, rate |-> 0,
          detect |-> DetectOvershooting, lostDetecting |-> 0]
  /\ out = {}
  /\ losses = 0

(* OnPacketSent, after CanSend.                                            *)
OnPacketSent(retransmittable) ==
  /\ Cardinality(out) < GetCongestionWindow(b)
  /\ \A p \in out : p + 1 < Old
  /\ b' = [b EXCEPT !.roundEnd = Older(@), !.endRecovery = Older(@),
                    !.inFlight = Cardinality(out),
                    !.quiet = @ \/ out = {}]
  /\ out' = {p + 1 : p \in out} \cup (IF retransmittable THEN {0} ELSE {})
  /\ UNCHANGED losses

(* What an acknowledgement tells of recovery, the bandwidth and the min    *)
(* rtt.  Only the detection of overshooting reads whether a sample was     *)
(* ever not app-limited.                                                   *)
onAcked(s, last, hasLosses, isRoundStart, nAcked, bw, appLimited, rtt) ==
  LET r == updateRecoveryState(s, last, hasLosses, isRoundStart)
  IN  maybeUpdateMinRtt([r EXCEPT !.best = bw, !.sampled = @ \/ (r.detect /\ ~appLimited),
                                  !.total = Least(@ + nAcked, initialCwnd(r))], rtt)

onLost(s, nLost) ==
  [s EXCEPT !.lossEvents = Least(@ + 1, LossCount), !.lostInRound = @ + nLost]

(* The logic specific to the modes.                                        *)
updateModes(s, prior, hasLosses, isRoundStart, appLimited, atSend, expired, off) ==
  LET p == IF s.mode = ProbeBw THEN updateGainCyclePhase(s, prior, hasLosses) ELSE s
      f == IF isRoundStart /\ ~p.full THEN checkIfFullBandwidthReached(p, appLimited, atSend)
           ELSE p
  IN  maybeEnterOrExitProbeRtt(maybeExitStartupOrDrain(f, off), isRoundStart, expired, off)

updateWindows(s, nAcked, nLost, extra) ==
  calculateRecoveryWindow(
    calculateCongestionWindow(calculatePacingRate(s, nLost), nAcked, extra), nAcked, nLost)

endRound(s) == [s EXCEPT !.lossEvents = 0, !.lostInRound = 0]

(* OnCongestionEventEx.  The last packet acknowledged is the youngest, or  *)
(* None in an event of losses only; bw and rtt are the event's samples,    *)
(* bw what the filter then holds as its best, and atSend the sampled       *)
(* packet's send state.                                                    *)
OnCongestionEventEx(acked, lost, bw, appLimited, atSend, rtt, extra, off) ==
  LET last    == IF acked = {} THEN None ELSE CHOOSE p \in acked : \A q \in acked : p <= q
      start   == acked # {} /\ (b.roundEnd = None \/ last < b.roundEnd)
      nAcked  == Cardinality(acked)
      nLost   == Cardinality(lost)
      prior   == Cardinality(out)
      expired == acked # {} /\ minRttExpired(b)
      s1 == [b EXCEPT !.inFlight = prior - nAcked - nLost,
                      !.roundEnd = IF start THEN 0 ELSE @]
      s2 == IF acked = {} THEN s1
            ELSE onAcked(s1, last, lost # {}, start, nAcked, bw, appLimited, rtt)
      s3 == IF lost = {} THEN s2 ELSE onLost(s2, nLost)
      s4 == updateModes(s3, prior, lost # {}, start, appLimited, atSend, expired, off)
      s5 == updateWindows(s4, nAcked, nLost, extra)
  IN  /\ b' = IF start THEN endRound(s5) ELSE s5
      /\ out' = out \ (acked \cup lost)
      /\ losses' = losses + nLost

Samples(acked, lost) ==
  \E bw \in Bws, appLimited \in BOOLEAN, atSend \in AtSends, rtt \in Rtts,
     extra \in Extras, off \in Offsets :
    OnCongestionEventEx(acked, lost, bw, appLimited, atSend, rtt, extra, off)

(* An acknowledgement: of everything up to p, or of all but one packet,    *)
(* which the transport declares lost when it is Reordering packets behind. *)
Acknowledge ==
  \E p \in out : \E gap \in {{}} \cup {{q} : q \in {r \in out : r > p}} :
    LET lost == {q \in gap : q - p >= Reordering}
    IN  /\ losses + Cardinality(lost) <= MaxLoss
        /\ Samples({q \in out : q >= p} \ gap, lost)

(* The loss timer: the oldest packet is lost and nothing is acknowledged.  *)
LossTimer ==
  /\ out # {} /\ losses < MaxLoss
  /\ Samples({}, {CHOOSE p \in out : \A q \in out : p >= q})

(* Path MTU discovery found a larger datagram: every window is rescaled.   *)
SetMaxDatagramSize(d) ==
  /\ d > b.mds
  /\ LET s == [b EXCEPT !.mds = d]
     IN  b' = [s EXCEPT !.cwnd = IF b.cwnd = minCwnd(b) THEN minCwnd(s)
                                 ELSE IF b.cwnd = initialCwnd(b) THEN initialCwnd(s)
                                 ELSE Least(maxCwnd(s), Most(b.cwnd, minCwnd(s))),
                        !.recWindow = Least(maxCwnd(s), Most(b.recWindow, minCwnd(s)))]
  /\ UNCHANGED <<out, losses>>

(* A tick of the clock, counted no further than anything compares it.      *)
Tick ==
  /\ b' = [b EXCEPT !.minRttAge = Least(@ + 1, MinRttExpiry + 1),
                    !.cycleAge = IF b.mode = ProbeBw THEN Least(@ + 1, getMinRtt(b) + 1) ELSE @,
                    !.exitAt = IF @ > 0 THEN @ - 1 ELSE @]
  /\ UNCHANGED <<out, losses>>

Next ==
  \/ \E r \in BOOLEAN : OnPacketSent(r)
  \/ Acknowledge \/ LossTimer
  \/ \E d \in DatagramSizes : SetMaxDatagramSize(d)
  \/ Tick

Spec == Init /\ [][Next]_vars

-----------------------------------------------------------------------------
(* Whatever is lost, recovered from or rescaled, the sender may always have *)
(* the minimum window in flight and never more than the maximum: recovery  *)
(* zeroes its window, and every path out of the handler puts it right.     *)
WindowInBounds ==
  GetCongestionWindow(b) \in minCwnd(b)..maxCwnd(b)

=============================================================================
