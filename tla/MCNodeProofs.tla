---------------------------- MODULE MCNodeProofs ----------------------------
(***************************************************************************)
(* What the run Node checks, proved for the sum it checks.  A step of the  *)
(* sum is a step of one of its parts, and the others do not move.  For     *)
(* authentication and the client's UDP sessions, the invariants of         *)
(* ServerAuthProofs and ClientUDPProofs are carried over; the rest is      *)
(* proved here, each part from an inductive invariant of its own.          *)
(***************************************************************************)
EXTENDS MCNode, FiniteSetTheorems, SequenceTheorems, WellFoundedInduction, TLAPS
-----------------------------------------------------------------------------
(***************************************************************************)
(* The BBR sender.  Its state is a record x of these fields, of which the  *)
(* windows depend on a few that are numbers; the congestion window is      *)
(* within its bounds at every step of the handler, the recovery window     *)
(* only where the handler has returned.                                    *)
(***************************************************************************)
BbrFields ==
  {"mode", "gain", "cwndGain", "mds", "best", "minRtt", "minRttAge", "roundEnd", "cwnd",
   "full", "noGain", "bwLast", "lossEvents", "lostInRound", "offset", "cycleAge", "quiet",
   "exitAt", "roundPassed", "sampled", "recovery", "endRecovery", "recWindow", "total",
   "inFlight", "rate", "detect", "lostDetecting"}

BbrCore(x) ==
  /\ x = [f \in BbrFields |-> x[f]]
  /\ x.mds \in Nat \ {0}
  /\ x.cwnd \in Int /\ Bbr!minCwnd(x) <= x.cwnd /\ x.cwnd <= Bbr!maxCwnd(x)
  /\ x.best \in Int /\ x.minRtt \in Int /\ x.cwndGain \in Int
  /\ x.inFlight \in Int /\ x.recWindow \in Int

BbrInv ==
  /\ BbrCore(bbr)
  /\ Bbr!InRecovery(bbr) => Bbr!minCwnd(bbr) <= bbr.recWindow
  /\ IsFiniteSet(out)

BbrNumbers == {"best", "minRtt", "inFlight", "cwndGain", "recWindow"}

(* A field the windows do not depend on may take any value.                *)
LEMMA BbrPut ==
  ASSUME NEW x, BbrCore(x), NEW k \in BbrFields \ (BbrNumbers \cup {"mds", "cwnd"}), NEW v
  PROVE  BbrCore([x EXCEPT ![k] = v])
BY DEF BbrCore, BbrFields, BbrNumbers, Bbr!minCwnd, Bbr!maxCwnd

(* One they do depend on may be any number.                                *)
LEMMA BbrPutNumber ==
  ASSUME NEW x, BbrCore(x), NEW k \in BbrNumbers, NEW v \in Int
  PROVE  BbrCore([x EXCEPT ![k] = v])
BY DEF BbrCore, BbrFields, BbrNumbers, Bbr!minCwnd, Bbr!maxCwnd

(* updateRecoveryState.                                                    *)
LEMMA BbrRecoveryState ==
  ASSUME NEW x, BbrCore(x), NEW last, NEW lossy, NEW roundStart
  PROVE  BbrCore(Bbr!updateRecoveryState(x, last, lossy, roundStart))
<1> USE DEF BbrFields, BbrNumbers
<1>1. PICK e : e = IF lossy THEN [x EXCEPT !.endRecovery = 0] ELSE x
  OBVIOUS
<1>2. BbrCore(e)
  BY <1>1, BbrPut
<1>3. ASSUME NEW w
      PROVE  BbrCore([e EXCEPT !.recovery = w])
  BY <1>2, BbrPut
<1>4. BbrCore([e EXCEPT !.recovery = Bbr!Conservation, !.recWindow = 0, !.roundEnd = 0])
  <2>1. PICK w : w = [e EXCEPT !.recovery = Bbr!Conservation]
    OBVIOUS
  <2>2. BbrCore(w)
    BY <1>3, <2>1
  <2>3. BbrCore([w EXCEPT !.recWindow = 0])
    BY <2>2, BbrPutNumber
  <2> QED
    BY <2>1, <2>3, BbrPut
<1> QED
  BY <1>1, <1>2, <1>3, <1>4 DEF Bbr!updateRecoveryState

(* maybeUpdateMinRtt.                                                      *)
LEMMA BbrMinRtt ==
  ASSUME NEW x, BbrCore(x), NEW sample \in Int
  PROVE  BbrCore(Bbr!maybeUpdateMinRtt(x, sample))
BY BbrPut, BbrPutNumber DEF BbrFields, BbrNumbers, Bbr!maybeUpdateMinRtt

(* updateGainCyclePhase.                                                   *)
LEMMA BbrGainCycle ==
  ASSUME NEW x, BbrCore(x), NEW prior, NEW lossy
  PROVE  BbrCore(Bbr!updateGainCyclePhase(x, prior, lossy))
<1> USE DEF BbrFields, BbrNumbers
<1>1. ASSUME NEW o, NEW g
      PROVE  BbrCore([x EXCEPT !.offset = o, !.cycleAge = 0, !.gain = g])
  BY BbrPut
<1> QED
  BY <1>1 DEF Bbr!updateGainCyclePhase

(* checkIfFullBandwidthReached.                                            *)
LEMMA BbrFull ==
  ASSUME NEW x, BbrCore(x), NEW limited, NEW prior
  PROVE  BbrCore(Bbr!checkIfFullBandwidthReached(x, limited, prior))
<1> USE DEF BbrFields, BbrNumbers
<1>1. BbrCore([x EXCEPT !.bwLast = x.best, !.noGain = 0])
  BY BbrPut
<1>2. ASSUME NEW n, NEW f
      PROVE  BbrCore([x EXCEPT !.noGain = n, !.full = f])
  BY BbrPut
<1> QED
  BY <1>1, <1>2 DEF Bbr!checkIfFullBandwidthReached

(* enterStartupMode and enterProbeBandwidthMode.                           *)
LEMMA BbrModes ==
  ASSUME NEW x, BbrCore(x), NEW off
  PROVE  /\ BbrCore(Bbr!enterStartupMode(x))
         /\ BbrCore(Bbr!enterProbeBandwidthMode(x, off))
<1> USE DEF BbrFields, BbrNumbers
<1>1. CwndGain \in Int /\ HighCwndGain \in Int
  BY NodeAssumption DEF Bbr!SenderAssumption
<1>2. BbrCore(Bbr!enterStartupMode(x))
  BY <1>1, BbrPut, BbrPutNumber DEF Bbr!enterStartupMode
<1>3. ASSUME NEW g
      PROVE  BbrCore([x EXCEPT !.mode = Bbr!ProbeBw, !.cwndGain = CwndGain, !.offset = off,
                               !.cycleAge = 0, !.gain = g])
  BY <1>1, BbrPut, BbrPutNumber
<1> QED
  BY <1>2, <1>3 DEF Bbr!enterProbeBandwidthMode

(* maybeExitStartupOrDrain.                                                *)
LEMMA BbrExitStartup ==
  ASSUME NEW x, BbrCore(x), NEW off
  PROVE  BbrCore(Bbr!maybeExitStartupOrDrain(x, off))
<1> USE DEF BbrFields, BbrNumbers
<1>1. HighCwndGain \in Int
  BY NodeAssumption DEF Bbr!SenderAssumption
<1>2. PICK d : d = IF x.mode = Bbr!Startup /\ x.full
                   THEN [x EXCEPT !.mode = Bbr!Drain, !.gain = DrainGain,
                                  !.cwndGain = HighCwndGain]
                   ELSE x
  OBVIOUS
<1>3. BbrCore(d)
  BY <1>1, <1>2, BbrPut, BbrPutNumber
<1> QED
  BY <1>2, <1>3, BbrModes DEF Bbr!maybeExitStartupOrDrain

(* maybeEnterOrExitProbeRtt.                                               *)
LEMMA BbrProbeRtt ==
  ASSUME NEW x, BbrCore(x), NEW roundStart, NEW expired, NEW off
  PROVE  BbrCore(Bbr!maybeEnterOrExitProbeRtt(x, roundStart, expired, off))
<1> USE DEF BbrFields, BbrNumbers
<1>1. PICK e : e = Bbr!enterProbeRtt(x, expired)
  OBVIOUS
<1>2. BbrCore(e)
  BY <1>1, BbrPut DEF Bbr!enterProbeRtt
<1>3. BbrCore([e EXCEPT !.quiet = FALSE])
  BY <1>2, BbrPut
<1>4. PICK q : q = [e EXCEPT !.quiet = FALSE]
  OBVIOUS
<1>5. BbrCore(q)
  BY <1>3, <1>4
<1>6. BbrCore([q EXCEPT !.exitAt = ProbeRttTime, !.roundPassed = FALSE])
  BY <1>5, BbrPut
<1>7. PICK r : r = [q EXCEPT !.roundPassed = @ \/ roundStart]
  OBVIOUS
<1>8. BbrCore(r)
  BY <1>5, <1>7, BbrPut
<1>9. BbrCore([r EXCEPT !.minRttAge = 0])
  BY <1>8, BbrPut
<1>10. BbrCore(Bbr!exitProbeRtt([r EXCEPT !.minRttAge = 0], off))
  BY <1>9, BbrModes DEF Bbr!exitProbeRtt
<1>11. Bbr!maybeEnterOrExitProbeRtt(x, roundStart, expired, off) =
         IF e.mode # Bbr!ProbeRtt THEN q
         ELSE IF e.exitAt = Bbr!None
           THEN IF e.inFlight < Bbr!minCwnd(e) + 1
                THEN [q EXCEPT !.exitAt = ProbeRttTime, !.roundPassed = FALSE] ELSE q
           ELSE IF r.exitAt = 0 /\ r.roundPassed
                THEN Bbr!exitProbeRtt([r EXCEPT !.minRttAge = 0], off) ELSE r
  BY <1>1, <1>4, <1>7 DEF Bbr!maybeEnterOrExitProbeRtt
<1> QED
  BY <1>5, <1>6, <1>8, <1>10, <1>11

(* calculatePacingRate.                                                    *)
LEMMA BbrPacing ==
  ASSUME NEW x, BbrCore(x), NEW lost
  PROVE  BbrCore(Bbr!calculatePacingRate(x, lost))
<1> USE DEF BbrFields, BbrNumbers
<1>1. ASSUME NEW target
      PROVE  BbrCore(Bbr!detectOvershooting(x, lost, target))
  <2>1. PICK det : det = [x EXCEPT !.lostDetecting = Bbr!Least(@ + lost,
                                                              Bbr!initialCwnd(x) + 1)]
    OBVIOUS
  <2>2. BbrCore(det)
    BY <2>1, BbrPut
  <2>3. ASSUME NEW r
        PROVE  BbrCore([det EXCEPT !.rate = r, !.lostDetecting = 0, !.detect = FALSE])
    BY <2>2, BbrPut
  <2> QED
    BY <2>1, <2>2, <2>3 DEF Bbr!detectOvershooting
<1>2. ASSUME NEW y, BbrCore(y), NEW r
      PROVE  BbrCore([y EXCEPT !.rate = r])
  BY <1>2, BbrPut
<1>3. PICK target : target = x.gain * x.best
  OBVIOUS
<1>4. PICK y : y = Bbr!detectOvershooting(x, lost, target)
  OBVIOUS
<1>5. Bbr!calculatePacingRate(x, lost) =
        IF x.best = 0 THEN x
        ELSE IF x.full THEN [x EXCEPT !.rate = target]
        ELSE IF x.rate = 0
          THEN [x EXCEPT !.rate = Bbr!initialRate(x)]
        ELSE [y EXCEPT !.rate = Bbr!Most(@, target)]
  BY <1>3, <1>4 DEF Bbr!calculatePacingRate
<1>6. BbrCore(y)
  BY <1>1, <1>4
<1>7. /\ BbrCore([x EXCEPT !.rate = target])
      /\ BbrCore([x EXCEPT !.rate = Bbr!initialRate(x)])
      /\ BbrCore([y EXCEPT !.rate = Bbr!Most(@, target)])
  BY <1>2, <1>6
<1> QED
  BY <1>5, <1>7

(* a d <= b d.                                                             *)
LEMMA BbrScaled ==
  ASSUME NEW lo \in Int, NEW hi \in Int, lo <= hi, NEW d \in Nat
  PROVE  lo * d \in Int /\ hi * d \in Int /\ lo * d <= hi * d
<1>1. PICK k \in Nat : hi = lo + k
  BY SMT
<1>2. hi * d = lo * d + k * d /\ k * d \in Nat
  BY <1>1, SMT
<1> QED
  BY <1>2, SMT

(* The minimum, initial and maximum windows.                               *)
LEMMA BbrLimits ==
  ASSUME NEW x, x.mds \in Nat \ {0}
  PROVE  /\ Bbr!minCwnd(x) \in Int /\ Bbr!initialCwnd(x) \in Int /\ Bbr!maxCwnd(x) \in Int
         /\ Bbr!minCwnd(x) <= Bbr!initialCwnd(x) /\ Bbr!initialCwnd(x) <= Bbr!maxCwnd(x)
<1>1. /\ MinPackets \in Int /\ InitialPackets \in Int /\ MaxPackets \in Int
      /\ MinPackets <= InitialPackets /\ InitialPackets <= MaxPackets
  BY NodeAssumption DEF Bbr!SenderAssumption
<1> QED
  BY <1>1, BbrScaled DEF Bbr!minCwnd, Bbr!initialCwnd, Bbr!maxCwnd

(* The window is kept between two bounds, whatever it would be.            *)
LEMMA BbrClamp ==
  ASSUME NEW w \in Int, NEW lo \in Int, NEW hi \in Int, lo <= hi
  PROVE  /\ Bbr!Least(Bbr!Most(w, lo), hi) \in lo..hi
         /\ Bbr!Least(hi, Bbr!Most(w, lo)) \in lo..hi
         /\ Bbr!Most(w, lo) \in Int /\ Bbr!Most(lo, w) \in Int
         /\ lo <= Bbr!Most(lo, w) /\ Bbr!Least(w, hi) \in Int
BY DEF Bbr!Least, Bbr!Most

(* getTargetCongestionWindow is a number.                                  *)
LEMMA BbrTarget ==
  ASSUME NEW x, BbrCore(x), NEW g \in Int
  PROVE  Bbr!getTargetCongestionWindow(x, g) \in Int
<1>1. PICK r \in Int : r = Bbr!getMinRtt(x)
  BY DEF BbrCore, Bbr!getMinRtt
<1>2. PICK bdp \in Int : bdp = (g * x.best * Bbr!getMinRtt(x)) \div 4
  <2>1. g * x.best * r \in Int
    BY <1>1 DEF BbrCore
  <2> QED
    BY <1>1, <2>1
<1>3. PICK i \in Int : i = (g * Bbr!initialCwnd(x)) \div 4
  <2>1. Bbr!initialCwnd(x) \in Int
    BY BbrLimits DEF BbrCore
  <2>2. g * Bbr!initialCwnd(x) \in Int
    BY <2>1
  <2> QED
    BY <2>2
<1>4. Bbr!minCwnd(x) \in Int
  BY BbrLimits DEF BbrCore
<1> QED
  BY <1>2, <1>3, <1>4 DEF Bbr!getTargetCongestionWindow, Bbr!Most

(* calculateCongestionWindow.                                              *)
LEMMA BbrCongestionWindow ==
  ASSUME NEW x, BbrCore(x), NEW n \in Int, NEW extra \in Int
  PROVE  BbrCore(Bbr!calculateCongestionWindow(x, n, extra))
<1>1. PICK target \in Int : target = Bbr!getTargetCongestionWindow(x, x.cwndGain)
                                       + (IF x.full \/ AckAggregation THEN extra ELSE 0)
  <2>1. x.cwndGain \in Int
    BY DEF BbrCore
  <2>2. Bbr!getTargetCongestionWindow(x, x.cwndGain) \in Int
    BY <2>1, BbrTarget
  <2> QED
    BY <2>2
<1>2. PICK grown \in Int :
        grown = IF x.full THEN Bbr!Least(target, x.cwnd + n)
                ELSE IF x.cwnd < target \/ x.total < Bbr!initialCwnd(x) THEN x.cwnd + n
                ELSE x.cwnd
  <2>1. x.cwnd \in Int /\ x.cwnd + n \in Int
    BY DEF BbrCore
  <2>2. Bbr!Least(target, x.cwnd + n) \in Int
    BY <2>1 DEF Bbr!Least
  <2> QED
    BY <2>1, <2>2
<1>3. PICK w : w = Bbr!Least(Bbr!Most(grown, Bbr!minCwnd(x)), Bbr!maxCwnd(x))
  OBVIOUS
<1>4. w \in Bbr!minCwnd(x)..Bbr!maxCwnd(x) /\ w \in Int
  <2>1. /\ Bbr!minCwnd(x) \in Int /\ Bbr!maxCwnd(x) \in Int
        /\ Bbr!minCwnd(x) <= Bbr!maxCwnd(x)
    BY BbrLimits DEF BbrCore
  <2> QED
    BY <1>3, <2>1, BbrClamp
<1>5. BbrCore([x EXCEPT !.cwnd = w])
  BY <1>4, BbrLimits DEF BbrCore, BbrFields, Bbr!minCwnd, Bbr!maxCwnd
<1>6. Bbr!calculateCongestionWindow(x, n, extra) =
        IF x.mode = Bbr!ProbeRtt THEN x ELSE [x EXCEPT !.cwnd = w]
  BY <1>1, <1>2, <1>3, Zenon DEF Bbr!calculateCongestionWindow
<1> QED
  BY <1>5, <1>6

(* calculateRecoveryWindow, after which the recovery window is not below   *)
(* its minimum.                                                            *)
LEMMA BbrRecoveryWindow ==
  ASSUME NEW x, BbrCore(x), NEW n \in Int, NEW lost \in Int,
         NEW y, y = Bbr!calculateRecoveryWindow(x, n, lost)
  PROVE  /\ BbrCore(y)
         /\ Bbr!InRecovery(y) => Bbr!minCwnd(y) <= y.recWindow
<1>1. CASE ~Bbr!InRecovery(x)
  BY <1>1 DEF Bbr!calculateRecoveryWindow
<1>2. CASE Bbr!InRecovery(x)
  <2>1. PICK w \in Int : /\ y = [x EXCEPT !.recWindow = w]
                         /\ Bbr!minCwnd(x) <= w
    <3>1. PICK rest \in Int :
            rest = IF x.recWindow >= lost THEN x.recWindow - lost ELSE x.mds
      BY DEF BbrCore
    <3>2. PICK grow \in Int : grow = rest + (IF x.recovery = Bbr!Growth THEN n ELSE 0)
      OBVIOUS
    <3>3. PICK f \in Int : f = x.inFlight + n
      BY DEF BbrCore
    <3>4. PICK u \in Int : u = Bbr!Most(grow, f)
      BY DEF Bbr!Most
    <3>5. Bbr!minCwnd(x) \in Int
      BY BbrLimits DEF BbrCore
    <3>6. /\ Bbr!Most(Bbr!minCwnd(x), f) \in Int
          /\ Bbr!minCwnd(x) <= Bbr!Most(Bbr!minCwnd(x), f)
          /\ Bbr!Most(Bbr!minCwnd(x), u) \in Int
          /\ Bbr!minCwnd(x) <= Bbr!Most(Bbr!minCwnd(x), u)
      BY <3>5 DEF Bbr!Most
    <3>7. y = IF x.recWindow = 0
              THEN [x EXCEPT !.recWindow = Bbr!Most(Bbr!minCwnd(x), f)]
              ELSE [x EXCEPT !.recWindow = Bbr!Most(Bbr!minCwnd(x), u)]
      BY <1>2, <3>1, <3>2, <3>3, <3>4 DEF Bbr!calculateRecoveryWindow
    <3> QED
      BY <3>6, <3>7
  <2>2. BbrCore(y)
    BY <2>1, BbrPutNumber DEF BbrNumbers
  <2>3. y.recWindow = w /\ y.mds = x.mds
    BY <2>1 DEF BbrCore, BbrFields
  <2> QED
    BY <2>1, <2>2, <2>3 DEF Bbr!minCwnd
<1> QED
  BY <1>1, <1>2

(* onAcked and onLost.                                                     *)
LEMMA BbrSampled ==
  ASSUME NEW x, BbrCore(x)
  PROVE  /\ \A last, lossy, roundStart, n, limited : \A bw \in Int, sample \in Int :
              BbrCore(Bbr!onAcked(x, last, lossy, roundStart, n, bw, limited, sample))
         /\ \A n : BbrCore(Bbr!onLost(x, n))
<1> USE DEF BbrFields, BbrNumbers
<1>1. ASSUME NEW last, NEW lossy, NEW roundStart, NEW n, NEW limited,
             NEW bw \in Int, NEW sample \in Int
      PROVE  BbrCore(Bbr!onAcked(x, last, lossy, roundStart, n, bw, limited, sample))
  <2>1. PICK r : r = Bbr!updateRecoveryState(x, last, lossy, roundStart)
    OBVIOUS
  <2>2. BbrCore(r)
    BY <2>1, BbrRecoveryState
  <2>3. PICK w : w = [r EXCEPT !.best = bw]
    OBVIOUS
  <2>4. BbrCore(w)
    BY <2>2, <2>3, BbrPutNumber
  <2>5. ASSUME NEW u, NEW t
        PROVE  BbrCore([w EXCEPT !.sampled = u, !.total = t])
    BY <2>4, BbrPut
  <2>6. ASSUME NEW u, NEW t
        PROVE  BbrCore([r EXCEPT !.best = bw, !.sampled = u, !.total = t])
    BY <2>3, <2>5
  <2> QED
    BY <2>1, <2>6, BbrMinRtt DEF Bbr!onAcked
<1>2. ASSUME NEW n
      PROVE  BbrCore(Bbr!onLost(x, n))
  BY BbrPut DEF Bbr!onLost
<1> QED
  BY <1>1, <1>2

(* updateModes.                                                            *)
LEMMA BbrUpdateModes ==
  ASSUME NEW x, BbrCore(x), NEW prior, NEW lossy, NEW roundStart, NEW limited, NEW atSend,
         NEW expired, NEW off
  PROVE  BbrCore(Bbr!updateModes(x, prior, lossy, roundStart, limited, atSend, expired, off))
<1>1. PICK p : p = IF x.mode = Bbr!ProbeBw THEN Bbr!updateGainCyclePhase(x, prior, lossy)
                   ELSE x
  OBVIOUS
<1>2. BbrCore(p)
  BY <1>1, BbrGainCycle
<1>3. PICK f : f = IF roundStart /\ ~p.full
                   THEN Bbr!checkIfFullBandwidthReached(p, limited, atSend) ELSE p
  OBVIOUS
<1>4. BbrCore(f)
  BY <1>2, <1>3, BbrFull
<1>5. BbrCore(Bbr!maybeEnterOrExitProbeRtt(Bbr!maybeExitStartupOrDrain(f, off),
                                           roundStart, expired, off))
  BY <1>4, BbrExitStartup, BbrProbeRtt
<1> QED
  BY <1>1, <1>3, <1>5 DEF Bbr!updateModes

(* The sender counts with the library's Cardinality.                       *)
LEMMA BbrCounts == \A S : Bbr!Cardinality(S) = Cardinality(S)
BY DEF Bbr!Cardinality, Cardinality

(* OnCongestionEventEx returns with both windows within their bounds.      *)
LEMMA BbrEvent ==
  ASSUME BbrInv, NEW ackd \in SUBSET out, NEW lost, IsFiniteSet(lost), NEW bw \in Bws,
         NEW limited, NEW atSend, NEW sample \in Rtts, NEW extra \in Extras, NEW off,
         Bbr!OnCongestionEventEx(ackd, lost, bw, limited, atSend, sample, extra, off)
  PROVE  BbrInv'
<1> DEFINE last == IF ackd = {} THEN Bbr!None
                   ELSE CHOOSE p \in ackd : \A q \in ackd : p <= q
           start == ackd # {} /\ (bbr.roundEnd = Bbr!None \/ last < bbr.roundEnd)
           expired == ackd # {} /\ Bbr!minRttExpired(bbr)
           na == Bbr!Cardinality(ackd)
           nl == Bbr!Cardinality(lost)
           prior == Bbr!Cardinality(out)
           x1 == [bbr EXCEPT !.inFlight = prior - na - nl,
                             !.roundEnd = IF start THEN 0 ELSE @]
           x2 == IF ackd = {} THEN x1
                 ELSE Bbr!onAcked(x1, last, lost # {}, start, na, bw, limited, sample)
           x3 == IF lost = {} THEN x2 ELSE Bbr!onLost(x2, nl)
           x4 == Bbr!updateModes(x3, prior, lost # {}, start, limited, atSend, expired, off)
           x5 == Bbr!updateWindows(x4, na, nl, extra)
<1>1. bw \in Int /\ sample \in Int /\ extra \in Int
  BY NodeAssumption DEF Bbr!SenderAssumption
<1>2. na \in Int /\ nl \in Int /\ prior \in Int
  BY BbrCounts, FS_Subset, FS_CardinalityType DEF BbrInv
<1>3. /\ bbr' = IF start THEN Bbr!endRound(x5) ELSE x5
      /\ out' = out \ (ackd \cup lost)
  BY DEF Bbr!OnCongestionEventEx
<1> HIDE DEF last, start, expired, na, nl, prior, x1, x2, x3, x4, x5
<1>4. BbrCore(x1)
  <2>1. PICK w : w = [bbr EXCEPT !.inFlight = prior - na - nl]
    OBVIOUS
  <2>2. BbrCore(w)
    BY <1>2, <2>1, BbrPutNumber DEF BbrInv, BbrNumbers
  <2>3. ASSUME NEW u PROVE BbrCore([w EXCEPT !.roundEnd = u])
    BY <2>2, BbrPut DEF BbrFields, BbrNumbers
  <2> QED
    BY <2>1, <2>3 DEF x1
<1>5. BbrCore(x2)
  BY <1>1, <1>4, BbrSampled DEF x2
<1>6. BbrCore(x3)
  BY <1>5, BbrSampled DEF x3
<1>7. BbrCore(x4)
  BY <1>6, BbrUpdateModes DEF x4
<1>8. BbrCore(x5) /\ (Bbr!InRecovery(x5) => Bbr!minCwnd(x5) <= x5.recWindow)
  <2>1. PICK y : y = Bbr!calculateCongestionWindow(Bbr!calculatePacingRate(x4, nl), na, extra)
    OBVIOUS
  <2>2. BbrCore(y)
    BY <1>1, <1>2, <1>7, <2>1, BbrPacing, BbrCongestionWindow
  <2>3. x5 = Bbr!calculateRecoveryWindow(y, na, nl)
    BY <2>1 DEF x5, Bbr!updateWindows
  <2> QED
    BY <1>2, <2>2, <2>3, BbrRecoveryWindow
<1>9. /\ BbrCore(Bbr!endRound(x5))
       /\ Bbr!endRound(x5).mds = x5.mds /\ Bbr!endRound(x5).recWindow = x5.recWindow
       /\ Bbr!endRound(x5).recovery = x5.recovery
  <2>1. BbrCore(Bbr!endRound(x5))
    BY <1>8, BbrPut DEF BbrFields, BbrNumbers, Bbr!endRound
  <2> QED
    BY <1>8, <2>1 DEF Bbr!endRound, BbrCore, BbrFields
<1>10. /\ BbrCore(bbr')
       /\ Bbr!InRecovery(bbr') => Bbr!minCwnd(bbr') <= bbr'.recWindow
  BY <1>3, <1>8, <1>9 DEF Bbr!InRecovery, Bbr!minCwnd
<1>11. IsFiniteSet(out')
  BY <1>3, FS_Subset DEF BbrInv
<1> QED
  BY <1>10, <1>11 DEF BbrInv, BbrCore, Bbr!InRecovery, Bbr!minCwnd, Bbr!maxCwnd

(* Every packet in flight is one packet older.                             *)
LEMMA BbrAged ==
  ASSUME IsFiniteSet(out)
  PROVE  IsFiniteSet({p + 1 : p \in out})
<1>1. PICK f : f = [p \in out |-> p + 1]
  OBVIOUS
<1>2. f \in Surjection(out, {p + 1 : p \in out})
  BY <1>1 DEF Surjection
<1> QED
  BY <1>2, FS_Surjection

(* Every step keeps the invariant.                                         *)
LEMMA BbrKept == ASSUME BbrInv, [Bbr!Next]_(Bbr!vars) PROVE BbrInv'
<1> USE DEF BbrFields, BbrNumbers
<1>1. ASSUME NEW r \in BOOLEAN, Bbr!OnPacketSent(r)
      PROVE  BbrInv'
  <2>1. PICK n \in Int : n = Bbr!Cardinality(out)
    BY BbrCounts, FS_CardinalityType DEF BbrInv
  <2>2. PICK w : w = [bbr EXCEPT !.inFlight = n]
    OBVIOUS
  <2>3. BbrCore(w)
    BY <2>1, <2>2, BbrPutNumber DEF BbrInv
  <2>4. PICK u, v, q : bbr' = [bbr EXCEPT !.roundEnd = u, !.endRecovery = v,
                                          !.inFlight = n, !.quiet = q]
    BY <1>1, <2>1 DEF Bbr!OnPacketSent
  <2>5. bbr' = [w EXCEPT !.roundEnd = u, !.endRecovery = v, !.quiet = q]
    BY <2>2, <2>4 DEF BbrInv, BbrCore
  <2>6. BbrCore([w EXCEPT !.roundEnd = u, !.endRecovery = v, !.quiet = q])
    BY <2>3, BbrPut
  <2>7. bbr'.mds = bbr.mds /\ bbr'.recovery = bbr.recovery /\ bbr'.recWindow = bbr.recWindow
    BY <2>4 DEF BbrInv, BbrCore
  <2>8. IsFiniteSet(out')
    <3>1. IsFiniteSet({p + 1 : p \in out}) /\ IsFiniteSet(IF r THEN {0} ELSE {})
      BY BbrAged, FS_Singleton, FS_EmptySet DEF BbrInv
    <3> QED
      BY <1>1, <3>1, FS_Union DEF Bbr!OnPacketSent
  <2> QED
    BY <2>5, <2>6, <2>7, <2>8
       DEF BbrInv, BbrCore, Bbr!InRecovery, Bbr!minCwnd, Bbr!maxCwnd
<1>2. ASSUME Bbr!Acknowledge
      PROVE  BbrInv'
  <2>1. PICK p \in out : \E gap \in {{}} \cup {{q} : q \in {r \in out : r > p}} :
          Bbr!Samples({q \in out : q >= p} \ gap, {q \in gap : q - p >= Reordering})
    BY <1>2 DEF Bbr!Acknowledge
  <2>2. PICK gap \in {{}} \cup {{q} : q \in {r \in out : r > p}} :
          Bbr!Samples({q \in out : q >= p} \ gap, {q \in gap : q - p >= Reordering})
    BY <2>1
  <2>3. IsFiniteSet(gap)
    BY <2>2, FS_Singleton, FS_EmptySet
  <2>4. IsFiniteSet({q \in gap : q - p >= Reordering})
    BY <2>3, FS_Subset
  <2> QED
    BY <2>2, <2>4, BbrEvent DEF Bbr!Samples
<1>3. ASSUME Bbr!LossTimer
      PROVE  BbrInv'
  <2>1. Bbr!Samples({}, {CHOOSE p \in out : \A q \in out : p >= q})
    BY <1>3 DEF Bbr!LossTimer
  <2> QED
    BY <2>1, FS_Singleton, BbrEvent DEF Bbr!Samples
<1>4. ASSUME NEW d \in DatagramSizes, Bbr!SetMaxDatagramSize(d)
      PROVE  BbrInv'
  <2>1. d \in Nat \ {0}
    BY NodeAssumption DEF Bbr!SenderAssumption
  <2>2. PICK y : y = [bbr EXCEPT !.mds = d]
    OBVIOUS
  <2>3. y = [f \in BbrFields |-> y[f]] /\ y.mds = d
        /\ \A f \in BbrFields \ {"mds"} : y[f] = bbr[f]
    BY <2>2 DEF BbrInv, BbrCore
  <2>4. /\ Bbr!minCwnd(y) \in Int /\ Bbr!initialCwnd(y) \in Int /\ Bbr!maxCwnd(y) \in Int
        /\ Bbr!minCwnd(y) <= Bbr!initialCwnd(y) /\ Bbr!initialCwnd(y) <= Bbr!maxCwnd(y)
    BY <2>1, <2>3, BbrLimits
  <2>5. PICK c : c = IF bbr.cwnd = Bbr!minCwnd(bbr) THEN Bbr!minCwnd(y)
                     ELSE IF bbr.cwnd = Bbr!initialCwnd(bbr) THEN Bbr!initialCwnd(y)
                     ELSE Bbr!Least(Bbr!maxCwnd(y), Bbr!Most(bbr.cwnd, Bbr!minCwnd(y)))
    OBVIOUS
  <2>6. PICK r : r = Bbr!Least(Bbr!maxCwnd(y), Bbr!Most(bbr.recWindow, Bbr!minCwnd(y)))
    OBVIOUS
  <2>7. bbr.cwnd \in Int /\ bbr.recWindow \in Int
    BY DEF BbrInv, BbrCore
  <2>8. c \in Int /\ Bbr!minCwnd(y) <= c /\ c <= Bbr!maxCwnd(y)
    BY <2>4, <2>5, <2>7 DEF Bbr!Least, Bbr!Most
  <2>9. r \in Int /\ Bbr!minCwnd(y) <= r
    BY <2>4, <2>6, <2>7 DEF Bbr!Least, Bbr!Most
  <2>10. bbr' = [y EXCEPT !.cwnd = c, !.recWindow = r] /\ out' = out
    BY <1>4, <2>2, <2>5, <2>6, Zenon DEF Bbr!SetMaxDatagramSize
  <2>11. /\ bbr' = [f \in BbrFields |-> bbr'[f]]
         /\ bbr'.mds = d /\ bbr'.cwnd = c /\ bbr'.recWindow = r
         /\ \A f \in BbrFields \ {"mds", "cwnd", "recWindow"} : bbr'[f] = bbr[f]
    BY <2>3, <2>10
  <2>12. Bbr!minCwnd(bbr') = Bbr!minCwnd(y) /\ Bbr!maxCwnd(bbr') = Bbr!maxCwnd(y)
    BY <2>3, <2>11 DEF Bbr!minCwnd, Bbr!maxCwnd
  <2>13. BbrCore(bbr')
    BY <2>1, <2>8, <2>9, <2>11, <2>12 DEF BbrInv, BbrCore
  <2> QED
    BY <2>9, <2>10, <2>11, <2>12, <2>13 DEF BbrInv, BbrCore, Bbr!minCwnd, Bbr!maxCwnd
<1>5. ASSUME Bbr!Tick
      PROVE  BbrInv'
  <2>1. PICK u, v, q : bbr' = [bbr EXCEPT !.minRttAge = u, !.cycleAge = v, !.exitAt = q]
    BY <1>5 DEF Bbr!Tick
  <2>2. BbrCore([bbr EXCEPT !.minRttAge = u, !.cycleAge = v, !.exitAt = q])
    BY BbrPut DEF BbrInv
  <2>3. /\ bbr'.mds = bbr.mds /\ bbr'.recovery = bbr.recovery
        /\ bbr'.recWindow = bbr.recWindow /\ out' = out
    BY <1>5, <2>1 DEF BbrInv, BbrCore, Bbr!Tick
  <2> QED
    BY <2>1, <2>2, <2>3 DEF BbrInv, BbrCore, Bbr!InRecovery, Bbr!minCwnd, Bbr!maxCwnd
<1>6. ASSUME UNCHANGED Bbr!vars
      PROVE  BbrInv'
  BY <1>6 DEF BbrInv, BbrCore, Bbr!vars, Bbr!InRecovery, Bbr!minCwnd, Bbr!maxCwnd
<1> QED
  BY <1>1, <1>2, <1>3, <1>4, <1>5, <1>6 DEF Bbr!Next

(* The state of a new sender is a record.                                  *)
LEMMA BbrRecord == Bbr!Init => bbr = [f \in DOMAIN bbr |-> bbr[f]]
BY DEF Bbr!Init, BbrFields

(* A new sender has the initial window.                                    *)
LEMMA BbrStarts == ASSUME Bbr!Init PROVE BbrInv
<1> DEFINE d == CHOOSE d \in DatagramSizes : \A e \in DatagramSizes : d <= e
<1>1. d \in Nat \ {0} /\ HighCwndGain \in Int
  <2>1. /\ \E x \in DatagramSizes : \A e \in DatagramSizes : x <= e
        /\ DatagramSizes \subseteq Nat \ {0} /\ HighCwndGain \in Nat
    BY NodeAssumption DEF Bbr!SenderAssumption
  <2>2. d \in DatagramSizes
    BY <2>1, Zenon
  <2> HIDE DEF d
  <2> QED
    BY <2>1, <2>2
<1>2. DOMAIN bbr = BbrFields
  BY DEF Bbr!Init, BbrFields
<1>3. bbr = [f \in DOMAIN bbr |-> bbr[f]]
  BY BbrRecord
<1>4. /\ bbr.best = 0 /\ bbr.minRtt = 0 /\ bbr.cwndGain = HighCwndGain /\ bbr.inFlight = 0
      /\ bbr.recovery = Bbr!NotInRecovery
  BY DEF Bbr!Init
<1>5. bbr.mds = d /\ bbr.cwnd = InitialPackets * d /\ bbr.recWindow = MaxPackets * d
  BY DEF Bbr!Init
<1> HIDE DEF d
<1>6. /\ Bbr!minCwnd(bbr) \in Int /\ Bbr!initialCwnd(bbr) \in Int
      /\ Bbr!maxCwnd(bbr) \in Int /\ Bbr!minCwnd(bbr) <= Bbr!initialCwnd(bbr)
      /\ Bbr!initialCwnd(bbr) <= Bbr!maxCwnd(bbr)
  BY <1>1, <1>5, BbrLimits
<1>7. bbr.cwnd = Bbr!initialCwnd(bbr) /\ bbr.recWindow = Bbr!maxCwnd(bbr)
  BY <1>5 DEF Bbr!initialCwnd, Bbr!maxCwnd
<1>8. BbrCore(bbr)
  BY <1>1, <1>2, <1>3, <1>4, <1>5, <1>6, <1>7 DEF BbrCore
<1> QED
  BY <1>4, <1>8, FS_EmptySet DEF BbrInv, Bbr!Init, Bbr!InRecovery

(* What the invariant is for.                                              *)
LEMMA BbrInvImplies == BbrInv => Bbr!WindowInBounds
<1> SUFFICES ASSUME BbrInv PROVE Bbr!WindowInBounds
  OBVIOUS
<1>1. /\ Bbr!minCwnd(bbr) \in Int /\ Bbr!maxCwnd(bbr) \in Int
      /\ Bbr!minCwnd(bbr) <= Bbr!maxCwnd(bbr)
  BY BbrLimits DEF BbrInv, BbrCore
<1> QED
  BY <1>1 DEF BbrInv, BbrCore, Bbr!WindowInBounds, Bbr!GetCongestionWindow, Bbr!Least

-----------------------------------------------------------------------------
(***************************************************************************)
(* The Brutal sender.  Its sampling window sl and the losses it remembers, *)
(* lo, at time t: a slot that was ever used is that of its second, a loss  *)
(* is remembered under a second that still has its slot, and a slot counts *)
(* at least the losses remembered of its second -- and n more, which are   *)
(* counted in the current one and are yet to be remembered.                *)
(***************************************************************************)
BrutalSlot == [ts : Nat, ack : Nat, loss : Nat, ecn : Nat]

BrutalOf(lo, t) == {p \in DOMAIN lo : lo[p] = t}

BrutalBooks(sl, lo, t, n) ==
  /\ sl \in [Brutal!Slots -> BrutalSlot]
  /\ \A i \in Brutal!Slots : sl[i].ts <= t /\ (sl[i].ts # 0 => sl[i].ts % SlotCount = i)
  /\ IsFiniteSet(DOMAIN lo)
  /\ \A p \in DOMAIN lo :
       lo[p] \in Nat \ {0} /\ lo[p] <= t /\ sl[lo[p] % SlotCount].ts = lo[p]
  /\ \A i \in Brutal!Slots :
       Cardinality(BrutalOf(lo, sl[i].ts)) + (IF sl[i].ts = t THEN n ELSE 0) <= sl[i].loss

(* Less than a round apart, two seconds of one slot are one.               *)
LEMMA SameSecond ==
  ASSUME NEW x \in Nat, NEW t \in Nat, NEW N \in Nat \ {0}, x % N = t % N, x <= t, t - x < N
  PROVE  x = t
<1>1. /\ x \div N \in Int /\ t \div N \in Int
      /\ x = N * (x \div N) + (x % N) /\ t = N * (t \div N) + (t % N)
  OBVIOUS
<1>2. PICK q \in Int, p \in Int : x = N * q + (x % N) /\ t = N * p + (t % N)
  BY <1>1
<1>3. x % N \in Int
  OBVIOUS
<1>4. t - x = N * (p - q)
  BY <1>2, <1>3
<1>5. p - q >= 1 => N * (p - q) >= N
  OBVIOUS
<1>6. p - q <= -1 => N * (p - q) <= -N
  OBVIOUS
<1>7. q = p
  BY <1>4, <1>5, <1>6
<1> QED
  BY <1>2, <1>3, <1>7

(* SlotCount, and the slot of a second.                                    *)
LEMMA BrutalSlotOf ==
  /\ SlotCount \in Nat \ {0}
  /\ \A t \in Nat : t % SlotCount \in Brutal!Slots
BY NodeAssumption DEF Brutal!BrutalAssumption, Brutal!Slots

(* The losses of a second are finitely many.                               *)
LEMMA BrutalFew ==
  ASSUME NEW lo, IsFiniteSet(DOMAIN lo), NEW t
  PROVE  /\ IsFiniteSet(BrutalOf(lo, t))
         /\ Cardinality(BrutalOf(lo, t)) \in Nat
<1>1. BrutalOf(lo, t) \in SUBSET (DOMAIN lo)
  BY DEF BrutalOf
<1> QED
  BY <1>1, FS_Subset, FS_CardinalityType

(* What a slot counts.                                                     *)
LEMMA BrutalCounted ==
  ASSUME NEW sl, NEW lo, NEW t, NEW n \in Nat, BrutalBooks(sl, lo, t, n),
         NEW j \in Brutal!Slots
  PROVE  /\ sl[j] \in BrutalSlot /\ sl[j].loss \in Nat /\ sl[j].ts \in Nat
         /\ Cardinality(BrutalOf(lo, sl[j].ts)) \in Nat
         /\ Cardinality(BrutalOf(lo, sl[j].ts)) <= sl[j].loss
         /\ sl[j].ts = t => Cardinality(BrutalOf(lo, sl[j].ts)) + n <= sl[j].loss
<1>1. sl[j] \in BrutalSlot
  BY DEF BrutalBooks
<1>2. sl[j].loss \in Nat /\ sl[j].ts \in Nat
  BY <1>1 DEF BrutalSlot
<1>3. Cardinality(BrutalOf(lo, sl[j].ts)) \in Nat
  BY BrutalFew DEF BrutalBooks
<1>4. Cardinality(BrutalOf(lo, sl[j].ts)) + (IF sl[j].ts = t THEN n ELSE 0) <= sl[j].loss
  BY DEF BrutalBooks
<1> QED
  BY <1>1, <1>2, <1>3, <1>4

(* A second begins: its slot is emptied, and the losses of the second the  *)
(* slot was for are forgotten.                                             *)
LEMMA BrutalRotates ==
  ASSUME NEW sl, NEW lo, NEW t \in Nat \ {0}, BrutalBooks(sl, lo, t, 0),
         NEW i, i = t % SlotCount, sl[i].ts # t,
         NEW kept, kept = [p \in {q \in DOMAIN lo : lo[q] > t - SlotCount} |-> lo[p]]
  PROVE  BrutalBooks([sl EXCEPT ![i] = Brutal!EmptySlot(t)], kept, t, 0)
<1> DEFINE new == [sl EXCEPT ![i] = Brutal!EmptySlot(t)]
<1>1. SlotCount \in Nat \ {0} /\ i \in Brutal!Slots
  BY BrutalSlotOf
<1>2. /\ Brutal!EmptySlot(t) \in BrutalSlot /\ Brutal!EmptySlot(t).ts = t
      /\ Brutal!EmptySlot(t).loss = 0
  BY DEF Brutal!EmptySlot, BrutalSlot
<1>3. /\ new \in [Brutal!Slots -> BrutalSlot]
      /\ new[i] = Brutal!EmptySlot(t)
      /\ \A j \in Brutal!Slots \ {i} : new[j] = sl[j]
  BY <1>1, <1>2 DEF BrutalBooks
<1> HIDE DEF new
<1>4. ASSUME NEW j \in Brutal!Slots
      PROVE  new[j].ts <= t /\ (new[j].ts # 0 => new[j].ts % SlotCount = j)
  <2>1. CASE j = i
    BY <1>2, <1>3, <2>1
  <2>2. CASE j # i
    BY <1>3, <2>2 DEF BrutalBooks
  <2> QED
    BY <2>1, <2>2
<1>5. /\ DOMAIN kept = {q \in DOMAIN lo : lo[q] > t - SlotCount}
      /\ \A p \in DOMAIN kept : p \in DOMAIN lo /\ kept[p] = lo[p]
  OBVIOUS
<1>6. IsFiniteSet(DOMAIN kept)
  <2>1. DOMAIN kept \in SUBSET (DOMAIN lo)
    BY <1>5
  <2> QED
    BY <2>1, FS_Subset DEF BrutalBooks
<1>7. ASSUME NEW p \in DOMAIN kept
      PROVE  /\ kept[p] \in Nat \ {0} /\ kept[p] <= t /\ kept[p] # t
             /\ kept[p] % SlotCount \in Brutal!Slots \ {i}
             /\ new[kept[p] % SlotCount].ts = kept[p]
  <2>1. PICK k \in Nat \ {0} : k = lo[p] /\ kept[p] = k /\ k <= t
                               /\ sl[k % SlotCount].ts = k /\ k > t - SlotCount
    BY <1>5 DEF BrutalBooks
  <2>2. k # t
    BY <2>1
  <2>3. k % SlotCount # i
    <3>1. t - k < SlotCount
      BY <1>1, <2>1
    <3> QED
      BY <1>1, <2>1, <2>2, <3>1, SameSecond
  <2>4. k % SlotCount \in Brutal!Slots
    BY BrutalSlotOf
  <2> QED
    BY <1>3, <2>1, <2>2, <2>3, <2>4
<1>8. ASSUME NEW j \in Brutal!Slots
      PROVE  Cardinality(BrutalOf(kept, new[j].ts)) + (IF new[j].ts = t THEN 0 ELSE 0)
               <= new[j].loss
  <2>1. CASE j = i
    <3>1. BrutalOf(kept, new[j].ts) = {}
      BY <1>2, <1>3, <1>7, <2>1 DEF BrutalOf
    <3>2. Cardinality(BrutalOf(kept, new[j].ts)) = 0
      BY <3>1, FS_EmptySet
    <3>3. new[j].loss = 0
      BY <1>2, <1>3, <2>1
    <3> QED
      BY <3>2, <3>3
  <2>2. CASE j # i
    <3>1. BrutalOf(kept, sl[j].ts) \in SUBSET BrutalOf(lo, sl[j].ts)
      BY <1>5 DEF BrutalOf
    <3>2. IsFiniteSet(BrutalOf(lo, sl[j].ts))
      BY BrutalFew DEF BrutalBooks
    <3>3. /\ Cardinality(BrutalOf(kept, sl[j].ts)) <= Cardinality(BrutalOf(lo, sl[j].ts))
          /\ Cardinality(BrutalOf(kept, sl[j].ts)) \in Nat
          /\ Cardinality(BrutalOf(lo, sl[j].ts)) \in Nat
      BY <3>1, <3>2, FS_Subset, FS_CardinalityType
    <3>4. sl[j].loss \in Nat
      BY BrutalCounted
    <3>5. Cardinality(BrutalOf(lo, sl[j].ts)) <= sl[j].loss
      BY <3>3, BrutalCounted
    <3> QED
      BY <1>3, <2>2, <3>3, <3>4, <3>5
  <2> QED
    BY <2>1, <2>2
<1> QED
  BY <1>3, <1>4, <1>6, <1>7, <1>8 DEF new, BrutalBooks

(* An event is counted in the slot of the second, with n losses.           *)
LEMMA BrutalCountsEvent ==
  ASSUME NEW sl, NEW lo, NEW t \in Nat \ {0}, BrutalBooks(sl, lo, t, 0),
         NEW i \in Brutal!Slots, sl[i].ts = t, NEW n \in Nat,
         NEW new \in [Brutal!Slots -> BrutalSlot],
         new[i].ts = t, new[i].loss = sl[i].loss + n,
         \A j \in Brutal!Slots \ {i} : new[j] = sl[j]
  PROVE  BrutalBooks(new, lo, t, n)
<1>1. i = t % SlotCount
  BY DEF BrutalBooks
<1>2. \A j \in Brutal!Slots : new[j].ts = sl[j].ts
  OBVIOUS
<1>3. ASSUME NEW p \in DOMAIN lo
      PROVE  lo[p] \in Nat \ {0} /\ lo[p] <= t /\ new[lo[p] % SlotCount].ts = lo[p]
  BY <1>2, BrutalSlotOf DEF BrutalBooks
<1>4. ASSUME NEW j \in Brutal!Slots
      PROVE  Cardinality(BrutalOf(lo, new[j].ts)) + (IF new[j].ts = t THEN n ELSE 0)
               <= new[j].loss
  <2>1. /\ sl[j].loss \in Nat /\ Cardinality(BrutalOf(lo, sl[j].ts)) \in Nat
        /\ Cardinality(BrutalOf(lo, sl[j].ts)) <= sl[j].loss
    BY BrutalCounted
  <2>2. CASE j = i
    BY <1>2, <2>1, <2>2
  <2>3. CASE j # i
    <3>1. sl[j].ts # t
      BY <1>1, <2>3 DEF BrutalBooks
    <3> QED
      BY <1>2, <2>1, <2>3, <3>1
  <2> QED
    BY <2>2, <2>3
<1> QED
  BY <1>2, <1>3, <1>4 DEF BrutalBooks

(* In the slots new, some of the losses that were heard of are taken back. *)
BrutalTaken(new, sl, lo, heard) ==
  /\ new \in [Brutal!Slots -> BrutalSlot]
  /\ \A j \in Brutal!Slots :
       /\ new[j].ts = sl[j].ts
       /\ \E S \in SUBSET (heard \cap BrutalOf(lo, sl[j].ts)) :
            new[j].loss = Brutal!Most(0, sl[j].loss - Cardinality(S))

(* Losses that were acknowledged after all are taken back from their slots *)
(* and forgotten.                                                          *)
LEMMA BrutalTakesBack ==
  ASSUME NEW sl, NEW lo, NEW t \in Nat \ {0}, NEW n \in Nat, BrutalBooks(sl, lo, t, n),
         NEW heard, NEW new, BrutalTaken(new, sl, lo, heard)
  PROVE  BrutalBooks(new, [p \in DOMAIN lo \ heard |-> lo[p]], t, n)
<1> DEFINE kept == [p \in DOMAIN lo \ heard |-> lo[p]]
<1>1. /\ DOMAIN kept = DOMAIN lo \ heard
      /\ \A p \in DOMAIN kept : p \in DOMAIN lo /\ kept[p] = lo[p]
  OBVIOUS
<1>0. /\ new \in [Brutal!Slots -> BrutalSlot]
      /\ \A j \in Brutal!Slots : new[j].ts = sl[j].ts
  BY DEF BrutalTaken
<1> HIDE DEF kept
<1>2. IsFiniteSet(DOMAIN kept)
  <2>1. DOMAIN kept \in SUBSET (DOMAIN lo)
    BY <1>1
  <2> QED
    BY <2>1, FS_Subset DEF BrutalBooks
<1>3. ASSUME NEW p \in DOMAIN kept
      PROVE  kept[p] \in Nat \ {0} /\ kept[p] <= t /\ new[kept[p] % SlotCount].ts = kept[p]
  BY <1>0, <1>1, BrutalSlotOf DEF BrutalBooks
<1>4. ASSUME NEW j \in Brutal!Slots
      PROVE  Cardinality(BrutalOf(kept, new[j].ts)) + (IF new[j].ts = t THEN n ELSE 0)
               <= new[j].loss
  <2> DEFINE Of == BrutalOf(lo, sl[j].ts)
  <2>1. PICK S \in SUBSET (heard \cap Of) :
             new[j].loss = Brutal!Most(0, sl[j].loss - Cardinality(S))
    BY DEF BrutalTaken
  <2>2. /\ sl[j].loss \in Nat /\ Cardinality(Of) \in Nat
        /\ Cardinality(Of) + (IF sl[j].ts = t THEN n ELSE 0) <= sl[j].loss
    BY BrutalCounted
  <2>3. BrutalOf(kept, sl[j].ts) \in SUBSET (Of \ S)
    BY <1>1, <2>1 DEF BrutalOf
  <2>4. IsFiniteSet(Of)
    BY BrutalFew DEF BrutalBooks
  <2> HIDE DEF Of
  <2>5. S \in SUBSET Of
    BY <2>1
  <2>6. IsFiniteSet(S) /\ Cardinality(S) \in Nat
    BY <2>4, <2>5, FS_Subset, FS_CardinalityType
  <2>7. IsFiniteSet(Of \ S) /\ Cardinality(Of \ S) = Cardinality(Of) - Cardinality(Of \cap S)
    BY <2>4, FS_Difference
  <2>8. Of \cap S = S
    BY <2>5
  <2>9. /\ Cardinality(BrutalOf(kept, sl[j].ts)) <= Cardinality(Of \ S)
        /\ Cardinality(BrutalOf(kept, sl[j].ts)) \in Nat
    BY <2>3, <2>7, FS_Subset, FS_CardinalityType
  <2>10. new[j].ts = sl[j].ts
    BY <1>0
  <2>11. PICK c \in Nat : c = IF sl[j].ts = t THEN n ELSE 0
    OBVIOUS
  <2>12. Cardinality(Of) + c <= sl[j].loss
    BY <2>2, <2>11
  <2>13. Cardinality(BrutalOf(kept, sl[j].ts)) <= Cardinality(Of) - Cardinality(S)
    BY <2>7, <2>8, <2>9
  <2>14. \A l \in Nat, of \in Nat, k \in Nat, m1 \in Nat :
           of + c <= l /\ k <= of - m1 => k + c <= Brutal!Most(0, l - m1)
    BY DEF Brutal!Most
  <2>15. Cardinality(BrutalOf(kept, sl[j].ts)) + c <= Brutal!Most(0, sl[j].loss - Cardinality(S))
    BY <2>2, <2>6, <2>9, <2>12, <2>13, <2>14
  <2>16. Cardinality(BrutalOf(kept, sl[j].ts)) + c <= new[j].loss
    BY <2>1, <2>15
  <2> QED
    BY <2>10, <2>11, <2>16
<1>5. \A j \in Brutal!Slots : new[j].ts <= t /\ (new[j].ts # 0 => new[j].ts % SlotCount = j)
  BY <1>0 DEF BrutalBooks
<1>6. BrutalBooks(new, kept, t, n)
  BY <1>0, <1>2, <1>3, <1>4, <1>5 DEF BrutalBooks
<1> QED
  BY <1>6 DEF kept

(* The losses of the event are remembered.                                 *)
LEMMA BrutalRemembers ==
  ASSUME NEW sl, NEW lo, NEW t \in Nat \ {0}, NEW lost, IsFiniteSet(lost),
         BrutalBooks(sl, lo, t, Cardinality(lost)), sl[t % SlotCount].ts = t,
         NEW more, more = [p \in DOMAIN lo \cup lost |-> IF p \in lost THEN t ELSE lo[p]]
  PROVE  BrutalBooks(sl, more, t, 0)
<1>1. /\ DOMAIN more = DOMAIN lo \cup lost
      /\ \A p \in lost : more[p] = t
      /\ \A p \in DOMAIN lo \ lost : more[p] = lo[p]
  OBVIOUS
<1>2. IsFiniteSet(DOMAIN more)
  BY <1>1, FS_Union DEF BrutalBooks
<1>3. ASSUME NEW p \in DOMAIN more
      PROVE  more[p] \in Nat \ {0} /\ more[p] <= t /\ sl[more[p] % SlotCount].ts = more[p]
  <2>1. CASE p \in lost
    BY <1>1, <2>1
  <2>2. CASE p \notin lost
    BY <1>1, <2>2 DEF BrutalBooks
  <2> QED
    BY <2>1, <2>2
<1>4. Cardinality(lost) \in Nat
  BY FS_CardinalityType
<1>5. ASSUME NEW j \in Brutal!Slots
      PROVE  Cardinality(BrutalOf(more, sl[j].ts)) <= sl[j].loss
  <2> DEFINE Of == BrutalOf(lo, sl[j].ts)
  <2>1. /\ sl[j].loss \in Nat /\ Cardinality(Of) \in Nat /\ Cardinality(Of) <= sl[j].loss
        /\ sl[j].ts = t => Cardinality(Of) + Cardinality(lost) <= sl[j].loss
    BY <1>4, BrutalCounted
  <2>2. IsFiniteSet(Of)
    BY BrutalFew DEF BrutalBooks
  <2>3. CASE sl[j].ts = t
    <3>1. BrutalOf(more, sl[j].ts) \in SUBSET (Of \cup lost)
      BY <1>1 DEF BrutalOf
    <3> HIDE DEF Of
    <3>2. /\ IsFiniteSet(Of \cup lost)
          /\ Cardinality(Of \cup lost)
               = Cardinality(Of) + Cardinality(lost) - Cardinality(Of \cap lost)
      BY <2>2, FS_Union
    <3>3. Cardinality(Of \cap lost) \in Nat
      BY <2>2, FS_Intersection, FS_CardinalityType
    <3>4. /\ Cardinality(BrutalOf(more, sl[j].ts)) <= Cardinality(Of \cup lost)
          /\ Cardinality(BrutalOf(more, sl[j].ts)) \in Nat
      BY <3>1, <3>2, FS_Subset, FS_CardinalityType
    <3> QED
      BY <1>4, <2>1, <2>3, <3>2, <3>3, <3>4
  <2>4. CASE sl[j].ts # t
    <3>1. BrutalOf(more, sl[j].ts) \in SUBSET Of
      BY <1>1, <2>4 DEF BrutalOf
    <3> HIDE DEF Of
    <3>2. /\ Cardinality(BrutalOf(more, sl[j].ts)) <= Cardinality(Of)
          /\ Cardinality(BrutalOf(more, sl[j].ts)) \in Nat
      BY <2>2, <3>1, FS_Subset, FS_CardinalityType
    <3> QED
      BY <2>1, <3>2
  <2> QED
    BY <2>3, <2>4
<1>6. ASSUME NEW j \in Brutal!Slots
      PROVE  Cardinality(BrutalOf(more, sl[j].ts)) + (IF sl[j].ts = t THEN 0 ELSE 0)
               <= sl[j].loss
  <2>1. Cardinality(BrutalOf(more, sl[j].ts)) \in Nat
    BY <1>2, BrutalFew
  <2>2. Cardinality(BrutalOf(more, sl[j].ts)) <= sl[j].loss
    BY <1>5
  <2> QED
    BY <2>1, <2>2
<1> QED
  BY <1>2, <1>3, <1>6 DEF BrutalBooks

(* Losses need not be remembered, and time may pass.                       *)
LEMMA BrutalAges ==
  ASSUME NEW sl, NEW lo, NEW t \in Nat, NEW n \in Nat, BrutalBooks(sl, lo, t, n),
         NEW u \in Nat, t <= u
  PROVE  BrutalBooks(sl, lo, u, 0)
<1>1. ASSUME NEW j \in Brutal!Slots
      PROVE  /\ sl[j].ts <= u /\ (sl[j].ts # 0 => sl[j].ts % SlotCount = j)
             /\ Cardinality(BrutalOf(lo, sl[j].ts)) + (IF sl[j].ts = u THEN 0 ELSE 0)
                  <= sl[j].loss
  <2>1. sl[j].ts \in Nat
    BY BrutalCounted
  <2>3. sl[j].ts <= t /\ (sl[j].ts # 0 => sl[j].ts % SlotCount = j)
    BY DEF BrutalBooks
  <2>2. /\ Cardinality(BrutalOf(lo, sl[j].ts)) \in Nat
        /\ Cardinality(BrutalOf(lo, sl[j].ts)) <= sl[j].loss
    BY BrutalCounted
  <2> QED
    BY <2>1, <2>2, <2>3
<1>2. ASSUME NEW p \in DOMAIN lo
      PROVE  lo[p] \in Nat \ {0} /\ lo[p] <= u /\ sl[lo[p] % SlotCount].ts = lo[p]
  BY DEF BrutalBooks
<1> QED
  BY <1>1, <1>2 DEF BrutalBooks

(* The fields of the run loop; their books are in order at time t.         *)
BrutalFields ==
  {"rate", "budget", "lastSent", "slots", "lostPNs", "compensating", "congested", "ecn",
   "floor", "rbMin", "rbSamples", "rbStart", "changed"}

BrutalCore(x, t) ==
  DOMAIN x = BrutalFields /\ x.ecn \in Nat /\ BrutalBooks(x.slots, x.lostPNs, t, 0)

(* Fields that only differ in what the books and the credit do not need.   *)
BrutalLike(y, x) ==
  /\ DOMAIN y = BrutalFields
  /\ y.slots = x.slots /\ y.lostPNs = x.lostPNs /\ y.ecn = x.ecn /\ y.budget = x.budget

(* The books are in order, and credit of an earlier rate is only there     *)
(* while a request to drop it is on its way.                               *)
BrutalInv ==
  /\ BrutalCore(b, second) /\ second \in Nat \ {0} /\ IsFiniteSet(inFlight)
  /\ stale => setting # 0 \/ pacerReset

(* drainPending leaves the books alone, and drops the credit on request.   *)
LEMMA BrutalDrains ==
  ASSUME DOMAIN b = BrutalFields
  PROVE  /\ DOMAIN Brutal!drained = BrutalFields
         /\ Brutal!drained.slots = b.slots /\ Brutal!drained.lostPNs = b.lostPNs
         /\ Brutal!drained.ecn = b.ecn
         /\ pacerReset => Brutal!drained.budget = 0
<1> DEFINE d == IF pacerReset THEN [b EXCEPT !.budget = 0] ELSE b
<1>1. /\ DOMAIN d = BrutalFields
      /\ d.slots = b.slots /\ d.lostPNs = b.lostPNs /\ d.ecn = b.ecn
      /\ pacerReset => d.budget = 0
  BY DEF BrutalFields
<1>2. Brutal!drained = IF pathReset
                         THEN [d EXCEPT !.changed = TRUE, !.floor = 0, !.rbMin = 0, !.rbSamples = 0]
                         ELSE d
  BY DEF Brutal!drained
<1> HIDE DEF d
<1> QED
  BY <1>1, <1>2 DEF BrutalFields

(* Nor does a round trip on a new path.                                    *)
LEMMA BrutalRebaselines ==
  ASSUME NEW x, DOMAIN x = BrutalFields, NEW latest
  PROVE  BrutalLike(Brutal!rebaseline(x, latest), x)
BY DEF BrutalLike, BrutalFields, Brutal!rebaseline

(* Nor does the compensation.                                              *)
LEMMA BrutalRated ==
  ASSUME NEW x, DOMAIN x = BrutalFields, NEW srtt
  PROVE  BrutalLike(Brutal!updateAckRate(x, srtt), x)
<1> DEFINE g == [x EXCEPT !.congested =
                   Brutal!updateCongestionGate(x, Brutal!Total(x, "ecn"), srtt)]
           c == [g EXCEPT !.compensating =
                   Brutal!Total(x, "ack") + Brutal!Total(x, "loss")
                     >= (IF x.compensating THEN MinSamplesExit ELSE MinSamples)]
<1>1. BrutalLike(g, x)
  BY DEF BrutalLike, BrutalFields
<1>2. BrutalLike(c, x)
  <2> HIDE DEF g
  <2> QED
    BY <1>1 DEF BrutalLike, BrutalFields
<1>3. \E v : Brutal!updateAckRate(x, srtt) \in {[g EXCEPT !.rate = v], [c EXCEPT !.rate = v]}
  <2> DEFINE v == 5
             w == IF 5 * Brutal!Total(x, "ack")
                       < 4 * (Brutal!Total(x, "ack") + Brutal!Total(x, "loss")) THEN 6
                  ELSE (5 * (Brutal!Total(x, "ack") + Brutal!Total(x, "loss")))
                         \div Brutal!Total(x, "ack")
  <2>1. Brutal!updateAckRate(x, srtt)
          \in {[g EXCEPT !.rate = v], [c EXCEPT !.rate = v], [c EXCEPT !.rate = w]}
    BY DEF Brutal!updateAckRate
  <2> HIDE DEF g, c, v, w
  <2> QED
    BY <2>1
<1> HIDE DEF g, c
<1>4. PICK v : Brutal!updateAckRate(x, srtt) \in {[g EXCEPT !.rate = v], [c EXCEPT !.rate = v]}
  BY <1>3
<1>5. BrutalLike([g EXCEPT !.rate = v], x)
  BY <1>1 DEF BrutalLike, BrutalFields
<1>6. BrutalLike([c EXCEPT !.rate = v], x)
  BY <1>2 DEF BrutalLike, BrutalFields
<1> QED
  BY <1>4, <1>5, <1>6

(* Counting inside the instance is counting.                               *)
LEMMA BrutalCounting == \A S : Brutal!Cardinality(S) = Cardinality(S)
BY DEF Brutal!Cardinality, Cardinality

(* One slot counts an event.                                               *)
LEMMA BrutalCountsOne ==
  ASSUME NEW x \in BrutalSlot, NEW k \in Nat, NEW l \in Nat, NEW c \in Nat
  PROVE  /\ Brutal!Counted(x, k, l, c) \in BrutalSlot
         /\ Brutal!Counted(x, k, l, c).ts = x.ts
         /\ Brutal!Counted(x, k, l, c).loss = x.loss + l
<1>1. PICK y : y = [x EXCEPT !.ack = x.ack + k]
  OBVIOUS
<1>2. y \in BrutalSlot /\ y.ts = x.ts /\ y.loss = x.loss /\ y.ecn = x.ecn
  BY <1>1 DEF BrutalSlot
<1>3. PICK z : z = [y EXCEPT !.loss = x.loss + l]
  OBVIOUS
<1>4. z \in BrutalSlot /\ z.ts = x.ts /\ z.loss = x.loss + l /\ z.ecn = x.ecn
  BY <1>2, <1>3 DEF BrutalSlot
<1>5. Brutal!Counted(x, k, l, c) = [z EXCEPT !.ecn = x.ecn + c]
  BY <1>1, <1>3 DEF Brutal!Counted
<1> QED
  BY <1>4, <1>5 DEF BrutalSlot

(* One slot takes losses back that were counted in its second.             *)
LEMMA BrutalCorrectsOne ==
  ASSUME NEW x \in BrutalSlot, NEW j, NEW heard, IsFiniteSet(heard), NEW lo,
         NEW y, y = Brutal!Corrected(x, j, heard, lo)
  PROVE  /\ y \in BrutalSlot /\ y.ts = x.ts
         /\ \E S \in SUBSET (heard \cap BrutalOf(lo, x.ts)) :
              y.loss = Brutal!Most(0, x.loss - Cardinality(S))
<1> DEFINE back == {p \in heard \cap DOMAIN lo : lo[p] % SlotCount = j /\ lo[p] = x.ts}
<1>1. back \in SUBSET (heard \cap BrutalOf(lo, x.ts)) /\ back \in SUBSET heard
  BY DEF BrutalOf
<1>2. y = [x EXCEPT !.loss = Brutal!Most(0, @ - Brutal!Cardinality(back))]
  BY DEF Brutal!Corrected
<1> HIDE DEF back
<1>3. Brutal!Cardinality(back) = Cardinality(back) /\ Cardinality(back) \in Nat
  BY <1>1, FS_Subset, FS_CardinalityType, BrutalCounting
<1>4. x.loss \in Nat
  BY DEF BrutalSlot
<1>5. PICK l \in Nat : l = Brutal!Most(0, x.loss - Cardinality(back))
  BY <1>3, <1>4 DEF Brutal!Most
<1>6. y = [x EXCEPT !.loss = l]
  BY <1>2, <1>3, <1>5
<1>7. y \in BrutalSlot /\ y.ts = x.ts /\ y.loss = l
  BY <1>6 DEF BrutalSlot
<1>8. \E S \in SUBSET (heard \cap BrutalOf(lo, x.ts)) :
        y.loss = Brutal!Most(0, x.loss - Cardinality(S))
  BY <1>1, <1>5, <1>7
<1> QED
  BY <1>7, <1>8

(* A whole event keeps the books: the slot of the second is made ready and *)
(* counts it, what was acknowledged after all is taken back, and what is   *)
(* lost is remembered while there is room.                                 *)
LEMMA BrutalEvent ==
  ASSUME BrutalInv, NEW heard, IsFiniteSet(heard), NEW lost \in SUBSET inFlight,
         NEW latest, NEW srtt, Brutal!OnCongestionEventEx(heard, lost, latest, srtt)
  PROVE  BrutalCore(b', second) /\ (pacerReset => b'.budget = 0)
<1> DEFINE d == Brutal!drained
           s0 == IF d.changed /\ heard # {} THEN Brutal!rebaseline(d, latest) ELSE d
           i == second % SlotCount
           s1 == IF s0.slots[i].ts = second THEN s0
                 ELSE [s0 EXCEPT !.slots[i] = Brutal!EmptySlot(second),
                                 !.lostPNs = Brutal!pruneLostPNs(@)]
           s2 == [s1 EXCEPT !.slots[i] = Brutal!Counted(@, Brutal!Cardinality(heard),
                                                        Brutal!Cardinality(lost), s1.ecn),
                            !.ecn = 0]
           s3 == [s2 EXCEPT !.slots = [j \in Brutal!Slots |->
                              Brutal!Corrected(@[j], j, heard, s2.lostPNs)],
                            !.lostPNs = [p \in DOMAIN @ \ heard |-> @[p]]]
           s4 == IF Brutal!Cardinality(DOMAIN s3.lostPNs) >= TrackLimit THEN s3
                 ELSE [s3 EXCEPT !.lostPNs = [p \in DOMAIN @ \cup lost |->
                                                IF p \in lost THEN second ELSE @[p]]]
<1>1. b' = Brutal!updateAckRate(s4, srtt)
  BY DEF Brutal!OnCongestionEventEx
<1>2. /\ DOMAIN d = BrutalFields /\ d.ecn \in Nat
      /\ BrutalBooks(d.slots, d.lostPNs, second, 0)
      /\ pacerReset => d.budget = 0
  BY BrutalDrains DEF BrutalInv, BrutalCore
<1>3. i \in Brutal!Slots /\ SlotCount \in Nat \ {0} /\ second \in Nat \ {0}
  BY BrutalSlotOf DEF BrutalInv
<1>4. IsFiniteSet(lost) /\ Cardinality(heard) \in Nat /\ Cardinality(lost) \in Nat
  BY FS_Subset, FS_CardinalityType DEF BrutalInv
<1>5. /\ DOMAIN s0 = BrutalFields /\ s0.ecn \in Nat
      /\ BrutalBooks(s0.slots, s0.lostPNs, second, 0)
      /\ pacerReset => s0.budget = 0
  <2> HIDE DEF d
  <2> QED
    BY <1>2, BrutalRebaselines DEF BrutalLike
<1>6. /\ DOMAIN s1 = BrutalFields /\ s1.ecn \in Nat
      /\ BrutalBooks(s1.slots, s1.lostPNs, second, 0) /\ s1.slots[i].ts = second
      /\ pacerReset => s1.budget = 0
  <2> HIDE DEF s0
  <2>1. CASE s0.slots[i].ts = second
    BY <1>5, <2>1
  <2>2. CASE s0.slots[i].ts # second
    <3>1. /\ DOMAIN s1 = BrutalFields /\ s1.ecn = s0.ecn /\ s1.budget = s0.budget
          /\ s1.slots = [s0.slots EXCEPT ![i] = Brutal!EmptySlot(second)]
          /\ s1.lostPNs = Brutal!pruneLostPNs(s0.lostPNs)
      BY <1>5, <2>2 DEF BrutalFields
    <3> HIDE DEF s1
    <3>2. Brutal!pruneLostPNs(s0.lostPNs)
            = [p \in {q \in DOMAIN s0.lostPNs : s0.lostPNs[q] > second - SlotCount}
                 |-> s0.lostPNs[p]]
      BY DEF Brutal!pruneLostPNs
    <3>3. BrutalBooks(s1.slots, s1.lostPNs, second, 0)
      BY <1>3, <1>5, <2>2, <3>1, <3>2, BrutalRotates
    <3>4. s1.slots[i].ts = second
      <4>1. s1.slots[i] = Brutal!EmptySlot(second)
        BY <1>3, <1>5, <3>1 DEF BrutalBooks
      <4> QED
        BY <4>1 DEF Brutal!EmptySlot
    <3> QED
      BY <1>5, <3>1, <3>3, <3>4
  <2> QED
    BY <2>1, <2>2
<1>7. /\ DOMAIN s2 = BrutalFields /\ s2.ecn = 0
      /\ BrutalBooks(s2.slots, s2.lostPNs, second, Cardinality(lost))
      /\ s2.slots[i].ts = second
      /\ pacerReset => s2.budget = 0
  <2> HIDE DEF s1
  <2> DEFINE e == Brutal!Counted(s1.slots[i], Brutal!Cardinality(heard),
                                 Brutal!Cardinality(lost), s1.ecn)
  <2>1. /\ DOMAIN s2 = BrutalFields /\ s2.ecn = 0 /\ s2.budget = s1.budget
        /\ s2.slots = [s1.slots EXCEPT ![i] = e] /\ s2.lostPNs = s1.lostPNs
    BY <1>6 DEF BrutalFields
  <2> HIDE DEF s2
  <2>2. s1.slots[i] \in BrutalSlot
    BY <1>3, <1>6, BrutalCounted
  <2>3. /\ e \in BrutalSlot /\ e.ts = second
        /\ e.loss = s1.slots[i].loss + Cardinality(lost)
    <3>0. PICK x \in BrutalSlot : x = s1.slots[i] /\ x.ts = second
      BY <1>6, <2>2
    <3>1. PICK k \in Nat, l \in Nat : /\ k = Brutal!Cardinality(heard)
                                       /\ l = Brutal!Cardinality(lost) /\ l = Cardinality(lost)
      BY <1>4, BrutalCounting
    <3>2. PICK c \in Nat : c = s1.ecn
      BY <1>6
    <3>3. e = Brutal!Counted(x, k, l, c)
      BY <3>0, <3>1, <3>2
    <3> HIDE DEF e
    <3>4. e \in BrutalSlot /\ e.ts = x.ts /\ e.loss = x.loss + l
      BY <3>3, BrutalCountsOne, ZenonT(60)
    <3> QED
      BY <3>0, <3>1, <3>4
  <2> HIDE DEF e
  <2>4. s1.slots \in [Brutal!Slots -> BrutalSlot]
    BY <1>6 DEF BrutalBooks
  <2>5. /\ s2.slots \in [Brutal!Slots -> BrutalSlot]
        /\ s2.slots[i] = e
        /\ \A j \in Brutal!Slots \ {i} : s2.slots[j] = s1.slots[j]
    BY <1>3, <2>1, <2>3, <2>4
  <2>6. BrutalBooks(s2.slots, s1.lostPNs, second, Cardinality(lost))
    BY <1>3, <1>4, <1>6, <2>3, <2>5, BrutalCountsEvent
  <2> QED
    BY <1>6, <2>1, <2>3, <2>5, <2>6
<1>8. /\ DOMAIN s3 = BrutalFields /\ s3.ecn = 0
      /\ BrutalBooks(s3.slots, s3.lostPNs, second, Cardinality(lost))
      /\ s3.slots[i].ts = second
      /\ pacerReset => s3.budget = 0
  <2> HIDE DEF s2
  <2>1. /\ DOMAIN s3 = BrutalFields /\ s3.ecn = 0 /\ s3.budget = s2.budget
        /\ s3.slots = [j \in Brutal!Slots |->
              Brutal!Corrected(s2.slots[j], j, heard, s2.lostPNs)]
        /\ s3.lostPNs = [p \in DOMAIN s2.lostPNs \ heard |-> s2.lostPNs[p]]
    BY <1>7 DEF BrutalFields
  <2> HIDE DEF s3
  <2>2. ASSUME NEW j \in Brutal!Slots
        PROVE  /\ s3.slots[j] \in BrutalSlot /\ s3.slots[j].ts = s2.slots[j].ts
               /\ \E S \in SUBSET (heard \cap BrutalOf(s2.lostPNs, s2.slots[j].ts)) :
                    s3.slots[j].loss = Brutal!Most(0, s2.slots[j].loss - Cardinality(S))
    <3>1. s2.slots[j] \in BrutalSlot /\ s2.slots[j].loss \in Nat
      BY <1>4, <1>7, BrutalCounted
    <3>2. s3.slots[j] = Brutal!Corrected(s2.slots[j], j, heard, s2.lostPNs)
      BY <2>1
    <3> QED
      BY <3>1, <3>2, BrutalCorrectsOne
  <2>3. s3.slots \in [Brutal!Slots -> BrutalSlot]
    <3>1. DOMAIN s3.slots = Brutal!Slots /\ s3.slots = [j \in Brutal!Slots |-> s3.slots[j]]
      BY <2>1
    <3> QED
      BY <2>2, <3>1
  <2>4. BrutalBooks(s3.slots, s3.lostPNs, second, Cardinality(lost))
    <3>1. \A j \in Brutal!Slots :
            /\ s3.slots[j].ts = s2.slots[j].ts
            /\ \E S \in SUBSET (heard \cap BrutalOf(s2.lostPNs, s2.slots[j].ts)) :
                 s3.slots[j].loss = Brutal!Most(0, s2.slots[j].loss - Cardinality(S))
      BY <2>2
    <3>2. BrutalTaken(s3.slots, s2.slots, s2.lostPNs, heard)
      BY <2>3, <3>1 DEF BrutalTaken
    <3>3. PICK n \in Nat : n = Cardinality(lost)
      BY <1>4
    <3>4. BrutalBooks(s3.slots, [p \in DOMAIN s2.lostPNs \ heard |-> s2.lostPNs[p]], second, n)
      BY <1>3, <1>7, <3>2, <3>3, BrutalTakesBack
    <3> QED
      BY <2>1, <3>3, <3>4
  <2> QED
    BY <1>3, <1>7, <2>1, <2>2, <2>4
<1>9. /\ DOMAIN s4 = BrutalFields /\ s4.ecn = 0
      /\ BrutalBooks(s4.slots, s4.lostPNs, second, 0)
      /\ pacerReset => s4.budget = 0
  <2> HIDE DEF s3
  <2>1. CASE s4 = s3
    <3>1. BrutalBooks(s3.slots, s3.lostPNs, second, 0)
      BY <1>3, <1>4, <1>8, BrutalAges
    <3> HIDE DEF s4
    <3> QED
      BY <1>8, <2>1, <3>1
  <2>2. CASE s4 # s3
    <3>1. /\ DOMAIN s4 = BrutalFields /\ s4.ecn = 0 /\ s4.budget = s3.budget
          /\ s4.slots = s3.slots
          /\ s4.lostPNs = [p \in DOMAIN s3.lostPNs \cup lost |->
                            IF p \in lost THEN second ELSE s3.lostPNs[p]]
      BY <1>8, <2>2 DEF BrutalFields
    <3> HIDE DEF s4
    <3>2. BrutalBooks(s3.slots, s4.lostPNs, second, 0)
      BY <1>3, <1>4, <1>8, <3>1, BrutalRemembers
    <3> QED
      BY <1>8, <3>1, <3>2
  <2> QED
    BY <2>1, <2>2
<1> HIDE DEF s4
<1>10. BrutalLike(b', s4)
  BY <1>1, <1>9, BrutalRated
<1> QED
  BY <1>9, <1>10, SMTT(40) DEF BrutalLike, BrutalCore

(* Every step keeps the books and drops the credit it was asked to drop.   *)
LEMMA BrutalKept == ASSUME BrutalInv, [Brutal!Next]_(Brutal!vars) PROVE BrutalInv'
<1>1. ASSUME NEW k \in 1..2, NEW r \in Rates, Brutal!SetBPS(k, r)
      PROVE  BrutalInv'
  <2>1. r # 0
    BY NodeAssumption DEF Brutal!BrutalAssumption
  <2>2. b' = b /\ inFlight' = inFlight /\ second' = second
    BY <1>1 DEF Brutal!SetBPS, Brutal!loop
  <2>3. /\ setting' = (IF k = 1 THEN r ELSE 0)
        /\ pacerReset' = (pacerReset \/ k = 2)
    BY <1>1 DEF Brutal!SetBPS
  <2>4. k = 1 \/ k = 2
    OBVIOUS
  <2>5. setting' # 0 \/ pacerReset'
    BY <2>1, <2>3, <2>4, Zenon
  <2> QED
    BY <2>2, <2>5 DEF BrutalInv
<1>2. ASSUME Brutal!OnPathChange
      PROVE  BrutalInv'
  BY <1>2 DEF BrutalInv, Brutal!OnPathChange, Brutal!loop
<1>3. ASSUME Brutal!HasPacingBudget
      PROVE  BrutalInv'
  <2>1. /\ b' = Brutal!drained /\ inFlight' = inFlight /\ second' = second
        /\ setting' = setting /\ (stale' => stale /\ b'.budget > 0)
    BY <1>3 DEF Brutal!HasPacingBudget, Brutal!drainPending
  <2>2. DOMAIN b = BrutalFields
    BY DEF BrutalInv, BrutalCore
  <2>3. BrutalCore(b', second) /\ (pacerReset => b'.budget = 0)
    BY <2>1, <2>2, BrutalDrains DEF BrutalInv, BrutalCore
  <2> QED
    BY <2>1, <2>3 DEF BrutalInv
<1>4. ASSUME Brutal!OnPacketSent
      PROVE  BrutalInv'
  <2>1. /\ b' = Brutal!SentPacket(Brutal!drained) /\ inFlight' = inFlight \cup {next}
        /\ second' = second /\ setting' = setting
        /\ (stale' => stale /\ Brutal!drained.budget > 0)
    BY <1>4 DEF Brutal!OnPacketSent, Brutal!drainPending
  <2>2. DOMAIN b = BrutalFields
    BY DEF BrutalInv, BrutalCore
  <2>3. BrutalCore(Brutal!drained, second) /\ (pacerReset => Brutal!drained.budget = 0)
    BY <2>2, BrutalDrains DEF BrutalInv, BrutalCore
  <2>4. PICK v : b' = [Brutal!drained EXCEPT !.budget = v, !.lastSent = second]
    BY <2>1 DEF Brutal!SentPacket
  <2>5. BrutalCore(b', second)
    BY <2>3, <2>4 DEF BrutalCore, BrutalFields
  <2>6. IsFiniteSet(inFlight')
    BY <2>1, FS_AddElement DEF BrutalInv
  <2> QED
    BY <2>1, <2>3, <2>5, <2>6 DEF BrutalInv
<1>5. ASSUME Brutal!OnCongestionEvent
      PROVE  BrutalInv'
  <2>1. /\ b' = [b EXCEPT !.ecn = @ + 1] /\ inFlight' = inFlight /\ second' = second
        /\ setting' = setting /\ pacerReset' = pacerReset /\ stale' = stale
    BY <1>5 DEF Brutal!OnCongestionEvent, Brutal!asked
  <2>2. BrutalCore(b', second)
    BY <2>1 DEF BrutalInv, BrutalCore, BrutalFields
  <2> QED
    BY <2>1, <2>2 DEF BrutalInv
<1>6. ASSUME NEW heard, IsFiniteSet(heard), NEW lost \in SUBSET inFlight, NEW latest,
             NEW srtt, Brutal!OnCongestionEventEx(heard, lost, latest, srtt)
      PROVE  BrutalInv'
  <2>1. BrutalCore(b', second) /\ (pacerReset => b'.budget = 0)
    BY <1>6, BrutalEvent, SMTT(40)
  <2>2. /\ inFlight' = inFlight \ (heard \cup lost) /\ second' = second
        /\ setting' = setting /\ (stale' => stale /\ b'.budget > 0)
    BY <1>6 DEF Brutal!OnCongestionEventEx, Brutal!drainPending
  <2>3. IsFiniteSet(inFlight')
    BY <2>2, FS_Difference DEF BrutalInv
  <2> QED
    BY <2>1, <2>2, <2>3 DEF BrutalInv
<1>7. ASSUME Brutal!Congestion
      PROVE  BrutalInv'
  <2>1. PICK l \in BrutalRtts :
          \/ \E p \in inFlight \cup DOMAIN b.lostPNs, lost \in SUBSET inFlight :
               p \notin lost /\ Brutal!OnCongestionEventEx({p}, lost, l, l)
          \/ \E p \in inFlight :
               rtt.smoothed # 0 /\ Brutal!OnCongestionEventEx({}, {p}, l, rtt.smoothed)
    BY <1>7 DEF Brutal!Congestion
  <2>2. ASSUME NEW p, NEW lost \in SUBSET inFlight, Brutal!OnCongestionEventEx({p}, lost, l, l)
        PROVE  BrutalInv'
    BY <1>6, <2>2, FS_Singleton
  <2>3. ASSUME NEW p \in inFlight, Brutal!OnCongestionEventEx({}, {p}, l, rtt.smoothed)
        PROVE  BrutalInv'
    <3>1. {p} \in SUBSET inFlight
      OBVIOUS
    <3> QED
      BY <1>6, <2>3, <3>1, FS_EmptySet
  <2> QED
    BY <2>1, <2>2, <2>3
<1>8. ASSUME Brutal!Tick
      PROVE  BrutalInv'
  <2>1. /\ b' = b /\ inFlight' = inFlight /\ second' = second + 1
        /\ setting' = setting /\ pacerReset' = pacerReset /\ stale' = stale
    BY <1>8 DEF Brutal!Tick, Brutal!asked
  <2>2. second' \in Nat \ {0} /\ second <= second'
    BY <2>1 DEF BrutalInv
  <2>3. BrutalBooks(b.slots, b.lostPNs, second', 0)
    BY <2>2, BrutalAges DEF BrutalInv, BrutalCore
  <2> QED
    BY <2>1, <2>2, <2>3 DEF BrutalInv, BrutalCore
<1>9. ASSUME UNCHANGED Brutal!vars
      PROVE  BrutalInv'
  BY <1>9 DEF BrutalInv, Brutal!vars
<1> QED
  BY <1>1, <1>2, <1>3, <1>4, <1>5, <1>7, <1>8, <1>9 DEF Brutal!Next

(* A new sender has empty books and no credit but its own.                 *)
LEMMA BrutalStarts == ASSUME Brutal!Init PROVE BrutalInv
<1>1. /\ DOMAIN b = BrutalFields /\ b.ecn = 0 /\ b.lostPNs = << >>
      /\ b.slots = [i \in Brutal!Slots |-> Brutal!EmptySlot(0)]
  BY DEF Brutal!Init, BrutalFields
<1>2. second = 1 /\ inFlight = {} /\ stale = FALSE
  BY DEF Brutal!Init
<1>3. /\ Brutal!EmptySlot(0) \in BrutalSlot /\ Brutal!EmptySlot(0).ts = 0
      /\ Brutal!EmptySlot(0).loss = 0
  BY DEF Brutal!EmptySlot, BrutalSlot
<1>4. DOMAIN b.lostPNs = {}
  BY <1>1
<1>5. \A t : BrutalOf(b.lostPNs, t) = {}
  BY <1>4 DEF BrutalOf
<1>6. \A i \in Brutal!Slots : b.slots[i] = Brutal!EmptySlot(0)
  BY <1>1
<1>7. b.slots \in [Brutal!Slots -> BrutalSlot]
  BY <1>1, <1>3
<1>8. ASSUME NEW i \in Brutal!Slots
      PROVE  Cardinality(BrutalOf(b.lostPNs, b.slots[i].ts)) + (IF b.slots[i].ts = second THEN 0 ELSE 0)
               <= b.slots[i].loss
  <2>1. Cardinality(BrutalOf(b.lostPNs, b.slots[i].ts)) = 0
    BY <1>5, FS_EmptySet
  <2>2. b.slots[i].loss = 0
    BY <1>3, <1>6
  <2> QED
    BY <2>1, <2>2
<1>9. BrutalBooks(b.slots, b.lostPNs, second, 0)
  BY <1>2, <1>3, <1>4, <1>6, <1>7, <1>8, FS_EmptySet DEF BrutalBooks
<1> QED
  BY <1>1, <1>2, <1>9, FS_EmptySet DEF BrutalInv, BrutalCore

(* What the invariant is for.                                              *)
LEMMA BrutalInvImplies == BrutalInv => Brutal!CorrectionsLand /\ Brutal!NoOldCredit
<1> SUFFICES ASSUME BrutalInv PROVE Brutal!CorrectionsLand /\ Brutal!NoOldCredit
  OBVIOUS
<1>1. BrutalBooks(b.slots, b.lostPNs, second, 0)
  BY DEF BrutalInv, BrutalCore
<1>2. \A p \in DOMAIN b.lostPNs : b.slots[b.lostPNs[p] % SlotCount].ts = b.lostPNs[p]
  BY <1>1 DEF BrutalBooks
<1>3. ASSUME NEW i \in Brutal!Slots
      PROVE  b.slots[i].loss >= Brutal!Cardinality({p \in DOMAIN b.lostPNs :
                                                     b.lostPNs[p] = b.slots[i].ts})
  <2>1. /\ b.slots[i].loss \in Nat /\ Cardinality(BrutalOf(b.lostPNs, b.slots[i].ts)) \in Nat
        /\ Cardinality(BrutalOf(b.lostPNs, b.slots[i].ts)) <= b.slots[i].loss
    BY <1>1, BrutalCounted
  <2>2. BrutalOf(b.lostPNs, b.slots[i].ts) = {p \in DOMAIN b.lostPNs :
                                                b.lostPNs[p] = b.slots[i].ts}
    BY DEF BrutalOf
  <2> QED
    BY <2>1, <2>2, BrutalCounting
<1>4. Brutal!CorrectionsLand
  BY <1>2, <1>3 DEF Brutal!CorrectionsLand
<1> QED
  BY <1>4 DEF BrutalInv, Brutal!NoOldCredit

-----------------------------------------------------------------------------
(***************************************************************************)
(* The server's start and the firewall.  Whatever is in the firewall is a  *)
(* command of some configuration's set-up, and a jump has its chain; of    *)
(* what this process found or made there, its closers cover all that was   *)
(* not there before; and once the set-up has been run all of it is there.  *)
(***************************************************************************)
FwRedirects(c) == Start!redirectPortUnion(MCUnions[c.ports])

FwFamilies(c) == IF c.wildcard THEN {"ip", "ip6"} ELSE {"ip"}

FwHead(c, f) ==
  Start!obj(IF c.backend = "nft" THEN "table" ELSE "chain", f, "", Start!NoRange,
            Start!hashInput(c))

FwSet(q) == {q[i] : i \in DOMAIN q}

FwMade(c) == FwSet(Start!setupUDPPortRedirect(c))

FwKnown(o) == \E c \in MCConfigs : FwRedirects(c) # <<>> /\ o \in FwMade(c)

FwSound(w) ==
  /\ \A o \in w : FwKnown(o)
  /\ \A o \in w : o.kind = "jump" =>
       Start!obj("chain", o.family, "", Start!NoRange, o.key) \in w

(* A table goes with what it holds, a chain with its target if no jump is  *)
(* left, a jump by itself.                                                 *)
FwCovered(o, F) ==
  \/ o \in F
  \/ \E p \in F : /\ Start!Same(p, o)
                  /\ \/ p.kind = "table" /\ o.kind \in {"table", "hook", "rule"}
                     \/ p.kind = "chain" /\ o.kind = "target"

FwOwn(c, o) == o.key = Start!hashInput(c) /\ o.kind \in Start!Kinds(c.backend)

FwClosers(w, q) ==
  /\ \A i \in DOMAIN q : Start!HasCloser(q[i])
  /\ \A i, j \in DOMAIN q :
       i < j => ~(q[i].kind = "jump" /\ q[j].kind = "chain" /\ Start!Same(q[i], q[j]))
  /\ \A i \in DOMAIN q : \A o \in w :
       q[i].kind = "chain" /\ o.kind = "jump" /\ Start!Same(q[i], o) => o \in FwSet(q)

FwDone(c, n, w, q) ==
  \A i \in 1..n :
    LET o == Start!setupUDPPortRedirect(c)[i]
    IN  o \in w /\ (Start!HasCloser(o) => o \in FwSet(q))

(* The commands of one family.                                             *)
FwHooks(c) == IF c.backend = "nft" THEN {"prerouting", "output"} ELSE {"PREROUTING", "OUTPUT"}

FwLast(c, f, h, r) ==
  Start!obj(IF c.backend = "nft" THEN "rule" ELSE "jump", f, h, r, Start!hashInput(c))

FwFamily(c, f) ==
  IF c.backend = "nft" THEN Start!nftFamily(f, FwRedirects(c), Start!hashInput(c))
  ELSE Start!iptablesFamily(f, FwRedirects(c), Start!hashInput(c))

FwRanges == [start : Nat, end : Nat]

FwKeys == BOOLEAN \X DOMAIN MCUnions

FwKinds == {"table", "hook", "rule", "chain", "target", "jump"}

FwChains == {"", "prerouting", "output", "PREROUTING", "OUTPUT"}

FwObjects ==
  [kind : FwKinds, family : {"ip", "ip6"}, chain : FwChains, range : FwRanges, key : FwKeys]

(* Below the head: of this family, and a rule or a jump for some range.    *)
FwBelow(c, f, o) ==
  /\ o.key = Start!hashInput(c) /\ o.family = f
  /\ o.kind \in Start!Kinds(c.backend) \ {"table", "chain"}
  /\ o.kind \in {"rule", "jump"} => \E i \in DOMAIN FwRedirects(c) : o.range = FwRedirects(c)[i]

(* What is used of a configuration.                                        *)
LEMMA FwConfig ==
  ASSUME NEW c \in MCConfigs
  PROVE  /\ c.backend \in {"nft", "iptables"} /\ c.wildcard \in BOOLEAN
         /\ c.ports \in DOMAIN MCUnions /\ Start!hashInput(c) \in FwKeys
BY NodeAssumption DEF FwKeys, Start!ConfigsAssumption, Start!serverConfig, Start!hashInput

(* And of its ports.                                                       *)
LEMMA FwUnion ==
  ASSUME NEW c \in MCConfigs, NEW u, u = MCUnions[c.ports]
  PROVE  /\ u \in Seq(FwRanges) /\ u # <<>> /\ Len(u) \in Nat \ {0}
         /\ \A i \in 1..Len(u) : u[i].start \in Nat /\ u[i].end \in Nat /\ u[i].start <= u[i].end
         /\ \A i, j \in 1..Len(u) : i < j => u[i].end + 1 < u[j].start
         /\ FwRedirects(c) = IF u[1].start = u[1].end THEN Tail(u)
                             ELSE [u EXCEPT ![1] = [start |-> u[1].start + 1, end |-> u[1].end]]
<1>1. c.ports \in DOMAIN MCUnions
  BY FwConfig
<1>2. /\ u \in Seq(FwRanges) /\ u # <<>>
      /\ \A i \in DOMAIN u : u[i].start <= u[i].end
      /\ \A i, j \in DOMAIN u : i < j => u[i].end + 1 < u[j].start
  BY <1>1, NodeAssumption DEF Start!UnionsAssumption, FwRanges
<1>3. Len(u) \in Nat \ {0} /\ DOMAIN u = 1..Len(u) /\ Head(u) = u[1]
  BY <1>2
<1>4. \A i \in 1..Len(u) : u[i] \in FwRanges
  BY <1>2, <1>3
<1>5. \A i \in 1..Len(u) : u[i].start \in Nat /\ u[i].end \in Nat
  BY <1>4 DEF FwRanges
<1>6. u[1] = [start |-> u[1].start, end |-> u[1].end]
  BY <1>3, <1>4 DEF FwRanges
<1>7. FwRedirects(c) = IF u[1].start = u[1].end THEN Tail(u)
                       ELSE [u EXCEPT ![1] = [start |-> u[1].start + 1, end |-> u[1].end]]
  BY <1>2, <1>3, <1>6 DEF FwRedirects, Start!redirectPortUnion
<1> QED
  BY <1>2, <1>3, <1>5, <1>7

(* The ranges redirected are the ports but the first.                      *)
LEMMA FwPorts ==
  ASSUME NEW c \in MCConfigs, NEW u, u = MCUnions[c.ports], NEW R, R = FwRedirects(c)
  PROVE  /\ R \in Seq(FwRanges) /\ DOMAIN R = 1..Len(R) /\ Len(R) \in Nat
         /\ \A x : (\E i \in 1..Len(R) : x \in R[i].start..R[i].end)
                     <=> (x # u[1].start /\ \E i \in 1..Len(u) : x \in u[i].start..u[i].end)
<1>1. /\ u \in Seq(FwRanges) /\ u # <<>> /\ Len(u) \in Nat \ {0}
      /\ \A i \in 1..Len(u) : u[i].start \in Nat /\ u[i].end \in Nat /\ u[i].start <= u[i].end
      /\ \A i, j \in 1..Len(u) : i < j => u[i].end + 1 < u[j].start
      /\ R = IF u[1].start = u[1].end THEN Tail(u)
             ELSE [u EXCEPT ![1] = [start |-> u[1].start + 1, end |-> u[1].end]]
  BY FwUnion
<1>2. CASE u[1].start = u[1].end
  <2>1. /\ R \in Seq(FwRanges) /\ Len(R) = Len(u) - 1 /\ DOMAIN R = 1..Len(R)
        /\ \A i \in 1..Len(R) : R[i] = u[i + 1]
    BY <1>1, <1>2
  <2>2. ASSUME NEW x, NEW i \in 1..Len(R), x \in R[i].start..R[i].end
        PROVE  x # u[1].start /\ \E j \in 1..Len(u) : x \in u[j].start..u[j].end
    <3>1. i + 1 \in 1..Len(u) /\ 1 < i + 1 /\ 1 \in 1..Len(u) /\ R[i] = u[i + 1]
      BY <1>1, <2>1
    <3>2. u[1].end + 1 < u[i + 1].start
      BY <1>1, <3>1
    <3>3. x \in u[i + 1].start..u[i + 1].end
      BY <2>2, <3>1
    <3>4. x # u[1].start
      BY <1>1, <1>2, <3>1, <3>2, <3>3
    <3> QED
      BY <3>1, <3>3, <3>4
  <2>3. ASSUME NEW x, x # u[1].start, NEW i \in 1..Len(u), x \in u[i].start..u[i].end
        PROVE  \E j \in 1..Len(R) : x \in R[j].start..R[j].end
    <3>1. i # 1
      BY <1>1, <1>2, <2>3
    <3>2. i - 1 \in 1..Len(R) /\ R[i - 1] = u[(i - 1) + 1] /\ (i - 1) + 1 = i
      BY <1>1, <2>1, <3>1
    <3> QED
      BY <2>3, <3>2
  <2>4. Len(R) \in Nat
    BY <1>1, <2>1, SMTT(40)
  <2> QED
    BY <2>1, <2>2, <2>3, <2>4
<1>3. CASE u[1].start # u[1].end
  <2>1. /\ R \in Seq(FwRanges) /\ Len(R) = Len(u) /\ DOMAIN R = 1..Len(R)
        /\ R[1].start = u[1].start + 1 /\ R[1].end = u[1].end
        /\ \A i \in 2..Len(R) : R[i] = u[i]
    <3>1. [start |-> u[1].start + 1, end |-> u[1].end] \in FwRanges /\ 1 \in 1..Len(u)
      BY <1>1 DEF FwRanges
    <3> QED
      BY <1>1, <1>3, <3>1
  <2>2. ASSUME NEW x, NEW i \in 1..Len(R), x \in R[i].start..R[i].end
        PROVE  x # u[1].start /\ \E j \in 1..Len(u) : x \in u[j].start..u[j].end
    <3>1. CASE i = 1
      <4>1. 1 \in 1..Len(u) /\ u[1].start \in Nat /\ u[1].end \in Nat
        BY <1>1
      <4>2. x \in u[1].start..u[1].end /\ x # u[1].start
        BY <2>1, <2>2, <3>1, <4>1
      <4> QED
        BY <4>1, <4>2
    <3>2. CASE i # 1
      <4>1. i \in 1..Len(u) /\ 1 \in 1..Len(u) /\ 1 < i /\ R[i] = u[i]
        BY <1>1, <2>1, <3>2
      <4>2. u[1].end + 1 < u[i].start /\ u[1].start <= u[1].end
        BY <1>1, <4>1
      <4>3. x \in u[i].start..u[i].end
        BY <2>2, <4>1
      <4>4. x # u[1].start
        BY <1>1, <4>1, <4>2, <4>3
      <4> QED
        BY <4>1, <4>3, <4>4
    <3> QED
      BY <3>1, <3>2
  <2>3. ASSUME NEW x, x # u[1].start, NEW i \in 1..Len(u), x \in u[i].start..u[i].end
        PROVE  \E j \in 1..Len(R) : x \in R[j].start..R[j].end
    <3>1. CASE i = 1
      <4>1. 1 \in 1..Len(R) /\ u[1].start \in Nat /\ u[1].end \in Nat
        BY <1>1, <2>1
      <4>2. x \in R[1].start..R[1].end
        BY <2>1, <2>3, <3>1, <4>1
      <4> QED
        BY <4>1, <4>2
    <3>2. CASE i # 1
      <4>1. i \in 1..Len(R) /\ R[i] = u[i]
        BY <1>1, <2>1, <3>2
      <4> QED
        BY <2>3, <4>1
    <3> QED
      BY <3>1, <3>2
  <2> QED
    BY <1>1, <2>1, <2>2, <2>3
<1> QED
  BY <1>2, <1>3

(* An object is one.                                                       *)
LEMMA FwObject ==
  ASSUME NEW k \in FwKinds, NEW f \in {"ip", "ip6"}, NEW h \in FwChains, NEW r \in FwRanges,
         NEW key \in FwKeys
  PROVE  Start!obj(k, f, h, r, key) \in FwObjects
BY DEF Start!obj, FwObjects

(* One sequence after another.                                             *)
LEMMA FwJoin ==
  ASSUME NEW X, NEW A \in Seq(X), NEW B \in Seq(X), NEW P, P = A \o B
  PROVE  /\ P \in Seq(X) /\ Len(P) = Len(A) + Len(B) /\ Len(A) \in Nat /\ Len(B) \in Nat
         /\ \A i \in 1..Len(A) : P[i] = A[i]
         /\ \A i \in 1..Len(B) : P[Len(A) + i] = B[i]
OBVIOUS

(* A sequence of three: where each element of it comes from, and that each *)
(* is there.                                                               *)
FwFrom(X, Q, A, B, D) ==
  /\ Q \in Seq(X) /\ Len(Q) \in Nat \ {0} /\ Q[1] = A[1]
  /\ \A n \in 2..Len(Q) : \/ \E i \in 2..Len(A) : Q[n] = A[i]
                          \/ \E i \in 1..Len(B) : Q[n] = B[i]
                          \/ \E i \in 1..Len(D) : Q[n] = D[i]
  /\ \A i \in 1..Len(B) : \E n \in 1..Len(Q) : Q[n] = B[i]
  /\ \A i \in 1..Len(D) : \E n \in 1..Len(Q) : Q[n] = D[i]

(* So it is, if they are sequences and the first is not empty.             *)
LEMMA FwThree ==
  ASSUME NEW X, NEW A \in Seq(X), NEW B \in Seq(X), NEW D \in Seq(X), A # <<>>,
         NEW Q, Q = (A \o B) \o D
  PROVE  FwFrom(X, Q, A, B, D)
<1>1. PICK P : P = A \o B
  OBVIOUS
<1>2. /\ P \in Seq(X) /\ Len(P) = Len(A) + Len(B) /\ Len(A) \in Nat /\ Len(B) \in Nat
      /\ \A i \in 1..Len(A) : P[i] = A[i]
      /\ \A i \in 1..Len(B) : P[Len(A) + i] = B[i]
  BY <1>1, FwJoin
<1>3. /\ Q \in Seq(X) /\ Len(Q) = Len(P) + Len(D) /\ Len(D) \in Nat
      /\ \A i \in 1..Len(P) : Q[i] = P[i]
      /\ \A i \in 1..Len(D) : Q[Len(P) + i] = D[i]
  BY <1>1, <1>2, FwJoin
<1>4. Len(A) # 0
  OBVIOUS
<1>5. PICK na \in Nat, nb \in Nat, nd \in Nat : na = Len(A) /\ nb = Len(B) /\ nd = Len(D)
  BY <1>2, <1>3
<1>6. Len(P) = na + nb /\ Len(Q) = na + nb + nd /\ na # 0
  BY <1>2, <1>3, <1>4, <1>5
<1>7. \A i \in 1..na : Q[i] = A[i]
  BY <1>2, <1>3, <1>5, <1>6
<1>8. \A i \in 1..nb : Q[na + i] = B[i] /\ na + i \in 1..Len(Q)
  BY <1>2, <1>3, <1>5, <1>6
<1>9. \A i \in 1..nd : Q[na + nb + i] = D[i] /\ na + nb + i \in 1..Len(Q)
  BY <1>3, <1>5, <1>6
<1>10. ASSUME NEW n \in 2..Len(Q)
       PROVE  \/ \E i \in 2..Len(A) : Q[n] = A[i]
              \/ \E i \in 1..Len(B) : Q[n] = B[i]
              \/ \E i \in 1..Len(D) : Q[n] = D[i]
  <2>1. CASE n <= na
    <3>1. n \in 2..na /\ n \in 1..na
      BY <1>6, <2>1
    <3>2. Q[n] = A[n]
      BY <1>7, <3>1
    <3> QED
      BY <1>5, <3>1, <3>2
  <2>2. CASE n > na /\ n <= na + nb
    <3>1. n - na \in 1..nb /\ na + (n - na) = n
      BY <1>6, <2>2
    <3>2. Q[n] = B[n - na]
      BY <1>8, <3>1
    <3> QED
      BY <1>5, <3>1, <3>2
  <2>3. CASE n > na + nb
    <3>1. n - (na + nb) \in 1..nd /\ na + nb + (n - (na + nb)) = n
      BY <1>6, <2>3
    <3>2. Q[n] = D[n - (na + nb)]
      BY <1>9, <3>1
    <3> QED
      BY <1>5, <3>1, <3>2
  <2>4. n <= na \/ (n > na /\ n <= na + nb) \/ n > na + nb
    BY <1>6
  <2> QED
    BY <2>1, <2>2, <2>3, <2>4
<1>11. Len(Q) \in Nat \ {0} /\ Q[1] = A[1]
  BY <1>6, <1>7
<1>12. \A i \in 1..nb : \E n \in 1..Len(Q) : Q[n] = B[i]
  BY <1>8
<1>13. \A i \in 1..nd : \E n \in 1..Len(Q) : Q[n] = D[i]
  BY <1>9
<1> QED
  BY <1>3, <1>5, <1>10, <1>11, <1>12, <1>13 DEF FwFrom

(* What a sequence of commands for one family is: a head, what stands      *)
(* below it, and a rule or a jump for each range in each hook.             *)
FwShape(c, f, Q) ==
  /\ Q \in Seq(FwObjects) /\ Len(Q) \in Nat \ {0} /\ Q[1] = FwHead(c, f)
  /\ \A n \in 2..Len(Q) : FwBelow(c, f, Q[n])
  /\ \A h \in FwHooks(c) : \A i \in DOMAIN FwRedirects(c) :
       \E n \in 1..Len(Q) : Q[n] = FwLast(c, f, h, FwRedirects(c)[i])

(* The heads, hooks and targets, and the rules of a hook.                  *)
LEMMA FwParts ==
  ASSUME NEW c \in MCConfigs, NEW f \in {"ip", "ip6"}, NEW h \in FwHooks(c)
  PROVE  /\ FwHead(c, f) \in FwObjects
         /\ \A k \in {"hook", "target"} : \A g \in FwChains :
              Start!obj(k, f, g, Start!NoRange, Start!hashInput(c)) \in FwObjects
         /\ \A i \in DOMAIN FwRedirects(c) :
              /\ FwLast(c, f, h, FwRedirects(c)[i]) \in FwObjects
              /\ FwBelow(c, f, FwLast(c, f, h, FwRedirects(c)[i]))
<1>1. Start!hashInput(c) \in FwKeys /\ c.backend \in {"nft", "iptables"}
  BY FwConfig
<1>2. Start!NoRange \in FwRanges
  BY DEF Start!NoRange, FwRanges
<1>3. FwHead(c, f) \in FwObjects
  BY <1>1, <1>2, FwObject DEF FwHead, FwKinds, FwChains
<1>4. \A k \in {"hook", "target"} : \A g \in FwChains :
        Start!obj(k, f, g, Start!NoRange, Start!hashInput(c)) \in FwObjects
  BY <1>1, <1>2, FwObject DEF FwKinds
<1>5. ASSUME NEW i \in DOMAIN FwRedirects(c)
      PROVE  /\ FwLast(c, f, h, FwRedirects(c)[i]) \in FwObjects
             /\ FwBelow(c, f, FwLast(c, f, h, FwRedirects(c)[i]))
  <2>1. PICK r \in FwRanges : r = FwRedirects(c)[i]
    <3>1. PICK R : R = FwRedirects(c)
      OBVIOUS
    <3>2. R \in Seq(FwRanges)
      BY <3>1, FwPorts
    <3>3. R[i] \in FwRanges
      BY <3>1, <3>2
    <3> QED
      BY <3>1, <3>3
  <2>2. FwLast(c, f, h, r) \in FwObjects
    BY <1>1, FwObject DEF FwLast, FwKinds, FwChains, FwHooks
  <2>3. FwBelow(c, f, FwLast(c, f, h, r))
    BY <1>1, <2>1 DEF FwBelow, FwLast, Start!obj, Start!Kinds
  <2> QED
    BY <2>1, <2>2, <2>3
<1> QED
  BY <1>3, <1>4, <1>5

(* The rules of a hook, as the sequence they are.                          *)
LEMMA FwRules ==
  ASSUME NEW c \in MCConfigs, NEW f \in {"ip", "ip6"}, NEW h \in FwHooks(c),
         NEW B, B = [i \in DOMAIN FwRedirects(c) |-> FwLast(c, f, h, FwRedirects(c)[i])]
  PROVE  /\ B \in Seq(FwObjects) /\ 1..Len(B) = DOMAIN FwRedirects(c)
         /\ \A i \in 1..Len(B) : /\ B[i] = FwLast(c, f, h, FwRedirects(c)[i])
                                 /\ FwBelow(c, f, B[i])
<1>1. PICK n \in Nat : DOMAIN FwRedirects(c) = 1..n
  BY FwPorts
<1>2. \A i \in 1..n : /\ FwLast(c, f, h, FwRedirects(c)[i]) \in FwObjects
                       /\ FwBelow(c, f, FwLast(c, f, h, FwRedirects(c)[i]))
  BY <1>1, FwParts
<1>3. B = [i \in 1..n |-> FwLast(c, f, h, FwRedirects(c)[i])]
  BY <1>1
<1>4. B \in Seq(FwObjects) /\ Len(B) = n /\ \A i \in 1..n : B[i] = FwLast(c, f, h, FwRedirects(c)[i])
  BY <1>2, <1>3
<1> QED
  BY <1>1, <1>2, <1>4

(* Three sequences of that kind, one after another.                        *)
LEMMA FwShaped ==
  ASSUME NEW c \in MCConfigs, NEW f \in {"ip", "ip6"},
         NEW A \in Seq(FwObjects), A # <<>>, A[1] = FwHead(c, f),
         \A i \in 2..Len(A) : FwBelow(c, f, A[i]),
         NEW h1 \in FwHooks(c), NEW h2 \in FwHooks(c), FwHooks(c) = {h1, h2},
         NEW B, B = [i \in DOMAIN FwRedirects(c) |-> FwLast(c, f, h1, FwRedirects(c)[i])],
         NEW D, D = [i \in DOMAIN FwRedirects(c) |-> FwLast(c, f, h2, FwRedirects(c)[i])],
         NEW Q, Q = (A \o B) \o D
  PROVE  FwShape(c, f, Q)
<1>1. /\ B \in Seq(FwObjects) /\ 1..Len(B) = DOMAIN FwRedirects(c)
      /\ \A i \in 1..Len(B) : /\ B[i] = FwLast(c, f, h1, FwRedirects(c)[i])
                              /\ FwBelow(c, f, B[i])
  BY FwRules
<1>2. /\ D \in Seq(FwObjects) /\ 1..Len(D) = DOMAIN FwRedirects(c)
      /\ \A i \in 1..Len(D) : /\ D[i] = FwLast(c, f, h2, FwRedirects(c)[i])
                              /\ FwBelow(c, f, D[i])
  BY FwRules
<1>3. /\ Q \in Seq(FwObjects) /\ Len(Q) \in Nat \ {0} /\ Q[1] = A[1]
      /\ \A n \in 2..Len(Q) : \/ \E i \in 2..Len(A) : Q[n] = A[i]
                              \/ \E i \in 1..Len(B) : Q[n] = B[i]
                              \/ \E i \in 1..Len(D) : Q[n] = D[i]
      /\ \A i \in 1..Len(B) : \E n \in 1..Len(Q) : Q[n] = B[i]
      /\ \A i \in 1..Len(D) : \E n \in 1..Len(Q) : Q[n] = D[i]
  <2>1. B \in Seq(FwObjects) /\ D \in Seq(FwObjects)
    BY <1>1, <1>2
  <2>2. FwFrom(FwObjects, Q, A, B, D)
    BY <2>1, FwThree
  <2> QED
    BY <2>2 DEF FwFrom
<1>4. ASSUME NEW n \in 2..Len(Q) PROVE FwBelow(c, f, Q[n])
  <2>1. CASE \E i \in 2..Len(A) : Q[n] = A[i]
    BY <2>1
  <2>2. CASE \E i \in 1..Len(B) : Q[n] = B[i]
    BY <1>1, <2>2
  <2>3. CASE \E i \in 1..Len(D) : Q[n] = D[i]
    BY <1>2, <2>3
  <2> QED
    BY <1>3, <2>1, <2>2, <2>3
<1>5. ASSUME NEW h \in FwHooks(c), NEW i \in DOMAIN FwRedirects(c)
      PROVE  \E n \in 1..Len(Q) : Q[n] = FwLast(c, f, h, FwRedirects(c)[i])
  <2>1. CASE h = h1
    BY <1>1, <1>3, <2>1, ZenonT(60)
  <2>2. CASE h = h2
    BY <1>2, <1>3, <2>2
  <2> QED
    BY <2>1, <2>2
<1> QED
  BY <1>3, <1>4, <1>5 DEF FwShape

(* The commands of a family have that shape.                               *)
LEMMA FwFamilyShaped ==
  ASSUME NEW c \in MCConfigs, NEW f \in {"ip", "ip6"}
  PROVE  FwShape(c, f, FwFamily(c, f))
<1>1. CASE c.backend = "nft"
  <2>1. PICK A, B, D :
          /\ A = <<FwHead(c, f),
                   Start!obj("hook", f, "prerouting", Start!NoRange, Start!hashInput(c)),
                   Start!obj("hook", f, "output", Start!NoRange, Start!hashInput(c))>>
          /\ B = [i \in DOMAIN FwRedirects(c) |-> FwLast(c, f, "prerouting", FwRedirects(c)[i])]
          /\ D = [i \in DOMAIN FwRedirects(c) |-> FwLast(c, f, "output", FwRedirects(c)[i])]
    OBVIOUS
  <2>2. FwFamily(c, f) = (A \o B) \o D
    BY <1>1, <2>1 DEF FwFamily, Start!nftFamily, FwHead, FwLast
  <2>3. FwHooks(c) = {"prerouting", "output"}
    BY <1>1 DEF FwHooks
  <2>4. PICK x, y : /\ x = Start!obj("hook", f, "prerouting", Start!NoRange, Start!hashInput(c))
                    /\ y = Start!obj("hook", f, "output", Start!NoRange, Start!hashInput(c))
    OBVIOUS
  <2>5. FwHead(c, f) \in FwObjects /\ x \in FwObjects /\ y \in FwObjects
    BY <2>3, <2>4, FwParts DEF FwChains
  <2>6. FwBelow(c, f, x) /\ FwBelow(c, f, y)
    BY <1>1, <2>4 DEF FwBelow, Start!obj, Start!Kinds
  <2>7. A = <<FwHead(c, f), x, y>>
    BY <2>1, <2>4
  <2>8. /\ A \in Seq(FwObjects) /\ A # <<>> /\ A[1] = FwHead(c, f) /\ Len(A) = 3
        /\ A[2] = x /\ A[3] = y
    BY <2>5, <2>7
  <2>9. \A i \in 2..Len(A) : FwBelow(c, f, A[i])
    <3>1. \A i \in 2..3 : i = 2 \/ i = 3
      OBVIOUS
    <3> QED
      BY <2>6, <2>8, <3>1
  <2> QED
    BY <2>1, <2>2, <2>3, <2>8, <2>9, FwShaped
<1>2. CASE c.backend # "nft"
  <2>1. PICK A, B, D :
          /\ A = <<FwHead(c, f), Start!obj("target", f, "", Start!NoRange, Start!hashInput(c))>>
          /\ B = [i \in DOMAIN FwRedirects(c) |-> FwLast(c, f, "PREROUTING", FwRedirects(c)[i])]
          /\ D = [i \in DOMAIN FwRedirects(c) |-> FwLast(c, f, "OUTPUT", FwRedirects(c)[i])]
    OBVIOUS
  <2>2. FwFamily(c, f) = (A \o B) \o D
    BY <1>2, <2>1 DEF FwFamily, Start!iptablesFamily, FwHead, FwLast
  <2>3. FwHooks(c) = {"PREROUTING", "OUTPUT"}
    BY <1>2 DEF FwHooks
  <2>4. PICK x : x = Start!obj("target", f, "", Start!NoRange, Start!hashInput(c))
    OBVIOUS
  <2>5. FwHead(c, f) \in FwObjects /\ x \in FwObjects
    BY <2>3, <2>4, FwParts DEF FwChains
  <2>6. FwBelow(c, f, x)
    BY <1>2, <2>4 DEF FwBelow, Start!obj, Start!Kinds
  <2>7. A = <<FwHead(c, f), x>>
    BY <2>1, <2>4
  <2>8. A \in Seq(FwObjects) /\ A # <<>> /\ A[1] = FwHead(c, f) /\ Len(A) = 2 /\ A[2] = x
    BY <2>5, <2>7
  <2>9. \A i \in 2..Len(A) : FwBelow(c, f, A[i])
    <3>1. \A i \in 2..2 : i = 2
      OBVIOUS
    <3> QED
      BY <2>6, <2>8, <3>1
  <2> QED
    BY <2>1, <2>2, <2>3, <2>8, <2>9, FwShaped
<1> QED
  BY <1>1, <1>2

(* The commands of a set-up: heads, and what stands below a head that came *)
(* before it; and all that there must be for each family.                  *)
FwPlaced(c, S, n, f) ==
  \/ S[n] = FwHead(c, f)
  \/ FwBelow(c, f, S[n]) /\ \E k \in 1..(n - 1) : S[k] = FwHead(c, f)

FwAll(c, S, f) ==
  /\ \E n \in 1..Len(S) : S[n] = FwHead(c, f)
  /\ \A h \in FwHooks(c) : \A i \in DOMAIN FwRedirects(c) :
       \E n \in 1..Len(S) : S[n] = FwLast(c, f, h, FwRedirects(c)[i])

FwCommands(c, S) ==
  /\ S \in Seq(FwObjects) /\ Len(S) \in Nat \ {0}
  /\ \A n \in 1..Len(S) : \E f \in FwFamilies(c) : FwPlaced(c, S, n, f)
  /\ \A f \in FwFamilies(c) : FwAll(c, S, f)

(* In a sequence of the shape, and in one that it is a part of.            *)
LEMMA FwPlaces ==
  ASSUME NEW c, NEW f, NEW Q, FwShape(c, f, Q), NEW S, NEW n \in Nat,
         \A i \in 1..Len(Q) : S[n + i] = Q[i], NEW l \in Nat, n + Len(Q) <= l, Len(S) = l
  PROVE  /\ \A i \in 1..Len(Q) : FwPlaced(c, S, n + i, f)
         /\ FwAll(c, S, f)
<1>1. PICK q \in Nat : q = Len(Q) /\ q # 0
  BY DEF FwShape
<1>2. /\ Q[1] = FwHead(c, f)
      /\ \A i \in 2..q : FwBelow(c, f, Q[i])
      /\ \A h \in FwHooks(c) : \A i \in DOMAIN FwRedirects(c) :
           \E j \in 1..q : Q[j] = FwLast(c, f, h, FwRedirects(c)[i])
  BY <1>1 DEF FwShape
<1>3. \A i \in 1..q : n + i \in 1..l /\ S[n + i] = Q[i]
  BY <1>1
<1>4. S[n + 1] = FwHead(c, f) /\ n + 1 \in 1..l
  BY <1>1, <1>2, <1>3
<1>5. ASSUME NEW i \in 1..q PROVE FwPlaced(c, S, n + i, f)
  <2>1. CASE i = 1
    BY <1>4, <2>1 DEF FwPlaced
  <2>2. CASE i # 1
    <3>1. i \in 2..q /\ n + 1 \in 1..((n + i) - 1)
      BY <2>2
    <3>2. FwBelow(c, f, S[n + i])
      BY <1>2, <1>3, <3>1
    <3> QED
      BY <1>4, <3>1, <3>2 DEF FwPlaced
  <2> QED
    BY <2>1, <2>2
<1>6. ASSUME NEW h \in FwHooks(c), NEW i \in DOMAIN FwRedirects(c)
      PROVE  \E j \in 1..l : S[j] = FwLast(c, f, h, FwRedirects(c)[i])
  <2>1. PICK j \in 1..q : Q[j] = FwLast(c, f, h, FwRedirects(c)[i])
    BY <1>2
  <2> QED
    BY <1>3, <2>1
<1> QED
  BY <1>1, <1>4, <1>5, <1>6 DEF FwAll

(* The whole of it.                                                        *)
LEMMA FwSetup ==
  ASSUME NEW c \in MCConfigs
  PROVE  FwCommands(c, Start!setupUDPPortRedirect(c))
<1>1. PICK S, Q : S = Start!setupUDPPortRedirect(c) /\ Q = FwFamily(c, "ip")
  OBVIOUS
<1>2. FwShape(c, "ip", Q)
  BY <1>1, FwFamilyShaped
<1>3. Q \in Seq(FwObjects) /\ Len(Q) \in Nat \ {0}
  BY <1>2 DEF FwShape
<1>4. CASE c.wildcard
  <2>1. PICK T : T = FwFamily(c, "ip6")
    OBVIOUS
  <2>2. S = Q \o T
    BY <1>1, <1>4, <2>1
       DEF Start!setupUDPPortRedirect, Start!families, FwFamily, FwRedirects
  <2>3. FwShape(c, "ip6", T)
    BY <2>1, FwFamilyShaped
  <2>4. T \in Seq(FwObjects) /\ Len(T) \in Nat \ {0}
    BY <2>3 DEF FwShape
  <2>5. /\ S \in Seq(FwObjects) /\ Len(S) = Len(Q) + Len(T)
        /\ \A i \in 1..Len(Q) : S[i] = Q[i]
        /\ \A i \in 1..Len(T) : S[Len(Q) + i] = T[i]
    BY <1>3, <2>2, <2>4, FwJoin
  <2>6. PICK q \in Nat, t \in Nat : q = Len(Q) /\ t = Len(T) /\ q # 0 /\ Len(S) = q + t
    BY <1>3, <2>4, <2>5
  <2>7. \A i \in 1..q : S[0 + i] = Q[i]
    BY <2>5, <2>6
  <2>8. (\A i \in 1..q : FwPlaced(c, S, 0 + i, "ip")) /\ FwAll(c, S, "ip")
    <3>1. 0 \in Nat /\ q + t \in Nat /\ 0 + q <= q + t
      BY <2>6
    <3> QED
      BY <1>2, <2>6, <2>7, <3>1, FwPlaces
  <2>9. (\A i \in 1..t : FwPlaced(c, S, q + i, "ip6")) /\ FwAll(c, S, "ip6")
    <3>1. q + t \in Nat /\ q + t <= q + t
      BY <2>6
    <3>2. \A i \in 1..Len(T) : S[q + i] = T[i]
      BY <2>5, <2>6
    <3> QED
      BY <2>3, <2>6, <3>1, <3>2, FwPlaces
  <2>10. FwFamilies(c) = {"ip", "ip6"}
    BY <1>4 DEF FwFamilies
  <2>11. ASSUME NEW n \in 1..Len(S) PROVE \E f \in FwFamilies(c) : FwPlaced(c, S, n, f)
    <3>1. CASE n <= q
      <4>1. n \in 1..q /\ 0 + n = n
        BY <2>6, <3>1
      <4>2. FwPlaced(c, S, n, "ip")
        BY <2>8, <4>1
      <4> QED
        BY <2>10, <4>2
    <3>2. CASE n > q
      <4>1. n - q \in 1..t /\ q + (n - q) = n
        BY <2>6, <3>2
      <4>2. FwPlaced(c, S, n, "ip6")
        BY <2>9, <4>1
      <4> QED
        BY <2>10, <4>2
    <3>3. n <= q \/ n > q
      BY <2>6
    <3> QED
      BY <3>1, <3>2, <3>3
  <2>12. Len(S) \in Nat \ {0}
    BY <2>6
  <2> QED
    BY <1>1, <2>5, <2>8, <2>9, <2>10, <2>11, <2>12 DEF FwCommands
<1>5. CASE ~c.wildcard
  <2>1. S = Q \o <<>>
    BY <1>1, <1>5 DEF Start!setupUDPPortRedirect, Start!families, FwFamily, FwRedirects
  <2>2. S = Q
    BY <1>3, <2>1
  <2>3. PICK q \in Nat : q = Len(Q) /\ q # 0
    BY <1>3
  <2>4. (\A i \in 1..q : FwPlaced(c, S, 0 + i, "ip")) /\ FwAll(c, S, "ip")
    <3>1. 0 \in Nat /\ 0 + q <= q /\ \A i \in 1..q : S[0 + i] = Q[i]
      BY <2>2, <2>3
    <3> QED
      BY <1>2, <2>2, <2>3, <3>1, FwPlaces
  <2>5. FwFamilies(c) = {"ip"}
    BY <1>5 DEF FwFamilies
  <2>6. ASSUME NEW n \in 1..Len(S) PROVE \E f \in FwFamilies(c) : FwPlaced(c, S, n, f)
    <3>1. n \in 1..q /\ 0 + n = n
      BY <2>2, <2>3
    <3> QED
      BY <2>4, <2>5, <3>1
  <2> QED
    BY <1>1, <1>3, <2>2, <2>4, <2>5, <2>6 DEF FwCommands
<1>6. c.wildcard \in BOOLEAN
  BY FwConfig
<1> QED
  BY <1>4, <1>5, <1>6

(* Where the process is, and what that says of the firewall and of the     *)
(* closers.                                                                *)
FwTypes ==
  /\ config \in MCConfigs
  /\ pc \in {"off", "listen", "redirect", "undo", "wrap", "fill", "mimic", "new", "serve",
             "close", "abandon"}
  /\ fns \in Seq(FwObjects)

FwPlace ==
  /\ pc # "off" => ended = "running"
  /\ pc \in {"off", "listen"} => fns = <<>>
  /\ pc = "listen" => fw = fwBefore
  /\ cleanup # "set" => fns = <<>>
  /\ pc \notin {"off", "undo", "close", "abandon"} => broken = {}

(* What is in the firewall, but for the set-ups whose clean-up failed.     *)
FwGood(w, B) == {o \in w : Start!Where(o) \notin B}

FwBooks ==
  pc # "off" =>
    /\ FwClosers(FwGood(fw, broken), fns)
    /\ \A o \in FwGood(fw, broken) : o \in fwBefore \/ FwCovered(o, FwSet(fns))

FwProgress ==
  /\ pc = "redirect" =>
       /\ config.listen = "ports" /\ FwRedirects(config) # <<>> /\ cleanup = "set"
       /\ FwSet(fns) \subseteq fw
       /\ LET S == Start!setupUDPPortRedirect(config)
          IN  \E n \in 0..(Len(S) - 1) : /\ todo = SubSeq(S, n + 1, Len(S))
                                         /\ FwDone(config, n, fw, fns)
  /\ pc \in {"wrap", "fill", "mimic", "new", "serve"} /\ config.listen = "ports"
       /\ FwRedirects(config) # <<>> =>
         FwDone(config, Len(Start!setupUDPPortRedirect(config)), fw, fns)
  /\ pc = "close" /\ config.listen = "ports" =>
       \A o \in FwGood(fw, broken) : FwOwn(config, o) => FwCovered(o, FwSet(fns))

FwInv ==
  /\ FwTypes /\ FwSound(fw) /\ FwPlace /\ FwBooks /\ FwProgress /\ Start!LeavesNothing

(* What a command of a set-up is.                                          *)
FwIs(c, o) ==
  /\ o \in FwObjects /\ o.key = Start!hashInput(c)
  /\ o.kind \in Start!Kinds(c.backend) /\ o.family \in FwFamilies(c)
  /\ o.kind \in {"table", "chain"} => o = FwHead(c, o.family)
  /\ o.kind \in {"rule", "jump"} => \E i \in DOMAIN FwRedirects(c) : o.range = FwRedirects(c)[i]

(* Every command is like that, and the head of its family came before it.  *)
LEMMA FwCommandIs ==
  ASSUME NEW c \in MCConfigs, NEW S, S = Start!setupUDPPortRedirect(c), NEW n \in 1..Len(S),
         NEW o, o = S[n]
  PROVE  /\ FwIs(c, o)
         /\ o = FwHead(c, o.family) \/ \E k \in 1..(n - 1) : S[k] = FwHead(c, o.family)
<1>1. FwCommands(c, S)
  BY FwSetup
<1>2. S \in Seq(FwObjects)
  BY <1>1 DEF FwCommands
<1>3. o \in FwObjects
  BY <1>2
<1>4. PICK f \in FwFamilies(c) : FwPlaced(c, S, n, f)
  BY <1>1 DEF FwCommands
<1>5. CASE o = FwHead(c, f)
  <2>1. /\ o.family = f /\ o.key = Start!hashInput(c)
        /\ c.backend = "nft" => o.kind = "table"
        /\ c.backend # "nft" => o.kind = "chain"
    <3>1. FwHead(c, f).family = f /\ FwHead(c, f).key = Start!hashInput(c)
      BY DEF FwHead, Start!obj
    <3>2. c.backend = "nft" => FwHead(c, f).kind = "table"
      BY DEF FwHead, Start!obj
    <3>3. c.backend # "nft" => FwHead(c, f).kind = "chain"
      BY DEF FwHead, Start!obj
    <3> QED
      BY <1>5, <3>1, <3>2, <3>3
  <2>2. o.kind \in Start!Kinds(c.backend) /\ o.kind \notin {"rule", "jump"}
    BY <2>1 DEF Start!Kinds
  <2> QED
    BY <1>3, <1>4, <1>5, <2>1, <2>2 DEF FwIs
<1>6. CASE FwBelow(c, f, o) /\ \E k \in 1..(n - 1) : S[k] = FwHead(c, f)
  <2>1. /\ o.key = Start!hashInput(c) /\ o.family = f
        /\ o.kind \in Start!Kinds(c.backend) /\ o.kind \notin {"table", "chain"}
        /\ o.kind \in {"rule", "jump"} =>
             \E i \in DOMAIN FwRedirects(c) : o.range = FwRedirects(c)[i]
    BY <1>6 DEF FwBelow
  <2>2. FwIs(c, o)
    BY <1>3, <1>4, <2>1 DEF FwIs
  <2> QED
    BY <1>6, <2>1, <2>2
<1> QED
  BY <1>4, <1>5, <1>6 DEF FwPlaced

(* The key says all but the backend.                                       *)
LEMMA FwSameKey ==
  ASSUME NEW c, NEW d, Start!hashInput(c) = Start!hashInput(d)
  PROVE  FwRedirects(c) = FwRedirects(d) /\ FwFamilies(c) = FwFamilies(d)
<1>1. c.wildcard = d.wildcard /\ c.ports = d.ports
  BY DEF Start!hashInput
<1> QED
  BY <1>1 DEF FwRedirects, FwFamilies

(* Hence what an object with this configuration's key is, whichever        *)
(* process made it.                                                        *)
LEMMA FwKnownIs ==
  ASSUME NEW c \in MCConfigs, NEW o, FwKnown(o), o.key = Start!hashInput(c)
  PROVE  /\ FwRedirects(c) # <<>> /\ o.family \in FwFamilies(c)
         /\ o.kind \in {"rule", "jump"} =>
              \E i \in DOMAIN FwRedirects(c) : o.range = FwRedirects(c)[i]
         /\ o.kind = "chain" =>
              o = Start!obj("chain", o.family, "", Start!NoRange, Start!hashInput(c))
<1>1. PICK d \in MCConfigs : FwRedirects(d) # <<>> /\ o \in FwMade(d)
  BY DEF FwKnown
<1>2. PICK S : S = Start!setupUDPPortRedirect(d)
  OBVIOUS
<1>3. FwCommands(d, S)
  BY <1>2, FwSetup
<1>4. DOMAIN S = 1..Len(S)
  BY <1>3 DEF FwCommands
<1>5. PICK n \in 1..Len(S) : o = S[n]
  BY <1>1, <1>2, <1>4 DEF FwMade, FwSet
<1>6. FwIs(d, o)
  BY <1>2, <1>5, FwCommandIs
<1>7. Start!hashInput(d) = Start!hashInput(c)
  BY <1>6 DEF FwIs
<1>8. FwRedirects(c) = FwRedirects(d) /\ FwFamilies(c) = FwFamilies(d)
  BY <1>7, FwSameKey
<1>9. ASSUME o.kind = "chain"
      PROVE  o = Start!obj("chain", o.family, "", Start!NoRange, Start!hashInput(c))
  <2>1. o = FwHead(d, o.family) /\ o.kind \in Start!Kinds(d.backend)
    BY <1>6, <1>9 DEF FwIs
  <2>2. d.backend # "nft"
    BY <1>9, <2>1 DEF Start!Kinds
  <2> QED
    BY <1>7, <2>1, <2>2 DEF FwHead
<1> QED
  BY <1>1, <1>6, <1>8, <1>9 DEF FwIs

(* The head of a family that was set up is there and has its closer.       *)
LEMMA FwHeadDone ==
  ASSUME NEW c \in MCConfigs, NEW w, NEW q, NEW f \in FwFamilies(c),
         FwDone(c, Len(Start!setupUDPPortRedirect(c)), w, q)
  PROVE  FwHead(c, f) \in w /\ FwHead(c, f) \in FwSet(q)
<1>1. PICK S : S = Start!setupUDPPortRedirect(c)
  OBVIOUS
<1>2. FwAll(c, S, f)
  BY <1>1, FwSetup DEF FwCommands
<1>3. PICK n \in 1..Len(S) : S[n] = FwHead(c, f)
  BY <1>2 DEF FwAll
<1>4. Start!HasCloser(FwHead(c, f))
  BY DEF Start!HasCloser, FwHead, Start!obj
<1> QED
  BY <1>1, <1>3, <1>4 DEF FwDone

(* Once the set-up has been run, the closers cover all that has its names, *)
(* what an earlier process left there too.                                 *)
LEMMA FwAllCovered ==
  ASSUME NEW c \in MCConfigs, NEW w, NEW q, FwSound(w), FwClosers(w, q),
         FwRedirects(c) # <<>> => FwDone(c, Len(Start!setupUDPPortRedirect(c)), w, q)
  PROVE  \A o \in w : FwOwn(c, o) => FwCovered(o, FwSet(q))
<1> SUFFICES ASSUME NEW o \in w, FwOwn(c, o) PROVE FwCovered(o, FwSet(q))
  OBVIOUS
<1>1. o.key = Start!hashInput(c) /\ o.kind \in Start!Kinds(c.backend) /\ FwKnown(o)
  BY DEF FwOwn, FwSound
<1>2. /\ FwRedirects(c) # <<>> /\ o.family \in FwFamilies(c)
      /\ o.kind = "chain" =>
           o = Start!obj("chain", o.family, "", Start!NoRange, Start!hashInput(c))
  BY <1>1, FwKnownIs
<1>3. PICK h : h = FwHead(c, o.family)
  OBVIOUS
<1>4. h \in FwSet(q)
  BY <1>2, <1>3, FwHeadDone
<1>5. Start!Same(h, o)
  BY <1>1, <1>3 DEF Start!Same, FwHead, Start!obj
<1>6. CASE c.backend = "nft"
  <2>1. h.kind = "table" /\ o.kind \in {"table", "hook", "rule"}
    BY <1>1, <1>3, <1>6 DEF FwHead, Start!obj, Start!Kinds
  <2> QED
    BY <1>4, <1>5, <2>1 DEF FwCovered
<1>7. CASE c.backend # "nft"
  <2>1. h.kind = "chain" /\ o.kind \in {"chain", "target", "jump"}
    BY <1>1, <1>3, <1>7 DEF FwHead, Start!obj, Start!Kinds
  <2>2. CASE o.kind = "chain"
    <3>1. o = h
      BY <1>2, <1>3, <1>7, <2>2 DEF FwHead
    <3> QED
      BY <1>4, <3>1 DEF FwCovered
  <2>3. CASE o.kind = "target"
    BY <1>4, <1>5, <2>1, <2>3 DEF FwCovered
  <2>4. CASE o.kind = "jump"
    <3>1. PICK i \in DOMAIN q : h = q[i]
      BY <1>4 DEF FwSet
    <3>2. o \in FwSet(q)
      BY <1>5, <2>1, <2>4, <3>1 DEF FwClosers
    <3> QED
      BY <3>2 DEF FwCovered
  <2> QED
    BY <2>1, <2>2, <2>3, <2>4
<1> QED
  BY <1>6, <1>7

(* A sequence with one more, and one without its last.                     *)
FwMore(X, q, o, r) ==
  /\ r \in Seq(X) /\ Len(q) \in Nat /\ DOMAIN q = 1..Len(q) /\ DOMAIN r = 1..(Len(q) + 1)
  /\ r[Len(q) + 1] = o /\ \A i \in 1..Len(q) : r[i] = q[i]
  /\ FwSet(r) = FwSet(q) \cup {o}

(* Append adds its argument to the elements.                               *)
LEMMA FwAppend ==
  ASSUME NEW X, NEW q \in Seq(X), NEW o \in X, NEW r, r = Append(q, o)
  PROVE  FwMore(X, q, o, r)
<1>1. /\ r \in Seq(X) /\ Len(q) \in Nat /\ DOMAIN q = 1..Len(q) /\ DOMAIN r = 1..(Len(q) + 1)
      /\ r[Len(q) + 1] = o /\ \A i \in 1..Len(q) : r[i] = q[i]
  OBVIOUS
<1>2. \A x : x \in FwSet(r) <=> \E i \in 1..(Len(q) + 1) : x = r[i]
  BY <1>1 DEF FwSet
<1>3. \A x : x \in FwSet(q) <=> \E i \in 1..Len(q) : x = q[i]
  BY <1>1 DEF FwSet
<1>4. ASSUME NEW x \in FwSet(r) PROVE x \in FwSet(q) \cup {o}
  <2>1. PICK i \in 1..(Len(q) + 1) : x = r[i]
    BY <1>2
  <2>2. i = Len(q) + 1 \/ i \in 1..Len(q)
    BY <1>1
  <2> QED
    BY <1>1, <1>3, <2>1, <2>2
<1>5. ASSUME NEW x \in FwSet(q) PROVE x \in FwSet(r)
  <2>1. PICK i \in 1..Len(q) : x = q[i]
    BY <1>3
  <2>2. i \in 1..(Len(q) + 1) /\ x = r[i]
    BY <1>1, <2>1
  <2> QED
    BY <1>2, <2>2
<1>6. o \in FwSet(r)
  <2>1. Len(q) + 1 \in 1..(Len(q) + 1)
    BY <1>1
  <2> QED
    BY <1>1, <1>2, <2>1
<1> QED
  BY <1>1, <1>4, <1>5, <1>6 DEF FwMore

(* Front and last.                                                         *)
FwSplit(X, q, r, l, o) ==
  /\ r \in Seq(X) /\ l \in Nat \ {0} /\ DOMAIN q = 1..l /\ DOMAIN r = 1..(l - 1)
  /\ \A i \in 1..(l - 1) : r[i] = q[i]
  /\ \A x \in FwSet(q) : x = o \/ x \in FwSet(r)
  /\ FwSet(r) \subseteq FwSet(q) /\ o \in X

(* Such are SubSeq and the last element.                                   *)
LEMMA FwFront ==
  ASSUME NEW X, NEW q \in Seq(X), q # <<>>, NEW r, r = SubSeq(q, 1, Len(q) - 1),
         NEW l, l = Len(q), NEW o, o = q[l]
  PROVE  FwSplit(X, q, r, l, o)
<1>1. l \in Nat \ {0} /\ DOMAIN q = 1..l /\ o \in X
  OBVIOUS
<1>2. r \in Seq(X) /\ DOMAIN r = 1..(l - 1) /\ \A i \in 1..(l - 1) : r[i] = q[i]
  BY <1>1
<1>3. ASSUME NEW x \in FwSet(q), x # o PROVE x \in FwSet(r)
  <2>1. PICK i \in 1..l : x = q[i]
    BY <1>1 DEF FwSet
  <2>2. i \in 1..(l - 1)
    BY <1>1, <1>3, <2>1
  <2> QED
    BY <1>2, <2>1, <2>2 DEF FwSet
<1>4. ASSUME NEW x \in FwSet(r) PROVE x \in FwSet(q)
  <2>1. PICK i \in 1..(l - 1) : x = r[i]
    BY <1>2 DEF FwSet
  <2>2. i \in 1..l /\ x = q[i]
    BY <1>1, <1>2, <2>1
  <2> QED
    BY <1>1, <2>2 DEF FwSet
<1> QED
  BY <1>1, <1>2, <1>3, <1>4 DEF FwSplit

(* A clean-up that has not failed is about all there is.                   *)
LEMMA FwUnbroken == \A w : FwGood(w, {}) = w
BY DEF FwGood

(* Two objects are the same's where they are in the same place.            *)
LEMMA FwSamePlace == \A x, y : Start!Same(x, y) <=> Start!Where(x) = Start!Where(y)
BY DEF Start!Same, Start!Where

(* What a closer leaves of a sound firewall is sound: a chain with a jump  *)
(* to it stays.                                                            *)
LEMMA FwStaysSound ==
  ASSUME FwSound(fw), NEW o, o.kind \in {"table", "chain", "jump"},
         NEW v, v \in {fw, fw \ Start!Emptied(o), fw \ Start!Removed(o)}
  PROVE  v \subseteq fw /\ FwSound(v)
<1>1. v \subseteq fw
  OBVIOUS
<1>2. ASSUME NEW p \in v, p.kind = "jump"
      PROVE  Start!obj("chain", p.family, "", Start!NoRange, p.key) \in v
  <2>1. PICK x : x = Start!obj("chain", p.family, "", Start!NoRange, p.key)
    OBVIOUS
  <2>2. x \in fw /\ p \in fw
    BY <1>1, <1>2, <2>1 DEF FwSound
  <2>3. x.kind = "chain" /\ x.family = p.family /\ x.key = p.key
    BY <2>1 DEF Start!obj
  <2>4. x \notin Start!Emptied(o)
    BY <2>3 DEF Start!Emptied
  <2>5. x \notin Start!Removed(o)
    <3>1. CASE o.kind = "table"
      BY <2>3, <3>1 DEF Start!Removed
    <3>2. CASE o.kind = "chain"
      <4>1. x = o => Start!Same(o, p)
        BY <2>3 DEF Start!Same
      <4> QED
        BY <1>2, <2>2, <2>3, <3>2, <4>1 DEF Start!Removed
    <3>3. CASE o.kind = "jump"
      BY <2>3, <3>3 DEF Start!Removed
    <3> QED
      BY <3>1, <3>2, <3>3
  <2> QED
    BY <2>1, <2>2, <2>4, <2>5
<1> QED
  BY <1>1, <1>2 DEF FwSound

(* closerFuncs.Close: a closer takes what it covers, a chain's because its *)
(* jumps, set up later, have gone before it; or a command of its fails,    *)
(* and what is in its place is given up.                                   *)
LEMMA FwCloses ==
  ASSUME FwSound(fw), NEW q \in Seq(FwObjects), q # <<>>, FwClosers(FwGood(fw, broken), q),
         NEW r, r = SubSeq(q, 1, Len(q) - 1), NEW o, o = q[Len(q)], NEW v, NEW B,
         \/ v = fw \ Start!Removed(o) /\ B = broken
         \/ v \in {fw, fw \ Start!Emptied(o)} /\ B = broken \cup {Start!Where(o)}
  PROVE  /\ r \in Seq(FwObjects) /\ v \subseteq fw /\ FwSound(v) /\ FwClosers(FwGood(v, B), r)
         /\ FwGood(v, B) \subseteq FwGood(fw, broken)
         /\ \A p \in FwGood(v, B) : FwCovered(p, FwSet(q)) => FwCovered(p, FwSet(r))
<1> DEFINE g == FwGood(fw, broken)
           u == FwGood(v, B)
<1>1. PICK l : l = Len(q)
  OBVIOUS
<1>2. /\ r \in Seq(FwObjects) /\ l \in Nat \ {0} /\ DOMAIN q = 1..l /\ DOMAIN r = 1..(l - 1)
      /\ \A i \in 1..(l - 1) : r[i] = q[i]
      /\ \A x \in FwSet(q) : x = o \/ x \in FwSet(r)
      /\ FwSet(r) \subseteq FwSet(q) /\ o \in FwObjects
  <2>1. FwSplit(FwObjects, q, r, l, o)
    BY <1>1, FwFront
  <2> QED
    BY <2>1 DEF FwSplit
<1>3. /\ \A i \in 1..l : Start!HasCloser(q[i])
      /\ \A i, j \in 1..l :
           i < j => ~(q[i].kind = "jump" /\ q[j].kind = "chain" /\ Start!Same(q[i], q[j]))
      /\ \A i \in 1..l : \A x \in g :
           q[i].kind = "chain" /\ x.kind = "jump" /\ Start!Same(q[i], x) => x \in FwSet(q)
  BY <1>2 DEF FwClosers
<1>4. l \in 1..l /\ o = q[l] /\ o.kind \in {"table", "chain", "jump"}
  BY <1>1, <1>2, <1>3 DEF Start!HasCloser
<1>5. /\ o.kind = "table" =>
           Start!Removed(o) = {p \in fw : Start!Same(o, p) /\ p.kind \in {"table", "hook", "rule"}}
      /\ o.kind = "chain" =>
           Start!Removed(o) = {p \in fw : /\ Start!Same(o, p)
                                          /\ \/ p.kind = "target"
                                             \/ p = o /\ \A x \in fw : ~(x.kind = "jump" /\ Start!Same(o, x))}
      /\ o.kind = "jump" => Start!Removed(o) = {o}
  BY <1>4 DEF Start!Removed
<1>6. v \subseteq fw /\ FwSound(v)
  BY <1>4, FwStaysSound
<1>7. u \subseteq g /\ u \subseteq v /\ \A x \in u : Start!Where(x) \notin B
  BY <1>6 DEF FwGood
<1>8. ASSUME NEW p \in u, Start!Same(o, p)
      PROVE  p \notin Start!Removed(o) /\ \A x \in fw : Start!Same(o, x) => x \in g
  <2>1. Start!Where(o) = Start!Where(p) /\ Start!Where(o) \notin B /\ p \in v
    BY <1>7, <1>8, FwSamePlace
  <2>2. v = fw \ Start!Removed(o) /\ B = broken
    BY <2>1
  <2>3. ASSUME NEW x \in fw, Start!Same(o, x) PROVE x \in g
    BY <2>1, <2>2, <2>3, FwSamePlace DEF FwGood
  <2> QED
    BY <2>1, <2>2, <2>3
<1>9. ASSUME o \in u PROVE FALSE
  <2>1. o \in fw /\ o \notin Start!Removed(o) /\ Start!Same(o, o)
    BY <1>6, <1>7, <1>8, <1>9 DEF Start!Same
  <2>2. o.kind = "chain"
    BY <1>4, <1>5, <2>1
  <2>3. PICK x \in fw : x.kind = "jump" /\ Start!Same(o, x)
    BY <1>5, <2>1, <2>2
  <2>4. x \in FwSet(q)
    BY <1>3, <1>4, <1>8, <1>9, <2>1, <2>2, <2>3
  <2>5. PICK j \in 1..l : x = q[j]
    BY <1>2, <2>4 DEF FwSet
  <2>6. j # l
    BY <1>4, <2>2, <2>3, <2>5
  <2>7. j < l
    BY <1>2, <2>5, <2>6
  <2>8. Start!Same(x, o)
    BY <2>3 DEF Start!Same
  <2> QED
    BY <1>3, <1>4, <2>2, <2>3, <2>5, <2>7, <2>8
<1>10. FwClosers(u, r)
  <2>1. \A i \in 1..(l - 1) : i \in 1..l
    BY <1>2
  <2>2. \A i \in DOMAIN r : Start!HasCloser(r[i])
    BY <1>2, <1>3, <2>1
  <2>3. \A i, j \in DOMAIN r :
          i < j => ~(r[i].kind = "jump" /\ r[j].kind = "chain" /\ Start!Same(r[i], r[j]))
    BY <1>2, <1>3, <2>1
  <2>4. ASSUME NEW i \in DOMAIN r, NEW x \in u, r[i].kind = "chain", x.kind = "jump",
               Start!Same(r[i], x)
        PROVE  x \in FwSet(r)
    <3>1. x \in FwSet(q)
      BY <1>2, <1>3, <1>7, <2>1, <2>4
    <3>2. x # o
      BY <1>9, <2>4
    <3> QED
      BY <1>2, <3>1, <3>2
  <2> HIDE DEF u
  <2> QED
    BY <2>2, <2>3, <2>4 DEF FwClosers
<1>11. ASSUME NEW p \in u, FwCovered(p, FwSet(q)) PROVE FwCovered(p, FwSet(r))
  <2>1. CASE p \in FwSet(q)
    BY <1>2, <1>9, <2>1 DEF FwCovered
  <2>2. ASSUME NEW y \in FwSet(q), Start!Same(y, p),
               \/ y.kind = "table" /\ p.kind \in {"table", "hook", "rule"}
               \/ y.kind = "chain" /\ p.kind = "target"
        PROVE  FwCovered(p, FwSet(r))
    <3>1. p \in fw
      BY <1>6, <1>7
    <3>2. y # o
      BY <1>5, <1>8, <2>2, <3>1
    <3> QED
      BY <1>2, <2>2, <3>2 DEF FwCovered
  <2> QED
    BY <1>11, <2>1, <2>2 DEF FwCovered
<1> QED
  BY <1>2, <1>6, <1>7, <1>10, <1>11

(* The closers after a command: with one more or not.                      *)
FwAfter(q, o) == IF Start!HasCloser(o) THEN Append(q, o) ELSE q

(* What it says of them.                                                   *)
LEMMA FwAfterIs ==
  ASSUME NEW q \in Seq(FwObjects), NEW o \in FwObjects, NEW r, r = FwAfter(q, o),
         NEW l, l = Len(q)
  PROVE  /\ r \in Seq(FwObjects) /\ l \in Nat /\ DOMAIN q = 1..l
         /\ DOMAIN r = 1..(IF Start!HasCloser(o) THEN l + 1 ELSE l)
         /\ \A i \in 1..l : r[i] = q[i]
         /\ Start!HasCloser(o) => r[l + 1] = o
         /\ FwSet(r) = FwSet(q) \cup (IF Start!HasCloser(o) THEN {o} ELSE {})
<1>1. CASE Start!HasCloser(o)
  <2>1. r = Append(q, o)
    BY <1>1 DEF FwAfter
  <2>2. /\ r \in Seq(FwObjects) /\ Len(q) \in Nat /\ DOMAIN q = 1..Len(q)
        /\ DOMAIN r = 1..(Len(q) + 1)
        /\ r[Len(q) + 1] = o /\ \A i \in 1..Len(q) : r[i] = q[i]
        /\ FwSet(r) = FwSet(q) \cup {o}
    <3>1. FwMore(FwObjects, q, o, r)
      BY <2>1, FwAppend
    <3> QED
      BY <3>1 DEF FwMore
  <2> QED
    BY <1>1, <2>2
<1>2. CASE ~Start!HasCloser(o)
  <2>1. r = q
    BY <1>2 DEF FwAfter
  <2>2. l \in Nat /\ DOMAIN q = 1..l
    OBVIOUS
  <2> QED
    BY <1>2, <2>1, <2>2
<1> QED
  BY <1>1, <1>2

(* With one command more, and its closer.                                  *)
FwRun(c, n, v, r, o) ==
  /\ r \in Seq(FwObjects) /\ FwSound(v) /\ FwClosers(v, r)
  /\ FwSet(r) \subseteq v /\ FwDone(c, n, v, r) /\ FwCovered(o, FwSet(r))

(* The next command, before it is run.                                     *)
FwMayRun(c, S, n, q, o, v, r) ==
  /\ c \in MCConfigs /\ FwRedirects(c) # <<>> /\ FwSound(fw)
  /\ q \in Seq(FwObjects) /\ FwClosers(fw, q) /\ FwSet(q) \subseteq fw
  /\ S = Start!setupUDPPortRedirect(c) /\ n \in Nat /\ n + 1 \in 1..Len(S)
  /\ FwDone(c, n, fw, q) /\ o = S[n + 1] /\ Start!Accepted(o)
  /\ v = fw \cup {o} /\ r = FwAfter(q, o)

(* RunCommand: a jump is made below its chain; a chain is new, or the      *)
(* command would have failed, and so are its jumps.                        *)
LEMMA FwRuns ==
  ASSUME NEW c, NEW S, NEW n, NEW q, NEW o, NEW v, NEW r, FwMayRun(c, S, n, q, o, v, r)
  PROVE  FwRun(c, n + 1, v, r, o) /\ FwSet(q) \subseteq FwSet(r)
<1> USE DEF FwMayRun
<1>1. /\ FwIs(c, o)
      /\ o = FwHead(c, o.family) \/ \E k \in 1..((n + 1) - 1) : S[k] = FwHead(c, o.family)
  BY FwCommandIs
<1>2. /\ o \in FwObjects /\ o.key = Start!hashInput(c)
      /\ o.kind \in Start!Kinds(c.backend) /\ o.family \in FwFamilies(c)
      /\ o.kind \in {"table", "chain"} => o = FwHead(c, o.family)
  BY <1>1 DEF FwIs
<1>3. PICK l : l = Len(q)
  OBVIOUS
<1>4. /\ r \in Seq(FwObjects) /\ l \in Nat /\ DOMAIN q = 1..l
      /\ DOMAIN r = 1..(IF Start!HasCloser(o) THEN l + 1 ELSE l)
      /\ \A i \in 1..l : r[i] = q[i]
      /\ Start!HasCloser(o) => r[l + 1] = o
      /\ FwSet(r) = FwSet(q) \cup (IF Start!HasCloser(o) THEN {o} ELSE {})
  BY <1>2, <1>3, FwAfterIs, SMTT(40)
<1>5. FwSet(q) \subseteq FwSet(r) /\ (Start!HasCloser(o) => o \in FwSet(r)) /\ FwSet(r) \subseteq v
  BY <1>4
<1>6. c.backend \in {"nft", "iptables"}
  BY FwConfig
<1>7. PICK h : h = FwHead(c, o.family)
  OBVIOUS
<1>8. /\ h.family = o.family /\ h.key = o.key /\ h.kind \in {"table", "chain"}
      /\ c.backend = "nft" => h.kind = "table"
      /\ c.backend # "nft" => h.kind = "chain"
  <2>1. h.family = o.family /\ h.key = Start!hashInput(c)
    BY <1>7 DEF FwHead, Start!obj
  <2>2. c.backend = "nft" => h.kind = "table"
    BY <1>7 DEF FwHead, Start!obj
  <2>3. c.backend # "nft" => h.kind = "chain"
    BY <1>7 DEF FwHead, Start!obj
  <2> QED
    BY <1>2, <1>6, <2>1, <2>2, <2>3
<1>9. Start!Same(h, o) /\ Start!HasCloser(h)
  BY <1>8 DEF Start!Same, Start!HasCloser
<1>10. o # h => h \in fw /\ h \in FwSet(q)
  <2>1. ASSUME o # h PROVE h \in fw /\ h \in FwSet(q)
    <3>1. PICK k \in 1..n : S[k] = h
      BY <1>1, <1>7, <2>1
    <3> QED
      BY <1>9, <3>1 DEF FwDone
  <2> QED
    BY <2>1
<1>11. ASSUME o.kind = "chain", NEW x \in fw, x.kind = "jump", Start!Same(o, x) PROVE FALSE
  <2>1. o = FwHead(c, o.family) /\ c.backend # "nft"
    BY <1>2, <1>11 DEF Start!Kinds
  <2>2. o = Start!obj("chain", o.family, "", Start!NoRange, o.key)
    BY <1>2, <2>1 DEF FwHead
  <2>3. x.family = o.family /\ x.key = o.key
    BY <1>11 DEF Start!Same
  <2>4. Start!obj("chain", x.family, "", Start!NoRange, x.key) \in fw
    BY <1>11 DEF FwSound
  <2>5. o \in fw
    BY <2>2, <2>3, <2>4
  <2> QED
    BY <1>11, <2>5 DEF Start!Accepted
<1>12. FwSound(v)
  <2>1. FwKnown(o)
    <3>1. DOMAIN S = 1..Len(S)
      BY FwSetup DEF FwCommands
    <3>2. o \in FwMade(c)
      BY <3>1 DEF FwMade, FwSet
    <3> QED
      BY <3>2 DEF FwKnown
  <2>2. ASSUME o.kind = "jump"
        PROVE  Start!obj("chain", o.family, "", Start!NoRange, o.key) \in fw
    <3>1. c.backend # "nft" /\ o # h
      BY <1>2, <1>8, <2>2 DEF Start!Kinds
    <3>2. h = Start!obj("chain", o.family, "", Start!NoRange, o.key)
      BY <1>2, <1>7, <3>1 DEF FwHead
    <3> QED
      BY <1>10, <3>1, <3>2
  <2> QED
    BY <2>1, <2>2 DEF FwSound
<1>13. FwClosers(v, r)
  <2>1. \A i \in DOMAIN r : i \in 1..l \/ (Start!HasCloser(o) /\ i = l + 1)
    BY <1>4
  <2>2. \A i \in 1..l : i \in DOMAIN q /\ r[i] = q[i] /\ q[i] \in FwSet(q)
    BY <1>4 DEF FwSet
  <2>3. \A i \in DOMAIN r : (i \in 1..l /\ r[i] = q[i]) \/ (Start!HasCloser(o) /\ i = l + 1 /\ r[i] = o)
    BY <1>4, <2>1, <2>2
  <2>4. \A i \in DOMAIN r : Start!HasCloser(r[i])
    BY <2>2, <2>3 DEF FwClosers
  <2>5. ASSUME NEW i \in DOMAIN r, NEW j \in DOMAIN r, i < j, r[i].kind = "jump",
               r[j].kind = "chain", Start!Same(r[i], r[j])
        PROVE  FALSE
    <3>1. i \in 1..l
      BY <1>4, <2>1, <2>5
    <3>2. CASE j \in 1..l
      BY <2>2, <2>5, <3>1, <3>2 DEF FwClosers
    <3>3. CASE j \notin 1..l
      <4>1. r[j] = o /\ r[i] = q[i] /\ q[i] \in fw
        BY <2>2, <2>3, <3>1, <3>3
      <4>2. Start!Same(o, q[i])
        BY <2>5, <4>1 DEF Start!Same
      <4> QED
        BY <1>11, <2>5, <4>1, <4>2
    <3> QED
      BY <3>2, <3>3
  <2>6. ASSUME NEW i \in DOMAIN r, NEW x \in v, r[i].kind = "chain", x.kind = "jump",
               Start!Same(r[i], x)
        PROVE  x \in FwSet(r)
    <3>1. CASE x \in fw
      <4>1. i \in 1..l
        BY <1>11, <2>3, <2>6, <3>1
      <4>2. x \in FwSet(q)
        BY <2>2, <2>6, <3>1, <4>1 DEF FwClosers
      <4> QED
        BY <1>5, <4>2
    <3>2. CASE x = o
      BY <1>5, <2>6, <3>2 DEF Start!HasCloser
    <3> QED
      BY <3>1, <3>2
  <2> QED
    BY <2>4, <2>5, <2>6 DEF FwClosers
<1>14. FwDone(c, n + 1, v, r)
  <2>1. ASSUME NEW i \in 1..(n + 1) PROVE S[i] \in v /\ (Start!HasCloser(S[i]) => S[i] \in FwSet(r))
    <3>1. CASE i = n + 1
      BY <1>5, <3>1
    <3>2. CASE i # n + 1
      <4>1. i \in 1..n
        BY <3>2
      <4>2. S[i] \in fw /\ (Start!HasCloser(S[i]) => S[i] \in FwSet(q))
        BY <4>1 DEF FwDone
      <4> QED
        BY <1>5, <4>2
    <3> QED
      BY <3>1, <3>2
  <2> QED
    BY <2>1 DEF FwDone
<1>15. FwCovered(o, FwSet(r))
  <2>1. CASE Start!HasCloser(o)
    BY <1>5, <2>1 DEF FwCovered
  <2>2. CASE ~Start!HasCloser(o)
    <3>1. o # h /\ h \in FwSet(r)
      BY <1>5, <1>9, <1>10, <2>2
    <3>2. \/ h.kind = "table" /\ o.kind \in {"table", "hook", "rule"}
          \/ h.kind = "chain" /\ o.kind = "target"
      BY <1>2, <1>8, <2>2 DEF Start!Kinds, Start!HasCloser
    <3> QED
      BY <1>9, <3>1, <3>2 DEF FwCovered
  <2> QED
    BY <2>1, <2>2
<1> QED
  BY <1>4, <1>5, <1>12, <1>13, <1>14, <1>15 DEF FwRun

(* Nothing to close covers nothing.                                        *)
LEMMA FwNone ==
  /\ FwSet(<<>>) = {} /\ <<>> \in Seq(FwObjects)
  /\ \A w : FwClosers(w, <<>>)
  /\ \A o : ~FwCovered(o, {})
<1>1. DOMAIN <<>> = {}
  OBVIOUS
<1>2. FwSet(<<>>) = {}
  BY <1>1 DEF FwSet
<1>3. \A w : FwClosers(w, <<>>)
  BY <1>1 DEF FwClosers
<1> QED
  BY <1>2, <1>3 DEF FwCovered

(* A process without closers has added nothing.                            *)
LEMMA FwNothing ==
  ASSUME FwInv, pc # "off", fns = <<>> PROVE FwGood(fw, broken) \subseteq fwBefore
BY FwNone DEF FwInv, FwBooks

(* The process ends.                                                       *)
LEMMA FwExit ==
  ASSUME FwInv, NEW how, Start!Exit(how), fw' = fw, fwBefore' = fwBefore, broken' = broken,
         how = "graceful" /\ config.listen = "ports" =>
           \A o \in FwGood(fw, broken) : ~FwOwn(config, o),
         how = "refused" => FwGood(fw, broken) \subseteq fwBefore
  PROVE  FwInv'
<1>1. pc' = "off" /\ ended' = how /\ fns' = <<>> /\ config' = config
  BY DEF Start!Exit
<1>2. FwTypes'
  BY <1>1, FwNone DEF FwTypes, FwInv
<1>3. FwSound(fw)'
  BY DEF FwInv, FwSound, FwKnown
<1>4. FwPlace' /\ FwBooks'
  BY <1>1 DEF FwPlace, FwBooks
<1>5. FwProgress'
  BY <1>1 DEF FwProgress
<1>6. Start!LeavesNothing'
  BY <1>1 DEF Start!LeavesNothing, FwOwn, FwGood
<1> QED
  BY <1>2, <1>3, <1>4, <1>5, <1>6 DEF FwInv

(* What the set-up has done, where it has been run.                        *)
FwReady(c, w, q) ==
  c.listen = "ports" /\ FwRedirects(c) # <<>> =>
    FwDone(c, Len(Start!setupUDPPortRedirect(c)), w, q)

(* The process goes on with the firewall and the closers it has.           *)
LEMMA FwOn ==
  ASSUME FwInv, pc # "off", fw' = fw, fwBefore' = fwBefore, fns' = fns, config' = config,
         ended' = ended, broken' = broken, broken = {}, cleanup' # "set" => fns = <<>>,
         pc' \in {"undo", "wrap", "fill", "mimic", "new", "serve", "close", "abandon"},
         pc' \in {"wrap", "fill", "mimic", "new", "serve"} => FwReady(config, fw, fns),
         pc' = "close" /\ config.listen = "ports" =>
           \A o \in fw : FwOwn(config, o) => FwCovered(o, FwSet(fns))
  PROVE  FwInv'
<1>0. FwGood(fw, broken) = fw
  BY FwUnbroken
<1>1. FwTypes'
  BY DEF FwTypes, FwInv
<1>2. FwSound(fw)'
  BY DEF FwInv, FwSound, FwKnown
<1>3. ended' = "running" /\ FwPlace'
  BY DEF FwPlace, FwInv
<1>4. FwBooks'
  BY DEF FwBooks, FwInv
<1>5. FwProgress'
  BY <1>0 DEF FwProgress, FwReady
<1>6. Start!LeavesNothing'
  BY <1>3 DEF Start!LeavesNothing
<1> QED
  BY <1>1, <1>2, <1>3, <1>4, <1>5, <1>6 DEF FwInv

(* Nothing has failed to be cleaned up before the clean-up.                *)
LEMMA FwWhole ==
  ASSUME FwInv, pc \notin {"off", "undo", "close", "abandon"}
  PROVE  broken = {} /\ FwGood(fw, broken) = fw
BY FwUnbroken DEF FwInv, FwPlace

(* Where it is ready it stays so.                                          *)
LEMMA FwIsReady ==
  ASSUME FwInv, pc \in {"wrap", "fill", "mimic", "new", "serve"}
  PROVE  FwReady(config, fw, fns)
BY DEF FwInv, FwProgress, FwReady

(* runServer finds what others have left.                                  *)
LEMMA FwRunServer ==
  ASSUME FwInv, NEW c \in MCConfigs, Start!runServer(c) PROVE FwInv'
<1>1. /\ pc = "off" /\ pc' = "listen" /\ config' = c /\ fwBefore' = fw /\ fw' = fw
      /\ fns' = fns /\ ended' = "running" /\ broken' = {}
  BY DEF Start!runServer
<1>2. fns = <<>>
  BY <1>1 DEF FwInv, FwPlace
<1>3. FwTypes'
  BY <1>1, <1>2, FwNone DEF FwTypes
<1>4. FwSound(fw)'
  BY <1>1 DEF FwInv, FwSound, FwKnown
<1>5. FwPlace'
  BY <1>1, <1>2 DEF FwPlace
<1>6. FwBooks'
  BY <1>1, <1>2, FwNone, FwUnbroken DEF FwBooks
<1>7. FwProgress'
  BY <1>1 DEF FwProgress
<1>8. Start!LeavesNothing'
  BY <1>1 DEF Start!LeavesNothing
<1> QED
  BY <1>3, <1>4, <1>5, <1>6, <1>7, <1>8 DEF FwInv

(* fillConn: nothing is redirected yet.                                    *)
LEMMA FwFillConn == ASSUME FwInv, Start!fillConn PROVE FwInv'
<1>1. /\ pc = "listen" /\ config' = config /\ fns' = fns /\ fw' = fw /\ ended' = ended
      /\ fwBefore' = fwBefore /\ broken' = broken /\ broken = {}
  BY FwWhole DEF Start!fillConn, Start!history
<1>2. fns = <<>> /\ config \in MCConfigs
  BY <1>1 DEF FwInv, FwPlace, FwTypes
<1>3. CASE config.listen = "ports" /\ FwRedirects(config) # <<>>
  <2>1. /\ pc' = "redirect" /\ cleanup' = "set"
        /\ todo' = Start!setupUDPPortRedirect(config)
    BY <1>3 DEF Start!fillConn, FwRedirects
  <2>2. PICK S : S = Start!setupUDPPortRedirect(config)
    OBVIOUS
  <2>3. S \in Seq(FwObjects) /\ Len(S) \in Nat \ {0}
    BY <1>2, <2>2, FwSetup DEF FwCommands
  <2>4. 0 \in 0..(Len(S) - 1) /\ S = SubSeq(S, 0 + 1, Len(S))
    BY <2>3
  <2>5. FwDone(config', 0, fw', fns')
    BY DEF FwDone
  <2>6. FwTypes'
    BY <1>1, <2>1 DEF FwTypes, FwInv
  <2>7. FwSound(fw)'
    BY <1>1 DEF FwInv, FwSound, FwKnown
  <2>8. FwPlace' /\ ended' = "running"
    BY <1>1, <2>1 DEF FwPlace, FwInv
  <2>9. FwBooks'
    BY <1>1 DEF FwBooks, FwInv
  <2>10. FwProgress'
    <3>1. FwSet(fns') \subseteq fw'
      BY <1>1, <1>2, FwNone
    <3>2. todo' = SubSeq(S, 0 + 1, Len(S)) /\ S = Start!setupUDPPortRedirect(config')
      BY <1>1, <2>1, <2>2, <2>4
    <3>3. FwRedirects(config') # <<>> /\ config'.listen = "ports"
      BY <1>1, <1>3
    <3> QED
      BY <2>1, <2>4, <2>5, <3>1, <3>2, <3>3 DEF FwProgress
  <2>11. Start!LeavesNothing'
    BY <2>8 DEF Start!LeavesNothing
  <2> QED
    BY <2>6, <2>7, <2>8, <2>9, <2>10, <2>11 DEF FwInv
<1>4. CASE ~(config.listen = "ports" /\ FwRedirects(config) # <<>>)
  <2>1. pc' = "wrap"
    BY <1>4 DEF Start!fillConn, FwRedirects
  <2>2. FwReady(config, fw, fns)
    BY <1>4 DEF FwReady
  <2> QED
    BY <1>1, <1>2, <2>1, <2>2, FwOn
<1> QED
  BY <1>3, <1>4

(* closerFuncs.Close, one closer, whose commands may fail.                 *)
LEMMA FwCloserRuns ==
  ASSUME FwInv, Start!closerFuncsClose \/ Start!closerFuncsFails PROVE FwInv'
<1>1. PICK o, r, v, B : /\ o = fns[Len(fns)] /\ r = SubSeq(fns, 1, Len(fns) - 1) /\ v = fw'
                        /\ B = broken'
  OBVIOUS
<1>2. /\ pc \in {"undo", "close", "abandon"} /\ pc' = pc /\ fns # <<>> /\ fw' = v /\ fns' = r
      /\ config' = config /\ cleanup' = cleanup /\ ended' = ended /\ fwBefore' = fwBefore
      /\ broken' = B
  BY <1>1 DEF Start!closerFuncsClose, Start!closerFuncsFails, Start!LastFirst, Start!process,
              Start!history
<1>3. \/ v = fw \ Start!Removed(o) /\ B = broken
      \/ v \in {fw, fw \ Start!Emptied(o)} /\ B = broken \cup {Start!Where(o)}
  BY <1>1 DEF Start!closerFuncsClose, Start!closerFuncsFails, Start!LastFirst, Start!history
<1>4. fns \in Seq(FwObjects) /\ FwSound(fw) /\ FwClosers(FwGood(fw, broken), fns)
  BY <1>2 DEF FwInv, FwTypes, FwBooks
<1>5. /\ r \in Seq(FwObjects) /\ FwSound(v) /\ FwClosers(FwGood(v, B), r)
      /\ FwGood(v, B) \subseteq FwGood(fw, broken)
      /\ \A p \in FwGood(v, B) : FwCovered(p, FwSet(fns)) => FwCovered(p, FwSet(r))
  BY <1>1, <1>2, <1>3, <1>4, FwCloses
<1>6. FwTypes'
  BY <1>2, <1>5 DEF FwInv, FwTypes
<1>7. FwSound(fw)'
  BY <1>2, <1>5
<1>8. FwPlace' /\ ended' = "running"
  BY <1>2 DEF FwInv, FwPlace
<1>9. FwBooks'
  BY <1>2, <1>5 DEF FwInv, FwBooks
<1>10. FwProgress'
  BY <1>2, <1>5 DEF FwInv, FwProgress
<1>11. Start!LeavesNothing'
  BY <1>8 DEF Start!LeavesNothing
<1> QED
  BY <1>6, <1>7, <1>8, <1>9, <1>10, <1>11 DEF FwInv

(* RunCommand, one command.                                                *)
LEMMA FwCommandRuns == ASSUME FwInv, Start!RunCommand PROVE FwInv'
<1>1. PICK S : S = Start!setupUDPPortRedirect(config)
  OBVIOUS
<1>2. /\ pc = "redirect" /\ todo # <<>> /\ Start!Accepted(Head(todo))
      /\ fw' = fw \cup {Head(todo)} /\ todo' = Tail(todo)
      /\ pc' = IF Tail(todo) = <<>> THEN "wrap" ELSE pc
      /\ config' = config /\ cleanup' = cleanup /\ ended' = ended /\ fwBefore' = fwBefore
      /\ broken' = broken /\ broken = {} /\ FwGood(fw, broken) = fw
  BY FwWhole DEF Start!RunCommand, Start!process, Start!history
<1>3. config.listen = "ports" /\ FwRedirects(config) # <<>> /\ cleanup = "set"
  BY <1>2 DEF FwInv, FwProgress
<1>4. FwSet(fns) \subseteq fw
  BY <1>2 DEF FwInv, FwProgress
<1>5. PICK n \in 0..(Len(S) - 1) : todo = SubSeq(S, n + 1, Len(S)) /\ FwDone(config, n, fw, fns)
  BY <1>1, <1>2 DEF FwInv, FwProgress
<1>6. /\ config \in MCConfigs /\ fns \in Seq(FwObjects) /\ FwSound(fw) /\ FwClosers(fw, fns)
      /\ ended = "running"
  BY <1>2 DEF FwInv, FwTypes, FwBooks, FwPlace
<1>7. S \in Seq(FwObjects) /\ Len(S) \in Nat \ {0}
  BY <1>1, <1>6, FwSetup DEF FwCommands
<1>8. PICK l \in Nat : l = Len(S) /\ l # 0 /\ n \in 0..(l - 1)
  BY <1>5, <1>7
<1>9. n \in Nat /\ n + 1 \in 1..Len(S)
  BY <1>8
<1>10. Head(todo) = S[n + 1] /\ Tail(todo) = SubSeq(S, (n + 1) + 1, Len(S))
  BY <1>5, <1>7, <1>8
<1>11. Tail(todo) = <<>> <=> n + 1 = Len(S)
  <2>1. PICK T : T = Tail(todo)
    OBVIOUS
  <2>2. T \in Seq(FwObjects) /\ Len(T) = l - (n + 1)
    <3>1. todo \in Seq(FwObjects) /\ Len(todo) = l - n
      BY <1>5, <1>7, <1>8
    <3> QED
      BY <1>2, <1>8, <2>1, <3>1
  <2>3. T = <<>> <=> Len(T) = 0
    BY <2>2
  <2> QED
    BY <1>8, <2>1, <2>2, <2>3
<1>12. PICK o, v, r : o = S[n + 1] /\ v = fw \cup {o} /\ r = FwAfter(fns, o)
  OBVIOUS
<1>13. fw' = v /\ fns' = r /\ Start!Accepted(o)
  BY <1>2, <1>10, <1>12 DEF Start!RunCommand, FwAfter
<1>14. FwRun(config, n + 1, v, r, o) /\ FwSet(fns) \subseteq FwSet(r)
  <2>1. FwMayRun(config, S, n, fns, o, v, r)
    BY <1>1, <1>3, <1>4, <1>5, <1>6, <1>9, <1>12, <1>13 DEF FwMayRun
  <2> QED
    BY <2>1, FwRuns
<1>15. /\ r \in Seq(FwObjects) /\ FwSound(v) /\ FwClosers(v, r)
       /\ FwSet(r) \subseteq v /\ FwDone(config, n + 1, v, r) /\ FwCovered(o, FwSet(r))
  BY <1>14 DEF FwRun
<1>16. FwTypes'
  BY <1>2, <1>6, <1>13, <1>15 DEF FwTypes
<1>17. FwSound(fw)'
  BY <1>13, <1>15
<1>18. FwPlace'
  BY <1>2, <1>3, <1>6 DEF FwPlace
<1>19. FwBooks'
  <2>1. ASSUME NEW p \in v PROVE p \in fwBefore \/ FwCovered(p, FwSet(r))
    <3>1. CASE p = o
      BY <1>15, <3>1
    <3>2. CASE p \in fw
      <4>1. p \in fwBefore \/ FwCovered(p, FwSet(fns))
        BY <1>2, <3>2 DEF FwInv, FwBooks
      <4> QED
        BY <1>14, <4>1 DEF FwCovered
    <3> QED
      BY <1>12, <3>1, <3>2
  <2> QED
    BY <1>2, <1>13, <1>15, <2>1, FwUnbroken DEF FwBooks
<1>20. FwProgress'
  <2>1. CASE n + 1 = Len(S)
    BY <1>1, <1>2, <1>11, <1>13, <1>15, <2>1 DEF FwProgress
  <2>2. CASE n + 1 # Len(S)
    <3>1. n + 1 \in 0..(Len(S) - 1)
      BY <1>8, <2>2
    <3>2. pc' = "redirect"
      BY <1>2, <1>11, <2>2
    <3>3. todo' = SubSeq(S, (n + 1) + 1, Len(S)) /\ FwDone(config', n + 1, fw', fns')
      BY <1>2, <1>10, <1>13, <1>15
    <3>4. S = Start!setupUDPPortRedirect(config') /\ FwRedirects(config') # <<>>
      BY <1>1, <1>2, <1>3
    <3> QED
      BY <1>2, <1>3, <1>13, <1>15, <3>1, <3>2, <3>3, <3>4 DEF FwProgress
  <2> QED
    BY <2>1, <2>2
<1>21. Start!LeavesNothing'
  BY <1>2, <1>6 DEF Start!LeavesNothing
<1> QED
  BY <1>16, <1>17, <1>18, <1>19, <1>20, <1>21 DEF FwInv

(* The steps that open the listener, or do not.                            *)
LEMMA FwOpens ==
  ASSUME FwInv,
         \/ Start!fillConnRefused \/ Start!fillRealmConn \/ Start!CommandFails \/ Start!Undone
         \/ Start!wrapObfs
  PROVE  FwInv'
<1>1. CASE Start!fillConnRefused
  <2>1. /\ pc = "listen" /\ Start!Exit("refused") /\ fw' = fw /\ fwBefore' = fwBefore
        /\ broken' = broken
    BY <1>1 DEF Start!fillConnRefused, Start!history
  <2>2. FwGood(fw, broken) \subseteq fwBefore
    BY <2>1, FwWhole DEF FwInv, FwPlace
  <2> QED
    BY <2>1, <2>2, FwExit
<1>2. CASE Start!fillRealmConn
  <2>1. /\ pc = "listen" /\ config.listen = "realm" /\ fw' = fw /\ fwBefore' = fwBefore
        /\ broken' = broken /\ broken = {}
    BY <1>2, FwWhole DEF Start!fillRealmConn, Start!history
  <2>2. CASE Start!Exit("refused")
    <3>1. FwGood(fw, broken) \subseteq fwBefore
      BY <2>1, FwWhole DEF FwInv, FwPlace
    <3> QED
      BY <2>1, <2>2, <3>1, FwExit
  <2>3. CASE ~Start!Exit("refused")
    <3>1. pc' = "fill" /\ cleanup' = "set" /\ config' = config /\ fns' = fns /\ ended' = ended
      BY <1>2, <2>3 DEF Start!fillRealmConn
    <3>2. FwReady(config, fw, fns)
      BY <2>1 DEF FwReady
    <3> QED
      BY <2>1, <3>1, <3>2, FwOn
  <2> QED
    BY <2>2, <2>3
<1>3. CASE Start!CommandFails
  <2>1. /\ pc = "redirect" /\ pc' = "undo" /\ fns' = fns /\ fw' = fw /\ fwBefore' = fwBefore
        /\ config' = config /\ cleanup' = cleanup /\ ended' = ended
        /\ broken' = broken /\ broken = {}
    BY <1>3, FwWhole DEF Start!CommandFails, Start!process, Start!history
  <2>2. cleanup' # "set" => fns = <<>>
    BY <2>1 DEF FwInv, FwPlace
  <2> QED
    BY <2>1, <2>2, FwOn
<1>4. CASE Start!Undone
  <2>1. /\ pc = "undo" /\ fns = <<>> /\ Start!Exit("refused") /\ fw' = fw
        /\ fwBefore' = fwBefore /\ broken' = broken
    BY <1>4 DEF Start!Undone, Start!history
  <2>2. FwGood(fw, broken) \subseteq fwBefore
    BY <2>1, FwNothing
  <2> QED
    BY <2>1, <2>2, FwExit
<1>5. CASE Start!wrapObfs
  <2>1. /\ pc = "wrap" /\ fw' = fw /\ fwBefore' = fwBefore /\ broken' = broken
        /\ broken = {}
    BY <1>5, FwWhole DEF Start!wrapObfs, Start!history
  <2>2. FwReady(config, fw, fns) /\ (cleanup # "set" => fns = <<>>)
    BY <2>1, FwIsReady DEF FwInv, FwPlace
  <2>3. CASE config.obfs = "unknown" /\ cleanup # "set"
    <3>1. PICK how : how = (IF cleanup = "nil" THEN "crashed" ELSE "refused")
      OBVIOUS
    <3>2. Start!Exit(how) /\ how # "graceful"
      BY <1>5, <2>3, <3>1 DEF Start!wrapObfs
    <3>3. FwGood(fw, broken) \subseteq fwBefore
      BY <2>1, <2>2, <2>3, FwNothing
    <3> QED
      BY <2>1, <3>2, <3>3, FwExit
  <2>4. CASE ~(config.obfs = "unknown" /\ cleanup # "set")
    <3>1. /\ pc' \in {"fill", "undo"} /\ cleanup' = cleanup /\ config' = config /\ fns' = fns
          /\ ended' = ended
      BY <1>5, <2>4 DEF Start!wrapObfs, Start!process
    <3> QED
      BY <2>1, <2>2, <3>1, FwOn
  <2> QED
    BY <2>3, <2>4
<1> QED
  BY <1>1, <1>2, <1>3, <1>4, <1>5

(* The rest of the start, and the steps beside it.                         *)
LEMMA FwGoesOn ==
  ASSUME FwInv,
         \/ Start!Filler \/ Start!mimicStart \/ Start!NewServer \/ Start!realmPortMapLoop
  PROVE  FwInv'
<1>1. CASE Start!Filler \/ Start!mimicStart \/ Start!NewServer
  <2>1. /\ pc \in {"fill", "mimic", "new"} /\ pc' \in {"fill", "mimic", "new", "serve"}
        /\ fns' = fns /\ fw' = fw /\ fwBefore' = fwBefore /\ config' = config
        /\ cleanup' = cleanup /\ ended' = ended /\ broken' = broken /\ broken = {}
    BY <1>1, FwWhole
       DEF Start!Filler, Start!mimicStart, Start!NewServer, Start!process, Start!history
  <2>2. FwReady(config, fw, fns) /\ (cleanup' # "set" => fns = <<>>)
    BY <2>1, FwIsReady DEF FwInv, FwPlace
  <2> QED
    BY <2>1, <2>2, FwOn
<1>2. CASE Start!realmPortMapLoop
  <2>1. /\ pc' = pc /\ todo' = todo /\ fns' = fns /\ fw' = fw /\ fwBefore' = fwBefore
        /\ config' = config /\ cleanup' = cleanup /\ ended' = ended /\ broken' = broken
    BY <1>2 DEF Start!realmPortMapLoop, Start!history
  <2> QED
    BY <2>1 DEF FwInv, FwTypes, FwSound, FwKnown, FwPlace, FwBooks, FwProgress,
                Start!LeavesNothing
<1> QED
  BY <1>1, <1>2

(* How a process ends.                                                     *)
LEMMA FwEnds ==
  ASSUME FwInv,
         \/ Start!Fatal \/ Start!ListenFails \/ Start!Abandoned \/ Start!Signal \/ Start!Closed
         \/ Start!Kill
  PROVE  FwInv'
<1>1. CASE Start!Fatal \/ Start!Abandoned \/ Start!Kill
  <2>1. /\ fw' = fw /\ fwBefore' = fwBefore /\ broken' = broken
        /\ Start!Exit("fatal") \/ Start!Exit("killed")
    BY <1>1 DEF Start!Fatal, Start!Abandoned, Start!Kill, Start!history
  <2> QED
    BY <2>1, FwExit
<1>2. CASE Start!ListenFails
  <2>1. /\ pc = "new" /\ fw' = fw /\ fwBefore' = fwBefore /\ broken' = broken
        /\ broken = {}
    BY <1>2, FwWhole DEF Start!ListenFails, Start!history
  <2>2. CASE cleanup = "nil"
    <3>1. Start!Exit("crashed")
      BY <1>2, <2>2 DEF Start!ListenFails
    <3> QED
      BY <2>1, <3>1, FwExit
  <2>3. CASE cleanup # "nil"
    <3>1. /\ pc' = "abandon" /\ config' = config /\ cleanup' = cleanup /\ fns' = fns
          /\ ended' = ended
      BY <1>2, <2>3 DEF Start!ListenFails
    <3>2. cleanup' # "set" => fns = <<>>
      BY <3>1 DEF FwInv, FwPlace
    <3> QED
      BY <2>1, <3>1, <3>2, FwOn
  <2> QED
    BY <2>2, <2>3
<1>3. CASE Start!Signal
  <2>1. /\ pc = "serve" /\ fw' = fw /\ fwBefore' = fwBefore /\ broken' = broken
        /\ broken = {} /\ FwGood(fw, broken) = fw
    BY <1>3, FwWhole DEF Start!Signal, Start!history
  <2>2. CASE cleanup = "nil"
    <3>1. Start!Exit("panic")
      BY <1>3, <2>2 DEF Start!Signal
    <3> QED
      BY <2>1, <3>1, FwExit
  <2>3. CASE cleanup # "nil"
    <3>1. /\ pc' = "close" /\ config' = config /\ cleanup' = cleanup /\ fns' = fns
          /\ ended' = ended
      BY <1>3, <2>3 DEF Start!Signal
    <3>2. cleanup' # "set" => fns = <<>>
      BY <3>1 DEF FwInv, FwPlace
    <3>3. ASSUME config.listen = "ports"
          PROVE  \A o \in fw : FwOwn(config, o) => FwCovered(o, FwSet(fns))
      <4>1. config \in MCConfigs /\ FwSound(fw) /\ FwClosers(fw, fns)
        BY <2>1 DEF FwInv, FwTypes, FwBooks
      <4>2. FwRedirects(config) # <<>> =>
              FwDone(config, Len(Start!setupUDPPortRedirect(config)), fw, fns)
        BY <2>1, <3>3, FwIsReady DEF FwReady
      <4> QED
        BY <4>1, <4>2, FwAllCovered
    <3> QED
      BY <2>1, <3>1, <3>2, <3>3, FwOn
  <2> QED
    BY <2>2, <2>3
<1>4. CASE Start!Closed
  <2>1. /\ pc = "close" /\ fns = <<>> /\ Start!Exit("graceful") /\ fw' = fw
        /\ fwBefore' = fwBefore /\ broken' = broken
    BY <1>4 DEF Start!Closed, Start!history
  <2>2. ASSUME config.listen = "ports" PROVE \A o \in FwGood(fw, broken) : ~FwOwn(config, o)
    BY <2>1, <2>2, FwNone DEF FwInv, FwProgress
  <2> QED
    BY <2>1, <2>2, FwExit
<1> QED
  BY <1>1, <1>2, <1>3, <1>4

(* Every step keeps it.                                                    *)
LEMMA FwKept == ASSUME FwInv, [Start!Next]_(Start!vars) PROVE FwInv'
<1>1. CASE \E c \in MCConfigs : Start!runServer(c)
  BY <1>1, FwRunServer
<1>2. CASE Start!fillConn
  BY <1>2, FwFillConn
<1>3. CASE Start!RunCommand
  BY <1>3, FwCommandRuns
<1>4. CASE Start!closerFuncsClose \/ Start!closerFuncsFails
  BY <1>4, FwCloserRuns
<1>5. CASE \/ Start!fillConnRefused \/ Start!fillRealmConn \/ Start!CommandFails \/ Start!Undone
           \/ Start!wrapObfs
  BY <1>5, FwOpens
<1>6. CASE \/ Start!Filler \/ Start!mimicStart \/ Start!NewServer \/ Start!realmPortMapLoop
  BY <1>6, FwGoesOn
<1>7. CASE \/ Start!Fatal \/ Start!ListenFails \/ Start!Abandoned \/ Start!Signal \/ Start!Closed
           \/ Start!Kill
  BY <1>7, FwEnds
<1>8. CASE UNCHANGED Start!vars
  <2>1. /\ pc' = pc /\ todo' = todo /\ fns' = fns /\ fw' = fw /\ fwBefore' = fwBefore
        /\ config' = config /\ cleanup' = cleanup /\ ended' = ended /\ broken' = broken
    BY <1>8 DEF Start!vars
  <2> QED
    BY <2>1 DEF FwInv, FwTypes, FwSound, FwKnown, FwPlace, FwBooks, FwProgress,
                Start!LeavesNothing
<1> QED
  BY <1>1, <1>2, <1>3, <1>4, <1>5, <1>6, <1>7, <1>8 DEF Start!Next

(* A host without a process.                                               *)
LEMMA FwStarts == ASSUME Start!Init PROVE FwInv
<1>1. /\ pc = "off" /\ config \in MCConfigs /\ fns = <<>> /\ fw = {} /\ ended = "never"
  BY DEF Start!Init
<1>2. FwTypes
  BY <1>1, FwNone DEF FwTypes
<1>3. FwSound(fw) /\ Start!LeavesNothing
  BY <1>1 DEF FwSound, Start!LeavesNothing
<1> QED
  BY <1>1, <1>2, <1>3 DEF FwInv, FwPlace, FwBooks, FwProgress

(* The ports a hook of a family redirects.                                 *)
FwRedirected(w, f, h, k) ==
  UNION {o.range.start .. o.range.end : o \in {o \in w :
    o.kind \in {"rule", "jump"} /\ o.family = f /\ o.chain = h /\ o.key = k}}

(* They are those of the ranges, where the set-up has been run.            *)
LEMMA FwHooked ==
  ASSUME NEW c \in MCConfigs, NEW w, NEW q, FwSound(w), FwRedirects(c) # <<>> =>
           FwDone(c, Len(Start!setupUDPPortRedirect(c)), w, q),
         NEW f \in FwFamilies(c), NEW h \in FwHooks(c), NEW R, R = FwRedirects(c)
  PROVE  \A x : x \in FwRedirected(w, f, h, Start!hashInput(c))
                  <=> \E i \in 1..Len(R) : x \in R[i].start..R[i].end
<1>1. R \in Seq(FwRanges) /\ DOMAIN R = 1..Len(R) /\ Len(R) \in Nat
  <2>1. PICK u : u = MCUnions[c.ports]
    OBVIOUS
  <2> QED
    BY <2>1, FwPorts
<1>2. ASSUME NEW x, x \in FwRedirected(w, f, h, Start!hashInput(c))
      PROVE  \E i \in 1..Len(R) : x \in R[i].start..R[i].end
  <2>1. PICK o \in w : /\ o.kind \in {"rule", "jump"} /\ o.key = Start!hashInput(c)
                       /\ x \in o.range.start..o.range.end
    BY <1>2 DEF FwRedirected
  <2>2. FwKnown(o)
    BY DEF FwSound
  <2>3. PICK i \in DOMAIN FwRedirects(c) : o.range = FwRedirects(c)[i]
    BY <2>1, <2>2, FwKnownIs
  <2> QED
    BY <1>1, <2>1, <2>3
<1>3. ASSUME NEW x, NEW i \in 1..Len(R), x \in R[i].start..R[i].end
      PROVE  x \in FwRedirected(w, f, h, Start!hashInput(c))
  <2>1. PICK S : S = Start!setupUDPPortRedirect(c)
    OBVIOUS
  <2>2. FwRedirects(c) # <<>>
    BY <1>1
  <2>3. FwAll(c, S, f)
    BY <2>1, FwSetup DEF FwCommands
  <2>4. PICK o : o = FwLast(c, f, h, R[i])
    OBVIOUS
  <2>5. PICK n \in 1..Len(S) : S[n] = o
    BY <1>1, <2>3, <2>4 DEF FwAll
  <2>6. o \in w
    BY <2>1, <2>2, <2>5 DEF FwDone
  <2>7. o.family = f /\ o.chain = h /\ o.key = Start!hashInput(c) /\ o.range = R[i]
    BY <2>4 DEF FwLast, Start!obj
  <2>8. o.kind \in {"rule", "jump"}
    BY <2>4 DEF FwLast, Start!obj
  <2> QED
    BY <1>3, <2>6, <2>7, <2>8 DEF FwRedirected
<1> QED
  BY <1>2, <1>3

(* Hence the ports reach the listener, and nothing is left behind.         *)
LEMMA FwInvImplies == FwInv => Start!PortsReachListener /\ Start!LeavesNothing
<1>1. SUFFICES ASSUME FwInv, pc = "serve", config.listen = "ports" PROVE Start!PortsReachListener
  BY DEF FwInv, Start!PortsReachListener
<1>2. PICK c : c = config
  OBVIOUS
<1>3. PICK u, R : u = MCUnions[c.ports] /\ R = FwRedirects(c)
  OBVIOUS
<1>4. c \in MCConfigs /\ FwSound(fw)
  BY <1>1, <1>2 DEF FwInv, FwTypes
<1>5. FwRedirects(c) # <<>> => FwDone(c, Len(Start!setupUDPPortRedirect(c)), fw, fns)
  BY <1>1, <1>2, FwIsReady DEF FwReady
<1>6. DOMAIN u = 1..Len(u) /\ Head(u) = u[1]
  <2>1. u \in Seq(FwRanges) /\ u # <<>>
    BY <1>3, <1>4, FwUnion
  <2> QED
    BY <2>1
<1>7. \A x : (\E i \in 1..Len(R) : x \in R[i].start..R[i].end)
               <=> (x # u[1].start /\ \E i \in 1..Len(u) : x \in u[i].start..u[i].end)
  BY <1>3, <1>4, FwPorts
<1>8. ASSUME NEW f \in FwFamilies(c), NEW h \in FwHooks(c)
      PROVE  FwRedirected(fw, f, h, Start!hashInput(c))
               = (UNION {u[i].start .. u[i].end : i \in DOMAIN u}) \ {Head(u).start}
  <2>1. \A x : x \in FwRedirected(fw, f, h, Start!hashInput(c))
                 <=> \E i \in 1..Len(R) : x \in R[i].start..R[i].end
    BY <1>3, <1>4, <1>5, FwHooked
  <2>2. \A x : x \in UNION {u[i].start .. u[i].end : i \in DOMAIN u}
                 <=> \E i \in 1..Len(u) : x \in u[i].start..u[i].end
    BY <1>6
  <2> QED
    BY <1>6, <1>7, <2>1, <2>2
<1>9. \A i \in DOMAIN Start!families(c) : Start!families(c)[i] \in FwFamilies(c)
  BY DEF Start!families, FwFamilies
<1> QED
  BY <1>2, <1>3, <1>8, <1>9 DEF Start!PortsReachListener, FwHooks, FwRedirected

-----------------------------------------------------------------------------
(***************************************************************************)
(* The link monitor.  The loop has an event in its hands exactly while it  *)
(* hands one over; what is held back will be reported by the deadline.     *)
(***************************************************************************)
LinkHand == (loop = "select" => ev = NoEvent) /\ (loop = "emit" => ev # NoEvent)

LinkHeld == count > 0 => timer \in Nat /\ age + timer <= MaxDelay

LinkInv ==
  Link!TypeOK /\ Link!NothingDropped /\ Link!NoChangeMissed /\ LinkHand /\ LinkHeld

(* What is assumed of the constants.                                       *)
LEMMA LinkConstants ==
  /\ Debounce \in Nat \ {0} /\ MaxDelay \in Nat /\ MaxDelay >= Debounce
  /\ PollInterval \in Nat \ {0} /\ RawSize \in Nat \ {0} /\ MaxChanges \in Nat
  /\ NoTimer \notin Nat /\ NoEvent \notin Link!Event /\ NoSnapshot \notin Link!Network
  /\ Value # {}
BY NodeAssumption DEF Link!LinkMonitorAssumption

(* How many notifications an event stands for.                             *)
LEMMA LinkCounts ==
  /\ Link!CountOf(NoEvent) = 0
  /\ \A e \in Link!Event : e # NoEvent /\ e.count \in Nat /\ Link!CountOf(e) = e.count
                           /\ e.changes \in SUBSET Link!Kind
BY LinkConstants DEF Link!CountOf, Link!Event

(* The network, the kernel and the clock.                                  *)
LEMMA LinkWorld ==
  ASSUME LinkInv,
         \/ \E k \in Link!Kind, v \in Value : Link!NetworkChanges(k, v)
         \/ Link!Overflow \/ Link!Tick \/ Link!Cancel
  PROVE  LinkInv'
<1>1. CASE \E k \in Link!Kind, v \in Value : Link!NetworkChanges(k, v)
  <2>1. PICK k \in Link!Kind, v \in Value : Link!NetworkChanges(k, v)
    BY <1>1
  <2>2. /\ changes < MaxChanges /\ changes' = changes + 1 /\ net' = [net EXCEPT ![k] = v]
        /\ queue' = IF src = "native" THEN Append(queue, {k}) ELSE queue
        /\ blind' = (blind \/ ~Link!Watched \/ (src = "polling" /\ net' = prev))
        /\ UNCHANGED <<src, prev, pollIn, raw, loop, pending, count, age, timer, ev, channel,
                       view, noted, delivered, done>>
    BY <2>1 DEF Link!NetworkChanges, Link!loopVars
  <2>3. Link!TypeOK'
    <3>1. changes' \in 0..MaxChanges
      BY <2>2, LinkConstants DEF LinkInv, Link!TypeOK
    <3>2. net' \in Link!Network
      BY <2>2 DEF LinkInv, Link!TypeOK, Link!Network
    <3>3. queue' \in Seq(SUBSET Link!Kind)
      BY <2>2 DEF LinkInv, Link!TypeOK
    <3>4. blind' \in BOOLEAN
      BY <2>2, ZenonT(20) DEF LinkInv, Link!TypeOK, Link!Watched
    <3> QED
      BY <2>2, <3>1, <3>2, <3>3, <3>4 DEF LinkInv, Link!TypeOK
  <2>4. Link!NothingDropped' /\ LinkHand' /\ LinkHeld'
    BY <2>2 DEF LinkInv, Link!NothingDropped, Link!CountOf, LinkHand, LinkHeld
  <2>5. Link!NoChangeMissed'
    <3>1. CASE src = "native"
      <4>1. queue' # <<>>
        BY <2>2, <3>1 DEF LinkInv, Link!TypeOK
      <4> QED
        BY <4>1 DEF Link!NoChangeMissed, Link!OnItsWay
    <3>2. CASE src # "native"
      <4>1. ~blind' => src = "polling" /\ prev # NoSnapshot /\ net' # prev
        BY <2>2, <3>2 DEF Link!Watched
      <4> QED
        BY <2>2, <4>1 DEF Link!NoChangeMissed, Link!OnItsWay
    <3> QED
      BY <3>1, <3>2
  <2> QED
    BY <2>3, <2>4, <2>5 DEF LinkInv
<1>2. CASE Link!Overflow
  <2>1. /\ queue' = <<Link!Kind>>
        /\ UNCHANGED <<net, changes, src, prev, pollIn, raw, loop, pending, count, age, timer,
                       ev, channel, view, noted, delivered, done, blind>>
    BY <1>2 DEF Link!Overflow, Link!loopVars
  <2>2. queue' \in Seq(SUBSET Link!Kind) /\ queue' # <<>>
    BY <2>1
  <2> QED
    BY <2>1, <2>2 DEF LinkInv, Link!TypeOK, Link!NothingDropped, Link!CountOf, LinkHand,
                      LinkHeld, Link!NoChangeMissed, Link!OnItsWay
<1>3. CASE Link!Tick
  <2>1. /\ timer # 0
        /\ timer' = IF timer = NoTimer THEN NoTimer ELSE Link!CountDown(timer)
        /\ age' = IF count > 0 THEN age + 1 ELSE age
        /\ pollIn' = Link!CountDown(pollIn)
        /\ UNCHANGED <<net, changes, queue, src, prev, raw, loop, pending, count, ev, channel,
                       view, noted, delivered, done, blind>>
    BY <1>3 DEF Link!Tick
  <2>2. count \in Nat /\ age \in Nat /\ timer \in (0..Debounce) \cup {NoTimer}
        /\ pollIn \in 0..PollInterval
    BY DEF LinkInv, Link!TypeOK
  <2>3. timer' \in (0..Debounce) \cup {NoTimer} /\ pollIn' \in 0..PollInterval /\ age' \in Nat
    BY <2>1, <2>2, LinkConstants DEF Link!CountDown
  <2>4. LinkHeld'
    <3>1. ASSUME count > 0 PROVE timer' \in Nat /\ age' + timer' <= MaxDelay
      <4>1. timer \in Nat /\ age + timer <= MaxDelay
        BY <3>1 DEF LinkInv, LinkHeld
      <4>2. timer' = timer - 1 /\ age' = age + 1
        BY <2>1, <3>1, <4>1, LinkConstants DEF Link!CountDown
      <4> QED
        BY <2>1, <2>2, <4>1, <4>2, LinkConstants
    <3> QED
      BY <2>1, <3>1 DEF LinkHeld
  <2>5. Link!TypeOK'
    BY <2>1, <2>3 DEF LinkInv, Link!TypeOK
  <2>6. Link!NothingDropped' /\ LinkHand' /\ Link!NoChangeMissed'
    BY <2>1 DEF LinkInv, Link!NothingDropped, Link!CountOf, LinkHand, Link!NoChangeMissed,
                Link!OnItsWay
  <2> QED
    BY <2>4, <2>5, <2>6 DEF LinkInv
<1>4. CASE Link!Cancel
  <2>1. /\ done' = TRUE
        /\ UNCHANGED <<net, changes, queue, src, prev, pollIn, raw, loop, pending, count, age,
                       timer, ev, channel, view, noted, delivered, blind>>
    BY <1>4 DEF Link!Cancel, Link!loopVars, Link!srcVars
  <2> QED
    BY <2>1 DEF LinkInv, Link!TypeOK, Link!NothingDropped, Link!CountOf, LinkHand, LinkHeld,
                Link!NoChangeMissed
<1> QED
  BY <1>1, <1>2, <1>3, <1>4

(* produce, watchNetlink and poll.                                         *)
LEMMA LinkSource ==
  ASSUME LinkInv,
         \/ Link!Start \/ Link!Forward \/ Link!PollStart \/ Link!PollTakes \/ Link!NativeFails
         \/ Link!PollFails \/ Link!ProducerStops \/ Link!SkipMessage
  PROVE  LinkInv'
<1>1. /\ UNCHANGED <<net, changes, loop, pending, count, age, timer, ev, channel, view, noted,
                     delivered, done>>
      /\ Link!ProducerStops => done
  BY DEF Link!Start, Link!Forward, Link!PollStart, Link!PollTakes, Link!NativeFails,
         Link!PollFails, Link!ProducerStops, Link!SkipMessage, Link!loopVars
<1>2. /\ src' \in {"start", "native", "failed", "polling", "ended"}
      /\ prev' \in Link!Network \cup {NoSnapshot} /\ pollIn' \in 0..PollInterval
      /\ queue' \in Seq(SUBSET Link!Kind) /\ blind' \in BOOLEAN
      /\ raw' \in Seq(SUBSET Link!Kind) /\ Len(raw') <= RawSize
  <2>1. /\ net \in Link!Network /\ src \in {"start", "native", "failed", "polling", "ended"}
        /\ prev \in Link!Network \cup {NoSnapshot} /\ pollIn \in 0..PollInterval
        /\ queue \in Seq(SUBSET Link!Kind) /\ blind \in BOOLEAN
        /\ raw \in Seq(SUBSET Link!Kind) /\ Len(raw) <= RawSize
    BY DEF LinkInv, Link!TypeOK
  <2>2. PollInterval \in 0..PollInterval /\ RawSize \in Nat
    BY LinkConstants
  <2>3. CASE Link!Start
    BY <2>1, <2>3 DEF Link!Start
  <2>4. CASE Link!Forward
    <3>1. /\ queue # <<>> /\ Len(raw) < RawSize /\ raw' = Append(raw, Head(queue))
          /\ queue' = Tail(queue) /\ UNCHANGED <<src, prev, pollIn, blind>>
      BY <2>4 DEF Link!Forward, Link!HasRoom
    <3>2. Head(queue) \in SUBSET Link!Kind /\ Tail(queue) \in Seq(SUBSET Link!Kind)
      BY <2>1, <3>1
    <3>3. raw' \in Seq(SUBSET Link!Kind) /\ Len(raw') = Len(raw) + 1 /\ Len(raw) \in Nat
      BY <2>1, <3>1, <3>2
    <3> QED
      BY <2>1, <2>2, <3>1, <3>2, <3>3
  <2>5. CASE Link!PollStart
    BY <2>1, <2>2, <2>5 DEF Link!PollStart
  <2>6. CASE Link!PollTakes
    <3>1. /\ prev' = net /\ pollIn' = PollInterval /\ UNCHANGED <<queue, src, blind>>
          /\ \/ raw' = raw
             \/ Len(raw) < RawSize /\ raw' = Append(raw, Link!diffStates(prev, net))
      BY <2>6 DEF Link!PollTakes, Link!HasRoom
    <3>2. CASE raw' = raw
      BY <2>1, <2>2, <3>1, <3>2
    <3>3. CASE Len(raw) < RawSize /\ raw' = Append(raw, Link!diffStates(prev, net))
      <4>1. Link!diffStates(prev, net) \in SUBSET Link!Kind
        BY DEF Link!diffStates
      <4>2. raw' \in Seq(SUBSET Link!Kind) /\ Len(raw') = Len(raw) + 1 /\ Len(raw) \in Nat
        BY <2>1, <3>3, <4>1
      <4>3. Len(raw') <= RawSize
        BY <2>2, <3>3, <4>2
      <4> QED
        BY <2>1, <2>2, <3>1, <4>2, <4>3
    <3> QED
      BY <3>1, <3>2, <3>3
  <2>7. CASE Link!NativeFails
    <3>1. blind' \in BOOLEAN
      BY <2>7 DEF Link!NativeFails
    <3>2. src' = "failed" /\ queue' = <<>> /\ UNCHANGED <<prev, pollIn, raw>>
      BY <2>7 DEF Link!NativeFails
    <3> QED
      BY <2>1, <3>1, <3>2
  <2>8. CASE Link!PollFails
    BY <2>1, <2>2, <2>8 DEF Link!PollFails
  <2>9. CASE Link!ProducerStops
    BY <2>1, <2>9 DEF Link!ProducerStops
  <2>10. CASE Link!SkipMessage
    <3>1. queue # <<>> /\ queue' = Tail(queue) /\ blind' = TRUE /\ UNCHANGED <<src, prev, pollIn, raw>>
      BY <2>10 DEF Link!SkipMessage
    <3>2. Tail(queue) \in Seq(SUBSET Link!Kind)
      BY <2>1, <3>1
    <3> QED
      BY <2>1, <3>1, <3>2
  <2> QED
    BY <2>3, <2>4, <2>5, <2>6, <2>7, <2>8, <2>9, <2>10
<1>3. Link!TypeOK'
  BY <1>1, <1>2 DEF LinkInv, Link!TypeOK
<1>4. Link!NothingDropped' /\ LinkHand' /\ LinkHeld'
  BY <1>1 DEF LinkInv, Link!NothingDropped, Link!CountOf, LinkHand, LinkHeld
<1>5. Link!NoChangeMissed'
  <2>1. CASE Link!Start \/ Link!PollStart \/ Link!PollFails
    <3>1. /\ UNCHANGED <<queue, raw, blind>>
          /\ src = "polling" => src' = src /\ prev' = prev
      BY <2>1 DEF Link!Start, Link!PollStart, Link!PollFails
    <3> QED
      BY <1>1, <3>1 DEF LinkInv, Link!NoChangeMissed, Link!OnItsWay
  <2>2. CASE Link!Forward
    <3>1. raw' = Append(raw, Head(queue)) /\ raw \in Seq(SUBSET Link!Kind)
      BY <2>2 DEF Link!Forward, LinkInv, Link!TypeOK
    <3>2. raw' # <<>>
      BY <1>2, <3>1
    <3> QED
      BY <3>2 DEF Link!NoChangeMissed, Link!OnItsWay
  <2>3. CASE Link!PollTakes
    <3>1. CASE prev = NoSnapshot \/ prev = net
      <4>1. UNCHANGED <<queue, raw, blind>>
        BY <2>3, <3>1 DEF Link!PollTakes
      <4> QED
        BY <1>1, <3>1, <4>1 DEF LinkInv, Link!NoChangeMissed, Link!OnItsWay
    <3>2. CASE ~(prev = NoSnapshot \/ prev = net)
      <4>1. raw' = Append(raw, Link!diffStates(prev, net)) /\ raw \in Seq(SUBSET Link!Kind)
        BY <2>3, <3>2 DEF Link!PollTakes, LinkInv, Link!TypeOK
      <4>2. raw' # <<>>
        BY <1>2, <4>1
      <4> QED
        BY <4>2 DEF Link!NoChangeMissed, Link!OnItsWay
    <3> QED
      BY <3>1, <3>2
  <2>4. CASE Link!NativeFails
    <3>1. /\ src = "native" /\ UNCHANGED <<raw, prev>>
          /\ ~blind' => ~blind /\ queue = <<>>
      BY <2>4 DEF Link!NativeFails
    <3> QED
      BY <1>1, <3>1 DEF LinkInv, Link!NoChangeMissed, Link!OnItsWay
  <2>5. CASE Link!ProducerStops
    BY <1>1, <2>5 DEF Link!NoChangeMissed
  <2>6. CASE Link!SkipMessage
    BY <2>6 DEF Link!SkipMessage, Link!NoChangeMissed
  <2> QED
    BY <2>1, <2>2, <2>3, <2>4, <2>5, <2>6
<1> QED
  BY <1>3, <1>4, <1>5 DEF LinkInv

(* loop and emit, and the consumer.                                        *)
LEMMA LinkLoop ==
  ASSUME LinkInv,
         \/ Link!Note \/ Link!Fire \/ Link!EmitPut \/ Link!EmitMerge \/ Link!LoopStops
         \/ Link!Consume
  PROVE  LinkInv'
<1>1. /\ count \in Nat /\ age \in Nat /\ noted \in Nat /\ delivered \in Nat
      /\ pending \in SUBSET Link!Kind /\ raw \in Seq(SUBSET Link!Kind) /\ Len(raw) <= RawSize
      /\ ev \in Link!Event \cup {NoEvent} /\ channel \in Link!Event \cup {NoEvent}
      /\ timer \in (0..Debounce) \cup {NoTimer} /\ net \in Link!Network
      /\ noted = delivered + Link!CountOf(channel) + Link!CountOf(ev) + count
  BY DEF LinkInv, Link!TypeOK, Link!NothingDropped
<1>2. Link!CountOf(channel) \in Nat /\ Link!CountOf(ev) \in Nat
  BY <1>1, LinkCounts
<1>3. CASE Link!Note
  <2>1. PICK began : began = IF count = 0 THEN 0 ELSE age
    OBVIOUS
  <2>2. /\ raw # <<>> /\ raw' = Tail(raw) /\ pending' = pending \cup Head(raw)
        /\ count' = count + 1 /\ noted' = noted + 1 /\ age' = began
        /\ timer' = Link!delay(began)
        /\ UNCHANGED <<net, changes, queue, src, prev, pollIn, loop, ev, channel, view,
                       delivered, done, blind>>
    BY <1>3, <2>1 DEF Link!Note, Link!srcVars
  <2>3. began \in Nat /\ began <= MaxDelay
    BY <1>1, <2>1, LinkConstants DEF LinkInv, LinkHeld
  <2>4. timer' \in 0..Debounce /\ age' + timer' <= MaxDelay
    BY <2>2, <2>3, LinkConstants DEF Link!delay
  <2>5. Head(raw) \in SUBSET Link!Kind /\ Tail(raw) \in Seq(SUBSET Link!Kind)
        /\ Len(Tail(raw)) = Len(raw) - 1 /\ Len(raw) \in Nat
    BY <1>1, <2>2
  <2>6. Link!TypeOK'
    <3>1. raw' \in Seq(SUBSET Link!Kind) /\ Len(raw') <= RawSize
      BY <1>1, <2>2, <2>5, LinkConstants
    <3>2. count' \in Nat /\ noted' \in Nat /\ age' \in Nat /\ pending' \in SUBSET Link!Kind
      BY <1>1, <2>2, <2>3, <2>5
    <3> QED
      BY <2>2, <2>4, <3>1, <3>2 DEF LinkInv, Link!TypeOK
  <2>7. Link!NothingDropped'
    <3>1. PICK a \in Nat, d \in Nat : a = Link!CountOf(channel) /\ d = Link!CountOf(ev)
      BY <1>2
    <3>2. noted = delivered + a + d + count
      BY <1>1, <3>1
    <3>3. noted' = delivered + a + d + count'
      BY <1>1, <2>2, <3>2
    <3> QED
      BY <2>2, <3>1, <3>3 DEF Link!NothingDropped, Link!CountOf
  <2>8. Link!NoChangeMissed'
    <3>1. count' > 0
      BY <1>1, <2>2
    <3> QED
      BY <3>1 DEF Link!NoChangeMissed, Link!OnItsWay
  <2>9. LinkHand' /\ LinkHeld'
    BY <2>2, <2>4 DEF LinkInv, LinkHand, LinkHeld
  <2> QED
    BY <2>6, <2>7, <2>8, <2>9 DEF LinkInv
<1>4. CASE Link!Fire
  <2>1. /\ loop = "select" /\ timer' = NoTimer /\ ev' = [changes |-> pending, count |-> count]
        /\ pending' = {} /\ count' = 0 /\ age' = 0 /\ loop' = "emit"
        /\ UNCHANGED <<net, changes, queue, src, prev, pollIn, raw, channel, view, noted,
                       delivered, done, blind>>
    BY <1>4 DEF Link!Fire, Link!srcVars
  <2>2. ev = NoEvent
    BY <2>1 DEF LinkInv, LinkHand
  <2>3. ev' \in Link!Event /\ ev'.count = count
    BY <1>1, <2>1 DEF Link!Event
  <2>4. ev' # NoEvent /\ Link!CountOf(ev') = count
    BY <2>3, LinkCounts
  <2>5. Link!TypeOK'
    BY <2>1, <2>3 DEF LinkInv, Link!TypeOK
  <2>6. Link!NothingDropped'
    <3>1. noted' = delivered' + Link!CountOf(channel') + Link!CountOf(ev') + count'
      BY <1>1, <1>2, <2>1, <2>2, <2>4, LinkCounts
    <3> QED
      BY <3>1 DEF Link!NothingDropped, Link!CountOf
  <2>7. Link!NoChangeMissed' /\ LinkHand' /\ LinkHeld'
    BY <2>1, <2>4 DEF Link!NoChangeMissed, Link!OnItsWay, LinkHand, LinkHeld
  <2> QED
    BY <2>5, <2>6, <2>7 DEF LinkInv
<1>5. CASE Link!EmitPut
  <2>1. /\ loop = "emit" /\ channel = NoEvent /\ channel' = ev /\ ev' = NoEvent
        /\ loop' = "select"
        /\ UNCHANGED <<net, changes, queue, src, prev, pollIn, raw, pending, count, age, timer,
                       view, noted, delivered, done, blind>>
    BY <1>5 DEF Link!EmitPut, Link!srcVars
  <2>2. ev # NoEvent
    BY <2>1 DEF LinkInv, LinkHand
  <2>3. Link!TypeOK'
    BY <2>1 DEF LinkInv, Link!TypeOK
  <2>4. Link!NothingDropped'
    <3>1. noted' = delivered' + Link!CountOf(channel') + Link!CountOf(ev') + count'
      BY <1>1, <1>2, <2>1, LinkCounts
    <3> QED
      BY <3>1 DEF Link!NothingDropped, Link!CountOf
  <2>5. Link!NoChangeMissed' /\ LinkHand' /\ LinkHeld'
    BY <2>1, <2>2 DEF LinkInv, Link!NoChangeMissed, Link!OnItsWay, LinkHand, LinkHeld
  <2> QED
    BY <2>3, <2>4, <2>5 DEF LinkInv
<1>6. CASE Link!EmitMerge
  <2>1. /\ loop = "emit" /\ channel # NoEvent /\ ev' = Link!Merged(ev, channel)
        /\ channel' = NoEvent
        /\ UNCHANGED <<net, changes, queue, src, prev, pollIn, raw, loop, pending, count, age,
                       timer, view, noted, delivered, done, blind>>
    BY <1>6 DEF Link!EmitMerge, Link!srcVars
  <2>2. ev \in Link!Event /\ channel \in Link!Event
    BY <1>1, <2>1 DEF LinkInv, LinkHand
  <2>3. ev' \in Link!Event /\ ev'.count = ev.count + channel.count
    BY <2>1, <2>2 DEF Link!Merged, Link!Event
  <2>4. ev' # NoEvent /\ Link!CountOf(ev') = Link!CountOf(ev) + Link!CountOf(channel)
    BY <2>2, <2>3, LinkCounts
  <2>5. Link!TypeOK'
    BY <2>1, <2>3 DEF LinkInv, Link!TypeOK
  <2>6. Link!NothingDropped'
    <3>1. noted' = delivered' + Link!CountOf(channel') + Link!CountOf(ev') + count'
      BY <1>1, <1>2, <2>1, <2>4, LinkCounts
    <3> QED
      BY <3>1 DEF Link!NothingDropped, Link!CountOf
  <2>7. Link!NoChangeMissed' /\ LinkHand' /\ LinkHeld'
    BY <2>1, <2>4 DEF LinkInv, Link!NoChangeMissed, Link!OnItsWay, LinkHand, LinkHeld
  <2> QED
    BY <2>5, <2>6, <2>7 DEF LinkInv
<1>7. CASE Link!LoopStops
  <2>1. /\ done /\ loop' = "closed"
        /\ UNCHANGED <<net, changes, queue, src, prev, pollIn, raw, pending, count, age, timer,
                       ev, channel, view, noted, delivered, done, blind>>
    BY <1>7 DEF Link!LoopStops, Link!srcVars
  <2> QED
    BY <2>1 DEF LinkInv, Link!TypeOK, Link!NothingDropped, Link!CountOf, LinkHand, LinkHeld,
                Link!NoChangeMissed
<1>8. CASE Link!Consume
  <2>1. /\ channel # NoEvent /\ channel' = NoEvent /\ view' = net
        /\ delivered' = delivered + channel.count /\ blind' = FALSE
        /\ UNCHANGED <<net, changes, queue, src, prev, pollIn, raw, loop, pending, count, age,
                       timer, ev, noted, done>>
    BY <1>8 DEF Link!Consume, Link!srcVars, Link!loopVars
  <2>2. channel \in Link!Event /\ channel.count \in Nat
        /\ Link!CountOf(channel) = channel.count
    BY <1>1, <2>1, LinkCounts
  <2>3. Link!TypeOK'
    <3>1. delivered' \in Nat
      BY <1>1, <2>1, <2>2
    <3> QED
      BY <1>1, <2>1, <3>1 DEF LinkInv, Link!TypeOK
  <2>4. Link!NothingDropped'
    <3>1. noted' = delivered' + Link!CountOf(channel') + Link!CountOf(ev') + count'
      BY <1>1, <1>2, <2>1, <2>2, LinkCounts
    <3> QED
      BY <3>1 DEF Link!NothingDropped, Link!CountOf
  <2>5. Link!NoChangeMissed' /\ LinkHand' /\ LinkHeld'
    BY <2>1 DEF LinkInv, Link!NoChangeMissed, LinkHand, LinkHeld
  <2> QED
    BY <2>3, <2>4, <2>5 DEF LinkInv
<1> QED
  BY <1>3, <1>4, <1>5, <1>6, <1>7, <1>8

(* Every step keeps it.                                                    *)
LEMMA LinkKept == ASSUME LinkInv, [Link!Next]_(Link!vars) PROVE LinkInv'
<1>1. CASE UNCHANGED Link!vars
  BY <1>1 DEF Link!vars, Link!srcVars, Link!loopVars, LinkInv, Link!TypeOK, Link!NothingDropped,
              Link!CountOf, LinkHand, LinkHeld, Link!NoChangeMissed, Link!OnItsWay
<1>2. CASE Link!Next
  BY <1>2, LinkWorld, LinkSource, LinkLoop DEF Link!Next, Link!Produce, Link!Emit
<1> QED
  BY <1>1, <1>2

(* It starts with a consumer that has enumerated.                          *)
LEMMA LinkStarts == ASSUME Link!Init PROVE LinkInv
<1>1. (CHOOSE v \in Value : TRUE) \in Value
  BY LinkConstants
<1>2. net \in Link!Network /\ view = net
  BY <1>1 DEF Link!Init, Link!Network
<1>3. Link!TypeOK
  <2>1. /\ 0 \in 0..MaxChanges /\ 0 \in 0..PollInterval /\ 0 <= RawSize
        /\ <<>> \in Seq(SUBSET Link!Kind) /\ Len(<<>>) = 0
    BY LinkConstants
  <2> QED
    BY <1>2, <2>1 DEF Link!Init, Link!TypeOK
<1>4. Link!NothingDropped
  BY LinkCounts DEF Link!Init, Link!NothingDropped
<1> QED
  BY <1>2, <1>3, <1>4 DEF Link!Init, LinkInv, LinkHand, LinkHeld, Link!NoChangeMissed

(* Hence what the monitor promises.                                        *)
LEMMA LinkInvImplies ==
  LinkInv => /\ Link!NoChangeMissed /\ Link!HeldAtMostMaxDelay /\ Link!NothingDropped
             /\ Link!TypeOK
<1>1. LinkInv /\ count > 0 => age <= MaxDelay
  BY LinkConstants DEF LinkInv, LinkHeld, Link!TypeOK
<1> QED
  BY <1>1 DEF LinkInv, Link!HeldAtMostMaxDelay

-----------------------------------------------------------------------------
(***************************************************************************)
(* A proxied stream: where its handler is says which of its ends are open, *)
(* what was logged, and what the client has been sent, if the connection   *)
(* was there to send it on.                                                *)
(***************************************************************************)
StreamPlaces == {"none", "init", "hook", "connect", "estab", "closed"}

StreamEnds == {"none", "open", "closed"}

StreamSaid == {<<>>, <<"ok">>, <<"fail">>, <<"ok", "data">>}

StreamTypes ==
  /\ connUp \in BOOLEAN /\ handler \in [Stream -> StreamPlaces]
  /\ hooked \in [Stream -> BOOLEAN] /\ traced \in [Stream -> BOOLEAN]
  /\ stream \in [Stream -> StreamEnds] /\ tConn \in [Stream -> StreamEnds]
  /\ said \in [Stream -> StreamSaid]
  /\ requests \in [Stream -> Nat] /\ errors \in [Stream -> Nat]
  /\ cp \in [Stream -> [Proxied!Way -> {"none", "read", "write", "done"}]]

StreamOpen(h, st, tc, tr) ==
  /\ h \in {"init", "hook", "connect", "estab"} => st = "open"
  /\ h \in {"none", "init", "hook", "connect"} => tc = "none"
  /\ h = "closed" => st = "closed" /\ tc # "open" /\ ~tr

StreamLogged(h, rq, er) ==
  /\ h \in {"none", "init", "hook"} => rq = 0 /\ er = 0
  /\ h \in {"connect", "estab"} => rq = 1 /\ er = 0
  /\ h = "closed" => er = rq

StreamTold(h, hk, sa, on) ==
  /\ h \in {"none", "init"} => sa = <<>> /\ ~hk
  /\ h = "hook" => hk
  /\ h = "connect" /\ ~hk => sa = <<>>
  /\ h \in {"hook", "connect"} /\ hk => sa = <<"ok">> \/ (sa = <<>> /\ ~on)
  /\ h = "estab" => sa \in {<<"ok">>, <<"ok", "data">>} \/ (sa = <<>> /\ ~on)

StreamCopied(h, c) ==
  h \in {"none", "init", "hook", "connect"} => \A w \in Proxied!Way : c[w] = "none"

StreamAt(x) ==
  /\ StreamOpen(handler[x], stream[x], tConn[x], traced[x])
  /\ StreamLogged(handler[x], requests[x], errors[x])
  /\ StreamTold(handler[x], hooked[x], said[x], connUp)
  /\ StreamCopied(handler[x], cp[x])

StreamInv == StreamTypes /\ \A x \in Stream : StreamAt(x)

(* What no step on one stream changes of the others.                       *)
StreamSame(y) ==
  /\ handler'[y] = handler[y] /\ hooked'[y] = hooked[y] /\ stream'[y] = stream[y]
  /\ tConn'[y] = tConn[y] /\ said'[y] = said[y] /\ cp'[y] = cp[y] /\ traced'[y] = traced[y]
  /\ requests'[y] = requests[y] /\ errors'[y] = errors[y]

(* Nor is it disturbed by a connection that is gone.                       *)
LEMMA StreamKeeps ==
  ASSUME StreamInv, NEW y \in Stream, StreamSame(y), connUp' => connUp
  PROVE  StreamAt(y)'
<1>1. StreamAt(y)
  BY DEF StreamInv
<1>2. StreamTold(handler[y], hooked[y], said[y], connUp')
  BY <1>1 DEF StreamAt, StreamTold
<1> QED
  BY <1>1, <1>2 DEF StreamAt, StreamSame

(* A step on one stream.                                                   *)
LEMMA StreamOne ==
  ASSUME StreamInv, NEW x \in Stream, StreamTypes', connUp' => connUp, StreamAt(x)',
         \A y \in Stream : y # x => StreamSame(y)
  PROVE  StreamInv'
BY StreamKeeps DEF StreamInv

(* Each place as it stands.                                                *)
LEMMA StreamIs ==
  ASSUME StreamInv, NEW x \in Stream
  PROVE  /\ StreamOpen(handler[x], stream[x], tConn[x], traced[x])
         /\ StreamLogged(handler[x], requests[x], errors[x])
         /\ StreamTold(handler[x], hooked[x], said[x], connUp)
         /\ StreamCopied(handler[x], cp[x])
         /\ handler[x] \in StreamPlaces /\ said[x] \in StreamSaid /\ hooked[x] \in BOOLEAN
         /\ requests[x] \in Nat /\ errors[x] \in Nat /\ connUp \in BOOLEAN
BY DEF StreamInv, StreamAt, StreamTypes

(* What a response adds.                                                   *)
LEMMA StreamSays ==
  ASSUME NEW x \in Stream, NEW what \in {"ok", "fail", "data"}
  PROVE  /\ connUp /\ stream[x] = "open" /\ said[x] = <<>> => Proxied!Say(x, what) = <<what>>
         /\ ~connUp \/ stream[x] # "open" => Proxied!Say(x, what) = said[x]
<1>1. Append(<<>>, what) = <<what>>
  BY SMT
<1>2. ASSUME connUp, stream[x] = "open", said[x] = <<>>
      PROVE  Proxied!Say(x, what) = Append(<<>>, what)
  BY <1>2, Zenon DEF Proxied!Say
<1>3. ASSUME ~connUp \/ stream[x] # "open"
      PROVE  Proxied!Say(x, what) = said[x]
  BY <1>3, Zenon DEF Proxied!Say
<1> QED
  BY <1>1, <1>2, <1>3

(* A second value after a first.                                           *)
LEMMA TwoSays ==
  ASSUME NEW S, NEW x \in S, NEW y \in S
  PROVE  Append(<<x>>, y) = <<x, y>>
<1>1. ASSUME NEW u \in Seq(S), Len(u) = 1
      PROVE  /\ Append(u, y) \in Seq(S) /\ Len(Append(u, y)) = 2
             /\ Append(u, y)[1] = u[1] /\ Append(u, y)[2] = y
  <2>1. ASSUME NEW j \in 1..Len(u)
        PROVE  Append(u, y)[j] = u[j]
    BY <2>1
  <2>2. 1 \in 1..Len(u)
    BY <1>1
  <2>3. Append(u, y)[1] = u[1]
    BY <2>1, <2>2, Zenon
  <2>4. Append(u, y) \in Seq(S)
    OBVIOUS
  <2>5. Len(Append(u, y)) = Len(u) + 1 /\ Append(u, y)[Len(u) + 1] = y
    OBVIOUS
  <2>6. Len(u) + 1 = 2
    BY <1>1
  <2> QED
    BY <2>3, <2>4, <2>5, <2>6, Zenon
<1>2. ASSUME NEW w \in Seq(S), Len(w) = 2, w[1] = x, w[2] = y
      PROVE  w = <<x, y>>
  BY <1>2
<1>3. <<x>> \in Seq(S) /\ Len(<<x>>) = 1 /\ <<x>>[1] = x
  OBVIOUS
<1> QED
  BY <1>1, <1>2, <1>3, Zenon

(* The peers and the operator.                                             *)
LEMMA StreamPeers ==
  ASSUME StreamInv,
         \/ Proxied!ConnectionDies \/ Proxied!Kick
         \/ \E x \in Stream : Proxied!ClientCloses(x) \/ Proxied!RemoteCloses(x)
         \/ UNCHANGED Proxied!vars
  PROVE  StreamInv'
<1>1. /\ UNCHANGED <<handler, hooked, stream, tConn, said, cp, traced, requests, errors>>
      /\ connUp' = connUp \/ connUp' = FALSE
  BY DEF Proxied!ConnectionDies, Proxied!Kick, Proxied!ClientCloses, Proxied!RemoteCloses,
         Proxied!vars
<1>2. StreamTypes'
  BY <1>1 DEF StreamInv, StreamTypes
<1>3. \A y \in Stream : StreamSame(y)
  BY <1>1 DEF StreamSame
<1>4. connUp' => connUp
  BY <1>1
<1> QED
  BY <1>2, <1>3, <1>4, StreamKeeps DEF StreamInv

(* A stream opens, or its request does not come.                           *)
LEMMA StreamOpens ==
  ASSUME StreamInv, NEW x \in Stream, Proxied!Open(x) \/ Proxied!RequestFails(x)
  PROVE  StreamInv'
<1>1. CASE Proxied!Open(x)
  <2>1. /\ handler[x] = "none" /\ stream' = [stream EXCEPT ![x] = "open"]
        /\ traced' = [traced EXCEPT ![x] = TRUE] /\ handler' = [handler EXCEPT ![x] = "init"]
        /\ UNCHANGED <<connUp, hooked, tConn, said, cp, requests, errors>>
    BY <1>1 DEF Proxied!Open, Proxied!Goto
  <2>2. StreamTypes'
    BY <2>1 DEF StreamInv, StreamTypes, StreamPlaces, StreamEnds
  <2>3. \A y \in Stream : y # x => StreamSame(y)
    BY <2>1 DEF StreamSame, StreamInv, StreamTypes
  <2>4. handler'[x] = "init" /\ stream'[x] = "open"
    BY <2>1 DEF StreamInv, StreamTypes
  <2>5. StreamAt(x)'
    BY <2>1, <2>4, StreamIs DEF StreamAt, StreamOpen, StreamLogged, StreamTold, StreamCopied
  <2> QED
    BY <2>1, <2>2, <2>3, <2>5, StreamOne
<1>2. CASE Proxied!RequestFails(x)
  <2>1. /\ handler[x] \in {"init", "hook"} /\ stream' = [stream EXCEPT ![x] = "closed"]
        /\ traced' = [traced EXCEPT ![x] = FALSE] /\ handler' = [handler EXCEPT ![x] = "closed"]
        /\ UNCHANGED <<connUp, hooked, tConn, said, cp, requests, errors>>
    BY <1>2 DEF Proxied!RequestFails, Proxied!Goto, Proxied!Finish
  <2>2. StreamTypes'
    BY <2>1 DEF StreamInv, StreamTypes, StreamPlaces, StreamEnds
  <2>3. \A y \in Stream : y # x => StreamSame(y)
    BY <2>1 DEF StreamSame, StreamInv, StreamTypes
  <2>4. handler'[x] = "closed" /\ stream'[x] = "closed" /\ ~traced'[x]
    BY <2>1 DEF StreamInv, StreamTypes
  <2>5. StreamAt(x)'
    BY <2>1, <2>4, StreamIs DEF StreamAt, StreamOpen, StreamLogged, StreamTold, StreamCopied
  <2> QED
    BY <2>1, <2>2, <2>3, <2>5, StreamOne
<1> QED
  BY <1>1, <1>2

(* The hook takes it, or it is connected; it is established, or the dial   *)
(* fails.                                                                  *)
LEMMA StreamConnects ==
  ASSUME StreamInv, NEW x \in Stream,
         \/ Proxied!HookTakes(x) \/ Proxied!Connecting(x) \/ Proxied!DialFails(x)
         \/ Proxied!Established(x)
  PROVE  StreamInv'
<1>1. CASE Proxied!HookTakes(x)
  <2>1. /\ handler[x] = "init" /\ hooked' = [hooked EXCEPT ![x] = TRUE]
        /\ said' = [said EXCEPT ![x] = Proxied!Say(x, "ok")]
        /\ handler' = [handler EXCEPT ![x] = "hook"]
        /\ UNCHANGED <<connUp, stream, tConn, cp, traced, requests, errors>>
    BY <1>1 DEF Proxied!HookTakes, Proxied!Goto
  <2>2. said[x] = <<>> /\ stream[x] = "open"
    BY <2>1, StreamIs DEF StreamTold, StreamOpen
  <2>3. Proxied!Say(x, "ok") = <<"ok">> \/ (Proxied!Say(x, "ok") = <<>> /\ ~connUp)
    BY <2>2, StreamSays
  <2>4. StreamTypes'
    <3>1. Proxied!Say(x, "ok") \in StreamSaid
      BY <2>3 DEF StreamSaid
    <3> QED
      BY <2>1, <3>1 DEF StreamInv, StreamTypes, StreamPlaces
  <2>5. \A y \in Stream : y # x => StreamSame(y)
    BY <2>1 DEF StreamSame, StreamInv, StreamTypes
  <2>6. handler'[x] = "hook" /\ hooked'[x] = TRUE /\ said'[x] = Proxied!Say(x, "ok")
    BY <2>1 DEF StreamInv, StreamTypes
  <2>7. StreamTold(handler'[x], hooked'[x], said'[x], connUp')
    BY <2>1, <2>3, <2>6 DEF StreamTold
  <2>8. StreamAt(x)'
    BY <2>1, <2>6, <2>7, StreamIs DEF StreamAt, StreamOpen, StreamLogged, StreamCopied
  <2> QED
    BY <2>1, <2>4, <2>5, <2>8, StreamOne
<1>2. CASE Proxied!Connecting(x)
  <2>1. /\ handler[x] \in {"init", "hook"} /\ requests' = [requests EXCEPT ![x] = requests[x] + 1]
        /\ handler' = [handler EXCEPT ![x] = "connect"]
        /\ UNCHANGED <<connUp, hooked, stream, tConn, said, cp, traced, errors>>
    BY <1>2 DEF Proxied!Connecting, Proxied!Goto
  <2>2. StreamTypes'
    <3>1. requests[x] + 1 \in Nat
      BY StreamIs
    <3> QED
      BY <2>1, <3>1 DEF StreamInv, StreamTypes, StreamPlaces
  <2>3. \A y \in Stream : y # x => StreamSame(y)
    BY <2>1 DEF StreamSame, StreamInv, StreamTypes
  <2>4. handler'[x] = "connect" /\ requests'[x] = 1
    BY <2>1, StreamIs DEF StreamInv, StreamTypes, StreamLogged
  <2>5. StreamAt(x)'
    BY <2>1, <2>4, StreamIs DEF StreamAt, StreamOpen, StreamLogged, StreamTold, StreamCopied
  <2> QED
    BY <2>1, <2>2, <2>3, <2>5, StreamOne
<1>3. CASE Proxied!DialFails(x)
  <2>1. /\ handler[x] = "connect"
        /\ said' = [said EXCEPT ![x] = Proxied!Respond(x, "fail")]
        /\ stream' = [stream EXCEPT ![x] = "closed"]
        /\ errors' = [errors EXCEPT ![x] = errors[x] + 1]
        /\ traced' = [traced EXCEPT ![x] = FALSE] /\ handler' = [handler EXCEPT ![x] = "closed"]
        /\ UNCHANGED <<connUp, hooked, tConn, cp, requests>>
    BY <1>3 DEF Proxied!DialFails, Proxied!Goto, Proxied!Finish
  <2>2. Proxied!Respond(x, "fail") \in StreamSaid
    <3>1. CASE hooked[x]
      BY <3>1, StreamIs DEF Proxied!Respond
    <3>2. CASE ~hooked[x]
      <4>1. said[x] = <<>> /\ stream[x] = "open"
        BY <2>1, <3>2, StreamIs DEF StreamTold, StreamOpen
      <4> QED
        BY <3>2, <4>1, StreamSays DEF Proxied!Respond, StreamSaid
    <3> QED
      BY <3>1, <3>2
  <2>3. StreamTypes'
    <3>1. errors[x] + 1 \in Nat
      BY StreamIs
    <3> QED
      BY <2>1, <2>2, <3>1 DEF StreamInv, StreamTypes, StreamPlaces, StreamEnds
  <2>4. \A y \in Stream : y # x => StreamSame(y)
    BY <2>1 DEF StreamSame, StreamInv, StreamTypes
  <2>5. /\ handler'[x] = "closed" /\ stream'[x] = "closed" /\ ~traced'[x]
        /\ errors'[x] = requests[x]
    BY <2>1, StreamIs DEF StreamInv, StreamTypes, StreamLogged
  <2>6. StreamAt(x)'
    BY <2>1, <2>5, StreamIs DEF StreamAt, StreamOpen, StreamLogged, StreamTold, StreamCopied
  <2> QED
    BY <2>1, <2>3, <2>4, <2>6, StreamOne
<1>4. CASE Proxied!Established(x)
  <2>1. /\ handler[x] = "connect" /\ tConn' = [tConn EXCEPT ![x] = "open"]
        /\ said' = [said EXCEPT ![x] = Proxied!Respond(x, "ok")]
        /\ cp' = [cp EXCEPT ![x] = [w \in Proxied!Way |-> "read"]]
        /\ handler' = [handler EXCEPT ![x] = "estab"]
        /\ UNCHANGED <<connUp, hooked, stream, traced, requests, errors>>
    BY <1>4 DEF Proxied!Established, Proxied!Goto
  <2>2. Proxied!Respond(x, "ok") = <<"ok">> \/ (Proxied!Respond(x, "ok") = <<>> /\ ~connUp)
    <3>1. CASE hooked[x]
      BY <2>1, <3>1, StreamIs DEF Proxied!Respond, StreamTold
    <3>2. CASE ~hooked[x]
      <4>1. said[x] = <<>> /\ stream[x] = "open"
        BY <2>1, <3>2, StreamIs DEF StreamTold, StreamOpen
      <4> QED
        BY <3>2, <4>1, StreamSays DEF Proxied!Respond
    <3> QED
      BY <3>1, <3>2
  <2>3. StreamTypes'
    <3>1. Proxied!Respond(x, "ok") \in StreamSaid
      BY <2>2 DEF StreamSaid
    <3> QED
      BY <2>1, <3>1 DEF StreamInv, StreamTypes, StreamPlaces, StreamEnds
  <2>4. \A y \in Stream : y # x => StreamSame(y)
    BY <2>1 DEF StreamSame, StreamInv, StreamTypes
  <2>5. handler'[x] = "estab" /\ said'[x] = Proxied!Respond(x, "ok")
    BY <2>1 DEF StreamInv, StreamTypes
  <2>6. StreamTold(handler'[x], hooked'[x], said'[x], connUp')
    BY <2>1, <2>2, <2>5 DEF StreamTold
  <2>7. StreamAt(x)'
    BY <2>1, <2>5, <2>6, StreamIs DEF StreamAt, StreamOpen, StreamLogged, StreamCopied
  <2> QED
    BY <2>1, <2>3, <2>4, <2>7, StreamOne
<1> QED
  BY <1>1, <1>2, <1>3, <1>4

(* The copiers, and the end of the first.                                  *)
LEMMA StreamCopies ==
  ASSUME StreamInv, NEW x \in Stream,
         Proxied!CopyEnds(x) \/ \E w \in Proxied!Way : Proxied!Copier(x, w)
  PROVE  StreamInv'
<1>1. CASE Proxied!CopyEnds(x)
  <2>1. /\ handler[x] = "estab" /\ errors' = [errors EXCEPT ![x] = errors[x] + 1]
        /\ tConn' = [tConn EXCEPT ![x] = "closed"]
        /\ stream' = [stream EXCEPT ![x] = "closed"]
        /\ connUp' = (connUp /\ Head(errChan[x]) # "disconnect")
        /\ traced' = [traced EXCEPT ![x] = FALSE] /\ handler' = [handler EXCEPT ![x] = "closed"]
        /\ UNCHANGED <<hooked, said, cp, requests>>
    BY <1>1 DEF Proxied!CopyEnds, Proxied!Goto, Proxied!Finish, Proxied!Cleanup
  <2>2. (connUp' => connUp) /\ connUp' \in BOOLEAN
    BY <2>1, StreamIs
  <2>3. StreamTypes'
    <3>1. errors[x] + 1 \in Nat
      BY StreamIs
    <3> QED
      BY <2>1, <2>2, <3>1 DEF StreamInv, StreamTypes, StreamPlaces, StreamEnds
  <2>4. \A y \in Stream : y # x => StreamSame(y)
    BY <2>1 DEF StreamSame, StreamInv, StreamTypes
  <2>5. /\ handler'[x] = "closed" /\ stream'[x] = "closed" /\ tConn'[x] = "closed" /\ ~traced'[x]
        /\ errors'[x] = requests[x]
    BY <2>1, StreamIs DEF StreamInv, StreamTypes, StreamLogged
  <2>6. StreamAt(x)'
    BY <2>1, <2>5, StreamIs DEF StreamAt, StreamOpen, StreamLogged, StreamTold, StreamCopied
  <2> QED
    BY <2>2, <2>3, <2>4, <2>6, StreamOne
<1>2. ASSUME NEW w \in Proxied!Way, Proxied!Copier(x, w) PROVE StreamInv'
  <2>1. /\ UNCHANGED <<connUp, handler, hooked, stream, tConn, traced, requests, errors>>
        /\ cp[x][w] \in {"read", "write"}
        /\ \E l \in {"read", "write", "done"} : cp' = [cp EXCEPT ![x][w] = l]
        /\ \/ said' = said
           \/ /\ w = "rx" /\ connUp /\ stream[x] = "open"
              /\ said' = [said EXCEPT ![x] = Proxied!Say(x, "data")]
    BY <1>2 DEF Proxied!Copier, Proxied!CopyRead, Proxied!CopyKicked, Proxied!CopyReadEnds,
                Proxied!CopyWrite, Proxied!CopyWriteFails, Proxied!CopierReturns,
                Proxied!SinkWorks, Proxied!Way
  <2>2. cp \in [Stream -> [Proxied!Way -> {"none", "read", "write", "done"}]]
    BY DEF StreamInv, StreamTypes
  <2>3. cp' \in [Stream -> [Proxied!Way -> {"none", "read", "write", "done"}]]
        /\ \A y \in Stream : y # x => cp'[y] = cp[y]
    BY <2>1, <2>2
  <2>4. handler[x] \in {"estab", "closed"}
    BY <2>1, StreamIs DEF StreamCopied, StreamPlaces
  <2>5. ASSUME said' # said
        PROVE  /\ said' = [said EXCEPT ![x] = Proxied!Say(x, "data")]
               /\ Proxied!Say(x, "data") \in {<<"ok">>, <<"ok", "data">>}
               /\ handler[x] = "estab"
    <3>1. connUp /\ stream[x] = "open" /\ said' = [said EXCEPT ![x] = Proxied!Say(x, "data")]
      BY <2>1, <2>5
    <3>2. handler[x] = "estab"
      BY <2>4, <3>1, StreamIs DEF StreamOpen
    <3>3. said[x] \in {<<"ok">>, <<"ok", "data">>}
      BY <3>1, <3>2, StreamIs DEF StreamTold
    <3>4. Proxied!Say(x, "data") \in {<<"ok">>, <<"ok", "data">>}
      <4>1. CASE said[x] = <<"ok">>
        <5>1. Append(<<"ok">>, "data") = <<"ok", "data">>
          <6>1. "ok" \in {"ok", "data"} /\ "data" \in {"ok", "data"}
            OBVIOUS
          <6> QED
            BY <6>1, TwoSays, Zenon
        <5>2. Proxied!Say(x, "data") \in {said[x], Append(said[x], "data")}
          BY Zenon DEF Proxied!Say
        <5> QED
          BY <4>1, <5>1, <5>2
      <4>2. CASE said[x] = <<"ok", "data">>
        <5>1. Len(<<"ok", "data">>) = 2 /\ <<"ok", "data">>[2] = "data" /\ <<"ok", "data">> # <<>>
          OBVIOUS
        <5>2. said[x] # <<>> /\ said[x][Len(said[x])] = "data"
          BY <4>2, <5>1, Zenon
        <5>3. Proxied!Say(x, "data") = said[x]
          BY <5>2, Zenon DEF Proxied!Say
        <5> QED
          BY <4>2, <5>3
      <4> QED
        BY <3>3, <4>1, <4>2
    <3> QED
      BY <3>1, <3>2, <3>4
  <2>6. said' \in [Stream -> StreamSaid] /\ \A y \in Stream : y # x => said'[y] = said[y]
    <3>1. CASE said' = said
      BY <3>1 DEF StreamInv, StreamTypes
    <3>2. CASE said' # said
      <4>1. Proxied!Say(x, "data") \in StreamSaid
        BY <2>5, <3>2 DEF StreamSaid
      <4> QED
        BY <2>5, <3>2, <4>1 DEF StreamInv, StreamTypes
    <3> QED
      BY <3>1, <3>2
  <2>7. StreamTypes'
    BY <2>1, <2>3, <2>6 DEF StreamInv, StreamTypes
  <2>8. \A y \in Stream : y # x => StreamSame(y)
    BY <2>1, <2>3, <2>6 DEF StreamSame
  <2>9. StreamTold(handler'[x], hooked'[x], said'[x], connUp')
    <3>1. CASE said' = said
      BY <2>1, <3>1, StreamIs
    <3>2. CASE said' # said
      <4>1. said'[x] \in {<<"ok">>, <<"ok", "data">>}
        BY <2>5, <3>2 DEF StreamInv, StreamTypes
      <4> QED
        BY <2>1, <2>5, <3>2, <4>1 DEF StreamTold
    <3> QED
      BY <3>1, <3>2
  <2>10. StreamAt(x)'
    BY <2>1, <2>4, <2>9, StreamIs DEF StreamAt, StreamCopied
  <2> QED
    BY <2>1, <2>7, <2>8, <2>10, StreamOne
<1> QED
  BY <1>1, <1>2

(* Every step keeps it.                                                    *)
LEMMA StreamKept == ASSUME StreamInv, [Proxied!Next]_(Proxied!vars) PROVE StreamInv'
<1>1. CASE UNCHANGED Proxied!vars \/ Proxied!ConnectionDies \/ Proxied!Kick
  BY <1>1, StreamPeers
<1>2. ASSUME NEW x \in Stream,
             Proxied!Peers(x) \/ Proxied!Handler(x) \/ \E w \in Proxied!Way : Proxied!Copier(x, w)
      PROVE  StreamInv'
  BY <1>2, StreamPeers, StreamOpens, StreamConnects, StreamCopies
     DEF Proxied!Peers, Proxied!Handler
<1> QED
  BY <1>1, <1>2 DEF Proxied!Next

(* Before any stream.                                                      *)
LEMMA StreamStarts == ASSUME Proxied!Init PROVE StreamInv
<1>1. StreamTypes
  BY DEF Proxied!Init, StreamTypes, StreamPlaces, StreamEnds, StreamSaid
<1>2. ASSUME NEW x \in Stream PROVE StreamAt(x)
  BY DEF Proxied!Init, StreamAt, StreamOpen, StreamLogged, StreamTold, StreamCopied
<1> QED
  BY <1>1, <1>2 DEF StreamInv

(* Hence a stream that is over leaves nothing, and was answered once.      *)
LEMMA StreamInvImplies == StreamInv => Proxied!NothingLeft /\ Proxied!OneResponse
<1>1. SUFFICES ASSUME StreamInv, NEW x \in Stream
               PROVE  /\ said[x] \in StreamSaid
                      /\ handler[x] = "closed" => /\ stream[x] = "closed" /\ tConn[x] # "open"
                                                  /\ ~traced[x] /\ errors[x] = requests[x]
  BY DEF Proxied!NothingLeft, Proxied!OneResponse, StreamSaid
<1> QED
  BY <1>1, StreamIs DEF StreamOpen, StreamLogged

-----------------------------------------------------------------------------
(***************************************************************************)
(* The client's start.  What an attempt holds follows from the place it    *)
(* has reached (DialAt), an attempt that is over has let go of it          *)
(* (DialOver), and the connection in use is one that was set up            *)
(* (DialEnds).                                                             *)
(***************************************************************************)
DialConns ==
  [sock : {"none", "open", "closed"},
   map : {"none", "held", "renewed", "cancelled", "removed"}, up : BOOLEAN]

DialStages ==
  {"idle", "config", "socket", "map", "stun", "request", "punch", "verify", "open", "handshake",
   "auth"}

DialTypes ==
  /\ attempts \in 0..MaxAttempts
  /\ current \in 0..attempts
  /\ conn \in [1..MaxAttempts -> DialConns]
  /\ stage \in DialStages

(* A connection with what it would renew, and one that holds nothing.      *)
DialOpen(c) == c.sock = "open" /\ c.map \in {"none", "renewed"}

DialFree(c) == c.sock # "open" /\ c.map \notin {"held", "renewed"}

(* A running attempt, at its place.                                        *)
DialAt(g, c, k) ==
  /\ ~c.up
  /\ g = "config" => DialFree(c) /\ c.map = "none"
  /\ g \in {"socket", "map", "stun", "request", "punch"} => k.server = "realm"
  /\ g = "socket" => DialFree(c) /\ c.map = "none"
  /\ g = "map" => c.sock = "open" /\ c.map = "none"
  /\ g \in {"stun", "request", "punch"} => c.sock = "open" /\ c.map \in {"none", "held"}
  /\ g \in {"verify", "open"} =>
       IF k.server = "realm" THEN DialOpen(c) ELSE DialFree(c) /\ c.map = "none"
  /\ g \in {"open", "handshake", "auth"} => k.limits = "kept"
  /\ g \in {"handshake", "auth"} => DialOpen(c)

DialOver(c, k) == c.up \/ k.limits # "kept" \/ DialFree(c)

DialAttempts ==
  \A x \in 1..MaxAttempts :
    /\ x > attempts => conn[x] = Dialer!None
    /\ x < attempts \/ (x = attempts /\ stage = "idle") => DialOver(conn[x], chosen)
    /\ x = attempts /\ stage # "idle" => DialAt(stage, conn[x], chosen)

DialEnds ==
  /\ stage # "idle" => attempts # 0
  /\ clientPC \in {"start", "exit"} => stage = "idle"
  /\ exitHow # "running" => clientPC = "exit"
  /\ current # 0 => conn[current].up
  /\ exitHow \in {"signal", "mode"} /\ current # 0 => conn[current].sock = "closed"

DialInv == DialTypes /\ DialAttempts /\ DialEnds

(* The bound, a natural number.                                            *)
LEMMA DialBound == MaxAttempts \in Nat
BY NodeAssumption DEF Dialer!ClientStartAssumption

(* The running attempt.                                                    *)
LEMMA DialNow ==
  ASSUME DialInv, stage # "idle"
  PROVE  /\ attempts \in 1..MaxAttempts /\ attempts \in Nat
         /\ conn[attempts] \in DialConns /\ ~conn[attempts].up
         /\ DialAt(stage, conn[attempts], chosen)
         /\ current # attempts
         /\ exitHow = "running" /\ clientPC \notin {"start", "exit"}
<1>1. attempts \in 1..MaxAttempts /\ attempts \in Nat
  BY DialBound DEF DialInv, DialTypes, DialEnds
<1>2. conn[attempts] \in DialConns /\ DialAt(stage, conn[attempts], chosen)
  BY <1>1 DEF DialInv, DialTypes, DialAttempts
<1>3. ~conn[attempts].up
  BY <1>2 DEF DialAt
<1>4. current # attempts
  BY <1>1, <1>3 DEF DialInv, DialEnds
<1> QED
  BY <1>1, <1>2, <1>3, <1>4 DEF DialInv, DialEnds

(* A step of the running attempt, which is then at another place or over.  *)
LEMMA DialRuns ==
  ASSUME DialInv, stage # "idle", UNCHANGED <<chosen, attempts>>,
         NEW c \in DialConns, conn' = [conn EXCEPT ![attempts] = c],
         stage' \in DialStages,
         stage' = "idle" => DialOver(c, chosen),
         stage' # "idle" => DialAt(stage', c, chosen) /\ clientPC' = clientPC,
         current' = current \/ (current' = attempts /\ c.up),
         exitHow' \in {"running", "fatal"}, exitHow' = "fatal" => clientPC' = "exit"
  PROVE  DialInv'
<1>1. /\ attempts \in 1..MaxAttempts /\ attempts \in Nat /\ current # attempts
      /\ clientPC \notin {"start", "exit"}
  BY DialNow
<1>2. conn \in [1..MaxAttempts -> DialConns] /\ current \in 0..attempts
  BY DEF DialInv, DialTypes
<1>3. /\ conn' \in [1..MaxAttempts -> DialConns] /\ conn'[attempts] = c
      /\ \A x \in 1..MaxAttempts : x # attempts => conn'[x] = conn[x]
  BY <1>1, <1>2
<1>4. DialTypes'
  BY <1>1, <1>2, <1>3 DEF DialInv, DialTypes
<1>5. DialAttempts'
  <2>1. ASSUME NEW x \in 1..MaxAttempts
        PROVE  /\ x > attempts => conn'[x] = Dialer!None
               /\ x < attempts => DialOver(conn'[x], chosen)
    BY <1>1, <1>3, DialBound DEF DialInv, DialAttempts
  <2> QED
    BY <1>1, <1>3, <2>1, DialBound DEF DialAttempts
<1>6. DialEnds'
  <2>1. current' # 0 => conn'[current'].up
    BY <1>1, <1>2, <1>3 DEF DialInv, DialEnds
  <2>2. stage' # "idle" => attempts' # 0
    BY <1>1
  <2> QED
    BY <1>1, <2>1, <2>2 DEF DialEnds
<1> QED
  BY <1>4, <1>5, <1>6 DEF DialInv

(* A step that leaves the attempts as they are.                            *)
LEMMA DialRests ==
  ASSUME DialInv, UNCHANGED <<chosen, attempts, conn, stage>>,
         current' \in {current, 0},
         clientPC' = clientPC \/ stage = "idle" \/ clientPC' \notin {"start", "exit"},
         exitHow' # "running" => clientPC' = "exit",
         exitHow' \in {exitHow, "fatal"}
  PROVE  DialInv'
<1>1. current \in 0..attempts /\ attempts \in 0..MaxAttempts
  BY DEF DialInv, DialTypes
<1>2. DialTypes'
  BY <1>1, DialBound DEF DialInv, DialTypes
<1>3. DialAttempts'
  BY DEF DialInv, DialAttempts
<1>4. DialEnds'
  BY DEF DialInv, DialEnds
<1> QED
  BY <1>2, <1>3, <1>4 DEF DialInv

(* An attempt that fails leaves what is its own as c.                      *)
LEMMA DialGivesUp ==
  ASSUME DialInv, stage # "idle", Dialer!GiveUp,
         NEW c \in DialConns, conn' = [conn EXCEPT ![attempts] = c], DialOver(c, chosen)
  PROVE  DialInv'
<1>1. exitHow = "running"
  BY DialNow
<1>2. /\ stage' = "idle" /\ UNCHANGED <<chosen, attempts, current>>
      /\ exitHow' \in {"running", "fatal"} /\ (exitHow' = "fatal" => clientPC' = "exit")
  BY <1>1 DEF Dialer!GiveUp
<1>3. stage' \in DialStages
  BY <1>2 DEF DialStages
<1> QED
  BY <1>2, <1>3, DialRuns

(* What an attempt holds is left as it is when it takes nothing.           *)
LEMMA DialSame ==
  ASSUME DialInv, stage # "idle"
  PROVE  conn = [conn EXCEPT ![attempts] = conn[attempts]]
<1>1. conn \in [1..MaxAttempts -> DialConns]
  BY DEF DialInv, DialTypes
<1> QED
  BY <1>1

(* The steps that take nothing: the configuration, the limits NewClient    *)
(* checks, and what waits for an answer.                                   *)
LEMMA DialChecks ==
  ASSUME DialInv,
         \/ Dialer!Config \/ Dialer!ConfigRefused \/ Dialer!verifyAndFill \/ Dialer!verifyRefused
         \/ Dialer!realmDiscover \/ Dialer!realmConnect \/ Dialer!Dial
  PROVE  DialInv'
<1>1. stage # "idle" /\ conn' = conn
  BY DEF Dialer!Config, Dialer!ConfigRefused, Dialer!verifyAndFill, Dialer!verifyRefused,
         Dialer!realmDiscover, Dialer!realmConnect, Dialer!Dial
<1>2. /\ conn[attempts] \in DialConns /\ DialAt(stage, conn[attempts], chosen)
      /\ exitHow = "running"
  BY <1>1, DialNow
<1>3. conn' = [conn EXCEPT ![attempts] = conn[attempts]]
  BY <1>1, DialSame
<1>4. CASE Dialer!Config
  <2>1. /\ UNCHANGED <<chosen, attempts, current, clientPC, exitHow>>
        /\ stage' \in DialStages /\ stage' # "idle"
    BY <1>4 DEF Dialer!Config, Dialer!main, DialStages
  <2>2. DialAt(stage', conn[attempts], chosen)
    BY <1>2, <1>4 DEF Dialer!Config, DialAt
  <2> QED
    BY <1>1, <1>2, <1>3, <2>1, <2>2, DialRuns
<1>5. CASE Dialer!verifyAndFill
  <2>1. /\ UNCHANGED <<chosen, attempts, current, clientPC, exitHow>>
        /\ stage' \in DialStages /\ stage' # "idle"
    BY <1>5 DEF Dialer!verifyAndFill, Dialer!main, DialStages
  <2>2. DialAt(stage', conn[attempts], chosen)
    BY <1>2, <1>5 DEF Dialer!verifyAndFill, DialAt
  <2> QED
    BY <1>1, <1>2, <1>3, <2>1, <2>2, DialRuns
<1>8. CASE Dialer!realmDiscover \/ Dialer!realmConnect \/ Dialer!Dial
  <2>1. /\ UNCHANGED <<chosen, attempts, current, clientPC, exitHow>>
        /\ stage' \in DialStages /\ stage' # "idle"
    BY <1>8 DEF Dialer!realmDiscover, Dialer!realmConnect, Dialer!Dial, Dialer!main, DialStages
  <2>2. DialAt(stage', conn[attempts], chosen)
    BY <1>2, <1>8 DEF Dialer!realmDiscover, Dialer!realmConnect, Dialer!Dial, DialAt
  <2> QED
    BY <1>1, <1>2, <1>3, <2>1, <2>2, DialRuns
<1>6. CASE Dialer!ConfigRefused
  <2>1. DialOver(conn[attempts], chosen) /\ Dialer!GiveUp
    BY <1>2, <1>6 DEF Dialer!ConfigRefused, DialAt, DialOver
  <2> QED
    BY <1>1, <1>2, <1>3, <2>1, DialGivesUp
<1>7. CASE Dialer!verifyRefused
  <2>1. DialOver(conn[attempts], chosen) /\ Dialer!GiveUp
    BY <1>7 DEF Dialer!verifyRefused, DialOver
  <2> QED
    BY <1>1, <1>2, <1>3, <2>1, DialGivesUp
<1> QED
  BY <1>4, <1>5, <1>6, <1>7, <1>8

(* A change of one connection, as a value for its place.                   *)
LEMMA DialSets ==
  ASSUME DialInv, stage # "idle", NEW c \in DialConns
  PROVE  /\ c.sock = "open" /\ c.map = conn[attempts].map /\ c.up = conn[attempts].up =>
              [conn EXCEPT ![attempts] = c] = [conn EXCEPT ![attempts].sock = "open"]
         /\ c.sock = "closed" /\ c.map = conn[attempts].map /\ c.up = conn[attempts].up =>
              [conn EXCEPT ![attempts] = c] = [conn EXCEPT ![attempts].sock = "closed"]
         /\ c.sock = conn[attempts].sock /\ c.up = conn[attempts].up =>
              [conn EXCEPT ![attempts] = c] = [conn EXCEPT ![attempts].map = c.map]
         /\ c.sock = conn[attempts].sock /\ c.map = conn[attempts].map /\ c.up =>
              [conn EXCEPT ![attempts] = c] = [conn EXCEPT ![attempts].up = TRUE]
<1>1. conn \in [1..MaxAttempts -> DialConns] /\ attempts \in 1..MaxAttempts
      /\ conn[attempts] \in DialConns
  BY DialNow DEF DialInv, DialTypes
<1> QED
  BY <1>1 DEF DialConns

(* A step of the running attempt to its next place.                        *)
LEMMA DialGoes ==
  ASSUME DialInv, stage # "idle", UNCHANGED <<Dialer!main, attempts, current>>,
         NEW c \in DialConns, conn' = [conn EXCEPT ![attempts] = c],
         stage' \in DialStages \ {"idle"}, DialAt(stage', c, chosen)
  PROVE  DialInv'
<1>1. exitHow = "running"
  BY DialNow
<1> QED
  BY <1>1, DialRuns DEF Dialer!main

(* The realm's socket, its port mapping and the punch.                     *)
LEMMA DialRealm ==
  ASSUME DialInv, Dialer!realmListen \/ Dialer!newRealmPortMapper \/ Dialer!realmPunch
  PROVE  DialInv'
<1> DEFINE o == conn[attempts]
<1>1. /\ stage # "idle" /\ UNCHANGED <<Dialer!main, attempts, current>>
      /\ stage' \in DialStages \ {"idle"}
  BY DEF Dialer!realmListen, Dialer!newRealmPortMapper, Dialer!realmPunch, DialStages
<1>2. /\ o \in DialConns /\ ~o.up /\ DialAt(stage, o, chosen)
      /\ attempts \in 1..MaxAttempts /\ conn \in [1..MaxAttempts -> DialConns]
  BY <1>1, DialNow DEF DialInv, DialTypes
<1>3. o.sock \in {"none", "open", "closed"}
      /\ o.map \in {"none", "held", "renewed", "cancelled", "removed"}
      /\ o.up = FALSE
  BY <1>2 DEF DialConns
<1>4. CASE Dialer!realmListen
  <2> DEFINE c == [sock |-> "open", map |-> o.map, up |-> FALSE]
  <2>1. c \in DialConns /\ c.sock = "open" /\ c.map = o.map /\ c.up = o.up
    BY <1>3 DEF DialConns
  <2>2. conn' = [conn EXCEPT ![attempts].sock = "open"]
    BY <1>4 DEF Dialer!realmListen
  <2>3. conn' = [conn EXCEPT ![attempts] = c]
    BY <1>1, <2>1, <2>2, DialSets
  <2>4. DialAt(stage', c, chosen)
    BY <1>2, <1>4 DEF Dialer!realmListen, DialAt
  <2> HIDE DEF c
  <2> QED
    BY <1>1, <2>1, <2>3, <2>4, DialGoes
<1>5. CASE Dialer!newRealmPortMapper
  <2>1. CASE conn' = conn
    <3>1. DialAt(stage', o, chosen)
      BY <1>2, <1>5 DEF Dialer!newRealmPortMapper, DialAt
    <3> QED
      BY <1>1, <1>2, <2>1, <3>1, DialSame, DialGoes
  <2>2. CASE conn' = [conn EXCEPT ![attempts].map = "held"]
    <3> DEFINE c == [sock |-> o.sock, map |-> "held", up |-> FALSE]
    <3>1. c \in DialConns /\ c.sock = o.sock /\ c.map = "held" /\ c.up = o.up
      BY <1>3 DEF DialConns
    <3>2. conn' = [conn EXCEPT ![attempts] = c]
      BY <1>1, <2>2, <3>1, DialSets
    <3>3. DialAt(stage', c, chosen)
      BY <1>2, <1>5 DEF Dialer!newRealmPortMapper, DialAt
    <3> HIDE DEF c
    <3> QED
      BY <1>1, <3>1, <3>2, <3>3, DialGoes
  <2> QED
    BY <1>5, <2>1, <2>2 DEF Dialer!newRealmPortMapper
<1>6. CASE Dialer!realmPunch
  <2> DEFINE v == IF o.map = "held" THEN "renewed" ELSE o.map
             c == [sock |-> o.sock, map |-> v, up |-> FALSE]
  <2>0. conn' = [conn EXCEPT ![attempts].map = v]
    BY <1>6 DEF Dialer!realmPunch
  <2>1. v \in {"none", "held", "renewed", "cancelled", "removed"}
    BY <1>3
  <2>2. v \in {"none", "renewed"}
    BY <1>2, <1>6 DEF Dialer!realmPunch, DialAt
  <2> HIDE DEF v
  <2>3. c \in DialConns /\ c.sock = o.sock /\ c.map = v /\ c.up = o.up
    BY <1>3, <2>1 DEF DialConns
  <2>4. conn' = [conn EXCEPT ![attempts] = c]
    BY <1>1, <2>0, <2>3, DialSets
  <2>5. DialAt(stage', c, chosen)
    BY <1>2, <1>6, <2>2 DEF Dialer!realmPunch, DialAt, DialOpen
  <2> HIDE DEF c
  <2> QED
    BY <1>1, <2>3, <2>4, <2>5, DialGoes
<1> QED
  BY <1>4, <1>5, <1>6

(* The deferred calls, and the close of a connection, let go of it all.    *)
LEMMA DialLetsGo ==
  ASSUME NEW c \in DialConns
  PROVE  /\ Dialer!deferred(c) \in DialConns
         /\ c.map \in {"none", "held"} => DialFree(Dialer!deferred(c))
         /\ Dialer!ClosePacketConn(c) \in DialConns
         /\ Dialer!ClosePacketConn(c).up = c.up
         /\ Dialer!ClosePacketConn(c).sock = "closed"
         /\ c.map # "held" => DialFree(Dialer!ClosePacketConn(c))
BY DEF DialConns, DialFree, Dialer!deferred, Dialer!ClosePacketConn

(* An attempt that fails while it sets its connection up.                  *)
LEMMA DialFails ==
  ASSUME DialInv, Dialer!realmConfigFails \/ Dialer!connFactoryFails \/ Dialer!connectFails
  PROVE  DialInv'
<1> DEFINE o == conn[attempts]
<1>1. stage # "idle" /\ Dialer!GiveUp
  BY DEF Dialer!realmConfigFails, Dialer!connFactoryFails, Dialer!connectFails
<1>2. o \in DialConns /\ ~o.up /\ DialAt(stage, o, chosen)
  BY <1>1, DialNow
<1>3. CASE conn' = conn /\ DialFree(o)
  BY <1>1, <1>2, <1>3, DialSame, DialGivesUp DEF DialOver
<1>4. CASE stage \in {"stun", "request", "punch"}
           /\ conn' = [conn EXCEPT ![attempts] = Dialer!deferred(o)]
  <2>1. Dialer!deferred(o) \in DialConns /\ DialOver(Dialer!deferred(o), chosen)
    BY <1>2, <1>4, DialLetsGo DEF DialAt, DialOver
  <2> QED
    BY <1>1, <1>4, <2>1, DialGivesUp
<1>5. CASE stage \in {"handshake", "auth"}
           /\ conn' = [conn EXCEPT ![attempts] = Dialer!ClosePacketConn(o)]
  <2>1. /\ Dialer!ClosePacketConn(o) \in DialConns
        /\ DialOver(Dialer!ClosePacketConn(o), chosen)
    BY <1>2, <1>5, DialLetsGo DEF DialAt, DialOpen, DialOver
  <2> QED
    BY <1>1, <1>5, <2>1, DialGivesUp
<1>6. CASE DialFree(o) /\ conn' = [conn EXCEPT ![attempts].sock = "closed"]
  <2> DEFINE c == [sock |-> "closed", map |-> o.map, up |-> o.up]
  <2>1. c \in DialConns /\ c.sock = "closed" /\ c.map = o.map /\ c.up = o.up /\ DialOver(c, chosen)
    BY <1>2, <1>6 DEF DialConns, DialOver, DialFree
  <2> HIDE DEF c
  <2>2. conn' = [conn EXCEPT ![attempts] = c]
    BY <1>1, <1>6, <2>1, DialSets
  <2> QED
    BY <1>1, <2>1, <2>2, DialGivesUp
<1>7. CASE Dialer!realmConfigFails
  BY <1>2, <1>3, <1>4, <1>7 DEF Dialer!realmConfigFails, DialAt
<1>8. CASE Dialer!connFactoryFails
  BY <1>2, <1>3, <1>6, <1>8 DEF Dialer!connFactoryFails, DialAt
<1>9. CASE Dialer!connectFails
  BY <1>5, <1>9 DEF Dialer!connectFails
<1> QED
  BY <1>7, <1>8, <1>9

(* The connection's socket, and its handshake.                             *)
LEMMA DialConnects ==
  ASSUME DialInv, Dialer!connFactoryNew \/ Dialer!Connected
  PROVE  DialInv'
<1> DEFINE o == conn[attempts]
<1>1. stage # "idle" /\ UNCHANGED <<chosen, attempts, exitHow>>
  BY DEF Dialer!connFactoryNew, Dialer!Connected, Dialer!main
<1>2. /\ o \in DialConns /\ ~o.up /\ DialAt(stage, o, chosen)
      /\ exitHow = "running"
  BY <1>1, DialNow
<1>3. CASE Dialer!connFactoryNew
  <2> DEFINE c == [sock |-> "open", map |-> o.map, up |-> o.up]
  <2>1. c \in DialConns /\ c.sock = "open" /\ c.map = o.map /\ c.up = o.up
    BY <1>2 DEF DialConns
  <2>2. conn' = [conn EXCEPT ![attempts].sock = "open"]
    BY <1>3 DEF Dialer!connFactoryNew
  <2>3. conn' = [conn EXCEPT ![attempts] = c]
    BY <1>1, <2>1, <2>2, DialSets
  <2>4. DialAt(stage', c, chosen)
    BY <1>2, <1>3 DEF Dialer!connFactoryNew, DialAt, DialOpen
  <2>5. stage' \in DialStages \ {"idle"} /\ UNCHANGED <<Dialer!main, attempts, current>>
    BY <1>3 DEF Dialer!connFactoryNew, DialStages
  <2> HIDE DEF c
  <2> QED
    BY <1>1, <2>1, <2>3, <2>4, <2>5, DialGoes
<1>4. CASE Dialer!Connected
  <2> DEFINE c == [sock |-> o.sock, map |-> o.map, up |-> TRUE]
  <2>1. c \in DialConns /\ c.sock = o.sock /\ c.map = o.map /\ c.up /\ DialOver(c, chosen)
    BY <1>2 DEF DialConns, DialOver
  <2>2. conn' = [conn EXCEPT ![attempts].up = TRUE]
    BY <1>4 DEF Dialer!Connected
  <2> HIDE DEF c
  <2>3. conn' = [conn EXCEPT ![attempts] = c]
    BY <1>1, <2>1, <2>2, DialSets
  <2>4. stage' = "idle" /\ current' = attempts /\ stage' \in DialStages
    BY <1>4 DEF Dialer!Connected, DialStages
  <2> QED
    BY <1>1, <1>2, <2>1, <2>3, <2>4, DialRuns
<1> QED
  BY <1>3, <1>4

(* A new attempt.                                                          *)
LEMMA DialBegins ==
  ASSUME DialInv, Dialer!Attempt
  PROVE  DialInv'
<1>1. /\ stage = "idle" /\ stage' = "config" /\ attempts' = attempts + 1 /\ attempts < MaxAttempts
      /\ UNCHANGED <<clientPC, exitHow, chosen, conn, current>> /\ current = 0
      /\ clientPC \in {"connect", "run", "closing", "failing"}
  BY DEF Dialer!Attempt, Dialer!main
<1>2. attempts \in Nat /\ attempts \in 0..MaxAttempts /\ attempts + 1 \in 1..MaxAttempts
  BY <1>1, DialBound DEF DialInv, DialTypes
<1>3. DialTypes'
  BY <1>1, <1>2, DialBound DEF DialInv, DialTypes, DialStages
<1>4. DialAt("config", Dialer!None, chosen)
  BY DEF DialAt, DialFree, Dialer!None
<1>5. DialAttempts'
  <2>1. ASSUME NEW x \in 1..MaxAttempts
        PROVE  /\ x > attempts => conn[x] = Dialer!None
               /\ x < attempts + 1 => DialOver(conn[x], chosen)
    BY <1>1, <1>2, DialBound DEF DialInv, DialAttempts
  <2> QED
    BY <1>1, <1>2, <1>4, <2>1, DialBound DEF DialAttempts
<1>6. DialEnds'
  BY <1>1, <1>2 DEF DialInv, DialEnds
<1> QED
  BY <1>3, <1>5, <1>6 DEF DialInv

(* The main goroutine, the modes, and a connection that is lost.           *)
LEMMA DialMain ==
  ASSUME DialInv,
         \/ Dialer!Prepare \/ Dialer!PrepareFails \/ Dialer!Lost \/ Dialer!runModes
         \/ \E x \in DOMAIN mode : Dialer!ModeStarts(x) \/ Dialer!ModeFails(x)
         \/ Dialer!runnerResult \/ Dialer!Signal
  PROVE  DialInv'
<1>1. CASE Dialer!Prepare \/ Dialer!runModes \/ Dialer!runnerResult \/ Dialer!Signal
  <2>1. /\ UNCHANGED <<chosen, attempts, conn, stage, current, exitHow>>
        /\ clientPC # "exit" /\ clientPC' \notin {"start", "exit"}
    BY <1>1 DEF Dialer!Prepare, Dialer!runModes, Dialer!runnerResult, Dialer!Signal
  <2>2. exitHow = "running"
    BY <2>1 DEF DialInv, DialEnds
  <2> QED
    BY <2>1, <2>2, DialRests
<1>2. CASE Dialer!PrepareFails
  <2>1. clientPC = "start"
    BY <1>2 DEF Dialer!PrepareFails
  <2>2. stage = "idle"
    BY <2>1 DEF DialInv, DialEnds
  <2>3. /\ UNCHANGED <<chosen, attempts, conn, stage, current>>
        /\ clientPC' = "exit" /\ exitHow' = "fatal"
    BY <1>2, <2>2 DEF Dialer!PrepareFails, Dialer!Exit
  <2> QED
    BY <2>2, <2>3, DialRests
<1>3. CASE \/ Dialer!Lost
           \/ \E x \in DOMAIN mode : Dialer!ModeStarts(x) \/ Dialer!ModeFails(x)
  <2>1. /\ UNCHANGED <<chosen, attempts, conn, stage, clientPC, exitHow>>
        /\ current' \in {current, 0}
    BY <1>3 DEF Dialer!Lost, Dialer!ModeStarts, Dialer!ModeFails, Dialer!main
  <2>2. exitHow' # "running" => clientPC' = "exit"
    BY <2>1 DEF DialInv, DialEnds
  <2> QED
    BY <2>1, <2>2, DialRests
<1> QED
  BY <1>1, <1>2, <1>3

(* A change of one connection that is over, which stays so.                *)
LEMMA DialLater ==
  ASSUME DialInv, UNCHANGED <<chosen, attempts, current, stage>>,
         NEW y \in 1..MaxAttempts, NEW c \in DialConns, conn' = [conn EXCEPT ![y] = c],
         y <= attempts, c.up = conn[y].up, DialOver(conn[y], chosen) => DialOver(c, chosen),
         y = attempts => stage = "idle",
         DialEnds'
  PROVE  DialInv'
<1>1. conn \in [1..MaxAttempts -> DialConns] /\ attempts \in Nat
  BY DialBound DEF DialInv, DialTypes
<1>2. /\ conn' \in [1..MaxAttempts -> DialConns] /\ conn'[y] = c
      /\ \A x \in 1..MaxAttempts : x # y => conn'[x] = conn[x]
  BY <1>1
<1>3. DialTypes'
  BY <1>2 DEF DialInv, DialTypes
<1>4. DialAttempts'
  <2>1. ASSUME NEW x \in 1..MaxAttempts, x # y
        PROVE  /\ x > attempts => conn'[x] = Dialer!None
               /\ x < attempts \/ (x = attempts /\ stage = "idle") => DialOver(conn'[x], chosen)
               /\ x = attempts /\ stage # "idle" => DialAt(stage, conn'[x], chosen)
    BY <1>2, <2>1 DEF DialInv, DialAttempts
  <2>2. DialOver(conn'[y], chosen)
    BY <1>1, <1>2, DialBound DEF DialInv, DialAttempts
  <2>3. ~(y > attempts) /\ (y = attempts => stage = "idle")
    BY <1>1, DialBound
  <2> QED
    BY <2>1, <2>2, <2>3 DEF DialAttempts
<1> QED
  BY <1>3, <1>4 DEF DialInv

(* A mapping is removed once its renewal is cancelled.                     *)
LEMMA DialUnmaps ==
  ASSUME DialInv, NEW y \in 1..MaxAttempts, Dialer!realmPortMapLoop(y)
  PROVE  DialInv'
<1> DEFINE o == conn[y]
           c == [sock |-> o.sock, map |-> "removed", up |-> o.up]
<1>1. /\ UNCHANGED <<clientPC, exitHow, chosen, attempts, current, stage>>
      /\ o.map = "cancelled" /\ conn' = [conn EXCEPT ![y].map = "removed"]
  BY DEF Dialer!realmPortMapLoop, Dialer!main
<1>2. conn \in [1..MaxAttempts -> DialConns] /\ attempts \in Nat /\ o \in DialConns
  BY DialBound DEF DialInv, DialTypes
<1>3. c \in DialConns /\ c.up = o.up /\ (DialOver(o, chosen) => DialOver(c, chosen))
      /\ c.sock = o.sock /\ c.map = "removed"
  BY <1>2 DEF DialConns, DialOver, DialFree
<1> HIDE DEF c
<1>4. conn' = [conn EXCEPT ![y] = c]
  <2>1. ASSUME NEW k \in DialConns, k.sock = o.sock, k.up = o.up
        PROVE  [conn EXCEPT ![y] = k] = [conn EXCEPT ![y].map = k.map]
    BY <1>2, <2>1 DEF DialConns
  <2> QED
    BY <1>1, <1>3, <2>1
<1>5. y <= attempts
  BY <1>1, <1>2, DialBound DEF DialInv, DialAttempts, Dialer!None
<1>6. y = attempts => stage = "idle"
  BY <1>1, <1>2 DEF DialInv, DialAttempts, DialTypes, DialStages, DialAt, DialFree, DialOpen
<1>7. DialEnds'
  <2>1. ASSUME NEW x \in 1..MaxAttempts
        PROVE  conn'[x].up = conn[x].up /\ conn'[x].sock = conn[x].sock
    BY <1>2, <1>3, <1>4
  <2>2. current # 0 => current \in 1..MaxAttempts
    BY DialBound DEF DialInv, DialTypes
  <2> QED
    BY <1>1, <2>1, <2>2 DEF DialInv, DialEnds
<1> QED
  BY <1>1, <1>3, <1>4, <1>5, <1>6, <1>7, DialLater

(* The end, which closes the connection in use.                            *)
LEMMA DialStops ==
  ASSUME DialInv, Dialer!End
  PROVE  DialInv'
<1>1. /\ UNCHANGED <<chosen, attempts, current>> /\ stage = "idle" /\ stage' = "idle"
      /\ clientPC' = "exit" /\ exitHow' \in {"signal", "mode"}
      /\ conn' = IF current = 0 THEN conn
                 ELSE [conn EXCEPT ![current] = Dialer!ClosePacketConn(conn[current])]
  BY DEF Dialer!End, Dialer!Exit, Dialer!CloseClient
<1>2. conn \in [1..MaxAttempts -> DialConns] /\ attempts \in Nat
  BY DialBound DEF DialInv, DialTypes
<1>3. CASE current = 0
  <2>1. DialTypes'
    BY <1>1, <1>3 DEF DialInv, DialTypes
  <2>2. DialAttempts'
    BY <1>1, <1>3 DEF DialInv, DialAttempts
  <2>3. DialEnds'
    BY <1>1, <1>3 DEF DialEnds
  <2> QED
    BY <2>1, <2>2, <2>3 DEF DialInv
<1>4. CASE current # 0
  <2> DEFINE c == Dialer!ClosePacketConn(conn[current])
  <2>1. current \in 1..MaxAttempts /\ current <= attempts /\ conn[current] \in DialConns
        /\ conn[current].up
    BY <1>2, <1>4, DialBound DEF DialInv, DialTypes, DialEnds
  <2>2. c \in DialConns /\ c.up = conn[current].up /\ c.sock = "closed" /\ DialOver(c, chosen)
    BY <2>1, DialLetsGo DEF DialOver
  <2>3. conn' = [conn EXCEPT ![current] = c]
    BY <1>1, <1>4
  <2> HIDE DEF c
  <2>4. conn'[current] = c
    BY <1>2, <2>1, <2>3
  <2>5. DialEnds'
    BY <1>1, <2>1, <2>2, <2>4 DEF DialEnds
  <2> QED
    BY <1>1, <2>1, <2>2, <2>3, <2>5, DialLater
<1> QED
  BY <1>3, <1>4

(* DialInv holds at the start,                                             *)
LEMMA DialStarts ==
  ASSUME Dialer!Init
  PROVE  DialInv
<1>1. /\ clientPC = "start" /\ exitHow = "running" /\ stage = "idle" /\ attempts = 0
      /\ conn = [x \in 1..MaxAttempts |-> Dialer!None] /\ current = 0
  BY DEF Dialer!Init
<1>2. Dialer!None \in DialConns
  BY DEF Dialer!None, DialConns
<1>3. DialTypes
  BY <1>1, <1>2, DialBound DEF DialTypes, DialStages
<1>4. DialAttempts
  BY <1>1 DEF DialAttempts
<1>5. DialEnds
  BY <1>1 DEF DialEnds
<1> QED
  BY <1>3, <1>4, <1>5 DEF DialInv

(* every step keeps it,                                                    *)
LEMMA DialKept ==
  ASSUME DialInv, [Dialer!Next]_(Dialer!vars)
  PROVE  DialInv'
<1>1. CASE Dialer!Next
  BY <1>1, DialChecks, DialRealm, DialFails, DialConnects, DialBegins, DialMain, DialUnmaps,
     DialStops DEF Dialer!Next
<1>2. CASE UNCHANGED Dialer!vars
  BY <1>2 DEF Dialer!vars, DialInv, DialTypes, DialAttempts, DialEnds
<1> QED
  BY <1>1, <1>2

(* and it says what a client must not hold.                                *)
LEMMA DialInvImplies ==
  ASSUME DialInv
  PROVE  Dialer!NothingHeld
<1>1. ASSUME NEW x \in 1..attempts, x < attempts \/ stage = "idle", ~conn[x].up,
             chosen.limits = "kept"
      PROVE  conn[x].sock # "open" /\ conn[x].map \notin {"held", "renewed"}
  <2>1. x \in 1..MaxAttempts /\ (x < attempts \/ x = attempts)
    BY DialBound DEF DialInv, DialTypes
  <2>2. DialOver(conn[x], chosen)
    BY <1>1, <2>1 DEF DialInv, DialAttempts
  <2> QED
    BY <1>1, <2>2 DEF DialOver, DialFree
<1> QED
  BY <1>1 DEF DialInv, DialEnds, Dialer!NothingHeld

-----------------------------------------------------------------------------
(***************************************************************************)
(* The bandwidth sampler.  The recursion over the packets of an event has  *)
(* a solution, and what each packet keeps all of them keep: both by the    *)
(* least number for which it would not be so.                              *)
(***************************************************************************)
(* A set of naturals with a member has a least one.                        *)
LEMMA LeastOf ==
  ASSUME NEW S \in SUBSET Nat, S # {}
  PROVE  \E i \in S : \A j \in S : i <= j
<1> DEFINE Below == {p \in Nat \X Nat : p[1] < p[2]}
<1>0. IsWellFoundedOn(Below, Nat)
  BY NatLessThanWellFounded, Zenon DEF OpToRel
<1>1. PICK i \in S : \A j \in S : ~(<<j, i>> \in Below)
  <2> HIDE DEF Below
  <2> QED
    BY <1>0, WFMin, Zenon
<1>2. \A j \in S : ~(j < i)
  <2> TAKE j \in S
  <2>1. <<j, i>>[1] = j /\ <<j, i>>[2] = i /\ <<j, i>> \in Nat \X Nat
    OBVIOUS
  <2> QED
    BY <1>1, <2>1, Zenon
<1> QED
  BY <1>2

(* Greatest finds the greatest.                                            *)
LEMMA SampGreatest ==
  ASSUME NEW n \in Nat, NEW S \in SUBSET (1..n), S # {}
  PROVE  /\ Sampler!Greatest(S) \in S
         /\ \A y \in S : y <= Sampler!Greatest(S)
<1>1. {n - y : y \in S} \in SUBSET Nat /\ {n - y : y \in S} # {}
  OBVIOUS
<1>2. PICK i \in {n - y : y \in S} : \A j \in {n - y : y \in S} : i <= j
  BY <1>1, LeastOf
<1>3. PICK x \in S : i = n - x
  BY <1>2
<1>4. \A y \in S : y <= x
  <2> TAKE y \in S
  <2>1. n - x <= n - y
    BY <1>2, <1>3
  <2> QED
    BY <2>1
<1>5. x \in S /\ \A y \in S : y <= x
  BY <1>4
<1> QED
  BY <1>5, Zenon DEF Sampler!Greatest

(* One step of the recursion of onAcks, and a function that takes them.    *)
SampStep(f, ack, first, n) ==
  IF n = 0 THEN first
  ELSE IF n \in ack THEN Sampler!onPacketAcknowledged(f[n - 1], n)
  ELSE f[n - 1]

SampFold(f, ack, first, k) == f = [n \in 0..k |-> SampStep(f, ack, first, n)]

(* The recursion of onAcks has a solution.                                  *)
LEMMA SampFoldExists ==
  ASSUME NEW first, NEW ack, NEW k \in Nat
  PROVE  \E f : SampFold(f, ack, first, k)
<1> DEFINE Bad == {n \in Nat : ~ \E f : SampFold(f, ack, first, n)}
<1>1. CASE Bad = {}
  BY <1>1
<1>2. CASE Bad # {}
  <2>1. PICK i \in Bad : \A j \in Bad : i <= j
    <3>1. Bad \in SUBSET Nat
      OBVIOUS
    <3> QED
      BY <3>1, <1>2, LeastOf
  <2>2. CASE i = 0
    <3>1. SampFold([n \in 0..0 |-> first], ack, first, 0)
      BY DEF SampFold, SampStep
    <3> QED
      BY <3>1, <2>1, <2>2
  <2>3. CASE i # 0
    <3>1. i - 1 \in Nat /\ i - 1 \notin Bad
      BY <2>1, <2>3
    <3>2. PICK f : SampFold(f, ack, first, i - 1)
      BY <3>1
    <3> DEFINE g == [n \in 0..i |-> IF n < i THEN f[n] ELSE SampStep(f, ack, first, i)]
    <3>3. \A n \in 0..(i - 1) : f[n] = SampStep(f, ack, first, n)
      BY <3>2 DEF SampFold
    <3>4. \A n \in 0..i : g[n] = SampStep(f, ack, first, n)
      BY <3>3, <3>1
    <3>5. \A n \in 0..i : n # 0 => g[n - 1] = f[n - 1]
      BY <3>1
    <3>6. \A n \in 0..i : SampStep(f, ack, first, n) = SampStep(g, ack, first, n)
      BY <3>5 DEF SampStep
    <3>7. g = [n \in 0..i |-> SampStep(g, ack, first, n)]
      <4>1. \A n \in 0..i : g[n] = SampStep(g, ack, first, n)
        BY <3>4, <3>6
      <4>2. g = [n \in 0..i |-> g[n]]
        OBVIOUS
      <4> HIDE DEF g
      <4> QED
        BY <4>1, <4>2
    <3>8. SampFold(g, ack, first, i)
      BY <3>7 DEF SampFold
    <3> QED
      BY <3>8, <2>1
  <2> QED
    BY <2>2, <2>3
<1> QED
  BY <1>1, <1>2

(* onAcks is the last value of it.                                          *)
LEMMA SampAcksIs ==
  ASSUME NEW first, NEW ack, s.last \in Nat
  PROVE  \E f : SampFold(f, ack, first, s.last) /\ Sampler!onAcks(first, ack) = f[s.last]
<1> DEFINE F(f) == SampFold(f, ack, first, s.last)
<1>1. \E f : F(f)
  BY SampFoldExists
<1>2. F(CHOOSE f : F(f))
  <2> HIDE DEF F
  <2> QED
    BY <1>1
<1>3. Sampler!onAcks(first, ack) = (CHOOSE f : F(f))[s.last]
  BY DEF Sampler!onAcks, SampFold, SampStep
<1> QED
  BY <1>2, <1>3

(***************************************************************************)
(* A windowed filter of samples in V, none later than n: three estimates,  *)
(* best and oldest first.                                                  *)
(***************************************************************************)
SampEntries(V, n) == [v : V, k : Int, t : 0..n]

SampFilter(f, V, n) ==
  /\ f = <<f[1], f[2], f[3]>>
  /\ f[1] \in SampEntries(V, n) /\ f[2] \in SampEntries(V, n) /\ f[3] \in SampEntries(V, n)
  /\ f[1].k >= f[2].k /\ f[2].k >= f[3].k
  /\ f[1].t <= f[2].t /\ f[2].t <= f[3].t

SampSpan(f) == f[3].t - f[1].t <= Window

(* A filter remains one as time passes.                                    *)
LEMMA SampLater ==
  ASSUME NEW V, NEW n \in Nat, NEW q \in Nat, n <= q, NEW f, SampFilter(f, V, n)
  PROVE  SampFilter(f, V, q)
<1>1. \A e \in SampEntries(V, n) : e \in SampEntries(V, q)
  BY DEF SampEntries
<1> QED
  BY <1>1 DEF SampFilter

(* Three entries in order are a filter.                                    *)
LEMMA SampThree ==
  ASSUME NEW V, NEW q \in Nat, NEW x \in SampEntries(V, q), NEW y \in SampEntries(V, q),
         NEW z \in SampEntries(V, q),
         x.k >= y.k, y.k >= z.k, x.t <= y.t, y.t <= z.t
  PROVE  SampFilter(<<x, y, z>>, V, q)
<1>1. <<x, y, z>>[1] = x /\ <<x, y, z>>[2] = y /\ <<x, y, z>>[3] = z
  OBVIOUS
<1> HIDE DEF SampEntries
<1> QED
  BY <1>1 DEF SampFilter

(* A sample below the best finds its place.                                *)
LEMMA SampInserted ==
  ASSUME NEW V, NEW q \in Nat, NEW f, SampFilter(f, V, q),
         NEW new \in SampEntries(V, q), new.t = q, new.k < f[1].k, q - f[3].t <= Window
  PROVE  /\ SampFilter(Sampler!Inserted(f, new), V, q)
         /\ Sampler!Inserted(f, new)[3].k >= new.k
         /\ q - Sampler!Inserted(f, new)[3].t <= Window
<1>0. Window \in Nat
  BY NodeAssumption DEF Sampler!SamplerAssumption
<1>1. PICK x, y, z : x = f[1] /\ y = f[2] /\ z = f[3]
  OBVIOUS
<1>2. /\ x \in SampEntries(V, q) /\ y \in SampEntries(V, q) /\ z \in SampEntries(V, q)
      /\ x.k >= y.k /\ y.k >= z.k /\ x.t <= y.t /\ y.t <= z.t
      /\ f = <<x, y, z>>
  BY <1>1 DEF SampFilter
<1>3. /\ x.k \in Int /\ y.k \in Int /\ z.k \in Int /\ new.k \in Int
      /\ x.t \in 0..q /\ y.t \in 0..q /\ z.t \in 0..q
  BY <1>2 DEF SampEntries
<1>4. CASE new.k >= y.k
  <2>1. Sampler!Inserted(f, new) = <<x, new, new>>
    BY <1>1, <1>4 DEF Sampler!Inserted
  <2>2. SampFilter(<<x, new, new>>, V, q)
    <3>1. x.k >= new.k /\ x.t <= new.t /\ new.k >= new.k /\ new.t <= new.t
      BY <1>1, <1>3
    <3> QED
      BY <3>1, <1>2, SampThree
  <2> QED
    BY <2>1, <2>2, <1>0, <1>3
<1>5. CASE new.k < y.k /\ new.k >= z.k
  <2>1. Sampler!Inserted(f, new) = <<x, y, new>>
    BY <1>1, <1>3, <1>5 DEF Sampler!Inserted
  <2>2. SampFilter(<<x, y, new>>, V, q)
    <3>1. y.k >= new.k /\ y.t <= new.t
      BY <1>3, <1>5
    <3> QED
      BY <3>1, <1>2, SampThree
  <2> QED
    BY <2>1, <2>2, <1>0, <1>3
<1>6. CASE new.k < y.k /\ new.k < z.k
  <2>1. Sampler!Inserted(f, new) = f
    BY <1>1, <1>3, <1>6 DEF Sampler!Inserted
  <2> QED
    BY <2>1, <1>6, <1>1, <1>3
<1> QED
  BY <1>3, <1>4, <1>5, <1>6

(* What is too old goes, and the best is within the window of the newest.  *)
LEMMA SampAged ==
  ASSUME NEW V, NEW q \in Nat, NEW g, SampFilter(g, V, q),
         NEW new \in SampEntries(V, q), new.t = q, g[3].k >= new.k, q - g[3].t <= Window
  PROVE  /\ SampFilter(Sampler!Aged(g, new), V, q)
         /\ SampSpan(Sampler!Aged(g, new))
<1>0. Window \in Nat
  BY NodeAssumption DEF Sampler!SamplerAssumption
<1>1. PICK x, y, z : x = g[1] /\ y = g[2] /\ z = g[3]
  OBVIOUS
<1>2. /\ x \in SampEntries(V, q) /\ y \in SampEntries(V, q) /\ z \in SampEntries(V, q)
      /\ x.k >= y.k /\ y.k >= z.k /\ x.t <= y.t /\ y.t <= z.t
      /\ g = <<x, y, z>>
  BY <1>1 DEF SampFilter
<1>3. /\ x.k \in Int /\ y.k \in Int /\ z.k \in Int /\ new.k \in Int
      /\ x.t \in 0..q /\ y.t \in 0..q /\ z.t \in 0..q
  BY <1>2 DEF SampEntries
<1>4. ASSUME NEW c1 \in SampEntries(V, q), NEW c2 \in SampEntries(V, q),
             NEW c3 \in SampEntries(V, q),
             c1.k >= c2.k, c2.k >= c3.k, c1.t <= c2.t, c2.t <= c3.t, c3.t - c1.t <= Window,
             Sampler!Aged(g, new) = <<c1, c2, c3>>
      PROVE  /\ SampFilter(Sampler!Aged(g, new), V, q)
             /\ SampSpan(Sampler!Aged(g, new))
  BY <1>4, SampThree DEF SampSpan
<1>5. /\ new.k >= new.k /\ new.t <= new.t /\ new.t - new.t <= Window
      /\ x.k >= new.k /\ y.k >= new.k /\ z.k >= new.k
      /\ x.t <= new.t /\ y.t <= new.t /\ z.t <= new.t /\ new.t - z.t <= Window
  BY <1>0, <1>1, <1>2, <1>3
<1>6. CASE q - x.t > Window /\ q - y.t > Window
  <2>1. Sampler!Aged(g, new) = <<z, new, new>>
    BY <1>1, <1>6 DEF Sampler!Aged, Sampler!Stale
  <2> QED
    BY <2>1, <1>4, <1>5, <1>2
<1>7. CASE q - x.t > Window /\ q - y.t <= Window
  <2>1. Sampler!Aged(g, new) = <<y, z, new>>
    BY <1>1, <1>7, <1>3, <1>0 DEF Sampler!Aged, Sampler!Stale
  <2> QED
    BY <2>1, <1>4, <1>5, <1>2, <1>7
<1>8. CASE q - x.t <= Window
  <2>1. Sampler!Aged(g, new) \in {<<x, new, new>>, <<x, y, new>>, <<x, y, z>>}
    BY <1>1, <1>8, <1>3, <1>0, <1>2 DEF Sampler!Aged, Sampler!Stale
  <2>2. z.t - x.t <= Window /\ new.t - x.t <= Window
    BY <1>8, <1>3, <1>0
  <2>3. CASE Sampler!Aged(g, new) = <<x, new, new>>
    BY <2>3, <2>2, <1>4, <1>5, <1>2
  <2>4. CASE Sampler!Aged(g, new) = <<x, y, new>>
    BY <2>4, <2>2, <1>4, <1>5, <1>2
  <2>5. CASE Sampler!Aged(g, new) = <<x, y, z>>
    BY <2>5, <2>2, <1>4, <1>2
  <2> QED
    BY <2>1, <2>3, <2>4, <2>5
<1> QED
  BY <1>0, <1>3, <1>6, <1>7, <1>8

(* WindowedFilter.Update keeps a filter, whose best is then within the     *)
(* window of the newest.                                                   *)
LEMMA SampUpdate ==
  ASSUME NEW V, NEW q \in Nat, NEW f, SampFilter(f, V, q), NEW v \in V, NEW k \in Int
  PROVE  /\ SampFilter(Sampler!Update(f, v, k, q), V, q)
         /\ SampSpan(Sampler!Update(f, v, k, q))
<1>0. Window \in Nat
  BY NodeAssumption DEF Sampler!SamplerAssumption
<1>1. PICK new : new = Sampler!Entry(v, k, q)
  OBVIOUS
<1>2. new \in SampEntries(V, q) /\ new.k = k /\ new.t = q
  BY <1>1 DEF Sampler!Entry, SampEntries
<1>3. f[1].k \in Int /\ f[3].t \in Int
  BY DEF SampFilter, SampEntries
<1>4. CASE f[1].k = 0 \/ k >= f[1].k \/ Sampler!Stale(f[3], q)
  <2>1. Sampler!Update(f, v, k, q) = <<new, new, new>>
    BY <1>1, <1>4 DEF Sampler!Update, Sampler!Reset
  <2>2. new.k >= new.k /\ new.t <= new.t /\ new.t - new.t <= Window
    BY <1>0, <1>2
  <2> QED
    BY <2>1, <2>2, <1>2, SampThree DEF SampSpan
<1>5. CASE ~(f[1].k = 0 \/ k >= f[1].k \/ Sampler!Stale(f[3], q))
  <2>1. Sampler!Update(f, v, k, q) = Sampler!Aged(Sampler!Inserted(f, new), new)
    BY <1>1, <1>5 DEF Sampler!Update
  <2>2. new.k < f[1].k /\ q - f[3].t <= Window
    BY <1>5, <1>2, <1>3, <1>0 DEF Sampler!Stale
  <2> QED
    BY <2>1, <2>2, <1>2, SampInserted, SampAged
<1> QED
  BY <1>4, <1>5

(* What the tracker's filter keeps, and the tracker in round n.            *)
SampExtra == [bytes : Int, delta : Int]

SampTracker(w, n) ==
  /\ w = [filter |-> w.filter, bytes |-> w.bytes, start |-> w.start]
  /\ SampFilter(w.filter, SampExtra, n)
  /\ w.bytes \in Int /\ w.start \in Int

(* Bytes over a time at a rate are a number.                               *)
LEMMA SampBytes ==
  ASSUME NEW x \in Int, NEW y \in Int
  PROVE  Sampler!Bytes(x, y) \in Int
<1>1. Scale \in Nat \ {0}
  BY NodeAssumption DEF Sampler!SamplerAssumption
<1>2. x * y \in Int
  OBVIOUS
<1>3. ASSUME NEW z \in Int PROVE z \div Scale \in Int
  BY <1>1
<1> QED
  BY <1>2, <1>3 DEF Sampler!Bytes

(* Storing the tracker's events again at time zero.                        *)
LEMMA SampPut ==
  ASSUME NEW f, SampFilter(f, SampExtra, 0), NEW e \in SampExtra, NEW x \in Int
  PROVE  SampFilter(Sampler!Put(f, e, x), SampExtra, 0)
<1>1. e.delta \in Int /\ e.bytes \in Int
  BY DEF SampExtra
<1>2. PICK y \in Int : y = Sampler!Bytes(x, e.delta)
  BY <1>1, SampBytes
<1>3. e.bytes - y \in Int
  BY <1>1
<1>4. SampFilter(Sampler!Update(f, e, e.bytes - y, 0), SampExtra, 0)
  BY <1>3, SampUpdate
<1> QED
  BY <1>2, <1>4 DEF Sampler!Put

(* All three of them.                                                      *)
LEMMA SampReinsert ==
  ASSUME NEW n \in Nat, NEW f, SampFilter(f, SampExtra, n), NEW x \in Int
  PROVE  SampFilter(Sampler!Reinsert(Sampler!Reset(Sampler!NoExtra, 0, 0), f, x), SampExtra, 0)
<1>1. PICK z : z = Sampler!Entry(Sampler!NoExtra, 0, 0)
  OBVIOUS
<1>2. z \in SampEntries(SampExtra, 0) /\ z.k = 0 /\ z.t = 0
  BY <1>1 DEF Sampler!Entry, Sampler!NoExtra, SampEntries, SampExtra
<1>3. SampFilter(<<z, z, z>>, SampExtra, 0)
  BY <1>2, SampThree
<1>4. Sampler!Reset(Sampler!NoExtra, 0, 0) = <<z, z, z>>
  BY <1>1 DEF Sampler!Reset
<1>5. f[1].v \in SampExtra /\ f[2].v \in SampExtra /\ f[3].v \in SampExtra
  BY DEF SampFilter, SampEntries
<1> QED
  BY <1>3, <1>4, <1>5, SampPut DEF Sampler!Reinsert

(* maxAckHeightTracker.Update keeps the tracker's filter.                   *)
LEMMA SampTrackerUpdate ==
  ASSUME NEW n \in Nat, NEW q \in Nat, n <= q, NEW w, SampTracker(w, n),
         NEW x \in Int, NEW newMax, NEW ack \in Int, NEW bytes \in Int
  PROVE  SampTracker(Sampler!TrackerUpdate(w, x, newMax, q, ack, bytes).tracker, q)
<1>1. PICK f : f = IF Reduce /\ newMax
                   THEN Sampler!Reinsert(Sampler!Reset(Sampler!NoExtra, 0, 0), w.filter, x)
                   ELSE w.filter
  OBVIOUS
<1>2. SampFilter(f, SampExtra, q)
  <2>1. SampFilter(w.filter, SampExtra, n) /\ 0 <= q
    BY DEF SampTracker
  <2>2. CASE Reduce /\ newMax
    <3>1. SampFilter(f, SampExtra, 0)
      BY <1>1, <2>1, <2>2, SampReinsert
    <3> QED
      BY <3>1, <2>1, SampLater
  <2>3. CASE ~(Reduce /\ newMax)
    BY <1>1, <2>1, <2>3, SampLater
  <2> QED
    BY <2>2, <2>3
<1>3. w.bytes \in Int /\ w.start \in Int
  BY DEF SampTracker
<1>4. PICK d \in Int : d = ack - w.start
  BY <1>3
<1>5. PICK y \in Int : y = Sampler!Bytes(x, d)
  BY SampBytes
<1>6. PICK h \in Int : h = w.bytes + bytes - y
  BY <1>3
<1>7. PICK e \in SampExtra : e = [bytes |-> w.bytes + bytes, delta |-> d]
  <2>1. PICK i \in Int : i = w.bytes + bytes
    BY <1>3
  <2>2. [bytes |-> i, delta |-> d] \in SampExtra
    BY DEF SampExtra
  <2> QED
    BY <2>1, <2>2
<1>8. SampFilter(Sampler!Update(f, e, h, q), SampExtra, q)
  BY <1>2, SampUpdate
<1>9. Sampler!TrackerUpdate(w, x, newMax, q, ack, bytes).tracker \in
        {[filter |-> f, bytes |-> bytes, start |-> ack],
         [filter |-> Sampler!Update(f, e, h, q), bytes |-> w.bytes + bytes, start |-> w.start]}
  BY <1>1, <1>4, <1>5, <1>6, <1>7 DEF Sampler!TrackerUpdate
<1>10. w.bytes + bytes \in Int
  BY <1>3
<1> QED
  BY <1>2, <1>3, <1>8, <1>9, <1>10 DEF SampTracker

(***************************************************************************)
(* The recent ack points and the candidates for A0, when a bytes have been *)
(* acknowledged at time n: all in order, and the candidates no later than  *)
(* the point that is appended next.                                        *)
(***************************************************************************)
SampPoints == [t : Nat, bytes : Nat]

SampUpTo(p, q) == p.t <= q.t /\ p.bytes <= q.bytes

SampAscend(c, z) ==
  /\ c \in Seq(SampPoints)
  /\ \A i \in 1..Len(c) : SampUpTo(c[i], z)
  /\ \A i \in 1..(Len(c) - 1) : SampUpTo(c[i], c[i + 1])

SampRecent(r, a, n) ==
  /\ r = <<r[1], r[2]>> /\ r[1] \in SampPoints /\ r[2] \in SampPoints
  /\ SampUpTo(r[1], r[2]) /\ SampUpTo(r[2], Sampler!Point(n, a))

SampAcks(r, c, a, n) ==
  /\ SampRecent(r, a, n)
  /\ SampAscend(c, Sampler!LessRecentPoint(r))
  /\ ~Avoid => c = <<>>

(* A point.                                                                *)
LEMMA SampPoint ==
  ASSUME NEW n \in Nat, NEW a \in Nat
  PROVE  /\ Sampler!Point(n, a) \in SampPoints
         /\ Sampler!Point(n, a).t = n /\ Sampler!Point(n, a).bytes = a
BY DEF SampPoints, Sampler!Point

(* Points in order up to z are in order up to a later one.                 *)
LEMMA SampFurther ==
  ASSUME NEW x \in SampPoints, NEW z \in SampPoints, SampUpTo(x, z), NEW c, SampAscend(c, x)
  PROVE  SampAscend(c, z)
<1>1. ASSUME NEW i \in 1..Len(c) PROVE SampUpTo(c[i], z)
  <2>1. c[i] \in SampPoints
    BY DEF SampAscend
  <2> QED
    BY <2>1 DEF SampAscend, SampUpTo, SampPoints
<1> QED
  BY <1>1 DEF SampAscend

(* The less recent of two points is one of them.                           *)
LEMMA SampLess ==
  ASSUME NEW a \in Nat, NEW n \in Nat, NEW r, SampRecent(r, a, n)
  PROVE  /\ Sampler!LessRecentPoint(r) \in SampPoints
         /\ SampUpTo(Sampler!LessRecentPoint(r), r[2])
         /\ SampUpTo(Sampler!LessRecentPoint(r), Sampler!Point(n, a))
BY DEF SampRecent, Sampler!LessRecentPoint, SampUpTo, Sampler!Point, SampPoints

(* recentAckPoints.Update: the less recent point does not go back.         *)
LEMMA SampRecentUpdate ==
  ASSUME NEW a \in Nat, NEW n \in Nat, NEW r, SampRecent(r, a, n)
  PROVE  /\ SampRecent(Sampler!RecentUpdate(r, n, a + 1), a + 1, n)
         /\ SampUpTo(Sampler!LessRecentPoint(r),
                     Sampler!LessRecentPoint(Sampler!RecentUpdate(r, n, a + 1)))
<1>1. PICK x \in SampPoints, y \in SampPoints : x = r[1] /\ y = r[2] /\ r = <<x, y>>
  BY DEF SampRecent
<1>2. /\ x.t \in Nat /\ x.bytes \in Nat /\ y.t \in Nat /\ y.bytes \in Nat
      /\ x.t <= y.t /\ x.bytes <= y.bytes /\ y.t <= n /\ y.bytes <= a
  BY <1>1 DEF SampRecent, SampUpTo, SampPoints, Sampler!Point
<1>3. PICK p \in SampPoints : p = Sampler!Point(n, a + 1) /\ p.t = n /\ p.bytes = a + 1
  <2>1. a + 1 \in Nat
    OBVIOUS
  <2> QED
    BY <2>1, SampPoint
<1>4. CASE n > y.t
  <2>1. Sampler!RecentUpdate(r, n, a + 1) = <<y, p>>
    BY <1>1, <1>3, <1>4 DEF Sampler!RecentUpdate
  <2> QED
    BY <2>1, <1>1, <1>2, <1>3 DEF SampRecent, SampUpTo, Sampler!LessRecentPoint
<1>5. CASE ~(n > y.t)
  <2>1. Sampler!RecentUpdate(r, n, a + 1) = <<x, p>>
    BY <1>1, <1>3, <1>5 DEF Sampler!RecentUpdate
  <2> QED
    BY <2>1, <1>1, <1>2, <1>3 DEF SampRecent, SampUpTo, Sampler!LessRecentPoint
<1> QED
  BY <1>4, <1>5

(* What is left of the candidates when the first are dropped.              *)
LEMMA SampTail ==
  ASSUME NEW z, NEW c, SampAscend(c, z), NEW k \in 1..Len(c)
  PROVE  SampAscend(SubSeq(c, k, Len(c)), z)
<1>0. c \in Seq(SampPoints) /\ Len(c) \in Nat
  BY DEF SampAscend
<1>1. PICK d : d = SubSeq(c, k, Len(c))
  OBVIOUS
<1>2. /\ d \in Seq(SampPoints) /\ Len(d) = Len(c) - k + 1
      /\ \A i \in 1..Len(d) : d[i] = c[k + i - 1]
  BY <1>0, <1>1, SubSeqProperties
<1>3. ASSUME NEW i \in 1..Len(d) PROVE SampUpTo(d[i], z)
  BY <1>0, <1>2 DEF SampAscend
<1>4. ASSUME NEW i \in 1..(Len(d) - 1) PROVE SampUpTo(d[i], d[i + 1])
  <2>1. k + i - 1 \in 1..(Len(c) - 1)
    BY <1>0, <1>2
  <2>2. SampUpTo(c[k + i - 1], c[(k + i - 1) + 1])
    BY <2>1 DEF SampAscend
  <2>3. d[i] = c[k + i - 1] /\ d[i + 1] = c[k + (i + 1) - 1]
    BY <1>0, <1>2
  <2>4. k + (i + 1) - 1 = (k + i - 1) + 1
    OBVIOUS
  <2> QED
    BY <2>2, <2>3, <2>4
<1> QED
  BY <1>1, <1>2, <1>3, <1>4 DEF SampAscend

(* chooseA0Point answers a candidate and leaves candidates in order.       *)
LEMMA SampChoose ==
  ASSUME NEW z, NEW c, SampAscend(c, z), c # <<>>, NEW bytes
  PROVE  /\ Sampler!chooseA0Point(c, bytes).a0 \in SampPoints
         /\ SampAscend(Sampler!chooseA0Point(c, bytes).rest, z)
<1>0. c \in Seq(SampPoints) /\ Len(c) \in Nat \ {0}
  BY DEF SampAscend
<1>1. PICK n \in Nat \ {0} : n = Len(c)
  BY <1>0
<1>2. \A i \in 1..n : c[i] \in SampPoints
  BY <1>0, <1>1
<1>3. CASE n = 1
  <2>1. Sampler!chooseA0Point(c, bytes) = [a0 |-> c[1], rest |-> c]
    BY <1>1, <1>3 DEF Sampler!chooseA0Point
  <2> QED
    BY <2>1, <1>2, <1>3
<1> DEFINE later == {i \in 2..n : c[i].bytes > bytes}
<1>4. CASE n # 1 /\ later # {}
  <2>1. PICK i : i = CHOOSE k \in later : \A j \in later : k <= j
    OBVIOUS
  <2>2. i \in later
    <3>1. later \in SUBSET Nat
      OBVIOUS
    <3>2. \E k \in later : \A j \in later : k <= j
      <4> HIDE DEF later
      <4> QED
        BY <1>4, <3>1, LeastOf
    <3> HIDE DEF later
    <3> QED
      BY <2>1, <3>2
  <2>3. Sampler!chooseA0Point(c, bytes) = [a0 |-> c[i - 1], rest |-> SubSeq(c, i - 1, n)]
    BY <1>1, <1>4, <2>1 DEF Sampler!chooseA0Point
  <2>4. i - 1 \in 1..n
    BY <2>2
  <2> QED
    BY <2>3, <2>4, <1>1, <1>2, SampTail
<1>5. CASE n # 1 /\ later = {}
  <2>1. Sampler!chooseA0Point(c, bytes) = [a0 |-> c[n], rest |-> SubSeq(c, n \div 2 + 1, n)]
    BY <1>1, <1>5 DEF Sampler!chooseA0Point
  <2>2. n \div 2 + 1 \in 1..n
    BY <1>5
  <2> QED
    BY <2>1, <2>2, <1>1, <1>2, SampTail
<1> QED
  BY <1>3, <1>4, <1>5

(***************************************************************************)
(* The sampler x at time n, and what it keeps of a packet p.               *)
(***************************************************************************)
SampFields ==
  {"sent", "acked", "lost", "sentAtAck", "ackedSent", "ackedAt", "last", "limited",
   "endLimited", "recent", "cand", "atEvent", "tracker"}

SampCore(x, n) ==
  /\ x = [f \in SampFields |-> x[f]]
  /\ x.sent \in Nat /\ x.acked \in Nat /\ x.sentAtAck \in Nat /\ x.ackedSent \in Nat
  /\ x.ackedAt \in Nat /\ x.last \in Nat /\ x.atEvent \in Nat
  /\ SampAcks(x.recent, x.cand, x.acked, n)

SampSent(p) ==
  /\ p.at \in Nat /\ p.sentAtAck \in Nat /\ p.ackedSent \in Nat
  /\ p.ackedAt \in Nat /\ p.sent \in Nat /\ p.acked \in Nat

(* New candidates.                                                         *)
LEMMA SampNewCand ==
  ASSUME NEW n, NEW x, SampCore(x, n), NEW c, SampAcks(x.recent, c, x.acked, n)
  PROVE  /\ SampCore([x EXCEPT !.cand = c], n)
         /\ \A f \in SampFields \ {"cand"} : [x EXCEPT !.cand = c][f] = x[f]
BY DEF SampCore, SampFields

(* The books of an acknowledged packet.                                    *)
LEMMA SampAcked ==
  ASSUME now \in Nat, NEW x, SampCore(x, now), NEW p, SampSent(p), NEW pn
  PROVE  /\ SampCore(Sampler!Acked(x, p, pn), now)
         /\ Sampler!Acked(x, p, pn).tracker = x.tracker
         /\ Sampler!Acked(x, p, pn).last = x.last
         /\ Sampler!Acked(x, p, pn).atEvent = x.atEvent
<1>1. PICK r, l : /\ r = IF Avoid THEN Sampler!RecentUpdate(x.recent, now, x.acked + 1)
                          ELSE x.recent
                  /\ l = (x.limited /\ x.endLimited # Sampler!Invalid /\ pn <= x.endLimited)
  OBVIOUS
<1>2. x.acked \in Nat /\ SampAcks(x.recent, x.cand, x.acked, now)
  BY DEF SampCore
<1>3. SampAcks(r, x.cand, x.acked + 1, now)
  <2>0. SampRecent(x.recent, x.acked, now)
    BY <1>2 DEF SampAcks
  <2>1. CASE Avoid
    <3>1. /\ SampRecent(r, x.acked + 1, now)
          /\ SampUpTo(Sampler!LessRecentPoint(x.recent), Sampler!LessRecentPoint(r))
      BY <1>1, <1>2, <2>0, <2>1, SampRecentUpdate
    <3>2. x.acked + 1 \in Nat
      BY <1>2
    <3>3. Sampler!LessRecentPoint(r) \in SampPoints /\ Sampler!LessRecentPoint(x.recent) \in SampPoints
      BY <3>1, <3>2, <2>0, <1>2, SampLess
    <3>4. SampAscend(x.cand, Sampler!LessRecentPoint(r))
      BY <3>1, <3>3, <1>2, SampFurther DEF SampAcks
    <3> QED
      BY <3>1, <3>4, <2>1 DEF SampAcks
  <2>2. CASE ~Avoid
    <3>1. r = x.recent
      BY <1>1, <2>2
    <3>2. SampRecent(x.recent, x.acked + 1, now)
      BY <2>0, <1>2 DEF SampRecent, SampUpTo, Sampler!Point, SampPoints
    <3> QED
      BY <3>1, <3>2, <1>2 DEF SampAcks
  <2> QED
    BY <2>1, <2>2
<1>4. PICK a \in Nat : a = x.acked + 1
  BY <1>2
<1>5. PICK y : y = [x EXCEPT !.acked = a, !.sentAtAck = p.sent, !.ackedSent = p.at,
                             !.ackedAt = now, !.recent = r, !.limited = l]
  OBVIOUS
<1>6. Sampler!Acked(x, p, pn) = y
  BY <1>1, <1>4, <1>5 DEF Sampler!Acked
<1>7. /\ y = [f \in SampFields |-> y[f]]
      /\ y.acked = a /\ y.sentAtAck = p.sent /\ y.ackedSent = p.at /\ y.ackedAt = now
      /\ y.recent = r /\ y.cand = x.cand /\ y.sent = x.sent /\ y.last = x.last
      /\ y.atEvent = x.atEvent /\ y.tracker = x.tracker
  <2>1. x = [f \in SampFields |-> x[f]]
    BY DEF SampCore
  <2> QED
    BY <1>5, <2>1 DEF SampFields
<1> QED
  BY <1>3, <1>4, <1>6, <1>7 DEF SampCore, SampSent

(* The samples of an event that is under way.                              *)
SampEvent(e) ==
  /\ e = [s |-> e.s, bw |-> e.bw, limited |-> e.limited]
  /\ SampCore(e.s, now) /\ e.bw \in Int
  /\ e.s.tracker = s.tracker /\ e.s.last = s.last

(* A rate is a number where time has passed.                               *)
LEMMA SampRate ==
  ASSUME NEW x \in Int, NEW d \in Int, d > 0
  PROVE  Sampler!Rate(x, d) \in Int
<1>1. PICK z \in Int : z = Scale * x
  <2>1. Scale \in Int
    BY NodeAssumption DEF Sampler!SamplerAssumption
  <2> QED
    BY <2>1
<1>2. z \div d \in Int
  OBVIOUS
<1> QED
  BY <1>1, <1>2 DEF Sampler!Rate

(* The rate a packet was sent at.                                          *)
LEMMA SampSendRate ==
  ASSUME NEW p, SampSent(p)
  PROVE  Sampler!sendRate(p) \in Int
<1>1. p.at \in Nat /\ p.ackedSent \in Nat /\ p.sent - p.sentAtAck \in Int
  BY DEF SampSent
<1>2. CASE p.at > p.ackedSent
  <2>1. p.at - p.ackedSent \in Int /\ p.at - p.ackedSent > 0
    BY <1>1, <1>2
  <2> QED
    BY <1>1, <1>2, <2>1, SampRate DEF Sampler!sendRate
<1>3. CASE ~(p.at > p.ackedSent)
  <2>1. Scale \in Int /\ MaxPacket + 1 \in Int
    BY NodeAssumption DEF Sampler!SamplerAssumption
  <2>2. Scale * (MaxPacket + 1) \in Int
    BY <2>1
  <2> QED
    BY <1>3, <2>2 DEF Sampler!sendRate, Sampler!Infinite
<1> QED
  BY <1>2, <1>3

(* What A0 answers.                                                        *)
LEMMA SampA0 ==
  ASSUME NEW x, NEW n, SampCore(x, n), NEW p, SampSent(p)
  PROVE  /\ Sampler!A0(x, p).a0 \in SampPoints
         /\ SampAcks(x.recent, Sampler!A0(x, p).rest, x.acked, n)
<1>1. SampAcks(x.recent, x.cand, x.acked, n)
  BY DEF SampCore
<1>2. CASE Avoid /\ x.cand # <<>>
  <2>1. Sampler!A0(x, p) = Sampler!chooseA0Point(x.cand, p.acked)
    BY <1>2 DEF Sampler!A0
  <2>2. /\ Sampler!A0(x, p).a0 \in SampPoints
        /\ SampAscend(Sampler!A0(x, p).rest, Sampler!LessRecentPoint(x.recent))
    BY <1>1, <1>2, <2>1, SampChoose DEF SampAcks
  <2> QED
    BY <1>1, <1>2, <2>2 DEF SampAcks
<1>3. CASE ~(Avoid /\ x.cand # <<>>)
  <2>1. Sampler!A0(x, p) = [a0 |-> Sampler!Point(p.ackedAt, p.acked), rest |-> x.cand]
    BY <1>3 DEF Sampler!A0
  <2>2. Sampler!Point(p.ackedAt, p.acked) \in SampPoints
    BY SampPoint DEF SampSent
  <2> QED
    BY <1>1, <2>1, <2>2
<1> QED
  BY <1>2, <1>3

(* onPacketAcknowledged keeps the sampler and leaves the tracker alone.    *)
LEMMA SampOnePacket ==
  ASSUME now \in Nat, NEW e, SampEvent(e), NEW pn,
         \A p \in DOMAIN states : SampSent(states[p])
  PROVE  SampEvent(Sampler!onPacketAcknowledged(e, pn))
<1>1. CASE pn \notin DOMAIN states
  BY <1>1 DEF Sampler!onPacketAcknowledged
<1>2. CASE pn \in DOMAIN states
  <2>1. PICK p : p = states[pn]
    OBVIOUS
  <2>2. SampSent(p)
    BY <1>2, <2>1
  <2>3. PICK x : x = Sampler!Acked(e.s, p, pn)
    OBVIOUS
  <2>4. SampCore(x, now) /\ x.tracker = s.tracker /\ x.last = s.last
    BY <2>2, <2>3, SampAcked DEF SampEvent
  <2>5. PICK c : c = Sampler!A0(x, p)
    OBVIOUS
  <2>6. c.a0 \in SampPoints /\ SampAcks(x.recent, c.rest, x.acked, now)
    BY <2>2, <2>4, <2>5, SampA0
  <2>7. PICK y : y = [x EXCEPT !.cand = c.rest]
    OBVIOUS
  <2>8. SampCore(y, now) /\ y.tracker = s.tracker /\ y.last = s.last
    BY <2>4, <2>6, <2>7, SampNewCand DEF SampFields
  <2>9. PICK w : w = Sampler!Least(Sampler!sendRate(p),
                       Sampler!Rate(x.acked - c.a0.bytes, now - c.a0.t))
    OBVIOUS
  <2>10. Sampler!onPacketAcknowledged(e, pn) =
           IF p.ackedSent = 0 THEN [e EXCEPT !.s = x]
           ELSE IF now <= c.a0.t THEN [e EXCEPT !.s = y]
           ELSE [s |-> y, bw |-> Sampler!Most(e.bw, w),
                 limited |-> IF w > e.bw THEN p.limited ELSE e.limited]
    BY <1>2, <2>1, <2>3, <2>5, <2>7, <2>9 DEF Sampler!onPacketAcknowledged
  <2>11. ASSUME NEW z, SampCore(z, now), z.tracker = s.tracker, z.last = s.last
         PROVE  SampEvent([e EXCEPT !.s = z])
    <3>1. PICK i, l : i = e.bw /\ l = e.limited /\ i \in Int
      BY DEF SampEvent
    <3>2. e = [s |-> e.s, bw |-> i, limited |-> l]
      BY <3>1 DEF SampEvent
    <3>3. [e EXCEPT !.s = z] = [s |-> z, bw |-> i, limited |-> l]
      BY <3>2
    <3> QED
      BY <2>11, <3>3 DEF SampEvent
  <2>12. CASE p.ackedSent # 0 /\ ~(now <= c.a0.t)
    <3>1. c.a0.t \in Nat /\ c.a0.bytes \in Nat /\ x.acked \in Nat
      BY <2>4, <2>6 DEF SampPoints, SampCore
    <3>2. x.acked - c.a0.bytes \in Int /\ now - c.a0.t \in Int /\ now - c.a0.t > 0
      BY <3>1, <2>12
    <3>3. Sampler!Rate(x.acked - c.a0.bytes, now - c.a0.t) \in Int
      BY <3>2, SampRate
    <3>4. w \in Int
      BY <2>2, <2>9, <3>3, SampSendRate DEF Sampler!Least
    <3>5. Sampler!Most(e.bw, w) \in Int
      BY <3>4 DEF Sampler!Most, SampEvent
    <3>6. PICK l : l = IF w > e.bw THEN p.limited ELSE e.limited
      OBVIOUS
    <3>7. Sampler!onPacketAcknowledged(e, pn) = [s |-> y, bw |-> Sampler!Most(e.bw, w), limited |-> l]
      BY <2>10, <2>12, <3>6
    <3> QED
      BY <3>5, <3>7, <2>8 DEF SampEvent
  <2>13. CASE p.ackedSent = 0
    BY <2>10, <2>13, <2>11, <2>4
  <2>14. CASE p.ackedSent # 0 /\ now <= c.a0.t
    BY <2>10, <2>14, <2>11, <2>8
  <2> QED
    BY <2>12, <2>13, <2>14
<1> QED
  BY <1>1, <1>2

(* And so do the acknowledgements of an event, in turn.                    *)
LEMMA SampAllPackets ==
  ASSUME now \in Nat, s.last \in Nat, NEW first, SampEvent(first), NEW ack,
         \A p \in DOMAIN states : SampSent(states[p])
  PROVE  SampEvent(Sampler!onAcks(first, ack))
<1>1. PICK f : SampFold(f, ack, first, s.last) /\ Sampler!onAcks(first, ack) = f[s.last]
  BY SampAcksIs
<1>2. \A n \in 0..s.last : f[n] = SampStep(f, ack, first, n)
  BY <1>1 DEF SampFold
<1> DEFINE Bad == {n \in 0..s.last : ~SampEvent(f[n])}
<1>3. ASSUME Bad # {} PROVE FALSE
  <2>1. Bad \in SUBSET Nat
    OBVIOUS
  <2>2. PICK i \in Bad : \A j \in Bad : i <= j
    <3> HIDE DEF Bad
    <3> QED
      BY <1>3, <2>1, LeastOf
  <2>3. i # 0
    BY <1>2, <2>2 DEF SampStep
  <2>4. i - 1 \in 0..s.last /\ i - 1 \notin Bad
    BY <2>2, <2>3
  <2>5. SampEvent(f[i - 1])
    BY <2>4
  <2>6. f[i] = IF i \in ack THEN Sampler!onPacketAcknowledged(f[i - 1], i) ELSE f[i - 1]
    BY <1>2, <2>2, <2>3 DEF SampStep
  <2>7. SampEvent(f[i])
    BY <2>5, <2>6, SampOnePacket
  <2> QED
    BY <2>2, <2>7
<1>4. s.last \in 0..s.last
  OBVIOUS
<1> QED
  BY <1>1, <1>3, <1>4

(***************************************************************************)
(* The state of the sampler and of the sender's filter, and the packets in *)
(* flight.                                                                 *)
(***************************************************************************)
SampHeld ==
  /\ \A p \in DOMAIN states : SampSent(states[p])
  /\ fly \subseteq DOMAIN states /\ fly \subseteq 1..s.last

SampInv ==
  /\ now \in Nat /\ acked \in Nat /\ round.count \in Nat
  /\ SampCore(s, now)
  /\ SampTracker(s.tracker, round.count)
  /\ SampFilter(best, Int, round.count) /\ SampSpan(best)
  /\ SampHeld

(* The sampler starts so.                                                  *)
LEMMA SampInit ==
  ASSUME Sampler!Init
  PROVE  SampInv
<1>1. /\ s.sent = 0 /\ s.acked = 0 /\ s.sentAtAck = 0 /\ s.ackedSent = 0 /\ s.ackedAt = 0
      /\ s.last = 0 /\ s.atEvent = 0 /\ s.cand = <<>>
      /\ s.recent = <<Sampler!Point(0, 0), Sampler!Point(0, 0)>>
      /\ s.tracker = [filter |-> Sampler!Reset(Sampler!NoExtra, 0, 0), bytes |-> 0, start |-> 0]
      /\ s = [f \in SampFields |-> s[f]]
  BY DEF Sampler!Init, SampFields, Sampler!Invalid
<1>2. SampAcks(s.recent, s.cand, s.acked, now)
  <2>1. PICK z \in SampPoints : z = Sampler!Point(0, 0) /\ z.t = 0 /\ z.bytes = 0
    BY SampPoint
  <2>2. now = 1
    BY DEF Sampler!Init
  <2>3. SampRecent(<<z, z>>, 0, now)
    BY <2>1, <2>2 DEF SampRecent, SampUpTo, Sampler!Point
  <2>4. \A x : SampAscend(<<>>, x)
    BY DEF SampAscend
  <2> QED
    BY <1>1, <2>1, <2>3, <2>4 DEF SampAcks
<1>3. SampCore(s, now)
  BY <1>1, <1>2 DEF SampCore
<1>4. ASSUME NEW V, NEW v \in V
      PROVE  SampFilter(Sampler!Reset(v, 0, 0), V, 0) /\ SampSpan(Sampler!Reset(v, 0, 0))
  <2>1. PICK z : z = Sampler!Entry(v, 0, 0)
    OBVIOUS
  <2>2. z \in SampEntries(V, 0) /\ z.k = 0 /\ z.t = 0
    BY <2>1 DEF Sampler!Entry, SampEntries
  <2>3. SampFilter(<<z, z, z>>, V, 0)
    BY <2>2, SampThree
  <2>4. SampSpan(<<z, z, z>>)
    BY <2>2, NodeAssumption DEF SampSpan, Sampler!SamplerAssumption
  <2> QED
    BY <2>1, <2>3, <2>4 DEF Sampler!Reset
<1>5. round.count = 0
  BY DEF Sampler!Init
<1>6. SampTracker(s.tracker, round.count)
  <2>1. Sampler!NoExtra \in SampExtra
    BY DEF Sampler!NoExtra, SampExtra
  <2>2. PICK f : f = Sampler!Reset(Sampler!NoExtra, 0, 0) /\ SampFilter(f, SampExtra, 0)
    BY <2>1, <1>4
  <2> QED
    BY <1>1, <1>5, <2>2 DEF SampTracker
<1>7. SampFilter(best, Int, round.count) /\ SampSpan(best)
  <2>1. best = Sampler!Reset(0, 0, 0)
    BY DEF Sampler!Init
  <2> QED
    BY <2>1, <1>4, <1>5
<1>8. SampHeld
  BY DEF Sampler!Init, SampHeld
<1> QED
  BY <1>3, <1>5, <1>6, <1>7, <1>8 DEF SampInv, Sampler!Init

(* A new packet.                                                           *)
LEMMA SampOnPacketSent ==
  ASSUME SampInv, NEW k, Sampler!OnPacketSent(k)
  PROVE  SampInv'
<1>1. /\ now \in Nat /\ now' = now /\ acked' = acked /\ best' = best /\ round' = round
      /\ SampCore(s, now)
  BY DEF SampInv, Sampler!OnPacketSent
<1>2. PICK n \in Nat : n = s.last + 1
  BY <1>1 DEF SampCore
<1>3. PICK x : x = [s EXCEPT !.last = n]
  OBVIOUS
<1>4. /\ SampCore(x, now) /\ x.last = n /\ x.tracker = s.tracker /\ x.sent = s.sent
      /\ x.acked = s.acked
  BY <1>1, <1>2, <1>3 DEF SampCore, SampFields
<1>5. CASE ~k
  <2>1. s' = x /\ states' = states /\ fly' = fly
    BY <1>2, <1>3, <1>5 DEF Sampler!OnPacketSent
  <2>2. SampHeld'
    <3>1. 1..s.last \subseteq 1..n
      BY <1>1, <1>2 DEF SampCore
    <3> QED
      BY <3>1, <2>1, <1>4 DEF SampInv, SampHeld
  <2> QED
    BY <2>1, <2>2, <1>1, <1>4 DEF SampInv
<1>6. CASE k
  <2>1. PICK m2 \in Nat : m2 = x.sent + 1
    BY <1>4 DEF SampCore
  <2>2. PICK y : y = [x EXCEPT !.sent = m2]
    OBVIOUS
  <2>3. /\ SampCore(y, now) /\ y.last = n /\ y.tracker = s.tracker /\ y.sent = m2
        /\ y.acked = s.acked
    BY <1>4, <2>1, <2>2 DEF SampCore, SampFields
  <2>4. PICK r, c : /\ r = IF Avoid THEN <<Sampler!Point(0, 0), Sampler!Point(now, s.acked)>> ELSE y.recent
                    /\ c = IF Avoid THEN <<Sampler!Point(now, s.acked)>> ELSE y.cand
    OBVIOUS
  <2>5. SampAcks(r, c, y.acked, now)
    <3>1. CASE ~Avoid
      BY <2>3, <2>4, <3>1 DEF SampCore
    <3>2. CASE Avoid
      <4>1. PICK a \in Nat : a = s.acked /\ a = y.acked
        BY <2>3 DEF SampCore
      <4>2. PICK z \in SampPoints : z = Sampler!Point(0, 0) /\ z.t = 0 /\ z.bytes = 0
        BY SampPoint
      <4>3. PICK p \in SampPoints : p = Sampler!Point(now, a) /\ p.t = now /\ p.bytes = a
        BY <1>1, SampPoint
      <4>4. r = <<z, p>> /\ c = <<p>>
        BY <2>4, <3>2, <4>1, <4>2, <4>3
      <4>5. SampRecent(<<z, p>>, a, now)
        BY <1>1, <4>2, <4>3 DEF SampRecent, SampUpTo
      <4>6. Sampler!LessRecentPoint(<<z, p>>) = p
        BY <4>2 DEF Sampler!LessRecentPoint
      <4>7. SampAscend(<<p>>, p)
        BY <4>3, <1>1 DEF SampAscend, SampUpTo
      <4> QED
        BY <3>2, <4>1, <4>4, <4>5, <4>6, <4>7 DEF SampAcks
    <3> QED
      BY <3>1, <3>2
  <2>6. PICK w : w = [y EXCEPT !.ackedAt = now, !.sentAtAck = y.sent, !.ackedSent = now,
                               !.recent = r, !.cand = c]
    OBVIOUS
  <2>7. SampCore(w, now) /\ w.last = n /\ w.tracker = s.tracker
    <3>1. /\ w = [f \in SampFields |-> w[f]]
          /\ w.ackedAt = now /\ w.sentAtAck = m2 /\ w.ackedSent = now /\ w.recent = r
          /\ w.cand = c /\ w.last = n /\ w.tracker = s.tracker /\ w.acked = y.acked
          /\ w.atEvent = y.atEvent /\ w.sent = m2
      <4>1. y = [f \in SampFields |-> y[f]]
        BY <2>3 DEF SampCore
      <4> QED
        BY <2>3, <2>6, <4>1 DEF SampFields
    <3> QED
      BY <3>1, <2>3, <2>5, <1>1, <1>2 DEF SampCore
  <2>8. PICK z : z = IF fly # {} THEN y ELSE w
    OBVIOUS
  <2>9. SampCore(z, now) /\ z.last = n /\ z.tracker = s.tracker
    BY <2>3, <2>7, <2>8
  <2>10. /\ s' = z /\ fly' = fly \cup {n}
         /\ states' = Sampler!Emplace(states, n, Sampler!SendState(z))
    BY <1>2, <1>3, <1>6, <2>1, <2>2, <2>4, <2>6, <2>8 DEF Sampler!OnPacketSent
  <2>11. SampSent(Sampler!SendState(z))
    BY <2>9, <1>1 DEF SampSent, Sampler!SendState, SampCore
  <2>12. SampHeld'
    <3>1. 1..s.last \subseteq 1..n /\ n \in 1..n
      BY <1>1, <1>2 DEF SampCore
    <3>2. /\ DOMAIN states' = DOMAIN states \cup {n}
          /\ \A p \in DOMAIN states' : states'[p] = Sampler!SendState(z) \/ (p \in DOMAIN states /\ states'[p] = states[p])
      BY <2>10 DEF Sampler!Emplace
    <3>3. \A p \in DOMAIN states' : SampSent(states'[p])
      BY <3>2, <2>11 DEF SampInv, SampHeld
    <3> QED
      BY <3>1, <3>2, <3>3, <2>9, <2>10 DEF SampInv, SampHeld
  <2> QED
    BY <2>9, <2>10, <2>12, <1>1 DEF SampInv
<1> QED
  BY <1>5, <1>6

(* A tracker remains one as rounds pass.                                   *)
LEMMA SampTrackerLater ==
  ASSUME NEW n \in Nat, NEW q \in Nat, n <= q, NEW w, SampTracker(w, n)
  PROVE  SampTracker(w, q)
BY SampLater DEF SampTracker

(* OnAppLimited.                                                           *)
LEMMA SampLimited ==
  ASSUME NEW n, NEW x, SampCore(x, n)
  PROVE  /\ SampCore(Sampler!OnAppLimited(x), n)
         /\ Sampler!OnAppLimited(x).tracker = x.tracker
         /\ Sampler!OnAppLimited(x).last = x.last
BY DEF SampCore, SampFields, Sampler!OnAppLimited

(* The candidate an event leaves.                                          *)
LEMMA SampAppend ==
  ASSUME NEW a \in Nat, NEW n \in Nat, NEW r, NEW c, SampAcks(r, c, a, n), Avoid
  PROVE  SampAcks(r, Append(c, Sampler!LessRecentPoint(r)), a, n)
<1>1. PICK z : z = Sampler!LessRecentPoint(r)
  OBVIOUS
<1>2. z \in SampPoints
  BY <1>1, SampLess DEF SampAcks
<1>3. c \in Seq(SampPoints) /\ Len(c) \in Nat /\ SampAscend(c, z)
  BY <1>1 DEF SampAcks, SampAscend
<1>4. PICK d : d = Append(c, z)
  OBVIOUS
<1>5. /\ d \in Seq(SampPoints) /\ Len(d) = Len(c) + 1 /\ d[Len(c) + 1] = z
      /\ \A i \in 1..Len(c) : d[i] = c[i]
  BY <1>2, <1>3, <1>4, AppendProperties
<1>6. SampUpTo(z, z)
  BY <1>2 DEF SampUpTo, SampPoints
<1>7. ASSUME NEW i \in 1..Len(d) PROVE SampUpTo(d[i], z)
  <2>1. i \in 1..Len(c) \/ i = Len(c) + 1
    BY <1>3, <1>5
  <2> QED
    BY <2>1, <1>3, <1>5, <1>6 DEF SampAscend
<1>8. ASSUME NEW i \in 1..(Len(d) - 1) PROVE SampUpTo(d[i], d[i + 1])
  <2>1. CASE i \in 1..(Len(c) - 1)
    <3>1. i \in 1..Len(c) /\ i + 1 \in 1..Len(c)
      BY <2>1, <1>3
    <3>2. SampUpTo(c[i], c[i + 1])
      BY <2>1, <1>3 DEF SampAscend
    <3> QED
      BY <3>1, <3>2, <1>5
  <2>2. CASE i = Len(c)
    <3>1. d[i] = c[i] /\ d[i + 1] = z /\ i \in 1..Len(c)
      BY <2>2, <1>3, <1>5
    <3> QED
      BY <3>1, <1>3 DEF SampAscend
  <2> QED
    BY <2>1, <2>2, <1>3, <1>5
<1>9. SampAscend(d, z)
  BY <1>5, <1>7, <1>8 DEF SampAscend
<1> QED
  BY <1>1, <1>4, <1>9 DEF SampAcks

(* onAckEventEnd keeps the sampler, and its tracker in the round of the    *)
(* event.                                                                  *)
LEMMA SampEventEnd ==
  ASSUME SampInv, NEW e, SampEvent(e), NEW q \in Nat, round.count <= q
  PROVE  /\ SampCore(Sampler!onAckEventEnd(e, q), now)
         /\ Sampler!onAckEventEnd(e, q).last = s.last
         /\ SampTracker(Sampler!onAckEventEnd(e, q).tracker, q)
<1>1. PICK x : x = e.s
  OBVIOUS
<1>2. /\ SampCore(x, now) /\ x.last = s.last /\ x.tracker = s.tracker /\ e.bw \in Int
  BY <1>1 DEF SampEvent
<1>3. PICK t : t = Sampler!TrackerUpdate(x.tracker, Sampler!Most(best[1].v, e.bw),
                      e.bw > best[1].v, q, x.ackedAt, x.acked - x.atEvent)
  OBVIOUS
<1>4. SampTracker(s.tracker, round.count) /\ round.count \in Nat /\ now \in Nat
  BY DEF SampInv
<1>5. SampTracker(t.tracker, q)
  <2>1. best[1].v \in Int
    BY DEF SampInv, SampFilter, SampEntries
  <2>2. Sampler!Most(best[1].v, e.bw) \in Int
    BY <2>1, <1>2 DEF Sampler!Most
  <2>3. x.ackedAt \in Int /\ x.acked - x.atEvent \in Int
    BY <1>2 DEF SampCore
  <2> QED
    BY <1>2, <1>3, <1>4, <2>2, <2>3, SampTrackerUpdate
<1>6. CASE x.acked - x.atEvent = 0
  <2>1. Sampler!onAckEventEnd(e, q) = x
    BY <1>1, <1>6 DEF Sampler!onAckEventEnd
  <2> QED
    BY <2>1, <1>2, <1>4, SampTrackerLater
<1>7. CASE x.acked - x.atEvent # 0
  <2>1. PICK c : c = IF Avoid /\ t.extra = 0
                       THEN Append(x.cand, Sampler!LessRecentPoint(x.recent)) ELSE x.cand
    OBVIOUS
  <2>2. SampAcks(x.recent, c, x.acked, now)
    <3>1. SampAcks(x.recent, x.cand, x.acked, now) /\ x.acked \in Nat
      BY <1>2 DEF SampCore
    <3> QED
      BY <2>1, <3>1, <1>4, SampAppend
  <2>3. PICK y : y = [x EXCEPT !.atEvent = x.acked, !.tracker = t.tracker, !.cand = c]
    OBVIOUS
  <2>4. Sampler!onAckEventEnd(e, q) = y
    BY <1>1, <1>3, <1>7, <2>1, <2>3 DEF Sampler!onAckEventEnd
  <2>5. /\ y = [f \in SampFields |-> y[f]]
        /\ y.atEvent = x.acked /\ y.tracker = t.tracker /\ y.cand = c /\ y.recent = x.recent
        /\ y.acked = x.acked /\ y.sent = x.sent /\ y.sentAtAck = x.sentAtAck
        /\ y.ackedSent = x.ackedSent /\ y.ackedAt = x.ackedAt /\ y.last = x.last
    <3>1. x = [f \in SampFields |-> x[f]]
      BY <1>2 DEF SampCore
    <3> QED
      BY <2>3, <3>1 DEF SampFields
  <2> QED
    BY <2>2, <2>4, <2>5, <1>2, <1>5 DEF SampCore
<1> QED
  BY <1>6, <1>7

(* What an event has sampled.                                              *)
LEMMA SampSampled ==
  ASSUME SampInv, NEW ack, NEW lost, NEW k
  PROVE  SampEvent(Sampler!Sampled(ack, lost, k))
<1>1. now \in Nat /\ SampCore(s, now) /\ s.last \in Nat
  BY DEF SampInv, SampCore
<1> DEFINE x == IF k THEN Sampler!OnAppLimited(s) ELSE s
           y == [x EXCEPT !.lost = @ + Sampler!Cardinality(lost)]
           e == [s |-> y, bw |-> 0, limited |-> FALSE]
<1>2. Sampler!Sampled(ack, lost, k) = Sampler!onAcks(e, ack)
  BY DEF Sampler!Sampled
<1>3. SampCore(x, now) /\ x.tracker = s.tracker /\ x.last = s.last
  BY <1>1, SampLimited
<1>4. SampCore(y, now) /\ y.tracker = s.tracker /\ y.last = s.last
  <2> HIDE DEF x
  <2>1. PICK v : v = x.lost + Sampler!Cardinality(lost)
    OBVIOUS
  <2>2. y = [x EXCEPT !.lost = v]
    BY <2>1
  <2> HIDE DEF y
  <2> QED
    BY <1>3, <2>2 DEF SampCore, SampFields
<1>5. SampEvent(e)
  <2> HIDE DEF y
  <2> QED
    BY <1>4 DEF SampEvent
<1>6. \A p \in DOMAIN states : SampSent(states[p])
  BY DEF SampInv, SampHeld
<1> HIDE DEF e
<1> QED
  BY <1>1, <1>2, <1>5, <1>6, SampAllPackets

(* OnCongestionEvent, if what it leaves in flight is not below what it     *)
(* takes for the least unacked packet.                                     *)
LEMMA SampOnCongestionEvent ==
  ASSUME SampInv, NEW ack \in SUBSET fly, NEW lost, NEW limit,
         Sampler!OnCongestionEvent(ack, lost, limit),
         \A p \in fly \ (ack \cup lost) : p >= Sampler!leastUnacked(ack, lost)
  PROVE  SampInv'
<1>1. /\ now \in Nat /\ now' = now /\ acked \in Nat /\ round.count \in Nat
      /\ fly \subseteq 1..s.last /\ s.last \in Nat
  BY DEF SampInv, SampHeld, SampCore, Sampler!OnCongestionEvent
<1>2. PICK q \in Nat : q = round'.count /\ round.count <= q
  <2>1. round'.count = round.count + 1 \/ round'.count = round.count
    BY DEF Sampler!OnCongestionEvent
  <2> QED
    BY <1>1, <2>1
<1>3. PICK e : e = Sampler!Sampled(ack, lost, limit = "before")
  OBVIOUS
<1>4. SampEvent(e)
  BY <1>3, SampSampled
<1>5. PICK x : x = Sampler!onAckEventEnd(e, q)
  OBVIOUS
<1>6. SampCore(x, now) /\ x.last = s.last /\ SampTracker(x.tracker, q)
  BY <1>2, <1>4, <1>5, SampEventEnd
<1>7. /\ s' = IF limit = "after" THEN Sampler!OnAppLimited(x) ELSE x
      /\ best' = Sampler!Update(best, e.bw, e.bw, q) \/ best' = best
  <2>1. q = IF ack # {} /\ (round.ends = Sampler!Invalid \/ Sampler!Greatest(ack) > round.ends)
            THEN round.count + 1 ELSE round.count
    BY <1>2 DEF Sampler!OnCongestionEvent
  <2>2. /\ s' = IF limit = "after" THEN Sampler!OnAppLimited(x) ELSE x
        /\ best' = IF e.s.acked # e.s.atEvent /\ (~e.limited \/ e.bw > best[1].v)
                     THEN Sampler!Update(best, e.bw, e.bw, q) ELSE best
    BY <1>3, <1>5, <2>1 DEF Sampler!OnCongestionEvent
  <2> QED
    BY <2>2
<1>8. SampCore(s', now) /\ s'.last = s.last /\ SampTracker(s'.tracker, q)
  BY <1>6, <1>7, SampLimited
<1>9. SampFilter(best', Int, q) /\ SampSpan(best')
  <2>1. SampFilter(best, Int, q) /\ SampSpan(best)
    BY <1>1, <1>2, SampLater DEF SampInv
  <2>2. e.bw \in Int
    BY <1>4 DEF SampEvent
  <2> QED
    BY <1>7, <2>1, <2>2, SampUpdate
<1>10. acked' \in Nat
  <2>1. CASE ack = {}
    BY <2>1, <1>1 DEF Sampler!OnCongestionEvent
  <2>2. CASE ack # {}
    <3>1. acked' = Sampler!Most(acked, Sampler!Greatest(ack))
      BY <2>2 DEF Sampler!OnCongestionEvent
    <3>2. Sampler!Greatest(ack) \in ack /\ ack \in SUBSET (1..s.last)
      BY <2>2, <1>1, SampGreatest
    <3> QED
      BY <3>1, <3>2, <1>1 DEF Sampler!Most
  <2> QED
    BY <2>1, <2>2
<1>11. SampHeld'
  <2>1. /\ states' = Sampler!RemoveUpTo(states, Sampler!leastUnacked(ack, lost))
        /\ fly' = fly \ (ack \cup lost)
    BY DEF Sampler!OnCongestionEvent
  <2>2. PICK k : k = Sampler!leastUnacked(ack, lost)
    OBVIOUS
  <2>3. /\ DOMAIN states' = {p \in DOMAIN states : p >= k}
        /\ \A p \in DOMAIN states' : states'[p] = states[p]
    BY <2>1, <2>2 DEF Sampler!RemoveUpTo
  <2>4. fly' \subseteq DOMAIN states'
    BY <2>1, <2>2, <2>3 DEF SampInv, SampHeld
  <2>5. \A p \in DOMAIN states' : SampSent(states'[p])
    BY <2>3 DEF SampInv, SampHeld
  <2> QED
    BY <2>1, <2>4, <2>5, <1>1, <1>8 DEF SampHeld
<1> QED
  BY <1>1, <1>2, <1>8, <1>9, <1>10, <1>11 DEF SampInv

(* An acknowledgement: what is left in flight is less than PacketThreshold *)
(* below the largest packet it acknowledges.                               *)
LEMMA SampAcknowledge ==
  ASSUME SampInv, Sampler!Acknowledge
  PROVE  SampInv'
<1>1. PICK ack \in (SUBSET fly) \ {{}}, limit \in Sampler!Limits :
        Sampler!OnCongestionEvent(ack, Sampler!Overtaken(ack), limit)
  BY DEF Sampler!Acknowledge
<1>2. PICK lost : lost = Sampler!Overtaken(ack)
  OBVIOUS
<1>3. fly \subseteq 1..s.last /\ s.last \in Nat /\ acked \in Nat
  BY DEF SampInv, SampHeld, SampCore
<1>4. ack \in SUBSET fly /\ ack # {} /\ ack \in SUBSET (1..s.last)
  BY <1>1, <1>3
<1>5. PICK g \in Nat : g = Sampler!Greatest(ack)
  <2>1. PICK h \in ack : h = Sampler!Greatest(ack)
    BY <1>3, <1>4, SampGreatest
  <2>2. h \in 1..s.last
    BY <1>4, <2>1
  <2>3. h \in Nat
    BY <1>3, <2>2
  <2> QED
    BY <2>1, <2>3
<1>6. PacketThreshold \in 1..3
  BY NodeAssumption DEF Sampler!SamplerAssumption
<1>7. ASSUME NEW p \in fly \ (ack \cup lost) PROVE p >= Sampler!leastUnacked(ack, lost)
  <2>1. p \in Nat /\ ~(p + PacketThreshold <= Sampler!Most(acked, g))
    BY <1>2, <1>3, <1>5 DEF Sampler!Overtaken
  <2>2. p + PacketThreshold > g
    BY <2>1, <1>3, <1>5, <1>6 DEF Sampler!Most
  <2>3. Sampler!leastUnacked(ack, lost) = g - 2
    BY <1>4, <1>5 DEF Sampler!leastUnacked
  <2> QED
    BY <2>1, <2>2, <2>3, <1>5, <1>6
<1> QED
  BY <1>1, <1>2, <1>4, <1>7, SampOnCongestionEvent

(* The loss timer takes all up to a packet.                                *)
LEMMA SampLossTimer ==
  ASSUME SampInv, Sampler!LossTimer
  PROVE  SampInv'
<1>1. PICK p \in fly, limit \in Sampler!Limits :
        Sampler!OnCongestionEvent({}, {q \in fly : q <= p}, limit)
  BY DEF Sampler!LossTimer
<1>2. PICK lost : lost = {q \in fly : q <= p}
  OBVIOUS
<1>3. fly \subseteq 1..s.last /\ s.last \in Nat /\ p \in Nat
  BY <1>1 DEF SampInv, SampHeld, SampCore
<1>4. PICK g \in lost : g = Sampler!Greatest(lost)
  <2>1. p \in lost
    BY <1>1, <1>2, <1>3
  <2>2. lost \in SUBSET (1..s.last)
    BY <1>2, <1>3
  <2> QED
    BY <2>1, <2>2, <1>3, SampGreatest
<1>5. ASSUME NEW q \in fly \ ({} \cup lost) PROVE q >= Sampler!leastUnacked({}, lost)
  <2>1. q \in Nat /\ g \in Nat /\ g <= p /\ ~(q <= p)
    BY <1>2, <1>3, <1>4
  <2>2. Sampler!leastUnacked({}, lost) = g + 1
    BY <1>4 DEF Sampler!leastUnacked
  <2> QED
    BY <2>1, <2>2, <1>3
<1>6. {} \in SUBSET fly /\ Sampler!OnCongestionEvent({}, lost, limit)
  BY <1>1, <1>2
<1> QED
  BY <1>5, <1>6, SampOnCongestionEvent

(* A tick: points and candidates are no later than before.                 *)
LEMMA SampTick ==
  ASSUME SampInv, Sampler!Tick
  PROVE  SampInv'
<1>1. /\ now \in Nat /\ now' = now + 1 /\ s' = s /\ states' = states /\ best' = best
      /\ round' = round /\ fly' = fly /\ acked' = acked /\ SampCore(s, now)
  BY DEF SampInv, Sampler!Tick
<1>2. SampRecent(s.recent, s.acked, now')
  <2>1. SampRecent(s.recent, s.acked, now)
    BY <1>1 DEF SampCore, SampAcks
  <2> QED
    BY <1>1, <2>1 DEF SampRecent, SampUpTo, Sampler!Point, SampPoints
<1>3. SampCore(s, now')
  BY <1>1, <1>2 DEF SampCore, SampAcks
<1> QED
  BY <1>1, <1>3 DEF SampInv, SampHeld

(* Every step of the sampler keeps the invariant.                          *)
LEMMA SampNext ==
  ASSUME SampInv, Sampler!Next
  PROVE  SampInv'
BY SampOnPacketSent, SampAcknowledge, SampLossTimer, SampTick DEF Sampler!Next

(* And so does one that leaves it alone.                                   *)
LEMMA SampStutter ==
  ASSUME SampInv, UNCHANGED samplerVars
  PROVE  SampInv'
BY DEF SampInv, SampHeld, samplerVars

(* What the invariant says of the filters and of the candidates.           *)
LEMMA SampKnown ==
  ASSUME SampInv
  PROVE  Sampler!KnownUntilResolved /\ Sampler!EstimatesOrdered /\ Sampler!CandidatesAscend
<1>1. Sampler!KnownUntilResolved
  BY DEF SampInv, SampHeld, Sampler!KnownUntilResolved
<1>2. Sampler!EstimatesOrdered
  <2>1. ASSUME NEW V, NEW n, NEW f, SampFilter(f, V, n) PROVE Sampler!Sorted(f)
    <3>1. SUFFICES ASSUME NEW i \in 1..2 PROVE f[i].k >= f[i + 1].k /\ f[i].t <= f[i + 1].t
      BY DEF Sampler!Sorted
    <3>2. i = 1 \/ i = 2
      OBVIOUS
    <3> QED
      BY <2>1, <3>2 DEF SampFilter
  <2> QED
    BY <2>1 DEF SampInv, SampTracker, SampSpan, Sampler!EstimatesOrdered
<1>3. Sampler!CandidatesAscend
  <2>1. /\ SampRecent(s.recent, s.acked, now) /\ SampAscend(s.cand, Sampler!LessRecentPoint(s.recent))
        /\ s.acked \in Nat /\ now \in Nat
    BY DEF SampInv, SampCore, SampAcks
  <2>2. /\ Sampler!LessRecentPoint(s.recent) \in SampPoints
        /\ SampUpTo(Sampler!LessRecentPoint(s.recent), Sampler!Point(now, s.acked))
        /\ Sampler!Point(now, s.acked) \in SampPoints
        /\ Sampler!Point(now, s.acked).t = now /\ Sampler!Point(now, s.acked).bytes = s.acked
    BY <2>1, SampLess, SampPoint
  <2>3. SampAscend(s.cand, Sampler!Point(now, s.acked))
    BY <2>1, <2>2, SampFurther
  <2> QED
    BY <2>2, <2>3 DEF SampAscend, SampUpTo, Sampler!CandidatesAscend
<1> QED
  BY <1>1, <1>2, <1>3

(* The inductive invariants of the parts.                                  *)
PartsHold ==
  /\ part = "auth" => Auth!CountInv
  /\ part = "udp" => UDP!FewInv
  /\ part = "bbr" => BbrInv
  /\ part = "sampler" => SampInv
  /\ part = "brutal" => BrutalInv
  /\ part = "start" => FwInv
  /\ part = "client" => DialInv
  /\ part = "stream" => StreamInv
  /\ part = "link" => LinkInv

(* The parts start as they do by themselves.                               *)
LEMMA PartsStart == Init => PartsHold
BY NodeAssumption, Auth!InitHolds, UDP!FewInit, BbrStarts, SampInit, BrutalStarts, FwStarts,
   DialStarts, StreamStarts, LinkStarts DEF Init, PartsHold

(* A step of the sum is one of a part, or leaves the part alone.           *)
LEMMA PartsStep ==
  ASSUME [Next]_vars
  PROVE  /\ part' = part
         /\ part = "auth" => Auth!Next \/ UNCHANGED authVars
         /\ part = "udp" => UDP!Next \/ UNCHANGED udpVars
         /\ part = "bbr" => Bbr!Next \/ UNCHANGED bbrVars
         /\ part = "sampler" => Sampler!Next \/ UNCHANGED samplerVars
         /\ part = "brutal" => Brutal!Next \/ UNCHANGED brutalVars
         /\ part = "start" => Start!Next \/ UNCHANGED startVars
         /\ part = "client" => Dialer!Next \/ UNCHANGED clientVars
         /\ part = "stream" => Proxied!Next \/ UNCHANGED streamVars
         /\ part = "link" => Link!Next \/ UNCHANGED linkVars
<1>1. CASE OfAuth(Auth!Next)
  BY <1>1 DEF OfAuth
<1>2. CASE OfUDP(UDP!Next)
  BY <1>2 DEF OfUDP
<1>3. CASE OfBbr(Bbr!Next) \/ OfSampler(Sampler!Next) \/ OfBrutal(Brutal!Next)
           \/ OfStart(Start!Next) \/ OfClient(Dialer!Next) \/ OfStream(Proxied!Next)
           \/ OfLink(Link!Next)
  BY <1>3 DEF OfBbr, OfSampler, OfBrutal, OfStart, OfClient, OfStream, OfLink
<1>4. CASE UNCHANGED vars
  BY <1>4 DEF vars
<1> QED
  BY <1>1, <1>2, <1>3, <1>4 DEF Next

(* Hence the parts' invariants are kept.                                   *)
LEMMA PartsKept == ASSUME PartsHold, [Next]_vars PROVE PartsHold'
<1>1. ASSUME part = "auth" PROVE Auth!CountInv'
  <2>1. Auth!CountInv /\ [Auth!Next]_(Auth!vars)
    BY <1>1, PartsStep DEF PartsHold, authVars, Auth!vars
  <2> QED
    BY <2>1, NodeAssumption, Auth!StepHolds
<1>2. ASSUME part = "udp" PROVE UDP!FewInv'
  <2>1. UDP!FewInv /\ [UDP!Next]_(UDP!vars)
    BY <1>2, PartsStep DEF PartsHold, udpVars, UDP!vars
  <2> QED
    BY <2>1, NodeAssumption, UDP!FewStep
<1>3. ASSUME part = "bbr" PROVE BbrInv'
  <2>1. BbrInv /\ [Bbr!Next]_(Bbr!vars)
    BY <1>3, PartsStep DEF PartsHold, bbrVars, Bbr!vars
  <2> QED
    BY <2>1, BbrKept
<1>4. ASSUME part = "brutal" PROVE BrutalInv'
  <2>1. BrutalInv /\ [Brutal!Next]_(Brutal!vars)
    BY <1>4, PartsStep DEF PartsHold, brutalVars, Brutal!vars
  <2> QED
    BY <2>1, BrutalKept
<1>5. ASSUME part = "start" PROVE FwInv'
  <2>1. FwInv /\ [Start!Next]_(Start!vars)
    BY <1>5, PartsStep DEF PartsHold, startVars, Start!vars
  <2> QED
    BY <2>1, FwKept
<1>6. ASSUME part = "client" PROVE DialInv'
  <2>1. DialInv /\ [Dialer!Next]_(Dialer!vars)
    BY <1>6, PartsStep DEF PartsHold, clientVars, Dialer!vars
  <2> QED
    BY <2>1, DialKept
<1>7. ASSUME part = "stream" PROVE StreamInv'
  <2>1. StreamInv /\ [Proxied!Next]_(Proxied!vars)
    BY <1>7, PartsStep DEF PartsHold, streamVars, Proxied!vars
  <2> QED
    BY <2>1, StreamKept
<1>8. ASSUME part = "link" PROVE LinkInv'
  <2>1. LinkInv /\ [Link!Next]_(Link!vars)
    BY <1>8, PartsStep DEF PartsHold, linkVars, Link!vars, Link!srcVars, Link!loopVars
  <2> QED
    BY <2>1, LinkKept
<1>9. ASSUME part = "sampler" PROVE SampInv'
  <2>1. SampInv /\ (Sampler!Next \/ UNCHANGED samplerVars)
    BY <1>9, PartsStep DEF PartsHold
  <2> QED
    BY <2>1, SampNext, SampStutter
<1> QED
  BY <1>1, <1>2, <1>3, <1>4, <1>5, <1>6, <1>7, <1>8, <1>9, PartsStep DEF PartsHold
-----------------------------------------------------------------------------
(* In every reachable state of the sum.                                    *)
THEOREM PartsAlwaysHold == Spec => []PartsHold
<1>1. Init => PartsHold
  BY PartsStart
<1>2. PartsHold /\ [Next]_vars => PartsHold'
  BY PartsKept
<1> QED
  BY <1>1, <1>2, PTL DEF Spec

(***************************************************************************)
(* h3sHandler and handleClient: the online count is exact, a connection    *)
(* has one UDP session manager, and streams know their user.               *)
(***************************************************************************)
THEOREM OnlineExactAlways == Spec => []OnlineExact
<1>1. PartsHold => OnlineExact
  BY NodeAssumption, Auth!CountImplies DEF PartsHold, OnlineExact
<1> QED
  BY <1>1, PartsAlwaysHold, PTL

(***************************************************************************)
(* The client's udpSessionManager routes a message to the session its      *)
(* identifier was given to, sends on no closed channel and closes all.     *)
(***************************************************************************)
THEOREM RoutedRightAlways == Spec => []RoutedRight
<1>1. PartsHold => RoutedRight
  BY UDP!FewImplies DEF PartsHold, RoutedRight
<1> QED
  BY <1>1, PartsAlwaysHold, PTL

(***************************************************************************)
(* bbrSender: the window is never below its minimum nor above its maximum, *)
(* whatever is lost, recovered from or rescaled.                           *)
(***************************************************************************)
THEOREM WindowInBoundsAlways == Spec => []WindowInBounds
<1>1. PartsHold => WindowInBounds
  BY BbrInvImplies DEF PartsHold, WindowInBounds
<1> QED
  BY <1>1, PartsAlwaysHold, PTL

(***************************************************************************)
(* OnCongestionEventEx and the sampler: whatever is reordered or lost, a   *)
(* packet that can still be acknowledged has its state in the map; the     *)
(* estimates of both windowed filters are ordered, best and oldest first;  *)
(* and the candidates that chooseA0Point searches ascend.                  *)
(***************************************************************************)
THEOREM KnownUntilResolvedAlways == Spec => []KnownUntilResolved
<1>1. PartsHold => KnownUntilResolved
  BY SampKnown DEF PartsHold, KnownUntilResolved
<1> QED
  BY <1>1, PartsAlwaysHold, PTL

(***************************************************************************)
(* BrutalSender: a remembered loss can be taken back from the slot it was  *)
(* counted in, however the seconds pass, and once SetBPS has returned and  *)
(* was seen nothing is sent on credit of the previous rate.                *)
(***************************************************************************)
THEOREM CorrectionsLandAlways == Spec => []CorrectionsLand
<1>1. PartsHold => CorrectionsLand
  BY BrutalInvImplies DEF PartsHold, CorrectionsLand
<1> QED
  BY <1>1, PartsAlwaysHold, PTL

(***************************************************************************)
(* runServer, fillConn and closerFuncs: while the server serves a port     *)
(* union each port but the one it listens on is redirected there, whatever *)
(* earlier processes left; and a process that was stopped by a signal, or  *)
(* that refused to open its listener, leaves nothing of its own but the    *)
(* tables and chains a command of the clean-up failed for.                 *)
(***************************************************************************)
THEOREM PortsReachListenerAlways == Spec => []PortsReachListener
<1>1. PartsHold => PortsReachListener
  BY FwInvImplies DEF PartsHold, PortsReachListener
<1> QED
  BY <1>1, PartsAlwaysHold, PTL

(***************************************************************************)
(* realmConfig's deferred closes, singleUseConnFactory and connect: a      *)
(* connection attempt that failed holds no socket and renews no mapping,   *)
(* but for a realm socket whose configuration NewClient refuses; and a     *)
(* client that was stopped has closed the connection it had.               *)
(***************************************************************************)
THEOREM NothingHeldAlways == Spec => []NothingHeld
<1>1. PartsHold => NothingHeld
  BY DialInvImplies DEF PartsHold, NothingHeld
<1> QED
  BY <1>1, PartsAlwaysHold, PTL

(***************************************************************************)
(* handleTCPRequest: a stream is answered once, and on each of its exits   *)
(* both ends are closed, its trace entry is gone and its request was       *)
(* logged with one end.                                                    *)
(***************************************************************************)
THEOREM NothingLeftAlways == Spec => []NothingLeft
<1>1. PartsHold => NothingLeft
  BY StreamInvImplies DEF PartsHold, NothingLeft
<1> QED
  BY <1>1, PartsAlwaysHold, PTL

(***************************************************************************)
(* linkmon: a consumer that re-enumerates misses no change that a source   *)
(* reported, however slow it is, a change is held for at most MaxDelay,    *)
(* and none is dropped from the counts and kinds that are merged.          *)
(***************************************************************************)
THEOREM NoChangeMissedAlways == Spec => []NoChangeMissed
<1>1. PartsHold => NoChangeMissed
  BY LinkInvImplies DEF PartsHold, NoChangeMissed
<1> QED
  BY <1>1, PartsAlwaysHold, PTL
=============================================================================
