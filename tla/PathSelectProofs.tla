-------------------------- MODULE PathSelectProofs --------------------------
(***************************************************************************)
(* Proofs about PathSelect, for every configuration, every set of          *)
(* addresses, every round trip and every length of run.                    *)
(***************************************************************************)
EXTENDS PathSelect, FiniteSetTheorems, WellFoundedInduction, TLAPS

-----------------------------------------------------------------------------
(***************************************************************************)
(* Operators of the policy.                                                *)
(***************************************************************************)

(* next() answers a candidate: the least index of a non-empty set of       *)
(* candidate indices exists and is one of them.                            *)
LEMMA FirstMember ==
  ASSUME NEW S \in SUBSET Nat, S # {}
  PROVE  First(S) \in S
<1> DEFINE Below == {p \in Nat \X Nat : p[1] < p[2]}
<1>0. IsWellFoundedOn(Below, Nat)
  BY NatLessThanWellFounded, Zenon DEF OpToRel
<1>1. PICK i \in S : \A j \in S : ~(<<j, i>> \in Below)
  <2> HIDE DEF Below
  <2> QED
    BY <1>0, WFMin, Zenon
<1>2. \A j \in S : ~(j < i)
  <2> TAKE j \in S
  <2>1. <<j, i>>[1] = j /\ <<j, i>>[2] = i /\ <<j, i>> \in Nat \X Nat
    OBVIOUS
  <2> QED
    BY <1>1, <2>1, Zenon
<1>3. \A j \in S : i <= j
  BY <1>2
<1> QED
  BY <1>3 DEF First

(* The threshold Observe applies is a natural number whatever the          *)
(* configuration and the reading.                                          *)
LEMMA ThresholdNat ==
  ASSUME NEW c \in Config, NEW o \in Observation
  PROVE  Threshold(c, o) \in Nat
<1> USE TermsAssumption
<1>1. o.rtt \in Nat /\ o.rttvar \in Nat /\ c.keepAlive \in Nat /\ c.idleTimeout \in Nat
  BY DEF Observation, Config
<1>2. pto(o) \in Nat
  BY <1>1 DEF pto, Larger
<1>3. (3 * pto(o)) \div 2 \in Nat /\ c.idleTimeout \div 2 \in Nat
  BY <1>1, <1>2
<1>4. KeepAliveInterval(c, o) \in Nat
  BY <1>1, <1>3 DEF KeepAliveInterval, Larger
<1> QED
  BY <1>1, <1>4 DEF Threshold

(* Unmap yields the v4 form of an address.                                 *)
LEMMA UnmapPlain ==
  ASSUME NEW a \in AddrPort
  PROVE  Unmap(a) \in Plain
<1>1. Unmap(a) \in AddrPort
  BY DEF Unmap, AddrPort
<1>2. Unmap(a).mapped = FALSE
  BY DEF Unmap, AddrPort
<1> QED
  BY <1>1, <1>2, Zenon DEF Plain

(* New leaves every candidate in its v4 form.                              *)
LEMMA NormalisedType ==
  ASSUME NEW c \in Config
  PROVE  /\ Normalised(c) \in Config
         /\ \A i \in DOMAIN Normalised(c).candidates : Normalised(c).candidates[i] \in Plain
<1> DEFINE cs == [i \in DOMAIN c.candidates |-> Unmap(c.candidates[i])]
<1>1. c.candidates \in Seq(AddrPort)
  BY DEF Config
<1>2. \A i \in DOMAIN c.candidates : Unmap(c.candidates[i]) \in Plain
  BY <1>1, UnmapPlain
<1>3. cs \in Seq(AddrPort)
  BY <1>1, <1>2 DEF Plain
<1>4. Normalised(c) = [c EXCEPT !.candidates = cs]
  BY DEF Normalised
<1>5. Normalised(c) \in Config /\ Normalised(c).candidates = cs
  BY <1>3, <1>4 DEF Config
<1> QED
  BY <1>2, <1>5
-----------------------------------------------------------------------------
(***************************************************************************)
(* Type correctness.                                                       *)
(***************************************************************************)

(* A poll reads a well-formed observation.                                 *)
LEMMA SampleType ==
  ASSUME TypeOK
  PROVE  /\ Sample \in Observation
         /\ Sample.at = clock
         /\ Sample.on = addr
         /\ Sample.live = live
         /\ Sample.rx = rx
BY DEF TypeOK, Sample, Observation

(* What Observe makes of its memory: the clock of a silence is never ahead *)
(* of the reading it is measured against.                                  *)
LEMMA AbsorbType ==
  ASSUME SelectorTypeOK, NEW o \in Observation
  PROVE  /\ Absorb(o).at \in Nat
         /\ Absorb(o).since \in Nat
         /\ Absorb(o).since <= Absorb(o).at
         /\ Absorb(o).struck \in SUBSET Plain
         /\ Absorb(o).exhausted \in BOOLEAN
<1>1. /\ o.at \in Nat /\ o.rx \in Nat /\ quietSince \in Nat /\ lastRx \in Nat
      /\ started \in BOOLEAN /\ exhausted \in BOOLEAN /\ tried \in SUBSET Plain
  BY DEF SelectorTypeOK, Observation
<1>2. /\ Absorb(o).at \in Nat
      /\ Absorb(o).since \in Nat
      /\ Absorb(o).since <= Absorb(o).at
  BY <1>1 DEF Absorb
<1>3. Absorb(o).struck \in SUBSET Plain
  BY <1>1 DEF Absorb
<1>4. Absorb(o).exhausted \in BOOLEAN
  BY <1>1, Zenon DEF Absorb
<1> QED
  BY <1>2, <1>3, <1>4

(* The two things Observe can do with a live reading: leave the connection *)
(* where it is, or order a move to a candidate that is neither the address *)
(* it is on nor one it has struck off.                                     *)
LEMMA ObserveLiveCases ==
  ASSUME SelectorTypeOK, NEW o \in Observation, ObserveLive(o)
  PROVE  /\ started' = TRUE /\ lastRx' = o.rx /\ cfg' = cfg
         /\ \/ /\ decision'.action # "switch"
               /\ decision' \in Decision
               /\ decision'.to = NoAddr
               /\ decision'.silence = Absorb(o).at - Absorb(o).since
               /\ decision'.threshold = Threshold(cfg, o)
               /\ decision'.action # "stay" => decision'.silence >= decision'.threshold
               /\ on' = o.on
               /\ quietSince' = Absorb(o).since
               /\ tried' \in {Absorb(o).struck, Absorb(o).struck \cup {o.on}}
               /\ exhausted' \in BOOLEAN
               /\ Absorb(o).exhausted => exhausted'
               /\ UNCHANGED <<pendingFrom, pendingQuiet>>
            \/ /\ decision'.action = "switch"
               /\ decision' \in Decision
               /\ decision'.to \in Plain
               /\ decision'.silence = Absorb(o).at - Absorb(o).since
               /\ decision'.threshold = Threshold(cfg, o)
               /\ decision'.silence >= decision'.threshold
               /\ decision'.to # o.on
               /\ decision'.to \notin Absorb(o).struck
               /\ on' = decision'.to
               /\ quietSince' = Absorb(o).at
               /\ tried' = Absorb(o).struck \cup {o.on}
               /\ ~Absorb(o).exhausted
               /\ exhausted' = FALSE
               /\ pendingFrom' = o.on
               /\ pendingQuiet' = Absorb(o).since
<1> DEFINE m         == Absorb(o)
           quiet     == m.at - m.since
           threshold == Threshold(cfg, o)
           struck    == m.struck \cup {o.on}
           left      == Untried(struck, o.on)
<1>1. /\ m.at \in Nat /\ m.since \in Nat /\ m.since <= m.at
      /\ m.exhausted \in BOOLEAN
  BY AbsorbType
<1>2. cfg \in Config /\ threshold \in Nat
  BY ThresholdNat DEF SelectorTypeOK
<1>3. quiet \in Int
  BY <1>1
<1>4. left \in SUBSET Nat
  <2>1. cfg.candidates \in Seq(AddrPort)
    BY <1>2 DEF Config
  <2> QED
    BY <2>1 DEF Untried
<1>5. \A a \in Actions, r \in Reasons, t \in Plain \cup {NoAddr} :
        /\ Answer(a, r, t, quiet, threshold) \in Decision
        /\ Answer(a, r, t, quiet, threshold).action = a
        /\ Answer(a, r, t, quiet, threshold).to = t
        /\ Answer(a, r, t, quiet, threshold).silence = quiet
        /\ Answer(a, r, t, quiet, threshold).threshold = threshold
  <2> HIDE DEF quiet, threshold
  <2> QED
    BY <1>2, <1>3 DEF Answer, Decision
<1> HIDE DEF m, quiet, threshold, struck, left
<1>6. started' = TRUE /\ lastRx' = o.rx /\ cfg' = cfg
  BY DEF ObserveLive
<1> DEFINE Stand(a, r) ==
             /\ on' = o.on
             /\ quietSince' = m.since
             /\ tried' \in {m.struck, struck}
             /\ exhausted' \in BOOLEAN
             /\ m.exhausted => exhausted'
             /\ decision' = Answer(a, r, NoAddr, quiet, threshold)
             /\ UNCHANGED <<pendingFrom, pendingQuiet>>
           Move == LET to == cfg.candidates[First(left)] IN
             /\ quiet >= threshold
             /\ left # {}
             /\ ~m.exhausted
             /\ on' = to
             /\ decision' = Answer("switch", "silent", to, quiet, threshold)
             /\ quietSince' = m.at
             /\ tried' = struck
             /\ exhausted' = FALSE
             /\ pendingFrom' = o.on
             /\ pendingQuiet' = m.since
<1>7. \/ \E r \in Reasons : Stand("stay", r)
      \/ \E r \in Reasons : Stand("give-up", r) /\ quiet >= threshold
      \/ Move
  BY <1>1, <1>2, <1>3 DEF ObserveLive, ExhaustedClock, m, quiet, threshold, struck, left, Reasons
<1>8. CASE \E r \in Reasons : Stand("stay", r)
  BY <1>5, <1>6, <1>8 DEF Actions, m, quiet, threshold, struck
<1>9. CASE \E r \in Reasons : Stand("give-up", r) /\ quiet >= threshold
  BY <1>5, <1>6, <1>9 DEF Actions, m, quiet, threshold, struck
<1>10. CASE Move
  <2> DEFINE to == cfg.candidates[First(left)]
  <2>1. First(left) \in left
    BY <1>4, <1>10, FirstMember
  <2>2. First(left) \in DOMAIN cfg.candidates /\ to \notin struck /\ to # o.on
    BY <2>1 DEF left, Untried
  <2>3. to \in Plain
    BY <2>2 DEF SelectorTypeOK
  <2>4. to # o.on /\ to \notin m.struck
    BY <2>2 DEF struck
  <2> HIDE DEF to
  <2>5. Move => /\ decision' = Answer("switch", "silent", to, quiet, threshold)
                /\ on' = to
    BY DEF to
  <2> QED
    BY <1>5, <1>6, <1>10, <2>3, <2>4, <2>5 DEF Actions, Reasons, m, quiet, threshold, struck
<1> QED
  BY <1>7, <1>8, <1>9, <1>10

(* One poll keeps the types, whichever answer Observe gives.               *)
LEMMA PollType ==
  ASSUME TypeOK, Poll
  PROVE  TypeOK'
<1>1. Sample \in Observation /\ Sample.on = addr
  BY SampleType
<1>2. SelectorTypeOK /\ addr \in Plain /\ rx \in Nat
  BY DEF TypeOK
<1>3. SelectorTypeOK' /\ decision'.to \in Plain \cup {NoAddr}
  <2>1. CASE ObserveNoConnection(Sample)
    <3>1. decision' = Answer("stay", "no-connection", NoAddr, 0, 0)
      BY <2>1 DEF ObserveNoConnection
    <3>2. decision' \in Decision /\ decision'.to = NoAddr
      BY <3>1 DEF Answer, Decision, Actions, Reasons
    <3> QED
      BY <1>1, <1>2, <2>1, <3>2 DEF ObserveNoConnection, SelectorTypeOK, Observation
  <2>2. CASE ObserveLive(Sample)
    <3>1. /\ Absorb(Sample).at \in Nat /\ Absorb(Sample).since \in Nat
          /\ Absorb(Sample).struck \in SUBSET Plain
      BY <1>1, <1>2, AbsorbType
    <3>2. Sample.rx \in Nat /\ Sample.on \in Plain
      BY <1>1 DEF Observation
    <3> QED
      BY <1>1, <1>2, <2>2, <3>1, <3>2, ObserveLiveCases DEF SelectorTypeOK
  <2> QED
    BY <2>1, <2>2 DEF Poll, Observe
<1>4. gone' \in BOOLEAN /\ unseen' \in BOOLEAN
  BY Zenon DEF Poll
<1>5. polled' \in BOOLEAN
  BY DEF Poll
<1>6. ordered' \in SUBSET Plain
  BY <1>3 DEF Poll, TypeOK
<1>7. order' \in Plain \cup {NoAddr}
  BY <1>3 DEF Poll
<1>8. UNCHANGED <<clock, live, dead, addr, rx, rtt, eventAt, strayed>>
  BY DEF Poll, linkVars
<1> QED
  BY <1>3, <1>4, <1>5, <1>6, <1>7, <1>8 DEF TypeOK

(* Every step keeps the types.                                             *)
LEMMA StepType ==
  ASSUME TypeOK, [Next]_vars
  PROVE  TypeOK'
<1>0. UNCHANGED selVars => SelectorTypeOK'
  BY DEF TypeOK, SelectorTypeOK, selVars
<1> USE <1>0 DEF TypeOK
<1>1. CASE Tick
  <2>1. clock \in Nat /\ clock' = clock + 1
    BY <1>1, Zenon DEF Tick
  <2>2. clock' \in Nat
    BY <2>1
  <2>3. polled' \in BOOLEAN
    BY <1>1 DEF Tick
  <2>4. UNCHANGED <<selVars, linkVars, order, histVars>>
    BY <1>1 DEF Tick
  <2> QED
    BY <2>2, <2>3, <2>4 DEF linkVars, histVars
<1>2. CASE Deliver
  BY <1>2, PathAssumption DEF Deliver
<1>3. CASE \E a \in Plain : Migrate(a)
  BY <1>3 DEF Migrate
<1>4. CASE Die
  BY <1>4 DEF Die, histVars
<1>5. CASE Drop
  BY <1>5 DEF Drop
<1>6. CASE \E a \in Plain, n \in 0..MaxRx : Redial(a, n)
  <2>1. PICK a \in Plain, n \in 0..MaxRx : Redial(a, n)
    BY <1>6
  <2>2. n \in Nat
    BY PathAssumption
  <2> QED
    BY <2>1, <2>2, PathAssumption DEF Redial
<1>7. CASE Poll
  BY <1>7, PollType
<1>8. CASE SwitchTo
  BY <1>8 DEF SwitchTo, histVars
<1>9. ASSUME NEW out, SwitchFailed(order, out), order # NoAddr
      PROVE  SelectorTypeOK'
  <2>1. exhausted' \in BOOLEAN
    BY <1>9, Zenon DEF SwitchFailed, SelectorTypeOK
  <2> QED
    BY <1>9, <2>1 DEF SwitchFailed, SelectorTypeOK
<1>10. CASE SwitchNoConnection
  BY <1>9, <1>10 DEF SwitchNoConnection, linkVars
<1>11. CASE SwitchDiesInReset
  BY <1>9, <1>11 DEF SwitchDiesInReset
<1>12. CASE SwitchRefused
  BY <1>9, <1>12 DEF SwitchRefused, linkVars, histVars
<1>13. CASE UNCHANGED vars
  BY <1>13 DEF vars, linkVars, histVars
<1> QED
  BY <1>1, <1>2, <1>3, <1>4, <1>5, <1>6, <1>7, <1>8, <1>10, <1>11, <1>12, <1>13
     DEF Next, Network, Driver

(* The policy and the loop around it never leave their types: New turned   *)
(* every candidate into its v4 form, and every address the selector        *)
(* remembers or orders afterwards is in that form, so comparing them is    *)
(* comparing hosts.                                                        *)
THEOREM TypeCorrect == Spec => []TypeOK
<1>1. Init => TypeOK
  <2> SUFFICES ASSUME Init PROVE TypeOK
    OBVIOUS
  <2>1. PICK c \in Configs : New(c)
    BY DEF Init
  <2>2. c \in Config
    BY ConfigsAssumption
  <2>3. decision \in Decision
    BY <2>1 DEF New, Answer, Decision, Actions, Reasons
  <2>4. SelectorTypeOK
    BY <2>1, <2>2, <2>3, NormalisedType DEF New, SelectorTypeOK
  <2> QED
    BY <2>4, PathAssumption DEF Init, TypeOK
<1>2. TypeOK /\ [Next]_vars => TypeOK'
  BY StepType
<1> QED
  BY <1>1, <1>2, PTL DEF Spec
-----------------------------------------------------------------------------
(***************************************************************************)
(* The inductive invariant behind the action properties.                   *)
(***************************************************************************)

(* Between the order and its outcome the selector believes it has moved.   *)
OrderIsOn == order # NoAddr => (on = order /\ started)

(* Nothing the policy or the connection remembers lies in the future.      *)
ClocksBehind == quietSince <= clock /\ pendingQuiet <= clock /\ eventAt <= clock

(* ErrNoConnection closed the list, and nothing is on order.               *)
GoneExhausts == gone => (exhausted /\ order = NoAddr)

(* A selector that has not seen this connection has ordered nothing on it: *)
(* one that has seen none, and one whose last reading is of another.       *)
NothingYet == (~started /\ live) => ordered = {}

BehindIsNew == (started /\ live /\ rx < lastRx) => ordered = {}

(* A counter behind the last reading shows a replacement not yet seen.     *)
SwapShows == (started /\ live /\ ~unseen) => rx >= lastRx

(* When nothing has been heard since the last reading, the silence clock   *)
(* (and the one a failed switch would put back) started no earlier than    *)
(* the connection's last sign of life.                                     *)
QuietCovers ==
  (started /\ live /\ ~unseen /\ rx = lastRx)
    => /\ (addr = on \/ order # NoAddr) => eventAt <= quietSince
       /\ order # NoAddr => eventAt <= pendingQuiet

(* Every address ordered on this connection has been struck off, but the   *)
(* one it is on or on its way to, unless it moved of itself.               *)
OrderedStruck ==
  (live /\ ~strayed)
    => ordered \ tried \subseteq {IF order = NoAddr THEN addr ELSE order}

Bookkeeping ==
  /\ OrderIsOn
  /\ ClocksBehind
  /\ GoneExhausts
  /\ NothingYet
  /\ BehindIsNew
  /\ SwapShows
  /\ QuietCovers
  /\ OrderedStruck

IInv == TypeOK /\ Bookkeeping

(* The reading a poll makes of a live connection: the silence it measures  *)
(* starts no earlier than the connection's last sign of life, and what was *)
(* struck off stays struck off unless the connection is seen as new.       *)
LEMMA AbsorbSample ==
  ASSUME IInv, live
  PROVE  /\ Absorb(Sample).at = clock
         /\ Absorb(Sample).since \in Nat
         /\ Absorb(Sample).since <= clock
         /\ ~(unseen /\ Same(Sample)) => eventAt <= Absorb(Sample).since
         /\ ~Fresh(Sample) => Absorb(Sample).struck = tried
         /\ (exhausted /\ ~Fresh(Sample)) => Absorb(Sample).exhausted
<1>1. /\ Sample \in Observation /\ Sample.at = clock /\ Sample.on = addr
      /\ Sample.live = live /\ Sample.rx = rx
  BY SampleType DEF IInv
<1>2. /\ clock \in Nat /\ quietSince \in Nat /\ eventAt \in Nat /\ rx \in Nat /\ lastRx \in Nat
      /\ started \in BOOLEAN /\ quietSince <= clock /\ eventAt <= clock
  BY DEF IInv, TypeOK, SelectorTypeOK, Bookkeeping, ClocksBehind
<1>3. Absorb(Sample).at = clock
  BY <1>1, <1>2 DEF Absorb
<1>4. /\ Absorb(Sample).since \in Nat
      /\ Absorb(Sample).since <= clock
  BY <1>1, <1>2 DEF Absorb
<1>5. ASSUME ~(unseen /\ Same(Sample))
      PROVE  eventAt <= Absorb(Sample).since
  <2>1. CASE ~started \/ rx < lastRx \/ rx > lastRx \/ addr # on
    BY <1>1, <1>2, <2>1 DEF Absorb
  <2>2. CASE started /\ rx = lastRx /\ addr = on
    <3>1. eventAt <= quietSince
      BY <1>1, <1>5, <2>2 DEF Same, IInv, Bookkeeping, QuietCovers
    <3>2. Absorb(Sample).since = quietSince
      BY <1>1, <1>2, <2>2 DEF Absorb
    <3> QED
      BY <3>1, <3>2
  <2> QED
    BY <1>2, <2>1, <2>2
<1>6. ~Fresh(Sample) => ~(started /\ rx < lastRx)
  BY <1>1 DEF Fresh
<1>7. ~(started /\ rx < lastRx) => Absorb(Sample).struck = tried
  BY <1>1 DEF Absorb
<1>8. (exhausted /\ ~(started /\ rx < lastRx)) => Absorb(Sample).exhausted
  BY <1>1 DEF Absorb
<1> QED
  BY <1>3, <1>4, <1>5, <1>6, <1>7, <1>8

(* A poll keeps the bookkeeping.                                           *)
LEMMA PollBookkeeping ==
  ASSUME IInv, Poll
  PROVE  Bookkeeping'
<1> DEFINE m == Absorb(Sample)
<1>1. TypeOK /\ TypeOK' /\ SelectorTypeOK /\ NoAddr \notin Plain
  BY PollType, NoAddrAssumption DEF IInv, TypeOK, Plain
<1>2. /\ Sample \in Observation /\ Sample.at = clock /\ Sample.on = addr
      /\ Sample.live = live /\ Sample.rx = rx
  BY <1>1, SampleType
<1>3. /\ clock' = clock /\ live' = live /\ addr' = addr /\ rx' = rx /\ eventAt' = eventAt
      /\ strayed' = strayed /\ order' = decision'.to /\ order = NoAddr
      /\ gone' => (gone /\ ~Fresh(Sample))
      /\ unseen' = (unseen /\ Same(Sample))
      /\ ordered' = ordered \cup ({decision'.to} \ {NoAddr})
  BY DEF Poll, linkVars
<1>4. /\ clock \in Nat /\ quietSince \in Nat /\ pendingQuiet \in Nat /\ eventAt \in Nat
      /\ rx \in Nat /\ lastRx \in Nat /\ eventAt <= clock /\ pendingQuiet <= clock
      /\ addr \in Plain
  BY <1>1 DEF IInv, Bookkeeping, ClocksBehind, TypeOK, SelectorTypeOK
<1>5. CASE ObserveNoConnection(Sample)
  <2>1. ~live /\ ~started' /\ quietSince' = clock /\ pendingQuiet' = pendingQuiet
        /\ decision'.to = NoAddr /\ Fresh(Sample)
    BY <1>2, <1>5 DEF ObserveNoConnection, Answer, Fresh
  <2>2. OrderIsOn' /\ NothingYet'
    BY <1>3, <2>1 DEF OrderIsOn, NothingYet
  <2>3. ClocksBehind'
    BY <1>3, <1>4, <2>1 DEF ClocksBehind
  <2>4. GoneExhausts'
    BY <1>3, <2>1 DEF GoneExhausts
  <2>5. BehindIsNew' /\ SwapShows' /\ QuietCovers' /\ OrderedStruck'
    BY <1>3, <2>1 DEF BehindIsNew, SwapShows, QuietCovers, OrderedStruck
  <2> QED
    BY <2>2, <2>3, <2>4, <2>5 DEF Bookkeeping
<1>6. CASE ObserveLive(Sample)
  <2>1. live
    BY <1>2, <1>6 DEF ObserveLive
  <2>2. /\ m.at = clock /\ m.since \in Nat /\ m.since <= clock
        /\ ~unseen' => eventAt <= m.since
        /\ ~Fresh(Sample) => m.struck = tried
        /\ (exhausted /\ ~Fresh(Sample)) => m.exhausted
    BY <1>3, <2>1, AbsorbSample
  <2>3. started' = TRUE /\ lastRx' = rx /\ cfg' = cfg
    BY <1>1, <1>2, <1>6, ObserveLiveCases
  <2>4. \/ /\ decision'.to = NoAddr /\ on' = addr /\ quietSince' = m.since
           /\ tried' \in {m.struck, m.struck \cup {addr}}
           /\ m.exhausted => exhausted'
           /\ pendingQuiet' = pendingQuiet
        \/ /\ decision'.to \in Plain /\ on' = decision'.to /\ quietSince' = clock
           /\ tried' = m.struck \cup {addr}
           /\ ~m.exhausted
           /\ pendingQuiet' = m.since
    BY <1>1, <1>2, <1>6, <2>2, ObserveLiveCases
  <2>5. OrderIsOn' /\ NothingYet'
    BY <1>3, <2>3, <2>4 DEF OrderIsOn, NothingYet
  <2>6. ClocksBehind'
    BY <1>3, <1>4, <2>2, <2>4 DEF ClocksBehind
  <2>7. GoneExhausts'
    <3> SUFFICES ASSUME gone' PROVE exhausted' /\ order' = NoAddr
      BY DEF GoneExhausts
    <3>1. gone /\ ~Fresh(Sample)
      BY <1>3
    <3>2. m.exhausted
      BY <2>2, <3>1 DEF IInv, Bookkeeping, GoneExhausts
    <3> QED
      BY <1>3, <2>4, <3>2
  <2>8. BehindIsNew' /\ SwapShows'
    BY <1>3, <1>4, <2>3 DEF BehindIsNew, SwapShows
  <2>9. QuietCovers'
    BY <1>3, <1>4, <2>2, <2>4 DEF QuietCovers
  <2>10. OrderedStruck'
    <3> SUFFICES ASSUME ~strayed
                 PROVE  ordered' \ tried' \subseteq {IF order' = NoAddr THEN addr' ELSE order'}
      BY <1>3 DEF OrderedStruck
    <3>1. CASE Fresh(Sample)
      <4>1. ordered = {}
        BY <1>2, <2>1, <3>1 DEF Fresh, IInv, Bookkeeping, BehindIsNew
      <4> QED
        BY <1>3, <4>1
    <3>2. CASE ~Fresh(Sample)
      <4>1. ordered \ tried \subseteq {addr}
        BY <1>3, <2>1 DEF IInv, Bookkeeping, OrderedStruck
      <4> QED
        BY <1>1, <1>3, <2>2, <2>4, <3>2, <4>1
    <3> QED
      BY <3>1, <3>2
  <2> QED
    BY <2>5, <2>6, <2>7, <2>8, <2>9, <2>10 DEF Bookkeeping
<1> QED
  BY <1>5, <1>6 DEF Poll, Observe

(* What SwitchFailed does to an order that is still standing.              *)
LEMMA SwitchFailedFacts ==
  ASSUME IInv, order # NoAddr, NEW out, SwitchFailed(order, out)
  PROVE  /\ tried' = tried \cup {order}
         /\ on' = pendingFrom
         /\ quietSince' = pendingQuiet
         /\ out = "gone" => exhausted'
         /\ UNCHANGED <<started, lastRx, pendingQuiet>>
<1>1. on = order
  BY DEF IInv, Bookkeeping, OrderIsOn
<1> QED
  BY <1>1 DEF SwitchFailed

(* Every step keeps the bookkeeping.                                       *)
LEMMA StepBookkeeping ==
  ASSUME IInv, [Next]_vars
  PROVE  Bookkeeping'
<1> USE DEF OrderIsOn, ClocksBehind, GoneExhausts, NothingYet, BehindIsNew,
            SwapShows, QuietCovers, OrderedStruck, Bookkeeping
<1>0. /\ Bookkeeping
      /\ clock \in Nat /\ quietSince \in Nat /\ pendingQuiet \in Nat /\ eventAt \in Nat
      /\ rx \in Nat /\ lastRx \in Nat
      /\ started \in BOOLEAN /\ live \in BOOLEAN /\ unseen \in BOOLEAN
  BY DEF IInv, TypeOK, SelectorTypeOK
<1>1. CASE Tick
  BY <1>0, <1>1 DEF Tick, selVars, linkVars, histVars
<1>2. CASE Deliver
  BY <1>0, <1>2 DEF Deliver, selVars
<1>3. CASE \E a \in Plain : Migrate(a)
  BY <1>0, <1>3 DEF Migrate, selVars
<1>4. CASE Die
  BY <1>0, <1>4 DEF Die, selVars, histVars
<1>5. CASE Drop
  BY <1>0, <1>5 DEF Drop, selVars
<1>6. CASE \E a \in Plain, n \in 0..MaxRx : Redial(a, n)
  <2>1. PICK a \in Plain, n \in 0..MaxRx : Redial(a, n)
    BY <1>6
  <2>2. n \in Nat
    BY PathAssumption
  <2> QED
    BY <1>0, <2>1, <2>2 DEF Redial, selVars
<1>7. CASE Poll
  BY <1>7, PollBookkeeping
<1>8. CASE SwitchTo
  BY <1>0, <1>8 DEF SwitchTo, selVars, histVars
<1>9. CASE SwitchNoConnection
  BY <1>0, <1>9, SwitchFailedFacts DEF SwitchNoConnection, linkVars
<1>10. CASE SwitchDiesInReset
  BY <1>0, <1>10, SwitchFailedFacts DEF SwitchDiesInReset
<1>11. CASE SwitchRefused
  BY <1>0, <1>11, SwitchFailedFacts DEF SwitchRefused, linkVars, histVars
<1>12. CASE UNCHANGED vars
  BY <1>0, <1>12 DEF vars, selVars, linkVars, histVars
<1> QED
  BY <1>1, <1>2, <1>3, <1>4, <1>5, <1>6, <1>7, <1>8, <1>9, <1>10, <1>11, <1>12
     DEF Next, Network, Driver

(* The bookkeeping of selector, loop and connection agrees at all times.   *)
THEOREM BookkeepingHolds == Spec => []IInv
<1>1. Init => Bookkeeping
  BY DEF Init, New, Bookkeeping, OrderIsOn, ClocksBehind, GoneExhausts, NothingYet,
         BehindIsNew, SwapShows, QuietCovers, OrderedStruck
<1>2. IInv /\ [Next]_vars => Bookkeeping'
  BY StepBookkeeping
<1>3. Spec => []TypeOK
  BY TypeCorrect
<1> QED
  BY <1>1, <1>2, <1>3, PTL DEF Spec, IInv
-----------------------------------------------------------------------------
(***************************************************************************)
(* The action properties.                                                  *)
(***************************************************************************)

(* Once SwitchTo has answered ErrNoConnection the selector orders no       *)
(* further switch until it sees a new connection.                          *)
THEOREM GoneIsFinal == Spec => NoSwitchOnceGone
<1>1. ASSUME IInv, Poll, gone, ~Fresh(Sample)
      PROVE  decision'.action # "switch"
  <2>1. SelectorTypeOK /\ Sample \in Observation /\ Sample.live = live
    BY <1>1, SampleType DEF IInv, TypeOK
  <2>2. live /\ ~ObserveNoConnection(Sample)
    BY <1>1, <2>1 DEF Fresh, ObserveNoConnection
  <2>3. Absorb(Sample).exhausted
    BY <1>1, <2>2, AbsorbSample DEF IInv, Bookkeeping, GoneExhausts
  <2>4. ObserveLive(Sample)
    BY <1>1, <2>2 DEF Poll, Observe
  <2> QED
    BY <2>1, <2>3, <2>4, ObserveLiveCases
<1>2. IInv => ((Poll /\ gone /\ ~Fresh(Sample)) => decision'.action # "switch")
  BY <1>1
<1> QED
  BY <1>2, BookkeepingHolds, PTL DEF NoSwitchOnceGone

(* A path is condemned only when the connection has really been silent for *)
(* the threshold, whatever the network, the switches and the reconnecting  *)
(* client did between the polls, but for a replacement that reads exactly  *)
(* like what it replaced.                                                  *)
THEOREM SilenceOnly == Spec => OnlySilenceCondemns
<1>1. ASSUME IInv, Poll, decision'.action # "stay", ~unseen'
      PROVE  clock - eventAt >= decision'.threshold
  <2>1. SelectorTypeOK /\ Sample \in Observation /\ Sample.live = live
    BY <1>1, SampleType DEF IInv, TypeOK
  <2>2. ~ObserveNoConnection(Sample)
    BY <1>1 DEF ObserveNoConnection, Answer
  <2>3. ObserveLive(Sample)
    BY <1>1, <2>2 DEF Poll, Observe
  <2>4. live
    BY <2>1, <2>3 DEF ObserveLive
  <2>5. Absorb(Sample).at = clock /\ eventAt <= Absorb(Sample).since /\ Absorb(Sample).since \in Nat
    BY <1>1, <2>4, AbsorbSample DEF Poll
  <2>6. decision'.silence >= decision'.threshold
        /\ decision'.silence = Absorb(Sample).at - Absorb(Sample).since
        /\ decision'.threshold = Threshold(cfg, Sample)
    BY <1>1, <2>1, <2>3, ObserveLiveCases
  <2>7. Threshold(cfg, Sample) \in Nat
    BY <2>1, ThresholdNat DEF SelectorTypeOK
  <2>8. clock \in Nat /\ eventAt \in Nat
    BY <1>1 DEF IInv, TypeOK
  <2> QED
    BY <2>5, <2>6, <2>7, <2>8
<1>2. IInv => ((Poll /\ decision'.action # "stay" /\ ~unseen')
                 => clock - eventAt >= decision'.threshold)
  BY <1>1
<1> QED
  BY <1>2, BookkeepingHolds, PTL DEF OnlySilenceCondemns

(* On a connection that stays on the addresses it is given, no candidate   *)
(* is ordered twice: the walk of the candidate list ends.                  *)
THEOREM WalkedOnce == Spec => EachCandidateOnce
<1>1. ASSUME IInv, Poll, decision'.action = "switch", ~strayed
      PROVE  decision'.to \notin ordered
  <2>1. /\ SelectorTypeOK /\ Sample \in Observation
        /\ Sample.live = live /\ Sample.on = addr /\ Sample.rx = rx
    BY <1>1, SampleType DEF IInv, TypeOK
  <2>2. ~ObserveNoConnection(Sample)
    BY <1>1 DEF ObserveNoConnection, Answer
  <2>3. ObserveLive(Sample) /\ live
    BY <1>1, <2>1, <2>2 DEF Poll, Observe, ObserveLive
  <2>4. CASE Fresh(Sample)
    BY <2>1, <2>3, <2>4, <1>1 DEF Fresh, IInv, Bookkeeping, BehindIsNew
  <2>5. CASE ~Fresh(Sample)
    <3>1. Absorb(Sample).struck = tried
      BY <1>1, <2>3, <2>5, AbsorbSample
    <3>2. decision'.to # addr /\ decision'.to \notin tried
      BY <1>1, <2>1, <2>3, <3>1, ObserveLiveCases
    <3>3. ordered \ tried \subseteq {addr}
      BY <1>1, <2>3 DEF Poll, IInv, Bookkeeping, OrderedStruck
    <3> QED
      BY <3>2, <3>3
  <2> QED
    BY <2>4, <2>5
<1>2. IInv => ((Poll /\ decision'.action = "switch" /\ ~strayed)
                 => decision'.to \notin ordered)
  BY <1>1
<1> QED
  BY <1>2, BookkeepingHolds, PTL DEF EachCandidateOnce
-----------------------------------------------------------------------------
(***************************************************************************)
(* Giving up, and how long it takes.                                       *)
(***************************************************************************)

(* The threshold the next reading will be held against.                    *)
Patience == Threshold(cfg, Sample)

(* What a give-up stands on: a list that has run out, and a silence that   *)
(* has lasted, until the connection gives a sign of life.                  *)
GiveUpGrounded ==
  decision.action = "give-up" =>
    /\ order = NoAddr /\ started /\ cfg.keepAlive > 0
    /\ exhausted \/ cfg.candidates = <<>>
    /\ (live /\ ~unseen /\ rx = lastRx /\ addr = on) => clock - quietSince >= Patience

(* The last event of the connection has been followed by a reading.        *)
Settled == live /\ (clock > eventAt + 1 \/ (clock = eventAt + 1 /\ polled))

NextPoll == IF polled THEN clock + 1 ELSE clock

(* The reading that can condemn the path: when the silence is as long as   *)
(* the threshold, or, when the connection is not where it was last seen,   *)
(* a threshold after the reading that will notice.                         *)
Due == IF order = NoAddr /\ on # addr THEN NextPoll + Patience
                                      ELSE Larger(quietSince + Patience, NextPoll)

(* The moves that are left.                                                *)
Left == Cardinality(Untried(tried, on))

(* Between the order and its outcome.                                      *)
OrderFresh ==
  order # NoAddr => /\ polled /\ ~exhausted /\ quietSince = clock /\ pendingQuiet <= clock
                    /\ pendingFrom = addr /\ decision.action = "switch"

(* The time a silent connection is given: a threshold for each candidate,  *)
(* one more, and one unit for the move that fails half way and ends the    *)
(* walk.                                                                   *)
Deadline == eventAt + 1 + (Len(cfg.candidates) + 1) * Patience

InTime == IF exhausted THEN Due <= Deadline + 1 ELSE Due + Left * Patience <= Deadline

Pace ==
  (Settled /\ cfg.keepAlive > 0) =>
    /\ started /\ rx = lastRx
    /\ OrderFresh
    /\ (order = NoAddr /\ ~exhausted) => on = addr
    /\ decision.action = "give-up" => on = addr /\ clock - quietSince >= Patience
    /\ decision.action # "give-up" => InTime

WInv == IInv /\ GiveUpGrounded /\ Pace

(* The threshold is a number, and is not zero where keep-alives are sent.  *)
LEMMA PatienceNat ==
  ASSUME TypeOK
  PROVE  Patience \in Nat /\ (cfg.keepAlive > 0 => Patience >= 1)
<1>1. Sample \in Observation /\ cfg \in Config
  BY SampleType DEF TypeOK, SelectorTypeOK
<1>2. Patience \in Nat
  BY <1>1, ThresholdNat DEF Patience
<1>3. ASSUME cfg.keepAlive > 0 PROVE Patience >= 1
  <2> USE TermsAssumption
  <2>1. /\ Sample.rtt \in Nat /\ Sample.rttvar \in Nat
        /\ cfg.keepAlive \in Nat /\ cfg.idleTimeout \in Nat
    BY <1>1 DEF Observation, Config
  <2>2. pto(Sample) \in Nat
    BY <2>1 DEF pto, Larger
  <2>3. (3 * pto(Sample)) \div 2 \in Nat /\ cfg.idleTimeout \div 2 \in Nat
    BY <2>1, <2>2
  <2>4. KeepAliveInterval(cfg, Sample) \in Nat /\ KeepAliveInterval(cfg, Sample) >= 1
    BY <1>3, <2>1, <2>3 DEF KeepAliveInterval, Larger
  <2> QED
    BY <2>1, <2>4 DEF Threshold, Patience
<1> QED
  BY <1>2, <1>3

(* It moves only with the round trip.                                      *)
LEMMA PatienceKept ==
  ASSUME cfg' = cfg, rtt' = rtt
  PROVE  Patience' = Patience
<1>1. /\ Sample.rtt = rtt /\ Sample'.rtt = rtt'
      /\ Sample.rttvar = 0 /\ Sample'.rttvar = 0
  BY DEF Sample
<1>2. pto(Sample') = pto(Sample)
  BY <1>1 DEF pto
<1>3. KeepAliveInterval(cfg', Sample') = KeepAliveInterval(cfg, Sample)
  BY <1>2 DEF KeepAliveInterval
<1>4. Patience' = Threshold(cfg', Sample')
  BY DEF Patience, Threshold, KeepAliveInterval, pto, Sample
<1> QED
  BY <1>1, <1>3, <1>4 DEF Threshold, Patience

(* One candidate less is a threshold less.                                 *)
LEMMA Products ==
  ASSUME NEW k \in Nat, NEW n \in Nat, NEW t \in Nat
  PROVE  /\ k * t \in Nat /\ n * t \in Nat
         /\ k <= n => k * t <= n * t
         /\ k + 1 <= n => k * t + t <= n * t
         /\ (n + 1) * t = n * t + t
<1>1. k * t \in Nat /\ n * t \in Nat /\ (n + 1) * t = n * t + t
  OBVIOUS
<1>2. ASSUME k <= n PROVE k * t <= n * t
  <2>1. PICK d \in Nat : n = k + d
    BY <1>2
  <2>2. n * t = k * t + d * t /\ d * t \in Nat
    BY <2>1
  <2> QED
    BY <1>1, <2>2
<1>3. ASSUME k + 1 <= n PROVE k * t + t <= n * t
  <2>1. PICK d \in Nat : n = k + 1 + d
    BY <1>3
  <2>2. n * t = k * t + t + d * t /\ d * t \in Nat
    BY <2>1
  <2> QED
    BY <1>1, <2>2
<1> QED
  BY <1>1, <1>2, <1>3

(* A path is condemned a threshold after the clock was started at latest.  *)
LEMMA LatestDue ==
  ASSUME NEW q \in Nat, NEW c \in Nat, NEW t \in Nat, t >= 1, q <= c
  PROVE  Larger(q + t, c + 1) \in Nat /\ Larger(q + t, c + 1) <= c + t
BY DEF Larger

(* The first reading of a silence leaves time for the whole walk.          *)
LEMMA SumsUp ==
  ASSUME NEW d \in Nat, NEW a \in Nat, NEW b \in Nat, NEW e \in Nat, NEW t \in Nat,
         a <= b, d <= e + 1 + t
  PROVE  d + a <= e + 1 + (b + t) /\ d <= e + 1 + (b + t) + 1
OBVIOUS

(* There are at most as many moves left as candidates.                     *)
LEMMA LeftBounded ==
  ASSUME SelectorTypeOK, NEW S, NEW h
  PROVE  /\ IsFiniteSet(Untried(S, h))
         /\ Cardinality(Untried(S, h)) \in Nat
         /\ Cardinality(Untried(S, h)) <= Len(cfg.candidates)
         /\ Len(cfg.candidates) \in Nat
<1>1. cfg.candidates \in Seq(AddrPort)
  BY DEF SelectorTypeOK, Config
<1>2. Len(cfg.candidates) \in Nat /\ DOMAIN cfg.candidates = 1..Len(cfg.candidates)
  BY <1>1
<1>3. IsFiniteSet(1..Len(cfg.candidates))
      /\ Cardinality(1..Len(cfg.candidates)) = Len(cfg.candidates)
  BY <1>2, FS_Interval
<1>4. Untried(S, h) \in SUBSET (1..Len(cfg.candidates))
  BY <1>2 DEF Untried
<1>5. IsFiniteSet(Untried(S, h))
      /\ Cardinality(Untried(S, h)) <= Cardinality(1..Len(cfg.candidates))
  BY <1>3, <1>4, FS_Subset
<1>6. Cardinality(Untried(S, h)) \in Nat
  BY <1>5, FS_CardinalityType
<1> QED
  BY <1>2, <1>3, <1>5, <1>6

(* Striking off more leaves no more moves; moving to one leaves fewer.     *)
LEMMA LeftShrinks ==
  ASSUME SelectorTypeOK, NEW S, NEW h, NEW R, NEW g, Untried(R, g) \subseteq Untried(S, h)
  PROVE  /\ Cardinality(Untried(R, g)) <= Cardinality(Untried(S, h))
         /\ Untried(R, g) # Untried(S, h)
              => Cardinality(Untried(R, g)) + 1 <= Cardinality(Untried(S, h))
<1>1. IsFiniteSet(Untried(S, h)) /\ Cardinality(Untried(S, h)) \in Nat
      /\ Cardinality(Untried(R, g)) \in Nat
  BY LeftBounded
<1>2. Cardinality(Untried(R, g)) <= Cardinality(Untried(S, h))
  BY <1>1, FS_Subset
<1>3. Cardinality(Untried(R, g)) = Cardinality(Untried(S, h)) => Untried(R, g) = Untried(S, h)
  BY <1>1, FS_Subset
<1> QED
  BY <1>1, <1>2, <1>3

(***************************************************************************)
(* The three judgements on a live reading, and when there is no choice.    *)
(***************************************************************************)
LEMMA Judgement ==
  ASSUME SelectorTypeOK, NEW o \in Observation, ObserveLive(o)
  PROVE  LET m     == Absorb(o)
             quiet == m.at - m.since >= Threshold(cfg, o)
         IN  /\ cfg' = cfg /\ started' = TRUE /\ lastRx' = o.rx
             /\ decision'.action \in Actions
             /\ decision'.action = "stay" =>
                  /\ on' = o.on /\ quietSince' = m.since /\ decision'.to = NoAddr
                  /\ tried' = m.struck /\ exhausted' = m.exhausted
                  /\ cfg.keepAlive > 0 => ~quiet
             /\ decision'.action = "give-up" =>
                  /\ on' = o.on /\ quietSince' = m.since /\ decision'.to = NoAddr
                  /\ exhausted' \/ cfg.candidates = <<>>
                  /\ quiet /\ cfg.keepAlive > 0
             /\ decision'.action = "switch" =>
                  /\ \E i \in Untried(m.struck \cup {o.on}, o.on) :
                       decision'.to = cfg.candidates[i]
                  /\ on' = decision'.to /\ quietSince' = m.at
                  /\ tried' = m.struck \cup {o.on} /\ ~m.exhausted /\ ~exhausted'
                  /\ pendingFrom' = o.on /\ pendingQuiet' = m.since
                  /\ quiet
             /\ (quiet /\ cfg.keepAlive > 0 /\ (m.exhausted \/ cfg.candidates = <<>>))
                  => decision'.action = "give-up"
<1> DEFINE m         == Absorb(o)
           quiet     == m.at - m.since
           threshold == Threshold(cfg, o)
           struck    == m.struck \cup {o.on}
           left      == Untried(struck, o.on)
<1>1. /\ m.at \in Nat /\ m.since \in Nat /\ m.exhausted \in BOOLEAN
      /\ threshold \in Nat /\ quiet \in Int /\ cfg.keepAlive \in Nat
  BY AbsorbType, ThresholdNat DEF SelectorTypeOK, Config
<1>2. \A a, r, t : /\ Answer(a, r, t, quiet, threshold).action = a
                   /\ Answer(a, r, t, quiet, threshold).to = t
  BY DEF Answer
<1>3. left \in SUBSET Nat /\ (cfg.candidates = <<>> => left = {})
  <2>1. cfg.candidates \in Seq(AddrPort)
    BY DEF SelectorTypeOK, Config
  <2> QED
    BY <2>1 DEF Untried
<1>4. left # {} => First(left) \in left
  BY <1>3, FirstMember
<1> HIDE DEF m, quiet, threshold, struck, left
<1>5. cfg' = cfg /\ started' = TRUE /\ lastRx' = o.rx
  BY DEF ObserveLive
<1> DEFINE Stay(r) ==
             /\ cfg.keepAlive > 0 => ~(quiet >= threshold)
             /\ on' = o.on /\ quietSince' = m.since
             /\ tried' = m.struck /\ exhausted' = m.exhausted
             /\ decision' = Answer("stay", r, NoAddr, quiet, threshold)
           GiveUp(r) ==
             /\ quiet >= threshold /\ cfg.keepAlive > 0
             /\ on' = o.on /\ quietSince' = m.since
             /\ exhausted' \/ cfg.candidates = <<>>
             /\ decision' = Answer("give-up", r, NoAddr, quiet, threshold)
           Move == LET to == cfg.candidates[First(left)] IN
             /\ quiet >= threshold
             /\ left # {}
             /\ ~m.exhausted
             /\ on' = to
             /\ decision' = Answer("switch", "silent", to, quiet, threshold)
             /\ quietSince' = m.at
             /\ tried' = struck
             /\ exhausted' = FALSE
             /\ pendingFrom' = o.on
             /\ pendingQuiet' = m.since
           Stands(a, r) ==
             /\ on' = o.on /\ quietSince' = m.since
             /\ tried' = m.struck /\ exhausted' = m.exhausted
             /\ decision' = Answer(a, r, NoAddr, quiet, threshold)
<1>6. (\E r \in Reasons : Stay(r)) \/ (\E r \in Reasons : GiveUp(r)) \/ Move
  <2>1. \/ quiet < threshold /\ Stands("stay", "alive")
        \/ cfg.keepAlive = 0 /\ Stands("stay", "no-keep-alive")
        \/ /\ quiet >= threshold /\ cfg.keepAlive > 0 /\ cfg.candidates = <<>>
           /\ Stands("give-up", "no-candidates")
        \/ /\ quiet >= threshold /\ cfg.keepAlive > 0 /\ m.exhausted
           /\ Stands("give-up", "exhausted")
        \/ GiveUp("exhausted")
        \/ Move
    BY DEF ObserveLive, ExhaustedClock, m, quiet, threshold, struck, left
  <2>2. CASE quiet < threshold /\ Stands("stay", "alive")
    BY <1>1, <2>2 DEF Reasons
  <2>3. CASE cfg.keepAlive = 0 /\ Stands("stay", "no-keep-alive")
    BY <1>1, <2>3 DEF Reasons
  <2>4. CASE /\ quiet >= threshold /\ cfg.keepAlive > 0 /\ cfg.candidates = <<>>
             /\ Stands("give-up", "no-candidates")
    BY <2>4 DEF Reasons
  <2>5. CASE /\ quiet >= threshold /\ cfg.keepAlive > 0 /\ m.exhausted
             /\ Stands("give-up", "exhausted")
    BY <2>5, Zenon DEF Reasons
  <2> QED
    BY <2>1, <2>2, <2>3, <2>4, <2>5 DEF Reasons
<1>7. CASE \E r \in Reasons : Stay(r)
  BY <1>2, <1>5, <1>7 DEF Actions, m, quiet, threshold
<1>8. CASE \E r \in Reasons : GiveUp(r)
  BY <1>2, <1>5, <1>8 DEF Actions, m, quiet, threshold
<1>9. CASE Move
  <2>1. left # {} /\ ~m.exhausted /\ cfg.candidates # <<>>
    BY <1>3, <1>9
  <2>2. \E i \in left : decision'.to = cfg.candidates[i]
    BY <1>2, <1>4, <1>9, <2>1
  <2>3. on' = decision'.to /\ decision'.action = "switch"
    BY <1>2, <1>9
  <2> QED
    BY <1>5, <1>9, <2>1, <2>2, <2>3 DEF Actions, m, quiet, threshold, struck, left
<1> QED
  BY <1>6, <1>7, <1>8, <1>9

(* A reading of a connection on which nothing was received since the last. *)
LEMMA SilentReading ==
  ASSUME IInv, live, started, rx = lastRx
  PROVE  /\ Absorb(Sample).since = IF addr = on THEN quietSince ELSE clock
         /\ Absorb(Sample).struck = tried
         /\ Absorb(Sample).exhausted = exhausted
<1>1. Sample.at = clock /\ Sample.on = addr /\ Sample.rx = rx
  BY SampleType DEF IInv
<1>2. /\ clock \in Nat /\ quietSince \in Nat /\ rx \in Nat /\ quietSince <= clock
      /\ exhausted \in BOOLEAN
  BY DEF IInv, TypeOK, SelectorTypeOK, Bookkeeping, ClocksBehind
<1> QED
  BY <1>1, <1>2 DEF Absorb

(* What a poll reads, and that it disturbs nothing but the selector.       *)
LEMMA PollFacts ==
  ASSUME IInv, Poll
  PROVE  /\ clock' = clock /\ live' = live /\ addr' = addr /\ rx' = rx /\ rtt' = rtt
         /\ eventAt' = eventAt /\ cfg' = cfg
         /\ order = NoAddr /\ order' = decision'.to /\ polled' = TRUE
         /\ ~live => decision'.action = "stay"
         /\ live => /\ ObserveLive(Sample)
                    /\ Absorb(Sample).at = clock
                    /\ Absorb(Sample).since \in Nat
                    /\ Absorb(Sample).since <= clock
<1>1. Sample \in Observation /\ Sample.live = live
  BY SampleType DEF IInv
<1>2. /\ clock' = clock /\ live' = live /\ addr' = addr /\ rx' = rx /\ rtt' = rtt
      /\ eventAt' = eventAt /\ order = NoAddr /\ order' = decision'.to /\ polled' = TRUE
      /\ Observe(Sample)
  BY DEF Poll, linkVars
<1>3. cfg' = cfg
  BY <1>2 DEF Observe, ObserveNoConnection, ObserveLive
<1>4. ~live => decision'.action = "stay"
  BY <1>1, <1>2 DEF Observe, ObserveNoConnection, ObserveLive, Answer
<1>5. live => ObserveLive(Sample)
  BY <1>1, <1>2 DEF Observe, ObserveNoConnection
<1> QED
  BY <1>2, <1>3, <1>4, <1>5, AbsorbSample

(* A give-up keeps its grounds.                                            *)
LEMMA StepGrounded ==
  ASSUME IInv, GiveUpGrounded, [Next]_vars
  PROVE  GiveUpGrounded'
<1>0. /\ clock \in Nat /\ quietSince \in Nat /\ rx \in Nat /\ lastRx \in Nat
      /\ Patience \in Nat
  BY PatienceNat DEF IInv, TypeOK, SelectorTypeOK
<1>1. CASE Tick
  <2>1. Patience' = Patience
    BY <1>1, PatienceKept DEF Tick, selVars, linkVars
  <2> QED
    BY <1>0, <1>1, <2>1 DEF GiveUpGrounded, Tick, selVars, linkVars, histVars
<1>2. CASE Deliver \/ \E a \in Plain : Migrate(a)
  <2>1. /\ live /\ live' /\ rx' = rx + 1 /\ unseen' = unseen
        /\ UNCHANGED <<selVars, order>>
    BY <1>2 DEF Deliver, Migrate
  <2>2. (started /\ ~unseen) => rx' # lastRx
    BY <1>0, <2>1 DEF IInv, Bookkeeping, SwapShows
  <2> QED
    BY <2>1, <2>2 DEF GiveUpGrounded, selVars
<1>3. CASE Die \/ UNCHANGED vars
  <2>1. /\ UNCHANGED <<selVars, clock, live, addr, rx, rtt, order, unseen>>
    BY <1>3 DEF Die, histVars, vars, linkVars
  <2>2. Patience' = Patience
    BY <2>1, PatienceKept DEF selVars
  <2> QED
    BY <2>1, <2>2 DEF GiveUpGrounded, selVars
<1>4. CASE Drop
  BY <1>4 DEF Drop, GiveUpGrounded, selVars
<1>5. CASE \E a \in Plain, n \in 0..MaxRx : Redial(a, n)
  BY <1>5 DEF Redial, GiveUpGrounded, selVars
<1>6. CASE Poll
  <2>1. CASE ~live
    BY <1>6, <2>1, PollFacts DEF GiveUpGrounded
  <2>2. CASE live
    <3>1. SelectorTypeOK /\ Sample \in Observation /\ Sample.on = addr
      BY SampleType DEF IInv, TypeOK
    <3>2. Patience' = Patience
      BY <1>6, PollFacts, PatienceKept
    <3>3. decision'.action = "give-up" =>
            /\ started' /\ cfg'.keepAlive > 0 /\ decision'.to = NoAddr
            /\ exhausted' \/ cfg'.candidates = <<>>
            /\ clock' - quietSince' >= Patience
      BY <1>6, <2>2, <3>1, PollFacts, Judgement DEF Patience
    <3> QED
      BY <1>6, <3>2, <3>3, PollFacts DEF GiveUpGrounded
  <2> QED
    BY <2>1, <2>2
<1>7. CASE SwitchTo \/ SwitchNoConnection \/ SwitchDiesInReset \/ SwitchRefused
  <2>1. order # NoAddr /\ decision' = decision
    BY <1>7 DEF SwitchTo, SwitchNoConnection, SwitchDiesInReset, SwitchRefused, SwitchFailed,
                selVars
  <2> QED
    BY <2>1 DEF GiveUpGrounded
<1> QED
  BY <1>1, <1>2, <1>3, <1>4, <1>5, <1>6, <1>7 DEF Next, Network, Driver

(* A poll keeps the pace.                                                  *)
LEMMA PollPace ==
  ASSUME WInv, Poll
  PROVE  Pace'
<1> SUFFICES ASSUME Settled', cfg'.keepAlive > 0
             PROVE  /\ started' /\ rx' = lastRx'
                    /\ OrderFresh'
                    /\ (order' = NoAddr /\ ~exhausted') => on' = addr'
                    /\ decision'.action = "give-up" =>
                         on' = addr' /\ clock' - quietSince' >= Patience'
                    /\ decision'.action # "give-up" => InTime'
  BY DEF Pace
<1> DEFINE m == Absorb(Sample)
<1>1. IInv /\ TypeOK /\ SelectorTypeOK /\ SelectorTypeOK' /\ NoAddr \notin Plain
  BY PollType, NoAddrAssumption DEF WInv, IInv, TypeOK, Plain
<1>2. /\ clock' = clock /\ live' = live /\ addr' = addr /\ rx' = rx /\ rtt' = rtt
      /\ eventAt' = eventAt /\ cfg' = cfg
      /\ order = NoAddr /\ order' = decision'.to /\ polled' = TRUE
      /\ live
      /\ ObserveLive(Sample) /\ m.at = clock /\ m.since \in Nat /\ m.since <= clock
  BY <1>1, PollFacts DEF Settled
<1>3. /\ clock \in Nat /\ quietSince \in Nat /\ eventAt \in Nat /\ quietSince <= clock
      /\ exhausted \in BOOLEAN /\ exhausted' \in BOOLEAN /\ addr \in Plain
      /\ decision' \in Decision
  BY <1>1 DEF IInv, TypeOK, SelectorTypeOK, Bookkeeping, ClocksBehind
<1>4. /\ Patience \in Nat /\ Patience >= 1 /\ Patience' = Patience
  BY <1>1, <1>2, PatienceNat, PatienceKept
<1>5. Sample \in Observation /\ Sample.on = addr /\ Sample.rx = rx
  BY <1>1, SampleType
<1>6. /\ started' = TRUE /\ lastRx' = rx
      /\ decision'.action \in Actions
      /\ decision'.action = "stay" =>
           /\ on' = addr /\ quietSince' = m.since /\ decision'.to = NoAddr
           /\ tried' = m.struck /\ exhausted' = m.exhausted
           /\ ~(clock - m.since >= Patience)
      /\ decision'.action = "give-up" =>
           /\ on' = addr /\ quietSince' = m.since /\ decision'.to = NoAddr
           /\ clock - m.since >= Patience
      /\ decision'.action = "switch" =>
           /\ \E i \in Untried(m.struck \cup {addr}, addr) : decision'.to = cfg.candidates[i]
           /\ on' = decision'.to /\ quietSince' = clock
           /\ tried' = m.struck \cup {addr} /\ ~m.exhausted /\ ~exhausted'
           /\ pendingFrom' = addr /\ pendingQuiet' = m.since
           /\ clock - m.since >= Patience
      /\ (clock - m.since >= Patience /\ (m.exhausted \/ cfg.candidates = <<>>))
           => decision'.action = "give-up"
  <2> HIDE DEF m
  <2>1. LET quiet == m.at - m.since >= Threshold(cfg, Sample)
        IN  /\ started' = TRUE /\ lastRx' = Sample.rx
            /\ decision'.action \in Actions
            /\ decision'.action = "stay" =>
                 /\ on' = Sample.on /\ quietSince' = m.since /\ decision'.to = NoAddr
                 /\ tried' = m.struck /\ exhausted' = m.exhausted
                 /\ cfg.keepAlive > 0 => ~quiet
            /\ decision'.action = "give-up" =>
                 /\ on' = Sample.on /\ quietSince' = m.since /\ decision'.to = NoAddr
                 /\ quiet
            /\ decision'.action = "switch" =>
                 /\ \E i \in Untried(m.struck \cup {Sample.on}, Sample.on) :
                      decision'.to = cfg.candidates[i]
                 /\ on' = decision'.to /\ quietSince' = m.at
                 /\ tried' = m.struck \cup {Sample.on} /\ ~m.exhausted /\ ~exhausted'
                 /\ pendingFrom' = Sample.on /\ pendingQuiet' = m.since
                 /\ quiet
            /\ (quiet /\ cfg.keepAlive > 0 /\ (m.exhausted \/ cfg.candidates = <<>>))
                 => decision'.action = "give-up"
    BY <1>1, <1>2, <1>5, Judgement DEF m
  <2> QED
    BY <1>2, <1>5, <2>1 DEF Patience
<1> HIDE DEF m
<1>7. decision'.action = "switch" =>
        /\ order' \in Plain /\ order' # NoAddr /\ order' = on'
        /\ order' # addr /\ order' \notin m.struck
  BY <1>1, <1>2, <1>6 DEF Untried, SelectorTypeOK
<1>8. OrderFresh' /\ ((order' = NoAddr /\ ~exhausted') => on' = addr')
  BY <1>2, <1>6, <1>7 DEF OrderFresh, Actions
<1>9. decision'.action # "give-up" => Due' = Larger(quietSince' + Patience, clock + 1)
  BY <1>2, <1>4, <1>6, <1>7 DEF Due, NextPoll, Actions
<1>10. /\ Len(cfg.candidates) \in Nat /\ Left' \in Nat /\ Left' <= Len(cfg.candidates)
       /\ Left \in Nat
  <2>1. Untried(tried, on)' = Untried(tried', on')
    BY <1>2 DEF Untried
  <2> QED
    BY <1>1, <2>1, LeftBounded DEF Left
<1>11. /\ Left' * Patience \in Nat /\ Left * Patience \in Nat
       /\ Len(cfg.candidates) * Patience \in Nat
       /\ Left' * Patience <= Len(cfg.candidates) * Patience
       /\ Left' + 1 <= Left => Left' * Patience + Patience <= Left * Patience
       /\ Deadline = eventAt + 1 + (Len(cfg.candidates) * Patience + Patience)
       /\ Deadline' = Deadline
  <2>1. Deadline' = Deadline
    BY <1>2, <1>4 DEF Deadline
  <2>2. /\ Left' * Patience \in Nat /\ Len(cfg.candidates) * Patience \in Nat
        /\ Left' * Patience <= Len(cfg.candidates) * Patience
        /\ (Len(cfg.candidates) + 1) * Patience = Len(cfg.candidates) * Patience + Patience
    BY <1>4, <1>10, Products
  <2>3. /\ Left * Patience \in Nat
        /\ Left' + 1 <= Left => Left' * Patience + Patience <= Left * Patience
    BY <1>4, <1>10, Products
  <2>4. Deadline = eventAt + 1 + (Len(cfg.candidates) * Patience + Patience)
    BY <2>2, Zenon DEF Deadline
  <2> QED
    BY <2>1, <2>2, <2>3, <2>4
<1>12. CASE clock <= eventAt + 1
  <2>1. clock = eventAt + 1
    BY <1>2, <1>3, <1>12 DEF Settled
  <2>2. ASSUME decision'.action # "give-up" PROVE InTime'
    <3>1. quietSince' \in Nat /\ quietSince' <= clock
      BY <1>2, <1>3, <1>6, <2>2 DEF Actions
    <3>2. Due' \in Nat /\ Due' <= clock + Patience
      BY <1>3, <1>4, <1>9, <2>2, <3>1, LatestDue
    <3>3. Due' + Left' * Patience <= Deadline /\ Due' <= Deadline + 1
      <4>1. PICK a \in Nat, b \in Nat : a = Left' * Patience /\ b = Len(cfg.candidates) * Patience
        BY <1>11
      <4>2. a <= b /\ Deadline = eventAt + 1 + (b + Patience)
        BY <1>11, <4>1
      <4>3. Due' + a <= Deadline /\ Due' <= Deadline + 1
        BY <1>3, <1>4, <2>1, <3>2, <4>2, SumsUp
      <4> QED
        BY <4>1, <4>3
    <3> QED
      BY <1>4, <1>11, <3>3 DEF InTime
  <2> QED
    BY <1>2, <1>4, <1>6, <1>8, <2>2
<1>13. CASE clock > eventAt + 1
  <2>1. /\ started /\ rx = lastRx
        /\ ~exhausted => on = addr
        /\ decision.action = "give-up" => on = addr /\ clock - quietSince >= Patience
        /\ decision.action # "give-up" => InTime
    BY <1>2, <1>13 DEF WInv, Pace, Settled
  <2>2. /\ m.since = IF addr = on THEN quietSince ELSE clock
        /\ m.struck = tried /\ m.exhausted = exhausted
    BY <1>1, <1>2, <2>1, SilentReading DEF m
  <2>3. CASE decision.action = "give-up"
    <3>1. exhausted \/ cfg.candidates = <<>>
      BY <2>3 DEF WInv, GiveUpGrounded
    <3>2. decision'.action = "give-up"
      BY <1>6, <2>1, <2>2, <2>3, <3>1
    <3> QED
      BY <1>2, <1>4, <1>6, <1>8, <2>1, <2>2, <2>3, <3>2
  <2>4. CASE decision.action # "give-up" /\ addr # on
    <3>1. exhausted /\ Due = NextPoll + Patience /\ NextPoll = clock
      BY <1>2, <2>1, <2>4 DEF Due, NextPoll, Poll
    <3>2. decision'.action = "stay" /\ quietSince' = clock /\ exhausted'
      <4>1. m.since = clock /\ m.exhausted
        BY <2>2, <2>4, <3>1, Zenon
      <4>2. ~(clock - clock >= Patience)
        BY <1>3, <1>4
      <4>3. decision'.action = "stay"
        BY <1>6, <4>1, <4>2 DEF Actions
      <4> QED
        BY <1>6, <4>1, <4>3, Zenon
    <3>3. Due' = clock + Patience
      BY <1>3, <1>4, <1>9, <3>2 DEF Larger
    <3>4. InTime'
      BY <1>3, <1>4, <1>11, <2>1, <2>4, <3>1, <3>2, <3>3 DEF InTime
    <3> QED
      BY <1>2, <1>6, <1>8, <3>2, <3>4
  <2>5. CASE decision.action # "give-up" /\ addr = on
    <3>1. /\ NextPoll = clock /\ m.since = quietSince
          /\ Due = Larger(quietSince + Patience, clock)
      BY <1>2, <2>2, <2>5 DEF Due, NextPoll, Poll
    <3>2. CASE decision'.action = "stay"
      <4>1. Due' = Due
        BY <1>3, <1>4, <1>6, <1>9, <3>1, <3>2 DEF Larger
      <4>2. Left' = Left
        BY <1>2, <1>6, <2>2, <2>5, <3>2 DEF Left, Untried
      <4>3. InTime'
        BY <1>4, <1>6, <1>11, <2>1, <2>2, <2>5, <3>2, <4>1, <4>2 DEF InTime
      <4> QED
        BY <1>2, <1>6, <1>8, <3>2, <4>3
    <3>3. CASE decision'.action = "give-up"
      BY <1>2, <1>4, <1>6, <1>8, <3>3
    <3>4. CASE decision'.action = "switch"
      <4>1. Due' = clock + Patience /\ Due >= clock /\ Due \in Nat
        BY <1>3, <1>4, <1>6, <1>9, <3>1, <3>4 DEF Larger
      <4>2. Left' + 1 <= Left
        <5>1. PICK i \in Untried(tried \cup {addr}, addr) : on' = cfg.candidates[i]
          BY <1>6, <2>2, <3>4
        <5>2. Untried(tried, on)' = Untried(tried', on')
          BY <1>2 DEF Untried
        <5>3. Untried(tried', on') \subseteq Untried(tried, on)
          BY <1>6, <2>2, <2>5, <3>4 DEF Untried
        <5>4. i \in Untried(tried, on) /\ i \notin Untried(tried', on')
          BY <5>1, <2>5 DEF Untried
        <5>5. Cardinality(Untried(tried', on')) + 1 <= Cardinality(Untried(tried, on))
          BY <1>1, <5>3, <5>4, LeftShrinks
        <5> QED
          BY <5>2, <5>5 DEF Left
      <4>3. ~exhausted /\ ~exhausted'
        BY <1>6, <2>2, <3>4
      <4>4. Due + Left * Patience <= Deadline
        BY <2>1, <2>5, <4>3 DEF InTime
      <4>5. Due' + Left' * Patience <= Deadline
        <5>1. PICK a \in Nat, b \in Nat : a = Left' * Patience /\ b = Left * Patience
          BY <1>11
        <5>2. a + Patience <= b /\ Due + b <= Deadline
          BY <1>11, <4>2, <4>4, <5>1
        <5>3. Due' + a <= Deadline
          <6>1. PICK c \in Nat : c = Len(cfg.candidates) * Patience
            BY <1>11
          <6>2. PICK e \in Nat : Deadline = e
            <7>1. Deadline = eventAt + 1 + (c + Patience)
              BY <1>11, <6>1, Zenon
            <7> QED
              BY <1>3, <1>4, <7>1
          <6> QED
            BY <1>3, <1>4, <4>1, <5>2, <6>2
        <5> QED
          BY <5>1, <5>3
      <4>6. InTime'
        BY <1>4, <1>11, <4>3, <4>5 DEF InTime
      <4> QED
        BY <1>2, <1>6, <1>8, <3>4, <4>6
    <3> QED
      BY <1>6, <3>2, <3>3, <3>4 DEF Actions
  <2> QED
    BY <2>3, <2>4, <2>5
<1> QED
  BY <1>3, <1>12, <1>13

(* SwitchFailed while the order stands: the silence goes on where it was   *)
(* left, with one candidate fewer.                                         *)
LEMMA FailedPace ==
  ASSUME WInv, Settled, cfg.keepAlive > 0, order # NoAddr, NEW out, SwitchFailed(order, out),
         UNCHANGED <<clock, polled, rtt, eventAt>>
  PROVE  /\ on' = addr /\ decision'.action = "switch" /\ Patience' = Patience
         /\ cfg' = cfg /\ started' = started /\ lastRx' = lastRx
         /\ out # "gone" => ~exhausted'
         /\ out = "gone" => exhausted'
         /\ NextPoll' = clock + 1
         /\ quietSince' \in Nat /\ quietSince' <= clock
         /\ clock \in Nat /\ Patience \in Nat /\ Patience >= 1 /\ Deadline' \in Nat
         /\ Left' * Patience \in Nat
         /\ clock + Patience + Left' * Patience <= Deadline'
<1>1. /\ IInv /\ TypeOK /\ SelectorTypeOK /\ started /\ OrderFresh /\ on = order
      /\ InTime /\ polled /\ ~exhausted /\ quietSince = clock /\ pendingQuiet <= clock
      /\ pendingFrom = addr /\ decision.action = "switch"
  BY DEF WInv, IInv, TypeOK, Pace, OrderFresh, Bookkeeping, OrderIsOn
<1>2. /\ clock \in Nat /\ pendingQuiet \in Nat /\ eventAt \in Nat
      /\ Patience \in Nat /\ Patience >= 1
  BY <1>1, PatienceNat DEF TypeOK, SelectorTypeOK
<1>3. /\ tried' = tried \cup {order} /\ on' = addr /\ quietSince' = pendingQuiet
      /\ UNCHANGED <<cfg, started, lastRx, decision>>
  BY <1>1 DEF SwitchFailed
<1>4. exhausted' = (exhausted \/ out = "gone")
  BY <1>1 DEF SwitchFailed
<1>5. Patience' = Patience
  BY <1>3, PatienceKept
<1>6. Deadline' = Deadline /\ NextPoll' = clock + 1
  BY <1>1, <1>3, <1>5 DEF Deadline, NextPoll
<1>7. Left' \in Nat /\ Left \in Nat /\ Left' <= Left /\ Len(cfg.candidates) \in Nat
  <2>1. Untried(tried, on)' = Untried(tried', on')
    BY <1>3 DEF Untried
  <2>2. Untried(tried', on') \subseteq Untried(tried, on)
    BY <1>1, <1>3 DEF Untried
  <2> QED
    BY <1>1, <2>1, <2>2, LeftBounded, LeftShrinks DEF Left
<1>8. /\ Left' * Patience \in Nat /\ Left * Patience \in Nat
      /\ Left' * Patience <= Left * Patience
  BY <1>2, <1>7, Products
<1>9. Due = clock + Patience
  BY <1>1, <1>2 DEF Due, NextPoll, Larger
<1>10. clock + Patience + Left * Patience <= Deadline
  BY <1>1, <1>9 DEF InTime
<1>11. Deadline \in Nat
  <2>1. PICK c \in Nat : c = (Len(cfg.candidates) + 1) * Patience
    BY <1>2, <1>7, Products
  <2>2. Deadline = eventAt + 1 + c
    BY <2>1, Zenon DEF Deadline
  <2> QED
    BY <1>2, <2>2
<1>12. clock + Patience + Left' * Patience <= Deadline
  <2>1. PICK a \in Nat, b \in Nat : a = Left' * Patience /\ b = Left * Patience
    BY <1>8
  <2>2. a <= b /\ clock + Patience + b <= Deadline
    BY <1>8, <1>10, <2>1
  <2>3. clock + Patience + a <= Deadline
    BY <1>2, <1>11, <2>2
  <2> QED
    BY <2>1, <2>3
<1>13. (out # "gone" => ~exhausted') /\ (out = "gone" => exhausted')
  BY <1>1, <1>4, Zenon
<1> QED
  BY <1>1, <1>2, <1>3, <1>5, <1>6, <1>8, <1>11, <1>12, <1>13

(* Every step keeps the pace.                                              *)
LEMMA StepPace ==
  ASSUME WInv, [Next]_vars
  PROVE  Pace'
<1>0. /\ clock \in Nat /\ eventAt \in Nat /\ quietSince \in Nat
      /\ Patience \in Nat /\ NoAddr \notin Plain
  BY PatienceNat, NoAddrAssumption DEF WInv, IInv, TypeOK, SelectorTypeOK, Plain
<1>1. CASE Tick
  <2> SUFFICES ASSUME Settled', cfg'.keepAlive > 0 PROVE Pace'
    BY DEF Pace
  <2>1. /\ UNCHANGED <<selVars, linkVars, order, eventAt>>
        /\ clock' = clock + 1 /\ polled /\ ~polled' /\ order = NoAddr
    BY <1>1 DEF Tick, histVars
  <2>2. Settled
    BY <1>0, <2>1 DEF Settled, linkVars
  <2>3. Patience' = Patience /\ NextPoll' = NextPoll
    BY <2>1, PatienceKept DEF selVars, linkVars, NextPoll
  <2>4. Due' = Due /\ Left' = Left /\ Deadline' = Deadline
    BY <2>1, <2>3 DEF Due, Left, Untried, Deadline, selVars, linkVars
  <2>5. InTime' = InTime
    BY <2>1, <2>3, <2>4 DEF InTime, selVars
  <2>6. OrderFresh'
    BY <2>1 DEF OrderFresh
  <2>7. clock - quietSince >= Patience => clock' - quietSince' >= Patience'
    BY <1>0, <2>1, <2>3 DEF selVars
  <2> QED
    BY <2>1, <2>2, <2>5, <2>6, <2>7 DEF WInv, Pace, selVars, linkVars
<1>2. CASE Deliver \/ (\E a \in Plain : Migrate(a)) \/ (\E a \in Plain, n \in 0..MaxRx : Redial(a, n))
  <2>1. eventAt' = clock /\ clock' = clock
    BY <1>2 DEF Deliver, Migrate, Redial
  <2>2. ~Settled'
    BY <1>0, <2>1 DEF Settled
  <2> QED
    BY <2>2 DEF Pace
<1>3. CASE Drop
  BY <1>3 DEF Drop, Pace, Settled
<1>4. CASE Die \/ UNCHANGED vars
  <2>1. UNCHANGED <<selVars, clock, polled, live, addr, rx, rtt, order, eventAt>>
    BY <1>4 DEF Die, histVars, vars, linkVars
  <2>2. Patience' = Patience /\ NextPoll' = NextPoll
    BY <2>1, PatienceKept DEF selVars, NextPoll
  <2>3. Due' = Due /\ Left' = Left /\ Deadline' = Deadline
    BY <2>1, <2>2 DEF Due, Left, Untried, Deadline, selVars
  <2>4. InTime' = InTime /\ Settled' = Settled /\ OrderFresh' = OrderFresh
    BY <2>1, <2>2, <2>3 DEF InTime, Settled, OrderFresh, selVars
  <2> QED
    BY <2>1, <2>2, <2>4 DEF WInv, Pace, selVars
<1>5. CASE Poll
  BY <1>5, PollPace
<1>6. CASE SwitchTo
  <2> SUFFICES ASSUME Settled', cfg'.keepAlive > 0 PROVE Pace'
    BY DEF Pace
  <2>1. /\ UNCHANGED <<selVars, clock, polled, live, rx, rtt, eventAt>>
        /\ order # NoAddr /\ addr' = order /\ order' = NoAddr
    BY <1>6 DEF SwitchTo, histVars
  <2>2. Settled /\ cfg.keepAlive > 0 /\ on' = addr'
    BY <2>1 DEF Settled, selVars, WInv, IInv, Bookkeeping, OrderIsOn
  <2>3. Patience' = Patience /\ NextPoll' = NextPoll
    BY <2>1, PatienceKept DEF selVars, NextPoll
  <2>4. Due' = Due /\ Left' = Left /\ Deadline' = Deadline
    BY <2>1, <2>2, <2>3 DEF Due, Left, Untried, Deadline, selVars
  <2>5. InTime' = InTime
    BY <2>1, <2>3, <2>4 DEF InTime, selVars
  <2>6. OrderFresh' /\ decision.action = "switch" /\ InTime /\ started /\ rx = lastRx
    BY <2>1, <2>2 DEF WInv, Pace, OrderFresh
  <2> QED
    BY <2>1, <2>2, <2>5, <2>6 DEF Pace, selVars
<1>7. ASSUME order # NoAddr, order' = NoAddr, Settled', cfg'.keepAlive > 0,
             NEW out, SwitchFailed(order, out),
             UNCHANGED <<clock, polled, live, rx, rtt, eventAt>>,
             addr' = addr \/ out = "gone"
      PROVE  Pace'
  <2>1. Settled /\ cfg.keepAlive > 0
    BY <1>7 DEF Settled, SwitchFailed
  <2>2. started /\ rx = lastRx
    BY <2>1 DEF WInv, Pace
  <2>3. /\ on' = addr /\ decision'.action = "switch" /\ Patience' = Patience
        /\ started' = started /\ lastRx' = lastRx
        /\ out # "gone" => ~exhausted'
        /\ out = "gone" => exhausted'
        /\ NextPoll' = clock + 1
        /\ quietSince' \in Nat /\ quietSince' <= clock
        /\ Patience >= 1 /\ Deadline' \in Nat
        /\ Left' * Patience \in Nat
        /\ clock + Patience + Left' * Patience <= Deadline'
    BY <1>7, <2>1, FailedPace
  <2>4. Larger(quietSince' + Patience, clock + 1) \in Nat
        /\ Larger(quietSince' + Patience, clock + 1) <= clock + Patience
    BY <1>0, <2>3, LatestDue
  <2>5. PICK l \in Nat : l = Left' * Patience
    BY <2>3
  <2>6. clock + Patience + l <= Deadline'
    BY <2>3, <2>5
  <2>7. CASE addr' = addr
    <3>1. Due' = Larger(quietSince' + Patience, clock + 1)
      BY <1>7, <2>3, <2>7 DEF Due
    <3>2. Due' + l <= Deadline' /\ Due' <= Deadline' + 1
      BY <1>0, <2>3, <2>4, <2>6, <3>1
    <3>3. InTime'
      BY <2>3, <2>5, <3>2 DEF InTime
    <3> QED
      BY <1>7, <2>2, <2>3, <2>7, <3>3 DEF Pace, OrderFresh
  <2>8. CASE out = "gone"
    <3>1. Due' = Larger(quietSince' + Patience, clock + 1) \/ Due' = clock + 1 + Patience
      BY <1>7, <2>3 DEF Due
    <3>2. Due' <= Deadline' + 1
      BY <1>0, <2>3, <2>4, <2>6, <3>1
    <3>3. InTime'
      BY <2>3, <2>8, <3>2 DEF InTime
    <3> QED
      BY <1>7, <2>2, <2>3, <2>8, <3>3 DEF Pace, OrderFresh
  <2> QED
    BY <1>7, <2>7, <2>8
<1>8. CASE SwitchNoConnection \/ SwitchDiesInReset \/ SwitchRefused
  <2> SUFFICES ASSUME Settled', cfg'.keepAlive > 0 PROVE Pace'
    BY DEF Pace
  <2>1. \E out : /\ SwitchFailed(order, out)
                 /\ addr' = addr \/ out = "gone"
                 /\ order # NoAddr /\ order' = NoAddr
                 /\ UNCHANGED <<clock, polled, live, rx, rtt, eventAt>>
    BY <1>8 DEF SwitchNoConnection, SwitchDiesInReset, SwitchRefused, linkVars, histVars
  <2> QED
    BY <1>7, <2>1
<1> QED
  BY <1>1, <1>2, <1>3, <1>4, <1>5, <1>6, <1>8 DEF Next, Network, Driver

(* Selector and connection agree on why the policy gave up, and on how far *)
(* it has come where it has not.                                           *)
THEOREM PaceHolds == Spec => []WInv
<1>1. Init => GiveUpGrounded /\ Pace
  <2> SUFFICES ASSUME Init PROVE GiveUpGrounded /\ Pace
    OBVIOUS
  <2>1. decision.action = "stay" /\ clock = 0 /\ eventAt = 0
    BY DEF Init, New, Answer
  <2> QED
    BY <2>1 DEF GiveUpGrounded, Pace, Settled
<1>2. WInv /\ [Next]_vars => GiveUpGrounded' /\ Pace'
  BY StepGrounded, StepPace DEF WInv
<1> QED
  BY <1>1, <1>2, BookkeepingHolds, PTL DEF Spec, WInv

(* A give-up is a standing answer: a poll that sees the same connection,   *)
(* address and counter gives up again.                                     *)
THEOREM GivesUpForGood == Spec => GiveUpStands
<1>1. ASSUME WInv, Poll, live, ~unseen, decision.action = "give-up",
             started, rx = lastRx, addr = on
      PROVE  decision'.action = "give-up"
  <2>1. IInv /\ SelectorTypeOK /\ Sample \in Observation
    BY <1>1, SampleType DEF WInv, IInv, TypeOK
  <2>2. /\ Absorb(Sample).at = clock /\ Absorb(Sample).since = quietSince
        /\ Absorb(Sample).exhausted = exhausted /\ ObserveLive(Sample)
    BY <1>1, <2>1, PollFacts, SilentReading
  <2>3. /\ cfg.keepAlive > 0
        /\ exhausted \/ cfg.candidates = <<>>
        /\ clock - quietSince >= Threshold(cfg, Sample)
    BY <1>1 DEF WInv, GiveUpGrounded, Patience
  <2> QED
    BY <2>1, <2>2, <2>3, Judgement
<1>2. WInv => ((Poll /\ live /\ ~unseen /\ decision.action = "give-up"
                  /\ started /\ rx = lastRx /\ addr = on) => decision'.action = "give-up")
  BY <1>1
<1> QED
  BY <1>2, PaceHolds, PTL DEF GiveUpStands

(* How long the policy takes: whatever switches fail and however, a        *)
(* connection that stays silent is given up within one threshold per       *)
(* candidate and one more.                                                 *)
THEOREM SilenceAlwaysEnds == Spec => []SilenceEndsInGiveUp
<1>1. ASSUME WInv, live, polled, order = NoAddr, cfg.keepAlive > 0, clock - eventAt >= WalkTime,
             decision.action # "give-up"
      PROVE  FALSE
  <2>1. /\ TypeOK /\ clock \in Nat /\ eventAt \in Nat /\ quietSince \in Nat /\ Patience \in Nat
        /\ Patience >= 1 /\ Len(cfg.candidates) \in Nat /\ Left \in Nat
    BY <1>1, PatienceNat, LeftBounded DEF WInv, IInv, TypeOK, SelectorTypeOK, Left
  <2>2. PICK c \in Nat, l \in Nat :
          c = (Len(cfg.candidates) + 1) * Patience /\ l = Left * Patience
    BY <2>1, Products
  <2>3. clock - eventAt >= c + 2 /\ Deadline = eventAt + 1 + c
    BY <1>1, <2>2, Zenon DEF WalkTime, Patience, Deadline
  <2>4. InTime
    BY <1>1, <2>1, <2>3 DEF WInv, Pace, Settled
  <2>5. Due \in Nat /\ Due >= clock + 1
    BY <1>1, <2>1 DEF Due, NextPoll, Larger
  <2>6. Due <= Deadline + 1
    <3>1. Due <= Deadline + 1 \/ Due + l <= Deadline
      BY <2>2, <2>4 DEF InTime
    <3> QED
      BY <2>1, <2>3, <2>5, <3>1
  <2> QED
    BY <2>1, <2>3, <2>5, <2>6
<1>2. WInv => SilenceEndsInGiveUp
  BY <1>1 DEF SilenceEndsInGiveUp
<1> QED
  BY <1>2, PaceHolds, PTL
=============================================================================
