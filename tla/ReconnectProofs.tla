-------------------------- MODULE ReconnectProofs ---------------------------
(***************************************************************************)
(* Proofs about Reconnect, for every number of callers, path selectors and *)
(* dials.                                                                  *)
(***************************************************************************)
EXTENDS MCReconnect, TLAPS

Pc == {"idle", "enter", "dial", "do", "drop", "lock", "set", "reset", "install", "unlock"}

(* Where a goroutine has picked a client.                                  *)
Picked == {"do", "drop", "lock", "set", "reset", "install", "unlock"}

(* Where SwitchTo holds pathMu.                                            *)
Switching == {"set", "reset", "install", "unlock"}

TypeOK ==
  /\ m \in Goroutine \cup {Nobody}
  /\ client \in 0..dials
  /\ count \in Nat
  /\ closed \in BOOLEAN
  /\ dials \in 0..MaxDials
  /\ alive \in [Dial -> BOOLEAN]
  /\ open \in [Dial -> BOOLEAN]
  /\ cc \in [Dial -> {"negotiated", "reno"}]
  /\ measured \in [Dial -> BOOLEAN]
  /\ pathMu \in [Dial -> Goroutine \cup {Nobody}]
  /\ pc \in [Goroutine -> Pc]
  /\ cur \in [Goroutine -> 0..MaxDials]
  /\ blamed \in SUBSET Dial

(* The dial under way is the one m's holder makes: nobody else dials, the  *)
(* field is nil, the client is not closed, and the number is a new one.    *)
DialsAlone ==
  \A g \in Goroutine :
    /\ pc[g] = "dial" <=> m = g
    /\ pc[g] = "dial" => client = 0 /\ ~closed /\ dials \in Dial

(* A client that was picked was dialled, by a dial that had ended.         *)
PickedBefore ==
  \A g \in Goroutine :
    /\ cur[g] <= dials
    /\ m # Nobody => cur[g] < dials
    /\ pc[g] \in Picked => cur[g] \in Dial

(* pathMu: whoever is inside a switch holds it, and nobody else does.      *)
OneSwitchEach ==
  /\ \A g \in Goroutine : pc[g] \in Switching => pathMu[cur[g]] = g
  /\ \A i \in Dial :
       pathMu[i] # Nobody => pc[pathMu[i]] \in Switching /\ cur[pathMu[i]] = i

(* What a switch has restored by the time it is about to install the       *)
(* controller, and by the time it lets go of pathMu.                       *)
RestoredSoFar ==
  \A g \in Goroutine :
    /\ pc[g] = "install" /\ alive[cur[g]] => measured[cur[g]]
    /\ pc[g] = "unlock" /\ alive[cur[g]] => cc[cur[g]] = "negotiated" /\ measured[cur[g]]

(* A caller about to drop a client saw it closed, or blamed it.            *)
DropsBlamed ==
  \A g \in Goroutine : pc[g] = "drop" /\ alive[cur[g]] => cur[g] \in blamed

IInv ==
  /\ TypeOK
  /\ DialsAlone
  /\ PickedBefore
  /\ OneSwitchEach
  /\ RestoredSoFar
  /\ DropsBlamed
  /\ HeldAndWhole
-----------------------------------------------------------------------------
(* The invariant holds before the first dial.                              *)
LEMMA InitHolds ==
  ASSUME Init
  PROVE  IInv
<1> USE ReconnectAssumption DEF Init, Goroutine, Dial
<1>1. TypeOK
  <2>1. client \in 0..dials /\ dials \in 0..MaxDials /\ cur \in [Goroutine -> 0..MaxDials]
    OBVIOUS
  <2>2. /\ alive \in [Dial -> BOOLEAN] /\ open \in [Dial -> BOOLEAN]
        /\ measured \in [Dial -> BOOLEAN] /\ closed \in BOOLEAN
    BY Zenon
  <2> QED
    BY <2>1, <2>2 DEF TypeOK, Pc
<1>2. DialsAlone /\ PickedBefore /\ OneSwitchEach /\ RestoredSoFar /\ DropsBlamed
  BY DEF DialsAlone, PickedBefore, OneSwitchEach, RestoredSoFar, DropsBlamed, Picked, Switching
<1>3. HeldAndWhole
  BY DEF HeldAndWhole, SwitchesWhole, DropsOnlyClosed, CloseIsFinal
<1> QED
  BY <1>1, <1>2, <1>3 DEF IInv

(* A caller's step keeps it: clientDo, and reconnect under m.              *)
LEMMA CallerStepHolds ==
  ASSUME IInv, NEW p \in Caller, Call(p) \/ CallerStep(p)
  PROVE  IInv'
<1> USE ReconnectAssumption DEF IInv, TypeOK, Goroutine, Dial, Pc, Picked, Switching
<1>1. CASE Call(p)
  <2>1. TypeOK'
    BY <1>1 DEF Call, Goto, dialVars
  <2>2. DialsAlone'
    BY <1>1 DEF Call, Goto, dialVars, DialsAlone
  <2>3. PickedBefore'
    BY <1>1 DEF Call, Goto, dialVars, PickedBefore, DialsAlone
  <2>4. OneSwitchEach'
    BY <1>1 DEF Call, Goto, dialVars, OneSwitchEach, PickedBefore
  <2>5. RestoredSoFar'
    BY <1>1 DEF Call, Goto, dialVars, RestoredSoFar, OneSwitchEach, PickedBefore
  <2>6. DropsBlamed'
    BY <1>1 DEF Call, Goto, dialVars, DropsBlamed, PickedBefore, DialsAlone
  <2>7. HeldAndWhole'
    BY <1>1 DEF Call, Goto, dialVars, HeldAndWhole, SwitchesWhole, DropsOnlyClosed,
        CloseIsFinal, DialsAlone, PickedBefore, OneSwitchEach, RestoredSoFar,
        DropsBlamed
  <2> QED
    BY <2>1, <2>2, <2>3, <2>4, <2>5, <2>6, <2>7
<1>2. CASE DoClosed(p)
  <2>1. TypeOK'
    BY <1>2 DEF DoClosed, Return, dialVars
  <2>2. DialsAlone'
    BY <1>2 DEF DoClosed, Return, dialVars, DialsAlone
  <2>3. PickedBefore'
    BY <1>2 DEF DoClosed, Return, dialVars, PickedBefore, DialsAlone
  <2>4. OneSwitchEach'
    BY <1>2 DEF DoClosed, Return, dialVars, OneSwitchEach, PickedBefore
  <2>5. RestoredSoFar'
    BY <1>2 DEF DoClosed, Return, dialVars, RestoredSoFar, OneSwitchEach, PickedBefore
  <2>6. DropsBlamed'
    BY <1>2 DEF DoClosed, Return, dialVars, DropsBlamed, PickedBefore, DialsAlone
  <2>7. HeldAndWhole'
    BY <1>2 DEF DoClosed, Return, dialVars, HeldAndWhole, SwitchesWhole,
        DropsOnlyClosed, CloseIsFinal, DialsAlone, PickedBefore, OneSwitchEach,
        RestoredSoFar, DropsBlamed
  <2> QED
    BY <2>1, <2>2, <2>3, <2>4, <2>5, <2>6, <2>7
<1>3. CASE DoPick(p)
  <2>1. TypeOK'
    BY <1>3 DEF DoPick, Goto, dialVars
  <2>2. DialsAlone'
    BY <1>3 DEF DoPick, Goto, dialVars, DialsAlone
  <2>3. PickedBefore'
    BY <1>3 DEF DoPick, Goto, dialVars, PickedBefore, DialsAlone
  <2>4. OneSwitchEach'
    BY <1>3 DEF DoPick, Goto, dialVars, OneSwitchEach, PickedBefore
  <2>5. RestoredSoFar'
    BY <1>3 DEF DoPick, Goto, dialVars, RestoredSoFar, OneSwitchEach, PickedBefore
  <2>6. DropsBlamed'
    BY <1>3 DEF DoPick, Goto, dialVars, DropsBlamed, PickedBefore, DialsAlone
  <2>7. HeldAndWhole'
    BY <1>3 DEF DoPick, Goto, dialVars, HeldAndWhole, SwitchesWhole, DropsOnlyClosed,
        CloseIsFinal, DialsAlone, PickedBefore, OneSwitchEach, RestoredSoFar,
        DropsBlamed
  <2> QED
    BY <2>1, <2>2, <2>3, <2>4, <2>5, <2>6, <2>7
<1>4. CASE ConfigFails(p)
  <2>1. TypeOK'
    BY <1>4 DEF ConfigFails, Return, dialVars
  <2>2. DialsAlone'
    BY <1>4 DEF ConfigFails, Return, dialVars, DialsAlone
  <2>3. PickedBefore'
    BY <1>4 DEF ConfigFails, Return, dialVars, PickedBefore, DialsAlone
  <2>4. OneSwitchEach'
    BY <1>4 DEF ConfigFails, Return, dialVars, OneSwitchEach, PickedBefore
  <2>5. RestoredSoFar'
    BY <1>4 DEF ConfigFails, Return, dialVars, RestoredSoFar, OneSwitchEach,
        PickedBefore
  <2>6. DropsBlamed'
    BY <1>4 DEF ConfigFails, Return, dialVars, DropsBlamed, PickedBefore, DialsAlone
  <2>7. HeldAndWhole'
    BY <1>4 DEF ConfigFails, Return, dialVars, HeldAndWhole, SwitchesWhole,
        DropsOnlyClosed, CloseIsFinal, DialsAlone, PickedBefore, OneSwitchEach,
        RestoredSoFar, DropsBlamed
  <2> QED
    BY <2>1, <2>2, <2>3, <2>4, <2>5, <2>6, <2>7
<1>5. CASE DialStart(p)
  <2>1. TypeOK'
    BY <1>5 DEF DialStart, Goto
  <2>2. DialsAlone'
    BY <1>5 DEF DialStart, Goto, DialsAlone
  <2>3. PickedBefore'
    BY <1>5 DEF DialStart, Goto, PickedBefore, DialsAlone
  <2>4. OneSwitchEach'
    BY <1>5 DEF DialStart, Goto, OneSwitchEach, PickedBefore
  <2>5. RestoredSoFar'
    BY <1>5 DEF DialStart, Goto, RestoredSoFar, OneSwitchEach, PickedBefore
  <2>6. DropsBlamed'
    BY <1>5 DEF DialStart, Goto, DropsBlamed, PickedBefore, DialsAlone
  <2>7. HeldAndWhole'
    BY <1>5 DEF DialStart, Goto, HeldAndWhole, SwitchesWhole, DropsOnlyClosed,
        CloseIsFinal, DialsAlone, PickedBefore, OneSwitchEach, RestoredSoFar,
        DropsBlamed
  <2> QED
    BY <2>1, <2>2, <2>3, <2>4, <2>5, <2>6, <2>7
<1>6. CASE DialFails(p)
  <2>1. TypeOK'
    BY <1>6 DEF DialFails, Return, Counted, DialsAlone
  <2>2. DialsAlone'
    BY <1>6 DEF DialFails, Return, Counted, DialsAlone
  <2>3. PickedBefore'
    BY <1>6 DEF DialFails, Return, Counted, PickedBefore, DialsAlone
  <2>4. OneSwitchEach'
    BY <1>6 DEF DialFails, Return, Counted, OneSwitchEach, PickedBefore
  <2>5. RestoredSoFar'
    BY <1>6 DEF DialFails, Return, Counted, RestoredSoFar, OneSwitchEach, PickedBefore
  <2>6. DropsBlamed'
    BY <1>6 DEF DialFails, Return, Counted, DropsBlamed, PickedBefore, DialsAlone
  <2>7. HeldAndWhole'
    BY <1>6 DEF DialFails, Return, Counted, HeldAndWhole, SwitchesWhole,
        DropsOnlyClosed, CloseIsFinal, DialsAlone, PickedBefore, OneSwitchEach,
        RestoredSoFar, DropsBlamed
  <2> QED
    BY <2>1, <2>2, <2>3, <2>4, <2>5, <2>6, <2>7
<1>7. CASE DialOK(p)
  <2>1. TypeOK'
    BY <1>7 DEF DialOK, Goto, Counted, DialsAlone
  <2>2. DialsAlone'
    BY <1>7 DEF DialOK, Goto, Counted, DialsAlone
  <2>3. PickedBefore'
    BY <1>7 DEF DialOK, Goto, Counted, PickedBefore, DialsAlone
  <2>4. OneSwitchEach'
    BY <1>7 DEF DialOK, Goto, Counted, OneSwitchEach, PickedBefore
  <2>5. RestoredSoFar'
    BY <1>7 DEF DialOK, Goto, Counted, RestoredSoFar, OneSwitchEach, PickedBefore
  <2>6. DropsBlamed'
    BY <1>7 DEF DialOK, Goto, Counted, DropsBlamed, PickedBefore, DialsAlone
  <2>7. HeldAndWhole'
    BY <1>7 DEF DialOK, Goto, Counted, HeldAndWhole, SwitchesWhole, DropsOnlyClosed,
        CloseIsFinal, DialsAlone, PickedBefore, OneSwitchEach, RestoredSoFar,
        DropsBlamed
  <2> QED
    BY <2>1, <2>2, <2>3, <2>4, <2>5, <2>6, <2>7
<1>8. CASE DoAnswered(p)
  <2>1. TypeOK'
    BY <1>8 DEF DoAnswered, Return, dialVars
  <2>2. DialsAlone'
    BY <1>8 DEF DoAnswered, Return, dialVars, DialsAlone
  <2>3. PickedBefore'
    BY <1>8 DEF DoAnswered, Return, dialVars, PickedBefore, DialsAlone
  <2>4. OneSwitchEach'
    BY <1>8 DEF DoAnswered, Return, dialVars, OneSwitchEach, PickedBefore
  <2>5. RestoredSoFar'
    BY <1>8 DEF DoAnswered, Return, dialVars, RestoredSoFar, OneSwitchEach, PickedBefore
  <2>6. DropsBlamed'
    BY <1>8 DEF DoAnswered, Return, dialVars, DropsBlamed, PickedBefore, DialsAlone
  <2>7. HeldAndWhole'
    BY <1>8 DEF DoAnswered, Return, dialVars, HeldAndWhole, SwitchesWhole,
        DropsOnlyClosed, CloseIsFinal, DialsAlone, PickedBefore, OneSwitchEach,
        RestoredSoFar, DropsBlamed
  <2> QED
    BY <2>1, <2>2, <2>3, <2>4, <2>5, <2>6, <2>7
<1>9. CASE DoClosedError(p)
  <2>1. TypeOK'
    BY <1>9 DEF DoClosedError, Goto, dialVars, PickedBefore
  <2>2. DialsAlone'
    BY <1>9 DEF DoClosedError, Goto, dialVars, DialsAlone
  <2>3. PickedBefore'
    BY <1>9 DEF DoClosedError, Goto, dialVars, PickedBefore, DialsAlone
  <2>4. OneSwitchEach'
    BY <1>9 DEF DoClosedError, Goto, dialVars, OneSwitchEach, PickedBefore
  <2>5. RestoredSoFar'
    BY <1>9 DEF DoClosedError, Goto, dialVars, RestoredSoFar, OneSwitchEach,
        PickedBefore
  <2>6. DropsBlamed'
    BY <1>9 DEF DoClosedError, Goto, dialVars, DropsBlamed, PickedBefore, DialsAlone
  <2>7. HeldAndWhole'
    BY <1>9 DEF DoClosedError, Goto, dialVars, HeldAndWhole, SwitchesWhole,
        DropsOnlyClosed, CloseIsFinal, DialsAlone, PickedBefore, OneSwitchEach,
        RestoredSoFar, DropsBlamed
  <2> QED
    BY <2>1, <2>2, <2>3, <2>4, <2>5, <2>6, <2>7
<1>10. CASE DropClient(p)
  <2>1. TypeOK'
    BY <1>10 DEF DropClient, Return, dialVars, AfterError
  <2>2. DialsAlone'
    BY <1>10 DEF DropClient, Return, dialVars, AfterError, DialsAlone
  <2>3. PickedBefore'
    BY <1>10 DEF DropClient, Return, dialVars, AfterError, PickedBefore, DialsAlone
  <2>4. OneSwitchEach'
    BY <1>10 DEF DropClient, Return, dialVars, AfterError, OneSwitchEach, PickedBefore
  <2>5. RestoredSoFar'
    BY <1>10 DEF DropClient, Return, dialVars, AfterError, RestoredSoFar, OneSwitchEach,
        PickedBefore
  <2>6. DropsBlamed'
    BY <1>10 DEF DropClient, Return, dialVars, AfterError, DropsBlamed, PickedBefore,
        DialsAlone
  <2>7. HeldAndWhole'
    BY <1>10 DEF DropClient, Return, dialVars, AfterError, HeldAndWhole, SwitchesWhole,
        DropsOnlyClosed, CloseIsFinal, DialsAlone, PickedBefore, OneSwitchEach,
        RestoredSoFar, DropsBlamed
  <2> QED
    BY <2>1, <2>2, <2>3, <2>4, <2>5, <2>6, <2>7
<1> QED
  BY <1>1, <1>2, <1>3, <1>4, <1>5, <1>6, <1>7, <1>8, <1>9, <1>10 DEF CallerStep

(* A selector's step keeps it: SwitchTo, under pathMu.                     *)
LEMMA WatcherStepHolds ==
  ASSUME IInv, NEW w \in Watcher, SwitchPick(w) \/ WatcherStep(w)
  PROVE  IInv'
<1> USE ReconnectAssumption DEF IInv, TypeOK, Goroutine, Dial, Pc, Picked, Switching
<1>1. CASE SwitchPick(w)
  <2>1. TypeOK'
    BY <1>1 DEF SwitchPick, Goto, dialVars
  <2>2. DialsAlone'
    BY <1>1 DEF SwitchPick, Goto, dialVars, DialsAlone
  <2>3. PickedBefore'
    BY <1>1 DEF SwitchPick, Goto, dialVars, PickedBefore, DialsAlone
  <2>4. OneSwitchEach'
    BY <1>1 DEF SwitchPick, Goto, dialVars, OneSwitchEach, PickedBefore
  <2>5. RestoredSoFar'
    BY <1>1 DEF SwitchPick, Goto, dialVars, RestoredSoFar, OneSwitchEach, PickedBefore
  <2>6. DropsBlamed'
    BY <1>1 DEF SwitchPick, Goto, dialVars, DropsBlamed, PickedBefore, DialsAlone
  <2>7. HeldAndWhole'
    BY <1>1 DEF SwitchPick, Goto, dialVars, HeldAndWhole, SwitchesWhole,
        DropsOnlyClosed, CloseIsFinal, DialsAlone, PickedBefore, OneSwitchEach,
        RestoredSoFar, DropsBlamed
  <2> QED
    BY <2>1, <2>2, <2>3, <2>4, <2>5, <2>6, <2>7
<1>2. CASE SwitchLock(w)
  <2>1. TypeOK'
    BY <1>2 DEF SwitchLock, Goto, MayLock
  <2>2. DialsAlone'
    BY <1>2 DEF SwitchLock, Goto, MayLock, DialsAlone
  <2>3. PickedBefore'
    BY <1>2 DEF SwitchLock, Goto, MayLock, PickedBefore, DialsAlone
  <2>4. OneSwitchEach'
    BY <1>2 DEF SwitchLock, Goto, MayLock, OneSwitchEach, PickedBefore
  <2>5. RestoredSoFar'
    BY <1>2 DEF SwitchLock, Goto, MayLock, RestoredSoFar, OneSwitchEach, PickedBefore
  <2>6. DropsBlamed'
    BY <1>2 DEF SwitchLock, Goto, MayLock, DropsBlamed, PickedBefore, DialsAlone
  <2>7. HeldAndWhole'
    BY <1>2 DEF SwitchLock, Goto, MayLock, HeldAndWhole, SwitchesWhole, DropsOnlyClosed,
        CloseIsFinal, DialsAlone, PickedBefore, OneSwitchEach, RestoredSoFar,
        DropsBlamed
  <2> QED
    BY <2>1, <2>2, <2>3, <2>4, <2>5, <2>6, <2>7
<1>3. CASE SetRemoteAddr(w)
  <2>1. TypeOK'
    BY <1>3 DEF SetRemoteAddr, Goto
  <2>2. DialsAlone'
    BY <1>3 DEF SetRemoteAddr, Goto, DialsAlone
  <2>3. PickedBefore'
    BY <1>3 DEF SetRemoteAddr, Goto, PickedBefore, DialsAlone
  <2>4. OneSwitchEach'
    BY <1>3 DEF SetRemoteAddr, Goto, OneSwitchEach, PickedBefore
  <2>5. RestoredSoFar'
    BY <1>3 DEF SetRemoteAddr, Goto, RestoredSoFar, OneSwitchEach, PickedBefore
  <2>6. DropsBlamed'
    BY <1>3 DEF SetRemoteAddr, Goto, DropsBlamed, PickedBefore, DialsAlone
  <2>7. HeldAndWhole'
    BY <1>3 DEF SetRemoteAddr, Goto, HeldAndWhole, SwitchesWhole, DropsOnlyClosed,
        CloseIsFinal, DialsAlone, PickedBefore, OneSwitchEach, RestoredSoFar,
        DropsBlamed
  <2> QED
    BY <2>1, <2>2, <2>3, <2>4, <2>5, <2>6, <2>7
<1>4. CASE ResetPathState(w)
  <2>1. TypeOK'
    BY <1>4 DEF ResetPathState, Goto
  <2>2. DialsAlone'
    BY <1>4 DEF ResetPathState, Goto, DialsAlone
  <2>3. PickedBefore'
    BY <1>4 DEF ResetPathState, Goto, PickedBefore, DialsAlone
  <2>4. OneSwitchEach'
    <3>1. pathMu' = pathMu /\ cur' = cur
      BY <1>4 DEF ResetPathState
    <3>2. \E l \in {"install", "unlock"} : pc' = [pc EXCEPT ![w] = l]
      BY <1>4 DEF ResetPathState, Goto
    <3> QED
      BY <1>4, <3>1, <3>2 DEF ResetPathState, OneSwitchEach
  <2>5. RestoredSoFar'
    BY <1>4 DEF ResetPathState, Goto, RestoredSoFar, OneSwitchEach, PickedBefore
  <2>6. DropsBlamed'
    BY <1>4 DEF ResetPathState, Goto, DropsBlamed, PickedBefore, DialsAlone
  <2>7. HeldAndWhole'
    BY <1>4 DEF ResetPathState, Goto, HeldAndWhole, SwitchesWhole, DropsOnlyClosed,
        CloseIsFinal, DialsAlone, PickedBefore, OneSwitchEach, RestoredSoFar,
        DropsBlamed
  <2> QED
    BY <2>1, <2>2, <2>3, <2>4, <2>5, <2>6, <2>7
<1>5. CASE installCongestionControl(w)
  <2>1. TypeOK'
    BY <1>5 DEF installCongestionControl, Goto
  <2>2. DialsAlone'
    BY <1>5 DEF installCongestionControl, Goto, DialsAlone
  <2>3. PickedBefore'
    BY <1>5 DEF installCongestionControl, Goto, PickedBefore, DialsAlone
  <2>4. OneSwitchEach'
    BY <1>5 DEF installCongestionControl, Goto, OneSwitchEach, PickedBefore
  <2>5. RestoredSoFar'
    BY <1>5 DEF installCongestionControl, Goto, RestoredSoFar, OneSwitchEach,
        PickedBefore
  <2>6. DropsBlamed'
    BY <1>5 DEF installCongestionControl, Goto, DropsBlamed, PickedBefore, DialsAlone
  <2>7. HeldAndWhole'
    BY <1>5 DEF installCongestionControl, Goto, HeldAndWhole, SwitchesWhole,
        DropsOnlyClosed, CloseIsFinal, DialsAlone, PickedBefore, OneSwitchEach,
        RestoredSoFar, DropsBlamed
  <2> QED
    BY <2>1, <2>2, <2>3, <2>4, <2>5, <2>6, <2>7
<1>6. CASE SwitchUnlock(w)
  <2>1. TypeOK'
    BY <1>6 DEF SwitchUnlock, Return, PickedBefore
  <2>2. DialsAlone'
    BY <1>6 DEF SwitchUnlock, Return, DialsAlone
  <2>3. PickedBefore'
    BY <1>6 DEF SwitchUnlock, Return, PickedBefore, DialsAlone
  <2>4. OneSwitchEach'
    BY <1>6 DEF SwitchUnlock, Return, OneSwitchEach, PickedBefore
  <2>5. RestoredSoFar'
    BY <1>6 DEF SwitchUnlock, Return, RestoredSoFar, OneSwitchEach, PickedBefore
  <2>6. DropsBlamed'
    BY <1>6 DEF SwitchUnlock, Return, DropsBlamed, PickedBefore, DialsAlone
  <2>7. HeldAndWhole'
    BY <1>6 DEF SwitchUnlock, Return, HeldAndWhole, SwitchesWhole, DropsOnlyClosed,
        CloseIsFinal, DialsAlone, PickedBefore, OneSwitchEach, RestoredSoFar,
        DropsBlamed
  <2> QED
    BY <2>1, <2>2, <2>3, <2>4, <2>5, <2>6, <2>7
<1> QED
  BY <1>1, <1>2, <1>3, <1>4, <1>5, <1>6 DEF WatcherStep

(* So do the end of a connection and Close.                                *)
LEMMA EndsHold ==
  ASSUME IInv, (\E i \in Dial : ConnectionDies(i)) \/ Close
  PROVE  IInv'
<1> USE ReconnectAssumption DEF IInv, TypeOK, Goroutine, Dial, Pc, Picked, Switching
<1>1. ASSUME NEW i \in Dial, ConnectionDies(i)
      PROVE  IInv'
  <2>1. TypeOK'
    BY <1>1 DEF ConnectionDies
  <2>2. DialsAlone'
    BY <1>1 DEF ConnectionDies, DialsAlone
  <2>3. PickedBefore'
    BY <1>1 DEF ConnectionDies, PickedBefore, DialsAlone
  <2>4. OneSwitchEach'
    BY <1>1 DEF ConnectionDies, OneSwitchEach, PickedBefore
  <2>5. RestoredSoFar'
    BY <1>1 DEF ConnectionDies, RestoredSoFar, OneSwitchEach, PickedBefore
  <2>6. DropsBlamed'
    BY <1>1 DEF ConnectionDies, DropsBlamed, PickedBefore, DialsAlone
  <2>7. HeldAndWhole'
    BY <1>1 DEF ConnectionDies, HeldAndWhole, SwitchesWhole, DropsOnlyClosed,
        CloseIsFinal, DialsAlone, PickedBefore, OneSwitchEach, RestoredSoFar,
        DropsBlamed
  <2> QED
    BY <2>1, <2>2, <2>3, <2>4, <2>5, <2>6, <2>7
<1>2. CASE Close
  <2>1. TypeOK'
    BY <1>2 DEF Close
  <2>2. DialsAlone'
    BY <1>2 DEF Close, DialsAlone
  <2>3. PickedBefore'
    BY <1>2 DEF Close, PickedBefore, DialsAlone
  <2>4. OneSwitchEach'
    BY <1>2 DEF Close, OneSwitchEach, PickedBefore
  <2>5. RestoredSoFar'
    BY <1>2 DEF Close, RestoredSoFar, OneSwitchEach, PickedBefore
  <2>6. DropsBlamed'
    BY <1>2 DEF Close, DropsBlamed, PickedBefore, DialsAlone
  <2>7. HeldAndWhole'
    BY <1>2 DEF Close, HeldAndWhole, SwitchesWhole, DropsOnlyClosed, CloseIsFinal,
        DialsAlone, PickedBefore, OneSwitchEach, RestoredSoFar, DropsBlamed
  <2> QED
    BY <2>1, <2>2, <2>3, <2>4, <2>5, <2>6, <2>7
<1> QED
  BY <1>1, <1>2

(***************************************************************************)
(* The invariant is inductive: it holds whatever callers, selectors,       *)
(* deaths of connections and Close do, in any order.                       *)
(***************************************************************************)
THEOREM ClientsAccounted == Spec => []IInv
<1>1. Init => IInv
  BY InitHolds
<1>2. IInv /\ [Next]_vars => IInv'
  <2> SUFFICES ASSUME IInv, [Next]_vars
               PROVE  IInv'
    OBVIOUS
  <2>1. CASE Next
    BY <2>1, CallerStepHolds, WatcherStepHolds, EndsHold DEF Next
  <2>2. CASE UNCHANGED vars
    BY <2>2
    DEF vars, dialVars, IInv, TypeOK, DialsAlone, PickedBefore, OneSwitchEach, RestoredSoFar,
        DropsBlamed, HeldAndWhole, SwitchesWhole, DropsOnlyClosed, CloseIsFinal
  <2> QED
    BY <2>1, <2>2
<1> QED
  BY <1>1, <1>2, PTL DEF Spec

(***************************************************************************)
(* However many callers and selectors share the reconnecting client: no    *)
(* switch is left half done on a live connection, clientDo replaces a      *)
(* client only when its connection is closed or a stream on it failed, and *)
(* after Close nothing is dialled and nothing the client still held lives. *)
(***************************************************************************)
THEOREM HeldAndWholeAlways == Spec => []HeldAndWhole
<1>1. IInv => HeldAndWhole
  BY DEF IInv
<1> QED
  BY <1>1, ClientsAccounted, PTL
=============================================================================
