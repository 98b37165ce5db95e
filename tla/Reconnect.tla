------------------------------ MODULE Reconnect -----------------------------
(***************************************************************************)
(* core/client: the reconnecting client and the path switches made on the  *)
(* connections it holds (reconnect.go, path.go, and connect, TCP, UDP and  *)
(* Close of client.go).                                                    *)
(*                                                                         *)
(* Callers ask for streams and sessions through clientDo, path selectors   *)
(* move the current connection with SwitchTo, and one owner closes the     *)
(* client for good.  Two mutexes order them: m, for the field client, held *)
(* across a dial; and pathMu, one per connection, held across a switch.    *)
(***************************************************************************)
EXTENDS Integers

CONSTANTS
  Caller,        \* goroutines in TCP or UDP
  Watcher,       \* goroutines in SwitchTo
  Nobody,        \* holder of a free mutex
  MaxDials       \* bound on the connections dialled

ASSUME ReconnectAssumption ==
  /\ Nobody \notin Caller \cup Watcher
  /\ MaxDials \in Nat

Dial == 1..MaxDials

VARIABLES
  m,             \* holder of rc.m while it dials
  client,        \* rc.client, as the number of its dial; 0 for nil
  count,         \* rc.count
  closed,        \* rc.closed
  dials,         \* dials started so far
  alive,         \* the connection's context is not done
  open,          \* its packet connection and transport are open
  cc,            \* its congestion controller: "negotiated" or quic-go's "reno"
  measured,      \* its path estimates are of the address it sends to
  pathMu,        \* holder of its pathMu
  pc, cur,       \* where each goroutine is, and the client it has picked
  blamed         \* history: live connections on which a stream has failed

dialVars == <<alive, open, cc, measured, pathMu>>
vars == <<m, client, count, closed, dials, dialVars, pc, cur, blamed>>

Goroutine == Caller \cup Watcher

Init ==
  /\ m = Nobody
  /\ client = 0
  /\ count = 0
  /\ closed = FALSE
  /\ dials = 0
  /\ alive = [i \in Dial |-> FALSE]
  /\ open = [i \in Dial |-> FALSE]
  /\ cc = [i \in Dial |-> "reno"]
  /\ measured = [i \in Dial |-> TRUE]
  /\ pathMu = [i \in Dial |-> Nobody]
  /\ pc = [g \in Goroutine |-> "idle"]
  /\ cur = [g \in Goroutine |-> 0]
  /\ blamed = {}

Goto(g, l) == pc' = [pc EXCEPT ![g] = l]

(* The goroutine returns to its caller, and lets go of its locals.         *)
Return(g) ==
  /\ pc' = [pc EXCEPT ![g] = "idle"]
  /\ cur' = [cur EXCEPT ![g] = 0]
-----------------------------------------------------------------------------
(***************************************************************************)
(* clientDo.                                                               *)
(***************************************************************************)
DoClosed(p) ==
  /\ pc[p] = "enter"
  /\ m = Nobody
  /\ closed
  /\ Return(p)
  /\ UNCHANGED <<m, client, count, closed, dials, dialVars, blamed>>

DoPick(p) ==
  /\ pc[p] = "enter"
  /\ m = Nobody
  /\ ~closed
  /\ client # 0
  /\ cur' = [cur EXCEPT ![p] = client]
  /\ Goto(p, "do")
  /\ UNCHANGED <<m, client, count, closed, dials, dialVars, blamed>>

(* reconnect: the configuration may not evaluate, nothing is dialled then. *)
ConfigFails(p) ==
  /\ pc[p] = "enter"
  /\ m = Nobody
  /\ ~closed
  /\ client = 0
  /\ Return(p)
  /\ UNCHANGED <<m, client, count, closed, dials, dialVars, blamed>>

(* connect opens a socket and shakes hands, with m held.                   *)
DialUnchecked(p) ==
  /\ pc[p] = "enter"
  /\ m = Nobody
  /\ client = 0
  /\ dials < MaxDials
  /\ m' = p
  /\ dials' = dials + 1
  /\ open' = [open EXCEPT ![dials + 1] = TRUE]
  /\ Goto(p, "dial")
  /\ UNCHANGED <<client, count, closed, alive, cc, measured, pathMu, cur, blamed>>

DialStart(p) ==
  /\ pc[p] = "enter"
  /\ m = Nobody
  /\ ~closed
  /\ client = 0
  /\ dials < MaxDials
  /\ m' = p
  /\ dials' = dials + 1
  /\ open' = [open EXCEPT ![dials + 1] = TRUE]
  /\ Goto(p, "dial")
  /\ UNCHANGED <<client, count, closed, alive, cc, measured, pathMu, cur, blamed>>

Counted(ok) == count + (IF ok THEN 1 ELSE 0)

(* The round trip failed, or the answer is not an accepted one.            *)
DialFails(p) ==
  /\ pc[p] = "dial"
  /\ open' = [open EXCEPT ![dials] = FALSE]
  /\ m' = Nobody
  /\ count' = Counted(FALSE)
  /\ Return(p)
  /\ UNCHANGED <<client, closed, dials, alive, cc, measured, pathMu, blamed>>

(* The negotiated controller goes in before the client is published, and   *)
(* connectedFunc is told with m still held.                                *)
DialOK(p) ==
  /\ pc[p] = "dial"
  /\ alive' = [alive EXCEPT ![dials] = TRUE]
  /\ measured' = [measured EXCEPT ![dials] = TRUE]
  /\ cc' = [cc EXCEPT ![dials] = "negotiated"]
  /\ client' = dials
  /\ count' = Counted(TRUE)
  /\ m' = Nobody
  /\ cur' = [cur EXCEPT ![p] = dials]
  /\ Goto(p, "do")
  /\ UNCHANGED <<closed, dials, open, pathMu, blamed>>

(* The operation itself, on the client picked: done, or refused in a way   *)
(* that says nothing of the connection (a stream limit, a dial error).     *)
DoAnswered(p) ==
  /\ pc[p] = "do"
  /\ alive[cur[p]]
  /\ Return(p)
  /\ UNCHANGED <<m, client, count, closed, dials, dialVars, blamed>>

(* wrapIfConnectionClosed: every other error is a ClosedError, whether the *)
(* connection is done or only the stream failed.                           *)
DoClosedError(p) ==
  /\ pc[p] = "do"
  /\ blamed' = blamed \cup {i \in {cur[p]} : alive[i]}
  /\ Goto(p, "drop")
  /\ UNCHANGED <<m, client, count, closed, dials, dialVars, cur>>

(* "In case the client is already changed by another goroutine".           *)
AfterError(i) == IF client = i THEN 0 ELSE client

DropClient(p) ==
  /\ pc[p] = "drop"
  /\ m = Nobody
  /\ client' = AfterError(cur[p])
  /\ Return(p)
  /\ UNCHANGED <<m, count, closed, dials, dialVars, blamed>>

Call(p) ==
  /\ pc[p] = "idle"
  /\ Goto(p, "enter")
  /\ UNCHANGED <<m, client, count, closed, dials, dialVars, cur, blamed>>

(* Close, of the reconnecting client: for good.                            *)
CloseMarksOnly ==
  /\ m = Nobody
  /\ ~closed
  /\ closed' = TRUE
  /\ UNCHANGED <<m, client, count, dials, dialVars, pc, cur, blamed>>

Close ==
  /\ m = Nobody
  /\ ~closed
  /\ closed' = TRUE
  /\ IF client = 0
     THEN UNCHANGED <<alive, open>>
     ELSE /\ alive' = [alive EXCEPT ![client] = FALSE]
          /\ open' = [open EXCEPT ![client] = FALSE]
  /\ blamed' = blamed \ {client}
  /\ UNCHANGED <<m, client, count, dials, cc, measured, pathMu, pc, cur>>

(* The same step where the connection, not the stream, is what failed.     *)
DoneConnection(p) ==
  /\ pc[p] = "do"
  /\ ~alive[cur[p]]
  /\ DoClosedError(p)

(* The connection ends by itself: the peer, or the idle timeout.           *)
ConnectionDies(i) ==
  /\ alive[i]
  /\ alive' = [alive EXCEPT ![i] = FALSE]
  /\ blamed' = blamed \ {i}
  /\ UNCHANGED <<m, client, count, closed, dials, open, cc, measured, pathMu, pc, cur>>
-----------------------------------------------------------------------------
(***************************************************************************)
(* SwitchTo.                                                               *)
(***************************************************************************)
SwitchPick(w) ==
  /\ pc[w] = "idle"
  /\ m = Nobody
  /\ client # 0
  /\ cur' = [cur EXCEPT ![w] = client]
  /\ Goto(w, "lock")
  /\ UNCHANGED <<m, client, count, closed, dials, dialVars, blamed>>

MayLock(i) == pathMu[i] = Nobody

SwitchLock(w) ==
  LET i == cur[w]
  IN  /\ pc[w] = "lock"
      /\ MayLock(i)
      /\ pathMu' = [pathMu EXCEPT ![i] = w]
      /\ Goto(w, IF alive[i] THEN "set" ELSE "unlock")
      /\ UNCHANGED <<m, client, count, closed, dials, alive, open, cc, measured, cur, blamed>>

SetRemoteAddr(w) ==
  /\ pc[w] = "set"
  /\ measured' = [measured EXCEPT ![cur[w]] = FALSE]
  /\ Goto(w, "reset")
  /\ UNCHANGED <<m, client, count, closed, dials, alive, open, cc, pathMu, cur, blamed>>

(* The reset runs on the connection's own goroutine, or not at all when    *)
(* the connection ends first; the context is read again after it.          *)
ResetPathState(w) ==
  LET i == cur[w]
  IN  /\ pc[w] = "reset"
      /\ IF alive[i]
         THEN /\ cc' = [cc EXCEPT ![i] = "reno"]
              /\ measured' = [measured EXCEPT ![i] = TRUE]
              /\ Goto(w, "install")
         ELSE /\ Goto(w, "unlock")
              /\ UNCHANGED <<cc, measured>>
      /\ UNCHANGED <<m, client, count, closed, dials, alive, open, pathMu, cur, blamed>>

installCongestionControl(w) ==
  LET i == cur[w]
  IN  /\ pc[w] = "install"
      /\ cc' = IF alive[i] THEN [cc EXCEPT ![i] = "negotiated"] ELSE cc
      /\ Goto(w, "unlock")
      /\ UNCHANGED <<m, client, count, closed, dials, alive, open, measured, pathMu, cur, blamed>>

SwitchUnlock(w) ==
  /\ pc[w] = "unlock"
  /\ pathMu' = [pathMu EXCEPT ![cur[w]] = Nobody]
  /\ Return(w)
  /\ UNCHANGED <<m, client, count, closed, dials, alive, open, cc, measured, blamed>>

CallerStep(p) ==
  \/ DoClosed(p)
  \/ DoPick(p)
  \/ ConfigFails(p)
  \/ DialStart(p)
  \/ DialFails(p)
  \/ DialOK(p)
  \/ DoAnswered(p)
  \/ DoClosedError(p)
  \/ DropClient(p)

WatcherStep(w) ==
  \/ SwitchLock(w)
  \/ SetRemoteAddr(w)
  \/ ResetPathState(w)
  \/ installCongestionControl(w)
  \/ SwitchUnlock(w)

Next ==
  \/ \E p \in Caller : Call(p) \/ CallerStep(p)
  \/ \E w \in Watcher : SwitchPick(w) \/ WatcherStep(w)
  \/ \E i \in Dial : ConnectionDies(i)
  \/ Close

Spec == Init /\ [][Next]_vars

(***************************************************************************)
(* A goroutine that can go on does.  A mutex hands itself to its waiters   *)
(* in turn, so a selector that finds it now and then free takes it.  The   *)
(* answer to a call on a live connection is the server's, and is not       *)
(* promised.                                                               *)
(***************************************************************************)
Proceeds(p) ==
  \/ DoClosed(p)
  \/ DoPick(p)
  \/ ConfigFails(p)
  \/ DialStart(p)
  \/ DialFails(p)
  \/ DialOK(p)
  \/ DoneConnection(p)
  \/ DropClient(p)

Fairness ==
  /\ \A p \in Caller : WF_vars(Proceeds(p))
  /\ \A w \in Watcher : SF_vars(WatcherStep(w))

FairSpec == Spec /\ Fairness
-----------------------------------------------------------------------------
(***************************************************************************)
(* SwitchTo's three steps are all there or none: whenever no switch is     *)
(* under way on a live connection, it runs the controller the handshake    *)
(* negotiated and measures the path it sends on, however the switches of   *)
(* several selectors followed each other.                                  *)
(***************************************************************************)
SwitchesWhole ==
  \A i \in Dial :
    alive[i] /\ pathMu[i] = Nobody => cc[i] = "negotiated" /\ measured[i]

(***************************************************************************)
(* clientDo drops a client only when its connection is closed ("detect if  *)
(* the client is closed, and if so, set it to nil"): a connection that     *)
(* lives is the one the reconnecting client holds, so there is never a     *)
(* second one beside it -- save one on which a stream failed, an error     *)
(* clientDo cannot tell from a closed connection.                          *)
(***************************************************************************)
DropsOnlyClosed == \A i \in Dial \ blamed : alive[i] => client = i

(***************************************************************************)
(* Close is permanent: no connection the client has not given up before    *)
(* lives after it, and none is dialled.                                    *)
(***************************************************************************)
CloseIsFinal == closed => m = Nobody /\ \A i \in Dial \ blamed : ~alive[i]

(***************************************************************************)
(* Close leaves nothing open: not the sockets of the connections that were *)
(* replaced before it either.                                              *)
(***************************************************************************)
AfterCloseNothingOpen == closed => \A i \in Dial : ~open[i]

(***************************************************************************)
(* Every call in progress when the client is closed, and every later one,  *)
(* comes to an end (a call on a connection given up before, which Close    *)
(* does not reach, is not promised to).                                    *)
(***************************************************************************)
CallsEndAfterClose ==
  \A p \in Caller :
    (closed /\ pc[p] # "idle" /\ cur[p] \notin blamed) ~> (pc[p] = "idle")

(***************************************************************************)
(* A switch under way ends, whatever becomes of its connection and however *)
(* many others want the same one.                                          *)
(***************************************************************************)
SwitchesEnd ==
  \A w \in Watcher : (pc[w] # "idle") ~> (pc[w] = "idle")
=============================================================================
