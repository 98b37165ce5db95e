---------------------------- MODULE LinkMonitor -----------------------------
(***************************************************************************)
(* app/internal/linkmon: tells a consumer that the machine's network       *)
(* attachment has changed, so that it enumerates its addresses again.      *)
(*                                                                         *)
(* A producer turns kernel notifications, or the differences between polls *)
(* of the interface list, into raw notifications; a loop holds them until  *)
(* the burst is quiet and hands one event over through a channel of one    *)
(* slot, where an event not yet taken is merged with the next.             *)
(***************************************************************************)
EXTENDS Integers, Sequences

CONSTANTS
  Debounce, MaxDelay, PollInterval,  \* Config, in time units
  RawSize,                           \* rawBufferSize
  MaxChanges,                        \* bound on the changes of the network
  Value,                             \* what the interfaces may look like
  NoTimer, NoEvent, NoSnapshot

Kind == {"link", "addr"}

(* The state of the interfaces, as far as a kind of change tells it apart. *)
Network == [Kind -> Value]

Event == [changes : SUBSET Kind, count : Nat]

(* The three that stand for none are no timer, event or snapshot.          *)
LinkMonitorAssumption ==
  /\ Debounce \in Nat \ {0}
  /\ MaxDelay \in Nat /\ MaxDelay >= Debounce
  /\ PollInterval \in Nat \ {0}
  /\ RawSize \in Nat \ {0}
  /\ MaxChanges \in Nat
  /\ Value # {}
  /\ NoTimer \notin Nat /\ NoEvent \notin Event /\ NoSnapshot \notin Network

VARIABLES
  net, changes,     \* the network, and how often it has changed
  queue,            \* notifications the kernel holds for the watcher
  src,              \* where produce is
  prev, pollIn,     \* the poller: last snapshot, time to the next one
  raw,              \* the channel from the producer to the loop
  loop,             \* where the loop is
  pending, count,   \* the burst held back
  age,              \* the time since it began
  timer,            \* the time left before it is reported
  ev,               \* the event emit is handing over
  out,              \* the event channel
  view,             \* the network as the consumer last enumerated it
  noted, delivered, \* notifications the loop took, and the consumer was told
  done,             \* ctx
  blind             \* history: a change since was one no source reports

srcVars == <<queue, src, prev, pollIn>>
loopVars == <<loop, pending, count, age, timer, ev>>
vars == <<net, changes, srcVars, raw, loopVars, out, view, noted, delivered, done, blind>>

Init ==
  /\ net = [k \in Kind |-> CHOOSE v \in Value : TRUE]
  /\ changes = 0
  /\ queue = <<>>
  /\ src = "start"
  /\ prev = NoSnapshot
  /\ pollIn = 0
  /\ raw = <<>>
  /\ loop = "select"
  /\ pending = {}
  /\ count = 0
  /\ age = 0
  /\ timer = NoTimer
  /\ ev = NoEvent
  /\ out = NoEvent
  /\ view = net
  /\ noted = 0
  /\ delivered = 0
  /\ done = FALSE
  /\ blind = FALSE
-----------------------------------------------------------------------------
(***************************************************************************)
(* The network, the kernel and the clock.                                  *)
(***************************************************************************)
Watched == src = "native" \/ (src = "polling" /\ prev # NoSnapshot)

(* A change goes unseen while no source is watching, as before the first   *)
(* one is chosen, and between two polls when it takes the network back to  *)
(* what the first of them saw.                                             *)
NetworkChanges(k, v) ==
  /\ changes < MaxChanges
  /\ v # net[k]
  /\ changes' = changes + 1
  /\ net' = [net EXCEPT ![k] = v]
  /\ queue' = IF src = "native" THEN Append(queue, {k}) ELSE queue
  /\ blind' = (blind \/ ~Watched \/ (src = "polling" /\ net' = prev))
  /\ UNCHANGED <<src, prev, pollIn, raw, loopVars, out, view, noted, delivered, done>>

(* ENOBUFS: what the kernel threw away is reported as everything.          *)
Overflow ==
  /\ src = "native"
  /\ Len(queue) > 1
  /\ queue' = <<Kind>>
  /\ UNCHANGED <<net, changes, src, prev, pollIn, raw, loopVars, out, view, noted, delivered, done, blind>>

CountDown(t) == IF t > 0 THEN t - 1 ELSE 0

(* Time passes when the loop has nothing to do.                            *)
Tick ==
  /\ loop = "select"
  /\ raw = <<>>
  /\ timer # 0
  /\ timer' = IF timer = NoTimer THEN NoTimer ELSE CountDown(timer)
  /\ age' = IF count > 0 THEN age + 1 ELSE age
  /\ pollIn' = CountDown(pollIn)
  /\ UNCHANGED <<net, changes, queue, src, prev, raw, loop, pending, count, ev, out, view, noted, delivered, done, blind>>

Cancel ==
  /\ ~done
  /\ done' = TRUE
  /\ UNCHANGED <<net, changes, srcVars, raw, loopVars, out, view, noted, delivered, blind>>
-----------------------------------------------------------------------------
(***************************************************************************)
(* produce, watchNetlink and poll.                                         *)
(***************************************************************************)
HasRoom == Len(raw) < RawSize

(* The native watcher starts; it is missing, refused or not wanted.        *)
Start ==
  /\ src = "start"
  /\ src' \in {"native", "failed"}
  /\ UNCHANGED <<net, changes, queue, prev, pollIn, raw, loopVars, out, view, noted, delivered, done, blind>>

Forward ==
  /\ src = "native"
  /\ queue # <<>>
  /\ HasRoom
  /\ raw' = Append(raw, Head(queue))
  /\ queue' = Tail(queue)
  /\ UNCHANGED <<net, changes, src, prev, pollIn, loopVars, out, view, noted, delivered, done, blind>>

(* A message it cannot parse is skipped, and what it told is lost.         *)
SkipMessage ==
  /\ src = "native"
  /\ queue # <<>>
  /\ queue' = Tail(queue)
  /\ blind' = TRUE
  /\ UNCHANGED <<net, changes, src, prev, pollIn, raw, loopVars, out, view, noted, delivered, done>>

(* It dies, with what it has not read, and polling takes over for good.    *)
NativeFails ==
  /\ src = "native"
  /\ src' = "failed"
  /\ queue' = <<>>
  /\ blind' = (blind \/ queue # <<>>)
  /\ UNCHANGED <<net, changes, prev, pollIn, raw, loopVars, out, view, noted, delivered, done>>

PollStart ==
  /\ src = "failed"
  /\ src' = "polling"
  /\ prev' \in {net, NoSnapshot}
  /\ pollIn' = PollInterval
  /\ UNCHANGED <<net, changes, queue, raw, loopVars, out, view, noted, delivered, done, blind>>

PollFailsForgets ==
  /\ src = "polling"
  /\ pollIn = 0
  /\ pollIn' = PollInterval
  /\ prev' = NoSnapshot
  /\ UNCHANGED <<net, changes, queue, src, raw, loopVars, out, view, noted, delivered, done, blind>>

(* A snapshot that could not be taken is skipped, the last good one kept.  *)
PollFails ==
  /\ src = "polling"
  /\ pollIn = 0
  /\ pollIn' = PollInterval
  /\ UNCHANGED <<net, changes, queue, src, prev, raw, loopVars, out, view, noted, delivered, done, blind>>

diffStates(p, c) == {k \in Kind : p[k] # c[k]}

PollTakes ==
  /\ src = "polling"
  /\ pollIn = 0
  /\ IF prev = NoSnapshot \/ prev = net
     THEN UNCHANGED raw
     ELSE /\ HasRoom
          /\ raw' = Append(raw, diffStates(prev, net))
  /\ prev' = net
  /\ pollIn' = PollInterval
  /\ UNCHANGED <<net, changes, queue, src, loopVars, out, view, noted, delivered, done, blind>>

ProducerStops ==
  /\ done
  /\ src # "ended"
  /\ src' = "ended"
  /\ queue' = <<>>
  /\ UNCHANGED <<net, changes, prev, pollIn, raw, loopVars, out, view, noted, delivered, done, blind>>
-----------------------------------------------------------------------------
(***************************************************************************)
(* loop and emit.                                                          *)
(***************************************************************************)
delay(a) ==
  LET rem == MaxDelay - a
  IN  IF rem < 0 THEN 0 ELSE IF rem < Debounce THEN rem ELSE Debounce

Note ==
  LET began == IF count = 0 THEN 0 ELSE age
  IN  /\ loop = "select"
      /\ raw # <<>>
      /\ raw' = Tail(raw)
      /\ pending' = pending \cup Head(raw)
      /\ count' = count + 1
      /\ noted' = noted + 1
      /\ age' = began
      /\ timer' = delay(began)
      /\ UNCHANGED <<net, changes, srcVars, loop, ev, out, view, delivered, done, blind>>

Fire ==
  /\ loop = "select"
  /\ timer = 0
  /\ timer' = NoTimer
  /\ ev' = [changes |-> pending, count |-> count]
  /\ pending' = {}
  /\ count' = 0
  /\ age' = 0
  /\ loop' = "emit"
  /\ UNCHANGED <<net, changes, srcVars, raw, out, view, noted, delivered, done, blind>>

EmitPut ==
  /\ loop = "emit"
  /\ out = NoEvent
  /\ out' = ev
  /\ ev' = NoEvent
  /\ loop' = "select"
  /\ UNCHANGED <<net, changes, srcVars, raw, pending, count, age, timer, view, noted, delivered, done, blind>>

Merged(new, old) ==
  [changes |-> new.changes \cup old.changes, count |-> new.count + old.count]

EmitMerge ==
  /\ loop = "emit"
  /\ out # NoEvent
  /\ ev' = Merged(ev, out)
  /\ out' = NoEvent
  /\ UNCHANGED <<net, changes, srcVars, raw, loop, pending, count, age, timer, view, noted, delivered, done, blind>>

(* With ctx done the loop returns from wherever it waits, and closes the   *)
(* channel; an event in hand is given up.                                  *)
LoopStops ==
  /\ done
  /\ loop \in {"select", "emit"}
  /\ loop' = "closed"
  /\ UNCHANGED <<net, changes, srcVars, raw, pending, count, age, timer, ev, out, view, noted, delivered, done, blind>>

(* The consumer enumerates for every event, as late as it likes.           *)
Consume ==
  /\ out # NoEvent
  /\ out' = NoEvent
  /\ view' = net
  /\ delivered' = delivered + out.count
  /\ blind' = FALSE
  /\ UNCHANGED <<net, changes, srcVars, raw, loopVars, noted, done>>

Produce ==
  \/ Start
  \/ Forward
  \/ PollStart
  \/ PollTakes

Emit == EmitPut \/ EmitMerge

Next ==
  \/ \E k \in Kind, v \in Value : NetworkChanges(k, v)
  \/ Overflow
  \/ Tick
  \/ Cancel
  \/ Produce
  \/ SkipMessage
  \/ NativeFails
  \/ PollFails
  \/ ProducerStops
  \/ Note
  \/ Fire
  \/ Emit
  \/ LoopStops
  \/ Consume

Spec == Init /\ [][Next]_vars

(***************************************************************************)
(* The goroutines run, time passes, the consumer comes back to its         *)
(* channel; enumerating the interfaces works now and then; a select with   *)
(* several ready cases does not neglect one of them for ever.              *)
(***************************************************************************)
Fairness ==
  /\ WF_vars(Tick)
  /\ WF_vars(Start) /\ WF_vars(Forward) /\ WF_vars(PollStart)
  /\ SF_vars(PollTakes)
  /\ WF_vars(Note) /\ WF_vars(Fire)
  /\ WF_vars(Emit)
  /\ WF_vars(Consume)

FairSpec == Spec /\ Fairness
-----------------------------------------------------------------------------
TypeOK ==
  /\ net \in Network
  /\ changes \in 0..MaxChanges
  /\ queue \in Seq(SUBSET Kind)
  /\ src \in {"start", "native", "failed", "polling", "ended"}
  /\ prev \in Network \cup {NoSnapshot}
  /\ pollIn \in 0..PollInterval
  /\ raw \in Seq(SUBSET Kind)
  /\ Len(raw) <= RawSize
  /\ loop \in {"select", "emit", "closed"}
  /\ pending \in SUBSET Kind
  /\ count \in Nat /\ age \in Nat /\ noted \in Nat /\ delivered \in Nat
  /\ timer \in (0..Debounce) \cup {NoTimer}
  /\ ev \in Event \cup {NoEvent}
  /\ out \in Event \cup {NoEvent}
  /\ view \in Network
  /\ done \in BOOLEAN
  /\ blind \in BOOLEAN

(***************************************************************************)
(* "Emitted no later than Config.MaxDelay after the burst began": however  *)
(* the notifications keep coming, none is held longer.                     *)
(***************************************************************************)
HeldAtMostMaxDelay == count > 0 => age <= MaxDelay

(***************************************************************************)
(* "Never allowed to lose information": every notification the loop took   *)
(* is in what the consumer was told, in the channel, in the hands of emit, *)
(* or still held back.                                                     *)
(***************************************************************************)
CountOf(e) == IF e = NoEvent THEN 0 ELSE e.count

NothingDropped == noted = delivered + CountOf(out) + CountOf(ev) + count

(***************************************************************************)
(* "A consumer that only ever re-enumerates therefore cannot miss a        *)
(* change, no matter how slow it is": while the consumer's view is stale,  *)
(* a notification is on its way, or the next poll will find the            *)
(* difference -- unless a change came that no source reports.              *)
(***************************************************************************)
OnItsWay ==
  \/ queue # <<>> \/ raw # <<>> \/ count > 0
  \/ ev # NoEvent \/ out # NoEvent
  \/ src = "polling" /\ prev \notin {net, NoSnapshot}

NoChangeMissed == ~done /\ ~blind /\ view # net => OnItsWay

(***************************************************************************)
(* ... and it comes: a stale consumer ends up with a fresh view.           *)
(***************************************************************************)
StaleIsRefreshed == (view # net /\ ~blind) ~> (view = net \/ blind \/ done)
=============================================================================
