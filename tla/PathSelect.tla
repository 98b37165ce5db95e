----------------------------- MODULE PathSelect -----------------------------
(***************************************************************************)
(* The path selector in use: the policy of core/selector, the connection   *)
(* it watches and moves (core/client's PathStats, Current and SwitchTo, on *)
(* a plain or a reconnecting client), and the loop that polls one and      *)
(* drives the other.                                                       *)
(*                                                                         *)
(* The loop polls once per unit of time.  Everything the network does --   *)
(* deliver a packet, move the connection with the source address of one,   *)
(* kill it -- and everything the reconnecting client does about a dead     *)
(* connection happens between the polls, in any order.                     *)
(***************************************************************************)
EXTENDS Selector

CONSTANTS
  RTTs,           \* smoothed round trips a connection may report
  MaxTime,        \* bound on the clock
  MaxRx           \* bound on PacketsReceived

ASSUME PathAssumption ==
  /\ RTTs \subseteq Nat
  /\ MaxTime \in Nat
  /\ MaxRx \in Nat

VARIABLES
  clock,
  polled,     \* the poll of this time unit has been made
  live,       \* the client has a connection object (PathStats answers)
  dead,       \* that connection's context is done: its counters are frozen
  addr,       \* its remote address
  rx,         \* its PacketsReceived
  rtt,        \* its SmoothedRTT
  order,      \* the switch decided and not yet attempted, or NoAddr
  (* History, read by the properties only. *)
  eventAt,    \* when the connection last showed life, moved or was replaced
  ordered,    \* switches ordered on this connection
  gone,       \* ErrNoConnection was reported, and nothing new seen since
  unseen,     \* the connection was replaced, and no reading has shown it
  strayed     \* this connection has moved without being told to

linkVars == <<live, dead, addr, rx, rtt>>
histVars == <<eventAt, ordered, gone, unseen, strayed>>
vars == <<selVars, clock, polled, linkVars, order, histVars>>

Init ==
  /\ \E c \in Configs : New(c)
  /\ clock = 0
  /\ polled = FALSE
  /\ live = TRUE
  /\ dead = FALSE
  /\ addr \in Plain
  /\ rx = 0
  /\ rtt \in RTTs
  /\ order = NoAddr
  /\ eventAt = 0
  /\ ordered = {}
  /\ gone = FALSE
  /\ unseen = FALSE
  /\ strayed = FALSE
-----------------------------------------------------------------------------
(***************************************************************************)
(* The network and the client under the policy.                            *)
(***************************************************************************)
Tick ==
  /\ clock < MaxTime
  /\ polled
  /\ order = NoAddr
  /\ clock' = clock + 1
  /\ polled' = FALSE
  /\ UNCHANGED <<selVars, linkVars, order, histVars>>

(* A packet is counted; the round trip estimate may move with it.          *)
Deliver ==
  /\ live /\ ~dead /\ rx < MaxRx
  /\ rx' = rx + 1
  /\ rtt' \in RTTs
  /\ eventAt' = clock
  /\ UNCHANGED <<selVars, clock, polled, live, dead, addr, order, ordered, gone, unseen, strayed>>

(* With the path manager off the connection follows the source address of  *)
(* a packet it accepts.                                                    *)
Migrate(a) ==
  /\ live /\ ~dead /\ rx < MaxRx
  /\ a # addr
  /\ addr' = a
  /\ rx' = rx + 1
  /\ eventAt' = clock
  /\ strayed' = TRUE
  /\ UNCHANGED <<selVars, clock, polled, live, dead, rtt, order, ordered, gone, unseen>>

(* The connection ends (idle timeout, close by the peer).  A plain client  *)
(* goes on answering with every counter frozen.                            *)
Die ==
  /\ live /\ ~dead
  /\ dead' = TRUE
  /\ UNCHANGED <<selVars, clock, polled, live, addr, rx, rtt, order, histVars>>

(* A reconnecting client lets go of a dead connection.                     *)
Drop ==
  /\ live /\ dead
  /\ live' = FALSE
  /\ eventAt' = clock
  /\ UNCHANGED <<selVars, clock, polled, dead, addr, rx, rtt, order, ordered, gone, unseen, strayed>>

(* It dials again; the handshake has counted some packets by then.         *)
Redial(a, n) ==
  /\ ~live
  /\ live' = TRUE
  /\ dead' = FALSE
  /\ addr' = a
  /\ rx' = n
  /\ rtt' \in RTTs
  /\ eventAt' = clock
  /\ ordered' = {}
  /\ unseen' = TRUE
  /\ strayed' = FALSE
  /\ UNCHANGED <<selVars, clock, polled, order, gone>>

Network ==
  \/ Deliver
  \/ \E a \in Plain : Migrate(a)
  \/ Die
  \/ Drop
  \/ \E a \in Plain, n \in 0..MaxRx : Redial(a, n)
-----------------------------------------------------------------------------
(***************************************************************************)
(* The polling loop.                                                       *)
(***************************************************************************)
Sample ==
  [at |-> clock, on |-> addr, live |-> live, rx |-> rx, rtt |-> rtt,
   rttvar |-> 0]

Fresh(o) == ~o.live \/ (started /\ o.rx < lastRx)

(* A reading in which nothing is different from the one before.            *)
Same(o) == o.live /\ started /\ o.rx = lastRx /\ o.on = on

Poll ==
  /\ ~polled
  /\ order = NoAddr
  /\ polled' = TRUE
  /\ Observe(Sample)
  /\ order' = decision'.to
  /\ ordered' = ordered \cup ({decision'.to} \ {NoAddr})
  /\ gone' = (gone /\ ~Fresh(Sample))
  /\ unseen' = (unseen /\ Same(Sample))
  /\ UNCHANGED <<clock, linkVars, eventAt, strayed>>

(***************************************************************************)
(* SwitchTo: success; no live connection (ErrNoConnection); the connection *)
(* ends while ResetPathState waits for its run loop, after SetRemoteAddr   *)
(* has already moved it (ErrNoConnection too); the address is refused.     *)
(***************************************************************************)
SwitchTo ==
  /\ order # NoAddr
  /\ live /\ ~dead
  /\ addr' = order
  /\ order' = NoAddr
  /\ UNCHANGED <<selVars, clock, polled, live, dead, rx, rtt, histVars>>

SwitchNoConnection ==
  /\ order # NoAddr
  /\ ~live \/ dead
  /\ SwitchFailed(order, "gone")
  /\ gone' = TRUE
  /\ order' = NoAddr
  /\ UNCHANGED <<clock, polled, linkVars, eventAt, ordered, unseen, strayed>>

SwitchDiesInReset ==
  /\ order # NoAddr
  /\ live /\ ~dead
  /\ addr' = order
  /\ dead' = TRUE
  /\ SwitchFailed(order, "gone")
  /\ gone' = TRUE
  /\ order' = NoAddr
  /\ UNCHANGED <<clock, polled, live, rx, rtt, eventAt, ordered, unseen, strayed>>

SwitchRefused ==
  /\ order # NoAddr
  /\ SwitchFailed(order, "refused")
  /\ order' = NoAddr
  /\ UNCHANGED <<clock, polled, linkVars, histVars>>

Driver ==
  \/ Poll
  \/ SwitchTo
  \/ SwitchNoConnection
  \/ SwitchDiesInReset
  \/ SwitchRefused

Next == Tick \/ Network \/ Driver

Spec == Init /\ [][Next]_vars
-----------------------------------------------------------------------------
TypeOK ==
  /\ SelectorTypeOK
  /\ clock \in Nat
  /\ polled \in BOOLEAN
  /\ live \in BOOLEAN
  /\ dead \in BOOLEAN
  /\ addr \in Plain
  /\ rx \in Nat
  /\ rtt \in Nat
  /\ order \in Plain \cup {NoAddr}
  /\ eventAt \in Nat
  /\ ordered \in SUBSET Plain
  /\ gone \in BOOLEAN
  /\ unseen \in BOOLEAN
  /\ strayed \in BOOLEAN

(***************************************************************************)
(* "It will not walk the candidate list twice on one connection": on a     *)
(* connection that stays on the addresses it is given, an order to switch  *)
(* never names an address already ordered on it.                           *)
(***************************************************************************)
EachCandidateOnce ==
  [][(Poll /\ decision'.action = "switch" /\ ~strayed)
       => decision'.to \notin ordered]_vars

(***************************************************************************)
(* "It will not leave a path that is still producing evidence": when the   *)
(* policy condemns a path, the connection has really received nothing, nor *)
(* moved, nor been replaced, for as long as the threshold it applied --    *)
(* but for a replacement that reads exactly like what it replaced.         *)
(***************************************************************************)
OnlySilenceCondemns ==
  [][(Poll /\ decision'.action # "stay" /\ ~unseen')
       => clock - eventAt >= decision'.threshold]_vars

(***************************************************************************)
(* Giving up is a standing answer: a poll that follows a give-up and sees  *)
(* the same connection, address and counter gives up again.                *)
(***************************************************************************)
GiveUpStands ==
  [][(Poll /\ live /\ ~unseen /\ decision.action = "give-up"
        /\ started /\ rx = lastRx /\ addr = on)
       => decision'.action = "give-up"]_vars

(***************************************************************************)
(* Once SwitchTo has answered ErrNoConnection, no further switch is        *)
(* ordered until the connection underneath is seen to have been replaced.  *)
(***************************************************************************)
NoSwitchOnceGone ==
  [][(Poll /\ gone /\ ~Fresh(Sample)) => decision'.action # "switch"]_vars

(***************************************************************************)
(* How long the policy takes: on a connection that stays silent the walk   *)
(* ends in a give-up within one threshold per candidate and one more, plus *)
(* the polls that notice the start of the silence and an unfinished move.  *)
(***************************************************************************)
WalkTime ==
  (Len(cfg.candidates) + 1) * Threshold(cfg, Sample) + 2

SilenceEndsInGiveUp ==
  (/\ live /\ polled /\ order = NoAddr
   /\ cfg.keepAlive > 0
   /\ clock - eventAt >= WalkTime)
  => decision.action = "give-up"
=============================================================================
