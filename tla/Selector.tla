------------------------------ MODULE Selector ------------------------------
(***************************************************************************)
(* core/selector: the policy that decides, from receive silence alone,     *)
(* that the path a QUIC connection is on is not coming back.               *)
(*                                                                         *)
(* A Selector is a passive object: observations go in, decisions come out. *)
(* This module gives its state and its two operations, Observe and         *)
(* SwitchFailed; PathSelect puts the connection and the polling loop       *)
(* around it.                                                              *)
(***************************************************************************)
EXTENDS Integers, Sequences

CONSTANTS
  Ip,            \* IP addresses (with their port) that can be named
  NoAddr,        \* the zero netip.AddrPort
  Configs,       \* the configurations New may be given
  SilenceSlack,  \* silenceSlack, ackDelay and granularity, in time units
  AckDelay,
  Granularity

(***************************************************************************)
(* An address is an IP together with the form it is written in: the v4     *)
(* form, or the v4-in-v6 form a dual-stack socket yields for the same      *)
(* host.                                                                   *)
(***************************************************************************)
AddrPort == [ip : Ip, mapped : BOOLEAN]

Unmap(a) == [a EXCEPT !.mapped = FALSE]

Plain == {a \in AddrPort : ~a.mapped}

Config == [keepAlive : Nat, idleTimeout : Nat, candidates : Seq(AddrPort)]

ASSUME ConfigsAssumption == Configs \subseteq Config

ASSUME TermsAssumption ==
  /\ SilenceSlack \in Nat
  /\ AckDelay \in Nat
  /\ Granularity \in Nat

ASSUME NoAddrAssumption == NoAddr \notin AddrPort

VARIABLES
  cfg,           \* Selector.cfg, with the candidates New normalised
  started,
  on,            \* where the connection was last seen, or was ordered to go
  quietSince,    \* the silence clock
  lastRx,        \* previous PacketsReceived
  tried,         \* candidates found silent on this connection
  exhausted,     \* the candidate list ran out on this connection
  pendingFrom,   \* what SwitchFailed puts back
  pendingQuiet,
  decision       \* the answer of the last Observe

selVars == <<cfg, started, on, quietSince, lastRx, tried, exhausted,
             pendingFrom, pendingQuiet, decision>>

Actions == {"stay", "switch", "give-up"}

Reasons == {"alive", "no-keep-alive", "no-connection", "silent", "exhausted",
            "no-candidates"}

Decision == [action : Actions, reason : Reasons, to : Plain \cup {NoAddr},
             silence : Int, threshold : Int]

Answer(action, reason, to, silence, threshold) ==
  [action |-> action, reason |-> reason, to |-> to,
   silence |-> silence, threshold |-> threshold]

(***************************************************************************)
(* An Observation: when, on which address, whether there is a connection,  *)
(* and the three statistics the policy reads.                              *)
(***************************************************************************)
Observation == [at : Nat, on : Plain, live : BOOLEAN, rx : Nat,
                rtt : Nat, rttvar : Nat]
-----------------------------------------------------------------------------
(***************************************************************************)
(* The threshold.                                                          *)
(***************************************************************************)
Larger(a, b) == IF a > b THEN a ELSE b

pto(o) == o.rtt + Larger(4 * o.rttvar, Granularity) + AckDelay

KeepAliveInterval(c, o) ==
  LET half == c.idleTimeout \div 2
      asked == IF half > 0 /\ half < c.keepAlive THEN half ELSE c.keepAlive
  IN  Larger(asked, (3 * pto(o)) \div 2)

Threshold(c, o) == KeepAliveInterval(c, o) + o.rtt + SilenceSlack
-----------------------------------------------------------------------------
(***************************************************************************)
(* New.                                                                    *)
(***************************************************************************)
NormalisedNot(c) == c

Normalised(c) ==
  [c EXCEPT !.candidates = [i \in DOMAIN c.candidates |->
                              Unmap(c.candidates[i])]]

New(c) ==
  /\ cfg = Normalised(c)
  /\ started = FALSE
  /\ on = NoAddr
  /\ quietSince = 0
  /\ lastRx = 0
  /\ tried = {}
  /\ exhausted = FALSE
  /\ pendingFrom = NoAddr
  /\ pendingQuiet = 0
  /\ decision = Answer("stay", "no-connection", NoAddr, 0, 0)
-----------------------------------------------------------------------------
(***************************************************************************)
(* next: the first candidate not yet tried on this connection.             *)
(***************************************************************************)
UntriedForgetful(struck, here) ==
  {i \in DOMAIN cfg.candidates : cfg.candidates[i] # here}

Untried(struck, here) ==
  {i \in DOMAIN cfg.candidates :
     cfg.candidates[i] \notin struck /\ cfg.candidates[i] # here}

First(S) == CHOOSE i \in S : \A j \in S : i <= j

(***************************************************************************)
(* A reading with no connection: freshConnection, and forget the address.  *)
(***************************************************************************)
ObserveNoConnection(o) ==
  /\ ~o.live
  /\ quietSince' = o.at
  /\ tried' = {}
  /\ exhausted' = FALSE
  /\ on' = NoAddr
  /\ started' = FALSE
  /\ decision' = Answer("stay", "no-connection", NoAddr, 0, 0)
  /\ UNCHANGED <<cfg, lastRx, pendingFrom, pendingQuiet>>

(***************************************************************************)
(* What a live reading makes of the selector's memory before any judgement *)
(* is passed: the first reading starts the clock; a reading older than the *)
(* clock is taken at the clock; a counter that fell is a new connection;   *)
(* another address restarts the clock; a counter that rose restarts it     *)
(* too.                                                                    *)
(***************************************************************************)
AbsorbDeaf(o) ==
  LET since == IF started THEN quietSince ELSE o.at
      at    == IF o.at < since THEN since ELSE o.at
      fell  == started /\ o.rx < lastRx
  IN  [at        |-> at,
       since     |-> IF fell \/ (started /\ o.on # on) THEN at ELSE since,
       struck    |-> IF fell THEN {} ELSE tried,
       exhausted |-> exhausted /\ ~fell]

Absorb(o) ==
  LET since    == IF started THEN quietSince ELSE o.at
      at       == IF o.at < since THEN since ELSE o.at
      replaced == started /\ o.rx < lastRx
      moved    == started /\ o.on # on
      heard    == started /\ o.rx > lastRx
  IN  [at        |-> at,
       since     |-> IF replaced \/ moved \/ heard THEN at ELSE since,
       struck    |-> IF replaced THEN {} ELSE tried,
       exhausted |-> exhausted /\ ~replaced]

(* The silence clock is not restarted by running out of candidates.        *)
ExhaustedClockRestarted(m) == m.at

ExhaustedClock(m) == m.since

(***************************************************************************)
(* The judgement on a live reading.                                        *)
(***************************************************************************)
ObserveLive(o) ==
  LET m         == Absorb(o)
      quiet     == m.at - m.since
      threshold == Threshold(cfg, o)
      struck    == m.struck \cup {o.on}
      left      == Untried(struck, o.on)
      Stands(action, reason) ==
        /\ on' = o.on
        /\ quietSince' = m.since
        /\ tried' = m.struck
        /\ exhausted' = m.exhausted
        /\ decision' = Answer(action, reason, NoAddr, quiet, threshold)
        /\ UNCHANGED <<pendingFrom, pendingQuiet>>
  IN  /\ o.live
      /\ started' = TRUE
      /\ lastRx' = o.rx
      /\ UNCHANGED cfg
      /\ \/ /\ quiet < threshold
            /\ Stands("stay", "alive")
         \/ /\ quiet >= threshold
            /\ cfg.keepAlive = 0
            /\ Stands("stay", "no-keep-alive")
         \/ /\ quiet >= threshold
            /\ cfg.keepAlive > 0
            /\ cfg.candidates = <<>>
            /\ Stands("give-up", "no-candidates")
         \/ /\ quiet >= threshold
            /\ cfg.keepAlive > 0
            /\ cfg.candidates # <<>>
            /\ m.exhausted
            /\ Stands("give-up", "exhausted")
         \/ /\ quiet >= threshold
            /\ cfg.keepAlive > 0
            /\ cfg.candidates # <<>>
            /\ ~m.exhausted
            /\ left = {}
            /\ on' = o.on
            /\ quietSince' = ExhaustedClock(m)
            /\ tried' = struck
            /\ exhausted' = TRUE
            /\ decision' = Answer("give-up", "exhausted", NoAddr, quiet, threshold)
            /\ UNCHANGED <<pendingFrom, pendingQuiet>>
         \/ /\ quiet >= threshold
            /\ cfg.keepAlive > 0
            /\ ~m.exhausted
            /\ left # {}
            /\ LET to == cfg.candidates[First(left)]
               IN  /\ on' = to
                   /\ decision' = Answer("switch", "silent", to, quiet, threshold)
            /\ quietSince' = m.at
            /\ tried' = struck
            /\ exhausted' = FALSE
            /\ pendingFrom' = o.on
            /\ pendingQuiet' = m.since

Observe(o) == ObserveNoConnection(o) \/ ObserveLive(o)

(***************************************************************************)
(* SwitchFailed: the switch last ordered did not happen.                   *)
(***************************************************************************)
SwitchFailedKeepsWalking(to, out) ==
  /\ on = to
  /\ tried' = tried \cup {to}
  /\ on' = pendingFrom
  /\ quietSince' = pendingQuiet
  /\ UNCHANGED <<exhausted, cfg, started, lastRx, pendingFrom, pendingQuiet,
                 decision>>

SwitchFailed(to, out) ==
  /\ IF on # to
     THEN UNCHANGED <<tried, on, quietSince, exhausted>>
     ELSE /\ tried' = tried \cup {to}
          /\ on' = pendingFrom
          /\ quietSince' = pendingQuiet
          /\ exhausted' = (exhausted \/ out = "gone")
  /\ UNCHANGED <<cfg, started, lastRx, pendingFrom, pendingQuiet, decision>>
-----------------------------------------------------------------------------
SelectorTypeOK ==
  /\ cfg \in Config
  /\ \A i \in DOMAIN cfg.candidates : cfg.candidates[i] \in Plain
  /\ started \in BOOLEAN
  /\ on \in Plain \cup {NoAddr}
  /\ quietSince \in Nat
  /\ lastRx \in Nat
  /\ tried \in SUBSET Plain
  /\ exhausted \in BOOLEAN
  /\ pendingFrom \in Plain \cup {NoAddr}
  /\ pendingQuiet \in Nat
  /\ decision \in Decision
=============================================================================
