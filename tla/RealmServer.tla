---------------------------- MODULE RealmServer ----------------------------
(***************************************************************************)
(* app/cmd/server.go, realmServerRuntime: how a server behind a NAT opens  *)
(* its socket, registers with a rendezvous server, keeps the registration  *)
(* alive, answers punch events and lets go; with extras/realm's client,    *)
(* STUN discovery and port mapping as it uses them.                        *)
(*                                                                         *)
(* An address list is a pair: what STUN last saw and what the interfaces   *)
(* show, each the number of the network the host was on. The rendezvous    *)
(* server, the gateway and the STUN server are external. Requests fail     *)
(* MaxFaults times.                                                        *)
(***************************************************************************)
EXTENDS Integers, FiniteSets

CONSTANTS
  PortMapping,   \* config.PortMapping.Enabled
  Patience,      \* failed requests a session's TTL has room for
  MaxSessions, MaxMoves, MaxFaults, MaxEvents   \* bounds

RealmServerAssumption ==
  /\ PortMapping \in BOOLEAN
  /\ {Patience, MaxSessions, MaxMoves, MaxFaults, MaxEvents} \subseteq Nat

VARIABLES
  boot,          \* where fillRealmConn is; "up" when it has succeeded
  conn,          \* the socket is open
  mapped,        \* the gateway holds a mapping for it
  mapper,        \* "none", "held", "loop" (realmPortMapLoop runs)
  here,          \* the network the host is on
  addrs,         \* r.addrs
  cached,        \* they are younger than realmConnectSTUNCacheTTL
  sess,          \* r.session
  rv,            \* the rendezvous server: the session it knows, its addresses
  main,          \* where run is
  hb, ev,        \* the two loops of the running session
  resp,          \* the respond goroutine, and whether its session runs
  stun,          \* per discovery: "idle", "wait", "ok" or "timeout"
  stunEvents,    \* conn.STUNEvents(): whose answer it holds
  closing,       \* where Close is
  faults, moves, lastId, events,
  lost           \* history: what a failure or a race is allowed to explain

bootVars == <<boot, conn, mapped, mapper>>
addrVars == <<here, moves, addrs, cached>>
rendezvous == <<sess, rv, lastId>>
loops == <<main, hb, ev>>
stunVars == <<stun, stunEvents>>
vars == <<bootVars, addrVars, rendezvous, loops, resp, stunVars, closing, faults, events, lost>>

Quiet == [at |-> "idle", live |-> FALSE]

Off == [at |-> "off", pub |-> <<0, 0>>, sent |-> FALSE, missed |-> 0]

Init ==
  /\ boot = "mask" /\ conn = FALSE /\ mapped = FALSE /\ mapper = "none"
  /\ here = 0 /\ moves = 0 /\ addrs = 0 /\ cached = FALSE
  /\ sess = 0 /\ rv = [sess |-> 0, addrs |-> <<0, 0>>] /\ lastId = 0
  /\ main = "off" /\ hb = Off /\ ev = Off /\ resp = Quiet
  /\ stun = [d \in {"main", "resp"} |-> "idle"] /\ stunEvents = "none"
  /\ closing = "no" /\ faults = 0 /\ events = 0
  /\ lost = {}

cancelled == closing # "no"
Fault == faults < MaxFaults /\ faults' = faults + 1

(* withCandidates: the interfaces are looked at on every call.             *)
currentAddrs == <<addrs, here>>

(* The host changes networks.                                              *)
Move ==
  /\ moves < MaxMoves
  /\ moves' = moves + 1 /\ here' = here + 1
  /\ UNCHANGED <<bootVars, addrs, cached, rendezvous, loops, resp, stunVars, closing, faults, events, lost>>

CacheExpires ==
  /\ cached
  /\ cached' = FALSE
  /\ UNCHANGED <<bootVars, here, moves, addrs, rendezvous, loops, resp, stunVars, closing, faults, events, lost>>

(* The rendezvous server forgets the session: it was not heard from, or    *)
(* the server was restarted.                                               *)
Expire ==
  /\ Fault
  /\ rv.sess # 0
  /\ rv' = [rv EXCEPT !.sess = 0]
  /\ UNCHANGED <<bootVars, addrVars, sess, lastId, loops, resp, stunVars, closing, events, lost>>
-----------------------------------------------------------------------------
(***************************************************************************)
(* fillRealmConn and startRealmServerRuntime. A step that fails releases   *)
(* what the earlier ones opened.                                           *)
(***************************************************************************)
BootStep(from, to) == boot = from /\ boot' = to

BootUnchanged == UNCHANGED <<addrVars, rendezvous, loops, resp, stunVars, closing, events>>

OpenSocket == BootStep("mask", "wrap") /\ conn' = TRUE
              /\ BootUnchanged /\ UNCHANGED <<mapped, mapper, faults, lost>>

RefuseConfig == BootStep("mask", "failed")
                /\ BootUnchanged /\ UNCHANGED <<conn, mapped, mapper, faults, lost>>

(* The layers on the socket, the rendezvous client and the puncher; the    *)
(* socket is closed when one of them cannot be made.                       *)
WrapSocket == BootStep("wrap", "map")
              /\ BootUnchanged /\ UNCHANGED <<conn, mapped, mapper, faults, lost>>

WrapFails == BootStep("wrap", "failed") /\ conn' = FALSE
             /\ BootUnchanged /\ UNCHANGED <<mapped, mapper, faults, lost>>

(* newRealmPortMapper: a failure is only logged. The gateway may have      *)
(* taken the mapping when its external address cannot be read.             *)
MapPort ==
  /\ BootStep("map", "stun")
  /\ \/ ~PortMapping /\ UNCHANGED <<mapped, mapper, faults, lost>>
     \/ PortMapping /\ mapped' = TRUE /\ mapper' = "held" /\ UNCHANGED <<faults, lost>>
     \/ PortMapping /\ Fault /\ UNCHANGED <<mapped, mapper, lost>>
     \/ PortMapping /\ Fault /\ mapped' = TRUE /\ lost' = lost \cup {"mapping"} /\ UNCHANGED mapper
  /\ BootUnchanged /\ UNCHANGED conn

(* refreshAddrsDirect: nobody else reads the socket yet.                   *)
BootSTUN ==
  /\ BootStep("stun", "register")
  /\ addrs' = here /\ cached' = TRUE
  /\ UNCHANGED <<conn, mapped, mapper, here, moves, rendezvous, loops, resp, stunVars, closing, faults, events, lost>>

(* The discovery or the registration fails; the latter, when its answer is *)
(* lost, with a session that nobody will give up.                          *)
BootFail ==
  /\ boot \in {"stun", "register", "registering"} /\ Fault
  /\ boot' = "cleanup"
  /\ lost' = IF boot = "registering" THEN lost \cup {"session"} ELSE lost
  /\ BootUnchanged /\ UNCHANGED <<conn, mapped, mapper>>

(* PortMapper.Close is best effort: the gateway may keep the mapping.      *)
DeletePortMapping ==
  \/ mapped' = FALSE /\ UNCHANGED <<faults, lost>>
  \/ Fault /\ lost' = lost \cup {"mapping"} /\ UNCHANGED mapped

cleanupForgets ==
  /\ boot = "cleanup"
  /\ boot' = "failed" /\ conn' = FALSE /\ mapper' = "none"
  /\ BootUnchanged /\ UNCHANGED <<mapped, faults, lost>>

(* What was acquired is let go: the mapping, and then the socket.          *)
cleanupMapper ==
  /\ boot = "cleanup"
  /\ boot' = "failed" /\ conn' = FALSE /\ mapper' = "none"
  /\ IF mapper = "held" THEN DeletePortMapping ELSE UNCHANGED <<mapped, faults, lost>>
  /\ BootUnchanged

Session(id) ==
  /\ sess' = id
  /\ main' = "session"
  /\ hb' = [Off EXCEPT !.at = "start"]
  /\ ev' = [Off EXCEPT !.at = "connect"]

(* The first registration: the request arrives, and so does the answer.    *)
BootRegister ==
  /\ BootStep("register", "registering")
  /\ rv' = [sess |-> 1, addrs |-> currentAddrs] /\ lastId' = 1
  /\ UNCHANGED <<conn, mapped, mapper, addrVars, sess, loops, resp, stunVars, closing, faults,
                 events, lost>>

BootRegistered ==
  /\ BootStep("registering", "up")
  /\ Session(1)
  /\ mapper' = IF mapper = "held" THEN "loop" ELSE mapper
  /\ UNCHANGED <<conn, mapped, addrVars, rv, lastId, resp, stunVars, closing, faults, events,
                 lost>>

(* realmPortMapLoop removes the mapping when the runtime is cancelled.     *)
MapLoopEnds ==
  /\ mapper = "loop" /\ cancelled
  /\ mapper' = "none" /\ DeletePortMapping
  /\ UNCHANGED <<boot, conn, addrVars, rendezvous, loops, resp, stunVars, closing, events>>
-----------------------------------------------------------------------------
(***************************************************************************)
(* Discovery over the shared socket (DiscoverWithDemux): run and respond   *)
(* may both be at it, and both take from the one channel of answers.       *)
(***************************************************************************)
StunSend(d) == stun' = [stun EXCEPT ![d] = "wait"]

(* An answer comes in for a discovery that waits; a full channel drops it. *)
StunAnswer(d) ==
  /\ stun[d] = "wait" /\ stunEvents = "none"
  /\ stunEvents' = d
  /\ UNCHANGED <<bootVars, addrVars, rendezvous, loops, resp, stun, closing, faults, events, lost>>

(* Whoever reads the channel takes what is there: an answer to another     *)
(* transaction is thrown away.                                             *)
StunTake(d) ==
  /\ stun[d] = "wait" /\ stunEvents # "none"
  /\ stun' = IF stunEvents = d THEN [stun EXCEPT ![d] = "ok"] ELSE stun
  /\ lost' = IF stunEvents = d THEN lost ELSE lost \cup {stunEvents}
  /\ stunEvents' = "none"
  /\ UNCHANGED <<bootVars, addrVars, rendezvous, loops, resp, closing, faults, events>>

(* The context of a discovery: a responder's ends with its session.        *)
Done(d) == cancelled \/ (d = "resp" /\ ~resp.live)

(* No answer within the timeout: it was lost, or taken by the other.       *)
StunTimeout(d) ==
  /\ stun[d] = "wait"
  /\ \/ Fault
     \/ (d \in lost \/ Done(d)) /\ UNCHANGED faults
  /\ stun' = [stun EXCEPT ![d] = "timeout"]
  /\ UNCHANGED <<bootVars, addrVars, rendezvous, loops, resp, stunEvents, closing, events, lost>>

(* refreshAddrsWith, when discover has returned.                           *)
Refreshed(d) ==
  /\ stun[d] \in {"ok", "timeout"}
  /\ addrs' = IF stun[d] = "ok" THEN here ELSE addrs
  /\ cached' = IF stun[d] = "ok" THEN TRUE ELSE cached
  /\ stun' = [stun EXCEPT ![d] = "idle"]
  /\ lost' = lost \ {d}
-----------------------------------------------------------------------------
(***************************************************************************)
(* run, registerWithBackoff, runSession.                                   *)
(***************************************************************************)
(* The first loop to return ends the session; the other one and the        *)
(* responders it started have the same context.                            *)
runSession ==
  /\ main = "session" /\ (hb.at = "ended" \/ ev.at = "ended" \/ cancelled)
  /\ hb' = Off /\ ev' = Off
  /\ main' = IF cancelled THEN "done" ELSE "refresh"
  /\ lost' = lost \ {"update"}
  /\ resp' = [resp EXCEPT !.live = FALSE]
  /\ UNCHANGED <<bootVars, addrVars, rendezvous, stunVars, closing, faults, events>>

RefreshStart ==
  /\ main = "refresh"
  /\ IF cancelled THEN main' = "done" /\ UNCHANGED stun
                  ELSE main' = "stun" /\ StunSend("main")
  /\ UNCHANGED <<bootVars, addrVars, rendezvous, hb, ev, resp, stunEvents, closing, faults, events, lost>>

RefreshDone ==
  /\ main = "stun"
  /\ Refreshed("main")
  /\ main' = "register"
  /\ UNCHANGED <<bootVars, here, moves, rendezvous, hb, ev, resp, stunEvents, closing, faults, events>>

(* The request reaches the rendezvous server ...                           *)
Register ==
  /\ main = "register" /\ lastId < MaxSessions
  /\ IF cancelled THEN main' = "done" /\ UNCHANGED <<rv, lastId>>
     ELSE /\ main' = "registering"
          /\ lastId' = lastId + 1
          /\ rv' = [sess |-> lastId + 1, addrs |-> currentAddrs]
  /\ UNCHANGED <<bootVars, addrVars, sess, hb, ev, resp, stunVars, closing, faults, events, lost>>

(* ... and its answer us, unless it is lost or the runtime was cancelled.  *)
RegisterReply ==
  /\ main = "registering"
  /\ Session(lastId)
  /\ lost' = IF cancelled THEN lost ELSE lost \ {"session"}
  /\ UNCHANGED <<bootVars, addrVars, rv, lastId, resp, stunVars, closing, faults, events>>

RegisterFails ==
  /\ \/ main = "register" /\ Fault /\ main' = "sleep" /\ UNCHANGED lost
     \/ main = "register" /\ Fault /\ main' = "done" /\ UNCHANGED lost   \* isRealmRegisterFatal
     \/ main = "registering" /\ Fault /\ main' = "sleep" /\ lost' = lost \cup {"session"}
     \/ main = "registering" /\ cancelled /\ main' = "done" /\ UNCHANGED <<faults, lost>>
  /\ UNCHANGED <<bootVars, addrVars, rendezvous, hb, ev, resp, stunVars, closing, events>>

sleepContext ==
  /\ main = "sleep"
  /\ main' = IF cancelled THEN "done" ELSE "refresh"
  /\ UNCHANGED <<bootVars, addrVars, rendezvous, hb, ev, resp, stunVars, closing, faults, events, lost>>
-----------------------------------------------------------------------------
(***************************************************************************)
(* heartbeatLoop. lastPublished starts as what is current when the loop    *)
(* does, and moves on before the heartbeat is sent.                        *)
(***************************************************************************)
Running == main = "session" /\ ~cancelled
LoopUnchanged == UNCHANGED <<bootVars, addrVars, main, resp, stunVars, closing, events>>

(* Whether the list changed while nobody was looking.                      *)
Noting == IF rv.sess = sess /\ rv.addrs # currentAddrs THEN lost \cup {"update"} ELSE lost

heartbeatLoop ==
  /\ Running /\ hb.at = "start"
  /\ hb' = [hb EXCEPT !.at = "wait", !.pub = currentAddrs]
  /\ lost' = Noting
  /\ LoopUnchanged /\ UNCHANGED <<rendezvous, ev, faults>>

Heartbeat ==
  /\ Running /\ hb.at = "wait"
  /\ hb' = [hb EXCEPT !.at = "post", !.sent = currentAddrs # hb.pub, !.pub = currentAddrs]
  /\ LoopUnchanged /\ UNCHANGED <<rendezvous, ev, faults, lost>>

(* A refused session taken for a heartbeat that failed.                    *)
HeartbeatReplyDeaf ==
  /\ Running /\ hb.at = "post"
  /\ hb' = [hb EXCEPT !.at = "wait", !.missed = 0]
  /\ rv' = IF rv.sess = sess /\ hb.sent THEN [rv EXCEPT !.addrs = hb.pub] ELSE rv
  /\ lost' = IF hb.sent THEN lost \ {"update"} ELSE lost
  /\ LoopUnchanged /\ UNCHANGED <<sess, lastId, ev, faults>>

HeartbeatReply ==
  /\ Running /\ hb.at = "post"
  /\ IF rv.sess = sess
     THEN /\ hb' = [hb EXCEPT !.at = "wait", !.missed = 0]
          /\ rv' = IF hb.sent THEN [rv EXCEPT !.addrs = hb.pub] ELSE rv
          /\ lost' = IF hb.sent THEN lost \ {"update"} ELSE lost
     ELSE hb' = [hb EXCEPT !.at = "ended"] /\ UNCHANGED <<rv, lost>>
  /\ LoopUnchanged /\ UNCHANGED <<sess, lastId, ev, faults>>

HeartbeatFails ==
  /\ Running /\ hb.at = "post" /\ Fault
  /\ hb' = [hb EXCEPT !.at = IF hb.missed >= Patience THEN "ended" ELSE "wait", !.missed = @ + 1]
  /\ lost' = IF hb.sent THEN lost \cup {"update"} ELSE lost
  /\ LoopUnchanged /\ UNCHANGED <<rendezvous, ev>>
-----------------------------------------------------------------------------
(***************************************************************************)
(* eventsLoop and respond.                                                 *)
(***************************************************************************)
EventsConnect ==
  /\ Running /\ ev.at = "connect"
  /\ ev' = IF rv.sess = sess THEN [ev EXCEPT !.at = "stream", !.missed = 0]
                             ELSE [ev EXCEPT !.at = "ended"]
  /\ LoopUnchanged /\ UNCHANGED <<rendezvous, hb, faults, lost>>

EventsConnectFails ==
  /\ Running /\ ev.at = "connect" /\ Fault
  /\ ev' = [ev EXCEPT !.at = IF ev.missed >= Patience THEN "ended" ELSE "connect", !.missed = @ + 1]
  /\ LoopUnchanged /\ UNCHANGED <<rendezvous, hb, lost>>

(* The stream drops. Only events count as signs of life: after a TTL       *)
(* without one there is no patience left.                                  *)
EventsDrop ==
  /\ Running /\ ev.at = "stream" /\ Fault
  /\ \E m \in {0, Patience} : ev' = [ev EXCEPT !.at = "connect", !.missed = m]
  /\ LoopUnchanged /\ UNCHANGED <<rendezvous, hb, lost>>

(* A punch event: respond runs on its own, with the session's context; it  *)
(* returns at once when the event's addresses are no addresses.            *)
PunchEvent ==
  /\ Running /\ ev.at = "stream" /\ resp.at = "idle"
  /\ rv.sess = sess /\ events < MaxEvents
  /\ events' = events + 1
  /\ resp' \in {Quiet, [at |-> "addrs", live |-> TRUE]}
  /\ UNCHANGED <<bootVars, addrVars, rendezvous, loops, stunVars, closing, faults, lost>>

(* connectAddrs: the cached list, or a discovery; respond goes on with the *)
(* last known list if that fails.                                          *)
connectAddrs ==
  /\ resp.at = "addrs"
  /\ IF cached THEN resp' = [resp EXCEPT !.at = "post"] /\ UNCHANGED stun
               ELSE resp' = [resp EXCEPT !.at = "stun"] /\ StunSend("resp")
  /\ UNCHANGED <<bootVars, addrVars, rendezvous, loops, stunEvents, closing, faults, events, lost>>

ConnectAddrsDone ==
  /\ resp.at = "stun"
  /\ Refreshed("resp")
  /\ resp' = [resp EXCEPT !.at = "post"]
  /\ UNCHANGED <<bootVars, here, moves, rendezvous, loops, stunEvents, closing, faults, events>>

(* ConnectResponse, to the session of this moment; its failure is logged,  *)
(* and the punch begun unless the context has ended.                       *)
ConnectResponse ==
  /\ resp.at = "post"
  /\ resp' = IF Done("resp") THEN Quiet ELSE [resp EXCEPT !.at = "punch"]
  /\ UNCHANGED <<bootVars, addrVars, rendezvous, loops, stunVars, closing, faults, events, lost>>

(* puncher.Respond returns: punched, timed out or cancelled.               *)
Respond ==
  /\ resp.at = "punch"
  /\ resp' = Quiet
  /\ UNCHANGED <<bootVars, addrVars, rendezvous, loops, stunVars, closing, faults, events, lost>>
-----------------------------------------------------------------------------
(***************************************************************************)
(* Close.                                                                  *)
(***************************************************************************)
Close ==
  /\ boot = "up" /\ closing = "no"
  /\ closing' = "cancel"
  /\ lost' = IF main = "registering" THEN lost \cup {"session"} ELSE lost
  /\ UNCHANGED <<bootVars, addrVars, rendezvous, loops, resp, stunVars, faults, events>>

Deregister ==
  /\ closing = "cancel"
  /\ closing' = "done"
  /\ \/ /\ rv' = IF rv.sess = sess THEN [rv EXCEPT !.sess = 0] ELSE rv
        /\ UNCHANGED <<faults, lost>>
     \/ Fault /\ lost' = lost \cup {"session"} /\ UNCHANGED rv
  /\ UNCHANGED <<bootVars, addrVars, sess, lastId, loops, resp, stunVars, events>>
-----------------------------------------------------------------------------
RunStep == runSession \/ RefreshStart \/ RefreshDone \/ Register \/ RegisterReply \/ sleepContext
HeartbeatStep == heartbeatLoop \/ Heartbeat \/ HeartbeatReply
EventsStep == EventsConnect
RespondStep == connectAddrs \/ ConnectAddrsDone \/ ConnectResponse \/ Respond
StunStep == \E d \in {"main", "resp"} : StunAnswer(d) \/ StunTake(d) \/ StunTimeout(d)

Next ==
  \/ OpenSocket \/ RefuseConfig \/ WrapSocket \/ WrapFails \/ MapPort \/ BootSTUN
  \/ BootRegister \/ BootRegistered \/ BootFail \/ cleanupMapper
  \/ MapLoopEnds \/ Move \/ CacheExpires \/ Expire
  \/ RunStep \/ RegisterFails
  \/ HeartbeatStep \/ HeartbeatFails
  \/ EventsStep \/ EventsConnectFails \/ EventsDrop \/ PunchEvent
  \/ RespondStep \/ StunStep
  \/ Close \/ Deregister

Spec == Init /\ [][Next]_vars

(* Goroutines are scheduled, timers fire, and a server that is reachable   *)
(* answers: requests fail only MaxFaults times.                            *)
FairSpec ==
  /\ Spec
  /\ WF_vars(RunStep) /\ WF_vars(HeartbeatStep) /\ WF_vars(EventsStep)
  /\ WF_vars(RespondStep) /\ WF_vars(MapLoopEnds) /\ WF_vars(Deregister)
  /\ \A d \in {"main", "resp"} : WF_vars(StunAnswer(d)) /\ WF_vars(StunTake(d))
                                  /\ WF_vars((d \in lost \/ Done(d)) /\ StunTimeout(d))
-----------------------------------------------------------------------------
(* Whichever step fails, and whenever the runtime is closed, the socket    *)
(* and the gateway's mapping are let go (fillRealmConn, cleanupMapper,     *)
(* realmPortMapLoop): a mapping is left only when the gateway took it and  *)
(* could not say for which address, or would not remove it. A session is   *)
(* left at the rendezvous only if it was being registered when the start   *)
(* failed or Close came, or could not be told.                             *)
NothingLeftBehind ==
  /\ boot = "failed" => ~conn /\ (mapped => "mapping" \in lost)
  /\ (boot = "failed" /\ rv.sess # 0) => "session" \in lost
  /\ (mapped /\ mapper = "none" /\ boot = "up") => "mapping" \in lost
  /\ (closing = "done" /\ main = "done" /\ rv.sess # 0) => "session" \in lost

(* A session the rendezvous server forgot is noticed by one of the loops   *)
(* and replaced, unless the server said the realm is refused or the        *)
(* runtime is closed.                                                      *)
LossIsRepaired ==
  (boot = "up" /\ rv.sess # sess) ~>
    (rv.sess = sess \/ main = "done" \/ cancelled \/ lastId = MaxSessions)

(* A punch event is answered with a punch, whatever became of the STUN     *)
(* lookup and of the answer to the rendezvous server (respond), unless the *)
(* session it came with ends first, and the responder's context with it.   *)
EventIsAnswered == (resp.at = "addrs") ~> (resp.at = "punch" \/ Done("resp"))

(* Once the host stays where it is, its addresses are published, unless    *)
(* a heartbeat that carried them failed or they changed between the        *)
(* registration and the start of heartbeatLoop: lastPublished then says    *)
(* they were.                                                              *)
PublishedUnlessDropped ==
  <>[](Running => rv.addrs = currentAddrs \/ rv.sess # sess \/ "update" \in lost)

(* withCandidates: "what makes a laptop that moves from Wi-Fi to Ethernet  *)
(* republish on the next heartbeat without any extra plumbing". Not so     *)
(* when that heartbeat fails.                                              *)
Republished ==
  <>[](Running => rv.addrs = currentAddrs \/ rv.sess # sess)
=============================================================================
