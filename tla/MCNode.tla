------------------------------- MODULE MCNode -------------------------------
(***************************************************************************)
(* What one process keeps, for TLC: the two congestion controllers, BBR    *)
(* with its bandwidth sampler and Brutal; the server's start, the users it *)
(* authenticates and the streams it proxies for them; the client's start   *)
(* and its UDP sessions; and the monitor of the machine's links.  A        *)
(* behaviour is one of one of these parts, as `part' says, while the       *)
(* others rest where they start.                                           *)
(***************************************************************************)
EXTENDS Integers, FiniteSets, Sequences, ServerConfigs, ClientConfigs

CONSTANTS
  (* BbrSender: windows of one and two packets, and of two sizes.          *)
  Bws, Rtts, Extras, AtSends, MinPackets, InitialPackets, MaxPackets, DatagramSizes, Old,
  MinRttExpiry, ProbeRttTime, NumStartupRtts, LossCount, HighGain, DrainGain, HighCwndGain,
  CwndGain, DrainToTarget, DetectOvershooting, LostMultiplier, AckAggregation, Reordering,
  MaxLoss,
  (* BbrSampler: enough packets for one to be taken for lost.              *)
  MaxPacket, MaxTime, Window, Scale, PacketThreshold, Avoid, Reduce,
  (* Brutal: a ring of two seconds.                                        *)
  Rates, BrutalRtts, BrutalPackets, BrutalTime, MaxCalls, SlotCount, MinSamples, MinSamplesExit,
  CwndFloor, CwndCeiling, Burst, RebaselineSamples, RebaselineWindow, TrackLimit,
  DisableLossCompensation,
  (* ServerStart: two processes, one after the other.                      *)
  MaxStarts, MaxFailures,
  (* ClientStart: three attempts and two failures let a connection be      *)
  (* lost, the next attempt fail and the one after succeed.                *)
  MaxAttempts,
  (* ServerStream: one stream, whose user is kicked up to twice.           *)
  Stream, Kicks,
  (* LinkMonitor: enough changes to fill the buffer and lose one more.     *)
  Debounce, MaxDelay, PollInterval, RawSize, MaxChanges, Value, NoTimer, NoEvent, NoSnapshot,
  (* ServerAuth: two connections with two requests each, of one user or of *)
  (* two.                                                                  *)
  Client, Request, User, NoUser, Nobody, DisableUDP,
  (* ClientUDP: three sessions, whose identifiers do not wrap round.       *)
  Conn, NoConn, IdRange, ChanSize

VARIABLES
  part,
  bbr, out, losses,
  s, states, best, round, fly, acked, now,
  b, bps, pacerReset, pathReset, setting, allowed, rtt, inFlight, next, second, calls,
  stale,
  pc, config, at, todo, cleanup, fns, runtime, child, helpers, mapping, fw, fwBefore, broken,
  ended, starts, failures,
  up, left, authMutex, authenticated, authID, serving, reply, managers, streams,
  OnlineMap,
  m, nextID, closed, run, linkUp, id, state, ch, reader, panicked,
  clientPC, exitHow, chosen, stage, attempts, conn, current, clientClosed, mode, helper,
  faults,
  connUp, kick, kicks, told, handler, hooked, stream, tConn, client, remote, said, cp,
  errChan, traced, requests, errors,
  net, changes, queue, src, prev, pollIn, raw, loop, pending, count, age, timer, ev,
  channel, view, noted, delivered, done, blind

bbrVars == <<bbr, out, losses>>
samplerVars == <<s, states, best, round, fly, acked, now>>
brutalVars == <<b, bps, pacerReset, pathReset, setting, allowed, rtt, inFlight, next,
                second, calls, stale>>
startVars == <<pc, config, at, todo, cleanup, fns, runtime, child, helpers, mapping, fw,
               fwBefore, broken, ended, starts, failures>>
authVars == <<up, left, authMutex, authenticated, authID, serving, reply, managers,
              streams, OnlineMap>>
udpVars == <<m, nextID, closed, run, linkUp, id, state, ch, reader, panicked>>
clientVars == <<clientPC, exitHow, chosen, stage, attempts, conn, current, clientClosed, mode,
                helper, faults>>
streamVars == <<connUp, kick, kicks, told, handler, hooked, stream, tConn, client, remote,
                said, cp, errChan, traced, requests, errors>>
linkVars == <<net, changes, queue, src, prev, pollIn, raw, loop, pending, count, age, timer,
              ev, channel, view, noted, delivered, done, blind>>
vars == <<part, bbrVars, samplerVars, brutalVars, startVars, authVars, udpVars, clientVars,
          streamVars, linkVars>>
-----------------------------------------------------------------------------
Bbr == INSTANCE BbrSender
  WITH PacingGain <- <<5, 3, 4>>, b <- bbr
Sampler == INSTANCE BbrSampler
Brutal == INSTANCE Brutal
  WITH Rtts <- BrutalRtts, MaxPacket <- BrutalPackets, MaxTime <- BrutalTime,
       fly <- inFlight, now <- second
Start == INSTANCE ServerStart
  WITH Configs <- MCConfigs, Unions <- MCUnions
Auth == INSTANCE ServerAuthProofs
  WITH Conn <- Client, ended <- left, pc <- serving
UDP == INSTANCE ClientUDPProofs
Dialer == INSTANCE ClientStart
  WITH Configs <- MCClientConfigs, pc <- clientPC, how <- exitHow, config <- chosen,
       n <- attempts, client <- current, closed <- clientClosed, child <- helper,
       failures <- faults
Proxied == INSTANCE ServerStream WITH pc <- handler
Link == INSTANCE LinkMonitor WITH out <- channel

ASSUME NodeAssumption ==
  /\ Bbr!SenderAssumption /\ Sampler!SamplerAssumption
  /\ Brutal!BrutalAssumption /\ Start!ConfigsAssumption /\ Start!UnionsAssumption
  /\ Auth!ServerAuthAssumption /\ UDP!ClientUDPAssumption /\ UDP!FewSessions
  /\ Dialer!ClientStartAssumption /\ Proxied!ServerStreamAssumption
  /\ Link!LinkMonitorAssumption

Init ==
  /\ part \in {"bbr", "sampler", "brutal", "start", "auth", "udp", "client", "stream",
              "link"}
  /\ part # "brutal" => bps = 1
  /\ part # "start" => config = Sound
  /\ part # "client" => chosen = ClientSound
  /\ Bbr!Init /\ Sampler!Init /\ Brutal!Init /\ Start!Init /\ Auth!Init /\ UDP!Init
  /\ Dialer!Init /\ Proxied!Init /\ Link!Init

OfBbr(A) ==
  /\ part = "bbr" /\ A
  /\ UNCHANGED <<part, samplerVars, brutalVars, startVars, authVars, udpVars, clientVars,
                 streamVars, linkVars>>
OfSampler(A) ==
  /\ part = "sampler" /\ A
  /\ UNCHANGED <<part, bbrVars, brutalVars, startVars, authVars, udpVars, clientVars,
                 streamVars, linkVars>>
OfBrutal(A) ==
  /\ part = "brutal" /\ A
  /\ UNCHANGED <<part, bbrVars, samplerVars, startVars, authVars, udpVars, clientVars,
                 streamVars, linkVars>>
OfStart(A) ==
  /\ part = "start" /\ A
  /\ UNCHANGED <<part, bbrVars, samplerVars, brutalVars, authVars, udpVars, clientVars,
                 streamVars, linkVars>>
OfAuth(A) ==
  /\ part = "auth" /\ A
  /\ UNCHANGED <<part, bbrVars, samplerVars, brutalVars, startVars, udpVars, clientVars,
                 streamVars, linkVars>>
OfUDP(A) ==
  /\ part = "udp" /\ A
  /\ UNCHANGED <<part, bbrVars, samplerVars, brutalVars, startVars, authVars, clientVars,
                 streamVars, linkVars>>
OfClient(A) ==
  /\ part = "client" /\ A
  /\ UNCHANGED <<part, bbrVars, samplerVars, brutalVars, startVars, authVars, udpVars,
                 streamVars, linkVars>>
OfStream(A) ==
  /\ part = "stream" /\ A
  /\ UNCHANGED <<part, bbrVars, samplerVars, brutalVars, startVars, authVars, udpVars,
                 clientVars, linkVars>>
OfLink(A) ==
  /\ part = "link" /\ A
  /\ UNCHANGED <<part, bbrVars, samplerVars, brutalVars, startVars, authVars, udpVars,
                 clientVars, streamVars>>

Next ==
  \/ OfBbr(Bbr!Next)
  \/ OfSampler(Sampler!Next)
  \/ OfBrutal(Brutal!Next)
  \/ OfStart(Start!Next)
  \/ OfAuth(Auth!Next)
  \/ OfUDP(UDP!Next)
  \/ OfClient(Dialer!Next)
  \/ OfStream(Proxied!Next)
  \/ OfLink(Link!Next)

Spec == Init /\ [][Next]_vars
-----------------------------------------------------------------------------
(***************************************************************************)
(* bbrSender: whatever is lost, recovered from or rescaled by path MTU     *)
(* discovery, the sender may always have the minimum window in flight and  *)
(* never more than the maximum.                                            *)
(***************************************************************************)
WindowInBounds == part = "bbr" => Bbr!WindowInBounds

(***************************************************************************)
(* bandwidthSampler: a packet that can still be acknowledged has its state *)
(* in the map, however the sender estimates the least unacked one; the     *)
(* windowed filter keeps its three estimates in order; and the points      *)
(* chooseA0Point searches ascend.                                          *)
(***************************************************************************)
KnownUntilResolved ==
  part = "sampler" =>
    Sampler!KnownUntilResolved /\ Sampler!EstimatesOrdered /\ Sampler!CandidatesAscend

(***************************************************************************)
(* BrutalSender: a loss that is remembered can be taken back from the slot *)
(* it was counted in, however the seconds pass; and once SetBPS has        *)
(* returned and the run loop has seen it, nothing is sent on credit of the *)
(* previous rate.                                                          *)
(***************************************************************************)
CorrectionsLand == part = "brutal" => Brutal!CorrectionsLand /\ Brutal!NoOldCredit

(***************************************************************************)
(* The server's start: while it serves a port union, each port of it but   *)
(* the one it listens on is redirected there, whatever earlier processes   *)
(* left in the firewall; and a process that was stopped by a signal, or    *)
(* refused to open its listener, leaves nothing of its own there, although *)
(* a command failed half way: a command of the clean-up that fails, which  *)
(* the closers ignore, costs only the table or the chain it is about.      *)
(***************************************************************************)
PortsReachListener == part = "start" => Start!PortsReachListener /\ Start!LeavesNothing

(***************************************************************************)
(* h3sHandler.ServeHTTP and handleClient: the online count is exact for    *)
(* every user, a connection has one UDP session manager, and a proxied     *)
(* stream is given the user its connection authenticated as, however two   *)
(* requests of one connection race.                                        *)
(***************************************************************************)
OnlineExact == part = "auth" => Auth!OnlineExact /\ Auth!OneManager /\ Auth!StreamsKnowUser

(***************************************************************************)
(* The client's udpSessionManager: a message goes to the session its       *)
(* identifier was given to, none is sent on a closed channel, and once the *)
(* receive loop has ended every session is closed.                         *)
(***************************************************************************)
RoutedRight ==
  part = "udp" =>
    /\ UDP!RoutedRight /\ UDP!NoSendOnClosed /\ UDP!EndedClosesAll /\ UDP!TypeOK

(***************************************************************************)
(* The client's start: an attempt that failed, wherever it failed, holds   *)
(* no socket and renews no mapping (but for a realm socket whose           *)
(* configuration NewClient refuses), and a client that was stopped has     *)
(* closed its connection, the one an attempt set up while it was stopping  *)
(* included.                                                               *)
(***************************************************************************)
NothingHeld == part = "client" => Dialer!NothingHeld

(***************************************************************************)
(* handleTCPRequest: a stream is answered once, and when it is over both   *)
(* its ends are closed, its trace entry is gone, and its request was       *)
(* logged with one end.                                                    *)
(***************************************************************************)
NothingLeft == part = "stream" => Proxied!NothingLeft /\ Proxied!OneResponse

(***************************************************************************)
(* linkmon: "a consumer that only ever re-enumerates therefore cannot miss *)
(* a change, no matter how slow it is", unless no source reported it (a    *)
(* message that cannot be parsed, a change while nobody watched); a change *)
(* is held for at most MaxDelay, and none is dropped from the counts and   *)
(* kinds that are merged.                                                  *)
(***************************************************************************)
NoChangeMissed ==
  part = "link" =>
    /\ Link!NoChangeMissed /\ Link!HeldAtMostMaxDelay /\ Link!NothingDropped /\ Link!TypeOK
=============================================================================
