---------------------------- MODULE MCLifecycle -----------------------------
(***************************************************************************)
(* What must come to an end, for TLC: the server's UDP sessions, proxied   *)
(* streams and connections, the client's UDP sessions, the mimic helper,   *)
(* the client's start, and a change of the network nobody was told of.  A  *)
(* behaviour is one of one of these parts, as `part' says, while the       *)
(* others rest where they start.                                           *)
(***************************************************************************)
EXTENDS Integers, FiniteSets, Sequences, ClientConfigs

CONSTANTS
  (* ServerUDP: one session at a time, one address. *)
  ID, Entry, NoEntry, a1, NoAddr, IdleTimeout, QueueLen, MaxCache,
  (* ServerStream: one stream, whose user is kicked up to twice; what      *)
  (* another stream does to it, ConnectionDies and its own copiers do too. *)
  Stream, Kicks,
  (* ClientUDP: two sessions. *)
  Conn, NoConn, IdRange, ChanSize,
  (* Mimic: two processes on one interface, three launches each: the       *)
  (* first, one that fails or is refused, and one more. *)
  Procs, MaxLaunches,
  (* ClientStart: three attempts and two failures let a connection be      *)
  (* lost, the next attempt fail and the one after succeed. *)
  MaxAttempts, MaxFailures,
  (* ServerAuth: a connection with two requests. *)
  Client, Request, User, NoUser, Nobody, DisableUDP,
  (* LinkMonitor: two changes, the second while the first is held. *)
  Debounce, MaxDelay, PollInterval, RawSize, MaxChanges, Value, NoTimer, NoEvent,
  NoSnapshot

VARIABLES
  part,
  linkUp, sessions, entry, main, cleaner, sender, receiver, wrote,
  connUp, kick, kicks, told, pc, hooked, stream, tConn, client, remote, said, cp, errChan,
  traced, requests, errors,
  m, nextID, muxClosed, run, muxUp, id, state, ch, reader, panicked,
  instance, launchHow, proc, stopped, asked, sup, launched, child,
  clientPC, how, config, stage, n, conn, current, closed, mode, helper, failures,
  up, ended, authMutex, authenticated, authID, serving, reply, managers, streams, OnlineMap,
  net, changes, queue, src, prev, pollIn, raw, loop, pending, count, age, timer, ev, out,
  view, noted, delivered, done, blind

serverUDPVars == <<linkUp, sessions, entry, main, cleaner, sender, receiver, wrote>>
streamVars == <<connUp, kick, kicks, told, pc, hooked, stream, tConn, client, remote, said,
                cp, errChan, traced, requests, errors>>
clientUDPVars == <<m, nextID, muxClosed, run, muxUp, id, state, ch, reader, panicked>>
mimicVars == <<instance, launchHow, proc, stopped, asked, sup, launched, child>>
clientVars == <<clientPC, how, config, stage, n, conn, current, closed, mode, helper, failures>>
authVars == <<up, ended, authMutex, authenticated, authID, serving, reply, managers, streams,
              OnlineMap>>
linkVars == <<net, changes, queue, src, prev, pollIn, raw, loop, pending, count, age, timer,
              ev, out, view, noted, delivered, done, blind>>
vars == <<part, serverUDPVars, streamVars, clientUDPVars, mimicVars, clientVars, authVars,
          linkVars>>
-----------------------------------------------------------------------------
SU == INSTANCE ServerUDP WITH Addr <- {a1}, Allowed <- {a1}, Rewrites <- {}
SS == INSTANCE ServerStream
CU == INSTANCE ClientUDP WITH closed <- muxClosed, linkUp <- muxUp
MI == INSTANCE Mimic WITH main <- instance, how <- launchHow
CS == INSTANCE ClientStart
        WITH Configs <- MCClientConfigs, pc <- clientPC, client <- current, child <- helper
SA == INSTANCE ServerAuth WITH Conn <- Client, pc <- serving
LM == INSTANCE LinkMonitor

ASSUME /\ SU!UDPAssumption /\ SS!ServerStreamAssumption /\ CU!ClientUDPAssumption
       /\ CS!ClientStartAssumption /\ SA!ServerAuthAssumption /\ LM!LinkMonitorAssumption

Init ==
  /\ part \in {"serverUDP", "stream", "clientUDP", "mimic", "client", "auth", "link"}
  /\ part # "client" => config = ClientSound
  /\ SU!Init /\ SS!Init /\ CU!Init /\ MI!Init /\ CS!Init /\ SA!Init /\ LM!Init

OfServerUDP(A) ==
  /\ part = "serverUDP" /\ A
  /\ UNCHANGED <<part, streamVars, clientUDPVars, mimicVars, clientVars, authVars, linkVars>>
OfStream(A) ==
  /\ part = "stream" /\ A
  /\ UNCHANGED <<part, serverUDPVars, clientUDPVars, mimicVars, clientVars, authVars, linkVars>>
OfClientUDP(A) ==
  /\ part = "clientUDP" /\ A
  /\ UNCHANGED <<part, serverUDPVars, streamVars, mimicVars, clientVars, authVars, linkVars>>
OfMimic(A) ==
  /\ part = "mimic" /\ A
  /\ UNCHANGED <<part, serverUDPVars, streamVars, clientUDPVars, clientVars, authVars, linkVars>>
OfClient(A) ==
  /\ part = "client" /\ A
  /\ UNCHANGED <<part, serverUDPVars, streamVars, clientUDPVars, mimicVars, authVars, linkVars>>
OfAuth(A) ==
  /\ part = "auth" /\ A
  /\ UNCHANGED <<part, serverUDPVars, streamVars, clientUDPVars, mimicVars, clientVars, linkVars>>
OfLink(A) ==
  /\ part = "link" /\ A
  /\ UNCHANGED <<part, serverUDPVars, streamVars, clientUDPVars, mimicVars, clientVars, authVars>>

Next ==
  \/ OfServerUDP(SU!Next)
  \/ OfStream(SS!Next)
  \/ OfClientUDP(CU!Next)
  \/ OfMimic(MI!Next)
  \/ OfClient(CS!Next)
  \/ OfAuth(SA!Next)
  \/ OfLink(LM!Next)

(* Each part's fairness, which binds only the part that runs.              *)
Fairness ==
  /\ WF_vars(OfServerUDP(SU!MainStep))
  /\ WF_vars(OfServerUDP(SU!ReceiveErr /\ ~linkUp))
  /\ WF_vars(OfServerUDP(SU!CleanerStep))
  /\ SF_vars(OfServerUDP(SU!CleanerStop))
  /\ WF_vars(OfServerUDP(SU!Tick))
  /\ \A e \in Entry :
       /\ WF_vars(OfServerUDP(SU!SenderStep(e)))
       /\ WF_vars(OfServerUDP(SU!ReceiverStep(e)))
       /\ WF_vars(OfServerUDP(SU!ReceiverReadErr(e) /\ entry[e].conn = "shut"))
  /\ \A s \in Stream :
       /\ WF_vars(OfStream(SS!Unblocked(s)))
       /\ WF_vars(OfStream(SS!DialFails(s) \/ SS!Established(s)))
       /\ WF_vars(OfStream(SS!CopyEnds(s)))
       /\ \A w \in SS!Way :
            /\ SF_vars(OfStream(SS!CopyReadEnds(s, w)))
            /\ WF_vars(OfStream(SS!CopyWrite(s, w) \/ SS!CopyWriteFails(s, w)))
  /\ WF_vars(OfClientUDP(CU!RunStep))
  /\ \A c \in Conn : WF_vars(OfClientUDP(CU!ReaderStep(c)))
  /\ \A c \in MI!Children : WF_vars(OfMimic(child[c] = "stopping" /\ MI!Dies(c)))
  /\ \A p \in Procs :
       /\ WF_vars(OfMimic(MI!readyTimeout(p)))
       /\ WF_vars(OfMimic(MI!Started(p)))
       /\ WF_vars(OfMimic(\/ MI!current(p) \/ MI!waited(p) \/ MI!sleep(p) \/ MI!adopt(p)
                          \/ MI!restartEnds(p)))
       /\ WF_vars(OfMimic(MI!CloseReturns(p)))
  /\ WF_vars(OfClient(CS!Progress))
  /\ WF_vars(OfClient(CS!runModes))
  /\ WF_vars(OfClient(CS!runnerResult))
  /\ WF_vars(OfClient(CS!End))
  /\ \A c \in Client :
       /\ WF_vars(OfAuth(SA!Disconnect(c)))
       /\ \A r \in Request : WF_vars(OfAuth(SA!ServeHTTP(c, r)))
  /\ WF_vars(OfLink(LM!Tick))
  /\ WF_vars(OfLink(LM!Start)) /\ WF_vars(OfLink(LM!Forward)) /\ WF_vars(OfLink(LM!PollStart))
  /\ SF_vars(OfLink(LM!PollTakes))
  /\ WF_vars(OfLink(LM!Note)) /\ WF_vars(OfLink(LM!Fire))
  /\ WF_vars(OfLink(LM!Emit)) /\ WF_vars(OfLink(LM!Consume))

Spec == Init /\ [][Next]_vars /\ Fairness
-----------------------------------------------------------------------------
(***************************************************************************)
(* The server's UDP sessions: when the connection is gone every session    *)
(* ends and every goroutine with it, and a session nobody uses is reaped.  *)
(***************************************************************************)
SessionsEnd == SU!DownEndsAll /\ SU!IdleIsReaped

(***************************************************************************)
(* A proxied stream ends, whichever side closes, and its end reaches the   *)
(* other side.                                                             *)
(***************************************************************************)
AllEnd == SS!AllEnd /\ SS!ClosePropagates

(***************************************************************************)
(* A reader of a client's UDP session is not left waiting once the session *)
(* or the connection is closed.                                            *)
(***************************************************************************)
NoReaderStuck == CU!NoReaderStuck

(***************************************************************************)
(* mimic: Close returns, although a supervisor may be about to relaunch    *)
(* the child, and no child is left when it has.                            *)
(***************************************************************************)
MimicEnds == []MI!NoneLeft /\ MI!CloseEnds

(***************************************************************************)
(* clientModeRunner: a mode that fails ends the client, whatever the other *)
(* modes do, unless the attempt one of them began is never answered.       *)
(***************************************************************************)
ModeFailureIsFatal == CS!ModeFailureIsFatal

(***************************************************************************)
(* A connection that is gone goes offline in the traffic logger's count,   *)
(* whatever its requests were doing.                                       *)
(***************************************************************************)
GoneGoesOffline == SA!GoneGoesOffline

(***************************************************************************)
(* A consumer of the link monitor whose view of the network is stale ends  *)
(* up with a fresh one, as long as some source reports the change.         *)
(***************************************************************************)
StaleIsRefreshed == LM!StaleIsRefreshed
=============================================================================
