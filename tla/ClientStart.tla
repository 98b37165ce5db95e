---------------------------- MODULE ClientStart ----------------------------
(***************************************************************************)
(* The client command (app/cmd/client.go runClient): its start, the modes  *)
(* it runs beside each other, the connection attempts they cause - each    *)
(* one evaluates the configuration anew, and in realm mode opens a socket, *)
(* maps a port and punches before there is a connection - and its end.     *)
(*                                                                         *)
(* Attempts run one at a time under the reconnecting client's mutex, which *)
(* Close takes too (Reconnect models the calls that meet there).           *)
(***************************************************************************)
EXTENDS Naturals, FiniteSets

CONSTANTS
    Configs,       \* the configurations the client may be started with
    MaxAttempts,   \* bound: connection attempts
    MaxFailures    \* bound: system calls and exchanges that fail

VARIABLES
    pc,        \* the main goroutine
    how,       \* how the process ended
    config,
    stage,     \* the running attempt, "idle" when the mutex is free
    n,         \* attempts so far
    conn,      \* of each attempt: its socket, its port mapping, its factory
    client,    \* the attempt whose connection is rc.client, 0 for nil
    closed,    \* rc.closed
    mode,      \* of each configured mode: "off", "up" or "failed"
    child,     \* the mimic child
    failures

vars == <<pc, how, config, stage, n, conn, client, closed, mode, child, failures>>
main == <<pc, how, config, child>>

--------------------------------------------------------------------------------
(* Configurations, of which the checks' outcome is kept.                   *)

clientConfig ==
    [server : {"", "hostPort", "hop", "uri", "realm", "invalid"},
     hop : {"none", "fixed", "range", "conflicting", "halfRange"},
     sockopts : {"supported", "unsupported"}, transport : {"", "udp", "other"},
     obfs : {"plain", "salamander", "salamander-v2", "gecko", "unknown"},
     tls : {"sound", "badCA", "badPair", "badECH"}, congestion : {"", "reno", "bbr", "other"},
     bandwidth : {"", "sound", "unparsable"}, ipMode : {"", "4", "6", "other"},
     portMapping : BOOLEAN, limits : {"kept", "exceeded"}, clock : {"sound", "unsynced"},
     lazy : BOOLEAN, mimic : BOOLEAN, modes : SUBSET {"socks5", "http", "tcpForwarding", "tun"},
     listen : {"set", "empty"}]

ClientStartAssumption ==
    Configs \subseteq clientConfig /\ MaxAttempts \in Nat /\ MaxFailures \in Nat

(* hopIntervalConfig: one interval, or both ends of a range, never both.   *)
hopIntervalConfig(c) == c.hop \in {"none", "fixed", "range"}

(* hopRequested: even a malformed interval says that hopping is wanted.    *)
hopRequested(c) == c.hop # "none"

checkHopVersusRealm(c) == ~hopRequested(c)

fillServerAddr(c) == c.server # "" /\ c.server # "invalid"

fillConnFactory(c) ==
    c.sockopts = "supported" /\ hopIntervalConfig(c) /\ c.transport \in {"", "udp"}

(* The fillers both kinds of server share; the others copy their options.  *)
fillTLSConfig(c) == c.tls = "sound"
fillCongestionConfig(c) == c.congestion \in {"", "reno", "bbr"}
fillBandwidthConfig(c) == c.bandwidth # "unparsable"

SharedFillers(c) == fillTLSConfig(c) /\ fillCongestionConfig(c) /\ fillBandwidthConfig(c)

(* Config(): what an ordinary server's configuration must pass, and what   *)
(* realmConfig checks before it opens a socket: the hop interlock, the     *)
(* fillers, the mode, the punch mask and the socket options.               *)
OrdinaryAccepted(c) == fillServerAddr(c) /\ fillConnFactory(c) /\ SharedFillers(c)

RealmAccepted(c) ==
    /\ checkHopVersusRealm(c)
    /\ SharedFillers(c)
    /\ c.ipMode # "other"
    /\ c.obfs = "salamander-v2"
    /\ c.sockopts = "supported"

wrapObfs(c) == c.obfs # "unknown"

(* Mimic filters one address: no port range, and the server's address is   *)
(* resolved as it stands, so a share URI (which only Config() unpacks) or a*)
(* realm address is no address.                                            *)
validateMimic(c) == c.mimic => c.server # "hop"
mimicServerAddr(c) == c.server = "hostPort"

--------------------------------------------------------------------------------
None == [sock |-> "none", map |-> "none", up |-> FALSE]

Init ==
    /\ pc = "start"
    /\ how = "running"
    /\ config \in Configs
    /\ stage = "idle"
    /\ n = 0
    /\ conn = [i \in 1..MaxAttempts |-> None]
    /\ client = 0
    /\ closed = FALSE
    /\ mode = [m \in config.modes |-> "off"]
    /\ child = FALSE
    /\ failures = 0

Fail == failures < MaxFailures /\ failures' = failures + 1

Exit(as) ==
    /\ pc' = "exit"
    /\ how' = as
    /\ child' = FALSE
    /\ stage' = "idle"
    /\ UNCHANGED config

(* runClient up to its first connection: the mimic checks, the clock, the  *)
(* child.  Each failure is logger.Fatal.                                   *)
Prepare ==
    /\ pc = "start"
    /\ validateMimic(config)
    /\ config.obfs = "salamander-v2" => config.clock = "sound"     \* bootstrapClock
    /\ config.mimic => mimicServerAddr(config)
    /\ child' = config.mimic
    /\ pc' = IF config.lazy THEN "modes" ELSE "connect"
    /\ UNCHANGED <<how, config, stage, n, conn, client, closed, mode, failures>>

PrepareFails ==
    /\ pc = "start"
    /\ \/ /\ \/ ~validateMimic(config)
             \/ config.obfs = "salamander-v2" /\ config.clock = "unsynced"
             \/ config.mimic /\ ~mimicServerAddr(config)
          /\ UNCHANGED failures
       \/ config.mimic /\ Fail                                      \* mimic.Start
    /\ Exit("fatal")
    /\ UNCHANGED <<n, conn, client, closed, mode>>

--------------------------------------------------------------------------------
(* One attempt: configFunc and NewClient, with the mutex held.  It is the  *)
(* main goroutine's first one, or a mode's call finds no connection.       *)

Attempt ==
    /\ \/ pc = "connect"
       \/ pc \in {"run", "closing", "failing"} /\ \E m \in DOMAIN mode : mode[m] = "up"
    /\ stage = "idle"
    /\ client = 0
    /\ ~closed
    /\ n < MaxAttempts
    /\ n' = n + 1
    /\ stage' = "config"
    /\ UNCHANGED <<main, conn, client, closed, mode, failures>>

(* The attempt is over and failed.  The first one is the end of a client   *)
(* that is not lazy.                                                       *)
GiveUp ==
    /\ stage' = "idle"
    /\ pc' = IF pc = "connect" THEN "exit" ELSE pc
    /\ how' = IF pc = "connect" THEN "fatal" ELSE how
    /\ child' = (child /\ pc # "connect")
    /\ UNCHANGED <<config, n, client, closed, mode>>

Config ==
    /\ stage = "config"
    /\ \/ /\ config.server # "realm" /\ OrdinaryAccepted(config)
          /\ stage' = "verify"
       \/ /\ config.server = "realm" /\ RealmAccepted(config)
          /\ stage' = "socket"
    /\ UNCHANGED <<main, n, conn, client, closed, mode, failures>>

ConfigRefused ==
    /\ stage = "config"
    /\ IF config.server = "realm" THEN ~RealmAccepted(config) ELSE ~OrdinaryAccepted(config)
    /\ GiveUp
    /\ UNCHANGED <<conn, failures>>

(* realmConfig once it has its socket.  The mapper is best effort; a       *)
(* failure after it runs the deferred closes: the socket's and the mapper's*)
realmListen ==
    /\ stage = "socket"
    /\ stage' = IF config.portMapping THEN "map" ELSE "stun"
    /\ conn' = [conn EXCEPT ![n].sock = "open"]
    /\ UNCHANGED <<main, n, client, closed, mode, failures>>

newRealmPortMapper ==
    /\ stage = "map"
    /\ \/ conn' = [conn EXCEPT ![n].map = "held"] /\ UNCHANGED failures
       \/ UNCHANGED conn /\ Fail
    /\ stage' = "stun"
    /\ UNCHANGED <<main, n, client, closed, mode>>

deferredKeepsMapper(c) == [c EXCEPT !.sock = "closed"]

(* The deferred calls of a realmConfig that does not succeed; a mapping    *)
(* that is "removed" is one the mapper gave up, whatever the gateway said. *)
deferred(c) == [c EXCEPT !.sock = "closed", !.map = IF @ = "held" THEN "removed" ELSE @]

(* The STUN discovery and the metadata, then the rendezvous request.       *)
realmDiscover ==
    /\ stage = "stun"
    /\ stage' = "request"
    /\ UNCHANGED <<main, n, conn, client, closed, mode, failures>>

realmConnect ==
    /\ stage = "request"
    /\ stage' = "punch"
    /\ UNCHANGED <<main, n, conn, client, closed, mode, failures>>

(* The wrapping and the punch: the socket and the renewal of the mapping   *)
(* pass to the connection, which cancels the renewal when it is closed.    *)
realmPunch ==
    /\ stage = "punch"
    /\ stage' = "verify"
    /\ conn' = [conn EXCEPT ![n].map = IF @ = "held" THEN "renewed" ELSE @]
    /\ UNCHANGED <<main, n, client, closed, mode, failures>>

realmConfigFails ==
    /\ \/ stage = "socket" /\ UNCHANGED conn
       \/ stage \in {"stun", "request", "punch"} /\ conn' = [conn EXCEPT ![n] = deferred(@)]
    /\ Fail
    /\ GiveUp

(* NewClient: verifyAndFill before the factory is asked for its socket.    *)
verifyAndFill ==
    /\ stage = "verify"
    /\ config.limits = "kept"
    /\ stage' = "open"
    /\ UNCHANGED <<main, n, conn, client, closed, mode, failures>>

verifyRefused ==
    /\ stage = "verify"
    /\ config.limits = "exceeded"
    /\ GiveUp
    /\ UNCHANGED <<conn, failures>>

(* Closing the connection's socket also cancels a mapping's renewal.       *)
ClosePacketConn(c) ==
    [c EXCEPT !.sock = "closed", !.map = IF @ = "renewed" THEN "cancelled" ELSE @]

(* singleUseConnFactory.New: the realm's socket is already open, another   *)
(* is opened now and closed again when it cannot be wrapped.               *)
connFactoryNew ==
    /\ stage = "open"
    /\ config.server = "realm" \/ wrapObfs(config)
    /\ conn' = [conn EXCEPT ![n].sock = "open"]
    /\ stage' = "handshake"
    /\ UNCHANGED <<main, n, client, closed, mode, failures>>

connFactoryFails ==
    /\ stage = "open"
    /\ config.server # "realm"
    /\ \/ ~wrapObfs(config) /\ conn' = [conn EXCEPT ![n].sock = "closed"] /\ UNCHANGED failures
       \/ wrapObfs(config) /\ UNCHANGED conn /\ Fail
    /\ GiveUp

(* connect(): the handshake, then the authentication request's answer.     *)
Dial ==
    /\ stage = "handshake"
    /\ stage' = "auth"
    /\ UNCHANGED <<main, n, conn, client, closed, mode, failures>>

Connected ==
    /\ stage = "auth"
    /\ stage' = "idle"
    /\ client' = n
    /\ conn' = [conn EXCEPT ![n].up = TRUE]
    /\ pc' = IF pc = "connect" THEN "modes" ELSE pc
    /\ UNCHANGED <<how, config, child, n, closed, mode, failures>>

connectFails ==
    /\ stage \in {"handshake", "auth"}
    /\ conn' = [conn EXCEPT ![n] = ClosePacketConn(@)]
    /\ Fail
    /\ GiveUp

(* A mode's call finds the connection closed: rc.client becomes nil, its   *)
(* socket (and the mapping's renewal) stays as it is.                      *)
Lost ==
    /\ stage = "idle"
    /\ client # 0
    /\ ~closed
    /\ pc # "exit"
    /\ \E m \in DOMAIN mode : mode[m] = "up"
    /\ Fail
    /\ client' = 0
    /\ UNCHANGED <<main, stage, n, conn, closed, mode>>

--------------------------------------------------------------------------------
(* The modes, each in its goroutine.                                       *)

runModes ==
    /\ pc = "modes"
    /\ pc' = "run"
    /\ UNCHANGED <<how, config, child, stage, n, conn, client, closed, mode, failures>>

(* A mode with an address to listen on comes up; without one, or when the  *)
(* address is taken, it returns its error.  A mode that is up ends only    *)
(* with an error.                                                          *)
ModeStarts(m) ==
    /\ pc \in {"run", "closing", "failing"}
    /\ mode[m] = "off"
    /\ config.listen = "set"
    /\ mode' = [mode EXCEPT ![m] = "up"]
    /\ UNCHANGED <<main, stage, n, conn, client, closed, failures>>

ModeFails(m) ==
    /\ pc \in {"run", "closing", "failing"}
    /\ \/ mode[m] = "off" /\ config.listen = "empty" /\ UNCHANGED failures
       \/ mode[m] \in {"off", "up"} /\ Fail
    /\ mode' = [mode EXCEPT ![m] = "failed"]
    /\ UNCHANGED <<main, stage, n, conn, client, closed>>

runnerResultOfAll ==
    /\ pc = "run"
    /\ \A m \in DOMAIN mode : mode[m] = "failed"
    /\ pc' = "failing"
    /\ UNCHANGED <<how, config, child, stage, n, conn, client, closed, mode, failures>>

(* clientModeRunner.Run: the first error is the result, as is having no    *)
(* mode; runClient then closes the client itself, for Fatal will not.      *)
runnerResult ==
    /\ pc = "run"
    /\ DOMAIN mode = {} \/ \E m \in DOMAIN mode : mode[m] = "failed"
    /\ pc' = "failing"
    /\ UNCHANGED <<how, config, child, stage, n, conn, client, closed, mode, failures>>

Signal ==
    /\ pc = "run"
    /\ pc' = "closing"
    /\ UNCHANGED <<how, config, child, stage, n, conn, client, closed, mode, failures>>

(* reconnectableClientImpl.Close.                                          *)
CloseClient ==
    /\ closed' = TRUE
    /\ conn' = IF client = 0 THEN conn ELSE [conn EXCEPT ![client] = ClosePacketConn(@)]

(* The end: by the deferred calls (the client's Close, then mimic's), or   *)
(* by Fatal after the explicit Close.  Close waits for a running attempt.  *)
End ==
    /\ pc \in {"closing", "failing"}
    /\ stage = "idle"
    /\ CloseClient
    /\ Exit(IF pc = "closing" THEN "signal" ELSE "mode")
    /\ UNCHANGED <<n, client, mode, failures>>

(* The renewal loop removes its mapping once it is cancelled.              *)
realmPortMapLoop(i) ==
    /\ pc # "exit"
    /\ conn[i].map = "cancelled"
    /\ conn' = [conn EXCEPT ![i].map = "removed"]
    /\ UNCHANGED <<main, stage, n, client, closed, mode, failures>>

Next ==
    \/ Prepare \/ PrepareFails \/ Attempt \/ Config \/ ConfigRefused
    \/ realmListen \/ newRealmPortMapper \/ realmDiscover \/ realmConnect \/ realmPunch
    \/ realmConfigFails \/ verifyAndFill \/ verifyRefused \/ connFactoryNew
    \/ connFactoryFails \/ Dial \/ Connected \/ connectFails \/ Lost \/ runModes
    \/ \E m \in DOMAIN mode : ModeStarts(m) \/ ModeFails(m)
    \/ runnerResult \/ Signal \/ End
    \/ \E i \in 1..MaxAttempts : realmPortMapLoop(i)

(* The two steps that wait for an answer nothing bounds: the rendezvous    *)
(* request (http.DefaultClient, context.Background) and the authentication *)
(* (RoundTrip without a context) of a server that keeps the connection     *)
(* alive and does not answer.                                              *)
Awaiting == stage \in {"request", "auth"}

(* A start or an attempt to connect that is under way goes on, unless it   *)
(* is waiting for such an answer.                                          *)
Progress ==
    /\ ~Awaiting
    /\ \/ Prepare \/ PrepareFails \/ Attempt \/ Config \/ ConfigRefused \/ realmListen
       \/ newRealmPortMapper \/ realmDiscover \/ realmPunch \/ realmConfigFails
       \/ verifyAndFill \/ verifyRefused \/ connFactoryNew \/ connFactoryFails \/ Dial
       \/ connectFails

(* The goroutines run on: the other steps of an attempt end (STUN, punch   *)
(* and handshake have their timeouts), the runner reads its channel, the   *)
(* end is reached.  That a mode fails, a signal comes or a peer answers is *)
(* not promised.                                                           *)
Fairness ==
    /\ WF_vars(Progress)
    /\ WF_vars(runModes)
    /\ WF_vars(runnerResult)
    /\ WF_vars(End)

Spec == Init /\ [][Next]_vars
FairSpec == Spec /\ Fairness

--------------------------------------------------------------------------------
(* Correctness.                                                            *)

(* An attempt that failed, wherever it failed, holds no socket and renews  *)
(* no mapping (realmConfig's deferred closes, the factory, connect) - but  *)
(* for a realm socket whose configuration NewClient refuses.  And a client *)
(* stopped by a signal or by one of its modes has closed the connection it *)
(* had, the one an attempt set up while it was stopping included           *)
(* (runClient's two ends).                                                 *)
NothingHeld ==
    /\ \A i \in 1..n :
           (i < n \/ stage = "idle") /\ ~conn[i].up /\ config.limits = "kept" =>
               conn[i].sock # "open" /\ conn[i].map \notin {"held", "renewed"}
    /\ how \in {"signal", "mode"} /\ client # 0 => conn[client].sock = "closed"

(* One mode that fails takes the whole client down: the others do not go   *)
(* on serving without it (clientModeRunner.Run, "Fatal if any one of the   *)
(* modes fails").  What can hold the end up is Close, which waits for the  *)
(* attempt another mode's call has begun; and it does so for good only if  *)
(* the rendezvous or the server never answers that attempt.                *)
ModeFailureIsFatal ==
    (\E m \in DOMAIN mode : mode[m] = "failed") ~> (pc = "exit" \/ []Awaiting)
=============================================================================
