----------------------------- MODULE ServerAuth -----------------------------
(***************************************************************************)
(* core/server/server.go: how the connections of a server come to be       *)
(* authenticated and are let go (ServeHTTP, ProxyStreamHijacker and        *)
(* handleClient), with the online count of extras/trafficlogger.           *)
(*                                                                         *)
(* Every HTTP request of a connection runs ServeHTTP on a goroutine of its *)
(* own, so authentication requests race each other and the proxied         *)
(* streams; authMutex orders the former only.                              *)
(***************************************************************************)
EXTENDS Integers, FiniteSets

CONSTANTS
  Conn,          \* QUIC connections
  Request,       \* HTTP requests of a connection
  User, NoUser,  \* what Authenticate answers; the authID before it
  Nobody,        \* holder of a free authMutex
  DisableUDP

ServerAuthAssumption ==
  /\ IsFiniteSet(Conn)
  /\ NoUser \notin User
  /\ Nobody \notin Request
  /\ DisableUDP \in BOOLEAN

VARIABLES
  up,            \* the QUIC connection is open
  ended,         \* handleClient has returned
  authMutex,     \* per connection: who holds h.authMutex
  authenticated, authID,
  pc,            \* per connection and request: where ServeHTTP is
  reply,         \* what was answered: "ok", or "masq" like any web server
  managers,      \* UDP session managers started
  streams,       \* the AuthIDs its proxied streams were given
  OnlineMap      \* trafficStatsServerImpl.OnlineMap; 0 for a missing entry

vars == <<up, ended, authMutex, authenticated, authID, pc, reply, managers,
          streams, OnlineMap>>

Init ==
  /\ up = [c \in Conn |-> TRUE]
  /\ ended = [c \in Conn |-> FALSE]
  /\ authMutex = [c \in Conn |-> Nobody]
  /\ authenticated = [c \in Conn |-> FALSE]
  /\ authID = [c \in Conn |-> NoUser]
  /\ pc = [c \in Conn |-> [r \in Request |-> "none"]]
  /\ reply = [c \in Conn |-> [r \in Request |-> "none"]]
  /\ managers = [c \in Conn |-> 0]
  /\ streams = [c \in Conn |-> {}]
  /\ OnlineMap = [u \in User |-> 0]

At(c, r, l) == pc[c][r] = l

Goto(c, r, l) == pc' = [pc EXCEPT ![c][r] = l]

Answer(c, r, a) == reply' = [reply EXCEPT ![c][r] = a]
-----------------------------------------------------------------------------
(***************************************************************************)
(* ServeHTTP.                                                              *)
(***************************************************************************)
AuthRequest(c, r) ==
  /\ up[c]
  /\ At(c, r, "none")
  /\ Goto(c, r, "lock")
  /\ UNCHANGED <<up, ended, authMutex, authenticated, authID, reply, managers, streams, OnlineMap>>

(* Not an authentication request: masqHandler, at once.                    *)
OtherRequest(c, r) ==
  /\ up[c]
  /\ At(c, r, "none")
  /\ Goto(c, r, "done")
  /\ Answer(c, r, "masq")
  /\ UNCHANGED <<up, ended, authMutex, authenticated, authID, managers, streams, OnlineMap>>

MayLock(c) == authMutex[c] = Nobody

(* An authenticated connection is answered yes again, whatever the         *)
(* credentials of this request.                                            *)
Lock(c, r) ==
  /\ At(c, r, "lock")
  /\ MayLock(c)
  /\ IF authenticated[c]
     THEN /\ Goto(c, r, "done")
          /\ Answer(c, r, "ok")
          /\ UNCHANGED authMutex
     ELSE /\ authMutex' = [authMutex EXCEPT ![c] = r]
          /\ Goto(c, r, "auth")
          /\ UNCHANGED reply
  /\ UNCHANGED <<up, ended, authenticated, authID, managers, streams, OnlineMap>>

RefuseLocked(c, r) ==
  /\ At(c, r, "auth")
  /\ Goto(c, r, "done")
  /\ Answer(c, r, "masq")
  /\ UNCHANGED <<up, ended, authMutex, authenticated, authID, managers, streams, OnlineMap>>

Refuse(c, r) ==
  /\ At(c, r, "auth")
  /\ authMutex' = [authMutex EXCEPT ![c] = Nobody]
  /\ Goto(c, r, "done")
  /\ Answer(c, r, "masq")
  /\ UNCHANGED <<up, ended, authenticated, authID, managers, streams, OnlineMap>>

(* The flag is set before the identity; the streams read both without the  *)
(* mutex.                                                                  *)
SetAuthenticated(c, r) ==
  /\ At(c, r, "auth")
  /\ authenticated' = [authenticated EXCEPT ![c] = TRUE]
  /\ Goto(c, r, "id")
  /\ UNCHANGED <<up, ended, authMutex, authID, reply, managers, streams, OnlineMap>>

SetAuthID(c, r, u) ==
  /\ At(c, r, "id")
  /\ authID' = [authID EXCEPT ![c] = u]
  /\ Goto(c, r, "reply")
  /\ UNCHANGED <<up, ended, authMutex, authenticated, reply, managers, streams, OnlineMap>>

(* The congestion controller goes in, and the response out.                *)
WriteAuthOK(c, r) ==
  /\ At(c, r, "reply")
  /\ Answer(c, r, "ok")
  /\ Goto(c, r, "online")
  /\ UNCHANGED <<up, ended, authMutex, authenticated, authID, managers, streams, OnlineMap>>

LogOnline(c, r) ==
  /\ At(c, r, "online")
  /\ OnlineMap' = [OnlineMap EXCEPT ![authID[c]] = @ + 1]
  /\ Goto(c, r, "udp")
  /\ UNCHANGED <<up, ended, authMutex, authenticated, authID, reply, managers, streams>>

StartUDP(c, r) ==
  /\ At(c, r, "udp")
  /\ managers' = IF DisableUDP THEN managers ELSE [managers EXCEPT ![c] = @ + 1]
  /\ authMutex' = [authMutex EXCEPT ![c] = Nobody]
  /\ Goto(c, r, "done")
  /\ UNCHANGED <<up, ended, authenticated, authID, reply, streams, OnlineMap>>
-----------------------------------------------------------------------------
(***************************************************************************)
(* The client waits for its answer before it opens a stream.               *)
(***************************************************************************)
ClientIsTold(c) == \E r \in Request : reply[c][r] = "ok"

(* ProxyStreamHijacker, and what handleTCPRequest first reads.             *)
ProxyStream(c) ==
  /\ up[c]
  /\ ClientIsTold(c)
  /\ authenticated[c]
  /\ streams' = [streams EXCEPT ![c] = @ \cup {authID[c]}]
  /\ UNCHANGED <<up, ended, authMutex, authenticated, authID, pc, reply, managers, OnlineMap>>

ConnectionDies(c) ==
  /\ up[c]
  /\ up' = [up EXCEPT ![c] = FALSE]
  /\ UNCHANGED <<ended, authMutex, authenticated, authID, pc, reply, managers, streams, OnlineMap>>

(* ServeQUICConn returns once the connection is closed and every request   *)
(* it started has been handled.                                            *)
Joined(c) == \A r \in Request : pc[c][r] \in {"none", "done"}

OfflineAll(n) == 0

Offline(n) == IF n - 1 <= 0 THEN 0 ELSE n - 1

(* The end of handleClient.                                                *)
Disconnect(c) ==
  /\ ~up[c]
  /\ ~ended[c]
  /\ Joined(c)
  /\ ended' = [ended EXCEPT ![c] = TRUE]
  /\ OnlineMap' = IF authenticated[c]
                  THEN [OnlineMap EXCEPT ![authID[c]] = Offline(@)]
                  ELSE OnlineMap
  /\ UNCHANGED <<up, authMutex, authenticated, authID, pc, reply, managers, streams>>

ServeHTTP(c, r) ==
  \/ Lock(c, r)
  \/ Refuse(c, r)
  \/ SetAuthenticated(c, r)
  \/ \E u \in User : SetAuthID(c, r, u)
  \/ WriteAuthOK(c, r)
  \/ LogOnline(c, r)
  \/ StartUDP(c, r)

Next ==
  \E c \in Conn :
    \/ \E r \in Request : AuthRequest(c, r) \/ OtherRequest(c, r) \/ ServeHTTP(c, r)
    \/ ProxyStream(c)
    \/ ConnectionDies(c)
    \/ Disconnect(c)

Spec == Init /\ [][Next]_vars

(* Handlers run to their end.                                              *)
Fairness ==
  \A c \in Conn :
    /\ WF_vars(Disconnect(c))
    /\ \A r \in Request : WF_vars(ServeHTTP(c, r))

FairSpec == Spec /\ Fairness
-----------------------------------------------------------------------------
(***************************************************************************)
(* The online count is exact: for every user, the number of connections    *)
(* announced online and not yet announced offline, whatever the order in   *)
(* which the user's connections come, authenticate twice, and go.          *)
(***************************************************************************)
Announced(c) ==
  /\ authenticated[c]
  /\ ~ended[c]
  /\ \A r \in Request : pc[c][r] \notin {"id", "reply", "online"}

OnlineExact ==
  \A u \in User :
    OnlineMap[u] = Cardinality({c \in Conn : Announced(c) /\ authID[c] = u})

(***************************************************************************)
(* "Only one goroutine is started, as ServeHTTP may be called by multiple  *)
(* goroutines simultaneously": a connection has at most one UDP session    *)
(* manager, and it has one when UDP is on and its client has been told     *)
(* and all its requests are handled.                                       *)
(***************************************************************************)
OneManager ==
  \A c \in Conn :
    /\ managers[c] <= 1
    /\ Joined(c) /\ ClientIsTold(c) /\ ~DisableUDP => managers[c] = 1

(***************************************************************************)
(* All streams of a connection are proxied in the name of one user, the    *)
(* one it was authenticated for: a client that waits for its answer never  *)
(* has one handled before authID is there to be read, though the reader    *)
(* does not take the mutex, and later authentication requests, with other  *)
(* credentials, change nothing.                                            *)
(***************************************************************************)
StreamsKnowUser ==
  \A c \in Conn : streams[c] \subseteq {authID[c]} \ {NoUser}

(***************************************************************************)
(* A connection that ends is accounted for: its handler returns, and the   *)
(* user is not online for good.                                            *)
(***************************************************************************)
GoneGoesOffline == \A c \in Conn : ~up[c] ~> ended[c]
=============================================================================
