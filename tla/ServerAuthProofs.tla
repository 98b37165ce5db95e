-------------------------- MODULE ServerAuthProofs --------------------------
(***************************************************************************)
(* Proofs about ServerAuth, for every number of connections, requests and  *)
(* users.                                                                  *)
(***************************************************************************)
EXTENDS ServerAuth, FiniteSetTheorems, TLAPS

(* Where ServeHTTP holds authMutex, and where the connection is already    *)
(* marked authenticated.                                                   *)
Locked == {"auth", "id", "reply", "online", "udp"}

Marked == {"id", "reply", "online", "udp"}

TypeOK ==
  /\ up \in [Conn -> BOOLEAN]
  /\ ended \in [Conn -> BOOLEAN]
  /\ authMutex \in [Conn -> Request \cup {Nobody}]
  /\ authenticated \in [Conn -> BOOLEAN]
  /\ authID \in [Conn -> User \cup {NoUser}]
  /\ pc \in [Conn -> [Request -> Locked \cup {"none", "lock", "done"}]]
  /\ reply \in [Conn -> [Request -> {"none", "ok", "masq"}]]
  /\ managers \in [Conn -> Nat]
  /\ streams \in [Conn -> SUBSET (User \cup {NoUser})]
  /\ OnlineMap \in [User -> Nat]

(* authMutex: one request of a connection at a time, and only one is ever  *)
(* past the check of the flag.                                             *)
OneAtATime ==
  \A c \in Conn : \A r \in Request :
    /\ pc[c][r] \in Locked <=> authMutex[c] = r
    /\ pc[c][r] = "auth" => ~authenticated[c]
    /\ pc[c][r] \in Marked => authenticated[c]

(* The identity follows the flag: only the request that set the flag may   *)
(* see it missing.                                                         *)
IdentityKnown ==
  \A c \in Conn :
    authenticated[c] /\ (\A r \in Request : pc[c][r] # "id") => authID[c] \in User

(* By the time a client is told yes, and while it has streams, its         *)
(* identity does not change any more.                                      *)
Settled(c) ==
  authenticated[c] /\ \A r \in Request : pc[c][r] \notin {"auth", "id", "reply"}

ToldIsSettled == \A c \in Conn : ClientIsTold(c) \/ streams[c] # {} => Settled(c)

ManagersCounted ==
  \A c \in Conn :
    managers[c] = IF /\ ~DisableUDP /\ authenticated[c]
                     /\ \A r \in Request : pc[c][r] \notin Marked
                  THEN 1 ELSE 0

EndedIsJoined == \A c \in Conn : ended[c] => ~up[c] /\ Joined(c)

IInv ==
  /\ TypeOK
  /\ OneAtATime
  /\ IdentityKnown
  /\ ToldIsSettled
  /\ ManagersCounted
  /\ EndedIsJoined
  /\ StreamsKnowUser

CountInv == IInv /\ OnlineExact
-----------------------------------------------------------------------------
(* No connection has asked for anything, and nobody is online.             *)
LEMMA InitHolds ==
  ASSUME ServerAuthAssumption, Init
  PROVE  CountInv
<1> USE DEF ServerAuthAssumption, Init
<1>1. TypeOK
  <2>1. /\ up \in [Conn -> BOOLEAN] /\ ended \in [Conn -> BOOLEAN]
        /\ authenticated \in [Conn -> BOOLEAN]
    BY Zenon
  <2> QED
    BY <2>1 DEF TypeOK, Locked
<1>2. OneAtATime /\ IdentityKnown /\ ToldIsSettled /\ ManagersCounted /\ EndedIsJoined
  BY DEF OneAtATime, IdentityKnown, ToldIsSettled, ManagersCounted, EndedIsJoined, Locked,
         Marked, ClientIsTold
<1>3. StreamsKnowUser
  BY DEF StreamsKnowUser
<1>4. OnlineExact
  <2>1. \A u \in User : {c \in Conn : Announced(c) /\ authID[c] = u} = {}
    BY DEF Announced
  <2> QED
    BY <2>1, FS_EmptySet DEF OnlineExact
<1> QED
  BY <1>1, <1>2, <1>3, <1>4 DEF CountInv, IInv

(* A step of one request keeps what authMutex protects.                    *)
LEMMA RequestHolds ==
  ASSUME ServerAuthAssumption, IInv, NEW c \in Conn, NEW r \in Request,
         AuthRequest(c, r) \/ OtherRequest(c, r) \/ ServeHTTP(c, r)
  PROVE  IInv'
<1> USE DEF ServerAuthAssumption, IInv, At, Goto, Answer
<1>1. CASE AuthRequest(c, r)
  <2>1. TypeOK'
    BY <1>1 DEF AuthRequest, TypeOK, Locked, Marked
  <2>2. OneAtATime'
    BY <1>1 DEF AuthRequest, TypeOK, Locked, Marked, OneAtATime
  <2>3. IdentityKnown'
    BY <1>1 DEF AuthRequest, TypeOK, Locked, Marked, OneAtATime, IdentityKnown
  <2>4. ToldIsSettled'
    BY <1>1 DEF AuthRequest, TypeOK, Locked, Marked, ToldIsSettled, Settled, ClientIsTold,
        OneAtATime
  <2>5. ManagersCounted'
    BY <1>1 DEF AuthRequest, TypeOK, Locked, Marked, ManagersCounted, OneAtATime
  <2>6. EndedIsJoined'
    BY <1>1 DEF AuthRequest, TypeOK, Locked, Marked, EndedIsJoined, Joined, OneAtATime
  <2>7. StreamsKnowUser'
    BY <1>1 DEF AuthRequest, TypeOK, Locked, Marked, StreamsKnowUser, ToldIsSettled,
        Settled, ClientIsTold, IdentityKnown, OneAtATime
  <2> QED
    BY <2>1, <2>2, <2>3, <2>4, <2>5, <2>6, <2>7
<1>2. CASE OtherRequest(c, r)
  <2>1. TypeOK'
    BY <1>2 DEF OtherRequest, TypeOK, Locked, Marked
  <2>2. OneAtATime'
    BY <1>2 DEF OtherRequest, TypeOK, Locked, Marked, OneAtATime
  <2>3. IdentityKnown'
    BY <1>2 DEF OtherRequest, TypeOK, Locked, Marked, OneAtATime, IdentityKnown
  <2>4. ToldIsSettled'
    BY <1>2 DEF OtherRequest, TypeOK, Locked, Marked, ToldIsSettled, Settled,
        ClientIsTold, OneAtATime
  <2>5. ManagersCounted'
    BY <1>2 DEF OtherRequest, TypeOK, Locked, Marked, ManagersCounted, OneAtATime
  <2>6. EndedIsJoined'
    BY <1>2 DEF OtherRequest, TypeOK, Locked, Marked, EndedIsJoined, Joined, OneAtATime
  <2>7. StreamsKnowUser'
    BY <1>2 DEF OtherRequest, TypeOK, Locked, Marked, StreamsKnowUser, ToldIsSettled,
        Settled, ClientIsTold, IdentityKnown, OneAtATime
  <2> QED
    BY <2>1, <2>2, <2>3, <2>4, <2>5, <2>6, <2>7
<1>3. CASE Lock(c, r) /\ authenticated[c]
  <2>0. /\ pc[c][r] = "lock" /\ authMutex[c] = Nobody
        /\ pc' = [pc EXCEPT ![c][r] = "done"] /\ reply' = [reply EXCEPT ![c][r] = "ok"]
        /\ authMutex' = authMutex
        /\ UNCHANGED <<up, ended, authenticated, authID, managers, streams, OnlineMap>>
    BY <1>3, Zenon DEF Lock, MayLock
  <2>1. TypeOK'
    BY <1>3, <2>0 DEF TypeOK, Locked, Marked
  <2>2. OneAtATime'
    BY <1>3, <2>0 DEF TypeOK, Locked, Marked, OneAtATime
  <2>3. IdentityKnown'
    BY <1>3, <2>0 DEF TypeOK, Locked, Marked, OneAtATime, IdentityKnown
  <2>4. ToldIsSettled'
    BY <1>3, <2>0 DEF TypeOK, Locked, Marked, ToldIsSettled, Settled, ClientIsTold,
        OneAtATime
  <2>5. ManagersCounted'
    BY <1>3, <2>0 DEF TypeOK, Locked, Marked, ManagersCounted, OneAtATime
  <2>6. EndedIsJoined'
    BY <1>3, <2>0 DEF TypeOK, Locked, Marked, EndedIsJoined, Joined, OneAtATime
  <2>7. StreamsKnowUser'
    BY <1>3, <2>0 DEF TypeOK, Locked, Marked, StreamsKnowUser, ToldIsSettled, Settled,
        ClientIsTold, IdentityKnown, OneAtATime
  <2> QED
    BY <2>1, <2>2, <2>3, <2>4, <2>5, <2>6, <2>7
<1>4. CASE Lock(c, r) /\ ~authenticated[c]
  <2>0. /\ pc[c][r] = "lock" /\ authMutex[c] = Nobody
        /\ pc' = [pc EXCEPT ![c][r] = "auth"] /\ reply' = reply
        /\ authMutex' = [authMutex EXCEPT ![c] = r]
        /\ UNCHANGED <<up, ended, authenticated, authID, managers, streams, OnlineMap>>
    BY <1>4, Zenon DEF Lock, MayLock
  <2>1. TypeOK'
    BY <1>4, <2>0 DEF TypeOK, Locked, Marked
  <2>2. OneAtATime'
    BY <1>4, <2>0 DEF TypeOK, Locked, Marked, OneAtATime
  <2>3. IdentityKnown'
    BY <1>4, <2>0 DEF TypeOK, Locked, Marked, OneAtATime, IdentityKnown
  <2>4. ToldIsSettled'
    BY <1>4, <2>0 DEF TypeOK, Locked, Marked, ToldIsSettled, Settled, ClientIsTold,
        OneAtATime
  <2>5. ManagersCounted'
    BY <1>4, <2>0 DEF TypeOK, Locked, Marked, ManagersCounted, OneAtATime
  <2>6. EndedIsJoined'
    BY <1>4, <2>0 DEF TypeOK, Locked, Marked, EndedIsJoined, Joined, OneAtATime
  <2>7. StreamsKnowUser'
    BY <1>4, <2>0 DEF TypeOK, Locked, Marked, StreamsKnowUser, ToldIsSettled, Settled,
        ClientIsTold, IdentityKnown, OneAtATime
  <2> QED
    BY <2>1, <2>2, <2>3, <2>4, <2>5, <2>6, <2>7
<1>5. CASE Refuse(c, r)
  <2>1. TypeOK'
    BY <1>5 DEF Refuse, TypeOK, Locked, Marked
  <2>2. OneAtATime'
    BY <1>5 DEF Refuse, TypeOK, Locked, Marked, OneAtATime
  <2>3. IdentityKnown'
    BY <1>5 DEF Refuse, TypeOK, Locked, Marked, OneAtATime, IdentityKnown
  <2>4. ToldIsSettled'
    BY <1>5 DEF Refuse, TypeOK, Locked, Marked, ToldIsSettled, Settled, ClientIsTold,
        OneAtATime
  <2>5. ManagersCounted'
    BY <1>5 DEF Refuse, TypeOK, Locked, Marked, ManagersCounted, OneAtATime
  <2>6. EndedIsJoined'
    BY <1>5 DEF Refuse, TypeOK, Locked, Marked, EndedIsJoined, Joined, OneAtATime
  <2>7. StreamsKnowUser'
    BY <1>5 DEF Refuse, TypeOK, Locked, Marked, StreamsKnowUser, ToldIsSettled, Settled,
        ClientIsTold, IdentityKnown, OneAtATime
  <2> QED
    BY <2>1, <2>2, <2>3, <2>4, <2>5, <2>6, <2>7
<1>6. CASE SetAuthenticated(c, r)
  <2>1. TypeOK'
    BY <1>6 DEF SetAuthenticated, TypeOK, Locked, Marked
  <2>2. OneAtATime'
    BY <1>6 DEF SetAuthenticated, TypeOK, Locked, Marked, OneAtATime
  <2>3. IdentityKnown'
    BY <1>6 DEF SetAuthenticated, TypeOK, Locked, Marked, OneAtATime, IdentityKnown
  <2>4. ToldIsSettled'
    BY <1>6 DEF SetAuthenticated, TypeOK, Locked, Marked, ToldIsSettled, Settled,
        ClientIsTold, OneAtATime
  <2>5. ManagersCounted'
    BY <1>6 DEF SetAuthenticated, TypeOK, Locked, Marked, ManagersCounted, OneAtATime
  <2>6. EndedIsJoined'
    BY <1>6 DEF SetAuthenticated, TypeOK, Locked, Marked, EndedIsJoined, Joined,
        OneAtATime
  <2>7. StreamsKnowUser'
    BY <1>6 DEF SetAuthenticated, TypeOK, Locked, Marked, StreamsKnowUser, ToldIsSettled,
        Settled, ClientIsTold, IdentityKnown, OneAtATime
  <2> QED
    BY <2>1, <2>2, <2>3, <2>4, <2>5, <2>6, <2>7
<1>7. ASSUME NEW u \in User, SetAuthID(c, r, u)
      PROVE  IInv'
  <2>1. TypeOK'
    BY <1>7 DEF SetAuthID, TypeOK, Locked, Marked
  <2>2. OneAtATime'
    BY <1>7 DEF SetAuthID, TypeOK, Locked, Marked, OneAtATime
  <2>3. IdentityKnown'
    BY <1>7 DEF SetAuthID, TypeOK, Locked, Marked, OneAtATime, IdentityKnown
  <2>4. ToldIsSettled'
    BY <1>7 DEF SetAuthID, TypeOK, Locked, Marked, ToldIsSettled, Settled, ClientIsTold,
        OneAtATime
  <2>5. ManagersCounted'
    BY <1>7 DEF SetAuthID, TypeOK, Locked, Marked, ManagersCounted, OneAtATime
  <2>6. EndedIsJoined'
    BY <1>7 DEF SetAuthID, TypeOK, Locked, Marked, EndedIsJoined, Joined, OneAtATime
  <2>7. StreamsKnowUser'
    <3>1. streams' = streams /\ streams[c] = {}
      BY <1>7 DEF SetAuthID, ToldIsSettled, Settled
    <3>2. \A d \in Conn : d # c => authID'[d] = authID[d]
      BY <1>7 DEF SetAuthID, TypeOK
    <3> QED
      BY <3>1, <3>2 DEF StreamsKnowUser
  <2> QED
    BY <2>1, <2>2, <2>3, <2>4, <2>5, <2>6, <2>7
<1>8. CASE WriteAuthOK(c, r)
  <2>1. TypeOK'
    BY <1>8 DEF WriteAuthOK, TypeOK, Locked, Marked
  <2>2. OneAtATime'
    BY <1>8 DEF WriteAuthOK, TypeOK, Locked, Marked, OneAtATime
  <2>3. IdentityKnown'
    BY <1>8 DEF WriteAuthOK, TypeOK, Locked, Marked, OneAtATime, IdentityKnown
  <2>4. ToldIsSettled'
    BY <1>8 DEF WriteAuthOK, TypeOK, Locked, Marked, ToldIsSettled, Settled, ClientIsTold,
        OneAtATime
  <2>5. ManagersCounted'
    BY <1>8 DEF WriteAuthOK, TypeOK, Locked, Marked, ManagersCounted, OneAtATime
  <2>6. EndedIsJoined'
    BY <1>8 DEF WriteAuthOK, TypeOK, Locked, Marked, EndedIsJoined, Joined, OneAtATime
  <2>7. StreamsKnowUser'
    BY <1>8 DEF WriteAuthOK, TypeOK, Locked, Marked, StreamsKnowUser, ToldIsSettled,
        Settled, ClientIsTold, IdentityKnown, OneAtATime
  <2> QED
    BY <2>1, <2>2, <2>3, <2>4, <2>5, <2>6, <2>7
<1>9. CASE LogOnline(c, r)
  <2>1. TypeOK'
    <3>1. authID[c] \in User
      BY <1>9 DEF LogOnline, OneAtATime, IdentityKnown, Locked, Marked
    <3>2. OnlineMap' \in [User -> Nat]
      BY <1>9, <3>1 DEF LogOnline, TypeOK
    <3> QED
      BY <1>9, <3>2 DEF LogOnline, TypeOK, Locked
  <2>2. OneAtATime'
    BY <1>9 DEF LogOnline, TypeOK, Locked, Marked, OneAtATime
  <2>3. IdentityKnown'
    BY <1>9 DEF LogOnline, TypeOK, Locked, Marked, OneAtATime, IdentityKnown
  <2>4. ToldIsSettled'
    BY <1>9 DEF LogOnline, TypeOK, Locked, Marked, ToldIsSettled, Settled, ClientIsTold,
        OneAtATime
  <2>5. ManagersCounted'
    BY <1>9 DEF LogOnline, TypeOK, Locked, Marked, ManagersCounted, OneAtATime
  <2>6. EndedIsJoined'
    BY <1>9 DEF LogOnline, TypeOK, Locked, Marked, EndedIsJoined, Joined, OneAtATime
  <2>7. StreamsKnowUser'
    BY <1>9 DEF LogOnline, TypeOK, Locked, Marked, StreamsKnowUser, ToldIsSettled,
        Settled, ClientIsTold, IdentityKnown, OneAtATime
  <2> QED
    BY <2>1, <2>2, <2>3, <2>4, <2>5, <2>6, <2>7
<1>10. CASE StartUDP(c, r)
  <2>1. TypeOK'
    BY <1>10 DEF StartUDP, TypeOK, Locked, Marked
  <2>2. OneAtATime'
    BY <1>10 DEF StartUDP, TypeOK, Locked, Marked, OneAtATime
  <2>3. IdentityKnown'
    BY <1>10 DEF StartUDP, TypeOK, Locked, Marked, OneAtATime, IdentityKnown
  <2>4. ToldIsSettled'
    BY <1>10 DEF StartUDP, TypeOK, Locked, Marked, ToldIsSettled, Settled, ClientIsTold,
        OneAtATime
  <2>5. ManagersCounted'
    BY <1>10 DEF StartUDP, TypeOK, Locked, Marked, ManagersCounted, OneAtATime
  <2>6. EndedIsJoined'
    BY <1>10 DEF StartUDP, TypeOK, Locked, Marked, EndedIsJoined, Joined, OneAtATime
  <2>7. StreamsKnowUser'
    BY <1>10 DEF StartUDP, TypeOK, Locked, Marked, StreamsKnowUser, ToldIsSettled,
        Settled, ClientIsTold, IdentityKnown, OneAtATime
  <2> QED
    BY <2>1, <2>2, <2>3, <2>4, <2>5, <2>6, <2>7
<1> QED
  BY <1>1, <1>2, <1>3, <1>4, <1>5, <1>6, <1>7, <1>8, <1>9, <1>10 DEF ServeHTTP

(* So does what happens to the connection.                                 *)
LEMMA ConnectionHolds ==
  ASSUME ServerAuthAssumption, IInv, NEW c \in Conn,
         ProxyStream(c) \/ ConnectionDies(c) \/ Disconnect(c)
  PROVE  IInv'
<1> USE DEF ServerAuthAssumption, IInv
<1>1. CASE ProxyStream(c)
  <2>1. TypeOK'
    BY <1>1 DEF ProxyStream, TypeOK, Locked, Marked
  <2>2. OneAtATime'
    BY <1>1 DEF ProxyStream, TypeOK, Locked, Marked, OneAtATime
  <2>3. IdentityKnown'
    BY <1>1 DEF ProxyStream, TypeOK, Locked, Marked, OneAtATime, IdentityKnown
  <2>4. ToldIsSettled'
    <3>1. Settled(c) /\ \A d \in Conn : Settled(d)' = Settled(d)
      BY <1>1 DEF ProxyStream, ToldIsSettled, Settled
    <3>2. \A d \in Conn : /\ ClientIsTold(d)' = ClientIsTold(d)
                          /\ d # c => streams'[d] = streams[d]
      BY <1>1 DEF ProxyStream, ClientIsTold, TypeOK
    <3> QED
      BY <3>1, <3>2 DEF ToldIsSettled
  <2>5. ManagersCounted'
    BY <1>1 DEF ProxyStream, TypeOK, Locked, Marked, ManagersCounted, OneAtATime
  <2>6. EndedIsJoined'
    BY <1>1 DEF ProxyStream, TypeOK, Locked, Marked, EndedIsJoined, Joined, OneAtATime
  <2>7. StreamsKnowUser'
    <3>1. authID[c] \in User
      BY <1>1 DEF ProxyStream, ToldIsSettled, Settled, IdentityKnown
    <3>2. authID[c] # NoUser
      BY <3>1
    <3>3. /\ streams'[c] = streams[c] \cup {authID[c]}
          /\ \A d \in Conn : d # c => streams'[d] = streams[d]
          /\ authID' = authID
      BY <1>1 DEF ProxyStream, TypeOK
    <3> QED
      BY <3>2, <3>3 DEF StreamsKnowUser
  <2> QED
    BY <2>1, <2>2, <2>3, <2>4, <2>5, <2>6, <2>7
<1>2. CASE ConnectionDies(c)
  <2>1. TypeOK'
    BY <1>2 DEF ConnectionDies, TypeOK, Locked, Marked
  <2>2. OneAtATime'
    BY <1>2 DEF ConnectionDies, TypeOK, Locked, Marked, OneAtATime
  <2>3. IdentityKnown'
    BY <1>2 DEF ConnectionDies, TypeOK, Locked, Marked, OneAtATime, IdentityKnown
  <2>4. ToldIsSettled'
    BY <1>2 DEF ConnectionDies, TypeOK, Locked, Marked, ToldIsSettled, Settled,
        ClientIsTold, OneAtATime
  <2>5. ManagersCounted'
    BY <1>2 DEF ConnectionDies, TypeOK, Locked, Marked, ManagersCounted, OneAtATime
  <2>6. EndedIsJoined'
    BY <1>2 DEF ConnectionDies, TypeOK, Locked, Marked, EndedIsJoined, Joined, OneAtATime
  <2>7. StreamsKnowUser'
    BY <1>2 DEF ConnectionDies, TypeOK, Locked, Marked, StreamsKnowUser, ToldIsSettled,
        Settled, ClientIsTold, IdentityKnown, OneAtATime
  <2> QED
    BY <2>1, <2>2, <2>3, <2>4, <2>5, <2>6, <2>7
<1>3. CASE Disconnect(c)
  <2>1. TypeOK'
    <3>1. \A n \in Nat : Offline(n) \in Nat
      BY DEF Offline
    <3>2. OnlineMap' \in [User -> Nat]
      <4>1. CASE authenticated[c]
        <5>1. OnlineMap' = [OnlineMap EXCEPT ![authID[c]] = Offline(@)]
          BY <1>3, <4>1, Zenon DEF Disconnect
        <5> QED
          BY <3>1, <5>1 DEF TypeOK
      <4>2. CASE ~authenticated[c]
        <5>1. OnlineMap' = OnlineMap
          BY <1>3, <4>2, Zenon DEF Disconnect
        <5> QED
          BY <5>1 DEF TypeOK
      <4> QED
        BY <4>1, <4>2
    <3>3. ended' \in [Conn -> BOOLEAN]
      BY <1>3 DEF Disconnect, TypeOK
    <3> QED
      BY <1>3, <3>2, <3>3 DEF Disconnect, TypeOK
  <2>2. OneAtATime'
    BY <1>3 DEF Disconnect, Offline, TypeOK, Locked, Marked, OneAtATime
  <2>3. IdentityKnown'
    BY <1>3 DEF Disconnect, Offline, TypeOK, Locked, Marked, OneAtATime, IdentityKnown
  <2>4. ToldIsSettled'
    BY <1>3 DEF Disconnect, Offline, TypeOK, Locked, Marked, ToldIsSettled, Settled,
        ClientIsTold, OneAtATime
  <2>5. ManagersCounted'
    BY <1>3 DEF Disconnect, Offline, TypeOK, Locked, Marked, ManagersCounted, OneAtATime
  <2>6. EndedIsJoined'
    BY <1>3 DEF Disconnect, Offline, TypeOK, Locked, Marked, EndedIsJoined, Joined,
        OneAtATime
  <2>7. StreamsKnowUser'
    BY <1>3 DEF Disconnect, Offline, TypeOK, Locked, Marked, StreamsKnowUser,
        ToldIsSettled, Settled, ClientIsTold, IdentityKnown, OneAtATime
  <2> QED
    BY <2>1, <2>2, <2>3, <2>4, <2>5, <2>6, <2>7
<1> QED
  BY <1>1, <1>2, <1>3

(* The connections a user is online with, as the statistics ought to count *)
(* them.                                                                   *)
OnlineWith(u) == {c \in Conn : Announced(c) /\ authID[c] = u}

(* They can be counted.                                                    *)
LEMMA OnlineFinite ==
  ASSUME ServerAuthAssumption, NEW u
  PROVE  IsFiniteSet(OnlineWith(u)) /\ Cardinality(OnlineWith(u)) \in Nat
BY FS_Subset, FS_CardinalityType DEF ServerAuthAssumption, OnlineWith

(* LogOnline counts a connection no user was online with.                  *)
LEMMA LogOnlineCounts ==
  ASSUME ServerAuthAssumption, IInv, OnlineExact, NEW c \in Conn, NEW r \in Request,
         LogOnline(c, r)
  PROVE  OnlineExact'
<1> USE DEF ServerAuthAssumption, IInv
<1> DEFINE u == authID[c]
<1>1. /\ pc[c][r] = "online" /\ authenticated[c] /\ u \in User /\ ~ended[c]
      /\ \A q \in Request : q # r => pc[c][q] \notin Locked
  <2>1. pc[c][r] = "online" /\ authMutex[c] = r /\ authenticated[c]
    BY DEF LogOnline, At, OneAtATime, Locked, Marked
  <2>2. \A q \in Request : q # r => pc[c][q] \notin Locked
    BY <2>1 DEF OneAtATime
  <2>3. u \in User
    BY <2>1, <2>2 DEF IdentityKnown, Locked
  <2>4. ~ended[c]
    BY <2>1 DEF EndedIsJoined, Joined
  <2> QED
    BY <2>1, <2>2, <2>3, <2>4
<1>2. /\ \A q \in Request : pc'[c][q] = IF q = r THEN "udp" ELSE pc[c][q]
      /\ \A d \in Conn : d # c => pc'[d] = pc[d]
      /\ authenticated' = authenticated /\ authID' = authID /\ ended' = ended
  BY DEF LogOnline, Goto, TypeOK
<1>3. ~Announced(c) /\ Announced(c)' /\ \A d \in Conn : d # c => Announced(d)' = Announced(d)
  BY <1>1, <1>2 DEF Announced, Locked
<1>4. ASSUME NEW v \in User
      PROVE  OnlineMap'[v] = Cardinality(OnlineWith(v)')
  <2> USE OnlineFinite
  <2>1. OnlineMap[v] = Cardinality(OnlineWith(v)) /\ OnlineMap \in [User -> Nat]
    BY DEF OnlineExact, OnlineWith, TypeOK
  <2>2. CASE v = u
    <3>1. OnlineWith(v)' = OnlineWith(v) \cup {c} /\ c \notin OnlineWith(v)
      BY <1>2, <1>3, <2>2 DEF OnlineWith
    <3>2. Cardinality(OnlineWith(v)') = Cardinality(OnlineWith(v)) + 1
      BY <3>1, FS_AddElement
    <3> QED
      BY <1>1, <2>1, <2>2, <3>2 DEF LogOnline
  <2>3. CASE v # u
    <3>1. OnlineWith(v)' = OnlineWith(v)
      BY <1>2, <1>3, <2>3 DEF OnlineWith
    <3> QED
      BY <2>1, <2>3, <3>1 DEF LogOnline
  <2> QED
    BY <2>2, <2>3
<1> QED
  BY <1>4 DEF OnlineExact, OnlineWith

(* handleClient takes back, at its end, exactly what was counted.          *)
LEMMA DisconnectCounts ==
  ASSUME ServerAuthAssumption, IInv, OnlineExact, NEW c \in Conn, Disconnect(c)
  PROVE  OnlineExact'
<1> USE DEF ServerAuthAssumption, IInv
<1> DEFINE u == authID[c]
<1>1. /\ \A d \in Conn : d # c => Announced(d)' = Announced(d)
      /\ ~Announced(c)' /\ authID' = authID
      /\ Announced(c) <=> authenticated[c]
  BY DEF Disconnect, Joined, Announced, TypeOK
<1>2. authenticated[c] => u \in User
  BY DEF Disconnect, Joined, IdentityKnown
<1>3. ASSUME NEW v \in User
      PROVE  OnlineMap'[v] = Cardinality(OnlineWith(v)')
  <2> USE OnlineFinite
  <2>1. OnlineMap[v] = Cardinality(OnlineWith(v)) /\ OnlineMap \in [User -> Nat]
    BY DEF OnlineExact, OnlineWith, TypeOK
  <2>2. CASE authenticated[c] /\ v = u
    <3>1. OnlineWith(v)' = OnlineWith(v) \ {c} /\ c \in OnlineWith(v)
      BY <1>1, <2>2 DEF OnlineWith
    <3>2. Cardinality(OnlineWith(v)') = Cardinality(OnlineWith(v)) - 1
      BY <3>1, FS_RemoveElement
    <3>3. Cardinality(OnlineWith(v)) # 0
      BY <3>1, FS_EmptySet
    <3>4. OnlineMap'[v] = Offline(OnlineMap[v])
      BY <2>1, <2>2, <1>2 DEF Disconnect
    <3> QED
      BY <2>1, <3>2, <3>3, <3>4 DEF Offline
  <2>3. CASE ~(authenticated[c] /\ v = u)
    <3>1. OnlineWith(v)' = OnlineWith(v)
      BY <1>1, <2>3 DEF OnlineWith
    <3>2. OnlineMap'[v] = OnlineMap[v]
      BY <2>1, <2>3 DEF Disconnect
    <3> QED
      BY <2>1, <3>1, <3>2
  <2> QED
    BY <2>2, <2>3
<1> QED
  BY <1>3 DEF OnlineExact, OnlineWith

(* No other step changes the count, or who is online.                      *)
LEMMA OthersKeepCount ==
  ASSUME ServerAuthAssumption, IInv, OnlineExact, Next,
         ~\E c \in Conn : Disconnect(c) \/ \E r \in Request : LogOnline(c, r)
  PROVE  OnlineExact'
<1> USE DEF ServerAuthAssumption, IInv
<1>1. OnlineMap' = OnlineMap /\ ended' = ended
  BY DEF Next, ServeHTTP, AuthRequest, OtherRequest, Lock, Refuse, SetAuthenticated,
         SetAuthID, WriteAuthOK, StartUDP, ProxyStream, ConnectionDies
<1>2. ASSUME NEW c \in Conn
      PROVE  /\ Announced(c)' = Announced(c)
             /\ Announced(c) => authID'[c] = authID[c]
  <2> PICK d \in Conn : \/ \E r \in Request : AuthRequest(d, r) \/ OtherRequest(d, r) \/ ServeHTTP(d, r)
                       \/ ProxyStream(d)
                       \/ ConnectionDies(d)
    BY DEF Next
  <2>1. CASE d # c \/ ProxyStream(d) \/ ConnectionDies(d)
    <3>1. pc'[c] = pc[c] /\ authenticated'[c] = authenticated[c] /\ authID'[c] = authID[c]
      BY <2>1
      DEF Next, ServeHTTP, AuthRequest, OtherRequest, Lock, Refuse, SetAuthenticated, SetAuthID,
          WriteAuthOK, LogOnline, StartUDP, ProxyStream, ConnectionDies, Goto, TypeOK
    <3> QED
      BY <1>1, <3>1 DEF Announced
  <2>2. ASSUME d = c, NEW r \in Request,
               AuthRequest(c, r) \/ OtherRequest(c, r) \/ ServeHTTP(c, r)
        PROVE  /\ Announced(c)' = Announced(c)
               /\ Announced(c) => authID'[c] = authID[c]
    <3> USE DEF Announced, Goto, At, TypeOK, OneAtATime, Locked, Marked
    <3>1. CASE AuthRequest(c, r) \/ OtherRequest(c, r)
      BY <1>1, <3>1 DEF AuthRequest, OtherRequest
    <3>2. CASE Lock(c, r)
      BY <1>1, <3>2 DEF Lock
    <3>3. CASE Refuse(c, r)
      BY <1>1, <3>3 DEF Refuse
    <3>4. CASE SetAuthenticated(c, r)
      BY <1>1, <3>4 DEF SetAuthenticated
    <3>5. CASE \E u \in User : SetAuthID(c, r, u)
      BY <1>1, <3>5 DEF SetAuthID
    <3>6. CASE WriteAuthOK(c, r)
      BY <1>1, <3>6 DEF WriteAuthOK
    <3>7. CASE StartUDP(c, r)
      BY <1>1, <3>7 DEF StartUDP
    <3> QED
      BY <2>2, <3>1, <3>2, <3>3, <3>4, <3>5, <3>6, <3>7 DEF ServeHTTP
  <2> QED
    BY <2>1, <2>2
<1>3. \A u \in User : OnlineWith(u)' = OnlineWith(u)
  BY <1>2 DEF OnlineWith, Announced, IdentityKnown, TypeOK
<1> QED
  BY <1>1, <1>3 DEF OnlineExact, OnlineWith

(* Every step keeps it, with the count in it.                              *)
LEMMA StepHolds ==
  ASSUME ServerAuthAssumption, CountInv, [Next]_vars
  PROVE  CountInv'
<1>1. CASE UNCHANGED vars
  BY <1>1
  DEF vars, CountInv, IInv, TypeOK, OneAtATime, IdentityKnown, ToldIsSettled, Settled,
      ClientIsTold, ManagersCounted, EndedIsJoined, Joined, StreamsKnowUser, OnlineExact,
      Announced
<1>2. CASE Next
  <2>1. IInv'
    BY <1>2, RequestHolds, ConnectionHolds DEF Next, CountInv
  <2>2. OnlineExact'
    BY <1>2, LogOnlineCounts, DisconnectCounts, OthersKeepCount DEF CountInv
  <2> QED
    BY <2>1, <2>2 DEF CountInv
<1> QED
  BY <1>1, <1>2

(* A connection whose client is told has one manager at most.              *)
LEMMA CountImplies ==
  ASSUME ServerAuthAssumption, CountInv
  PROVE  OnlineExact /\ OneManager /\ StreamsKnowUser
<1> SUFFICES OneManager
  BY DEF CountInv, IInv
<1>1. \A c \in Conn : Joined(c) /\ ClientIsTold(c) => /\ authenticated[c]
                                                    /\ \A r \in Request : pc[c][r] \notin Marked
  BY DEF CountInv, IInv, ToldIsSettled, Settled, Joined, Marked
<1> QED
  BY <1>1 DEF CountInv, IInv, ManagersCounted, OneManager, ServerAuthAssumption

(***************************************************************************)
(* The invariant is inductive, with the count in it.                       *)
(***************************************************************************)
THEOREM UsersAccounted ==
  ASSUME ServerAuthAssumption
  PROVE  Spec => []CountInv
<1>1. Init => CountInv
  BY InitHolds
<1>2. CountInv /\ [Next]_vars => CountInv'
  BY StepHolds
<1> QED
  BY <1>1, <1>2, PTL DEF Spec

(***************************************************************************)
(* However the requests of a connection race and its users' connections    *)
(* come and go: the online count is exact for every user, a connection has *)
(* one UDP session manager when UDP is on and its client is told, and all  *)
(* its streams are proxied for the user it authenticated as.               *)
(***************************************************************************)
THEOREM CountedAndKnown ==
  ASSUME ServerAuthAssumption
  PROVE  Spec => [](OnlineExact /\ OneManager /\ StreamsKnowUser)
<1>1. CountInv => OnlineExact /\ OneManager /\ StreamsKnowUser
  BY CountImplies
<1> QED
  BY <1>1, UsersAccounted, PTL
=============================================================================
