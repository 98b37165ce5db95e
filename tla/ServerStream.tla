---------------------------- MODULE ServerStream ----------------------------
(***************************************************************************)
(* core/server: the proxied TCP streams of one authenticated connection    *)
(* (handleTCPRequest of server.go, copy.go), with the kicks of             *)
(* extras/trafficlogger.                                                   *)
(*                                                                         *)
(* A stream is served by one goroutine until it is established; then two   *)
(* copiers, one per direction, run beside it and the first to return ends  *)
(* the stream.                                                             *)
(***************************************************************************)
EXTENDS Integers, Sequences

CONSTANTS
  Stream,
  Kicks            \* bound on the times the user is kicked

ServerStreamAssumption == Kicks \in Nat

Way == {"tx", "rx"}   \* client to remote, remote to client

VARIABLES
  connUp,          \* the QUIC connection
  kick, kicks,     \* KickMap has the user; how often it was put there
  told,            \* LogTraffic has asked for the user to be disconnected
  pc,              \* per stream: StreamStats.State, and "none" before
  hooked,          \* the hook took the stream, which is answered early
  stream, tConn,   \* the server's two ends: "none", "open" or "closed"
  client, remote,  \* the two peers: they keep their end open or close it
  said,            \* what the client has been sent, data run together
  cp,              \* per stream and way: the copier
  errChan,         \* per stream: what its copiers returned
  traced,          \* StreamMap has it
  requests, errors \* TCPRequest and TCPError events logged

vars == <<connUp, kick, kicks, told, pc, hooked, stream, tConn, client, remote,
          said, cp, errChan, traced, requests, errors>>

Init ==
  /\ connUp = TRUE
  /\ kick = FALSE
  /\ kicks = 0
  /\ told = FALSE
  /\ pc = [s \in Stream |-> "none"]
  /\ hooked = [s \in Stream |-> FALSE]
  /\ stream = [s \in Stream |-> "none"]
  /\ tConn = [s \in Stream |-> "none"]
  /\ client = [s \in Stream |-> "open"]
  /\ remote = [s \in Stream |-> "open"]
  /\ said = [s \in Stream |-> <<>>]
  /\ cp = [s \in Stream |-> [w \in Way |-> "none"]]
  /\ errChan = [s \in Stream |-> <<>>]
  /\ traced = [s \in Stream |-> FALSE]
  /\ requests = [s \in Stream |-> 0]
  /\ errors = [s \in Stream |-> 0]

Goto(s, l) == pc' = [pc EXCEPT ![s] = l]

(* The stream's deferred calls: closed in the statistics, and untraced.    *)
Finish(s) ==
  /\ Goto(s, "closed")
  /\ traced' = [traced EXCEPT ![s] = FALSE]

(* What a write to the client adds, if the stream still takes it.          *)
Say(s, what) ==
  IF connUp /\ stream[s] = "open" /\ (said[s] = <<>> \/ said[s][Len(said[s])] # what \/ what # "data")
  THEN Append(said[s], what)
  ELSE said[s]
-----------------------------------------------------------------------------
(***************************************************************************)
(* The peers, the network and the operator.                                *)
(***************************************************************************)
ClientCloses(s) ==
  /\ pc[s] # "none"
  /\ client[s] = "open"
  /\ client' = [client EXCEPT ![s] = "closed"]
  /\ UNCHANGED <<connUp, kick, kicks, told, pc, hooked, stream, tConn, remote, said, cp, errChan, traced, requests, errors>>

RemoteCloses(s) ==
  /\ tConn[s] = "open"
  /\ remote[s] = "open"
  /\ remote' = [remote EXCEPT ![s] = "closed"]
  /\ UNCHANGED <<connUp, kick, kicks, told, pc, hooked, stream, tConn, client, said, cp, errChan, traced, requests, errors>>

ConnectionDies ==
  /\ connUp
  /\ connUp' = FALSE
  /\ UNCHANGED <<kick, kicks, told, pc, hooked, stream, tConn, client, remote, said, cp, errChan, traced, requests, errors>>

(* The operator's POST /kick.                                              *)
Kick ==
  /\ kicks < Kicks
  /\ kick' = TRUE
  /\ kicks' = kicks + 1
  /\ UNCHANGED <<connUp, told, pc, hooked, stream, tConn, client, remote, said, cp, errChan, traced, requests, errors>>
-----------------------------------------------------------------------------
(***************************************************************************)
(* handleTCPRequest.                                                       *)
(***************************************************************************)
Open(s) ==
  /\ connUp
  /\ pc[s] = "none"
  /\ stream' = [stream EXCEPT ![s] = "open"]
  /\ traced' = [traced EXCEPT ![s] = TRUE]
  /\ Goto(s, "init")
  /\ UNCHANGED <<connUp, kick, kicks, told, hooked, tConn, client, remote, said, cp, errChan, requests, errors>>

(* Nothing more will come on the stream: its client, or the connection, is *)
(* gone, or the server closed it.                                          *)
Drained(s) == ~connUp \/ client[s] = "closed" \/ stream[s] # "open"

(* The request, or what the hook wants to see, does not come or is bad.    *)
RequestFails(s) ==
  /\ pc[s] \in {"init", "hook"}
  /\ stream' = [stream EXCEPT ![s] = "closed"]
  /\ Finish(s)
  /\ UNCHANGED <<connUp, kick, kicks, told, hooked, tConn, client, remote, said, cp, errChan, requests, errors>>

(* "The server should always accept a connection so that the client will   *)
(* send whatever request the hook wants to see."                           *)
HookTakes(s) ==
  /\ pc[s] = "init"
  /\ hooked' = [hooked EXCEPT ![s] = TRUE]
  /\ said' = [said EXCEPT ![s] = Say(s, "ok")]
  /\ Goto(s, "hook")
  /\ UNCHANGED <<connUp, kick, kicks, told, stream, tConn, client, remote, cp, errChan, traced, requests, errors>>

Connecting(s) ==
  /\ pc[s] \in {"init", "hook"}
  /\ requests' = [requests EXCEPT ![s] = @ + 1]
  /\ Goto(s, "connect")
  /\ UNCHANGED <<connUp, kick, kicks, told, hooked, stream, tConn, client, remote, said, cp, errChan, traced, errors>>

(* A hooked stream has had its response.                                   *)
Respond(s, what) == IF hooked[s] THEN said[s] ELSE Say(s, what)

DialFails(s) ==
  /\ pc[s] = "connect"
  /\ said' = [said EXCEPT ![s] = Respond(s, "fail")]
  /\ stream' = [stream EXCEPT ![s] = "closed"]
  /\ errors' = [errors EXCEPT ![s] = @ + 1]
  /\ Finish(s)
  /\ UNCHANGED <<connUp, kick, kicks, told, hooked, tConn, client, remote, cp, errChan, requests>>

(* The response, what the hook put back, and the two copiers.              *)
Established(s) ==
  /\ pc[s] = "connect"
  /\ tConn' = [tConn EXCEPT ![s] = "open"]
  /\ said' = [said EXCEPT ![s] = Respond(s, "ok")]
  /\ cp' = [cp EXCEPT ![s] = [w \in Way |-> "read"]]
  /\ Goto(s, "estab")
  /\ UNCHANGED <<connUp, kick, kicks, told, hooked, stream, client, remote, errChan, traced, requests, errors>>
-----------------------------------------------------------------------------
(***************************************************************************)
(* copyBufferLog.                                                          *)
(***************************************************************************)
(* What a peer sent before it closed can still be read.                    *)
HasInput(s, w) ==
  IF w = "tx" THEN connUp /\ stream[s] = "open" ELSE tConn[s] = "open"

SourceEnds(s, w) ==
  IF w = "tx" THEN Drained(s) ELSE tConn[s] # "open" \/ remote[s] = "closed"

(* A write fails when its end is closed, and may when the peer's is.       *)
SinkWorks(s, w) ==
  IF w = "tx" THEN tConn[s] = "open" ELSE connUp /\ stream[s] = "open"

SinkMayFail(s, w) ==
  IF w = "tx" THEN tConn[s] # "open" \/ remote[s] = "closed" ELSE Drained(s)

CopierReturns(s, w, result) ==
  /\ cp' = [cp EXCEPT ![s][w] = "done"]
  /\ errChan' = [errChan EXCEPT ![s] = Append(@, result)]

(* LogTraffic takes the user off the kick list as it answers no.           *)
CopyRead(s, w) ==
  /\ cp[s][w] = "read"
  /\ HasInput(s, w)
  /\ ~kick
  /\ cp' = [cp EXCEPT ![s][w] = "write"]
  /\ UNCHANGED <<connUp, kick, kicks, told, pc, hooked, stream, tConn, client, remote, said, errChan, traced, requests, errors>>

CopyKicked(s, w) ==
  /\ cp[s][w] = "read"
  /\ HasInput(s, w)
  /\ kick
  /\ kick' = FALSE
  /\ told' = TRUE
  /\ CopierReturns(s, w, "disconnect")
  /\ UNCHANGED <<connUp, kicks, pc, hooked, stream, tConn, client, remote, said, traced, requests, errors>>

CopyReadEnds(s, w) ==
  /\ cp[s][w] = "read"
  /\ SourceEnds(s, w)
  /\ CopierReturns(s, w, "ended")
  /\ UNCHANGED <<connUp, kick, kicks, told, pc, hooked, stream, tConn, client, remote, said, traced, requests, errors>>

CopyWrite(s, w) ==
  /\ cp[s][w] = "write"
  /\ SinkWorks(s, w)
  /\ cp' = [cp EXCEPT ![s][w] = "read"]
  /\ said' = IF w = "rx" THEN [said EXCEPT ![s] = Say(s, "data")] ELSE said
  /\ UNCHANGED <<connUp, kick, kicks, told, pc, hooked, stream, tConn, client, remote, errChan, traced, requests, errors>>

CopyWriteFails(s, w) ==
  /\ cp[s][w] = "write"
  /\ SinkMayFail(s, w)
  /\ CopierReturns(s, w, "ended")
  /\ UNCHANGED <<connUp, kick, kicks, told, pc, hooked, stream, tConn, client, remote, said, traced, requests, errors>>

(* copyTwoWayEx hands over the first result; the other is never read.      *)
EndsOnBoth(s) == Len(errChan[s]) = 2

Ends(s) == errChan[s] # <<>>

CleanupHalf(s) == [tConn EXCEPT ![s] = tConn[s]]

Cleanup(s) == [tConn EXCEPT ![s] = "closed"]

CopyEnds(s) ==
  /\ pc[s] = "estab"
  /\ Ends(s)
  /\ errors' = [errors EXCEPT ![s] = @ + 1]
  /\ tConn' = Cleanup(s)
  /\ stream' = [stream EXCEPT ![s] = "closed"]
  /\ connUp' = (connUp /\ Head(errChan[s]) # "disconnect")
  /\ Finish(s)
  /\ UNCHANGED <<kick, kicks, told, hooked, client, remote, said, cp, errChan, requests>>

Handler(s) ==
  \/ RequestFails(s)
  \/ HookTakes(s)
  \/ Connecting(s)
  \/ DialFails(s)
  \/ Established(s)
  \/ CopyEnds(s)

Copier(s, w) ==
  \/ CopyRead(s, w)
  \/ CopyKicked(s, w)
  \/ CopyReadEnds(s, w)
  \/ CopyWrite(s, w)
  \/ CopyWriteFails(s, w)

Peers(s) == Open(s) \/ ClientCloses(s) \/ RemoteCloses(s)

Next ==
  \/ ConnectionDies
  \/ Kick
  \/ \E s \in Stream : Peers(s) \/ Handler(s) \/ \E w \in Way : Copier(s, w)

Spec == Init /\ [][Next]_vars

(***************************************************************************)
(* The handler and the copiers run when they can.  A peer may never send   *)
(* another byte, but takes what it is sent; a handler that waits for a     *)
(* stream from which nothing more will come goes on; what a peer sent      *)
(* before it closed is read in the end; a dial has a timeout.              *)
(***************************************************************************)
Unblocked(s) ==
  /\ Drained(s)
  /\ RequestFails(s) \/ HookTakes(s) \/ Connecting(s)

Fairness ==
  \A s \in Stream :
    /\ WF_vars(Unblocked(s))
    /\ WF_vars(DialFails(s) \/ Established(s))
    /\ WF_vars(CopyEnds(s))
    /\ \A w \in Way :
         /\ SF_vars(CopyReadEnds(s, w))
         /\ WF_vars(CopyWrite(s, w) \/ CopyWriteFails(s, w))

FairSpec == Spec /\ Fairness
-----------------------------------------------------------------------------
(***************************************************************************)
(* What a client reads on a stream is one response and then data, and no   *)
(* data after a refusal: hooked or not, whatever fails.                    *)
(***************************************************************************)
OneResponse ==
  \A s \in Stream : said[s] \in {<<>>, <<"ok">>, <<"fail">>, <<"ok", "data">>}

(***************************************************************************)
(* A stream that is over leaves nothing behind on any of its exits: both   *)
(* ends closed, not in the stream dump, and one TCPError for its           *)
(* TCPRequest, if it had got that far.                                     *)
(***************************************************************************)
NothingLeft ==
  \A s \in Stream :
    pc[s] = "closed" => /\ stream[s] = "closed"
                        /\ tConn[s] # "open"
                        /\ ~traced[s]
                        /\ errors[s] = requests[s]

(***************************************************************************)
(* "Closing one side of the connection should close the other side as      *)
(* well": when the client or the remote closes an established stream, the  *)
(* server closes both its ends.                                            *)
(***************************************************************************)
ClosePropagates ==
  \A s \in Stream :
    (pc[s] = "estab" /\ (client[s] = "closed" \/ remote[s] = "closed"))
      ~> (stream[s] = "closed" /\ tConn[s] = "closed")

(***************************************************************************)
(* A connection that is gone takes all its goroutines with it: every       *)
(* handler returns, and both copiers of every stream.                      *)
(***************************************************************************)
AllEnd ==
  \A s \in Stream :
    (~connUp /\ pc[s] # "none")
      ~> (pc[s] = "closed" /\ \A w \in Way : cp[s][w] \in {"none", "done"})

(***************************************************************************)
(* "The Log function can also return false to signal that the client       *)
(* should be disconnected": once it has, the connection is closed.         *)
(***************************************************************************)
LimitDisconnects == told ~> ~connUp
=============================================================================
