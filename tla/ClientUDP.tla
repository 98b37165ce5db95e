----------------------------- MODULE ClientUDP ------------------------------
(***************************************************************************)
(* core/client/udp.go: the UDP sessions a client has on one connection.    *)
(*                                                                         *)
(* One goroutine (run) receives datagrams and hands each to its session's  *)
(* channel; the applications open sessions, block on their channels and    *)
(* close them; when the connection fails run closes what is left.  A       *)
(* read/write mutex keeps the hand-over and the closing of a channel       *)
(* apart: sending on a closed channel would bring the process down.        *)
(***************************************************************************)
EXTENDS Integers, Sequences

CONSTANTS
  Conn,        \* udpConn objects, one per session ever opened
  NoConn,
  IdRange,     \* the number of values of the identifier, a uint32
  ChanSize     \* udpMessageChanSize

ClientUDPAssumption ==
  /\ NoConn \notin Conn
  /\ IdRange \in Nat \ {0}
  /\ ChanSize \in Nat \ {0}

SessionID == 0..(IdRange - 1)

VARIABLES
  m,           \* udpSessionManager.m
  nextID,
  closed,      \* udpSessionManager.closed
  run,         \* the goroutine of run: where it is, and the session it feeds
  linkUp,      \* ReceiveMessage still works
  id,          \* udpConn.SessionID
  state,       \* "none" before NewUDP, then "open" until Closed is set
  ch,          \* ReceiveCh: the messages in it (state tells if it is closed)
  reader,      \* what the session's application is doing
  panicked     \* a message was sent on a closed channel

vars == <<m, nextID, closed, run, linkUp, id, state, ch, reader, panicked>>

Init ==
  /\ m = [i \in SessionID |-> NoConn]
  /\ nextID = 1 % IdRange
  /\ closed = FALSE
  /\ run = [pc |-> "receive", conn |-> NoConn, id |-> 0]
  /\ linkUp = TRUE
  /\ id = [c \in Conn |-> 0]
  /\ state = [c \in Conn |-> "none"]
  /\ ch = [c \in Conn |-> <<>>]
  /\ reader = [c \in Conn |-> "idle"]
  /\ panicked = FALSE

(* The mutex: feed holds it for reading while it hands a message over, the *)
(* other critical sections are single steps.                               *)
NotFeeding == run.pc # "feed"
-----------------------------------------------------------------------------
(***************************************************************************)
(* run and feed.                                                           *)
(***************************************************************************)
ReceiveMessage(i) ==
  /\ run.pc = "receive"
  /\ linkUp
  /\ run' = [pc |-> "feed", conn |-> m[i], id |-> i]
  /\ UNCHANGED <<m, nextID, closed, linkUp, id, state, ch, reader, panicked>>

HasRoom(q) == Len(q) < ChanSize

(* A full channel drops the message, an unknown session ignores it.        *)
feed ==
  LET c == run.conn
  IN  /\ run.pc = "feed"
      /\ run' = [run EXCEPT !.pc = "receive", !.conn = NoConn, !.id = 0]
      /\ \/ /\ c = NoConn
            /\ UNCHANGED <<ch, panicked>>
         \/ /\ c # NoConn
            /\ state[c] = "closed"
            /\ panicked' = TRUE
            /\ UNCHANGED ch
         \/ /\ c # NoConn
            /\ state[c] = "open"
            /\ ch' = IF HasRoom(ch[c]) THEN [ch EXCEPT ![c] = Append(@, run.id)] ELSE ch
            /\ UNCHANGED panicked
      /\ UNCHANGED <<m, nextID, closed, linkUp, id, state, reader>>

LinkFails ==
  /\ linkUp
  /\ linkUp' = FALSE
  /\ UNCHANGED <<m, nextID, closed, run, id, state, ch, reader, panicked>>

(* close, of every session in S, under the lock.                           *)
Close(S) ==
  /\ NotFeeding
  /\ state' = [c \in Conn |-> IF c \in S THEN "closed" ELSE state[c]]
  /\ m' = [i \in SessionID |->
             IF \E c \in S : state[c] = "open" /\ id[c] = i THEN NoConn ELSE m[i]]

InTable == {m[i] : i \in SessionID} \ {NoConn}

closeCleanupQuiet ==
  /\ run.pc = "receive"
  /\ ~linkUp
  /\ Close(InTable)
  /\ run' = [run EXCEPT !.pc = "ended"]
  /\ UNCHANGED <<nextID, closed, linkUp, id, ch, reader, panicked>>

closeCleanup ==
  /\ run.pc = "receive"
  /\ ~linkUp
  /\ Close(InTable)
  /\ closed' = TRUE
  /\ run' = [run EXCEPT !.pc = "ended"]
  /\ UNCHANGED <<nextID, linkUp, id, ch, reader, panicked>>
-----------------------------------------------------------------------------
(***************************************************************************)
(* The applications.                                                       *)
(***************************************************************************)
FollowingSame(i) == i

Following(i) == (i + 1) % IdRange

NewUDP(c) ==
  /\ NotFeeding
  /\ state[c] = "none"
  /\ ~closed
  /\ state' = [state EXCEPT ![c] = "open"]
  /\ id' = [id EXCEPT ![c] = nextID]
  /\ m' = [m EXCEPT ![nextID] = c]
  /\ nextID' = Following(nextID)
  /\ UNCHANGED <<closed, run, linkUp, ch, reader, panicked>>

CloseFunc(c) ==
  /\ state[c] # "none"
  /\ Close({c})
  /\ UNCHANGED <<nextID, closed, run, linkUp, id, ch, reader, panicked>>

(* Receive blocks on the channel; fragments are put together as they come  *)
(* (module UDPFrag), so it may take several messages.  A closed channel is *)
(* drained before it answers EOF.                                          *)
ReceiveCall(c) ==
  /\ state[c] # "none"
  /\ reader[c] = "idle"
  /\ reader' = [reader EXCEPT ![c] = "blocked"]
  /\ UNCHANGED <<m, nextID, closed, run, linkUp, id, state, ch, panicked>>

ReceiveTake(c) ==
  /\ reader[c] = "blocked"
  /\ ch[c] # <<>>
  /\ ch' = [ch EXCEPT ![c] = Tail(@)]
  /\ \/ reader' = [reader EXCEPT ![c] = "idle"]
     \/ UNCHANGED reader
  /\ UNCHANGED <<m, nextID, closed, run, linkUp, id, state, panicked>>

ReceiveEOF(c) ==
  /\ reader[c] = "blocked"
  /\ ch[c] = <<>>
  /\ state[c] = "closed"
  /\ reader' = [reader EXCEPT ![c] = "done"]
  /\ UNCHANGED <<m, nextID, closed, run, linkUp, id, state, ch, panicked>>

RunStep == feed \/ closeCleanup

ReaderStep(c) == ReceiveTake(c) \/ ReceiveEOF(c)

Next ==
  \/ \E i \in SessionID : ReceiveMessage(i)
  \/ RunStep
  \/ LinkFails
  \/ \E c \in Conn : \/ NewUDP(c)
                     \/ CloseFunc(c)
                     \/ ReceiveCall(c)
                     \/ ReaderStep(c)

Spec == Init /\ [][Next]_vars

(* run and a reader that can go on do; nothing else is promised.           *)
Fairness == WF_vars(RunStep) /\ \A c \in Conn : WF_vars(ReaderStep(c))

FairSpec == Spec /\ Fairness
-----------------------------------------------------------------------------
TypeOK ==
  /\ m \in [SessionID -> Conn \cup {NoConn}]
  /\ nextID \in SessionID
  /\ closed \in BOOLEAN
  /\ run \in [pc : {"receive", "feed", "ended"}, conn : Conn \cup {NoConn}, id : SessionID]
  /\ linkUp \in BOOLEAN
  /\ id \in [Conn -> SessionID]
  /\ state \in [Conn -> {"none", "open", "closed"}]
  /\ ch \in [Conn -> Seq(SessionID)]
  /\ \A c \in Conn : Len(ch[c]) <= ChanSize
  /\ reader \in [Conn -> {"idle", "blocked", "done"}]
  /\ panicked \in BOOLEAN

(***************************************************************************)
(* feed never sends on a channel that close has closed.                    *)
(***************************************************************************)
NoSendOnClosed == ~panicked

(***************************************************************************)
(* Once run has ended every session is closed, and none is opened after:   *)
(* there is no session left whose Receive would block for ever.            *)
(***************************************************************************)
EndedClosesAll ==
  run.pc = "ended" => \A c \in Conn : state[c] # "open"

(***************************************************************************)
(* A message reaches only the session it names: the table has, under each  *)
(* open session's identifier, that session, and what its channel holds is  *)
(* addressed to it.                                                        *)
(***************************************************************************)
RoutedRight ==
  \A c \in Conn : /\ state[c] = "open" => m[id[c]] = c
                  /\ \A k \in DOMAIN ch[c] : ch[c][k] = id[c]

(***************************************************************************)
(* An application blocked in Receive when the connection fails gets its    *)
(* answer: the rest of its channel or EOF.                                 *)
(***************************************************************************)
NoReaderStuck ==
  \A c \in Conn : (~linkUp /\ reader[c] = "blocked") ~> (reader[c] # "blocked")
=============================================================================
