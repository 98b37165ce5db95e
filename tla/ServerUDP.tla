----------------------------- MODULE ServerUDP ------------------------------
(***************************************************************************)
(* core/server/udp.go: the UDP sessions of one authenticated connection.   *)
(*                                                                         *)
(* Four kinds of goroutine share the session table.  Run receives          *)
(* datagrams, creates sessions and hands each message to its session.      *)
(* Every session has a sendLoop, which reassembles, dials on the first     *)
(* complete message and writes to the target, and from then on a           *)
(* receiveLoop for the way back.  idleCleanupLoop closes the sessions      *)
(* nobody uses.  Any of them may be the one that closes a session, and     *)
(* each does so in two critical sections: the session's own (connLock),    *)
(* then the table's (mutex).                                               *)
(*                                                                         *)
(* A datagram is its session, its target address and whether it completes  *)
(* a message (the Defragger is module UDPFrag).                            *)
(***************************************************************************)
EXTENDS Integers, FiniteSets, Sequences

CONSTANTS
  ID,            \* session identifiers a client may use
  Entry,         \* udpSessionEntry objects; a finished one may be used again
  NoEntry,
  Addr,          \* target addresses
  NoAddr,
  Allowed,       \* the addresses the outbound policy accepts
  Rewrites,      \* pairs <<a, b>>: the request hook may turn a into b
  IdleTimeout,   \* udpSessionManager.idleTimeout, in ticks
  QueueLen,      \* sessionSendQueueLen
  MaxCache       \* maxSessionACLCache

UDPAssumption ==
  /\ NoEntry \notin Entry
  /\ NoAddr \notin Addr
  /\ Allowed \subseteq Addr
  /\ Rewrites \subseteq Addr \X Addr
  /\ IdleTimeout \in Nat
  /\ QueueLen \in Nat \ {0}
  /\ MaxCache \in Nat \ {0}

VARIABLES
  linkUp,        \* the QUIC connection is alive
  sessions,      \* udpSessionManager.m
  entry,         \* the udpSessionEntry objects
  main,          \* the goroutine of Run
  cleaner,       \* the goroutine of idleCleanupLoop
  sender,        \* the goroutines of sendLoop
  receiver,      \* the goroutines of receiveLoop
  wrote          \* history: the addresses datagrams were written to

vars == <<linkUp, sessions, entry, main, cleaner, sender, receiver, wrote>>

Msg == [id : ID, addr : Addr, whole : BOOLEAN]

NoMsg == [id |-> NoEntry, addr |-> NoAddr, whole |-> FALSE]

(* aclCache: the policy decisions remembered, one per address.             *)
Cache == UNION {[S -> BOOLEAN] : S \in SUBSET Addr}

(* closed stands for the flag and for the done channel, which are set and  *)
(* closed together; age is the time since Last, as far as it matters.      *)
EntryState ==
  [id : ID \cup {NoEntry}, used : BOOLEAN, closed : BOOLEAN, exited : BOOLEAN,
   locked : BOOLEAN, conn : {"none", "open", "shut"},
   override : Addr \cup {NoAddr}, age : 0..(IdleTimeout + 1),
   queue : Seq(Msg), cache : Cache]

Unused ==
  [id |-> NoEntry, used |-> FALSE, closed |-> FALSE, exited |-> FALSE,
   locked |-> FALSE, conn |-> "none", override |-> NoAddr, age |-> 0,
   queue |-> <<>>, cache |-> <<>>]

Init ==
  /\ linkUp = TRUE
  /\ sessions = [i \in ID |-> NoEntry]
  /\ entry = [e \in Entry |-> Unused]
  /\ main = [pc |-> "receive", msg |-> NoMsg, at |-> NoEntry, todo |-> {}]
  /\ cleaner = [pc |-> "wait", at |-> NoEntry, todo |-> {}]
  /\ sender = [e \in Entry |-> [pc |-> "none", msg |-> NoMsg]]
  /\ receiver = [e \in Entry |-> "none"]
  /\ wrote = {}
-----------------------------------------------------------------------------
(***************************************************************************)
(* CloseWithErr, first half: under connLock, unless already closed, mark   *)
(* the session closed, end its done channel and shut its connection.       *)
(***************************************************************************)
Closed(s) ==
  [s EXCEPT !.closed = TRUE, !.conn = IF s.conn = "open" THEN "shut" ELSE s.conn]

CloseLock(e) ==
  /\ ~entry[e].locked
  /\ entry' = IF entry[e].closed THEN entry ELSE [entry EXCEPT ![e] = Closed(@)]

(***************************************************************************)
(* Second half, by the one that closed it: ExitFunc removes the session    *)
(* from the table, by its identifier.                                      *)
(***************************************************************************)
ExitFunc(e) ==
  /\ sessions' = [sessions EXCEPT ![entry[e].id] = NoEntry]
  /\ entry' = [entry EXCEPT ![e].exited = TRUE]
-----------------------------------------------------------------------------
(***************************************************************************)
(* Run.                                                                    *)
(***************************************************************************)
Refer(p, e) == p.at = e \/ e \in p.todo

(* An entry object the program no longer refers to stands for a new one.   *)
Reusable(e) ==
  \/ ~entry[e].used
  \/ /\ entry[e].exited
     /\ sender[e].pc = "ended"
     /\ receiver[e] \in {"none", "ended"}
     /\ ~Refer(main, e) /\ ~Refer(cleaner, e)

(* feed looks the session up; one that is being closed is still there.     *)
LookupOpen(id) ==
  IF sessions[id] = NoEntry \/ entry[sessions[id]].closed THEN NoEntry ELSE sessions[id]

Lookup(id) == sessions[id]

Receive(msg) ==
  /\ main.pc = "receive"
  /\ linkUp
  /\ main' = [main EXCEPT !.msg = msg, !.at = Lookup(msg.id),
                !.pc = IF Lookup(msg.id) = NoEntry THEN "create" ELSE "enqueue"]
  /\ UNCHANGED <<linkUp, sessions, entry, cleaner, sender, receiver, wrote>>

(* The connection is gone, or the traffic logger asks for the client to be *)
(* disconnected over the datagram just received.                           *)
ReceiveErr ==
  /\ main.pc = "receive"
  /\ linkUp' = FALSE
  /\ main' = [main EXCEPT !.pc = "cleanup"]
  /\ UNCHANGED <<sessions, entry, cleaner, sender, receiver, wrote>>

Create(e) ==
  /\ main.pc = "create"
  /\ Reusable(e)
  /\ entry' = [entry EXCEPT ![e] = [Unused EXCEPT !.id = main.msg.id, !.used = TRUE]]
  /\ sessions' = [sessions EXCEPT ![main.msg.id] = e]
  /\ sender' = [sender EXCEPT ![e] = [pc |-> "select", msg |-> NoMsg]]
  /\ receiver' = [receiver EXCEPT ![e] = "none"]
  /\ main' = [main EXCEPT !.pc = "enqueue", !.at = e]
  /\ UNCHANGED <<linkUp, cleaner, wrote>>

(* Enqueue never blocks: a full queue drops the message, and on a session  *)
(* that is being closed the select may take either ready case.             *)
Room(e) == Len(entry[e].queue) < QueueLen

Enqueue ==
  LET e == main.at
  IN  /\ main.pc = "enqueue"
      /\ \/ /\ Room(e)
            /\ entry' = [entry EXCEPT ![e].age = 0,
                                      ![e].queue = Append(@, main.msg)]
         \/ /\ entry[e].closed \/ ~Room(e)
            /\ entry' = [entry EXCEPT ![e].age = 0]
      /\ main' = [main EXCEPT !.pc = "receive", !.msg = NoMsg, !.at = NoEntry]
      /\ UNCHANGED <<linkUp, sessions, cleaner, sender, receiver, wrote>>

Registered == {sessions[i] : i \in ID} \ {NoEntry}

IdleLater(e) == entry[e].age > IdleTimeout + 1

Idle(e) == entry[e].age > IdleTimeout

(* cleanup(false).                                                         *)
MainScan ==
  /\ main.pc = "cleanup"
  /\ main' = [main EXCEPT !.pc = "closing", !.todo = Registered]
  /\ UNCHANGED <<linkUp, sessions, entry, cleaner, sender, receiver, wrote>>

MainClose(e) ==
  /\ main.pc = "closing"
  /\ main.at = NoEntry
  /\ e \in main.todo
  /\ CloseLock(e)
  /\ main' = [main EXCEPT !.todo = @ \ {e}, !.at = IF entry[e].closed THEN NoEntry ELSE e]
  /\ UNCHANGED <<linkUp, sessions, cleaner, sender, receiver, wrote>>

MainExit ==
  /\ main.pc = "closing"
  /\ main.at # NoEntry
  /\ ExitFunc(main.at)
  /\ main' = [main EXCEPT !.at = NoEntry]
  /\ UNCHANGED <<linkUp, cleaner, sender, receiver, wrote>>

MainEnd ==
  /\ main.pc = "closing"
  /\ main.at = NoEntry
  /\ main.todo = {}
  /\ main' = [main EXCEPT !.pc = "ended"]
  /\ UNCHANGED <<linkUp, sessions, entry, cleaner, sender, receiver, wrote>>
-----------------------------------------------------------------------------
(***************************************************************************)
(* idleCleanupLoop.                                                        *)
(***************************************************************************)
CleanerScan ==
  /\ cleaner.pc = "wait"
  /\ cleaner' = [cleaner EXCEPT !.pc = "closing",
                                !.todo = {e \in Registered : Idle(e)}]
  /\ UNCHANGED <<linkUp, sessions, entry, main, sender, receiver, wrote>>

CleanerClose(e) ==
  /\ cleaner.pc = "closing"
  /\ cleaner.at = NoEntry
  /\ e \in cleaner.todo
  /\ CloseLock(e)
  /\ cleaner' = [cleaner EXCEPT !.todo = @ \ {e},
                                !.at = IF entry[e].closed THEN NoEntry ELSE e]
  /\ UNCHANGED <<linkUp, sessions, main, sender, receiver, wrote>>

CleanerExit ==
  /\ cleaner.pc = "closing"
  /\ cleaner.at # NoEntry
  /\ ExitFunc(cleaner.at)
  /\ cleaner' = [cleaner EXCEPT !.at = NoEntry]
  /\ UNCHANGED <<linkUp, main, sender, receiver, wrote>>

CleanerDone ==
  /\ cleaner.pc = "closing"
  /\ cleaner.at = NoEntry
  /\ cleaner.todo = {}
  /\ cleaner' = [cleaner EXCEPT !.pc = "wait"]
  /\ UNCHANGED <<linkUp, sessions, entry, main, sender, receiver, wrote>>

(* stopCh is closed when Run returns; with a tick ready too the select may *)
(* take either.                                                            *)
CleanerStop ==
  /\ cleaner.pc = "wait"
  /\ main.pc = "ended"
  /\ cleaner' = [cleaner EXCEPT !.pc = "ended"]
  /\ UNCHANGED <<linkUp, sessions, entry, main, sender, receiver, wrote>>
-----------------------------------------------------------------------------
(***************************************************************************)
(* sendLoop and Feed.  With messages queued and done closed the select may *)
(* take either.                                                            *)
(***************************************************************************)
SenderStop(e) ==
  /\ sender[e].pc = "select"
  /\ entry[e].closed
  /\ sender' = [sender EXCEPT ![e].pc = "ended"]
  /\ UNCHANGED <<linkUp, sessions, entry, main, cleaner, receiver, wrote>>

(* Feed: a fragment that completes nothing ends here.                      *)
SenderTake(e) ==
  LET msg == Head(entry[e].queue)
  IN  /\ sender[e].pc = "select"
      /\ entry[e].queue # <<>>
      /\ entry' = [entry EXCEPT ![e].queue = Tail(@), ![e].age = 0]
      /\ sender' = [sender EXCEPT ![e] =
                       IF ~msg.whole THEN @
                       ELSE [pc |-> IF entry[e].conn = "none" THEN "init" ELSE "write",
                             msg |-> msg]]
      /\ UNCHANGED <<linkUp, sessions, main, cleaner, receiver, wrote>>

(* initConn: under connLock, and not on a closed session.  The lock is     *)
(* held for as long as the dial takes.                                     *)
MayDialUnchecked(e) == ~entry[e].locked

MayDial(e) == ~entry[e].locked /\ ~entry[e].closed

InitConn(e) ==
  /\ sender[e].pc = "init"
  /\ MayDial(e)
  /\ entry' = [entry EXCEPT ![e].locked = TRUE]
  /\ sender' = [sender EXCEPT ![e].pc = "dial"]
  /\ UNCHANGED <<linkUp, sessions, main, cleaner, receiver, wrote>>

InitConnClosed(e) ==
  /\ sender[e].pc = "init"
  /\ ~entry[e].locked
  /\ entry[e].closed
  /\ sender' = [sender EXCEPT ![e] = [pc |-> "select", msg |-> NoMsg]]
  /\ UNCHANGED <<linkUp, sessions, entry, main, cleaner, receiver, wrote>>

(* The hook may rewrite the address; every later message then goes where   *)
(* the first one went.  Otherwise the first address is the first decision  *)
(* remembered.                                                             *)
DialFunc(e, a) ==
  LET first == sender[e].msg.addr
  IN  /\ sender[e].pc = "dial"
      /\ a = first \/ <<first, a>> \in Rewrites
      /\ a \in Allowed
      /\ entry' = [entry EXCEPT ![e].locked = FALSE, ![e].conn = "open",
                      ![e].override = IF a = first THEN NoAddr ELSE a,
                      ![e].cache = IF a = first THEN [x \in {first} |-> TRUE] ELSE @]
      /\ receiver' = [receiver EXCEPT ![e] = "read"]
      /\ sender' = [sender EXCEPT ![e].pc = "write"]
      /\ UNCHANGED <<linkUp, sessions, main, cleaner, wrote>>

(* The hook fails, the policy rejects the address or the dial fails.       *)
DialFuncErr(e) ==
  /\ sender[e].pc = "dial"
  /\ entry' = [entry EXCEPT ![e].locked = FALSE]
  /\ sender' = [sender EXCEPT ![e].pc = "close"]
  /\ UNCHANGED <<linkUp, sessions, main, cleaner, receiver, wrote>>

SenderClose(e) ==
  /\ sender[e].pc = "close"
  /\ CloseLock(e)
  /\ sender' = [sender EXCEPT ![e] =
                  [pc |-> IF entry[e].closed THEN "select" ELSE "exit", msg |-> NoMsg]]
  /\ UNCHANGED <<linkUp, sessions, main, cleaner, receiver, wrote>>

SenderExit(e) ==
  /\ sender[e].pc = "exit"
  /\ ExitFunc(e)
  /\ sender' = [sender EXCEPT ![e].pc = "select"]
  /\ UNCHANGED <<linkUp, main, cleaner, receiver, wrote>>

(* checkAddr: the decision remembered for an address, or a new one, which  *)
(* takes the place of any other when the cache is full.                    *)
Without(cache, a) == [x \in DOMAIN cache \ {a} |-> cache[x]]

Remembering(cache, a) ==
  LET decided(c) == [x \in DOMAIN c \cup {a} |-> IF x = a THEN a \in Allowed ELSE c[x]]
  IN  IF a \in DOMAIN cache THEN {cache}
      ELSE IF Cardinality(DOMAIN cache) >= MaxCache
           THEN {decided(Without(cache, old)) : old \in DOMAIN cache}
           ELSE {decided(cache)}

(* The address a message is written to, and whether the policy lets it.    *)
checkAddrFirstOnly(s, msg, cache) == TRUE

checkAddr(s, msg, cache) == s.override # NoAddr \/ cache[msg.addr]

SenderWrite(e) ==
  LET s == entry[e]
      msg == sender[e].msg
      to == IF s.override = NoAddr THEN msg.addr ELSE s.override
  IN  /\ sender[e].pc = "write"
      /\ \E cache \in IF s.override = NoAddr THEN Remembering(s.cache, msg.addr) ELSE {s.cache} :
           /\ entry' = [entry EXCEPT ![e].cache = cache]
           /\ wrote' = IF s.conn = "open" /\ checkAddr(s, msg, cache)
                       THEN wrote \cup {to} ELSE wrote
      /\ sender' = [sender EXCEPT ![e] = [pc |-> "select", msg |-> NoMsg]]
      /\ UNCHANGED <<linkUp, sessions, main, cleaner, receiver>>
-----------------------------------------------------------------------------
(***************************************************************************)
(* receiveLoop.                                                            *)
(***************************************************************************)
ReceiverRead(e) ==
  /\ receiver[e] = "read"
  /\ entry[e].conn = "open"
  /\ entry' = [entry EXCEPT ![e].age = 0]
  /\ receiver' = [receiver EXCEPT ![e] = "send"]
  /\ UNCHANGED <<linkUp, sessions, main, cleaner, sender, wrote>>

ReceiverReadErr(e) ==
  /\ receiver[e] = "read"
  /\ receiver' = [receiver EXCEPT ![e] = "close"]
  /\ UNCHANGED <<linkUp, sessions, entry, main, cleaner, sender, wrote>>

ReceiverSend(e) ==
  /\ receiver[e] = "send"
  /\ linkUp
  /\ receiver' = [receiver EXCEPT ![e] = "read"]
  /\ UNCHANGED <<linkUp, sessions, entry, main, cleaner, sender, wrote>>

(* The connection is gone, or the traffic logger asks for the client to be *)
(* disconnected, which closes the connection.                              *)
ReceiverSendErr(e) ==
  /\ receiver[e] = "send"
  /\ linkUp' = FALSE
  /\ receiver' = [receiver EXCEPT ![e] = "close"]
  /\ UNCHANGED <<sessions, entry, main, cleaner, sender, wrote>>

ReceiverClose(e) ==
  /\ receiver[e] = "close"
  /\ CloseLock(e)
  /\ receiver' = [receiver EXCEPT ![e] = IF entry[e].closed THEN "ended" ELSE "exit"]
  /\ UNCHANGED <<linkUp, sessions, main, cleaner, sender, wrote>>

ReceiverExit(e) ==
  /\ receiver[e] = "exit"
  /\ ExitFunc(e)
  /\ receiver' = [receiver EXCEPT ![e] = "ended"]
  /\ UNCHANGED <<linkUp, main, cleaner, sender, wrote>>
-----------------------------------------------------------------------------
(***************************************************************************)
(* Time, and the specification.                                            *)
(***************************************************************************)
Ageing ==
  {e \in Entry : entry[e].used /\ ~entry[e].exited /\ entry[e].age <= IdleTimeout}

Tick ==
  /\ Ageing # {}
  /\ entry' = [e \in Entry |-> IF e \in Ageing THEN [entry[e] EXCEPT !.age = @ + 1] ELSE entry[e]]
  /\ UNCHANGED <<linkUp, sessions, main, cleaner, sender, receiver, wrote>>

MainStep ==
  \/ \E e \in Entry : Create(e)
  \/ Enqueue
  \/ MainScan
  \/ \E e \in Entry : MainClose(e)
  \/ MainExit
  \/ MainEnd

CleanerStep ==
  \/ CleanerScan
  \/ \E e \in Entry : CleanerClose(e)
  \/ CleanerExit
  \/ CleanerDone
  \/ CleanerStop

SenderStep(e) ==
  \/ SenderStop(e)
  \/ SenderTake(e)
  \/ InitConn(e)
  \/ InitConnClosed(e)
  \/ \E a \in Addr : DialFunc(e, a)
  \/ DialFuncErr(e)
  \/ SenderClose(e)
  \/ SenderExit(e)
  \/ SenderWrite(e)

ReceiverStep(e) ==
  \/ ReceiverSend(e)
  \/ ReceiverSendErr(e)
  \/ ReceiverClose(e)
  \/ ReceiverExit(e)

(* Every goroutine has ended: the one state in which nothing more happens. *)
AllGone ==
  /\ main.pc = "ended"
  /\ cleaner.pc = "ended"
  /\ \A i \in ID : sessions[i] = NoEntry
  /\ \A e \in Entry : /\ sender[e].pc \in {"none", "ended"}
                      /\ receiver[e] \in {"none", "ended"}

Over == AllGone /\ UNCHANGED vars

Next ==
  \/ \E msg \in Msg : Receive(msg)
  \/ ReceiveErr
  \/ MainStep
  \/ CleanerStep
  \/ \E e \in Entry : \/ SenderStep(e)
                      \/ ReceiverStep(e)
                      \/ ReceiverRead(e)
                      \/ ReceiverReadErr(e)
  \/ Tick
  \/ Over

(***************************************************************************)
(* Every goroutine that can run does, a dial returns, a read on a shut     *)
(* connection or a dead link returns, and time passes.  A select whose     *)
(* cases are ready again and again takes each of them at some point.       *)
(* Nothing obliges the peers to send.                                      *)
(***************************************************************************)
Fairness ==
  /\ WF_vars(MainStep)
  /\ WF_vars(ReceiveErr /\ ~linkUp)
  /\ WF_vars(CleanerStep)
  /\ SF_vars(CleanerStop)
  /\ WF_vars(Tick)
  /\ \A e \in Entry : /\ WF_vars(SenderStep(e))
                      /\ WF_vars(ReceiverStep(e))
                      /\ WF_vars(ReceiverReadErr(e) /\ entry[e].conn = "shut")

Spec == Init /\ [][Next]_vars

FairSpec == Spec /\ Fairness
-----------------------------------------------------------------------------
TypeOK ==
  /\ linkUp \in BOOLEAN
  /\ sessions \in [ID -> Entry \cup {NoEntry}]
  /\ \A e \in Entry : /\ entry[e].id \in ID \cup {NoEntry}
                      /\ entry[e].conn \in {"none", "open", "shut"}
                      /\ entry[e].override \in Addr \cup {NoAddr}
                      /\ entry[e].age \in 0..(IdleTimeout + 1)
                      /\ Len(entry[e].queue) <= QueueLen
                      /\ Cardinality(DOMAIN entry[e].cache) <= MaxCache
  /\ main.pc \in {"receive", "create", "enqueue", "cleanup", "closing", "ended"}
  /\ cleaner.pc \in {"wait", "closing", "ended"}
  /\ \A e \in Entry : /\ sender[e].pc \in {"none", "select", "init", "dial", "close",
                                             "exit", "write", "ended"}
                      /\ receiver[e] \in {"none", "read", "send", "close", "exit", "ended"}
  /\ wrote \subseteq Addr

(***************************************************************************)
(* ExitFunc removes a session by its identifier, whoever runs it and       *)
(* however late: the entry it finds in the table is always its own, never  *)
(* a newer session's.                                                      *)
(***************************************************************************)
RemovesOwn ==
  \A i \in ID : (sessions[i] # NoEntry /\ sessions'[i] # sessions[i])
    => entry'[sessions[i]].exited

ExitRemovesOwn == [][RemovesOwn]_vars

(***************************************************************************)
(* An open connection belongs to a session that is not closed ("we need    *)
(* this lock to ensure not to create conn after session exit") and is in   *)
(* the table, where cleanup will find it.                                  *)
(***************************************************************************)
OpenIsRegistered ==
  \A e \in Entry :
    entry[e].conn = "open" => ~entry[e].closed /\ sessions[entry[e].id] = e

(***************************************************************************)
(* When Run returns, no connection of any session is left open, dials that *)
(* were under way included.                                                *)
(***************************************************************************)
RunLeavesNothingOpen ==
  main.pc = "ended" => \A e \in Entry : entry[e].conn # "open"

(***************************************************************************)
(* No datagram goes to an address the outbound policy has not accepted,    *)
(* whatever the cache, the hook and the first message were.                *)
(***************************************************************************)
WritesAllowed == wrote \subseteq Allowed

(***************************************************************************)
(* Once the connection is gone every session goes: the table empties and   *)
(* every goroutine ends.                                                   *)
(***************************************************************************)
DownEndsAll == ~linkUp ~> AllGone

(***************************************************************************)
(* A session nobody uses does not stay: it cannot be open and past the     *)
(* idle timeout for ever.                                                  *)
(***************************************************************************)
IdleIsReaped ==
  \A e \in Entry : ~<>[](entry[e].used /\ ~entry[e].closed
                             /\ entry[e].age > IdleTimeout)
=============================================================================
