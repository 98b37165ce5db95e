-------------------------- MODULE ServerUDPProofs ---------------------------
(***************************************************************************)
(* Proofs about ServerUDP, for every set of identifiers, entries and       *)
(* addresses, every policy and hook, and every length of the queues and    *)
(* the cache.                                                              *)
(***************************************************************************)
EXTENDS ServerUDP, FiniteSetTheorems, SequenceTheorems, TLAPS

(* The types of all the variables, in full.                                *)
MainPc == {"receive", "create", "enqueue", "cleanup", "closing", "ended"}

SenderPc == {"none", "select", "init", "dial", "close", "exit", "write", "ended"}

TableTyped ==
  /\ linkUp \in BOOLEAN
  /\ sessions \in [ID -> Entry \cup {NoEntry}]
  /\ wrote \in SUBSET Addr

EntryTyped == entry \in [Entry -> EntryState]

MainTyped ==
  main \in [pc : MainPc, msg : Msg \cup {NoMsg}, at : Entry \cup {NoEntry}, todo : SUBSET Entry]

CleanerTyped ==
  cleaner \in [pc : {"wait", "closing", "ended"}, at : Entry \cup {NoEntry}, todo : SUBSET Entry]

SenderTyped == sender \in [Entry -> [pc : SenderPc, msg : Msg \cup {NoMsg}]]

ReceiverTyped == receiver \in [Entry -> {"none", "read", "send", "close", "exit", "ended"}]

(* The queue and the cache keep within their sizes.                        *)
WithinSizes ==
  \A e \in Entry : /\ Len(entry[e].queue) <= QueueLen
                   /\ IsFiniteSet(DOMAIN entry[e].cache)
                   /\ Cardinality(DOMAIN entry[e].cache) <= MaxCache

(* What Run and idleCleanupLoop hold on to, and where.                     *)
MainHolds ==
  /\ main.pc \in {"create", "enqueue"} => main.msg \in Msg
  /\ main.pc = "create" => sessions[main.msg.id] = NoEntry
  /\ main.pc = "enqueue" => main.at # NoEntry
  /\ main.pc \notin {"enqueue", "closing"} => main.at = NoEntry
  /\ main.pc # "closing" => main.todo = {}

CleanerHolds == cleaner.pc # "closing" => cleaner.at = NoEntry /\ cleaner.todo = {}

(* Nothing refers to an entry that stands for no session.                  *)
UnusedIsFree ==
  \A e \in Entry : ~entry[e].used =>
    /\ sender[e].pc = "none" /\ receiver[e] = "none"
    /\ ~Refer(main, e) /\ ~Refer(cleaner, e)

(* The order of a session's life, and connLock: whoever dials holds it, so *)
(* nobody closes the session meanwhile.                                    *)
LifeInOrder ==
  \A e \in Entry :
    /\ entry[e].used => entry[e].id \in ID
    /\ entry[e].exited => entry[e].closed
    /\ entry[e].closed => entry[e].used
    /\ entry[e].locked <=> sender[e].pc = "dial"
    /\ entry[e].locked => entry[e].used /\ ~entry[e].closed
    /\ entry[e].conn = "open" => entry[e].used /\ ~entry[e].closed

(* The table has exactly the sessions whose ExitFunc has not run.          *)
TableExact ==
  /\ \A e \in Entry : entry[e].used /\ ~entry[e].exited => sessions[entry[e].id] = e
  /\ \A i \in ID : sessions[i] # NoEntry =>
       LET s == entry[sessions[i]] IN s.used /\ ~s.exited /\ s.id = i

(* ExitFunc is still to be called on a session by one goroutine at most,   *)
(* the one that closed it.                                                 *)
MainExits(e) == main.pc = "closing" /\ main.at = e

CleanerExits(e) == cleaner.at = e

SenderExits(e) == sender[e].pc = "exit"

ReceiverExits(e) == receiver[e] = "exit"

OneExit ==
  \A e \in Entry :
    /\ MainExits(e) \/ CleanerExits(e) \/ SenderExits(e) \/ ReceiverExits(e) =>
         entry[e].closed /\ ~entry[e].exited
    /\ MainExits(e) => ~CleanerExits(e) /\ ~SenderExits(e) /\ ~ReceiverExits(e)
    /\ CleanerExits(e) => ~SenderExits(e) /\ ~ReceiverExits(e)
    /\ SenderExits(e) => ~ReceiverExits(e)

(* Run's last cleanup misses no session.                                   *)
CleanupMissesNone ==
  \A e \in Entry : entry[e].used /\ ~entry[e].closed =>
    /\ main.pc # "ended"
    /\ main.pc = "closing" => e \in main.todo

(* Decisions remembered are the policy's, and the hook's address passed it. *)
PolicyKept ==
  /\ wrote \subseteq Allowed
  /\ \A e \in Entry :
       /\ entry[e].override \in Allowed \cup {NoAddr}
       /\ \A x \in DOMAIN entry[e].cache : entry[e].cache[x] => x \in Allowed
       /\ sender[e].pc \in {"init", "dial", "write"} => sender[e].msg \in Msg

IInv ==
  /\ TableTyped /\ EntryTyped
  /\ MainTyped /\ CleanerTyped /\ SenderTyped /\ ReceiverTyped
  /\ WithinSizes
  /\ MainHolds
  /\ CleanerHolds
  /\ UnusedIsFree
  /\ LifeInOrder
  /\ TableExact
  /\ OneExit
  /\ CleanupMissesNone
  /\ PolicyKept
-----------------------------------------------------------------------------
(* How a step treats the entries it does not work on, and the parts of an  *)
(* entry.                                                                  *)
OthersSame(e) == \A d \in Entry : d # e => entry'[d] = entry[d]

SameLife(e) ==
  /\ entry'[e].id = entry[e].id
  /\ entry'[e].used = entry[e].used
  /\ entry'[e].closed = entry[e].closed
  /\ entry'[e].exited = entry[e].exited
  /\ entry'[e].locked = entry[e].locked
  /\ entry'[e].conn = entry[e].conn

SamePolicy(e) ==
  entry'[e].override = entry[e].override /\ entry'[e].cache = entry[e].cache

(* CloseWithErr's first half, whether the session was closed before or not. *)
ClosedNow(e) ==
  /\ EntryTyped'
  /\ OthersSame(e)
  /\ SamePolicy(e)
  /\ ~entry[e].locked /\ ~entry'[e].locked
  /\ entry'[e].closed
  /\ entry'[e].conn # "open" \/ (entry[e].closed /\ entry'[e].conn = entry[e].conn)
  /\ entry'[e].id = entry[e].id
  /\ entry'[e].used = entry[e].used
  /\ entry'[e].exited = entry[e].exited
  /\ entry'[e].queue = entry[e].queue

(* What CloseWithErr does under connLock, once or again.                   *)
LEMMA CloseEffect ==
  ASSUME EntryTyped, NEW e \in Entry, CloseLock(e)
  PROVE  ClosedNow(e)
<1>1. entry[e] \in EntryState
  BY DEF EntryTyped
<1>2. CASE entry[e].closed
  BY <1>1, <1>2 DEF CloseLock, ClosedNow, EntryTyped, OthersSame, SamePolicy, EntryState
<1>3. CASE ~entry[e].closed
  <2>1. entry' = [entry EXCEPT ![e] = Closed(entry[e])] /\ ~entry[e].locked
    BY <1>3 DEF CloseLock
  <2>2. Closed(entry[e]) \in EntryState
    BY <1>1 DEF Closed, EntryState
  <2>3. EntryTyped' /\ OthersSame(e) /\ entry'[e] = Closed(entry[e])
    BY <2>1, <2>2 DEF EntryTyped, OthersSame
  <2>4. /\ Closed(entry[e]).closed /\ Closed(entry[e]).conn # "open"
        /\ Closed(entry[e]).locked = entry[e].locked /\ Closed(entry[e]).id = entry[e].id
        /\ Closed(entry[e]).used = entry[e].used /\ Closed(entry[e]).exited = entry[e].exited
        /\ Closed(entry[e]).override = entry[e].override
        /\ Closed(entry[e]).queue = entry[e].queue /\ Closed(entry[e]).cache = entry[e].cache
    BY <1>1 DEF Closed, EntryState
  <2> QED
    BY <2>1, <2>3, <2>4 DEF ClosedNow, SamePolicy
<1> QED
  BY <1>2, <1>3

(* Its second half.                                                        *)
ExitedNow(e) ==
  /\ EntryTyped'
  /\ OthersSame(e)
  /\ SamePolicy(e)
  /\ entry'[e].exited
  /\ entry'[e].id = entry[e].id
  /\ entry'[e].used = entry[e].used
  /\ entry'[e].closed = entry[e].closed
  /\ entry'[e].locked = entry[e].locked
  /\ entry'[e].conn = entry[e].conn
  /\ entry'[e].queue = entry[e].queue
  /\ sessions' = [sessions EXCEPT ![entry[e].id] = NoEntry]

(* What ExitFunc does to its entry and to the table.                       *)
LEMMA ExitEffect ==
  ASSUME EntryTyped, NEW e \in Entry, ExitFunc(e)
  PROVE  ExitedNow(e)
<1>1. entry[e] \in EntryState
  BY DEF EntryTyped
<1>2. entry' = [entry EXCEPT ![e] = [entry[e] EXCEPT !.exited = TRUE]]
  BY DEF ExitFunc
<1>3. [entry[e] EXCEPT !.exited = TRUE] \in EntryState
  BY <1>1 DEF EntryState
<1>4. /\ EntryTyped' /\ OthersSame(e)
      /\ entry'[e] = [entry[e] EXCEPT !.exited = TRUE]
  BY <1>2, <1>3 DEF EntryTyped, OthersSame
<1> QED
  BY <1>1, <1>4 DEF ExitedNow, SamePolicy, ExitFunc, EntryState

(* The cache.                                                              *)
LEMMA CacheIsFunction ==
  ASSUME NEW c
  PROVE  c \in Cache <=> DOMAIN c \subseteq Addr /\ c \in [DOMAIN c -> BOOLEAN]
BY Zenon DEF Cache

(* A session starts with no decision remembered.                           *)
LEMMA EmptyCache == <<>> \in Cache /\ DOMAIN <<>> = {}
<1>1. DOMAIN <<>> = {} /\ <<>> \in [{} -> BOOLEAN]
  OBVIOUS
<1> QED
  BY <1>1, CacheIsFunction

(* checkAddr remembers the policy's decision on the address it is asked    *)
(* about, within the size of the cache.                                    *)
LEMMA RememberingProperties ==
  ASSUME UDPAssumption, NEW c \in Cache, NEW a \in Addr, NEW r \in Remembering(c, a)
  PROVE  /\ r \in Cache
         /\ a \in DOMAIN r
         /\ (\A x \in DOMAIN c : c[x] => x \in Allowed)
               => \A x \in DOMAIN r : r[x] => x \in Allowed
         /\ IsFiniteSet(DOMAIN c) /\ Cardinality(DOMAIN c) <= MaxCache
               => IsFiniteSet(DOMAIN r) /\ Cardinality(DOMAIN r) <= MaxCache
<1> DEFINE decided(f) == [x \in DOMAIN f \cup {a} |-> IF x = a THEN a \in Allowed ELSE f[x]]
<1>0. c \in [DOMAIN c -> BOOLEAN] /\ DOMAIN c \subseteq Addr
  BY CacheIsFunction
<1>1. CASE a \in DOMAIN c
  BY <1>1 DEF Remembering
<1>2. ASSUME a \notin DOMAIN c, NEW old \in DOMAIN c, Cardinality(DOMAIN c) >= MaxCache,
             r = decided(Without(c, old))
      PROVE  /\ r \in Cache
             /\ a \in DOMAIN r
             /\ (\A x \in DOMAIN c : c[x] => x \in Allowed)
                   => \A x \in DOMAIN r : r[x] => x \in Allowed
             /\ IsFiniteSet(DOMAIN c) /\ Cardinality(DOMAIN c) <= MaxCache
                   => IsFiniteSet(DOMAIN r) /\ Cardinality(DOMAIN r) <= MaxCache
  <2>1. DOMAIN r = (DOMAIN c \ {old}) \cup {a}
    BY <1>2 DEF Without
  <2>2. \A x \in DOMAIN r : r[x] = IF x = a THEN a \in Allowed ELSE c[x]
    BY <1>2 DEF Without
  <2>3. r \in [DOMAIN r -> BOOLEAN] /\ DOMAIN r \subseteq Addr
    <3>1. r = [x \in DOMAIN r |-> r[x]]
      BY <1>2
    <3>2. \A x \in DOMAIN c : c[x] \in BOOLEAN
      BY <1>0
    <3>3. \A x \in DOMAIN r : r[x] \in BOOLEAN
      <4> SUFFICES ASSUME NEW x \in DOMAIN r
                   PROVE  r[x] \in BOOLEAN
        OBVIOUS
      <4>1. CASE x = a
        <5>1. r[x] = (a \in Allowed)
          BY <2>2, <4>1
        <5> QED
          BY <5>1
      <4>2. CASE x # a
        BY <2>1, <2>2, <3>2, <4>2
      <4> QED
        BY <4>1, <4>2
    <3> QED
      BY <1>0, <2>1, <3>1, <3>3
  <2>4. r \in Cache
    BY <2>3, CacheIsFunction
  <2>5. ASSUME IsFiniteSet(DOMAIN c), Cardinality(DOMAIN c) <= MaxCache
        PROVE  IsFiniteSet(DOMAIN r) /\ Cardinality(DOMAIN r) <= MaxCache
    <3>1. /\ IsFiniteSet(DOMAIN c \ {old})
          /\ Cardinality(DOMAIN c \ {old}) = Cardinality(DOMAIN c) - 1
          /\ Cardinality(DOMAIN c) \in Nat
      BY <2>5, FS_RemoveElement, FS_CardinalityType
    <3>2. /\ IsFiniteSet(DOMAIN r)
          /\ Cardinality(DOMAIN r) = Cardinality(DOMAIN c \ {old}) + 1
      BY <1>2, <2>1, <3>1, FS_AddElement
    <3> QED
      BY <2>5, <3>1, <3>2 DEF UDPAssumption
  <2> QED
    BY <2>1, <2>2, <2>4, <2>5
<1>3. ASSUME a \notin DOMAIN c, ~(Cardinality(DOMAIN c) >= MaxCache), r = decided(c)
      PROVE  /\ r \in Cache
             /\ a \in DOMAIN r
             /\ (\A x \in DOMAIN c : c[x] => x \in Allowed)
                   => \A x \in DOMAIN r : r[x] => x \in Allowed
             /\ IsFiniteSet(DOMAIN c) /\ Cardinality(DOMAIN c) <= MaxCache
                   => IsFiniteSet(DOMAIN r) /\ Cardinality(DOMAIN r) <= MaxCache
  <2>1. DOMAIN r = DOMAIN c \cup {a}
    BY <1>3
  <2>2. \A x \in DOMAIN r : r[x] = IF x = a THEN a \in Allowed ELSE c[x]
    BY <1>3
  <2>3. r \in [DOMAIN r -> BOOLEAN] /\ DOMAIN r \subseteq Addr
    <3>1. r = [x \in DOMAIN r |-> r[x]]
      BY <1>3
    <3>2. \A x \in DOMAIN c : c[x] \in BOOLEAN
      BY <1>0
    <3>3. \A x \in DOMAIN r : r[x] \in BOOLEAN
      <4> SUFFICES ASSUME NEW x \in DOMAIN r
                   PROVE  r[x] \in BOOLEAN
        OBVIOUS
      <4>1. CASE x = a
        <5>1. r[x] = (a \in Allowed)
          BY <2>2, <4>1
        <5> QED
          BY <5>1
      <4>2. CASE x # a
        BY <2>1, <2>2, <3>2, <4>2
      <4> QED
        BY <4>1, <4>2
    <3> QED
      BY <1>0, <2>1, <3>1, <3>3
  <2>4. r \in Cache
    BY <2>3, CacheIsFunction
  <2>5. ASSUME IsFiniteSet(DOMAIN c)
        PROVE  IsFiniteSet(DOMAIN r) /\ Cardinality(DOMAIN r) <= MaxCache
    <3>1. Cardinality(DOMAIN c) \in Nat /\ Cardinality(DOMAIN c) + 1 <= MaxCache
      BY <1>3, <2>5, FS_CardinalityType DEF UDPAssumption
    <3>2. IsFiniteSet(DOMAIN r) /\ Cardinality(DOMAIN r) = Cardinality(DOMAIN c) + 1
      BY <1>3, <2>1, <2>5, FS_AddElement
    <3> QED
      BY <3>1, <3>2
  <2> QED
    BY <2>1, <2>2, <2>4, <2>5
<1> QED
  BY <1>1, <1>2, <1>3 DEF Remembering

(* Records of an entry with fields replaced.                               *)
LEMMA Touched ==
  ASSUME UDPAssumption, NEW s \in EntryState
  PROVE  /\ [s EXCEPT !.age = 0] \in EntryState
         /\ \A q \in Seq(Msg) : /\ [s EXCEPT !.age = 0, !.queue = q] \in EntryState
                                /\ [s EXCEPT !.queue = q, !.age = 0]
                                      = [s EXCEPT !.age = 0, !.queue = q]
<1>1. 0 \in 0..(IdleTimeout + 1)
  BY DEF UDPAssumption
<1> QED
  BY <1>1 DEF EntryState

(* The entry Run makes for an identifier it does not know.                 *)
LEMMA NewEntry ==
  ASSUME UDPAssumption, NEW i \in ID
  PROVE  [Unused EXCEPT !.id = i, !.used = TRUE] \in EntryState
<1>1. 0 \in 0..(IdleTimeout + 1) /\ <<>> \in Seq(Msg) /\ <<>> \in Cache
  BY EmptyCache DEF UDPAssumption
<1>2. Unused \in EntryState
  BY <1>1 DEF Unused, EntryState
<1> QED
  BY <1>2 DEF EntryState

(* Run's receiving end.                                                    *)
LEMMA ReceiveHolds ==
  ASSUME UDPAssumption, IInv, NEW msg \in Msg, Receive(msg)
  PROVE  IInv'
<1> USE DEF UDPAssumption, IInv
<1>1. CASE Receive(msg)
  <2>0. UNCHANGED <<linkUp, sessions, entry, cleaner, sender, receiver, wrote>>
    BY <1>1 DEF Receive
  <2>1. /\ TableTyped' /\ EntryTyped' /\ CleanerTyped' /\ SenderTyped'
        /\ ReceiverTyped' /\ WithinSizes' /\ CleanerHolds' /\ LifeInOrder'
        /\ TableExact' /\ PolicyKept'
    BY <2>0 DEF TableTyped, EntryTyped, CleanerTyped, SenderTyped, ReceiverTyped,
        WithinSizes, CleanerHolds, LifeInOrder, TableExact, PolicyKept
  <2>2. MainTyped'
    <3>1. msg.id \in ID /\ Lookup(msg.id) \in Entry \cup {NoEntry}
      BY DEF Lookup, TableTyped, Msg
    <3>2. main' = [main EXCEPT !.msg = msg, !.at = Lookup(msg.id),
                     !.pc = IF Lookup(msg.id) = NoEntry THEN "create" ELSE "enqueue"]
      BY <1>1 DEF Receive
    <3> HIDE DEF Lookup
    <3> QED
      BY <3>1, <3>2 DEF MainTyped, MainPc
  <2>3. MainHolds'
    BY <1>1, <2>0 DEF Receive, Lookup, MainHolds, MainTyped, TableTyped
  <2>4. UnusedIsFree'
    <3>1. msg.id \in ID /\ main'.at = sessions[msg.id] /\ main'.todo = main.todo
      BY <1>1 DEF Receive, Lookup, MainTyped, Msg
    <3>2. \A d \in Entry : sessions[msg.id] = d => entry[d].used
      BY <3>1 DEF TableExact
    <3>3. \A d \in Entry : Refer(main', d) => Refer(main, d) \/ entry[d].used
      BY <3>1, <3>2 DEF Refer
    <3> QED
      BY <2>0, <3>3 DEF UnusedIsFree
  <2>5. OneExit'
    BY <1>1, <2>0 DEF Receive, Lookup, OneExit, MainExits, CleanerExits, SenderExits,
        ReceiverExits, MainHolds, CleanerHolds, UnusedIsFree, LifeInOrder, Refer,
        MainTyped, CleanerTyped, SenderTyped, ReceiverTyped
  <2>6. CleanupMissesNone'
    BY <1>1, <2>0 DEF Receive, Lookup, CleanupMissesNone, TableExact, LifeInOrder,
        MainTyped, TableTyped
  <2> QED
    BY <2>1, <2>2, <2>3, <2>4, <2>5, <2>6
<1> QED
  BY <1>1

(* Its end.                                                                *)
LEMMA ReceiveErrHolds ==
  ASSUME UDPAssumption, IInv, ReceiveErr
  PROVE  IInv'
<1> USE DEF UDPAssumption, IInv
<1>1. CASE ReceiveErr
  <2>0. UNCHANGED <<sessions, entry, cleaner, sender, receiver, wrote>>
    BY <1>1 DEF ReceiveErr
  <2>1. /\ EntryTyped' /\ CleanerTyped' /\ SenderTyped' /\ ReceiverTyped'
        /\ WithinSizes' /\ CleanerHolds' /\ LifeInOrder' /\ TableExact'
        /\ PolicyKept'
    BY <2>0 DEF EntryTyped, CleanerTyped, SenderTyped, ReceiverTyped, WithinSizes,
        CleanerHolds, LifeInOrder, TableExact, PolicyKept
  <2>2. TableTyped'
    BY <1>1, <2>0 DEF ReceiveErr, TableTyped
  <2>3. MainTyped'
    BY <1>1, <2>0 DEF ReceiveErr, MainTyped, MainPc
  <2>4. MainHolds'
    BY <1>1, <2>0 DEF ReceiveErr, MainHolds, MainTyped, TableTyped
  <2>5. UnusedIsFree'
    BY <1>1, <2>0 DEF ReceiveErr, UnusedIsFree, Refer, MainHolds, TableExact, MainTyped,
        CleanerTyped, SenderTyped, ReceiverTyped, TableTyped
  <2>6. OneExit'
    BY <1>1, <2>0 DEF ReceiveErr, OneExit, MainExits, CleanerExits, SenderExits,
        ReceiverExits, MainHolds, CleanerHolds, UnusedIsFree, LifeInOrder, Refer,
        MainTyped, CleanerTyped, SenderTyped, ReceiverTyped
  <2>7. CleanupMissesNone'
    BY <1>1, <2>0 DEF ReceiveErr, CleanupMissesNone, TableExact, LifeInOrder, MainTyped,
        TableTyped
  <2> QED
    BY <2>1, <2>2, <2>3, <2>4, <2>5, <2>6, <2>7
<1> QED
  BY <1>1

(* Run, creating sessions, handing messages over and closing.              *)
LEMMA RunHolds ==
  ASSUME UDPAssumption, IInv, MainStep
  PROVE  IInv'
<1> USE DEF UDPAssumption, IInv
<1>1. ASSUME NEW e \in Entry, Create(e)
      PROVE  IInv'
  <2>0. UNCHANGED <<linkUp, cleaner, wrote>>
    BY <1>1 DEF Create
  <2>1. CleanerTyped' /\ CleanerHolds'
    BY <2>0 DEF CleanerTyped, CleanerHolds
  <2>2. /\ EntryTyped' /\ OthersSame(e) /\ main.msg \in Msg /\ main.msg.id \in ID
        /\ entry'[e].id = main.msg.id /\ entry'[e].used /\ ~entry'[e].closed
        /\ ~entry'[e].exited /\ ~entry'[e].locked /\ entry'[e].conn = "none"
        /\ entry'[e].override = NoAddr /\ entry'[e].queue = <<>> /\ entry'[e].cache = <<>>
        /\ main.pc = "create" /\ sessions[main.msg.id] = NoEntry
        /\ ~entry[e].used \/ entry[e].exited
        /\ sender[e].pc \in {"none", "ended"} /\ receiver[e] \in {"none", "ended"}
        /\ ~Refer(main, e) /\ ~Refer(cleaner, e)
        /\ sessions' = [sessions EXCEPT ![main.msg.id] = e]
        /\ sender' = [sender EXCEPT ![e] = [pc |-> "select", msg |-> NoMsg]]
        /\ receiver' = [receiver EXCEPT ![e] = "none"]
        /\ main' = [main EXCEPT !.pc = "enqueue", !.at = e]
    <3>1. /\ main.pc = "create" /\ main.msg \in Msg /\ main.msg.id \in ID
          /\ sessions[main.msg.id] = NoEntry
      BY <1>1 DEF Create, MainHolds, Msg
    <3>2. /\ ~entry[e].used \/ entry[e].exited
          /\ sender[e].pc \in {"none", "ended"} /\ receiver[e] \in {"none", "ended"}
          /\ ~Refer(main, e) /\ ~Refer(cleaner, e)
      BY <1>1 DEF Create, Reusable, UnusedIsFree
    <3> DEFINE new == [Unused EXCEPT !.id = main.msg.id, !.used = TRUE]
    <3>3. /\ entry' = [entry EXCEPT ![e] = new]
          /\ sessions' = [sessions EXCEPT ![main.msg.id] = e]
          /\ sender' = [sender EXCEPT ![e] = [pc |-> "select", msg |-> NoMsg]]
          /\ receiver' = [receiver EXCEPT ![e] = "none"]
          /\ main' = [main EXCEPT !.pc = "enqueue", !.at = e]
      BY <1>1 DEF Create
    <3>4. /\ new.id = main.msg.id /\ new.used /\ ~new.closed /\ ~new.exited /\ ~new.locked
          /\ new.conn = "none" /\ new.override = NoAddr /\ new.queue = <<>>
          /\ new.cache = <<>>
      BY DEF Unused
    <3>5. new \in EntryState
      BY <3>1, NewEntry
    <3> HIDE DEF new
    <3>6. EntryTyped' /\ OthersSame(e) /\ entry'[e] = new
      BY <3>3, <3>5 DEF EntryTyped, OthersSame
    <3> QED
      BY <3>1, <3>2, <3>3, <3>4, <3>6
  <2>3. TableTyped'
    BY <2>0, <2>2 DEF TableTyped
  <2>4. EntryTyped'
    BY <2>2
  <2>5. MainTyped'
    BY <2>0, <2>2 DEF MainTyped, MainPc
  <2>6. SenderTyped'
    BY <2>0, <2>2 DEF SenderTyped, SenderPc
  <2>7. ReceiverTyped'
    BY <2>0, <2>2 DEF ReceiverTyped
  <2>8. WithinSizes'
    <3>1. Len(<<>>) = 0 /\ IsFiniteSet(DOMAIN <<>>) /\ Cardinality(DOMAIN <<>>) = 0
      BY EmptyCache, FS_EmptySet
    <3> QED
      BY <2>2, <3>1 DEF WithinSizes, OthersSame
  <2>9. MainHolds'
    BY <2>0, <2>2 DEF MainHolds, MainTyped, TableTyped
  <2>10. UnusedIsFree'
    BY <2>0, <2>2 DEF UnusedIsFree, Refer, MainHolds, TableExact, MainTyped, CleanerTyped,
        SenderTyped, ReceiverTyped, TableTyped, OthersSame
  <2>11. LifeInOrder'
    BY <2>0, <2>2 DEF LifeInOrder, UnusedIsFree, Refer, SenderTyped, OthersSame
  <2>12. TableExact'
    BY <2>0, <2>2 DEF TableExact, LifeInOrder, MainHolds, TableTyped, OthersSame
  <2>13. OneExit'
    BY <2>0, <2>2 DEF OneExit, MainExits, CleanerExits, SenderExits, ReceiverExits,
        MainHolds, CleanerHolds, UnusedIsFree, LifeInOrder, Refer, MainTyped,
        CleanerTyped, SenderTyped, ReceiverTyped, OthersSame
  <2>14. CleanupMissesNone'
    BY <2>0, <2>2 DEF CleanupMissesNone, TableExact, LifeInOrder, MainTyped, TableTyped,
        OthersSame
  <2>15. PolicyKept'
    BY <2>0, <2>2 DEF PolicyKept, LifeInOrder, SenderTyped, OthersSame
  <2> QED
    BY <2>1, <2>3, <2>4, <2>5, <2>6, <2>7, <2>8, <2>9, <2>10, <2>11, <2>12, <2>13, <2>14,
       <2>15
<1>2. CASE Enqueue
  <2>0. UNCHANGED <<linkUp, sessions, cleaner, sender, receiver, wrote>>
    BY <1>2 DEF Enqueue
  <2>1. /\ TableTyped' /\ CleanerTyped' /\ SenderTyped' /\ ReceiverTyped'
        /\ CleanerHolds'
    BY <2>0 DEF TableTyped, CleanerTyped, SenderTyped, ReceiverTyped, CleanerHolds
  <2>2. /\ EntryTyped'
        /\ \A d \in Entry : /\ SameLife(d) /\ SamePolicy(d)
                            /\ Len(entry'[d].queue) <= QueueLen
        /\ main.pc = "enqueue"
        /\ main' = [main EXCEPT !.pc = "receive", !.msg = NoMsg, !.at = NoEntry]
    <3> DEFINE to == main.at
               q == Append(entry[to].queue, main.msg)
    <3>1. to \in Entry /\ entry[to] \in EntryState /\ entry[to].queue \in Seq(Msg) /\ main.msg \in Msg
      BY <1>2 DEF Enqueue, MainHolds, MainTyped, EntryTyped, EntryState
    <3>2. q \in Seq(Msg) /\ Len(q) = Len(entry[to].queue) + 1 /\ Len(entry[to].queue) \in Nat
      BY <3>1
    <3>3. \/ /\ entry' = [entry EXCEPT ![to] = [entry[to] EXCEPT !.age = 0, !.queue = q]]
             /\ Len(entry[to].queue) < QueueLen
          \/ entry' = [entry EXCEPT ![to] = [entry[to] EXCEPT !.age = 0]]
      BY <1>2, <3>1 DEF Enqueue, Room
    <3>0. /\ main.pc = "enqueue"
          /\ main' = [main EXCEPT !.pc = "receive", !.msg = NoMsg, !.at = NoEntry]
      BY <1>2 DEF Enqueue
    <3> HIDE DEF to, q
    <3>4. /\ [entry[to] EXCEPT !.age = 0, !.queue = q] \in EntryState
          /\ [entry[to] EXCEPT !.age = 0] \in EntryState
      BY <3>1, <3>2, Touched
    <3>5. PICK t \in EntryState :
            /\ entry' = [entry EXCEPT ![to] = t]
            /\ Len(t.queue) <= QueueLen
            /\ t.id = entry[to].id /\ t.used = entry[to].used /\ t.closed = entry[to].closed
            /\ t.exited = entry[to].exited /\ t.locked = entry[to].locked
            /\ t.conn = entry[to].conn /\ t.override = entry[to].override
            /\ t.cache = entry[to].cache
      <4>1. CASE entry' = [entry EXCEPT ![to] = [entry[to] EXCEPT !.age = 0]]
        <5>3. PICK t : t = [entry[to] EXCEPT !.age = 0]
          OBVIOUS
        <5>1. t \in EntryState /\ entry' = [entry EXCEPT ![to] = t]
          BY <3>4, <4>1, <5>3
        <5>2. Len(entry[to].queue) <= QueueLen
          BY <3>1 DEF WithinSizes
        <5>4. /\ t.id = entry[to].id /\ t.used = entry[to].used /\ t.closed = entry[to].closed
              /\ t.exited = entry[to].exited /\ t.locked = entry[to].locked
              /\ t.conn = entry[to].conn /\ t.override = entry[to].override
              /\ t.cache = entry[to].cache
              /\ t.queue = entry[to].queue
          BY <3>1, <5>3 DEF EntryState
        <5> QED
          BY <5>1, <5>2, <5>4
      <4>2. CASE /\ entry' = [entry EXCEPT ![to] = [entry[to] EXCEPT !.age = 0, !.queue = q]]
                 /\ Len(entry[to].queue) < QueueLen
        <5>3. PICK t : t = [entry[to] EXCEPT !.age = 0, !.queue = q]
          OBVIOUS
        <5>1. t \in EntryState /\ entry' = [entry EXCEPT ![to] = t]
          BY <3>4, <4>2, <5>3
        <5>2. Len(q) <= QueueLen
          BY <3>2, <4>2
        <5>4. /\ t.id = entry[to].id /\ t.used = entry[to].used /\ t.closed = entry[to].closed
              /\ t.exited = entry[to].exited /\ t.locked = entry[to].locked
              /\ t.conn = entry[to].conn /\ t.override = entry[to].override
              /\ t.cache = entry[to].cache
              /\ t.queue = q
          BY <3>1, <5>3 DEF EntryState
        <5> QED
          BY <5>1, <5>2, <5>4
      <4> QED
        BY <3>3, <4>1, <4>2
    <3> QED
      BY <3>0, <3>1, <3>5 DEF EntryTyped, SameLife, SamePolicy, WithinSizes
  <2>3. EntryTyped'
    BY <2>2
  <2>4. MainTyped'
    BY <2>0, <2>2 DEF MainTyped, MainPc
  <2>5. WithinSizes'
    BY <2>0, <2>2 DEF WithinSizes, SameLife, SamePolicy
  <2>6. MainHolds'
    BY <2>0, <2>2 DEF MainHolds, MainTyped, TableTyped
  <2>7. UnusedIsFree'
    BY <2>0, <2>2 DEF UnusedIsFree, Refer, MainHolds, TableExact, MainTyped, CleanerTyped,
        SenderTyped, ReceiverTyped, TableTyped, SameLife, SamePolicy
  <2>8. LifeInOrder'
    BY <2>0, <2>2 DEF LifeInOrder, UnusedIsFree, Refer, SenderTyped, SameLife, SamePolicy
  <2>9. TableExact'
    BY <2>0, <2>2 DEF TableExact, LifeInOrder, MainHolds, TableTyped, SameLife, SamePolicy
  <2>10. OneExit'
    BY <2>0, <2>2 DEF OneExit, MainExits, CleanerExits, SenderExits, ReceiverExits,
        MainHolds, CleanerHolds, UnusedIsFree, LifeInOrder, Refer, MainTyped,
        CleanerTyped, SenderTyped, ReceiverTyped, SameLife, SamePolicy
  <2>11. CleanupMissesNone'
    BY <2>0, <2>2 DEF CleanupMissesNone, TableExact, LifeInOrder, MainTyped, TableTyped,
        SameLife, SamePolicy
  <2>12. PolicyKept'
    BY <2>0, <2>2 DEF PolicyKept, LifeInOrder, SenderTyped, SameLife, SamePolicy
  <2> QED
    BY <2>1, <2>3, <2>4, <2>5, <2>6, <2>7, <2>8, <2>9, <2>10, <2>11, <2>12
<1>3. CASE MainScan
  <2>0. UNCHANGED <<linkUp, sessions, entry, cleaner, sender, receiver, wrote>>
    BY <1>3 DEF MainScan
  <2>1. /\ TableTyped' /\ EntryTyped' /\ CleanerTyped' /\ SenderTyped'
        /\ ReceiverTyped' /\ WithinSizes' /\ CleanerHolds' /\ LifeInOrder'
        /\ TableExact' /\ PolicyKept'
    BY <2>0 DEF TableTyped, EntryTyped, CleanerTyped, SenderTyped, ReceiverTyped,
        WithinSizes, CleanerHolds, LifeInOrder, TableExact, PolicyKept
  <2>2. MainTyped'
    <3>1. Registered \in SUBSET Entry
      BY DEF Registered, TableTyped
    <3> QED
      BY <1>3, <3>1 DEF MainScan, MainTyped, MainPc
  <2>3. MainHolds'
    BY <1>3, <2>0 DEF MainScan, Registered, MainHolds, MainTyped, TableTyped
  <2>4. UnusedIsFree'
    BY <1>3, <2>0 DEF MainScan, Registered, UnusedIsFree, Refer, MainHolds, TableExact,
        MainTyped, CleanerTyped, SenderTyped, ReceiverTyped, TableTyped
  <2>5. OneExit'
    BY <1>3, <2>0 DEF MainScan, Registered, OneExit, MainExits, CleanerExits, SenderExits,
        ReceiverExits, MainHolds, CleanerHolds, UnusedIsFree, LifeInOrder, Refer,
        MainTyped, CleanerTyped, SenderTyped, ReceiverTyped
  <2>6. CleanupMissesNone'
    BY <1>3, <2>0 DEF MainScan, Registered, CleanupMissesNone, TableExact, LifeInOrder,
        MainTyped, TableTyped
  <2> QED
    BY <2>1, <2>2, <2>3, <2>4, <2>5, <2>6
<1>4. ASSUME NEW e \in Entry, MainClose(e)
      PROVE  IInv'
  <2>0. UNCHANGED <<linkUp, sessions, cleaner, sender, receiver, wrote>>
    BY <1>4 DEF MainClose
  <2>1. /\ TableTyped' /\ CleanerTyped' /\ SenderTyped' /\ ReceiverTyped'
        /\ CleanerHolds'
    BY <2>0 DEF TableTyped, CleanerTyped, SenderTyped, ReceiverTyped, CleanerHolds
  <2>2. ClosedNow(e)
    BY <1>4, CloseEffect DEF MainClose
  <2>3. EntryTyped'
    BY <2>2 DEF ClosedNow
  <2>4. MainTyped'
    BY <1>4, <2>0 DEF MainClose, MainTyped, MainPc
  <2>5. WithinSizes'
    BY <1>4, <2>0, <2>2 DEF MainClose, WithinSizes, ClosedNow, OthersSame, SamePolicy
  <2>6. MainHolds'
    BY <1>4, <2>0 DEF MainClose, MainHolds, MainTyped, TableTyped
  <2>7. UnusedIsFree'
    BY <1>4, <2>0, <2>2 DEF MainClose, UnusedIsFree, Refer, MainHolds, TableExact,
        MainTyped, CleanerTyped, SenderTyped, ReceiverTyped, TableTyped, ClosedNow,
        OthersSame, SamePolicy
  <2>8. LifeInOrder'
    BY <1>4, <2>0, <2>2 DEF MainClose, LifeInOrder, UnusedIsFree, Refer, SenderTyped,
        ClosedNow, OthersSame, SamePolicy
  <2>9. TableExact'
    BY <1>4, <2>0, <2>2 DEF MainClose, TableExact, LifeInOrder, MainHolds, TableTyped,
        ClosedNow, OthersSame, SamePolicy
  <2>10. OneExit'
    BY <1>4, <2>0, <2>2 DEF MainClose, OneExit, MainExits, CleanerExits, SenderExits,
        ReceiverExits, MainHolds, CleanerHolds, UnusedIsFree, LifeInOrder, Refer,
        MainTyped, CleanerTyped, SenderTyped, ReceiverTyped, ClosedNow, OthersSame,
        SamePolicy
  <2>11. CleanupMissesNone'
    BY <1>4, <2>0, <2>2 DEF MainClose, CleanupMissesNone, TableExact, LifeInOrder,
        MainTyped, TableTyped, ClosedNow, OthersSame, SamePolicy
  <2>12. PolicyKept'
    BY <1>4, <2>0, <2>2 DEF MainClose, PolicyKept, LifeInOrder, SenderTyped, ClosedNow,
        OthersSame, SamePolicy
  <2> QED
    BY <2>1, <2>3, <2>4, <2>5, <2>6, <2>7, <2>8, <2>9, <2>10, <2>11, <2>12
<1>5. CASE MainExit
  <2>0. UNCHANGED <<linkUp, cleaner, sender, receiver, wrote>>
    BY <1>5 DEF MainExit
  <2>1. /\ CleanerTyped' /\ SenderTyped' /\ ReceiverTyped' /\ CleanerHolds'
    BY <2>0 DEF CleanerTyped, SenderTyped, ReceiverTyped, CleanerHolds
  <2>2. main.at \in Entry /\ ExitedNow(main.at)
    <3>1. main.at \in Entry
      BY <1>5 DEF MainExit, MainTyped
    <3> QED
      BY <1>5, <3>1, ExitEffect DEF MainExit
  <2>3. TableTyped'
    BY <1>5, <2>0, <2>2 DEF MainExit, TableTyped, ExitedNow
  <2>4. EntryTyped'
    BY <2>2 DEF ExitedNow
  <2>5. MainTyped'
    BY <1>5, <2>0, <2>2 DEF MainExit, MainTyped, MainPc, ExitedNow
  <2>6. WithinSizes'
    BY <1>5, <2>0, <2>2 DEF MainExit, WithinSizes, ExitedNow, OthersSame, SamePolicy
  <2>7. MainHolds'
    BY <1>5, <2>0, <2>2 DEF MainExit, MainHolds, MainTyped, TableTyped, ExitedNow
  <2>8. UnusedIsFree'
    BY <1>5, <2>0, <2>2 DEF MainExit, UnusedIsFree, Refer, MainHolds, TableExact,
        MainTyped, CleanerTyped, SenderTyped, ReceiverTyped, TableTyped, ExitedNow,
        OthersSame, SamePolicy
  <2>9. LifeInOrder'
    BY <1>5, <2>0, <2>2 DEF MainExit, LifeInOrder, UnusedIsFree, Refer, SenderTyped,
        OneExit, MainExits, CleanerExits, SenderExits, ReceiverExits, ExitedNow,
        OthersSame, SamePolicy
  <2>10. TableExact'
    BY <1>5, <2>0, <2>2 DEF MainExit, TableExact, LifeInOrder, MainHolds, TableTyped,
        OneExit, MainExits, CleanerExits, SenderExits, ReceiverExits, ExitedNow,
        OthersSame, SamePolicy
  <2>11. OneExit'
    BY <1>5, <2>0, <2>2 DEF MainExit, OneExit, MainExits, CleanerExits, SenderExits,
        ReceiverExits, MainHolds, CleanerHolds, UnusedIsFree, LifeInOrder, Refer,
        MainTyped, CleanerTyped, SenderTyped, ReceiverTyped, ExitedNow, OthersSame,
        SamePolicy
  <2>12. CleanupMissesNone'
    BY <1>5, <2>0, <2>2 DEF MainExit, CleanupMissesNone, TableExact, LifeInOrder,
        MainTyped, TableTyped, ExitedNow, OthersSame, SamePolicy
  <2>13. PolicyKept'
    BY <1>5, <2>0, <2>2 DEF MainExit, PolicyKept, LifeInOrder, SenderTyped, ExitedNow,
        OthersSame, SamePolicy
  <2> QED
    BY <2>1, <2>3, <2>4, <2>5, <2>6, <2>7, <2>8, <2>9, <2>10, <2>11, <2>12, <2>13
<1>6. CASE MainEnd
  <2>0. UNCHANGED <<linkUp, sessions, entry, cleaner, sender, receiver, wrote>>
    BY <1>6 DEF MainEnd
  <2>1. /\ TableTyped' /\ EntryTyped' /\ CleanerTyped' /\ SenderTyped'
        /\ ReceiverTyped' /\ WithinSizes' /\ CleanerHolds' /\ LifeInOrder'
        /\ TableExact' /\ PolicyKept'
    BY <2>0 DEF TableTyped, EntryTyped, CleanerTyped, SenderTyped, ReceiverTyped,
        WithinSizes, CleanerHolds, LifeInOrder, TableExact, PolicyKept
  <2>2. MainTyped'
    BY <1>6, <2>0 DEF MainEnd, MainTyped, MainPc
  <2>3. MainHolds'
    BY <1>6, <2>0 DEF MainEnd, MainHolds, MainTyped, TableTyped
  <2>4. UnusedIsFree'
    BY <1>6, <2>0 DEF MainEnd, UnusedIsFree, Refer, MainHolds, TableExact, MainTyped,
        CleanerTyped, SenderTyped, ReceiverTyped, TableTyped
  <2>5. OneExit'
    BY <1>6, <2>0 DEF MainEnd, OneExit, MainExits, CleanerExits, SenderExits,
        ReceiverExits, MainHolds, CleanerHolds, UnusedIsFree, LifeInOrder, Refer,
        MainTyped, CleanerTyped, SenderTyped, ReceiverTyped
  <2>6. CleanupMissesNone'
    BY <1>6, <2>0 DEF MainEnd, CleanupMissesNone, TableExact, LifeInOrder, MainTyped,
        TableTyped
  <2> QED
    BY <2>1, <2>2, <2>3, <2>4, <2>5, <2>6
<1> QED
  BY <1>1, <1>2, <1>3, <1>4, <1>5, <1>6 DEF MainStep

(* idleCleanupLoop.                                                        *)
LEMMA CleanerKeeps ==
  ASSUME UDPAssumption, IInv, CleanerStep
  PROVE  IInv'
<1> USE DEF UDPAssumption, IInv
<1>1. CASE CleanerScan
  <2>0. UNCHANGED <<linkUp, sessions, entry, main, sender, receiver, wrote>>
    BY <1>1 DEF CleanerScan
  <2>1. /\ TableTyped' /\ EntryTyped' /\ MainTyped' /\ SenderTyped'
        /\ ReceiverTyped' /\ WithinSizes' /\ MainHolds' /\ LifeInOrder'
        /\ TableExact' /\ CleanupMissesNone' /\ PolicyKept'
    BY <2>0 DEF TableTyped, EntryTyped, MainTyped, SenderTyped, ReceiverTyped,
        WithinSizes, MainHolds, LifeInOrder, TableExact, CleanupMissesNone, PolicyKept
  <2>2. CleanerTyped'
    <3>1. {d \in Registered : Idle(d)} \in SUBSET Entry
      BY DEF Registered, TableTyped
    <3> QED
      BY <1>1, <3>1 DEF CleanerScan, CleanerTyped
  <2>3. CleanerHolds'
    BY <1>1, <2>0 DEF CleanerScan, Registered, CleanerHolds, CleanerTyped
  <2>4. UnusedIsFree'
    BY <1>1, <2>0 DEF CleanerScan, Registered, UnusedIsFree, Refer, MainHolds, TableExact,
        MainTyped, CleanerTyped, SenderTyped, ReceiverTyped, TableTyped
  <2>5. OneExit'
    BY <1>1, <2>0 DEF CleanerScan, Registered, OneExit, MainExits, CleanerExits,
        SenderExits, ReceiverExits, MainHolds, CleanerHolds, UnusedIsFree, LifeInOrder,
        Refer, MainTyped, CleanerTyped, SenderTyped, ReceiverTyped
  <2> QED
    BY <2>1, <2>2, <2>3, <2>4, <2>5
<1>2. ASSUME NEW e \in Entry, CleanerClose(e)
      PROVE  IInv'
  <2>0. UNCHANGED <<linkUp, sessions, main, sender, receiver, wrote>>
    BY <1>2 DEF CleanerClose
  <2>1. /\ TableTyped' /\ MainTyped' /\ SenderTyped' /\ ReceiverTyped'
        /\ MainHolds'
    BY <2>0 DEF TableTyped, MainTyped, SenderTyped, ReceiverTyped, MainHolds
  <2>2. ClosedNow(e)
    BY <1>2, CloseEffect DEF CleanerClose
  <2>3. EntryTyped'
    BY <2>2 DEF ClosedNow
  <2>4. CleanerTyped'
    BY <1>2, <2>0 DEF CleanerClose, CleanerTyped
  <2>5. WithinSizes'
    BY <1>2, <2>0, <2>2 DEF CleanerClose, WithinSizes, ClosedNow, OthersSame, SamePolicy
  <2>6. CleanerHolds'
    BY <1>2, <2>0 DEF CleanerClose, CleanerHolds, CleanerTyped
  <2>7. UnusedIsFree'
    BY <1>2, <2>0, <2>2 DEF CleanerClose, UnusedIsFree, Refer, MainHolds, TableExact,
        MainTyped, CleanerTyped, SenderTyped, ReceiverTyped, TableTyped, ClosedNow,
        OthersSame, SamePolicy
  <2>8. LifeInOrder'
    BY <1>2, <2>0, <2>2 DEF CleanerClose, LifeInOrder, UnusedIsFree, Refer, SenderTyped,
        ClosedNow, OthersSame, SamePolicy
  <2>9. TableExact'
    BY <1>2, <2>0, <2>2 DEF CleanerClose, TableExact, LifeInOrder, MainHolds, TableTyped,
        ClosedNow, OthersSame, SamePolicy
  <2>10. OneExit'
    BY <1>2, <2>0, <2>2 DEF CleanerClose, OneExit, MainExits, CleanerExits, SenderExits,
        ReceiverExits, MainHolds, CleanerHolds, UnusedIsFree, LifeInOrder, Refer,
        MainTyped, CleanerTyped, SenderTyped, ReceiverTyped, ClosedNow, OthersSame,
        SamePolicy
  <2>11. CleanupMissesNone'
    BY <1>2, <2>0, <2>2 DEF CleanerClose, CleanupMissesNone, TableExact, LifeInOrder,
        MainTyped, TableTyped, ClosedNow, OthersSame, SamePolicy
  <2>12. PolicyKept'
    BY <1>2, <2>0, <2>2 DEF CleanerClose, PolicyKept, LifeInOrder, SenderTyped, ClosedNow,
        OthersSame, SamePolicy
  <2> QED
    BY <2>1, <2>3, <2>4, <2>5, <2>6, <2>7, <2>8, <2>9, <2>10, <2>11, <2>12
<1>3. CASE CleanerExit
  <2>0. UNCHANGED <<linkUp, main, sender, receiver, wrote>>
    BY <1>3 DEF CleanerExit
  <2>1. MainTyped' /\ SenderTyped' /\ ReceiverTyped'
    BY <2>0 DEF MainTyped, SenderTyped, ReceiverTyped
  <2>2. cleaner.at \in Entry /\ ExitedNow(cleaner.at)
    <3>1. cleaner.at \in Entry
      BY <1>3 DEF CleanerExit, CleanerTyped
    <3> QED
      BY <1>3, <3>1, ExitEffect DEF CleanerExit
  <2>3. TableTyped'
    BY <1>3, <2>0, <2>2 DEF CleanerExit, TableTyped, ExitedNow
  <2>4. EntryTyped'
    BY <2>2 DEF ExitedNow
  <2>5. CleanerTyped'
    BY <1>3, <2>0, <2>2 DEF CleanerExit, CleanerTyped, ExitedNow
  <2>6. WithinSizes'
    BY <1>3, <2>0, <2>2 DEF CleanerExit, WithinSizes, ExitedNow, OthersSame, SamePolicy
  <2>7. MainHolds'
    BY <1>3, <2>0, <2>2 DEF CleanerExit, MainHolds, MainTyped, TableTyped, ExitedNow
  <2>8. CleanerHolds'
    BY <1>3, <2>0, <2>2 DEF CleanerExit, CleanerHolds, CleanerTyped, ExitedNow
  <2>9. UnusedIsFree'
    BY <1>3, <2>0, <2>2 DEF CleanerExit, UnusedIsFree, Refer, MainHolds, TableExact,
        MainTyped, CleanerTyped, SenderTyped, ReceiverTyped, TableTyped, ExitedNow,
        OthersSame, SamePolicy
  <2>10. LifeInOrder'
    BY <1>3, <2>0, <2>2 DEF CleanerExit, LifeInOrder, UnusedIsFree, Refer, SenderTyped,
        OneExit, MainExits, CleanerExits, SenderExits, ReceiverExits, ExitedNow,
        OthersSame, SamePolicy
  <2>11. TableExact'
    BY <1>3, <2>0, <2>2 DEF CleanerExit, TableExact, LifeInOrder, MainHolds, TableTyped,
        OneExit, MainExits, CleanerExits, SenderExits, ReceiverExits, ExitedNow,
        OthersSame, SamePolicy
  <2>12. OneExit'
    BY <1>3, <2>0, <2>2 DEF CleanerExit, OneExit, MainExits, CleanerExits, SenderExits,
        ReceiverExits, MainHolds, CleanerHolds, UnusedIsFree, LifeInOrder, Refer,
        MainTyped, CleanerTyped, SenderTyped, ReceiverTyped, ExitedNow, OthersSame,
        SamePolicy
  <2>13. CleanupMissesNone'
    BY <1>3, <2>0, <2>2 DEF CleanerExit, CleanupMissesNone, TableExact, LifeInOrder,
        MainTyped, TableTyped, ExitedNow, OthersSame, SamePolicy
  <2>14. PolicyKept'
    BY <1>3, <2>0, <2>2 DEF CleanerExit, PolicyKept, LifeInOrder, SenderTyped, ExitedNow,
        OthersSame, SamePolicy
  <2> QED
    BY <2>1, <2>3, <2>4, <2>5, <2>6, <2>7, <2>8, <2>9, <2>10, <2>11, <2>12, <2>13, <2>14
<1>4. CASE CleanerDone
  <2>0. UNCHANGED <<linkUp, sessions, entry, main, sender, receiver, wrote>>
    BY <1>4 DEF CleanerDone
  <2>1. /\ TableTyped' /\ EntryTyped' /\ MainTyped' /\ SenderTyped'
        /\ ReceiverTyped' /\ WithinSizes' /\ MainHolds' /\ LifeInOrder'
        /\ TableExact' /\ CleanupMissesNone' /\ PolicyKept'
    BY <2>0 DEF TableTyped, EntryTyped, MainTyped, SenderTyped, ReceiverTyped,
        WithinSizes, MainHolds, LifeInOrder, TableExact, CleanupMissesNone, PolicyKept
  <2>2. CleanerTyped'
    BY <1>4, <2>0 DEF CleanerDone, CleanerTyped
  <2>3. CleanerHolds'
    BY <1>4, <2>0 DEF CleanerDone, CleanerHolds, CleanerTyped
  <2>4. UnusedIsFree'
    BY <1>4, <2>0 DEF CleanerDone, UnusedIsFree, Refer, MainHolds, TableExact, MainTyped,
        CleanerTyped, SenderTyped, ReceiverTyped, TableTyped
  <2>5. OneExit'
    BY <1>4, <2>0 DEF CleanerDone, OneExit, MainExits, CleanerExits, SenderExits,
        ReceiverExits, MainHolds, CleanerHolds, UnusedIsFree, LifeInOrder, Refer,
        MainTyped, CleanerTyped, SenderTyped, ReceiverTyped
  <2> QED
    BY <2>1, <2>2, <2>3, <2>4, <2>5
<1>5. CASE CleanerStop
  <2>0. UNCHANGED <<linkUp, sessions, entry, main, sender, receiver, wrote>>
    BY <1>5 DEF CleanerStop
  <2>1. /\ TableTyped' /\ EntryTyped' /\ MainTyped' /\ SenderTyped'
        /\ ReceiverTyped' /\ WithinSizes' /\ MainHolds' /\ LifeInOrder'
        /\ TableExact' /\ CleanupMissesNone' /\ PolicyKept'
    BY <2>0 DEF TableTyped, EntryTyped, MainTyped, SenderTyped, ReceiverTyped,
        WithinSizes, MainHolds, LifeInOrder, TableExact, CleanupMissesNone, PolicyKept
  <2>2. CleanerTyped'
    BY <1>5, <2>0 DEF CleanerStop, CleanerTyped
  <2>3. CleanerHolds'
    BY <1>5, <2>0 DEF CleanerStop, CleanerHolds, CleanerTyped
  <2>4. UnusedIsFree'
    BY <1>5, <2>0 DEF CleanerStop, UnusedIsFree, Refer, MainHolds, TableExact, MainTyped,
        CleanerTyped, SenderTyped, ReceiverTyped, TableTyped
  <2>5. OneExit'
    BY <1>5, <2>0 DEF CleanerStop, OneExit, MainExits, CleanerExits, SenderExits,
        ReceiverExits, MainHolds, CleanerHolds, UnusedIsFree, LifeInOrder, Refer,
        MainTyped, CleanerTyped, SenderTyped, ReceiverTyped
  <2> QED
    BY <2>1, <2>2, <2>3, <2>4, <2>5
<1> QED
  BY <1>1, <1>2, <1>3, <1>4, <1>5 DEF CleanerStep

(* sendLoop.                                                               *)
LEMMA SenderHolds ==
  ASSUME UDPAssumption, IInv, NEW e \in Entry, SenderStep(e)
  PROVE  IInv'
<1> USE DEF UDPAssumption, IInv
<1>1. CASE SenderStop(e)
  <2>0. UNCHANGED <<linkUp, sessions, entry, main, cleaner, receiver, wrote>>
    BY <1>1 DEF SenderStop
  <2>1. /\ TableTyped' /\ EntryTyped' /\ MainTyped' /\ CleanerTyped'
        /\ ReceiverTyped' /\ WithinSizes' /\ MainHolds' /\ CleanerHolds'
        /\ TableExact' /\ CleanupMissesNone'
    BY <2>0 DEF TableTyped, EntryTyped, MainTyped, CleanerTyped, ReceiverTyped,
        WithinSizes, MainHolds, CleanerHolds, TableExact, CleanupMissesNone
  <2>2. SenderTyped'
    BY <1>1, <2>0 DEF SenderStop, SenderTyped, SenderPc
  <2>3. UnusedIsFree'
    BY <1>1, <2>0 DEF SenderStop, UnusedIsFree, Refer, MainHolds, TableExact, MainTyped,
        CleanerTyped, SenderTyped, ReceiverTyped, TableTyped
  <2>4. LifeInOrder'
    BY <1>1, <2>0 DEF SenderStop, LifeInOrder, UnusedIsFree, Refer, SenderTyped
  <2>5. OneExit'
    BY <1>1, <2>0 DEF SenderStop, OneExit, MainExits, CleanerExits, SenderExits,
        ReceiverExits, MainHolds, CleanerHolds, UnusedIsFree, LifeInOrder, Refer,
        MainTyped, CleanerTyped, SenderTyped, ReceiverTyped
  <2>6. PolicyKept'
    BY <1>1, <2>0 DEF SenderStop, PolicyKept, LifeInOrder, SenderTyped
  <2> QED
    BY <2>1, <2>2, <2>3, <2>4, <2>5, <2>6
<1>2. CASE SenderTake(e)
  <2>0. UNCHANGED <<linkUp, sessions, main, cleaner, receiver, wrote>>
    BY <1>2 DEF SenderTake
  <2>1. /\ TableTyped' /\ MainTyped' /\ CleanerTyped' /\ ReceiverTyped'
        /\ MainHolds' /\ CleanerHolds'
    BY <2>0 DEF TableTyped, MainTyped, CleanerTyped, ReceiverTyped, MainHolds,
        CleanerHolds
  <2>2. /\ EntryTyped'
        /\ \A d \in Entry : /\ SameLife(d) /\ SamePolicy(d)
                            /\ Len(entry'[d].queue) <= QueueLen
        /\ sender[e].pc = "select"
        /\ \E l \in {"select", "init", "write"}, g \in Msg \cup {NoMsg} :
             /\ sender' = [sender EXCEPT ![e] = [pc |-> l, msg |-> g]]
             /\ l # "select" => g \in Msg
    <3> DEFINE q == entry[e].queue
    <3>1. entry[e] \in EntryState /\ q \in Seq(Msg) /\ q # <<>>
      BY <1>2 DEF SenderTake, EntryTyped, EntryState
    <3>2. /\ Tail(q) \in Seq(Msg) /\ Len(q) \in Nat /\ Len(Tail(q)) = Len(q) - 1
          /\ Head(q) \in Msg /\ Len(q) <= QueueLen
      BY <3>1, HeadTailProperties DEF WithinSizes
    <3>3. entry' = [entry EXCEPT ![e] = [entry[e] EXCEPT !.age = 0, !.queue = Tail(q)]]
      BY <1>2, <3>1, <3>2, Touched DEF SenderTake
    <3>4. [entry[e] EXCEPT !.age = 0, !.queue = Tail(q)] \in EntryState
      BY <3>1, <3>2, Touched
    <3>5. /\ sender[e].pc = "select"
          /\ \E l \in {"select", "init", "write"}, g \in Msg \cup {NoMsg} :
               /\ sender' = [sender EXCEPT ![e] = [pc |-> l, msg |-> g]]
               /\ l # "select" => g \in Msg
      <4> DEFINE next == IF entry[e].conn = "none" THEN "init" ELSE "write"
      <4>1. /\ sender[e].pc = "select"
            /\ sender' = [sender EXCEPT ![e] = IF ~Head(q).whole THEN sender[e]
                                              ELSE [pc |-> next, msg |-> Head(q)]]
        BY <1>2 DEF SenderTake
      <4>2. sender[e].msg \in Msg \cup {NoMsg} /\ sender[e] = [pc |-> "select", msg |-> sender[e].msg]
        BY <4>1 DEF SenderTyped
      <4>3. next \in {"init", "write"}
        OBVIOUS
      <4> HIDE DEF next, q
      <4>4. CASE Head(q).whole
        BY <3>2, <4>1, <4>3, <4>4
      <4>5. CASE ~Head(q).whole
        BY <4>1, <4>2, <4>5
      <4> QED
        BY <4>4, <4>5
    <3>6. Len(Tail(q)) <= QueueLen
      BY <3>2 DEF UDPAssumption
    <3> DEFINE r == Tail(q)
    <3> HIDE DEF r
    <3>7. /\ entry' = [entry EXCEPT ![e] = [entry[e] EXCEPT !.age = 0, !.queue = r]]
          /\ [entry[e] EXCEPT !.age = 0, !.queue = r] \in EntryState /\ Len(r) <= QueueLen
      BY <3>3, <3>4, <3>6 DEF r
    <3> QED
      BY <3>1, <3>5, <3>7 DEF EntryTyped, EntryState, SameLife, SamePolicy, WithinSizes
  <2>3. EntryTyped'
    BY <2>2
  <2>4. SenderTyped'
    BY <2>0, <2>2 DEF SenderTyped, SenderPc
  <2>5. WithinSizes'
    BY <2>0, <2>2 DEF WithinSizes, SameLife, SamePolicy
  <2>6. UnusedIsFree'
    BY <2>0, <2>2 DEF UnusedIsFree, Refer, MainHolds, TableExact, MainTyped, CleanerTyped,
        SenderTyped, ReceiverTyped, TableTyped, SameLife, SamePolicy
  <2>7. LifeInOrder'
    BY <2>0, <2>2 DEF LifeInOrder, UnusedIsFree, Refer, SenderTyped, SameLife, SamePolicy
  <2>8. TableExact'
    BY <2>0, <2>2 DEF TableExact, LifeInOrder, MainHolds, TableTyped, SameLife, SamePolicy
  <2>9. OneExit'
    BY <2>0, <2>2 DEF OneExit, MainExits, CleanerExits, SenderExits, ReceiverExits,
        MainHolds, CleanerHolds, UnusedIsFree, LifeInOrder, Refer, MainTyped,
        CleanerTyped, SenderTyped, ReceiverTyped, SameLife, SamePolicy
  <2>10. CleanupMissesNone'
    BY <2>0, <2>2 DEF CleanupMissesNone, TableExact, LifeInOrder, MainTyped, TableTyped,
        SameLife, SamePolicy
  <2>11. PolicyKept'
    BY <2>0, <2>2 DEF PolicyKept, LifeInOrder, SenderTyped, SameLife, SamePolicy
  <2> QED
    BY <2>1, <2>3, <2>4, <2>5, <2>6, <2>7, <2>8, <2>9, <2>10, <2>11
<1>3. CASE InitConn(e)
  <2>0. UNCHANGED <<linkUp, sessions, main, cleaner, receiver, wrote>>
    BY <1>3 DEF InitConn
  <2>1. /\ TableTyped' /\ MainTyped' /\ CleanerTyped' /\ ReceiverTyped'
        /\ MainHolds' /\ CleanerHolds'
    BY <2>0 DEF TableTyped, MainTyped, CleanerTyped, ReceiverTyped, MainHolds,
        CleanerHolds
  <2>2. /\ EntryTyped' /\ OthersSame(e) /\ SamePolicy(e)
        /\ entry'[e].locked = TRUE /\ entry'[e].id = entry[e].id
        /\ entry'[e].used = entry[e].used /\ entry'[e].closed = entry[e].closed
        /\ entry'[e].exited = entry[e].exited /\ entry'[e].conn = entry[e].conn
        /\ entry'[e].queue = entry[e].queue
    <3>1. entry[e] \in EntryState
      BY DEF EntryTyped
    <3>2. entry' = [entry EXCEPT ![e] = [entry[e] EXCEPT !.locked = TRUE]]
      BY <1>3 DEF InitConn
    <3>3. [entry[e] EXCEPT !.locked = TRUE] \in EntryState
      BY <3>1 DEF EntryState
    <3> QED
      BY <3>1, <3>2, <3>3 DEF EntryTyped, EntryState, OthersSame, SamePolicy
  <2>3. EntryTyped'
    BY <2>2
  <2>4. SenderTyped'
    BY <1>3, <2>0 DEF InitConn, MayDial, SenderTyped, SenderPc
  <2>5. WithinSizes'
    BY <1>3, <2>0, <2>2 DEF InitConn, MayDial, WithinSizes, OthersSame, SamePolicy
  <2>6. UnusedIsFree'
    BY <1>3, <2>0, <2>2 DEF InitConn, MayDial, UnusedIsFree, Refer, MainHolds, TableExact,
        MainTyped, CleanerTyped, SenderTyped, ReceiverTyped, TableTyped, OthersSame,
        SamePolicy
  <2>7. LifeInOrder'
    BY <1>3, <2>0, <2>2 DEF InitConn, MayDial, LifeInOrder, UnusedIsFree, Refer,
        SenderTyped, OthersSame, SamePolicy
  <2>8. TableExact'
    BY <1>3, <2>0, <2>2 DEF InitConn, MayDial, TableExact, LifeInOrder, MainHolds,
        TableTyped, OthersSame, SamePolicy
  <2>9. OneExit'
    BY <1>3, <2>0, <2>2 DEF InitConn, MayDial, OneExit, MainExits, CleanerExits,
        SenderExits, ReceiverExits, MainHolds, CleanerHolds, UnusedIsFree, LifeInOrder,
        Refer, MainTyped, CleanerTyped, SenderTyped, ReceiverTyped, OthersSame, SamePolicy
  <2>10. CleanupMissesNone'
    BY <1>3, <2>0, <2>2 DEF InitConn, MayDial, CleanupMissesNone, TableExact, LifeInOrder,
        MainTyped, TableTyped, OthersSame, SamePolicy
  <2>11. PolicyKept'
    BY <1>3, <2>0, <2>2 DEF InitConn, MayDial, PolicyKept, LifeInOrder, SenderTyped,
        OthersSame, SamePolicy
  <2> QED
    BY <2>1, <2>3, <2>4, <2>5, <2>6, <2>7, <2>8, <2>9, <2>10, <2>11
<1>4. CASE InitConnClosed(e)
  <2>0. UNCHANGED <<linkUp, sessions, entry, main, cleaner, receiver, wrote>>
    BY <1>4 DEF InitConnClosed
  <2>1. /\ TableTyped' /\ EntryTyped' /\ MainTyped' /\ CleanerTyped'
        /\ ReceiverTyped' /\ WithinSizes' /\ MainHolds' /\ CleanerHolds'
        /\ TableExact' /\ CleanupMissesNone'
    BY <2>0 DEF TableTyped, EntryTyped, MainTyped, CleanerTyped, ReceiverTyped,
        WithinSizes, MainHolds, CleanerHolds, TableExact, CleanupMissesNone
  <2>2. SenderTyped'
    BY <1>4, <2>0 DEF InitConnClosed, SenderTyped, SenderPc
  <2>3. UnusedIsFree'
    BY <1>4, <2>0 DEF InitConnClosed, UnusedIsFree, Refer, MainHolds, TableExact,
        MainTyped, CleanerTyped, SenderTyped, ReceiverTyped, TableTyped
  <2>4. LifeInOrder'
    BY <1>4, <2>0 DEF InitConnClosed, LifeInOrder, UnusedIsFree, Refer, SenderTyped
  <2>5. OneExit'
    BY <1>4, <2>0 DEF InitConnClosed, OneExit, MainExits, CleanerExits, SenderExits,
        ReceiverExits, MainHolds, CleanerHolds, UnusedIsFree, LifeInOrder, Refer,
        MainTyped, CleanerTyped, SenderTyped, ReceiverTyped
  <2>6. PolicyKept'
    BY <1>4, <2>0 DEF InitConnClosed, PolicyKept, LifeInOrder, SenderTyped
  <2> QED
    BY <2>1, <2>2, <2>3, <2>4, <2>5, <2>6
<1>5. ASSUME NEW a \in Addr, DialFunc(e, a)
      PROVE  IInv'
  <2>0. UNCHANGED <<linkUp, sessions, main, cleaner, wrote>>
    BY <1>5 DEF DialFunc
  <2>1. /\ TableTyped' /\ MainTyped' /\ CleanerTyped' /\ MainHolds'
        /\ CleanerHolds'
    BY <2>0 DEF TableTyped, MainTyped, CleanerTyped, MainHolds, CleanerHolds
  <2>2. /\ EntryTyped' /\ OthersSame(e) /\ a \in Allowed /\ sender[e].msg.addr \in Addr
        /\ ~entry'[e].locked /\ entry'[e].conn = "open" /\ entry'[e].id = entry[e].id
        /\ entry'[e].used = entry[e].used /\ entry'[e].closed = entry[e].closed
        /\ entry'[e].exited = entry[e].exited /\ entry'[e].queue = entry[e].queue
        /\ entry'[e].override \in {a, NoAddr}
        /\ \/ entry'[e].cache = entry[e].cache
           \/ a = sender[e].msg.addr /\ entry'[e].cache = [x \in {a} |-> TRUE]
        /\ sender[e].pc = "dial"
        /\ sender' = [sender EXCEPT ![e].pc = "write"]
        /\ receiver' = [receiver EXCEPT ![e] = "read"]
    <3> DEFINE first == sender[e].msg.addr
               over == IF a = first THEN NoAddr ELSE a
               kept == IF a = first THEN [x \in {first} |-> TRUE] ELSE entry[e].cache
    <3>0. PICK new : new = [entry[e] EXCEPT !.locked = FALSE, !.conn = "open", !.override = over,
                                            !.cache = kept]
      OBVIOUS
    <3>1. entry[e] \in EntryState
      BY DEF EntryTyped
    <3>2. /\ entry' = [entry EXCEPT ![e] = new] /\ a \in Allowed
          /\ sender[e].pc = "dial"
          /\ sender' = [sender EXCEPT ![e].pc = "write"]
          /\ receiver' = [receiver EXCEPT ![e] = "read"]
      BY <1>5, <3>0 DEF DialFunc
    <3>3. first \in Addr
      BY <1>5 DEF DialFunc, PolicyKept, Msg
    <3>4. over \in {a, NoAddr} /\ kept \in Cache
      <4>1. [x \in {first} |-> TRUE] \in [{first} -> BOOLEAN] /\ {first} \in SUBSET Addr
        BY <3>3
      <4>2. [x \in {first} |-> TRUE] \in Cache
        BY <4>1, Zenon DEF Cache
      <4>3. entry[e].cache \in Cache
        BY <3>1 DEF EntryState
      <4> QED
        BY <4>2, <4>3
    <3>5. \/ kept = entry[e].cache
          \/ a = first /\ kept = [x \in {a} |-> TRUE]
      OBVIOUS
    <3> HIDE DEF over, kept
    <3>6. /\ new \in EntryState
          /\ ~new.locked /\ new.conn = "open" /\ new.override = over /\ new.cache = kept
          /\ new.id = entry[e].id /\ new.used = entry[e].used /\ new.closed = entry[e].closed
          /\ new.exited = entry[e].exited /\ new.queue = entry[e].queue
      <4>1. over \in Addr \cup {NoAddr}
        BY <3>2, <3>4 DEF UDPAssumption
      <4>3. kept \in Cache
        BY <3>4
      <4> QED
        BY <3>1, <3>0, <4>1, <4>3 DEF EntryState
    <3>7. EntryTyped' /\ OthersSame(e) /\ entry'[e] = new
      BY <3>2, <3>6 DEF EntryTyped, OthersSame
    <3> QED
      BY <3>2, <3>3, <3>4, <3>5, <3>6, <3>7
  <2>3. EntryTyped'
    BY <2>2
  <2>4. SenderTyped'
    BY <2>0, <2>2 DEF SenderTyped, SenderPc
  <2>5. ReceiverTyped'
    BY <2>0, <2>2 DEF ReceiverTyped
  <2>6. WithinSizes'
    <3>1. DOMAIN [x \in {a} |-> TRUE] = {a} /\ IsFiniteSet({a}) /\ Cardinality({a}) = 1
      BY FS_Singleton
    <3> QED
      BY <2>2, <3>1 DEF WithinSizes, OthersSame
  <2>7. UnusedIsFree'
    BY <2>0, <2>2 DEF UnusedIsFree, Refer, MainHolds, TableExact, MainTyped, CleanerTyped,
        SenderTyped, ReceiverTyped, TableTyped, OthersSame
  <2>8. LifeInOrder'
    BY <2>0, <2>2 DEF LifeInOrder, UnusedIsFree, Refer, SenderTyped, OthersSame
  <2>9. TableExact'
    BY <2>0, <2>2 DEF TableExact, LifeInOrder, MainHolds, TableTyped, OthersSame
  <2>10. OneExit'
    BY <2>0, <2>2 DEF OneExit, MainExits, CleanerExits, SenderExits, ReceiverExits,
        MainHolds, CleanerHolds, UnusedIsFree, LifeInOrder, Refer, MainTyped,
        CleanerTyped, SenderTyped, ReceiverTyped, OthersSame
  <2>11. CleanupMissesNone'
    BY <2>0, <2>2 DEF CleanupMissesNone, TableExact, LifeInOrder, MainTyped, TableTyped,
        OthersSame
  <2>12. PolicyKept'
    BY <2>0, <2>2 DEF PolicyKept, LifeInOrder, SenderTyped, OthersSame
  <2> QED
    BY <2>1, <2>3, <2>4, <2>5, <2>6, <2>7, <2>8, <2>9, <2>10, <2>11, <2>12
<1>6. CASE DialFuncErr(e)
  <2>0. UNCHANGED <<linkUp, sessions, main, cleaner, receiver, wrote>>
    BY <1>6 DEF DialFuncErr
  <2>1. /\ TableTyped' /\ MainTyped' /\ CleanerTyped' /\ ReceiverTyped'
        /\ MainHolds' /\ CleanerHolds'
    BY <2>0 DEF TableTyped, MainTyped, CleanerTyped, ReceiverTyped, MainHolds,
        CleanerHolds
  <2>2. /\ EntryTyped' /\ OthersSame(e) /\ SamePolicy(e)
        /\ entry'[e].locked = FALSE /\ entry'[e].id = entry[e].id
        /\ entry'[e].used = entry[e].used /\ entry'[e].closed = entry[e].closed
        /\ entry'[e].exited = entry[e].exited /\ entry'[e].conn = entry[e].conn
        /\ entry'[e].queue = entry[e].queue
    <3>1. entry[e] \in EntryState
      BY DEF EntryTyped
    <3>2. entry' = [entry EXCEPT ![e] = [entry[e] EXCEPT !.locked = FALSE]]
      BY <1>6 DEF DialFuncErr
    <3>3. [entry[e] EXCEPT !.locked = FALSE] \in EntryState
      BY <3>1 DEF EntryState
    <3> QED
      BY <3>1, <3>2, <3>3 DEF EntryTyped, EntryState, OthersSame, SamePolicy
  <2>3. EntryTyped'
    BY <2>2
  <2>4. SenderTyped'
    BY <1>6, <2>0 DEF DialFuncErr, SenderTyped, SenderPc
  <2>5. WithinSizes'
    BY <1>6, <2>0, <2>2 DEF DialFuncErr, WithinSizes, OthersSame, SamePolicy
  <2>6. UnusedIsFree'
    BY <1>6, <2>0, <2>2 DEF DialFuncErr, UnusedIsFree, Refer, MainHolds, TableExact,
        MainTyped, CleanerTyped, SenderTyped, ReceiverTyped, TableTyped, OthersSame,
        SamePolicy
  <2>7. LifeInOrder'
    BY <1>6, <2>0, <2>2 DEF DialFuncErr, LifeInOrder, UnusedIsFree, Refer, SenderTyped,
        OthersSame, SamePolicy
  <2>8. TableExact'
    BY <1>6, <2>0, <2>2 DEF DialFuncErr, TableExact, LifeInOrder, MainHolds, TableTyped,
        OthersSame, SamePolicy
  <2>9. OneExit'
    BY <1>6, <2>0, <2>2 DEF DialFuncErr, OneExit, MainExits, CleanerExits, SenderExits,
        ReceiverExits, MainHolds, CleanerHolds, UnusedIsFree, LifeInOrder, Refer,
        MainTyped, CleanerTyped, SenderTyped, ReceiverTyped, OthersSame, SamePolicy
  <2>10. CleanupMissesNone'
    BY <1>6, <2>0, <2>2 DEF DialFuncErr, CleanupMissesNone, TableExact, LifeInOrder,
        MainTyped, TableTyped, OthersSame, SamePolicy
  <2>11. PolicyKept'
    BY <1>6, <2>0, <2>2 DEF DialFuncErr, PolicyKept, LifeInOrder, SenderTyped, OthersSame,
        SamePolicy
  <2> QED
    BY <2>1, <2>3, <2>4, <2>5, <2>6, <2>7, <2>8, <2>9, <2>10, <2>11
<1>7. CASE SenderClose(e)
  <2>0. UNCHANGED <<linkUp, sessions, main, cleaner, receiver, wrote>>
    BY <1>7 DEF SenderClose
  <2>1. /\ TableTyped' /\ MainTyped' /\ CleanerTyped' /\ ReceiverTyped'
        /\ MainHolds' /\ CleanerHolds'
    BY <2>0 DEF TableTyped, MainTyped, CleanerTyped, ReceiverTyped, MainHolds,
        CleanerHolds
  <2>2. ClosedNow(e)
    BY <1>7, CloseEffect DEF SenderClose
  <2>3. EntryTyped'
    BY <2>2 DEF ClosedNow
  <2>4. SenderTyped'
    BY <1>7, <2>0 DEF SenderClose, SenderTyped, SenderPc
  <2>5. WithinSizes'
    BY <1>7, <2>0, <2>2 DEF SenderClose, WithinSizes, ClosedNow, OthersSame, SamePolicy
  <2>6. UnusedIsFree'
    BY <1>7, <2>0, <2>2 DEF SenderClose, UnusedIsFree, Refer, MainHolds, TableExact,
        MainTyped, CleanerTyped, SenderTyped, ReceiverTyped, TableTyped, ClosedNow,
        OthersSame, SamePolicy
  <2>7. LifeInOrder'
    BY <1>7, <2>0, <2>2 DEF SenderClose, LifeInOrder, UnusedIsFree, Refer, SenderTyped,
        ClosedNow, OthersSame, SamePolicy
  <2>8. TableExact'
    BY <1>7, <2>0, <2>2 DEF SenderClose, TableExact, LifeInOrder, MainHolds, TableTyped,
        ClosedNow, OthersSame, SamePolicy
  <2>9. OneExit'
    BY <1>7, <2>0, <2>2 DEF SenderClose, OneExit, MainExits, CleanerExits, SenderExits,
        ReceiverExits, MainHolds, CleanerHolds, UnusedIsFree, LifeInOrder, Refer,
        MainTyped, CleanerTyped, SenderTyped, ReceiverTyped, ClosedNow, OthersSame,
        SamePolicy
  <2>10. CleanupMissesNone'
    BY <1>7, <2>0, <2>2 DEF SenderClose, CleanupMissesNone, TableExact, LifeInOrder,
        MainTyped, TableTyped, ClosedNow, OthersSame, SamePolicy
  <2>11. PolicyKept'
    BY <1>7, <2>0, <2>2 DEF SenderClose, PolicyKept, LifeInOrder, SenderTyped, ClosedNow,
        OthersSame, SamePolicy
  <2> QED
    BY <2>1, <2>3, <2>4, <2>5, <2>6, <2>7, <2>8, <2>9, <2>10, <2>11
<1>8. CASE SenderExit(e)
  <2>0. UNCHANGED <<linkUp, main, cleaner, receiver, wrote>>
    BY <1>8 DEF SenderExit
  <2>1. /\ MainTyped' /\ CleanerTyped' /\ ReceiverTyped' /\ CleanerHolds'
    BY <2>0 DEF MainTyped, CleanerTyped, ReceiverTyped, CleanerHolds
  <2>2. ExitedNow(e)
    BY <1>8, ExitEffect DEF SenderExit
  <2>3. TableTyped'
    BY <1>8, <2>0, <2>2 DEF SenderExit, TableTyped, ExitedNow
  <2>4. EntryTyped'
    BY <2>2 DEF ExitedNow
  <2>5. SenderTyped'
    BY <1>8, <2>0, <2>2 DEF SenderExit, SenderTyped, SenderPc, ExitedNow
  <2>6. WithinSizes'
    BY <1>8, <2>0, <2>2 DEF SenderExit, WithinSizes, ExitedNow, OthersSame, SamePolicy
  <2>7. MainHolds'
    BY <1>8, <2>0, <2>2 DEF SenderExit, MainHolds, MainTyped, TableTyped, ExitedNow
  <2>8. UnusedIsFree'
    BY <1>8, <2>0, <2>2 DEF SenderExit, UnusedIsFree, Refer, MainHolds, TableExact,
        MainTyped, CleanerTyped, SenderTyped, ReceiverTyped, TableTyped, ExitedNow,
        OthersSame, SamePolicy
  <2>9. LifeInOrder'
    BY <1>8, <2>0, <2>2 DEF SenderExit, LifeInOrder, UnusedIsFree, Refer, SenderTyped,
        OneExit, MainExits, CleanerExits, SenderExits, ReceiverExits, ExitedNow,
        OthersSame, SamePolicy
  <2>10. TableExact'
    BY <1>8, <2>0, <2>2 DEF SenderExit, TableExact, LifeInOrder, MainHolds, TableTyped,
        OneExit, MainExits, CleanerExits, SenderExits, ReceiverExits, ExitedNow,
        OthersSame, SamePolicy
  <2>11. OneExit'
    BY <1>8, <2>0, <2>2 DEF SenderExit, OneExit, MainExits, CleanerExits, SenderExits,
        ReceiverExits, MainHolds, CleanerHolds, UnusedIsFree, LifeInOrder, Refer,
        MainTyped, CleanerTyped, SenderTyped, ReceiverTyped, ExitedNow, OthersSame,
        SamePolicy
  <2>12. CleanupMissesNone'
    BY <1>8, <2>0, <2>2 DEF SenderExit, CleanupMissesNone, TableExact, LifeInOrder,
        MainTyped, TableTyped, ExitedNow, OthersSame, SamePolicy
  <2>13. PolicyKept'
    BY <1>8, <2>0, <2>2 DEF SenderExit, PolicyKept, LifeInOrder, SenderTyped, ExitedNow,
        OthersSame, SamePolicy
  <2> QED
    BY <2>1, <2>3, <2>4, <2>5, <2>6, <2>7, <2>8, <2>9, <2>10, <2>11, <2>12, <2>13
<1>9. CASE SenderWrite(e)
  <2>0. UNCHANGED <<linkUp, sessions, main, cleaner, receiver>>
    BY <1>9 DEF SenderWrite
  <2>1. /\ MainTyped' /\ CleanerTyped' /\ ReceiverTyped' /\ MainHolds'
        /\ CleanerHolds'
    BY <2>0 DEF MainTyped, CleanerTyped, ReceiverTyped, MainHolds, CleanerHolds
  <2>2. /\ EntryTyped' /\ sender[e].msg.addr \in Addr
        /\ \A d \in Entry : /\ SameLife(d) /\ entry'[d].override = entry[d].override
                            /\ entry'[d].queue = entry[d].queue
                            /\ d # e => entry'[d].cache = entry[d].cache
        /\ \/ entry[e].override # NoAddr /\ entry'[e].cache = entry[e].cache
           \/ /\ entry[e].override = NoAddr
              /\ entry'[e].cache \in Remembering(entry[e].cache, sender[e].msg.addr)
        /\ wrote' = IF entry[e].conn = "open" /\ checkAddr(entry[e], sender[e].msg, entry'[e].cache)
                    THEN wrote \cup {IF entry[e].override = NoAddr THEN sender[e].msg.addr
                                     ELSE entry[e].override}
                    ELSE wrote
        /\ sender[e].pc = "write"
        /\ sender' = [sender EXCEPT ![e] = [pc |-> "select", msg |-> NoMsg]]
    <3>0. /\ sender[e].pc = "write"
          /\ sender' = [sender EXCEPT ![e] = [pc |-> "select", msg |-> NoMsg]]
      BY <1>9 DEF SenderWrite
    <3>1. entry[e] \in EntryState
      BY DEF EntryTyped
    <3>2. sender[e].msg.addr \in Addr
      BY <1>9 DEF SenderWrite, PolicyKept, Msg
    <3>3. PICK c \in IF entry[e].override = NoAddr
                     THEN Remembering(entry[e].cache, sender[e].msg.addr) ELSE {entry[e].cache} :
                /\ entry' = [entry EXCEPT ![e].cache = c]
                /\ wrote' = IF entry[e].conn = "open" /\ checkAddr(entry[e], sender[e].msg, c)
                            THEN wrote \cup {IF entry[e].override = NoAddr THEN sender[e].msg.addr
                                             ELSE entry[e].override}
                            ELSE wrote
      BY <1>9, Zenon DEF SenderWrite
    <3>4. c \in Cache
      BY <3>1, <3>2, <3>3, RememberingProperties DEF EntryState
    <3>5. entry' = [entry EXCEPT ![e] = [entry[e] EXCEPT !.cache = c]]
      BY <3>3
    <3>6. [entry[e] EXCEPT !.cache = c] \in EntryState
      BY <3>1, <3>4 DEF EntryState
    <3>7. EntryTyped' /\ OthersSame(e) /\ entry'[e] = [entry[e] EXCEPT !.cache = c]
      BY <3>5, <3>6 DEF EntryTyped, OthersSame
    <3>8. entry'[e].cache = c /\ SameLife(e)
      BY <3>1, <3>7 DEF EntryState, SameLife
    <3>9. /\ \/ entry[e].override # NoAddr /\ c = entry[e].cache
             \/ /\ entry[e].override = NoAddr
                /\ c \in Remembering(entry[e].cache, sender[e].msg.addr)
      BY <3>3
    <3>10. /\ entry'[e].override = entry[e].override /\ entry'[e].queue = entry[e].queue
      BY <3>1, <3>7 DEF EntryState
    <3>11. \A d \in Entry : /\ SameLife(d) /\ entry'[d].override = entry[d].override
                            /\ entry'[d].queue = entry[d].queue
                            /\ d # e => entry'[d].cache = entry[d].cache
      BY <3>7, <3>8, <3>10 DEF SameLife, OthersSame
    <3> QED
      BY <3>0, <3>2, <3>3, <3>7, <3>8, <3>9, <3>11
  <2>3. TableTyped'
    BY <2>0, <2>2 DEF TableTyped, PolicyKept, EntryTyped, EntryState
  <2>4. EntryTyped'
    BY <2>2
  <2>5. SenderTyped'
    BY <2>0, <2>2 DEF SenderTyped, SenderPc
  <2>6. WithinSizes'
    <3>1. entry[e].cache \in Cache
      BY DEF EntryTyped, EntryState
    <3> QED
      BY <2>2, <3>1, RememberingProperties DEF WithinSizes
  <2>7. UnusedIsFree'
    BY <2>0, <2>2 DEF UnusedIsFree, Refer, MainHolds, TableExact, MainTyped, CleanerTyped,
        SenderTyped, ReceiverTyped, TableTyped, SameLife
  <2>8. LifeInOrder'
    BY <2>0, <2>2 DEF LifeInOrder, UnusedIsFree, Refer, SenderTyped, SameLife
  <2>9. TableExact'
    BY <2>0, <2>2 DEF TableExact, LifeInOrder, MainHolds, TableTyped, SameLife
  <2>10. OneExit'
    BY <2>0, <2>2 DEF OneExit, MainExits, CleanerExits, SenderExits, ReceiverExits,
        MainHolds, CleanerHolds, UnusedIsFree, LifeInOrder, Refer, MainTyped,
        CleanerTyped, SenderTyped, ReceiverTyped, SameLife
  <2>11. CleanupMissesNone'
    BY <2>0, <2>2 DEF CleanupMissesNone, TableExact, LifeInOrder, MainTyped, TableTyped,
        SameLife
  <2>12. PolicyKept'
    <3>1. entry[e].cache \in Cache
      BY DEF EntryTyped, EntryState
    <3>2. \A x \in DOMAIN entry'[e].cache : entry'[e].cache[x] => x \in Allowed
      BY <2>2, <3>1, RememberingProperties DEF PolicyKept
    <3>3. wrote' \subseteq Allowed
      <4>1. CASE entry[e].override # NoAddr
        BY <2>2, <4>1 DEF PolicyKept
      <4>2. CASE entry[e].override = NoAddr
        <5>1. sender[e].msg.addr \in DOMAIN entry'[e].cache
          BY <2>2, <3>1, <4>2, RememberingProperties
        <5>2. checkAddr(entry[e], sender[e].msg, entry'[e].cache) => sender[e].msg.addr \in Allowed
          BY <3>2, <4>2, <5>1 DEF checkAddr
        <5> QED
          BY <2>2, <4>2, <5>2 DEF PolicyKept
      <4> QED
        BY <4>1, <4>2
    <3>4. \A d \in Entry : d # e => entry'[d].cache = entry[d].cache
      BY <2>2
    <3>5. \A d \in Entry : sender'[d].pc \in {"init", "dial", "write"} => sender'[d].msg \in Msg
      BY <2>2 DEF PolicyKept, SenderTyped
    <3> QED
      BY <2>2, <3>2, <3>3, <3>4, <3>5 DEF PolicyKept
  <2> QED
    BY <2>1, <2>3, <2>4, <2>5, <2>6, <2>7, <2>8, <2>9, <2>10, <2>11, <2>12
<1> QED
  BY <1>1, <1>2, <1>3, <1>4, <1>5, <1>6, <1>7, <1>8, <1>9 DEF SenderStep

(* receiveLoop.                                                            *)
LEMMA ReceiverHolds ==
  ASSUME UDPAssumption, IInv, NEW e \in Entry,
         ReceiverStep(e) \/ ReceiverRead(e) \/ ReceiverReadErr(e)
  PROVE  IInv'
<1> USE DEF UDPAssumption, IInv
<1>1. CASE ReceiverSend(e)
  <2>0. UNCHANGED <<linkUp, sessions, entry, main, cleaner, sender, wrote>>
    BY <1>1 DEF ReceiverSend
  <2>1. /\ TableTyped' /\ EntryTyped' /\ MainTyped' /\ CleanerTyped'
        /\ SenderTyped' /\ WithinSizes' /\ MainHolds' /\ CleanerHolds'
        /\ LifeInOrder' /\ TableExact' /\ CleanupMissesNone' /\ PolicyKept'
    BY <2>0 DEF TableTyped, EntryTyped, MainTyped, CleanerTyped, SenderTyped, WithinSizes,
        MainHolds, CleanerHolds, LifeInOrder, TableExact, CleanupMissesNone, PolicyKept
  <2>2. ReceiverTyped'
    BY <1>1, <2>0 DEF ReceiverSend, ReceiverTyped
  <2>3. UnusedIsFree'
    BY <1>1, <2>0 DEF ReceiverSend, UnusedIsFree, Refer, MainHolds, TableExact, MainTyped,
        CleanerTyped, SenderTyped, ReceiverTyped, TableTyped
  <2>4. OneExit'
    BY <1>1, <2>0 DEF ReceiverSend, OneExit, MainExits, CleanerExits, SenderExits,
        ReceiverExits, MainHolds, CleanerHolds, UnusedIsFree, LifeInOrder, Refer,
        MainTyped, CleanerTyped, SenderTyped, ReceiverTyped
  <2> QED
    BY <2>1, <2>2, <2>3, <2>4
<1>2. CASE ReceiverSendErr(e)
  <2>0. UNCHANGED <<sessions, entry, main, cleaner, sender, wrote>>
    BY <1>2 DEF ReceiverSendErr
  <2>1. /\ EntryTyped' /\ MainTyped' /\ CleanerTyped' /\ SenderTyped'
        /\ WithinSizes' /\ MainHolds' /\ CleanerHolds' /\ LifeInOrder'
        /\ TableExact' /\ CleanupMissesNone' /\ PolicyKept'
    BY <2>0 DEF EntryTyped, MainTyped, CleanerTyped, SenderTyped, WithinSizes, MainHolds,
        CleanerHolds, LifeInOrder, TableExact, CleanupMissesNone, PolicyKept
  <2>2. TableTyped'
    BY <1>2, <2>0 DEF ReceiverSendErr, TableTyped
  <2>3. ReceiverTyped'
    BY <1>2, <2>0 DEF ReceiverSendErr, ReceiverTyped
  <2>4. UnusedIsFree'
    BY <1>2, <2>0 DEF ReceiverSendErr, UnusedIsFree, Refer, MainHolds, TableExact,
        MainTyped, CleanerTyped, SenderTyped, ReceiverTyped, TableTyped
  <2>5. OneExit'
    BY <1>2, <2>0 DEF ReceiverSendErr, OneExit, MainExits, CleanerExits, SenderExits,
        ReceiverExits, MainHolds, CleanerHolds, UnusedIsFree, LifeInOrder, Refer,
        MainTyped, CleanerTyped, SenderTyped, ReceiverTyped
  <2> QED
    BY <2>1, <2>2, <2>3, <2>4, <2>5
<1>3. CASE ReceiverClose(e)
  <2>0. UNCHANGED <<linkUp, sessions, main, cleaner, sender, wrote>>
    BY <1>3 DEF ReceiverClose
  <2>1. /\ TableTyped' /\ MainTyped' /\ CleanerTyped' /\ SenderTyped'
        /\ MainHolds' /\ CleanerHolds'
    BY <2>0 DEF TableTyped, MainTyped, CleanerTyped, SenderTyped, MainHolds, CleanerHolds
  <2>2. ClosedNow(e)
    BY <1>3, CloseEffect DEF ReceiverClose
  <2>3. EntryTyped'
    BY <2>2 DEF ClosedNow
  <2>4. ReceiverTyped'
    BY <1>3, <2>0 DEF ReceiverClose, ReceiverTyped
  <2>5. WithinSizes'
    BY <1>3, <2>0, <2>2 DEF ReceiverClose, WithinSizes, ClosedNow, OthersSame, SamePolicy
  <2>6. UnusedIsFree'
    BY <1>3, <2>0, <2>2 DEF ReceiverClose, UnusedIsFree, Refer, MainHolds, TableExact,
        MainTyped, CleanerTyped, SenderTyped, ReceiverTyped, TableTyped, ClosedNow,
        OthersSame, SamePolicy
  <2>7. LifeInOrder'
    BY <1>3, <2>0, <2>2 DEF ReceiverClose, LifeInOrder, UnusedIsFree, Refer, SenderTyped,
        ClosedNow, OthersSame, SamePolicy
  <2>8. TableExact'
    BY <1>3, <2>0, <2>2 DEF ReceiverClose, TableExact, LifeInOrder, MainHolds, TableTyped,
        ClosedNow, OthersSame, SamePolicy
  <2>9. OneExit'
    BY <1>3, <2>0, <2>2 DEF ReceiverClose, OneExit, MainExits, CleanerExits, SenderExits,
        ReceiverExits, MainHolds, CleanerHolds, UnusedIsFree, LifeInOrder, Refer,
        MainTyped, CleanerTyped, SenderTyped, ReceiverTyped, ClosedNow, OthersSame,
        SamePolicy
  <2>10. CleanupMissesNone'
    BY <1>3, <2>0, <2>2 DEF ReceiverClose, CleanupMissesNone, TableExact, LifeInOrder,
        MainTyped, TableTyped, ClosedNow, OthersSame, SamePolicy
  <2>11. PolicyKept'
    BY <1>3, <2>0, <2>2 DEF ReceiverClose, PolicyKept, LifeInOrder, SenderTyped,
        ClosedNow, OthersSame, SamePolicy
  <2> QED
    BY <2>1, <2>3, <2>4, <2>5, <2>6, <2>7, <2>8, <2>9, <2>10, <2>11
<1>4. CASE ReceiverExit(e)
  <2>0. UNCHANGED <<linkUp, main, cleaner, sender, wrote>>
    BY <1>4 DEF ReceiverExit
  <2>1. /\ MainTyped' /\ CleanerTyped' /\ SenderTyped' /\ CleanerHolds'
    BY <2>0 DEF MainTyped, CleanerTyped, SenderTyped, CleanerHolds
  <2>2. ExitedNow(e)
    BY <1>4, ExitEffect DEF ReceiverExit
  <2>3. TableTyped'
    BY <1>4, <2>0, <2>2 DEF ReceiverExit, TableTyped, ExitedNow
  <2>4. EntryTyped'
    BY <2>2 DEF ExitedNow
  <2>5. ReceiverTyped'
    BY <1>4, <2>0, <2>2 DEF ReceiverExit, ReceiverTyped, ExitedNow
  <2>6. WithinSizes'
    BY <1>4, <2>0, <2>2 DEF ReceiverExit, WithinSizes, ExitedNow, OthersSame, SamePolicy
  <2>7. MainHolds'
    BY <1>4, <2>0, <2>2 DEF ReceiverExit, MainHolds, MainTyped, TableTyped, ExitedNow
  <2>8. UnusedIsFree'
    BY <1>4, <2>0, <2>2 DEF ReceiverExit, UnusedIsFree, Refer, MainHolds, TableExact,
        MainTyped, CleanerTyped, SenderTyped, ReceiverTyped, TableTyped, ExitedNow,
        OthersSame, SamePolicy
  <2>9. LifeInOrder'
    BY <1>4, <2>0, <2>2 DEF ReceiverExit, LifeInOrder, UnusedIsFree, Refer, SenderTyped,
        OneExit, MainExits, CleanerExits, SenderExits, ReceiverExits, ExitedNow,
        OthersSame, SamePolicy
  <2>10. TableExact'
    BY <1>4, <2>0, <2>2 DEF ReceiverExit, TableExact, LifeInOrder, MainHolds, TableTyped,
        OneExit, MainExits, CleanerExits, SenderExits, ReceiverExits, ExitedNow,
        OthersSame, SamePolicy
  <2>11. OneExit'
    BY <1>4, <2>0, <2>2 DEF ReceiverExit, OneExit, MainExits, CleanerExits, SenderExits,
        ReceiverExits, MainHolds, CleanerHolds, UnusedIsFree, LifeInOrder, Refer,
        MainTyped, CleanerTyped, SenderTyped, ReceiverTyped, ExitedNow, OthersSame,
        SamePolicy
  <2>12. CleanupMissesNone'
    BY <1>4, <2>0, <2>2 DEF ReceiverExit, CleanupMissesNone, TableExact, LifeInOrder,
        MainTyped, TableTyped, ExitedNow, OthersSame, SamePolicy
  <2>13. PolicyKept'
    BY <1>4, <2>0, <2>2 DEF ReceiverExit, PolicyKept, LifeInOrder, SenderTyped, ExitedNow,
        OthersSame, SamePolicy
  <2> QED
    BY <2>1, <2>3, <2>4, <2>5, <2>6, <2>7, <2>8, <2>9, <2>10, <2>11, <2>12, <2>13
<1>5. CASE ReceiverRead(e)
  <2>0. UNCHANGED <<linkUp, sessions, main, cleaner, sender, wrote>>
    BY <1>5 DEF ReceiverRead
  <2>1. /\ TableTyped' /\ MainTyped' /\ CleanerTyped' /\ SenderTyped'
        /\ MainHolds' /\ CleanerHolds'
    BY <2>0 DEF TableTyped, MainTyped, CleanerTyped, SenderTyped, MainHolds, CleanerHolds
  <2>2. /\ EntryTyped'
        /\ \A d \in Entry : /\ SameLife(d) /\ SamePolicy(d)
                            /\ Len(entry'[d].queue) <= QueueLen
    <3>1. entry[e] \in EntryState
      BY <1>5 DEF ReceiverRead, EntryTyped
    <3>2. entry' = [entry EXCEPT ![e] = [entry[e] EXCEPT !.age = 0]]
      BY <1>5 DEF ReceiverRead
    <3>3. [entry[e] EXCEPT !.age = 0] \in EntryState
      BY <3>1, Touched
    <3> QED
      BY <3>1, <3>2, <3>3 DEF EntryTyped, EntryState, SameLife, SamePolicy, WithinSizes
  <2>3. EntryTyped'
    BY <2>2
  <2>4. ReceiverTyped'
    BY <1>5, <2>0 DEF ReceiverRead, ReceiverTyped
  <2>5. WithinSizes'
    BY <1>5, <2>0, <2>2 DEF ReceiverRead, WithinSizes, SameLife, SamePolicy
  <2>6. UnusedIsFree'
    BY <1>5, <2>0, <2>2 DEF ReceiverRead, UnusedIsFree, Refer, MainHolds, TableExact,
        MainTyped, CleanerTyped, SenderTyped, ReceiverTyped, TableTyped, SameLife,
        SamePolicy
  <2>7. LifeInOrder'
    BY <1>5, <2>0, <2>2 DEF ReceiverRead, LifeInOrder, UnusedIsFree, Refer, SenderTyped,
        SameLife, SamePolicy
  <2>8. TableExact'
    BY <1>5, <2>0, <2>2 DEF ReceiverRead, TableExact, LifeInOrder, MainHolds, TableTyped,
        SameLife, SamePolicy
  <2>9. OneExit'
    BY <1>5, <2>0, <2>2 DEF ReceiverRead, OneExit, MainExits, CleanerExits, SenderExits,
        ReceiverExits, MainHolds, CleanerHolds, UnusedIsFree, LifeInOrder, Refer,
        MainTyped, CleanerTyped, SenderTyped, ReceiverTyped, SameLife, SamePolicy
  <2>10. CleanupMissesNone'
    BY <1>5, <2>0, <2>2 DEF ReceiverRead, CleanupMissesNone, TableExact, LifeInOrder,
        MainTyped, TableTyped, SameLife, SamePolicy
  <2>11. PolicyKept'
    BY <1>5, <2>0, <2>2 DEF ReceiverRead, PolicyKept, LifeInOrder, SenderTyped, SameLife,
        SamePolicy
  <2> QED
    BY <2>1, <2>3, <2>4, <2>5, <2>6, <2>7, <2>8, <2>9, <2>10, <2>11
<1>6. CASE ReceiverReadErr(e)
  <2>0. UNCHANGED <<linkUp, sessions, entry, main, cleaner, sender, wrote>>
    BY <1>6 DEF ReceiverReadErr
  <2>1. /\ TableTyped' /\ EntryTyped' /\ MainTyped' /\ CleanerTyped'
        /\ SenderTyped' /\ WithinSizes' /\ MainHolds' /\ CleanerHolds'
        /\ LifeInOrder' /\ TableExact' /\ CleanupMissesNone' /\ PolicyKept'
    BY <2>0 DEF TableTyped, EntryTyped, MainTyped, CleanerTyped, SenderTyped, WithinSizes,
        MainHolds, CleanerHolds, LifeInOrder, TableExact, CleanupMissesNone, PolicyKept
  <2>2. ReceiverTyped'
    BY <1>6, <2>0 DEF ReceiverReadErr, ReceiverTyped
  <2>3. UnusedIsFree'
    BY <1>6, <2>0 DEF ReceiverReadErr, UnusedIsFree, Refer, MainHolds, TableExact,
        MainTyped, CleanerTyped, SenderTyped, ReceiverTyped, TableTyped
  <2>4. OneExit'
    BY <1>6, <2>0 DEF ReceiverReadErr, OneExit, MainExits, CleanerExits, SenderExits,
        ReceiverExits, MainHolds, CleanerHolds, UnusedIsFree, LifeInOrder, Refer,
        MainTyped, CleanerTyped, SenderTyped, ReceiverTyped
  <2> QED
    BY <2>1, <2>2, <2>3, <2>4
<1> QED
  BY <1>1, <1>2, <1>3, <1>4, <1>5, <1>6 DEF ReceiverStep

(* Time.                                                                   *)
LEMMA TickHolds ==
  ASSUME UDPAssumption, IInv, Tick
  PROVE  IInv'
<1> USE DEF UDPAssumption, IInv
<1>1. CASE Tick
  <2>0. UNCHANGED <<linkUp, sessions, main, cleaner, sender, receiver, wrote>>
    BY <1>1 DEF Tick
  <2>1. /\ TableTyped' /\ MainTyped' /\ CleanerTyped' /\ SenderTyped'
        /\ ReceiverTyped' /\ MainHolds' /\ CleanerHolds'
    BY <2>0 DEF TableTyped, MainTyped, CleanerTyped, SenderTyped, ReceiverTyped,
        MainHolds, CleanerHolds
  <2>2. /\ EntryTyped'
        /\ \A d \in Entry : /\ SameLife(d) /\ SamePolicy(d)
                            /\ Len(entry'[d].queue) <= QueueLen
    <3>1. ASSUME NEW d \in Entry
          PROVE  /\ entry'[d] \in EntryState
                 /\ SameLife(d) /\ SamePolicy(d) /\ entry'[d].queue = entry[d].queue
      <4>1. entry[d] \in EntryState /\ entry[d].age \in 0..(IdleTimeout + 1)
        BY DEF EntryTyped, EntryState
      <4>2. CASE d \in Ageing
        <5>1. entry'[d] = [entry[d] EXCEPT !.age = entry[d].age + 1]
          BY <1>1, <4>2 DEF Tick
        <5>2. entry[d].age + 1 \in 0..(IdleTimeout + 1)
          BY <4>1, <4>2 DEF Ageing
        <5> QED
          BY <4>1, <5>1, <5>2 DEF EntryState, SameLife, SamePolicy
      <4>3. CASE d \notin Ageing
        BY <1>1, <4>1, <4>3 DEF Tick, SameLife, SamePolicy
      <4> QED
        BY <4>2, <4>3
    <3>2. entry' = [d \in Entry |-> entry'[d]]
      BY <1>1 DEF Tick
    <3> QED
      BY <3>1, <3>2 DEF EntryTyped, WithinSizes
  <2>3. EntryTyped'
    BY <2>2
  <2>4. WithinSizes'
    BY <1>1, <2>0, <2>2 DEF Tick, WithinSizes, SameLife, SamePolicy
  <2>5. UnusedIsFree'
    BY <1>1, <2>0, <2>2 DEF Tick, UnusedIsFree, Refer, MainHolds, TableExact, MainTyped,
        CleanerTyped, SenderTyped, ReceiverTyped, TableTyped, SameLife, SamePolicy
  <2>6. LifeInOrder'
    BY <1>1, <2>0, <2>2 DEF Tick, LifeInOrder, UnusedIsFree, Refer, SenderTyped, SameLife,
        SamePolicy
  <2>7. TableExact'
    BY <1>1, <2>0, <2>2 DEF Tick, TableExact, LifeInOrder, MainHolds, TableTyped,
        SameLife, SamePolicy
  <2>8. OneExit'
    BY <1>1, <2>0, <2>2 DEF Tick, OneExit, MainExits, CleanerExits, SenderExits,
        ReceiverExits, MainHolds, CleanerHolds, UnusedIsFree, LifeInOrder, Refer,
        MainTyped, CleanerTyped, SenderTyped, ReceiverTyped, SameLife, SamePolicy
  <2>9. CleanupMissesNone'
    BY <1>1, <2>0, <2>2 DEF Tick, CleanupMissesNone, TableExact, LifeInOrder, MainTyped,
        TableTyped, SameLife, SamePolicy
  <2>10. PolicyKept'
    BY <1>1, <2>0, <2>2 DEF Tick, PolicyKept, LifeInOrder, SenderTyped, SameLife,
        SamePolicy
  <2> QED
    BY <2>1, <2>3, <2>4, <2>5, <2>6, <2>7, <2>8, <2>9, <2>10
<1> QED
  BY <1>1
-----------------------------------------------------------------------------
(* A connection starts with an empty table.                                *)
LEMMA InitHolds == ASSUME UDPAssumption, Init PROVE IInv
<1>1. /\ TableTyped /\ MainTyped /\ CleanerTyped /\ SenderTyped /\ ReceiverTyped
  BY DEF Init, TableTyped, MainTyped, MainPc, CleanerTyped, SenderTyped, SenderPc, ReceiverTyped
<1>2. Unused \in EntryState
  <2>1. 0 \in 0..(IdleTimeout + 1) /\ <<>> \in Seq(Msg) /\ <<>> \in Cache
    BY EmptyCache DEF UDPAssumption
  <2> QED
    BY <2>1 DEF Unused, EntryState
<1>3. EntryTyped
  BY <1>2 DEF Init, EntryTyped
<1>4. \A e \in Entry : entry[e] = Unused
  BY DEF Init
<1>5. WithinSizes
  <2>1. Len(<<>>) = 0 /\ IsFiniteSet(DOMAIN <<>>) /\ Cardinality(DOMAIN <<>>) = 0
    BY EmptyCache, FS_EmptySet
  <2> QED
    BY <1>4, <2>1 DEF Unused, WithinSizes, UDPAssumption
<1>6. MainHolds /\ CleanerHolds
  BY DEF Init, MainHolds, CleanerHolds
<1>7. UnusedIsFree /\ LifeInOrder /\ TableExact /\ CleanupMissesNone
  BY <1>4 DEF Init, Unused, UnusedIsFree, Refer, LifeInOrder, TableExact, CleanupMissesNone,
       UDPAssumption
<1>8. OneExit
  BY <1>4 DEF Init, Unused, OneExit, MainExits, CleanerExits, SenderExits, ReceiverExits,
       UDPAssumption
<1>9. PolicyKept
  BY <1>4, EmptyCache DEF Init, Unused, PolicyKept
<1> QED
  BY <1>1, <1>3, <1>5, <1>6, <1>7, <1>8, <1>9 DEF IInv

(* A step that changes nothing.                                            *)
LEMMA StutterHolds == ASSUME IInv, UNCHANGED vars PROVE IInv'
<1>1. /\ (TableTyped /\ EntryTyped)'
      /\ (MainTyped /\ CleanerTyped /\ SenderTyped /\ ReceiverTyped)'
  BY DEF IInv, vars, TableTyped, EntryTyped, MainTyped, CleanerTyped, SenderTyped, ReceiverTyped
<1>2. (WithinSizes /\ MainHolds /\ CleanerHolds /\ UnusedIsFree /\ LifeInOrder /\ TableExact)'
  BY DEF IInv, vars, WithinSizes, MainHolds, CleanerHolds, UnusedIsFree, Refer, LifeInOrder,
         TableExact
<1>3. (OneExit /\ CleanupMissesNone /\ PolicyKept)'
  BY DEF IInv, vars, OneExit, MainExits, CleanerExits, SenderExits, ReceiverExits,
         CleanupMissesNone, PolicyKept
<1> QED
  BY <1>1, <1>2, <1>3 DEF IInv

(* Every step of every goroutine keeps it.                                 *)
LEMMA StepHolds == ASSUME UDPAssumption, IInv, [Next]_vars PROVE IInv'
<1>1. CASE \E msg \in Msg : Receive(msg)
  BY <1>1, ReceiveHolds
<1>2. CASE ReceiveErr
  BY <1>2, ReceiveErrHolds
<1>3. CASE MainStep
  BY <1>3, RunHolds
<1>4. CASE CleanerStep
  BY <1>4, CleanerKeeps
<1>5. ASSUME NEW e \in Entry, SenderStep(e)
      PROVE  IInv'
  BY <1>5, SenderHolds
<1>6. ASSUME NEW e \in Entry, ReceiverStep(e) \/ ReceiverRead(e) \/ ReceiverReadErr(e)
      PROVE  IInv'
  BY <1>6, ReceiverHolds
<1>7. CASE Tick
  BY <1>7, TickHolds
<1>8. CASE Over \/ UNCHANGED vars
  BY <1>8, StutterHolds DEF Over
<1> QED
  BY <1>1, <1>2, <1>3, <1>4, <1>5, <1>6, <1>7, <1>8 DEF Next

(***************************************************************************)
(* The table of udp.go is exactly the sessions whose ExitFunc has not run, *)
(* connLock keeps a dial and a close apart, and ExitFunc is owed by one    *)
(* goroutine at most: in every reachable state of every connection.        *)
(***************************************************************************)
THEOREM TableKept == ASSUME UDPAssumption PROVE Spec => []IInv
<1>1. Init => IInv
  BY InitHolds
<1>2. IInv /\ [Next]_vars => IInv'
  BY StepHolds
<1> QED
  BY <1>1, <1>2, PTL DEF Spec

(* What follows from the invariant in a state.                             *)
LEMMA IInvImplies ==
  ASSUME IInv PROVE OpenIsRegistered /\ RunLeavesNothingOpen /\ TypeOK
<1>1. OpenIsRegistered
  BY DEF IInv, LifeInOrder, TableExact, OpenIsRegistered
<1>2. RunLeavesNothingOpen
  BY DEF IInv, LifeInOrder, CleanupMissesNone, RunLeavesNothingOpen
<1>3. TypeOK
  <2>1. \A e \in Entry : entry[e] \in EntryState
    BY DEF IInv, EntryTyped
  <2>2. \A e \in Entry : /\ entry[e].id \in ID \cup {NoEntry}
                         /\ entry[e].conn \in {"none", "open", "shut"}
                         /\ entry[e].override \in Addr \cup {NoAddr}
                         /\ entry[e].age \in 0..(IdleTimeout + 1)
    BY <2>1 DEF EntryState
  <2> QED
    BY <2>2 DEF IInv, WithinSizes, TypeOK, TableTyped, MainTyped, MainPc, CleanerTyped,
          SenderTyped, SenderPc, ReceiverTyped
<1> QED
  BY <1>1, <1>2, <1>3

(* Nothing was written that the policy rejects.                            *)
LEMMA PolicyKeptWrites == ASSUME IInv PROVE WritesAllowed
BY DEF IInv, PolicyKept, WritesAllowed

(***************************************************************************)
(* A session's connection is open only while the session is in the table,  *)
(* so the cleanup that ends Run finds every one: a dial that was under way *)
(* when the connection went leaves nothing open either.                    *)
(***************************************************************************)
THEOREM OpenSessionsRegistered ==
  ASSUME UDPAssumption
  PROVE  Spec => [](OpenIsRegistered /\ RunLeavesNothingOpen /\ TypeOK)
<1>1. IInv => OpenIsRegistered /\ RunLeavesNothingOpen /\ TypeOK
  BY IInvImplies
<1> QED
  BY <1>1, TableKept, PTL

(***************************************************************************)
(* checkAddr and the hook: no datagram is written to an address the policy *)
(* has not accepted, however many addresses pass through the cache.        *)
(***************************************************************************)
THEOREM WritesObeyPolicy == ASSUME UDPAssumption PROVE Spec => []WritesAllowed
<1>1. IInv => WritesAllowed
  BY PolicyKeptWrites
<1> QED
  BY <1>1, TableKept, PTL

(* ExitFunc, called by the one that owes it, removes its own session.      *)
LEMMA ExitTakesOwn ==
  ASSUME UDPAssumption, IInv, NEW e \in Entry, ExitFunc(e), entry[e].closed, ~entry[e].exited
  PROVE  RemovesOwn
<1>1. ExitedNow(e)
  BY ExitEffect DEF IInv
<1>2. entry[e].id \in ID /\ sessions[entry[e].id] = e
  BY DEF IInv, LifeInOrder, TableExact
<1>3. sessions \in [ID -> Entry \cup {NoEntry}]
  BY DEF IInv, TableTyped
<1> QED
  BY <1>1, <1>2, <1>3 DEF ExitedNow, RemovesOwn

(* A step that leaves the table alone removes nothing.                     *)
LEMMA SameTable == ASSUME UNCHANGED sessions PROVE RemovesOwn
BY DEF RemovesOwn

(* No step takes another session out of the table than ExitFunc's own.     *)
LEMMA StepsRemoveOwn == ASSUME UDPAssumption, IInv, Next PROVE RemovesOwn
<1>1. ASSUME NEW msg \in Msg, Receive(msg) PROVE RemovesOwn
  BY <1>1, SameTable DEF Receive
<1>2. CASE ReceiveErr \/ Enqueue \/ MainScan \/ MainEnd \/ Tick
  BY <1>2, SameTable DEF ReceiveErr, Enqueue, MainScan, MainEnd, Tick
<1>3. ASSUME NEW e \in Entry, Create(e) PROVE RemovesOwn
  <2>1. main.msg.id \in ID /\ sessions[main.msg.id] = NoEntry
    BY <1>3 DEF Create, IInv, MainHolds, Msg
  <2> QED
    BY <1>3, <2>1 DEF Create, RemovesOwn, IInv, TableTyped
<1>4. ASSUME NEW e \in Entry, MainClose(e) \/ CleanerClose(e) PROVE RemovesOwn
  BY <1>4, SameTable DEF MainClose, CleanerClose
<1>5. CASE MainExit
  <2>1. main.at \in Entry /\ entry[main.at].closed /\ ~entry[main.at].exited
    BY <1>5 DEF MainExit, IInv, MainTyped, OneExit, MainExits
  <2> QED
    BY <1>5, <2>1, ExitTakesOwn DEF MainExit
<1>6. CASE CleanerScan \/ CleanerDone \/ CleanerStop
  BY <1>6, SameTable DEF CleanerScan, CleanerDone, CleanerStop
<1>7. CASE CleanerExit
  <2>1. cleaner.at \in Entry /\ entry[cleaner.at].closed /\ ~entry[cleaner.at].exited
    BY <1>7 DEF CleanerExit, IInv, CleanerTyped, OneExit, CleanerExits
  <2> QED
    BY <1>7, <2>1, ExitTakesOwn DEF CleanerExit
<1>8. ASSUME NEW e \in Entry, SenderStep(e) PROVE RemovesOwn
  <2>1. CASE SenderExit(e)
    BY <2>1, ExitTakesOwn DEF SenderExit, IInv, OneExit, SenderExits
  <2>2. ASSUME ~SenderExit(e) PROVE UNCHANGED sessions
    BY <1>8, <2>2 DEF SenderStep, SenderStop, SenderTake, InitConn, InitConnClosed, DialFunc,
          DialFuncErr, SenderClose, SenderWrite
  <2> QED
    BY <2>1, <2>2, SameTable
<1>9. ASSUME NEW e \in Entry, ReceiverStep(e) \/ ReceiverRead(e) \/ ReceiverReadErr(e)
      PROVE  RemovesOwn
  <2>1. CASE ReceiverExit(e)
    BY <2>1, ExitTakesOwn DEF ReceiverExit, IInv, OneExit, ReceiverExits
  <2>2. ASSUME ~ReceiverExit(e) PROVE UNCHANGED sessions
    BY <1>9, <2>2 DEF ReceiverStep, ReceiverSend, ReceiverSendErr, ReceiverClose,
          ReceiverRead, ReceiverReadErr
  <2> QED
    BY <2>1, <2>2, SameTable
<1>10. CASE Over
  BY <1>10, SameTable DEF Over, vars
<1> QED
  BY <1>1, <1>2, <1>3, <1>4, <1>5, <1>6, <1>7, <1>8, <1>9, <1>10
     DEF Next, MainStep, CleanerStep

(***************************************************************************)
(* However late ExitFunc runs and whoever runs it, the entry it removes is *)
(* its own: the identifier cannot have gone to a newer session meanwhile.  *)
(***************************************************************************)
THEOREM ExitsRemoveOwn == ASSUME UDPAssumption PROVE Spec => ExitRemovesOwn
<1>1. ASSUME IInv, [Next]_vars
      PROVE  [RemovesOwn]_vars
  BY <1>1, StepsRemoveOwn
<1> QED
  BY <1>1, TableKept, PTL DEF Spec, ExitRemovesOwn
=============================================================================
