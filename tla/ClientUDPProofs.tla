-------------------------- MODULE ClientUDPProofs ---------------------------
(***************************************************************************)
(* Proofs about ClientUDP, for every number of sessions, every size of the *)
(* channels and every range of identifiers.                                *)
(***************************************************************************)
EXTENDS ClientUDP, FiniteSetTheorems, SequenceTheorems, TLAPS

(* What the table has is open, under its own identifier.                   *)
TableOpen ==
  \A i \in SessionID : m[i] # NoConn => state[m[i]] = "open" /\ id[m[i]] = i

(* The lock feed holds for reading: the session it looked up stays where   *)
(* it was until the message is handed over.                                *)
FeedsTable == run.pc = "feed" => run.conn = m[run.id]

(* A channel has only messages for its session, and none before NewUDP.    *)
OwnMessages ==
  \A c \in Conn : /\ \A k \in DOMAIN ch[c] : ch[c][k] = id[c]
                  /\ state[c] = "none" => ch[c] = <<>>

(* closeCleanup refuses later sessions.                                    *)
EndedIsClosed == run.pc = "ended" => closed

IInv ==
  /\ TypeOK
  /\ TableOpen
  /\ FeedsTable
  /\ OwnMessages
  /\ EndedIsClosed
  /\ NoSendOnClosed

(***************************************************************************)
(* The identifier comes round after IdRange sessions (2^32 in the code).   *)
(* Up to then NewUDP gives out 1, 2, 3, ... and each session has its own.  *)
(***************************************************************************)
FewSessions == IsFiniteSet(Conn) /\ Cardinality(Conn) < IdRange

Opened == {c \in Conn : state[c] # "none"}

InSequence ==
  /\ nextID = IF Cardinality(Opened) + 1 = IdRange THEN 0 ELSE Cardinality(Opened) + 1
  /\ \A c \in Opened : id[c] \in 1..Cardinality(Opened)

FewInv == IInv /\ InSequence /\ RoutedRight /\ EndedClosesAll
-----------------------------------------------------------------------------
(* (i + 1) % n, for the identifiers.                                       *)
LEMMA FollowingValue ==
  ASSUME ClientUDPAssumption, NEW i \in SessionID
  PROVE  Following(i) = IF i + 1 = IdRange THEN 0 ELSE i + 1
BY DEF ClientUDPAssumption, SessionID, Following

(* The empty table of a new manager.                                       *)
LEMMA InitHolds ==
  ASSUME ClientUDPAssumption, Init
  PROVE  IInv
<1> USE DEF ClientUDPAssumption, Init, SessionID
<1>1. 1 % IdRange \in SessionID /\ 0 \in SessionID
  OBVIOUS
<1>2. TypeOK
  <2>1. closed \in BOOLEAN /\ linkUp \in BOOLEAN /\ panicked \in BOOLEAN
    BY Zenon
  <2>2. /\ ch \in [Conn -> Seq(SessionID)]
        /\ \A c \in Conn : Len(ch[c]) <= ChanSize
    OBVIOUS
  <2> QED
    BY <1>1, <2>1, <2>2 DEF TypeOK
<1>3. TableOpen /\ FeedsTable /\ OwnMessages /\ EndedIsClosed /\ NoSendOnClosed
  BY DEF TableOpen, FeedsTable, OwnMessages, EndedIsClosed, NoSendOnClosed
<1> QED
  BY <1>2, <1>3 DEF IInv

(* Every step of the receive loop, the callers and the connection keeps it. *)
LEMMA StepHolds ==
  ASSUME ClientUDPAssumption, IInv, [Next]_vars
  PROVE  IInv'
<1> USE DEF ClientUDPAssumption, IInv, SessionID, NotFeeding
<1>1. ASSUME NEW i \in SessionID, ReceiveMessage(i)
      PROVE  IInv'
  <2>1. TypeOK'
    BY <1>1 DEF ReceiveMessage, TypeOK
  <2>2. TableOpen'
    BY <1>1 DEF ReceiveMessage, TypeOK, TableOpen
  <2>3. FeedsTable'
    BY <1>1 DEF ReceiveMessage, TypeOK, FeedsTable
  <2>4. OwnMessages'
    BY <1>1 DEF ReceiveMessage, TypeOK, OwnMessages, TableOpen, FeedsTable
  <2>5. EndedIsClosed'
    BY <1>1 DEF ReceiveMessage, TypeOK, EndedIsClosed
  <2>6. NoSendOnClosed'
    BY <1>1 DEF ReceiveMessage, NoSendOnClosed, TypeOK, TableOpen, FeedsTable
  <2> QED
    BY <2>1, <2>2, <2>3, <2>4, <2>5, <2>6
<1>2. CASE feed
  <2>1. TypeOK'
    <3>1. \A c \in Conn : /\ Append(ch[c], run.id) \in Seq(SessionID)
                          /\ Len(Append(ch[c], run.id)) = Len(ch[c]) + 1
      BY DEF TypeOK
    <3>2. run.conn # NoConn => run.conn \in Conn
      BY DEF TypeOK
    <3>3. /\ ch' \in [Conn -> Seq(SessionID)]
          /\ \A c \in Conn : Len(ch'[c]) <= ChanSize
      <4>1. CASE ch' = ch
        BY <4>1 DEF TypeOK
      <4>2. CASE ch' # ch
        <5> HIDE DEF SessionID
        <5>1. /\ ch' = [ch EXCEPT ![run.conn] = Append(ch[run.conn], run.id)]
              /\ Len(ch[run.conn]) < ChanSize /\ run.conn \in Conn
          BY <1>2, <3>2, <4>2 DEF feed, HasRoom
        <5>2. ch \in [Conn -> Seq(SessionID)] /\ \A c \in Conn : Len(ch[c]) <= ChanSize
          BY DEF TypeOK
        <5>3. Len(ch[run.conn]) \in Nat /\ Len(ch[run.conn]) + 1 <= ChanSize
          BY <5>1, <5>2
        <5> QED
          BY <5>1, <5>2, <5>3, <3>1
      <4> QED
        BY <4>1, <4>2
    <3>4. panicked' \in BOOLEAN
      BY <1>2, Zenon DEF feed, TypeOK
    <3>5. run' \in [pc : {"receive", "feed", "ended"}, conn : Conn \cup {NoConn}, id : SessionID]
      <4>1. run' = [run EXCEPT !.pc = "receive", !.conn = NoConn, !.id = 0]
        BY <1>2 DEF feed
      <4>2. run \in [pc : {"receive", "feed", "ended"}, conn : Conn \cup {NoConn}, id : SessionID]
        BY DEF TypeOK
      <4>3. 0 \in SessionID
        OBVIOUS
      <4> HIDE DEF SessionID
      <4> QED
        BY <4>1, <4>2, <4>3
    <3> QED
      BY <1>2, <3>3, <3>4, <3>5 DEF feed, TypeOK
  <2>2. TableOpen'
    BY <1>2 DEF feed, HasRoom, TypeOK, TableOpen
  <2>3. FeedsTable'
    BY <1>2 DEF feed, HasRoom, TypeOK, FeedsTable
  <2>4. OwnMessages'
    <3>1. CASE ch' = ch
      BY <1>2, <3>1 DEF feed, OwnMessages
    <3>2. CASE ch' # ch
      <4> DEFINE d == run.conn
      <4>1. d \in Conn /\ state[d] = "open" /\ id[d] = run.id
        BY <1>2, <3>2 DEF feed, TypeOK, TableOpen, FeedsTable
      <4>2. ch' = [ch EXCEPT ![d] = Append(ch[d], run.id)]
        BY <1>2, <3>2 DEF feed
      <4>3. ch[d] \in Seq(SessionID) /\ run.id \in SessionID
        BY <4>1 DEF TypeOK
      <4>4. \A k \in DOMAIN Append(ch[d], run.id) : Append(ch[d], run.id)[k] = id[d]
        BY <4>1, <4>3 DEF OwnMessages
      <4> HIDE DEF d
      <4>5. ASSUME NEW c \in Conn
            PROVE  /\ \A k \in DOMAIN ch'[c] : ch'[c][k] = id[c]
                   /\ state[c] = "none" => ch'[c] = <<>>
        BY <4>1, <4>2, <4>4 DEF OwnMessages, TypeOK
      <4> QED
        BY <1>2, <4>5 DEF feed, OwnMessages
    <3> QED
      BY <3>1, <3>2
  <2>5. EndedIsClosed'
    BY <1>2 DEF feed, HasRoom, TypeOK, EndedIsClosed
  <2>6. NoSendOnClosed'
    BY <1>2 DEF feed, HasRoom, NoSendOnClosed, TypeOK, TableOpen, FeedsTable
  <2> QED
    BY <2>1, <2>2, <2>3, <2>4, <2>5, <2>6
<1>3. CASE LinkFails
  <2>1. TypeOK'
    BY <1>3 DEF LinkFails, TypeOK
  <2>2. TableOpen'
    BY <1>3 DEF LinkFails, TypeOK, TableOpen
  <2>3. FeedsTable'
    BY <1>3 DEF LinkFails, TypeOK, FeedsTable
  <2>4. OwnMessages'
    BY <1>3 DEF LinkFails, TypeOK, OwnMessages, TableOpen, FeedsTable
  <2>5. EndedIsClosed'
    BY <1>3 DEF LinkFails, TypeOK, EndedIsClosed
  <2>6. NoSendOnClosed'
    BY <1>3 DEF LinkFails, NoSendOnClosed, TypeOK, TableOpen, FeedsTable
  <2> QED
    BY <2>1, <2>2, <2>3, <2>4, <2>5, <2>6
<1>4. CASE closeCleanup
  <2>1. TypeOK'
    BY <1>4 DEF closeCleanup, Close, InTable, TypeOK
  <2>2. TableOpen'
    BY <1>4 DEF closeCleanup, Close, InTable, TypeOK, TableOpen
  <2>3. FeedsTable'
    BY <1>4 DEF closeCleanup, Close, InTable, TypeOK, FeedsTable
  <2>4. OwnMessages'
    BY <1>4 DEF closeCleanup, Close, InTable, TypeOK, OwnMessages, TableOpen, FeedsTable
  <2>5. EndedIsClosed'
    BY <1>4 DEF closeCleanup, Close, InTable, TypeOK, EndedIsClosed
  <2>6. NoSendOnClosed'
    BY <1>4 DEF closeCleanup, Close, InTable, NoSendOnClosed, TypeOK, TableOpen,
        FeedsTable
  <2> QED
    BY <2>1, <2>2, <2>3, <2>4, <2>5, <2>6
<1>5. ASSUME NEW c \in Conn, NewUDP(c)
      PROVE  IInv'
  <2>1. TypeOK'
    <3>1. Following(nextID) \in SessionID
      BY FollowingValue DEF TypeOK
    <3> QED
      BY <1>5, <3>1 DEF NewUDP, TypeOK
  <2>2. TableOpen'
    BY <1>5 DEF NewUDP, TypeOK, TableOpen
  <2>3. FeedsTable'
    BY <1>5 DEF NewUDP, TypeOK, FeedsTable
  <2>4. OwnMessages'
    BY <1>5 DEF NewUDP, TypeOK, OwnMessages, TableOpen, FeedsTable
  <2>5. EndedIsClosed'
    BY <1>5 DEF NewUDP, TypeOK, EndedIsClosed
  <2>6. NoSendOnClosed'
    BY <1>5 DEF NewUDP, NoSendOnClosed, TypeOK, TableOpen, FeedsTable
  <2> QED
    BY <2>1, <2>2, <2>3, <2>4, <2>5, <2>6
<1>6. ASSUME NEW c \in Conn, CloseFunc(c)
      PROVE  IInv'
  <2>1. TypeOK'
    BY <1>6 DEF CloseFunc, Close, TypeOK
  <2>2. TableOpen'
    BY <1>6 DEF CloseFunc, Close, TypeOK, TableOpen
  <2>3. FeedsTable'
    BY <1>6 DEF CloseFunc, Close, TypeOK, FeedsTable
  <2>4. OwnMessages'
    BY <1>6 DEF CloseFunc, Close, TypeOK, OwnMessages, TableOpen, FeedsTable
  <2>5. EndedIsClosed'
    BY <1>6 DEF CloseFunc, Close, TypeOK, EndedIsClosed
  <2>6. NoSendOnClosed'
    BY <1>6 DEF CloseFunc, Close, NoSendOnClosed, TypeOK, TableOpen, FeedsTable
  <2> QED
    BY <2>1, <2>2, <2>3, <2>4, <2>5, <2>6
<1>7. ASSUME NEW c \in Conn, ReceiveCall(c)
      PROVE  IInv'
  <2>1. TypeOK'
    BY <1>7 DEF ReceiveCall, TypeOK
  <2>2. TableOpen'
    BY <1>7 DEF ReceiveCall, TypeOK, TableOpen
  <2>3. FeedsTable'
    BY <1>7 DEF ReceiveCall, TypeOK, FeedsTable
  <2>4. OwnMessages'
    BY <1>7 DEF ReceiveCall, TypeOK, OwnMessages, TableOpen, FeedsTable
  <2>5. EndedIsClosed'
    BY <1>7 DEF ReceiveCall, TypeOK, EndedIsClosed
  <2>6. NoSendOnClosed'
    BY <1>7 DEF ReceiveCall, NoSendOnClosed, TypeOK, TableOpen, FeedsTable
  <2> QED
    BY <2>1, <2>2, <2>3, <2>4, <2>5, <2>6
<1>8. ASSUME NEW c \in Conn, ReceiveTake(c)
      PROVE  IInv'
  <2>1. TypeOK'
    <3>1. ch[c] \in Seq(SessionID) /\ ch[c] # <<>>
      BY <1>8 DEF ReceiveTake, TypeOK
    <3>2. Tail(ch[c]) \in Seq(SessionID) /\ Len(Tail(ch[c])) = Len(ch[c]) - 1
      BY <3>1, HeadTailProperties
    <3>3. /\ ch' \in [Conn -> Seq(SessionID)]
          /\ \A d \in Conn : Len(ch'[d]) <= ChanSize
      BY <1>8, <3>1, <3>2 DEF ReceiveTake, TypeOK
    <3> QED
      BY <1>8, <3>3 DEF ReceiveTake, TypeOK
  <2>2. TableOpen'
    BY <1>8 DEF ReceiveTake, TypeOK, TableOpen
  <2>3. FeedsTable'
    BY <1>8 DEF ReceiveTake, TypeOK, FeedsTable
  <2>4. OwnMessages'
    BY <1>8 DEF ReceiveTake, TypeOK, OwnMessages, TableOpen, FeedsTable
  <2>5. EndedIsClosed'
    BY <1>8 DEF ReceiveTake, TypeOK, EndedIsClosed
  <2>6. NoSendOnClosed'
    BY <1>8 DEF ReceiveTake, NoSendOnClosed, TypeOK, TableOpen, FeedsTable
  <2> QED
    BY <2>1, <2>2, <2>3, <2>4, <2>5, <2>6
<1>9. ASSUME NEW c \in Conn, ReceiveEOF(c)
      PROVE  IInv'
  <2>1. TypeOK'
    BY <1>9 DEF ReceiveEOF, TypeOK
  <2>2. TableOpen'
    BY <1>9 DEF ReceiveEOF, TypeOK, TableOpen
  <2>3. FeedsTable'
    BY <1>9 DEF ReceiveEOF, TypeOK, FeedsTable
  <2>4. OwnMessages'
    BY <1>9 DEF ReceiveEOF, TypeOK, OwnMessages, TableOpen, FeedsTable
  <2>5. EndedIsClosed'
    BY <1>9 DEF ReceiveEOF, TypeOK, EndedIsClosed
  <2>6. NoSendOnClosed'
    BY <1>9 DEF ReceiveEOF, NoSendOnClosed, TypeOK, TableOpen, FeedsTable
  <2> QED
    BY <2>1, <2>2, <2>3, <2>4, <2>5, <2>6
<1>10. CASE UNCHANGED vars
  BY <1>10 DEF vars, TypeOK, TableOpen, FeedsTable, OwnMessages, EndedIsClosed, NoSendOnClosed
<1> QED
  BY <1>1, <1>2, <1>3, <1>4, <1>5, <1>6, <1>7, <1>8, <1>9, <1>10 DEF Next, RunStep, ReaderStep

(* The table and the channels, for any number of sessions, the identifiers *)
(* having come round or not.                                               *)
THEOREM TableHolds ==
  ASSUME ClientUDPAssumption
  PROVE  Spec => []IInv
<1>1. Init => IInv
  BY InitHolds
<1>2. IInv /\ [Next]_vars => IInv'
  BY StepHolds
<1> QED
  BY <1>1, <1>2, PTL DEF Spec

(***************************************************************************)
(* feed never sends on a channel close has closed, which would end the     *)
(* process: not even when identifiers come round, and a session's place in *)
(* the table is taken over by another.                                     *)
(***************************************************************************)
THEOREM NeverSendsOnClosed ==
  ASSUME ClientUDPAssumption
  PROVE  Spec => []NoSendOnClosed
<1>1. IInv => NoSendOnClosed
  BY DEF IInv
<1> QED
  BY <1>1, TableHolds, PTL
-----------------------------------------------------------------------------
(* NewUDP adds one session to those opened, the others leave them alone.   *)
LEMMA OpenedGrows ==
  ASSUME ClientUDPAssumption, FewSessions, IInv, Next
  PROVE  /\ IsFiniteSet(Opened)
         /\ Cardinality(Opened) \in Nat
         /\ \/ Opened' = Opened /\ id' = id /\ nextID' = nextID
            \/ \E c \in Conn : /\ NewUDP(c)
                              /\ Cardinality(Opened') = Cardinality(Opened) + 1
                              /\ Cardinality(Opened') <= Cardinality(Conn)
<1> USE DEF IInv
<1>1. /\ IsFiniteSet(Opened) /\ Cardinality(Opened) \in Nat
      /\ IsFiniteSet(Opened') /\ Cardinality(Opened') <= Cardinality(Conn)
  BY FS_Subset, FS_CardinalityType DEF FewSessions, Opened
<1>2. ASSUME NEW c \in Conn, NewUDP(c)
      PROVE  Cardinality(Opened') = Cardinality(Opened) + 1
  <2>1. Opened' = Opened \cup {c} /\ c \notin Opened
    BY <1>2 DEF NewUDP, Opened, TypeOK
  <2> QED
    BY <1>1, <2>1, FS_AddElement
<1>3. ASSUME ~\E c \in Conn : NewUDP(c)
      PROVE  Opened' = Opened /\ id' = id /\ nextID' = nextID
  <2>1. CASE closeCleanup
    BY <2>1 DEF closeCleanup, Close, InTable, Opened, TypeOK, TableOpen
  <2>2. CASE \E c \in Conn : CloseFunc(c)
    BY <2>2 DEF CloseFunc, Close, Opened, TypeOK
  <2>3. CASE ~closeCleanup /\ ~\E c \in Conn : CloseFunc(c)
    BY <1>3, <2>3
    DEF Next, RunStep, ReaderStep, ReceiveMessage, feed, LinkFails, ReceiveCall, ReceiveTake,
        ReceiveEOF, Opened
  <2> QED
    BY <2>1, <2>2, <2>3
<1> QED
  BY <1>1, <1>2, <1>3

(* No identifier has been given out yet.                                   *)
LEMMA FewInit ==
  ASSUME ClientUDPAssumption, FewSessions, Init
  PROVE  FewInv
<1>1. IInv
  BY InitHolds
<1>2. Opened = {}
  BY DEF Init, Opened
<1>3. Cardinality(Opened) = 0
  BY <1>2, FS_EmptySet
<1>4. Cardinality(Conn) \in Nat
  BY FS_CardinalityType DEF FewSessions
<1>5. InSequence
  BY <1>2, <1>3, <1>4 DEF InSequence, Init, ClientUDPAssumption, FewSessions
<1>6. RoutedRight /\ EndedClosesAll
  BY DEF Init, RoutedRight, EndedClosesAll
<1> QED
  BY <1>1, <1>5, <1>6 DEF FewInv

(* A new session's identifier is none of those given before.               *)
LEMMA FewStep ==
  ASSUME ClientUDPAssumption, FewSessions, FewInv, [Next]_vars
  PROVE  FewInv'
<1> USE DEF FewInv
<1>0. IInv /\ IInv' /\ Cardinality(Conn) \in Nat
  BY StepHolds, FS_CardinalityType DEF FewSessions
<1>1. CASE UNCHANGED vars
  BY <1>0, <1>1 DEF vars, InSequence, Opened, RoutedRight, EndedClosesAll
<1>2. ASSUME NEW c \in Conn, NewUDP(c)
      PROVE  FewInv'
  <2> DEFINE n == Cardinality(Opened)
  <2>1. /\ n \in Nat /\ Cardinality(Opened') = n + 1 /\ n + 1 < IdRange
        /\ Opened' = Opened \cup {c}
    <3>1. Next /\ ~(Opened' = Opened)
      BY <1>0, <1>2 DEF Next, NewUDP, Opened, IInv, TypeOK
    <3>2. Opened' = Opened \cup {c}
      BY <1>0, <1>2 DEF NewUDP, Opened, IInv, TypeOK
    <3> QED
      BY <1>0, <3>1, <3>2, OpenedGrows DEF FewSessions, ClientUDPAssumption
  <2>2. nextID = n + 1 /\ nextID \in SessionID
    BY <1>0, <2>1 DEF InSequence, IInv, TypeOK
  <2> HIDE DEF n
  <2>3. InSequence'
    <3>1. nextID' = IF n + 2 = IdRange THEN 0 ELSE n + 2
      BY <1>2, <2>1, <2>2, FollowingValue DEF NewUDP
    <3>2. ASSUME NEW d \in Opened'
          PROVE  id'[d] \in 1..(n + 1)
      <4>1. CASE d = c
        BY <1>0, <1>2, <2>1, <2>2, <4>1 DEF NewUDP, IInv, TypeOK
      <4>2. CASE d # c
        <5>1. d \in Opened /\ id'[d] = id[d]
          BY <1>2, <2>1, <4>2 DEF NewUDP, IInv, TypeOK
        <5> QED
          BY <2>1, <5>1 DEF InSequence, n
      <4> QED
        BY <4>1, <4>2
    <3>3. n + 2 = Cardinality(Opened') + 1
      BY <2>1
    <3> QED
      BY <2>1, <3>1, <3>2, <3>3 DEF InSequence
  <2>4. \A d \in Conn : state[d] = "open" => id[d] # nextID
    BY <2>1, <2>2 DEF InSequence, Opened, n
  <2>5. RoutedRight'
    BY <1>0, <1>2, <2>2, <2>4 DEF NewUDP, RoutedRight, IInv, TypeOK, OwnMessages
  <2>6. EndedClosesAll'
    BY <1>0, <1>2 DEF NewUDP, EndedClosesAll, IInv, EndedIsClosed
  <2> QED
    BY <1>0, <2>3, <2>5, <2>6
<1>3. CASE Next /\ ~\E c \in Conn : NewUDP(c)
  <2>1. InSequence'
    BY <1>0, <1>3, OpenedGrows DEF InSequence
  <2>2. RoutedRight' /\ EndedClosesAll'
    <3>1. \A c \in Conn : \A k \in DOMAIN ch'[c] : ch'[c][k] = id'[c]
      BY <1>0 DEF IInv, OwnMessages
    <3>2. CASE closeCleanup
      <4>1. \A c \in Conn : state[c] = "open" => c \in InTable
        BY <1>0 DEF RoutedRight, InTable, IInv, TypeOK, ClientUDPAssumption
      <4>2. \A c \in Conn : state'[c] # "open"
        BY <3>2, <4>1 DEF closeCleanup, Close
      <4> QED
        BY <3>1, <4>2 DEF RoutedRight, EndedClosesAll
    <3>3. CASE \E c \in Conn : CloseFunc(c)
      <4> PICK c \in Conn : CloseFunc(c)
        BY <3>3
      <4> QED
        BY <3>1, <1>0 DEF CloseFunc, Close, RoutedRight, EndedClosesAll, IInv, TypeOK
    <3>4. CASE ~closeCleanup /\ ~\E c \in Conn : CloseFunc(c)
      <4>1. m' = m /\ state' = state /\ id' = id
        BY <1>3, <3>4
        DEF Next, RunStep, ReaderStep, ReceiveMessage, feed, LinkFails, ReceiveCall,
            ReceiveTake, ReceiveEOF
      <4>2. run'.pc = "ended" => run.pc = "ended"
        <5>1. run' = run \/ feed \/ \E i \in SessionID : ReceiveMessage(i)
          BY <1>3, <3>4
          DEF Next, RunStep, ReaderStep, LinkFails, ReceiveCall, ReceiveTake, ReceiveEOF
        <5>2. feed => run'.pc = "receive"
          BY <1>0 DEF feed, IInv, TypeOK
        <5>3. \A i \in SessionID : ReceiveMessage(i) => run'.pc = "feed"
          BY DEF ReceiveMessage
        <5> QED
          BY <5>1, <5>2, <5>3
      <4> QED
        BY <3>1, <4>1, <4>2 DEF RoutedRight, EndedClosesAll
    <3> QED
      BY <3>2, <3>3, <3>4
  <2> QED
    BY <1>0, <2>1, <2>2
<1> QED
  BY <1>1, <1>2, <1>3

(* What follows from it in a state.                                        *)
LEMMA FewImplies ==
  ASSUME FewInv
  PROVE  RoutedRight /\ NoSendOnClosed /\ EndedClosesAll /\ TypeOK
BY DEF FewInv, IInv

(***************************************************************************)
(* As long as the identifiers of a connection have not come round: the     *)
(* table has every open session under its identifier and a channel holds   *)
(* only its session's messages, nothing is sent on a closed channel, and   *)
(* when run has ended no session is open whose Receive would never return. *)
(***************************************************************************)
THEOREM SessionsRouted ==
  ASSUME ClientUDPAssumption, FewSessions
  PROVE  Spec => [](RoutedRight /\ NoSendOnClosed /\ EndedClosesAll /\ TypeOK)
<1>1. Init => FewInv
  BY FewInit
<1>2. FewInv /\ [Next]_vars => FewInv'
  BY FewStep
<1>3. FewInv => RoutedRight /\ NoSendOnClosed /\ EndedClosesAll /\ TypeOK
  BY FewImplies
<1> QED
  BY <1>1, <1>2, <1>3, PTL DEF Spec
=============================================================================
