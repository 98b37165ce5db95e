------------------------------ MODULE MCPaths -------------------------------
(***************************************************************************)
(* What a path does to packets, for TLC: NATs that have to be punched, and *)
(* datagrams too small for a payload, which crosses in fragments that are  *)
(* lost, repeated and overtaken. A behaviour is one of one of these parts, *)
(* as `part' says, while the other rests where it starts.                  *)
(***************************************************************************)
EXTENDS Integers, FiniteSets, Sequences

CONSTANTS
  (* UDPFrag: three payloads, of which two overflow a table of two groups. *)
  k1, k2, k3, Lengths, MaxLoad, MaxSizes, HeaderSize, i1, i2, i3, ByteRange, MaxEntries,
  MaxMessageSize, FragTimeout, MaxTime, MaxCopies,
  (* RealmPunch: two dials, or one whose event is delivered twice.         *)
  Nonces, MaxLoss, Timeout, BothEnds, Span, StrideProbes, Probes, Burst, MinPort, MaxPort,
  MaxPeerAddrs, EventBuffer

VARIABLES
  part,
  clock, length, limit, sent, panicked, wire, arrived, copies, entries, out, received,
  logged, got, touched, disturbed,
  hard, cone, dests, eng, attempts, events, relayed, inFlight, lost, runtimeClosed

fragVars == <<clock, length, limit, sent, panicked, wire, arrived, copies, entries, out,
              received, logged, got, touched, disturbed>>
punchVars == <<hard, cone, dests, eng, attempts, events, relayed, inFlight, lost,
               runtimeClosed>>
vars == <<part, fragVars, punchVars>>
-----------------------------------------------------------------------------
Frag == INSTANCE UDPFrag
  WITH Packet <- {k1, k2, k3}, PacketID <- {i1, i2, i3}, CutLengths <- 1..13,
       CutSizes <- 1..9, Timeout <- FragTimeout
Punch == INSTANCE RealmPunch
  WITH Draws <- <<17, 17, 35>>, net <- inFlight, closed <- runtimeClosed

ASSUME Frag!FragAssumption

(* Payloads are interchangeable, and so are identifiers: they are used in  *)
(* order here.  No group expires once there is a third payload to displace *)
(* one.                                                                    *)
InOrder ==
  LET used == {sent'[k][1].id : k \in {x \in {k1, k2, k3} : sent'[x] # <<>>}}
  IN  /\ limit'[k2] # 0 => limit'[k1] # 0
      /\ limit'[k3] # 0 => limit'[k2] # 0
      /\ i2 \in used => i1 \in used
      /\ i3 \in used => i2 \in used
      /\ limit'[k3] # 0 => clock' < 2

(* A packet is lost, an event is delivered twice or the client dials again, *)
(* but one of these at most.                                               *)
OneFault ==
  LET lossy == lost' > 0
      twice == \E n \in Nonces : relayed'[n] = 0 /\ eng'["cli"][n].st # "idle"
      again == eng'["cli"][2].st # "idle"
  IN  ~(lossy /\ twice) /\ ~(lossy /\ again) /\ ~(twice /\ again)

Init ==
  /\ part \in {"frag", "punch"}
  /\ part # "punch" => hard = [h \in {1, 2} |-> FALSE] /\ cone = hard
  /\ Frag!Init /\ Punch!Init
  \* only the first payload may be too large to reassemble
  /\ length[k2] = 3 /\ length[k3] = 3
  /\ part # "frag" => length[k1] = 3

OfFrag(A) ==
  part = "frag" /\ A /\ UNCHANGED <<part, punchVars>>
OfPunch(A) ==
  part = "punch" /\ A /\ UNCHANGED <<part, fragVars>>

Next ==
  \/ OfFrag(Frag!Next /\ InOrder)
  \/ OfPunch(Punch!Next /\ OneFault)

Spec == Init /\ [][Next]_vars
-----------------------------------------------------------------------------
(***************************************************************************)
(* FragUDPMessage and Defragger.Feed: the fragments of a payload fit their *)
(* datagrams and make it up, and what Feed hands on is, byte for byte, a   *)
(* payload that was sent, under the address it was sent to, whatever is    *)
(* lost, repeated or overtaken -- unless another payload cut into as many  *)
(* fragments drew the same identifier.                                     *)
(***************************************************************************)
Intact == part = "frag" => Frag!Intact /\ Frag!FragmentsFit

(***************************************************************************)
(* The Defragger's table keeps within its limits and accounts for exactly  *)
(* what it holds, and for that nobody else pays: a payload all of whose    *)
(* fragments arrive in time, with fewer than defraggerMaxEntries groups    *)
(* updated in between, is handed on ("dropping the newest group instead    *)
(* would be self-defeating").                                              *)
(***************************************************************************)
UndisturbedCompletes == part = "frag" => Frag!UndisturbedCompletes /\ Frag!GroupsAccounted

(***************************************************************************)
(* Punch: the address it returns becomes the QUIC server's, and what the   *)
(* client sends there next leaves by a mapping the server's NAT lets in.   *)
(***************************************************************************)
PunchedPathWorks == part = "punch" => Punch!PunchedPathWorks

(***************************************************************************)
(* newPunchPlan and runPunch: two ends that can be punched are, when       *)
(* nothing was lost and their attempts overlap, and two that cannot are    *)
(* told so; PunchPacketConn routes to exactly the responders that are      *)
(* running, whatever the realm delivers twice.                             *)
(***************************************************************************)
PunchableIsPunched == part = "punch" => Punch!PunchableIsPunched /\ Punch!RegisteredIsRunning
=============================================================================
