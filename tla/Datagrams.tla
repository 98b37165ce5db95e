----------------------------- MODULE Datagrams ------------------------------
(***************************************************************************)
(* What a packet connection promises the QUIC above it: a packet handed to *)
(* it may be lost, come twice or out of order, but what is handed up was   *)
(* sent, whole, by the peer it is said to be from. The one exception is a  *)
(* packet put together from parts the connection cannot tell apart; what   *)
(* a write that failed left under way is a source of parts only.           *)
(***************************************************************************)
CONSTANT Clash   \* the pairs of parts, of two packets, that may be confused

VARIABLES
  sent,       \* the packets handed to the connection, as sequences of parts
  torn,       \* those whose write failed
  delivered   \* the packets handed up

Init == sent = {} /\ torn = {} /\ delivered = {}

Send(p) == sent' = sent \cup {p} /\ UNCHANGED <<torn, delivered>>

Tear(p) == torn' = torn \cup {p} /\ UNCHANGED <<sent, delivered>>

(* Each part is in its place, and two of them were confused.               *)
Blend(p) ==
  /\ \A i \in DOMAIN p : \E q \in sent \cup torn : DOMAIN q = DOMAIN p /\ q[i] = p[i]
  /\ \E i, j \in DOMAIN p : <<p[i], p[j]>> \in Clash

Deliver(p) ==
  /\ p \in sent \/ Blend(p)
  /\ delivered' = delivered \cup {p}
  /\ UNCHANGED <<sent, torn>>

Next ==
  /\ sent' # sent \/ torn' # torn \/ delivered' # delivered
  /\ \E p \in sent' \cup torn' \cup delivered' : Send(p) \/ Tear(p) \/ Deliver(p)

Spec == Init /\ [][Next]_<<sent, torn, delivered>>
=============================================================================
