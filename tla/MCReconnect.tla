---------------------------- MODULE MCReconnect -----------------------------
(***************************************************************************)
(* Reconnect for TLC: two callers and two path selectors, on two           *)
(* connections at most.                                                    *)
(***************************************************************************)
EXTENDS Reconnect

(***************************************************************************)
(* SwitchTo's three steps are all there or none, clientDo drops a client   *)
(* only when its connection is closed, and Close is permanent: a           *)
(* connection that lives is the one the client holds, runs the negotiated  *)
(* controller and measures its path, and after Close none lives -- save    *)
(* one on which a stream failed, which clientDo cannot tell from a closed  *)
(* connection.                                                             *)
(***************************************************************************)
HeldAndWhole == SwitchesWhole /\ DropsOnlyClosed /\ CloseIsFinal

(***************************************************************************)
(* Every call in progress when the client is closed, and every switch      *)
(* under way, comes to an end.                                             *)
(***************************************************************************)
CallsEnd == CallsEndAfterClose /\ SwitchesEnd
=============================================================================
