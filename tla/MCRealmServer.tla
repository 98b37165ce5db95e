---------------------------- MODULE MCRealmServer ---------------------------
(***************************************************************************)
(* RealmServer for TLC: one move of the host, one punch event and two      *)
(* requests that fail.                                                     *)
(***************************************************************************)
EXTENDS RealmServer

ASSUME RealmServerAssumption

(***************************************************************************)
(* realmServerRuntime: a session the rendezvous server forgot is noticed   *)
(* and replaced, a punch event is answered whatever became of its STUN     *)
(* lookup, unless its session ends first, and once the host stays where it *)
(* is its addresses are published, unless a heartbeat that carried them    *)
(* failed.                                                                 *)
(***************************************************************************)
StaysReachable == LossIsRepaired /\ EventIsAnswered /\ PublishedUnlessDropped
=============================================================================
