---------------------------- MODULE MCPathSelect ----------------------------
(***************************************************************************)
(* Instances of PathSelect for TLC.                                        *)
(***************************************************************************)
EXTENDS PathSelect

CONSTANTS h1, h2, h3

V4(i) == [ip |-> i, mapped |-> FALSE]
V6(i) == [ip |-> i, mapped |-> TRUE]

(* Two candidates, one in the v4-in-v6 form; the same without keep-alive;  *)
(* and no candidate at all.                                                *)
MCConfigs ==
  {[keepAlive |-> 1, idleTimeout |-> 4, candidates |-> <<V6(h1), V4(h2)>>],
   [keepAlive |-> 0, idleTimeout |-> 4, candidates |-> <<V4(h1)>>],
   [keepAlive |-> 1, idleTimeout |-> 0, candidates |-> <<>>]}

MCIp == {h1, h2, h3}
MCRTTs == {0, 1}
=============================================================================
