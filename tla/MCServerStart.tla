--------------------------- MODULE MCServerStart ---------------------------
(***************************************************************************)
(* ServerStart for TLC: two processes, one after the other.                *)
(***************************************************************************)
EXTENDS ServerStart, ServerConfigs
=============================================================================
