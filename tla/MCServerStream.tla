--------------------------- MODULE MCServerStream ---------------------------
(***************************************************************************)
(* ServerStream for TLC: one stream, whose user is kicked up to twice.     *)
(* What another stream does to it, ending the connection or using up a     *)
(* kick, ConnectionDies and the copiers of this one do too.                *)
(***************************************************************************)
EXTENDS ServerStream
=============================================================================
