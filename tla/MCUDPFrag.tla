------------------------------ MODULE MCUDPFrag -----------------------------
(***************************************************************************)
(* Instances of UDPFrag for TLC.                                           *)
(***************************************************************************)
EXTENDS UDPFrag

MCCutLengths == 1..13
MCCutSizes == 1..9

Interchangeable == Permutations(Packet) \cup Permutations(PacketID)
=============================================================================
