------------------------- MODULE MCBurstReassembler -------------------------
(* Instances of BurstReassembler for TLC.                                  *)
EXTENDS BurstReassembler
=============================================================================
