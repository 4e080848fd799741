--------------------------- MODULE MCEB300Session ---------------------------
(* Instances of EB300Session for TLC: two tasks that share a client.       *)
EXTENDS EB300Session

CONSTANTS t1, t2
=============================================================================
