-------------------------- MODULE MCSetpointWrite --------------------------
(* Instances of SetpointWrite for TLC.                                     *)
EXTENDS SetpointWrite

CONSTANTS poll1, poll2
=============================================================================
