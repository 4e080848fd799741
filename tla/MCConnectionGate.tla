-------------------------- MODULE MCConnectionGate --------------------------
(* Instances of ConnectionGate for TLC: two setpoint writes and a poll.    *)
EXTENDS ConnectionGate

CONSTANTS w1, w2, poll
=============================================================================
