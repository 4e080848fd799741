--------------------------- MODULE MCToolSession ---------------------------
(* Instances of ToolSession for TLC: the bounds are in the cfg file.       *)
EXTENDS ToolSession
=============================================================================
