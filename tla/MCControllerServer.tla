------------------------- MODULE MCControllerServer -------------------------
(* A claim, vdevs and invocations for TLC to check ControllerServer with.  *)
EXTENDS ControllerServer

CONSTANTS n1, i1, i2, c1, c2
=============================================================================
