---------------------------- MODULE MCNodeBridge ----------------------------
(* Model checking of NodeBridge: constants are given in the configurations. *)
EXTENDS NodeBridge
=============================================================================
