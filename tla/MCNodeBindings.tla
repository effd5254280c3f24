--------------------------- MODULE MCNodeBindings ---------------------------
(* Model checking NodeBindings.  The state space is finite as it stands: the  *)
(* counters are bounded by the protocol itself.                               *)
EXTENDS NodeBindings
=============================================================================
