----------------------------- MODULE MCPageInput ----------------------------
(* Model checking PageInput.                                               *)
EXTENDS PageInput, TLC
=============================================================================
