-------------------------- MODULE MCMainLoopSource --------------------------
(* Model checking MainLoopSource.                                          *)
EXTENDS MainLoopSource, TLC
=============================================================================
