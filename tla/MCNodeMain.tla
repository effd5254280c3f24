----------------------------- MODULE MCNodeMain -----------------------------
(* Model checking NodeMain: the main thread and the embed thread, UvRunOnce   *)
(* and one function of WebKit, one modal page.                              *)
EXTENDS NodeMain

CONSTANTS f1, p1
=============================================================================
